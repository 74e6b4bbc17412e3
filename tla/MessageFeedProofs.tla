------------------------- MODULE MessageFeedProofs -------------------------
(***************************************************************************)
(* What every implementation of MessageFeed has from it, whatever its      *)
(* messages are, as long as it accepts none of them twice.                 *)
(***************************************************************************)
EXTENDS MessageFeed, SequenceTheorems, TLAPS

CONSTANT S  \* the messages

\* The messages that came, whenever that was.
Came(m) == \E p \in DOMAIN got : got[p] = m

Accepted ==
    /\ feed \in Seq(S)
    /\ \A i, j \in DOMAIN feed : feed[i] = feed[j] => i = j

\* What came was accepted; and of what is not answered for, whatever came was
\* preceded by all that is in front of it.
FeedInv ==
    /\ got \in Seq(S) /\ upto \in 0..Len(feed)
    /\ \A p \in DOMAIN got : \E i \in DOMAIN feed : got[p] = feed[i]
    /\ \A i \in DOMAIN feed : i > upto /\ Came(feed[i]) => \A k \in (upto + 1)..i : Came(feed[k])
    /\ NewsInOrder

LEMMA Domains ==
    ASSUME NEW s \in Seq(S)
    PROVE  Len(s) \in Nat /\ DOMAIN s = 1..Len(s) /\ \A i \in 1..Len(s) : s[i] \in S
BY LenProperties, ElementOfSeq

\* What is accepted later changes nothing of what came.
LEMMA AcceptKeeps ==
    ASSUME Accepted, Accepted', FeedInv, Accept
    PROVE  FeedInv'
<1>1. /\ Len(feed) \in Nat /\ DOMAIN feed = 1..Len(feed)
      /\ Len(feed') \in Nat /\ DOMAIN feed' = 1..Len(feed')
      /\ Len(feed) <= Len(feed')
      /\ got' = got /\ upto' = upto /\ upto \in 0..Len(feed)
  BY Domains DEF Accepted, Accept, FeedInv
<1>2. \A i \in 1..Len(feed) : i \in 1..Len(feed') /\ feed'[i] = feed[i]
  <2> SUFFICES ASSUME NEW i \in 1..Len(feed) PROVE i \in 1..Len(feed') /\ feed'[i] = feed[i]
    OBVIOUS
  <2>1. SubSeq(feed', 1, Len(feed)) = feed /\ feed' \in Seq(S)
    BY DEF Accept, Accepted
  <2>2. SubSeq(feed', 1, Len(feed))[i] = feed'[i]
    BY <1>1, <2>1
  <2> QED BY <1>1, <2>1, <2>2
<1>3. \A p \in DOMAIN got : \E i \in 1..Len(feed) : got[p] = feed'[i]
  BY <1>1, <1>2 DEF FeedInv
<1>4. \A j \in DOMAIN feed' : Came(feed'[j]) => j \in 1..Len(feed)
  <2> SUFFICES ASSUME NEW j \in DOMAIN feed', NEW p \in DOMAIN got, got[p] = feed'[j]
               PROVE  j \in 1..Len(feed)
    BY DEF Came
  <2>1. PICK i \in 1..Len(feed) : got[p] = feed'[i]
    BY <1>3
  <2> QED BY <1>1, <1>2, <2>1 DEF Accepted
<1>5. \A i \in DOMAIN feed' : i > upto /\ Came(feed'[i]) => \A k \in (upto + 1)..i : Came(feed'[k])
  <2> SUFFICES ASSUME NEW i \in DOMAIN feed', i > upto, Came(feed'[i]), NEW k \in (upto + 1)..i
               PROVE  Came(feed'[k])
    OBVIOUS
  <2>1. i \in 1..Len(feed) /\ k \in 1..Len(feed)
    BY <1>1, <1>4
  <2>2. Came(feed[i])
    BY <1>2, <2>1
  <2>3. Came(feed[k])
    BY <1>1, <2>1, <2>2 DEF FeedInv
  <2> QED BY <1>2, <2>1, <2>3
<1>6. NewsInOrder'
  <2> SUFFICES ASSUME NEW p \in DOMAIN got, NEW q \in DOMAIN got,
                      NEW i \in DOMAIN feed', NEW j \in DOMAIN feed',
                      p < q, i < j, got[p] = feed'[j], got[q] = feed'[i]
               PROVE  \E r \in 1..(p - 1) : got[r] = feed'[i]
    BY <1>1 DEF NewsInOrder
  <2>1. i \in 1..Len(feed) /\ j \in 1..Len(feed)
    BY <1>4 DEF Came
  <2>2. got[p] = feed[j] /\ got[q] = feed[i] /\ feed'[i] = feed[i]
    BY <1>2, <2>1
  <2> QED BY <1>1, <2>1, <2>2 DEF FeedInv, NewsInOrder
<1>7. (\A i \in DOMAIN feed : i > upto /\ Came(feed[i]) => \A k \in (upto + 1)..i : Came(feed[k]))'
  BY <1>1, <1>5 DEF Came
<1>8. got \in Seq(S) /\ upto \in 0..Len(feed')
  BY <1>1 DEF FeedInv
<1> QED BY <1>1, <1>2, <1>3, <1>6, <1>7, <1>8 DEF FeedInv

\* A stretch that arrives: what came before, then the stretch.
LEMMA Arrival ==
    ASSUME Accepted, FeedInv, NEW n \in (upto + 1)..Len(feed),
           got' = got \o SubSeq(feed, upto + 1, n)
    PROVE  /\ got' \in Seq(S) /\ Len(got') = Len(got) + (n - upto)
           /\ \A p \in 1..Len(got) : got'[p] = got[p]
           /\ \A k \in (upto + 1)..n : got'[Len(got) + (k - upto)] = feed[k]
           /\ \A p \in (Len(got) + 1)..Len(got') :
                /\ upto + (p - Len(got)) \in (upto + 1)..n
                /\ got'[p] = feed[upto + (p - Len(got))]
<1> DEFINE s == SubSeq(feed, upto + 1, n)
<1>1. /\ feed \in Seq(S) /\ got \in Seq(S) /\ Len(feed) \in Nat /\ Len(got) \in Nat
      /\ upto \in 0..Len(feed) /\ n \in Nat /\ upto < n /\ n <= Len(feed)
  BY Domains DEF Accepted, FeedInv
<1>2. /\ s \in Seq(S) /\ Len(s) = n - upto
      /\ \A m \in 1..(n - upto) : s[m] = feed[upto + m]
  <2>1. upto + 1 \in 1..Len(feed) /\ n \in 1..Len(feed)
    BY <1>1
  <2>2. /\ s \in Seq(S) /\ Len(s) = n - (upto + 1) + 1
        /\ \A m \in 1..Len(s) : s[m] = feed[(upto + 1) + m - 1]
    BY <1>1, <2>1, SubSeqProperties, Domains
  <2> HIDE DEF s
  <2>3. Len(s) = n - upto
    BY <1>1, <2>2
  <2>4. \A m \in 1..(n - upto) : (upto + 1) + m - 1 = upto + m
    BY <1>1
  <2> QED BY <2>2, <2>3, <2>4
<1>3. got' = got \o s
  OBVIOUS
<1> HIDE DEF s
<1>4. /\ got' \in Seq(S) /\ Len(got') = Len(got) + (n - upto)
      /\ \A p \in 1..(Len(got) + (n - upto)) :
            got'[p] = IF p <= Len(got) THEN got[p] ELSE s[p - Len(got)]
  BY <1>1, <1>2, <1>3, ConcatProperties
<1>5. ASSUME NEW k \in (upto + 1)..n PROVE got'[Len(got) + (k - upto)] = feed[k]
  <2>1. /\ Len(got) + (k - upto) \in 1..(Len(got) + (n - upto))
        /\ ~(Len(got) + (k - upto) <= Len(got))
        /\ (Len(got) + (k - upto)) - Len(got) = k - upto
        /\ k - upto \in 1..(n - upto) /\ upto + (k - upto) = k
    BY <1>1
  <2>2. got'[Len(got) + (k - upto)] = s[k - upto]
    BY <1>4, <2>1
  <2> QED BY <1>2, <2>1, <2>2
<1>6. ASSUME NEW p \in (Len(got) + 1)..Len(got')
      PROVE  /\ upto + (p - Len(got)) \in (upto + 1)..n
             /\ got'[p] = feed[upto + (p - Len(got))]
  <2>1. /\ p \in 1..(Len(got) + (n - upto)) /\ ~(p <= Len(got))
        /\ p - Len(got) \in 1..(n - upto) /\ upto + (p - Len(got)) \in (upto + 1)..n
    BY <1>1, <1>4
  <2> QED BY <1>2, <1>4, <2>1
<1>7. \A p \in 1..Len(got) : got'[p] = got[p]
  <2> SUFFICES ASSUME NEW p \in 1..Len(got) PROVE got'[p] = got[p]
    OBVIOUS
  <2>1. p \in 1..(Len(got) + (n - upto)) /\ p <= Len(got)
    BY <1>1
  <2> QED BY <1>4, <2>1
<1> QED BY <1>4, <1>5, <1>6, <1>7

LEMMA DeliverKeeps ==
    ASSUME Accepted, FeedInv, Deliver
    PROVE  FeedInv'
<1>1. PICK n \in (upto + 1)..Len(feed) :
        got' = got \o SubSeq(feed, upto + 1, n) /\ upto' \in {upto, n} /\ feed' = feed
  BY DEF Deliver
<1>2. /\ Len(feed) \in Nat /\ DOMAIN feed = 1..Len(feed) /\ feed \in Seq(S)
      /\ Len(got) \in Nat /\ DOMAIN got = 1..Len(got) /\ got \in Seq(S)
      /\ upto \in 0..Len(feed) /\ n \in Nat /\ upto < n /\ n <= Len(feed)
  BY Domains DEF Accepted, FeedInv
<1>3. /\ got' \in Seq(S) /\ Len(got') = Len(got) + (n - upto)
      /\ \A p \in 1..Len(got) : got'[p] = got[p]
      /\ \A k \in (upto + 1)..n : got'[Len(got) + (k - upto)] = feed[k]
      /\ \A p \in (Len(got) + 1)..Len(got') :
            /\ upto + (p - Len(got)) \in (upto + 1)..n
            /\ got'[p] = feed[upto + (p - Len(got))]
  BY <1>1, Arrival
<1>4. DOMAIN got' = 1..Len(got') /\ Len(got') \in Nat
  BY <1>3, Domains
<1>5. \A p \in DOMAIN got' : p \in 1..Len(got) \/ p \in (Len(got) + 1)..Len(got')
  BY <1>2, <1>4
<1>6. \A i \in DOMAIN feed : i <= upto \/ ~Came(feed[i])
                             \/ \A k \in (upto + 1)..i : Came(feed[k])
  BY <1>2 DEF FeedInv
\* What came, after the step.
<1>7. \A i \in DOMAIN feed : Came(feed[i]) => Came(feed[i])'
  BY <1>1, <1>2, <1>3, <1>4 DEF Came
<1>8. \A k \in (upto + 1)..n : Came(feed[k])'
  <2> SUFFICES ASSUME NEW k \in (upto + 1)..n PROVE Came(feed[k])'
    OBVIOUS
  <2>1. Len(got) + (k - upto) \in DOMAIN got'
    BY <1>2, <1>3, <1>4
  <2> QED BY <1>1, <1>3, <2>1 DEF Came
<1>9. \A i \in DOMAIN feed : Came(feed[i])' => Came(feed[i]) \/ i \in (upto + 1)..n
  <2> SUFFICES ASSUME NEW i \in DOMAIN feed, NEW p \in DOMAIN got', got'[p] = feed[i]
               PROVE  Came(feed[i]) \/ i \in (upto + 1)..n
    BY <1>1 DEF Came
  <2>1. CASE p \in 1..Len(got)
    BY <1>2, <1>3, <2>1 DEF Came
  <2>2. CASE p \in (Len(got) + 1)..Len(got')
    <3>1. /\ upto + (p - Len(got)) \in (upto + 1)..n
          /\ feed[upto + (p - Len(got))] = feed[i]
      BY <1>3, <2>2
    <3>2. upto + (p - Len(got)) \in DOMAIN feed
      BY <1>2, <3>1
    <3>3. upto + (p - Len(got)) = i
      BY <3>1, <3>2 DEF Accepted
    <3> QED BY <3>1, <3>3
  <2> QED BY <1>5, <2>1, <2>2
<1>10. \A p \in DOMAIN got' : \E i \in DOMAIN feed : got'[p] = feed[i]
  <2> SUFFICES ASSUME NEW p \in DOMAIN got' PROVE \E i \in DOMAIN feed : got'[p] = feed[i]
    OBVIOUS
  <2>1. CASE p \in 1..Len(got)
    BY <1>2, <1>3, <2>1 DEF FeedInv
  <2>2. CASE p \in (Len(got) + 1)..Len(got')
    <3>1. upto + (p - Len(got)) \in DOMAIN feed
      BY <1>2, <1>3, <2>2
    <3> QED BY <1>3, <2>2, <3>1
  <2> QED BY <1>5, <2>1, <2>2
<1>11. ASSUME NEW u \in Nat, upto <= u
       PROVE  \A i \in 1..Len(feed) : i > u /\ Came(feed[i])' => \A k \in (u + 1)..i : Came(feed[k])'
  <2> SUFFICES ASSUME NEW i \in 1..Len(feed), i > u, Came(feed[i])', NEW k \in (u + 1)..i
               PROVE  Came(feed[k])'
    OBVIOUS
  <2>1. k \in 1..Len(feed) /\ k \in (upto + 1)..i /\ i > upto
    BY <1>2, <1>11
  <2>2. CASE i \in (upto + 1)..n
    BY <1>2, <1>8, <2>1, <2>2
  <2>3. CASE Came(feed[i])
    BY <1>6, <1>7, <2>1, <2>3, <1>2
  <2> QED BY <1>2, <1>9, <2>2, <2>3
\* An older message behind a newer one was there before.
<1>12. ASSUME NEW p \in DOMAIN got', NEW q \in DOMAIN got',
              NEW i \in DOMAIN feed, NEW j \in DOMAIN feed,
              p < q, i < j, got'[p] = feed[j], got'[q] = feed[i]
       PROVE  \E r \in 1..(p - 1) : got'[r] = feed[i]
  <2>1. CASE q \in 1..Len(got)
    <3>0. p \in 1..Len(got)
      BY <1>2, <1>4, <1>12, <2>1
    <3>1. p \in 1..Len(got) /\ got[p] = feed[j] /\ got[q] = feed[i]
      BY <1>3, <1>12, <2>1, <3>0
    <3>2. PICK r \in 1..(p - 1) : got[r] = feed[i]
      BY <1>2, <1>12, <2>1, <3>1 DEF FeedInv, NewsInOrder
    <3>3. r \in 1..Len(got)
      BY <1>2, <3>1
    <3> QED BY <1>3, <3>2, <3>3
  <2>2. CASE q \in (Len(got) + 1)..Len(got')
    <3>1. /\ upto + (q - Len(got)) \in (upto + 1)..n
          /\ feed[upto + (q - Len(got))] = feed[i]
      BY <1>3, <1>12, <2>2
    <3>2. upto + (q - Len(got)) \in DOMAIN feed
      BY <1>2, <3>1
    <3>3. upto + (q - Len(got)) = i
      BY <3>1, <3>2 DEF Accepted
    <3>4. CASE p \in (Len(got) + 1)..Len(got')
      <4>1. /\ upto + (p - Len(got)) \in (upto + 1)..n
            /\ feed[upto + (p - Len(got))] = feed[j]
        BY <1>3, <1>12, <3>4
      <4>2. upto + (p - Len(got)) \in DOMAIN feed
        BY <1>2, <4>1
      <4>3. upto + (p - Len(got)) = j
        BY <4>1, <4>2 DEF Accepted
      <4>4. p \in Nat /\ q \in Nat /\ i \in Nat /\ j \in Nat
        <5>1. p \in 1..Len(got') /\ q \in 1..Len(got') /\ i \in 1..Len(feed) /\ j \in 1..Len(feed)
          BY <1>2, <1>4, <1>12
        <5> QED BY <5>1
      <4> QED BY <1>2, <1>12, <3>3, <4>3, <4>4
    <3>5. CASE p \in 1..Len(got)
      <4>1. got[p] = feed[j]
        BY <1>3, <1>12, <3>5
      <4>2. Came(feed[j])
        BY <1>2, <3>5, <4>1 DEF Came
      <4>3. i > upto /\ j > upto /\ i \in (upto + 1)..j
        BY <1>2, <1>12, <3>1, <3>3
      <4>4. Came(feed[i])
        BY <1>2, <1>6, <4>2, <4>3
      <4>5. PICK r \in DOMAIN got : got[r] = feed[i]
        BY <4>4 DEF Came
      <4>6. CASE r < p
        <5>1. r \in 1..Len(got) /\ r \in 1..(p - 1)
          BY <1>2, <3>5, <4>5, <4>6
        <5> QED BY <1>3, <4>5, <5>1
      <4>7. CASE r = p
        <5>1. feed[i] = feed[j]
          BY <4>1, <4>5, <4>7
        <5> QED BY <1>2, <1>12, <5>1 DEF Accepted
      <4>8. CASE p < r
        <5>1. PICK x \in 1..(p - 1) : got[x] = feed[i]
          BY <1>2, <1>12, <3>5, <4>1, <4>5, <4>8 DEF FeedInv, NewsInOrder
        <5>2. x \in 1..Len(got)
          BY <1>2, <3>5
        <5> QED BY <1>3, <5>1, <5>2
      <4> QED BY <1>2, <3>5, <4>5, <4>6, <4>7, <4>8
    <3> QED BY <1>5, <3>4, <3>5
  <2> QED BY <1>5, <2>1, <2>2
<1>13. NewsInOrder'
  <2> SUFFICES ASSUME NEW p \in DOMAIN got', NEW q \in DOMAIN got',
                      NEW i \in DOMAIN feed', NEW j \in DOMAIN feed',
                      p < q, i < j, got'[p] = feed'[j], got'[q] = feed'[i]
               PROVE  \E r \in 1..(p - 1) : got'[r] = feed'[i]
    BY Zenon DEF NewsInOrder
  <2>1. feed' = feed
    BY <1>1
  <2> QED BY <1>12, <2>1
<1>14. upto' \in 0..Len(feed) /\ upto' \in Nat /\ upto <= upto'
  <2>1. CASE upto' = upto
    BY <1>2, <2>1
  <2>2. CASE upto' = n
    BY <1>2, <2>2
  <2> QED BY <1>1, <2>1, <2>2
<1>15. (\A i \in DOMAIN feed : i > upto /\ Came(feed[i]) => \A k \in (upto + 1)..i : Came(feed[k]))'
  <2>1. feed' = feed
    BY <1>1
  <2>2. \A i \in 1..Len(feed) : i > upto' /\ Came(feed[i])' => \A k \in (upto' + 1)..i : Came(feed[k])'
    BY <1>11, <1>14
  <2> QED BY <1>2, <2>1, <2>2 DEF Came
<1>16. (\A p \in DOMAIN got : \E i \in DOMAIN feed : got[p] = feed[i])'
  BY <1>1, <1>10
<1> QED BY <1>1, <1>3, <1>13, <1>14, <1>15, <1>16 DEF FeedInv

LEMMA AnswerKeeps ==
    ASSUME Accepted, FeedInv, Answer
    PROVE  FeedInv'
<1>1. /\ Len(feed) \in Nat /\ DOMAIN feed = 1..Len(feed) /\ upto \in 0..Len(feed)
      /\ upto' \in (upto + 1)..Len(feed) /\ feed' = feed /\ got' = got
  BY Domains DEF Accepted, FeedInv, Answer
<1>2. upto \in Nat /\ upto' \in Nat /\ upto < upto'
  BY <1>1
<1>3. ASSUME NEW u \in Nat, upto < u
      PROVE  \A i \in 1..Len(feed) : i > u /\ Came(feed[i]) => \A k \in (u + 1)..i : Came(feed[k])
  <2> SUFFICES ASSUME NEW i \in 1..Len(feed), i > u, Came(feed[i]), NEW k \in (u + 1)..i
               PROVE  Came(feed[k])
    OBVIOUS
  <2>1. i > upto /\ k \in (upto + 1)..i
    BY <1>2, <1>3
  <2> QED BY <1>1, <2>1 DEF FeedInv
<1>4. \A i \in 1..Len(feed) : i > upto' /\ Came(feed[i]) => \A k \in (upto' + 1)..i : Came(feed[k])
  BY <1>2, <1>3
<1>5. NewsInOrder' /\ upto' \in 0..Len(feed)
  BY <1>1 DEF FeedInv, NewsInOrder
<1>6. (\A i \in DOMAIN feed : i > upto /\ Came(feed[i]) => \A k \in (upto + 1)..i : Came(feed[k]))'
  BY <1>1, <1>4 DEF Came
<1> QED BY <1>1, <1>5, <1>6 DEF FeedInv

LEMMA InitFeed == Init => FeedInv
<1> SUFFICES ASSUME Init PROVE FeedInv
  OBVIOUS
<1>1. <<>> \in Seq(S) /\ Len(<<>>) = 0 /\ DOMAIN <<>> = {}
  BY EmptySeq
<1> QED BY <1>1 DEF Init, FeedInv, NewsInOrder

LEMMA StepKeeps == Accepted /\ Accepted' /\ FeedInv /\ [Next]_vars => FeedInv'
<1> SUFFICES ASSUME Accepted, Accepted', FeedInv, [Next]_vars PROVE FeedInv'
  OBVIOUS
<1>1. CASE UNCHANGED vars
  BY <1>1 DEF vars, FeedInv, NewsInOrder, Came
<1> QED BY <1>1, AcceptKeeps, DeliverKeeps, AnswerKeeps DEF Next

\* The server of a feed that accepts no message twice never gets as news what
\* was accepted before something it has (SerialBatchEventUploader).
THEOREM NewsComeInOrder == Spec /\ []Accepted => []NewsInOrder
<1>1. FeedInv => NewsInOrder
  BY DEF FeedInv
<1> QED BY <1>1, InitFeed, StepKeeps, PTL DEF Spec
=============================================================================
