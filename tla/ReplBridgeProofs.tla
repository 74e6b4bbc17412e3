-------------------------- MODULE ReplBridgeProofs --------------------------
(***************************************************************************)
(* Theorems about ReplBridge, for every value of its constants.            *)
(***************************************************************************)
EXTENDS ReplBridge, SequenceTheorems, FiniteSetTheorems, TLAPS

-----------------------------------------------------------------------------
(* Sequences and sets of messages.                                         *)

LEMMA Bounds ==
    /\ History \in Nat /\ HistoryCap \in Nat /\ FlushedBefore \subseteq Initial
    /\ MaxLive \in Nat /\ MaxTransports \in Nat
    /\ MaxSessions \in Nat /\ MaxSessions > 0 /\ MaxFaults \in Nat
BY BoundsAssumption DEF Initial

LEMMA Kinds ==
    /\ Initial \subseteq Msgs /\ Live \subseteq Msgs /\ Initial \cap Live = {}
    /\ Seq(Live) \subseteq Seq(Msgs) /\ Seq(Initial) \subseteq Seq(Msgs)
    /\ <<>> \in Seq(Msgs) /\ <<>> \in Seq(Live) /\ Len(<<>>) = 0
<1>1. Initial \subseteq Msgs /\ Live \subseteq Msgs
  BY DEF Msgs
<1>2. Initial \cap Live = {}
  BY Bounds DEF Initial, Live
<1>3. Seq(Live) \subseteq Seq(Msgs) /\ Seq(Initial) \subseteq Seq(Msgs)
  BY <1>1, SeqMonotonic
<1> QED BY <1>1, <1>2, <1>3, EmptySeq

\* Any part of the history has an enumeration in order, so that InOrder is one:
\* each message stands at the place its rank gives it.
LEMMA HistoryInOrder ==
    ASSUME NEW S \in SUBSET Initial
    PROVE  /\ InOrder(S) \in Seq(S) /\ InOrder(S) \in Seq(Initial)
           /\ Range(InOrder(S)) = S /\ (InOrder(S) = <<>> => S = {})
           /\ \A i, j \in DOMAIN InOrder(S) : i < j => InOrder(S)[i] < InOrder(S)[j]
<1> DEFINE n == Cardinality(S)
           upTo(h) == {g \in S : g <= h}
           rank == [h \in S |-> Cardinality(upTo(h))]
           P(s) == Range(s) = S /\ \A i, j \in DOMAIN s : i < j => s[i] < s[j]
<1>1. S \subseteq Nat /\ IsFiniteSet(S) /\ n \in Nat
  <2>1. IsFiniteSet(Initial)
    BY Bounds, FS_Interval DEF Initial
  <2>2. IsFiniteSet(S)
    BY <2>1, FS_Subset
  <2>3. n \in Nat
    BY <2>2, FS_CardinalityType
  <2> QED BY <2>2, <2>3, Bounds DEF Initial
<1>2. \A h \in S : /\ rank[h] \in 1..n /\ rank[h] = Cardinality(upTo(h))
                   /\ IsFiniteSet(upTo(h))
  <2> SUFFICES ASSUME NEW h \in S
               PROVE  /\ Cardinality(upTo(h)) \in 1..n
                      /\ IsFiniteSet(upTo(h))
    OBVIOUS
  <2>1. upTo(h) \in SUBSET S /\ upTo(h) # {}
    BY <1>1
  <2> HIDE DEF upTo
  <2>2. IsFiniteSet(upTo(h)) /\ Cardinality(upTo(h)) <= n
    BY <1>1, <2>1, FS_Subset
  <2>3. Cardinality(upTo(h)) \in Nat /\ Cardinality(upTo(h)) # 0
    BY <2>1, <2>2, FS_CardinalityType, FS_EmptySet
  <2> QED BY <1>1, <2>2, <2>3
<1>3. \A g, h \in S : g < h => rank[g] < rank[h]
  <2> SUFFICES ASSUME NEW g \in S, NEW h \in S, g < h
               PROVE  Cardinality(upTo(g)) < Cardinality(upTo(h))
    OBVIOUS
  <2>1. upTo(g) \in SUBSET upTo(h) /\ upTo(g) # upTo(h)
    <3>1. ASSUME NEW x \in S, x <= g
          PROVE  x <= h
      <4>1. x \in Nat /\ g \in Nat /\ h \in Nat
        BY <1>1
      <4> QED BY <3>1, <4>1
    <3>2. h \in upTo(h) /\ h \notin upTo(g)
      BY <1>1
    <3> QED BY <3>1, <3>2
  <2>2. IsFiniteSet(upTo(g)) /\ IsFiniteSet(upTo(h))
    BY <1>2
  <2> HIDE DEF upTo
  <2>3. /\ Cardinality(upTo(g)) <= Cardinality(upTo(h))
        /\ Cardinality(upTo(h)) = Cardinality(upTo(g)) => upTo(h) = upTo(g)
    BY <2>1, <2>2, FS_Subset
  <2>4. Cardinality(upTo(g)) \in Nat /\ Cardinality(upTo(h)) \in Nat
    BY <2>2, FS_CardinalityType
  <2> QED BY <2>1, <2>3, <2>4
<1> HIDE DEF upTo, n
<1>4. rank \in [S -> 1..n]
  BY <1>2
<1> HIDE DEF rank
<1>5. \A g, h \in S : rank[g] = rank[h] => g = h
  BY <1>1, <1>3, <1>4
<1>6. \A i \in 1..n : \E h \in S : rank[h] = i
  <2>1. rank \in Injection(S, 1..n)
    BY <1>4, <1>5 DEF Injection, IsInjective
  <2>2. IsFiniteSet(1..n) /\ Cardinality(1..n) = n
    <3>1. Cardinality(1..n) = (IF 1 > n THEN 0 ELSE n - 1 + 1) /\ IsFiniteSet(1..n)
      BY <1>1, FS_Interval
    <3> QED BY <1>1, <3>1
  <2>3. rank \in Surjection(S, 1..n)
    BY <2>1, <2>2, FS_Injection DEF n
  <2> QED BY <2>3 DEF Surjection
<1> DEFINE byRank == [i \in 1..n |-> CHOOSE h \in S : rank[h] = i]
<1>7. byRank \in [1..n -> S] /\ \A i \in 1..n : rank[byRank[i]] = i
  BY <1>6
<1> HIDE DEF byRank
<1>8. P(byRank)
  <2>1. DOMAIN byRank = 1..n /\ \A i \in 1..n : byRank[i] \in S /\ rank[byRank[i]] = i
    BY <1>7
  <2>2. \A h \in S : rank[h] \in 1..n /\ byRank[rank[h]] = h
    BY <1>4, <1>5, <2>1
  <2>3. Range(byRank) = S
    BY <2>1, <2>2 DEF Range
  <2>4. ASSUME NEW i \in 1..n, NEW j \in 1..n, i < j
        PROVE  byRank[i] < byRank[j]
    <3>1. PICK g \in S, h \in S :
              g = byRank[i] /\ h = byRank[j] /\ rank[g] = i /\ rank[h] = j
      BY <2>1
    <3>2. i \in Nat /\ j \in Nat /\ g \in Nat /\ h \in Nat
      BY <1>1
    <3>3. h < g => rank[h] < rank[g]
      BY <1>3
    <3>4. ~(h < g) /\ h # g
      BY <2>4, <3>1, <3>2, <3>3
    <3> QED BY <3>1, <3>2, <3>4
  <2> QED BY <2>1, <2>3, <2>4
<1>9. InOrder(S) = CHOOSE s \in [1..n -> S] : P(s)
  BY DEF InOrder, n
<1> DEFINE o == InOrder(S)
<1>10. o \in [1..n -> S] /\ P(o)
  <2> HIDE DEF P
  <2> QED BY <1>7, <1>8, <1>9
<1>11. Range(o) = S /\ \A i, j \in DOMAIN o : i < j => o[i] < o[j]
  BY <1>10
<1> HIDE DEF o, P
<1>12. o \in Seq(S)
  BY <1>1, <1>10, SeqDef
<1>13. o \in Seq(Initial)
  BY <1>12, SeqMonotonic
<1>14. o = <<>> => S = {}
  BY <1>11 DEF Range
<1> QED BY <1>11, <1>12, <1>13, <1>14 DEF o

\* The cap leaves something of whatever there is to send: its last message.
LEMMA RecentPart ==
    ASSUME NEW S \in SUBSET Initial
    PROVE  Recent(S) \in SUBSET S /\ (Recent(S) = {} => S = {})
<1>1. Recent(S) \in SUBSET S
  BY DEF Recent
<1>2. ASSUME S # {} PROVE Recent(S) # {}
  <2> DEFINE o == InOrder(S)
             l == Len(o)
  <2>1. o \in Seq(S) /\ Range(o) = S /\ \A i, j \in DOMAIN o : i < j => o[i] < o[j]
    BY HistoryInOrder
  <2> HIDE DEF o
  <2>2. l \in Nat /\ DOMAIN o = 1..l
    BY <2>1, LenProperties
  <2>3. \A h \in S : \E i \in 1..l : o[i] = h
    BY <2>1, <2>2 DEF Range
  <2>4. l \in 1..l /\ o[l] \in S
    <3>1. PICK i \in 1..l : TRUE
      BY <1>2, <2>3
    <3>2. l \in 1..l
      BY <2>2, <3>1
    <3> QED BY <2>1, <3>2, ElementOfSeq
  <2>5. \A h \in S : ~(o[l] < h)
    <3> SUFFICES ASSUME NEW h \in S, o[l] < h PROVE FALSE
      OBVIOUS
    <3>1. PICK i \in 1..l : o[i] = h
      BY <2>3
    <3>2. i < l => h < o[l]
      BY <2>1, <2>2, <2>4, <3>1
    <3>3. h \in Nat /\ o[l] \in Nat
      <4>1. S \subseteq Nat
        BY Bounds DEF Initial
      <4> QED BY <2>4, <4>1
    <3> QED BY <2>2, <3>1, <3>2, <3>3
  <2> HIDE DEF l
  <2>6. {g \in S : o[l] < g} = {}
    BY <2>5
  <2>7. HistoryCap = 0 \/ Cardinality({g \in S : o[l] < g}) < HistoryCap
    BY <2>6, FS_EmptySet, Bounds
  <2> QED BY <2>4, <2>7 DEF Recent
<1> QED BY <1>1, <1>2

\* A sequence of messages cut in two.
LEMMA Cut ==
    ASSUME NEW q \in Seq(Msgs), NEW n \in Nat, n <= Len(q)
    PROVE  /\ SubSeq(q, 1, n) \in Seq(Msgs) /\ Len(SubSeq(q, 1, n)) = n
           /\ \A i \in 1..n : SubSeq(q, 1, n)[i] = q[i]
           /\ SubSeq(q, n + 1, Len(q)) \in Seq(Msgs)
           /\ Len(SubSeq(q, n + 1, Len(q))) = Len(q) - n
           /\ \A i \in 1..(Len(q) - n) : SubSeq(q, n + 1, Len(q))[i] = q[n + i]
<1>1. Len(q) \in Nat /\ \A i \in 1..Len(q) : q[i] \in Msgs
  BY LenProperties, ElementOfSeq
<1>2. /\ SubSeq(q, 1, n) \in Seq(Msgs) /\ Len(SubSeq(q, 1, n)) = n
      /\ \A i \in 1..n : SubSeq(q, 1, n)[i] = q[i]
  <2> DEFINE s == SubSeq(q, 1, n)
  <2>1. /\ s \in Seq(Msgs) /\ Len(s) = IF 1 <= n THEN n - 1 + 1 ELSE 0
        /\ \A i \in 1..(n - 1 + 1) : s[i] = q[1 + i - 1]
    BY <1>1, SubSeqProperties
  <2> HIDE DEF s
  <2>2. Len(s) = n /\ \A i \in 1..n : s[i] = q[i]
    BY <2>1
  <2> QED BY <2>1, <2>2 DEF s
<1>3. /\ SubSeq(q, n + 1, Len(q)) \in Seq(Msgs)
      /\ Len(SubSeq(q, n + 1, Len(q))) = Len(q) - n
      /\ \A i \in 1..(Len(q) - n) : SubSeq(q, n + 1, Len(q))[i] = q[n + i]
  <2> DEFINE s == SubSeq(q, n + 1, Len(q))
             o == Len(q)
  <2>1. /\ s \in Seq(Msgs) /\ Len(s) = IF n + 1 <= o THEN o - (n + 1) + 1 ELSE 0
        /\ \A i \in 1..(o - (n + 1) + 1) : s[i] = q[(n + 1) + i - 1]
    BY <1>1, SubSeqProperties
  <2>2. o \in Nat /\ n <= o
    BY <1>1
  <2> HIDE DEF s, o
  <2>3. Len(s) = o - n /\ \A i \in 1..(o - n) : s[i] = q[n + i]
    BY <2>1, <2>2
  <2> QED BY <2>1, <2>3 DEF s, o
<1> QED BY <1>2, <1>3

-----------------------------------------------------------------------------
(* Type correctness.                                                       *)

\* A transport's record: before its socket opened a transport has nothing to do
\* with the history.
Sound(r) ==
    /\ r \in TransportRecord /\ r.sent <= Len(r.queue)
    /\ r.ws \in {"unused", "connecting"} =>
            r.pieces = {} /\ r.left = {} /\ r.flush = "waiting" /\ ~r.grace /\ ~r.closed

LEMMA FreshSound == \A s \in Sessions : Sound(Fresh(s)) /\ Sound(Unused)
<1>1. 1 \in Sessions
  BY Bounds DEF Sessions
<1>2. <<>> \in Seq(Msgs) /\ Len(<<>>) = 0
  BY Kinds
<1>3. Unused \in TransportRecord
  BY <1>1, <1>2 DEF Unused, TransportRecord
<1>4. Sound(Unused)
  BY <1>2, <1>3 DEF Sound, Unused
<1> SUFFICES ASSUME NEW s \in Sessions PROVE Sound(Fresh(s))
  BY <1>4
<1>5. /\ Fresh(s) \in TransportRecord /\ Fresh(s).sent = 0 /\ Fresh(s).queue = <<>>
      /\ Fresh(s).pieces = {} /\ Fresh(s).left = {} /\ Fresh(s).flush = "waiting"
      /\ ~Fresh(s).grace /\ ~Fresh(s).closed
  BY <1>2 DEF Fresh, Unused, TransportRecord
<1> QED BY <1>2, <1>5 DEF Sound

\* What each step makes of a record.
LEMMA EnqueueSound ==
    ASSUME NEW r, Sound(r), NEW msgs \in Seq(Msgs)
    PROVE  /\ Sound(Enqueue(r, msgs))
           /\ Enqueue(r, msgs).flush = r.flush /\ Enqueue(r, msgs).ws = r.ws
<1>1. CASE r.closed \/ msgs = <<>>
  BY <1>1 DEF Enqueue
<1>2. CASE ~(r.closed \/ msgs = <<>>)
  <2> DEFINE q == r.queue \o msgs
             p == r.pushed \o msgs
  <2>1. q \in Seq(Msgs) /\ Len(q) \in Nat /\ Len(r.queue) <= Len(q) /\ p \in Seq(Msgs)
    BY ConcatProperties DEF Sound, TransportRecord
  <2>2. Enqueue(r, msgs) =
            [r EXCEPT !.queue = q, !.pushed = p,
                      !.drain = IF r.drain = "idle" THEN "posting" ELSE r.drain,
                      !.sent = IF r.drain = "idle" THEN Len(q) ELSE r.sent]
    BY <1>2 DEF Enqueue, Sound, TransportRecord
  <2> DEFINE e == Enqueue(r, msgs)
  <2> HIDE DEF q, p
  <2>3. /\ r \in TransportRecord /\ r.sent \in Nat /\ r.drain \in {"idle", "posting", "sleeping"}
        /\ r.sent <= Len(q)
    BY <2>1 DEF Sound, TransportRecord
  <2>4. /\ e \in TransportRecord
        /\ e.queue = q /\ e.sent = IF r.drain = "idle" THEN Len(q) ELSE r.sent
        /\ e.ws = r.ws /\ e.flush = r.flush /\ e.pieces = r.pieces
        /\ e.grace = r.grace /\ e.closed = r.closed /\ e.left = r.left
    BY <2>1, <2>2, <2>3, ZenonT(40) DEF TransportRecord
  <2> HIDE DEF e
  <2>5. e.sent <= Len(e.queue)
    BY <2>1, <2>3, <2>4
  <2>6. Sound(e)
    BY <2>4, <2>5 DEF Sound
  <2> QED BY <2>4, <2>6 DEF e
<1> QED BY <1>1, <1>2

LEMMA PostSound ==
    ASSUME NEW r, Sound(r), NEW got \in Seq(Msgs), NEW e,
           \/ e = [r EXCEPT !.arrived = TRUE, !.got = got]
           \/ e = [r EXCEPT !.drain = "sleeping", !.sent = 0, !.arrived = FALSE]
    PROVE  Sound(e) /\ e.flush = r.flush
<1>1. r \in TransportRecord /\ Len(r.queue) \in Nat
  BY LenProperties DEF Sound, TransportRecord
<1> DEFINE Fields == /\ e \in TransportRecord /\ e.sent \in {r.sent, 0} /\ e.queue = r.queue
                     /\ e.pieces = r.pieces /\ e.ws = r.ws /\ e.flush = r.flush
                     /\ e.grace = r.grace /\ e.closed = r.closed /\ e.left = r.left
<1>2. Fields
  <2>1. CASE e = [r EXCEPT !.arrived = TRUE, !.got = got]
    BY <1>1, <2>1 DEF TransportRecord
  <2>2. CASE e = [r EXCEPT !.drain = "sleeping", !.sent = 0, !.arrived = FALSE]
    BY <1>1, <2>2 DEF TransportRecord
  <2> QED BY <2>1, <2>2
<1>3. e.sent <= Len(e.queue)
  BY <1>1, <1>2 DEF Sound
<1> QED BY <1>2, <1>3 DEF Sound

\* Advance of a record b whose queue and count were replaced: the loop goes on,
\* or ends and the flush with it; the rest of the record stays.
With(r, q, n) == [r EXCEPT !.queue = q, !.answered = n]
Lossy(r) == [r EXCEPT !.lossy = TRUE]
Refusing(r, S) == [r EXCEPT !.refused = S]
Ends(a, b) == \/ a = Advance(b) \/ a = Lossy(Advance(b))
              \/ \E S \in SUBSET Msgs : b.refused \subseteq S /\ a = Refusing(Advance(b), S)

LEMMA AdvanceFields ==
    ASSUME NEW r \in TransportRecord, NEW q \in Seq(Msgs), NEW n \in Nat,
           NEW b, b = With(r, q, n), NEW a, Ends(a, b)
    PROVE  /\ a \in TransportRecord /\ a.queue = q /\ a.answered = n /\ ~a.arrived
           /\ a.drain = IF q # <<>> /\ ~r.closed THEN "posting" ELSE "idle"
           /\ a.sent = IF q # <<>> /\ ~r.closed THEN Len(q) ELSE 0
           /\ a.flush = IF r.flush = "running" /\ q = <<>> THEN "resolved" ELSE r.flush
           /\ a.ws = r.ws /\ a.sess = r.sess /\ a.pieces = r.pieces /\ a.grace = r.grace
           /\ a.closed = r.closed /\ a.pushed = r.pushed /\ a.got = r.got
           /\ r.lossy => a.lossy
           /\ a.left = r.left /\ r.refused \subseteq a.refused
<1> DEFINE go == q # <<>> /\ ~r.closed
           d == IF go THEN "posting" ELSE "idle"
           l == IF go THEN Len(q) ELSE 0
           f == IF r.flush = "running" /\ q = <<>> THEN "resolved" ELSE r.flush
           c == [r EXCEPT !.queue = q, !.answered = n, !.drain = d, !.sent = l,
                          !.arrived = FALSE, !.flush = f]
<1>1. b.queue = q /\ b.closed = r.closed /\ b.flush = r.flush /\ b.refused = r.refused
  BY DEF With, TransportRecord
<1>2. Advance(b) = c
  BY <1>1 DEF Advance, With, TransportRecord
<1>3. l \in Nat /\ d \in {"idle", "posting"} /\ f \in {"waiting", "running", "resolved", "done"}
  BY LenProperties DEF TransportRecord
<1> DEFINE Fields(e) ==
               /\ e \in TransportRecord /\ e.queue = q /\ e.answered = n /\ ~e.arrived
               /\ e.drain = d /\ e.sent = l /\ e.flush = f
               /\ e.ws = r.ws /\ e.sess = r.sess /\ e.pieces = r.pieces /\ e.grace = r.grace
               /\ e.closed = r.closed /\ e.pushed = r.pushed /\ e.got = r.got
               /\ e.left = r.left /\ r.refused \subseteq e.refused
               /\ r.lossy => e.lossy
<1>4. Fields(c)
  <2> HIDE DEF d, l, f
  <2> QED BY <1>3 DEF TransportRecord
<1>5. Fields(Lossy(c))
  <2> HIDE DEF c, d, l, f
  <2> QED BY <1>4 DEF Lossy, TransportRecord
<1>6. ASSUME NEW S \in SUBSET Msgs, r.refused \subseteq S
      PROVE  Fields(Refusing(c, S))
  <2> DEFINE e == Refusing(c, S)
  <2>1. e = [c EXCEPT !.refused = S] /\ c \in TransportRecord
    BY <1>4 DEF Refusing
  <2> HIDE DEF c, d, l, f, e
  <2>2. /\ e \in TransportRecord /\ e.refused = S
        /\ e.queue = c.queue /\ e.answered = c.answered /\ e.arrived = c.arrived
        /\ e.drain = c.drain /\ e.sent = c.sent /\ e.flush = c.flush
        /\ e.ws = c.ws /\ e.sess = c.sess /\ e.pieces = c.pieces /\ e.grace = c.grace
        /\ e.closed = c.closed /\ e.pushed = c.pushed /\ e.got = c.got
        /\ e.left = c.left /\ e.lossy = c.lossy
    BY <1>6, <2>1 DEF TransportRecord
  <2>3. Fields(e)
    BY <1>4, <1>6, <2>2, Zenon
  <2> QED BY <2>3 DEF e
<1>7. Fields(a)
  <2> HIDE DEF c, Fields
  <2> QED BY <1>1, <1>2, <1>4, <1>5, <1>6 DEF Ends
<1> QED BY <1>7

LEMMA AdvanceSound ==
    ASSUME NEW r, Sound(r), NEW q \in Seq(Msgs), NEW n \in Nat,
           NEW b, b = With(r, q, n), NEW a, Ends(a, b)
    PROVE  /\ Sound(a)
           /\ a.flush = IF r.flush = "running" /\ q = <<>> THEN "resolved" ELSE r.flush
<1>1. r \in TransportRecord
  BY DEF Sound
<1>2. /\ a \in TransportRecord /\ a.queue = q
      /\ a.sent = IF q # <<>> /\ ~r.closed THEN Len(q) ELSE 0
      /\ a.flush = IF r.flush = "running" /\ q = <<>> THEN "resolved" ELSE r.flush
      /\ a.ws = r.ws /\ a.pieces = r.pieces /\ a.grace = r.grace /\ a.closed = r.closed
      /\ a.left = r.left
  BY <1>1, AdvanceFields
<1>3. Len(q) \in Nat
  BY LenProperties
<1>4. a.sent <= Len(a.queue)
  BY <1>2, <1>3
<1> QED BY <1>2, <1>4 DEF Sound

\* With the rest of the state.
TypeInv ==
    /\ TypeOK
    /\ \A t \in Transports : Sound(tr[t])

LEMMA InitTyped == Init => TypeInv
<1> SUFFICES ASSUME Init PROVE TypeInv
  OBVIOUS
<1>1. 1 \in Sessions /\ 0 \in 0..MaxTransports /\ 0 \in 0..MaxLive /\ 0 \in 0..MaxSessions
      /\ 0 \in 0..MaxFaults
  BY Bounds DEF Sessions
<1>2. Sound(Unused) /\ Unused \in TransportRecord /\ Unused.sent <= Len(Unused.queue)
  BY <1>1, FreshSound DEF Sound
<1>3. /\ tr \in [Transports -> TransportRecord]
      /\ \A t \in Transports : Sound(tr[t]) /\ tr[t].sent <= Len(tr[t].queue)
  BY <1>2 DEF Init
<1>4. gate \in [active : BOOLEAN, queue : Seq(Live)] /\ handed \in Seq(Live)
      /\ received \in [Sessions -> Seq(Msgs)]
  BY Kinds DEF Init
<1>5. recon \in Reconnects
  BY <1>1 DEF Init, NoRecon, Reconnects
<1> QED BY <1>1, <1>3, <1>4, <1>5, Bounds DEF Init, TypeInv, TypeOK

\* A batch is settled: answered, refused or given up.
LEMMA SettledForms ==
    ASSUME TypeInv, NEW t \in Transports, PostReturns(t) \/ PostRefused(t) \/ BatchDropped(t),
           NEW q, q = SubSeq(tr[t].queue, tr[t].sent + 1, Len(tr[t].queue)),
           NEW n, n = tr[t].answered + tr[t].sent
    PROVE  q \in Seq(Msgs) /\ n \in Nat /\ Ends(tr'[t], With(tr[t], q, n))
<1> DEFINE r == tr[t]
           S == r.refused \cup Range(SubSeq(r.queue, 1, r.sent))
           w == With(r, q, n)
<1>1. /\ r \in TransportRecord /\ tr \in [Transports -> TransportRecord]
      /\ r.queue \in Seq(Msgs) /\ r.answered \in Nat /\ r.sent \in Nat
      /\ r.sent <= Len(r.queue)
  BY DEF TypeInv, TypeOK, Sound, TransportRecord
<1>2. q \in Seq(Msgs) /\ n \in Nat
  BY <1>1, Cut
<1>3. S \in SUBSET Msgs /\ w.refused \subseteq S
  <2>1. SubSeq(r.queue, 1, r.sent) \in Seq(Msgs)
    BY <1>1, Cut
  <2>2. S \in SUBSET Msgs
    BY <1>1, <2>1, RangeOfSeq DEF TransportRecord
  <2> QED BY <1>1, <2>2 DEF With, TransportRecord
<1>4. Settled(r) = Advance(w)
  BY <1>1 DEF Settled, With, TransportRecord
<1>5. tr'[t] = Settled(r) \/ tr'[t] = Lossy(Settled(r)) \/ tr'[t] = Refusing(Settled(r), S)
  BY <1>1 DEF PostReturns, PostRefused, BatchDropped, Lossy, Refusing
<1> HIDE DEF r, S, w
<1>6. Ends(tr'[t], w)
  BY <1>3, <1>4, <1>5 DEF Ends
<1> QED BY <1>2, <1>6 DEF w, r

\* The uploader's loop goes on with a shorter queue, or with the same one.
LEMMA AdvanceForms ==
    ASSUME TypeInv, NEW t \in Transports,
           PostReturns(t) \/ PostRefused(t) \/ BatchDropped(t) \/ Retry(t)
    PROVE  \E b : \E q \in Seq(Msgs), n \in Nat :
              /\ b = With(tr[t], q, n)
              /\ Ends(tr'[t], b)
<1>1. CASE Retry(t)
  <2> DEFINE r == tr[t]
  <2>1. /\ r \in TransportRecord /\ tr \in [Transports -> TransportRecord]
        /\ r.queue \in Seq(Msgs) /\ r.answered \in Nat
    BY DEF TypeInv, TypeOK, TransportRecord
  <2>2. r = With(r, r.queue, r.answered)
    BY <2>1 DEF With, TransportRecord
  <2>3. tr'[t] = Advance(r)
    BY <1>1, <2>1 DEF Retry
  <2> QED BY <2>1, <2>2, <2>3 DEF Ends
<1>2. CASE PostReturns(t) \/ PostRefused(t) \/ BatchDropped(t)
  BY <1>2, SettledForms
<1> QED BY <1>1, <1>2

\* What a step does to one transport.
Kept(t)    == tr'[t] = tr[t]
Dropped(t) == tr'[t] = Closing(tr[t]) \/ tr'[t] = [tr[t] EXCEPT !.ws = "closed"]
Sent(t)    == /\ WriteMessage /\ ~gate.active /\ transport = t
              /\ tr'[t] = Enqueue(tr[t], <<History + live + 1>>)
Brought(t) == WorkReceived /\ t = used + 1 /\ tr'[t] = Fresh(session)
Moves(t)   == \/ Kept(t) \/ Dropped(t) \/ Sent(t) \/ Brought(t)
              \/ Uploader(t) \/ Connected(t) \/ HistoryFlushed(t)

\* What writeMessages sends is a live message.
LEMMA NextMessage ==
    ASSUME TypeInv, WriteMessage
    PROVE  /\ History + live + 1 \in Live
           /\ <<History + live + 1>> \in Seq(Live) /\ <<History + live + 1>> \in Seq(Msgs)
<1>1. live \in 0..MaxLive
  BY DEF TypeInv, TypeOK
<1>2. live < MaxLive
  BY DEF WriteMessage
<1>3. History + live + 1 \in Live
  BY <1>1, <1>2, Bounds DEF Live
<1>4. <<History + live + 1>> \in Seq(Live)
  BY <1>3
<1> QED BY <1>3, <1>4, Kinds

IsTable(f) == f = [t \in Transports |-> f[t]]

\* Closing the transport that a variable names.
LEMMA CloseMoves ==
    ASSUME TypeOK, NEW n \in 0..MaxTransports, tr' = CloseOf(n, tr)
    PROVE  /\ tr' = [t \in Transports |-> tr'[t]]
           /\ \A t \in Transports : tr'[t] = IF t = n THEN Closing(tr[t]) ELSE tr[t]
<1>1. tr \in [Transports -> TransportRecord] /\ 0 \notin Transports
      /\ (n # 0 => n \in Transports)
  BY Bounds DEF TypeOK, Transports
<1> QED BY <1>1 DEF CloseOf

\* One transport is replaced.
LEMMA OneMoves ==
    ASSUME TypeOK, NEW t \in Transports, NEW r, tr' = [tr EXCEPT ![t] = r]
    PROVE  /\ tr' = [u \in Transports |-> tr'[u]]
           /\ tr'[t] = r /\ \A u \in Transports \ {t} : Kept(u)
BY DEF TypeOK, Kept

LEMMA UploaderMoves ==
    ASSUME TypeOK, NEW t \in Transports, Uploader(t)
    PROVE  IsTable(tr') /\ \A u \in Transports : Moves(u)
<1>1. \E r : tr' = [tr EXCEPT ![t] = r]
  BY DEF Uploader, PostArrives, PostReturns, PostRefused, PostFails, BatchDropped, Retry,
         UploaderCloses, TypeOK
<1> QED BY <1>1, OneMoves DEF IsTable, Moves

LEMMA GateMoves ==
    ASSUME TypeOK, NEW t \in Transports, Connected(t) \/ HistoryFlushed(t)
    PROVE  IsTable(tr') /\ \A u \in Transports : Moves(u)
<1>1. \E r : tr' = [tr EXCEPT ![t] = r]
  BY DEF Connected, HistoryFlushed, DrainInto, TypeOK
<1> QED BY <1>1, OneMoves DEF IsTable, Moves

LEMMA StepMoves ==
    ASSUME TypeOK, [Next]_vars
    PROVE  IsTable(tr') /\ \A t \in Transports : Moves(t)
<1>1. tr = [t \in Transports |-> tr[t]]
  BY DEF TypeOK
<1>2. CASE tr' = tr
  BY <1>1, <1>2 DEF IsTable, Moves, Kept
<1>3. CASE \E n \in 0..MaxTransports : tr' = CloseOf(n, tr)
  BY <1>3, CloseMoves DEF IsTable, Moves, Dropped, Kept
<1>4. CASE \E t \in Transports : Uploader(t) \/ Connected(t) \/ HistoryFlushed(t)
  BY <1>4, UploaderMoves, GateMoves
<1>5. CASE WriteMessage
  <2>1. CASE ~gate.active /\ transport # 0
    <3>1. transport \in Transports
      BY <2>1, Bounds DEF TypeOK, Transports
    <3>2. tr' = [tr EXCEPT ![transport] = Enqueue(tr[transport], <<History + live + 1>>)]
      BY <1>5, <2>1 DEF WriteMessage
    <3>3. /\ tr' = [u \in Transports |-> tr'[u]]
          /\ tr'[transport] = Enqueue(tr[transport], <<History + live + 1>>)
          /\ \A u \in Transports \ {transport} : Kept(u)
      BY <3>1, <3>2, OneMoves
    <3> QED BY <1>5, <2>1, <3>3 DEF IsTable, Moves, Sent
  <2>2. CASE ~(~gate.active /\ transport # 0)
    BY <1>2, <1>5, <2>2 DEF WriteMessage
  <2> QED BY <2>1, <2>2
<1>6. CASE WorkReceived /\ tr' # tr
  <2> DEFINE n == used + 1
             f == CloseOf(transport, tr)
  <2>1. /\ n \in Transports /\ tr' = [f EXCEPT ![n] = Fresh(session)]
        /\ transport \in 0..MaxTransports
    BY <1>6, Bounds, SMTT(30) DEF WorkReceived, TypeOK, Transports
  <2>2. /\ f = [t \in Transports |-> f[t]]
        /\ \A t \in Transports : f[t] = IF t = transport THEN Closing(tr[t]) ELSE tr[t]
    <3>1. (transport # 0 => transport \in Transports) /\ 0 \notin Transports
      BY Bounds DEF TypeOK, Transports
    <3> QED BY <1>1, <3>1 DEF CloseOf
  <2> HIDE DEF f
  <2>3. /\ tr' = [t \in Transports |-> tr'[t]]
        /\ tr'[n] = Fresh(session)
        /\ \A t \in Transports \ {n} : tr'[t] = f[t]
    BY <2>1, <2>2
  <2> QED BY <1>6, <2>2, <2>3 DEF IsTable, Moves, Kept, Dropped, Brought
<1>7. CASE PermanentClose
  <2>1. /\ transport \in Transports
        /\ tr' = [tr EXCEPT ![transport] = [tr[transport] EXCEPT !.ws = "closed"]]
    BY <1>7, Bounds DEF PermanentClose, TypeOK, Transports
  <2> QED BY <2>1, OneMoves DEF IsTable, Moves, Dropped
<1>8. CASE HeartbeatFatal \/ EnvironmentLost \/ TeardownCloses
  <2>1. transport \in 0..MaxTransports /\ torn \in 0..MaxTransports
    BY DEF TypeOK
  <2> QED BY <1>2, <1>3, <1>8, <2>1 DEF HeartbeatFatal, EnvironmentLost, TeardownCloses
<1>9. CASE (\E s \in Sessions : PollReturns(s)) \/ Reconnecting \/ Teardown \/ UNCHANGED vars
  BY <1>2, <1>9 DEF PollReturns, Reconnecting, WorkStopped, Registered, ReconnectedInPlace,
                    SessionArchived, SessionCreated, PointerWritten, Teardown, vars
<1> QED BY <1>2, <1>4, <1>5, <1>6, <1>7, <1>8, <1>9 DEF Next

\* Each of them keeps the record sound, and only its connection ends or is
\* renewed by a step of another part.
LEMMA MoveSound ==
    ASSUME TypeInv, NEW t \in Transports, Moves(t)
    PROVE  /\ Sound(tr'[t])
           /\ ~Connected(t) /\ ~HistoryFlushed(t) /\ ~Brought(t) =>
                    (tr'[t].flush = "done" <=> tr[t].flush = "done")
<1> DEFINE r == tr[t]
<1>1. /\ Sound(r) /\ r \in TransportRecord /\ tr \in [Transports -> TransportRecord]
      /\ r.queue \in Seq(Msgs) /\ r.sent \in Nat /\ r.sent <= Len(r.queue)
  BY DEF TypeInv, TypeOK, Sound, TransportRecord
<1>2. CASE Kept(t)
  BY <1>1, <1>2 DEF Kept
<1>3. CASE Dropped(t)
  BY <1>1, <1>3, ZenonT(40) DEF Dropped, Closing, Sound, TransportRecord
<1>4. CASE Sent(t)
  <2>1. <<History + live + 1>> \in Seq(Msgs)
    <3>1. WriteMessage
      BY <1>4 DEF Sent
    <3> QED BY <3>1, NextMessage
  <2> QED BY <1>1, <1>4, <2>1, EnqueueSound DEF Sent
<1>5. CASE Brought(t)
  BY <1>5, FreshSound DEF Brought, TypeInv, TypeOK
<1>6. CASE PostReturns(t) \/ PostRefused(t) \/ BatchDropped(t) \/ Retry(t)
  <2>1. PICK b, q, n :
            /\ q \in Seq(Msgs) /\ n \in Nat /\ b = With(tr[t], q, n)
            /\ Ends(tr'[t], b)
    BY <1>6, AdvanceForms
  <2>2. /\ Sound(tr'[t])
        /\ tr'[t].flush = IF r.flush = "running" /\ q = <<>> THEN "resolved" ELSE r.flush
    BY <1>1, <2>1, AdvanceSound
  <2> QED BY <2>2
<1>8. CASE PostArrives(t) \/ PostFails(t)
  <2> DEFINE g == r.got \o SubSeq(r.queue, 1, r.sent)
  <2>1. g \in Seq(Msgs)
    <3>1. SubSeq(r.queue, 1, r.sent) \in Seq(Msgs) /\ r.got \in Seq(Msgs)
      BY <1>1, Cut DEF TransportRecord
    <3> QED BY <3>1, ConcatProperties
  <2>2. \/ tr'[t] = [r EXCEPT !.arrived = TRUE, !.got = g]
        \/ tr'[t] = [r EXCEPT !.drain = "sleeping", !.sent = 0, !.arrived = FALSE]
    BY <1>1, <1>8 DEF PostArrives, PostFails, TransportRecord
  <2> HIDE DEF g
  <2>3. Sound(tr'[t]) /\ tr'[t].flush = r.flush
    BY <1>1, <2>1, <2>2, PostSound
  <2> QED BY <2>3
<1>9. CASE UploaderCloses(t)
  <2> DEFINE q == SubSeq(r.queue, 1, r.sent)
  <2>1. q \in Seq(Msgs) /\ Len(q) = r.sent
    BY <1>1, Cut
  <2>2. /\ r.grace
        /\ tr'[t] = [r EXCEPT !.closed = TRUE, !.queue = q,
                              !.flush = IF r.flush = "running" THEN "resolved" ELSE r.flush]
    BY <1>1, <1>9 DEF UploaderCloses
  <2> DEFINE b == tr'[t]
  <2> HIDE DEF q, r
  <2>3. /\ b \in TransportRecord /\ b.sent = r.sent /\ b.queue = q /\ b.pieces = r.pieces
        /\ b.ws = r.ws /\ b.left = r.left
        /\ b.flush = IF r.flush = "running" THEN "resolved" ELSE r.flush
    BY <1>1, <2>1, <2>2, ZenonT(40) DEF TransportRecord
  <2> HIDE DEF b
  <2>4. r.ws \notin {"unused", "connecting"}
    BY <1>1, <2>2 DEF Sound
  <2>5. Sound(b) /\ (b.flush = "done" <=> r.flush = "done")
    BY <1>1, <2>1, <2>3, <2>4 DEF Sound
  <2> QED BY <2>5 DEF b, r
<1>10. CASE Connected(t)
  <2> DEFINE p == Recent(Initial \ flushed)
             l == (Initial \ flushed) \ p
  <2>1. p \in SUBSET Initial /\ l \in SUBSET Initial /\ InOrder(p) \in Seq(Msgs)
    <3>1. p \in SUBSET Initial
      BY RecentPart
    <3> QED BY <3>1, HistoryInOrder, Kinds
  <2>2. CASE p # {}
    <3> DEFINE b == [r EXCEPT !.ws = "up", !.flush = "running", !.pieces = p,
                              !.lossy = FALSE, !.left = l]
    <3>1. tr'[t] = Enqueue(b, InOrder(p))
      BY <1>1, <1>10, <2>2 DEF Connected, TransportRecord
    <3> HIDE DEF p, l
    <3>2. Sound(b) /\ b.flush = "running"
      BY <1>1, <2>1 DEF Sound, TransportRecord
    <3> HIDE DEF b
    <3> QED BY <1>10, <2>1, <3>1, <3>2, EnqueueSound
  <2>3. CASE p = {}
    <3> DEFINE b == [r EXCEPT !.ws = "up", !.flush = "done"]
    <3>1. tr'[t] = Enqueue(b, gate.queue)
      BY <1>1, <1>10, <2>3 DEF Connected, DrainInto, TransportRecord
    <3>2. Sound(b)
      BY <1>1 DEF Sound, TransportRecord
    <3>3. gate.queue \in Seq(Msgs)
      BY Kinds DEF TypeInv, TypeOK
    <3> HIDE DEF b
    <3> QED BY <1>10, <3>1, <3>2, <3>3, EnqueueSound
  <2> QED BY <2>2, <2>3
<1>11. CASE HistoryFlushed(t)
  <2> DEFINE b == [r EXCEPT !.flush = "done"]
  <2>1. tr'[t] = b \/ tr'[t] = Enqueue(b, gate.queue)
    BY <1>1, <1>11 DEF HistoryFlushed, DrainInto
  <2>2. gate.queue \in Seq(Msgs)
    BY Kinds DEF TypeInv, TypeOK
  <2>3. r.ws \notin {"unused", "connecting"}
    BY <1>1, <1>11 DEF HistoryFlushed, Sound
  <2>4. Sound(b)
    BY <1>1, <2>3 DEF Sound, TransportRecord
  <2> HIDE DEF b
  <2> QED BY <1>11, <2>1, <2>2, <2>4, EnqueueSound
<1> QED BY <1>2, <1>3, <1>4, <1>5, <1>6, <1>8, <1>9, <1>10, <1>11 DEF Moves, Uploader

\* The rest of the state, step by step.
Others ==
    /\ session \in Sessions /\ transport \in 0..MaxTransports
    /\ work \in 0..MaxTransports /\ used \in 0..MaxTransports
    /\ gate \in [active : BOOLEAN, queue : Seq(Live)]
    /\ flushed \subseteq Initial /\ live \in 0..MaxLive /\ handed \in Seq(Live)
    /\ poll \in [st : {"polling", "acking", "lost"}, sess : 0..MaxSessions]
    /\ recon \in Reconnects /\ aborted \in BOOLEAN /\ torn \in 0..MaxTransports
    /\ received \in [Sessions -> Seq(Msgs)] /\ archived \subseteq Sessions
    /\ faults \in 0..MaxFaults

LEMMA OthersFromType == TypeInv => Others
BY DEF TypeInv, TypeOK, Others

LEMMA Gates ==
    /\ OpenGate \in [active : BOOLEAN, queue : Seq(Live)]
    /\ NoRecon \in Reconnects
    /\ Others /\ Fault => faults' \in 0..MaxFaults
    /\ Others => gate.queue \in Seq(Live) /\ handed \o gate.queue \in Seq(Live)
<1>1. OpenGate \in [active : BOOLEAN, queue : Seq(Live)]
  BY Kinds DEF OpenGate
<1>2. NoRecon \in Reconnects
  BY Bounds DEF NoRecon, Reconnects
<1>3. Others /\ Fault => faults' \in 0..MaxFaults
  BY Bounds DEF Others, Fault
<1>4. Others => gate.queue \in Seq(Live) /\ handed \o gate.queue \in Seq(Live)
  BY ConcatProperties DEF Others
<1> QED BY <1>1, <1>2, <1>3, <1>4

LEMMA TransportOthers ==
    ASSUME TypeInv, NEW t \in Transports,
           Uploader(t) \/ Connected(t) \/ HistoryFlushed(t)
    PROVE  Others'
<1>1. Others
  BY OthersFromType
<1>2. CASE PostArrives(t)
  <2>1. /\ tr[t].sess \in Sessions /\ tr[t].queue \in Seq(Msgs)
        /\ tr[t].sent \in Nat /\ tr[t].sent <= Len(tr[t].queue)
    BY DEF TypeInv, Sound, TransportRecord
  <2>2. SubSeq(tr[t].queue, 1, tr[t].sent) \in Seq(Msgs)
    BY <2>1, Cut
  <2>3. received[tr[t].sess] \o SubSeq(tr[t].queue, 1, tr[t].sent) \in Seq(Msgs)
    BY <1>1, <2>1, <2>2, ConcatProperties DEF Others
  <2>4. received' \in [Sessions -> Seq(Msgs)]
    BY <1>1, <1>2, <2>3 DEF PostArrives, Others
  <2> QED BY <1>1, <1>2, <2>4 DEF PostArrives, Others, loop
<1>3. CASE PostReturns(t) \/ Retry(t) \/ UploaderCloses(t)
  BY <1>1, <1>3 DEF PostReturns, Retry, UploaderCloses, Others, loop, server
<1>4. CASE PostRefused(t) \/ PostFails(t) \/ BatchDropped(t)
  <2>1. faults' \in 0..MaxFaults
    BY <1>1, <1>4, Gates DEF PostRefused, PostFails, BatchDropped, Others
  <2>2. UNCHANGED <<session, transport, work, gate, flushed, live, handed, used, loop, server>>
    BY <1>4 DEF PostRefused, PostFails, BatchDropped
  <2> QED BY <1>1, <2>1, <2>2 DEF Others, loop, server
<1>5. CASE Connected(t)
  <2>1. \/ UNCHANGED <<gate, handed>>
        \/ gate' = OpenGate /\ handed' = handed \o gate.queue
    BY <1>5 DEF Connected, DrainInto
  <2>2. gate' \in [active : BOOLEAN, queue : Seq(Live)] /\ handed' \in Seq(Live)
    BY <1>1, <2>1, Gates DEF Others
  <2> QED BY <1>1, <1>5, <2>2 DEF Connected, Others, loop, server
<1>6. CASE HistoryFlushed(t)
  <2>1. \/ UNCHANGED <<gate, handed>>
        \/ gate' = OpenGate /\ handed' = handed \o gate.queue
    BY <1>6 DEF HistoryFlushed, DrainInto
  <2>2. gate' \in [active : BOOLEAN, queue : Seq(Live)] /\ handed' \in Seq(Live)
    BY <1>1, <2>1, Gates DEF Others
  <2>3. flushed' \subseteq Initial
    BY <1>1, <1>6 DEF HistoryFlushed, TypeInv, Sound, Others, TransportRecord
  <2> QED BY <1>1, <1>6, <2>2, <2>3 DEF HistoryFlushed, Others, loop, server
<1> QED BY <1>2, <1>3, <1>4, <1>5, <1>6 DEF Uploader

LEMMA WriteOthers == TypeInv /\ WriteMessage => Others'
<1> SUFFICES ASSUME TypeInv, WriteMessage PROVE Others'
  OBVIOUS
<1> DEFINE m == History + live + 1
<1>1. Others
  BY OthersFromType
<1>2. m \in Live /\ live' \in 0..MaxLive
  <2>1. live \in 0..MaxLive /\ live < MaxLive /\ live' = live + 1
    BY <1>1 DEF Others, WriteMessage
  <2> QED BY <2>1, Bounds DEF Live
<1>3. Append(gate.queue, m) \in Seq(Live) /\ Append(handed, m) \in Seq(Live)
  BY <1>1, <1>2, AppendProperties DEF Others
<1>4. /\ gate' \in {gate, [gate EXCEPT !.queue = Append(gate.queue, m)]}
      /\ handed' \in {handed, Append(handed, m)}
  BY DEF WriteMessage
<1>5. gate' \in [active : BOOLEAN, queue : Seq(Live)] /\ handed' \in Seq(Live)
  BY <1>1, <1>3, <1>4 DEF Others
<1> QED BY <1>1, <1>2, <1>5 DEF WriteMessage, Others, loop, server

LEMMA PollOthers ==
    ASSUME TypeInv, (\E s \in Sessions : PollReturns(s)) \/ WorkReceived \/ HeartbeatFatal
    PROVE  Others'
<1>1. Others
  BY OthersFromType
<1>2. ASSUME NEW s \in Sessions, PollReturns(s) PROVE Others'
  <2>1. poll' \in [st : {"polling", "acking", "lost"}, sess : 0..MaxSessions]
    BY <1>2, Bounds DEF PollReturns, Sessions
  <2> QED BY <1>1, <1>2, <2>1 DEF PollReturns, Others, server
<1>3. CASE WorkReceived
  <2>1. poll' \in [st : {"polling", "acking", "lost"}, sess : 0..MaxSessions]
    BY <1>3, Bounds DEF WorkReceived
  <2>2. transport' \in 0..MaxTransports /\ work' \in 0..MaxTransports
        /\ used' \in 0..MaxTransports
    BY <1>1, <1>3, Bounds, SMTT(30) DEF WorkReceived, Others
  <2>3. gate' \in [active : BOOLEAN, queue : Seq(Live)]
    <3>1. gate' = gate \/ gate' = [gate EXCEPT !.active = History > 0]
      BY <1>3 DEF WorkReceived
    <3>2. (History > 0) \in BOOLEAN /\ gate \in [active : BOOLEAN, queue : Seq(Live)]
      BY <1>1 DEF Others
    <3> QED BY <3>1, <3>2
  <2> QED BY <1>1, <1>3, <2>1, <2>2, <2>3 DEF WorkReceived, Others, server
<1>4. CASE HeartbeatFatal
  BY <1>1, <1>4, Gates, Bounds DEF HeartbeatFatal, Others, loop, server
<1> QED BY <1>2, <1>3, <1>4

LEMMA ReconnectOthers ==
    ASSUME TypeInv, Reconnecting \/ PermanentClose \/ EnvironmentLost
                    \/ Teardown \/ TeardownCloses
    PROVE  Others'
<1>1. Others /\ 0 \in 0..MaxTransports /\ {session} \subseteq Sessions
  BY OthersFromType, Bounds DEF Others
<1>2. \A lost \in 0..MaxTransports : Tear(lost) =>
            /\ aborted' \in BOOLEAN /\ torn' \in 0..MaxTransports
            /\ transport' \in 0..MaxTransports
            /\ gate' \in [active : BOOLEAN, queue : Seq(Live)]
  BY <1>1, Gates DEF Tear, Others
<1>3. KeepUp => /\ aborted' \in BOOLEAN /\ torn' \in 0..MaxTransports
                /\ transport' \in 0..MaxTransports
                /\ gate' \in [active : BOOLEAN, queue : Seq(Live)]
  BY <1>1 DEF KeepUp, Others
<1>4. PollsAgain => poll' \in [st : {"polling", "acking", "lost"}, sess : 0..MaxSessions]
  BY <1>1 DEF PollsAgain, Others
<1> DEFINE Mid == /\ aborted' \in BOOLEAN /\ torn' \in 0..MaxTransports
                  /\ transport' \in 0..MaxTransports
                  /\ gate' \in [active : BOOLEAN, queue : Seq(Live)]
                  /\ recon' \in Reconnects
                  /\ poll' \in [st : {"polling", "acking", "lost"}, sess : 0..MaxSessions]
<1>5. Recovered \/ GiveUp => Mid
  BY <1>1, <1>2, <1>3, <1>4, Gates DEF Recovered, GiveUp, Others
<1>6. \A pc \in {"registering", "inplace", "archiving", "creating", "pointer"} :
            GoTo(pc) => Mid
  BY <1>1, <1>3 DEF GoTo, Others, Reconnects
<1>7. Start => recon' \in Reconnects
  BY <1>1 DEF Start, Others, Reconnects
<1> HIDE DEF Mid
<1>8. CASE Reconnecting
  <2>1. Mid
    BY <1>5, <1>6, <1>8 DEF Reconnecting, WorkStopped, Registered, ReconnectedInPlace,
                            SessionArchived, SessionCreated, PointerWritten
  <2>2. work' \in {work, 0} /\ flushed' \in {flushed, {}}
        /\ archived' \in {archived, archived \cup {session}}
    BY <1>8 DEF Reconnecting, WorkStopped, Registered, ReconnectedInPlace,
                SessionArchived, SessionCreated, PointerWritten, rest, server
  <2>3. UNCHANGED <<live, handed, used, received, faults>>
    BY <1>8 DEF Reconnecting, WorkStopped, Registered, ReconnectedInPlace,
                SessionArchived, SessionCreated, PointerWritten, rest, server
  <2>4. session' \in Sessions
    <3>1. session' = session \/ (session < MaxSessions /\ session' = session + 1)
      BY <1>8 DEF Reconnecting, WorkStopped, Registered, ReconnectedInPlace,
                  SessionArchived, SessionCreated, PointerWritten, rest
    <3> QED BY <1>1, <3>1, Bounds DEF Others, Sessions
  <2>5. work' \in 0..MaxTransports /\ archived' \subseteq Sessions
        /\ flushed' \subseteq Initial
    BY <1>1, <2>2 DEF Others
  <2> QED BY <1>1, <2>1, <2>3, <2>4, <2>5 DEF Mid, Others
<1>9. CASE PermanentClose
  <2>1. Mid
    BY <1>1, <1>2, <1>7, <1>9, Gates DEF PermanentClose, Mid, Others
  <2> QED BY <1>1, <1>9, <2>1 DEF PermanentClose, Mid, Others, rest, server
<1>10. CASE EnvironmentLost
  <2>1. poll' \in [st : {"polling", "acking", "lost"}, sess : 0..MaxSessions]
    BY <1>1, <1>10 DEF EnvironmentLost, Others
  <2>2. Mid
    BY <1>1, <1>3, <1>7, <1>10, <2>1, Gates DEF EnvironmentLost, Mid, Others
  <2>3. faults' \in 0..MaxFaults
    BY <1>1, <1>10, Gates DEF EnvironmentLost
  <2> QED BY <1>1, <1>10, <2>2, <2>3 DEF EnvironmentLost, Mid, Others, rest, server
<1>11. CASE Teardown
  <2>1. transport \in 0..MaxTransports
    BY <1>1 DEF Others
  <2> QED BY <1>1, <1>2, <1>11, <2>1 DEF Teardown, Others, rest, server
<1>12. CASE TeardownCloses
  BY <1>1, <1>12 DEF TeardownCloses, Others
<1> QED BY <1>8, <1>9, <1>10, <1>11, <1>12

LEMMA NextTyped == TypeInv /\ [Next]_vars => TypeInv'
<1> SUFFICES ASSUME TypeInv, [Next]_vars PROVE TypeInv'
  OBVIOUS
<1>1. TypeOK
  BY DEF TypeInv
<1>2. IsTable(tr') /\ \A t \in Transports : Moves(t)
  BY <1>1, StepMoves
<1>3. \A t \in Transports : Sound(tr'[t])
  BY <1>2, MoveSound
<1>4. tr' \in [Transports -> TransportRecord]
  BY <1>2, <1>3 DEF IsTable, Sound
<1>5. Others'
  <2>1. CASE UNCHANGED vars
    BY <2>1, OthersFromType DEF vars, loop, server, Others
  <2>2. CASE Next
    BY <2>2, TransportOthers, WriteOthers, PollOthers, ReconnectOthers DEF Next
  <2> QED BY <2>1, <2>2
<1>6. \A t \in Transports : tr'[t].sent <= Len(tr'[t].queue)
  BY <1>3 DEF Sound
<1> QED BY <1>3, <1>4, <1>5, <1>6 DEF TypeInv, TypeOK, Others

\* Every variable keeps its type: in particular the batch on its way is a
\* prefix of the queue of its uploader, however often the batch was put back,
\* dropped or cut off by the end of the grace period.
THEOREM Typing == Spec => []TypeOK
<1>1. TypeInv => TypeOK
  BY DEF TypeInv
<1> QED BY <1>1, InitTyped, NextTyped, PTL DEF Spec

-----------------------------------------------------------------------------
(* The gate and the flush.                                                 *)

\* The first half of GateFollowsFlush.
GateFlag ==
    gate.active <=> History > 0 /\ transport # 0 /\ tr[transport].flush # "done"

LEMMA FlushUntouched ==
    ASSUME TypeInv, NEW t \in Transports, Moves(t),
           ~(Connected(t) \/ HistoryFlushed(t) \/ WorkReceived)
    PROVE  tr'[t].flush = "done" <=> tr[t].flush = "done"
BY MoveSound DEF Brought

LEMMA NextGate == TypeInv /\ GateFlag /\ [Next]_vars => GateFlag'
<1> SUFFICES ASSUME TypeInv, GateFlag, [Next]_vars PROVE GateFlag'
  OBVIOUS
<1>1. TypeOK /\ 0 \notin Transports /\ (transport # 0 => transport \in Transports)
  BY Bounds DEF TypeInv, TypeOK, Transports
<1>2. IsTable(tr') /\ \A t \in Transports : Moves(t)
  BY <1>1, StepMoves
<1>3. CASE /\ UNCHANGED <<transport, gate>>
           /\ transport # 0 => (tr'[transport].flush = "done" <=> tr[transport].flush = "done")
  BY <1>3 DEF GateFlag
<1>4. CASE transport' = 0 /\ gate' = OpenGate
  BY <1>4 DEF GateFlag, OpenGate
<1>5. ASSUME NEW t \in Transports, Connected(t) PROVE GateFlag'
  <2>1. transport = t /\ UNCHANGED transport /\ tr[t].ws = "connecting"
    BY <1>5 DEF Connected
  <2>2. gate.active <=> History > 0
    BY <1>1, <2>1 DEF TypeInv, Sound, GateFlag
  <2> DEFINE p == Recent(Initial \ flushed)
             l == (Initial \ flushed) \ p
  <2>3. InOrder(p) \in Seq(Msgs) /\ p \in SUBSET Initial /\ l \in SUBSET Initial
    <3>1. p \in SUBSET Initial
      BY RecentPart
    <3> QED BY <3>1, HistoryInOrder, Kinds
  <2>4. CASE p # {}
    <3> DEFINE b == [tr[t] EXCEPT !.ws = "up", !.flush = "running", !.pieces = p,
                                  !.lossy = FALSE, !.left = l]
    <3>1. tr'[t] = Enqueue(b, InOrder(p)) /\ UNCHANGED gate
      BY <1>1, <1>5, <2>4 DEF Connected, TypeOK, TransportRecord
    <3> HIDE DEF p, l
    <3>2. tr'[t].flush = "running"
      <4>1. tr[t] \in TransportRecord
        BY <1>1 DEF TypeOK
      <4>2. b.flush = "running"
        BY <4>1 DEF TransportRecord
      <4>3. Sound(b)
        BY <2>3, <4>1 DEF TypeInv, Sound, TransportRecord
      <4> HIDE DEF b
      <4> QED BY <2>3, <3>1, <4>2, <4>3, EnqueueSound
    <3> QED BY <1>1, <2>1, <2>2, <3>1, <3>2 DEF GateFlag
  <2>5. CASE p = {}
    <3> DEFINE b == [tr[t] EXCEPT !.ws = "up", !.flush = "done"]
    <3>1. tr'[t] = Enqueue(b, gate.queue) /\ gate' = OpenGate
      BY <1>1, <1>5, <2>5 DEF Connected, DrainInto, TypeOK, TransportRecord
    <3>2. tr'[t].flush = "done"
      <4>1. tr[t] \in TransportRecord
        BY <1>1 DEF TypeOK
      <4>2. b.flush = "done"
        BY <4>1 DEF TransportRecord
      <4>3. Sound(b)
        BY <4>1 DEF TypeInv, Sound, TransportRecord
      <4>4. gate.queue \in Seq(Msgs)
        BY <1>1, Kinds DEF TypeOK
      <4> HIDE DEF b
      <4> QED BY <3>1, <4>2, <4>3, <4>4, EnqueueSound
    <3> QED BY <2>1, <3>1, <3>2 DEF GateFlag, OpenGate
  <2> QED BY <2>4, <2>5
<1>6. ASSUME NEW t \in Transports, HistoryFlushed(t) PROVE GateFlag'
  <2> DEFINE b == [tr[t] EXCEPT !.flush = "done"]
  <2>1. UNCHANGED transport /\ tr[t].flush = "resolved"
    BY <1>6 DEF HistoryFlushed
  <2>2. CASE transport = t
    <3>1. tr'[t] = Enqueue(b, gate.queue) /\ gate' = OpenGate
      BY <1>1, <1>6, <2>2 DEF HistoryFlushed, DrainInto, TypeOK
    <3>2. tr'[t].flush = "done"
      <4>1. tr[t] \in TransportRecord
        BY <1>1 DEF TypeOK
      <4>2. b.flush = "done"
        BY <4>1 DEF TransportRecord
      <4>3. Sound(b)
        BY <2>1, <4>1 DEF TypeInv, Sound, TransportRecord
      <4>4. gate.queue \in Seq(Msgs)
        BY <1>1, Kinds DEF TypeOK
      <4> HIDE DEF b
      <4> QED BY <3>1, <4>2, <4>3, <4>4, EnqueueSound
    <3> QED BY <2>1, <2>2, <3>1, <3>2 DEF GateFlag, OpenGate
  <2>3. CASE transport # t
    <3>1. UNCHANGED gate /\ (transport # 0 => tr'[transport] = tr[transport])
      BY <1>1, <1>6, <2>3 DEF HistoryFlushed, TypeOK
    <3> QED BY <1>3, <2>1, <3>1
  <2> QED BY <2>2, <2>3
<1>7. CASE WorkReceived
  <2>1. CASE UNCHANGED <<transport, gate, tr>>
    BY <2>1 DEF GateFlag
  <2>2. CASE ~UNCHANGED <<transport, gate, tr>>
    <3>1. /\ transport' = used + 1 /\ used + 1 \in Transports
          /\ gate' = [gate EXCEPT !.active = History > 0]
          /\ tr' = [CloseOf(transport, tr) EXCEPT ![used + 1] = Fresh(session)]
      BY <1>1, <1>7, <2>2, Bounds DEF WorkReceived, TypeOK, Transports
    <3>2. tr'[used + 1] = Fresh(session)
      BY <1>1, <3>1 DEF CloseOf, TypeOK
    <3>3. Fresh(session).flush = "waiting"
      BY DEF Fresh, Unused
    <3>4. gate'.active <=> History > 0
      BY <1>1, <3>1 DEF TypeOK
    <3>5. transport' # 0
      BY <1>1, <3>1
    <3> QED BY <3>1, <3>2, <3>3, <3>4, <3>5 DEF GateFlag
  <2> QED BY <2>1, <2>2
<1>8. CASE ~(WorkReceived \/ \E t \in Transports : Connected(t) \/ HistoryFlushed(t))
  <2>1. transport # 0 => (tr'[transport].flush = "done" <=> tr[transport].flush = "done")
    BY <1>1, <1>2, <1>8, FlushUntouched
  <2>2. CASE WriteMessage
    <3>1. gate'.active = gate.active /\ UNCHANGED transport
      BY <1>1, <2>2, SMTT(30) DEF WriteMessage, TypeOK
    <3> QED BY <2>1, <3>1 DEF GateFlag
  <2>3. CASE HeartbeatFatal \/ Teardown
    BY <1>4, <2>3 DEF HeartbeatFatal, Teardown, Tear
  <2>4. CASE PermanentClose \/ EnvironmentLost
    BY <1>3, <1>4, <2>1, <2>4 DEF PermanentClose, EnvironmentLost, Tear, KeepUp
  <2>5. CASE Reconnecting
    BY <1>3, <1>4, <2>1, <2>5
       DEF Reconnecting, WorkStopped, Registered, ReconnectedInPlace, SessionArchived,
           SessionCreated, PointerWritten, Recovered, GoTo, GiveUp, Tear, KeepUp
  <2>6. CASE \/ \E t \in Transports : Uploader(t)
             \/ \E s \in Sessions : PollReturns(s)
             \/ TeardownCloses \/ UNCHANGED vars
    <3>1. UNCHANGED <<transport, gate>>
      BY <2>6 DEF Uploader, PostArrives, PostReturns, PostRefused, PostFails, BatchDropped,
                  Retry,
                  UploaderCloses, PollReturns, TeardownCloses, vars
    <3> QED BY <1>3, <2>1, <3>1, SMTT(30)
  <2> QED BY <1>8, <2>2, <2>3, <2>4, <2>5, <2>6 DEF Next
<1> QED BY <1>5, <1>6, <1>7, <1>8

\* A flush that runs has an uploader at work on something.
Busy(r) == r.flush = "running" => ~r.closed /\ r.drain # "idle" /\ r.queue # <<>>

\* Of the transports in use only the current one can still connect for the
\* bridge, and the one that a teardown closes is not that one.
GateInv ==
    /\ transport <= used /\ torn <= used /\ (torn # 0 => torn # transport)
    /\ transport # 0 /\ tr[transport].flush = "waiting" => tr[transport].ws = "connecting"
    /\ \A t \in Transports : Busy(tr[t])

LEMMA EnqueueWorks ==
    ASSUME NEW r, Sound(r), NEW msgs \in Seq(Msgs)
    PROVE  /\ Busy(r) => Busy(Enqueue(r, msgs))
           /\ ~r.closed /\ msgs # <<>> => Busy(Enqueue(r, msgs))
<1> DEFINE e == Enqueue(r, msgs)
<1>1. CASE r.closed \/ msgs = <<>>
  BY <1>1 DEF Enqueue
<1>2. CASE ~(r.closed \/ msgs = <<>>)
  <2> DEFINE q == r.queue \o msgs
  <2>1. q # <<>>
    <3>1. r.queue \in Seq(Msgs) /\ Len(q) = Len(r.queue) + Len(msgs)
      BY ConcatProperties DEF Sound, TransportRecord
    <3>2. Len(msgs) > 0 /\ Len(r.queue) \in Nat
      BY <1>2, <3>1, EmptySeq, LenProperties
    <3>3. Len(q) # 0
      BY <3>1, <3>2
    <3> QED BY <3>3, EmptySeq
  <2>2. /\ e.queue = q /\ e.closed = r.closed
        /\ e.drain = IF r.drain = "idle" THEN "posting" ELSE r.drain
    BY <1>2 DEF Enqueue, Sound, TransportRecord
  <2> HIDE DEF q, e
  <2>3. Busy(e)
    BY <1>2, <2>1, <2>2 DEF Busy
  <2> QED BY <2>3 DEF e
<1> QED BY <1>1, <1>2

LEMMA MoveBusy ==
    ASSUME TypeInv, NEW t \in Transports, Moves(t), Busy(tr[t])
    PROVE  Busy(tr'[t])
<1> DEFINE r == tr[t]
<1>1. /\ Sound(r) /\ r \in TransportRecord /\ tr \in [Transports -> TransportRecord]
      /\ r.queue \in Seq(Msgs) /\ r.sent \in Nat /\ r.sent <= Len(r.queue)
      /\ r.answered \in Nat
  BY DEF TypeInv, TypeOK, Sound, TransportRecord
<1>2. CASE Kept(t)
  BY <1>2 DEF Kept
<1>3. CASE Dropped(t)
  BY <1>1, <1>3 DEF Dropped, Closing, Busy, TransportRecord
<1>4. CASE Sent(t)
  <2>1. <<History + live + 1>> \in Seq(Msgs)
    <3>1. WriteMessage
      BY <1>4 DEF Sent
    <3> QED BY <3>1, NextMessage
  <2> QED BY <1>1, <1>4, <2>1, EnqueueWorks DEF Sent
<1>5. CASE Brought(t)
  BY <1>5 DEF Brought, Fresh, Unused, Busy
<1>6. CASE PostReturns(t) \/ PostRefused(t) \/ BatchDropped(t) \/ Retry(t)
  <2>1. PICK b, q, n :
            /\ q \in Seq(Msgs) /\ n \in Nat /\ b = With(tr[t], q, n)
            /\ Ends(tr'[t], b)
    BY <1>6, AdvanceForms
  <2>2. /\ tr'[t].queue = q /\ tr'[t].closed = r.closed
        /\ tr'[t].drain = IF q # <<>> /\ ~r.closed THEN "posting" ELSE "idle"
        /\ tr'[t].flush = IF r.flush = "running" /\ q = <<>> THEN "resolved" ELSE r.flush
    BY <1>1, <2>1, AdvanceFields
  <2> QED BY <2>2 DEF Busy
<1>7. CASE PostArrives(t) \/ PostFails(t) \/ UploaderCloses(t)
  <2>1. \/ \E g : tr'[t] = [r EXCEPT !.arrived = TRUE, !.got = g]
        \/ tr'[t] = [r EXCEPT !.drain = "sleeping", !.sent = 0, !.arrived = FALSE]
        \/ tr'[t] = [r EXCEPT !.closed = TRUE, !.queue = SubSeq(r.queue, 1, r.sent),
                              !.flush = IF r.flush = "running" THEN "resolved" ELSE r.flush]
    BY <1>1, <1>7 DEF PostArrives, PostFails, UploaderCloses, TransportRecord
  <2> QED BY <1>1, <2>1 DEF Busy, TransportRecord
<1>8. CASE Connected(t) /\ Recent(Initial \ flushed) # {}
  <2> DEFINE p == Recent(Initial \ flushed)
             l == (Initial \ flushed) \ p
             b == [r EXCEPT !.ws = "up", !.flush = "running", !.pieces = p,
                            !.lossy = FALSE, !.left = l]
  <2>1. tr'[t] = Enqueue(b, InOrder(p)) /\ r.ws = "connecting"
    BY <1>1, <1>8 DEF Connected, TransportRecord
  <2>2. InOrder(p) \in Seq(Msgs) /\ InOrder(p) # <<>> /\ p \in SUBSET Initial
        /\ l \in SUBSET Initial
    <3>1. p \in SUBSET Initial
      BY RecentPart
    <3>2. InOrder(p) # <<>> /\ InOrder(p) \in Seq(Initial)
      BY <1>8, <3>1, HistoryInOrder
    <3> QED BY <3>1, <3>2, Kinds
  <2> HIDE DEF p, l
  <2>3. Sound(b) /\ ~b.closed
    BY <1>1, <2>1, <2>2 DEF Sound, TransportRecord
  <2> HIDE DEF b, r
  <2> QED BY <2>1, <2>2, <2>3, EnqueueWorks
<1>9. CASE (Connected(t) /\ Recent(Initial \ flushed) = {}) \/ HistoryFlushed(t)
  <2>1. \E b : /\ b = [r EXCEPT !.flush = "done"] \/ b = [r EXCEPT !.ws = "up", !.flush = "done"]
               /\ tr'[t] = b \/ tr'[t] = Enqueue(b, gate.queue)
    BY <1>1, <1>9 DEF Connected, HistoryFlushed, DrainInto, TransportRecord
  <2>2. PICK b : /\ b = [r EXCEPT !.flush = "done"] \/ b = [r EXCEPT !.ws = "up", !.flush = "done"]
                 /\ tr'[t] = b \/ tr'[t] = Enqueue(b, gate.queue)
    BY <2>1
  <2> QED BY <1>1, <2>2 DEF Busy, Enqueue, TransportRecord
<1> QED BY <1>2, <1>3, <1>4, <1>5, <1>6, <1>7, <1>8, <1>9 DEF Moves, Uploader

\* The current transport was current before and no part of the bridge dropped
\* it, or it has just been brought.
LEMMA CurrentMoves ==
    ASSUME TypeOK, GateInv, [Next]_vars, transport' # 0
    PROVE  \/ Brought(transport')
           \/ /\ transport' = transport /\ transport \in Transports
              /\ \/ Kept(transport) \/ Sent(transport) \/ Uploader(transport)
                 \/ Connected(transport) \/ HistoryFlushed(transport)
<1>1. 0 \notin Transports /\ (transport # 0 => transport \in Transports)
  BY Bounds DEF TypeOK, Transports
<1>2. CASE transport' = transport /\ tr' = tr
  BY <1>1, <1>2 DEF Kept
<1>3. ASSUME NEW t \in Transports, Uploader(t) \/ Connected(t) \/ HistoryFlushed(t)
      PROVE  /\ transport' = transport
             /\ Kept(transport) \/ Uploader(transport) \/ Connected(transport)
                    \/ HistoryFlushed(transport)
  <2>1. transport' = transport /\ \E r : tr' = [tr EXCEPT ![t] = r]
    BY <1>3 DEF Uploader, PostArrives, PostReturns, PostRefused, PostFails, BatchDropped, Retry,
                UploaderCloses, Connected, HistoryFlushed, DrainInto, TypeOK
  <2>2. CASE t = transport
    BY <1>3, <2>1, <2>2
  <2>3. CASE t # transport
    BY <1>1, <2>1, <2>3 DEF Kept, TypeOK
  <2> QED BY <2>2, <2>3, SMTT(30)
<1>4. CASE WriteMessage
  <2>1. transport' = transport
    BY <1>4 DEF WriteMessage
  <2>2. CASE ~gate.active
    BY <1>1, <1>4, <2>1, <2>2 DEF WriteMessage, Sent, TypeOK
  <2>3. CASE gate.active
    BY <1>2, <1>4, <2>1, <2>3 DEF WriteMessage
  <2> QED BY <2>2, <2>3
<1>5. CASE WorkReceived
  <2>1. CASE ~UNCHANGED <<transport, gate, tr>>
    <3>1. /\ transport' = used + 1 /\ used + 1 \in Transports
          /\ tr' = [CloseOf(transport, tr) EXCEPT ![used + 1] = Fresh(session)]
      BY <1>5, <2>1, Bounds DEF WorkReceived, TypeOK, Transports
    <3>2. tr'[used + 1] = Fresh(session)
      BY <3>1 DEF CloseOf, TypeOK
    <3> QED BY <1>5, <3>1, <3>2 DEF Brought
  <2>2. CASE UNCHANGED <<transport, gate, tr>>
    BY <1>2, <2>2
  <2> QED BY <2>1, <2>2
<1>6. CASE TeardownCloses
  <2>1. transport' = transport /\ tr' = CloseOf(torn, tr) /\ torn # transport
    BY <1>6 DEF TeardownCloses, GateInv
  <2>2. torn \in 0..MaxTransports /\ transport \in Transports
    BY <1>1, <2>1 DEF TypeOK
  <2>3. tr'[transport] = tr[transport]
    BY <2>1, <2>2, CloseMoves
  <2> QED BY <2>1, <2>2, <2>3 DEF Kept
<1>7. CASE \/ (\E s \in Sessions : PollReturns(s)) \/ Reconnecting \/ HeartbeatFatal
           \/ PermanentClose \/ EnvironmentLost \/ Teardown \/ UNCHANGED vars
  <2>1. transport' = transport /\ tr' = tr
    BY <1>7 DEF PollReturns, Reconnecting, WorkStopped, Registered, ReconnectedInPlace,
                SessionArchived, SessionCreated, PointerWritten, Recovered, GoTo, GiveUp,
                Tear, KeepUp, HeartbeatFatal, PermanentClose, EnvironmentLost, Teardown,
                rest, vars
  <2> QED BY <1>2, <2>1
<1> QED BY <1>1, <1>3, <1>4, <1>5, <1>6, <1>7 DEF Next

\* Work brings the next transport; nothing else does, and a teardown remembers
\* the one that was current.
LEMMA NextInUse ==
    ASSUME TypeInv, transport <= used, torn <= used, torn # 0 => torn # transport,
           [Next]_vars
    PROVE  (transport <= used /\ torn <= used /\ (torn # 0 => torn # transport))'
<1>1. transport \in Nat /\ used \in Nat /\ torn \in Nat
  BY Bounds DEF TypeInv, TypeOK
<1>2. CASE WorkReceived
  BY <1>1, <1>2 DEF WorkReceived
<1>3. CASE UNCHANGED <<used, torn, transport>> \/ (UNCHANGED <<used, torn>> /\ transport' = 0)
           \/ (UNCHANGED <<used, transport>> /\ torn' = 0)
  BY <1>1, <1>3
<1>4. CASE used' = used /\ transport' = 0 /\ torn' \in {torn, transport, 0}
  BY <1>1, <1>4
<1>5. CASE Reconnecting \/ Teardown \/ PermanentClose \/ EnvironmentLost
  BY <1>3, <1>4, <1>5, SMTT(30) DEF Reconnecting, WorkStopped, Registered, ReconnectedInPlace,
                SessionArchived, SessionCreated, PointerWritten, Recovered, GoTo, GiveUp,
                Tear, KeepUp, PermanentClose, EnvironmentLost, Teardown, rest
<1>6. CASE \/ \E t \in Transports : Uploader(t) \/ Connected(t) \/ HistoryFlushed(t)
           \/ WriteMessage \/ (\E s \in Sessions : PollReturns(s)) \/ HeartbeatFatal
           \/ TeardownCloses \/ UNCHANGED vars
  BY <1>3, <1>6 DEF Uploader, PostArrives, PostReturns, PostRefused, PostFails, BatchDropped,
                    Retry,
                UploaderCloses, Connected, HistoryFlushed, WriteMessage, PollReturns,
                HeartbeatFatal, TeardownCloses, loop, vars
<1> QED BY <1>2, <1>5, <1>6 DEF Next

\* A flush that waits has not begun: only its own socket begins it, and its
\* uploader leaves that socket alone.
LEMMA EnqueueFields ==
    ASSUME NEW r \in TransportRecord, NEW m
    PROVE  Enqueue(r, m).flush = r.flush /\ Enqueue(r, m).ws = r.ws
BY DEF Enqueue, TransportRecord

LEMMA LeavesWaiting ==
    ASSUME TypeInv, NEW t \in Transports, Connected(t) \/ HistoryFlushed(t)
    PROVE  tr'[t].flush # "waiting"
<1> DEFINE r == tr[t]
           p == Recent(Initial \ flushed)
           l == (Initial \ flushed) \ p
           a == [r EXCEPT !.ws = "up", !.flush = "running", !.pieces = p,
                          !.lossy = FALSE, !.left = l]
           b == [r EXCEPT !.ws = "up", !.flush = "done"]
           c == [r EXCEPT !.flush = "done"]
<1>1. /\ r \in TransportRecord /\ tr \in [Transports -> TransportRecord]
      /\ p \in SUBSET Initial /\ l \in SUBSET Initial
  BY RecentPart DEF TypeInv, TypeOK
<1>2. /\ a \in TransportRecord /\ b \in TransportRecord /\ c \in TransportRecord
      /\ a.flush # "waiting" /\ b.flush # "waiting" /\ c.flush # "waiting"
  <2> HIDE DEF p, l
  <2> QED BY <1>1 DEF TransportRecord
<1>3. \E e \in {a, b, c} : tr'[t] = e \/ \E m : tr'[t] = Enqueue(e, m)
  BY <1>1 DEF Connected, HistoryFlushed, DrainInto, TransportRecord
<1> HIDE DEF a, b, c
<1>4. PICK e \in {a, b, c} : tr'[t] = e \/ \E m : tr'[t] = Enqueue(e, m)
  BY <1>3
<1> QED BY <1>2, <1>4, EnqueueFields

LEMMA StaysWaiting ==
    ASSUME TypeInv, NEW t \in Transports, Kept(t) \/ Sent(t) \/ Uploader(t),
           tr'[t].flush = "waiting"
    PROVE  tr[t].flush = "waiting" /\ tr'[t].ws = tr[t].ws
<1> DEFINE r == tr[t]
<1>1. r \in TransportRecord /\ tr \in [Transports -> TransportRecord]
  BY DEF TypeInv, TypeOK
<1>2. CASE Kept(t) \/ Sent(t)
  BY <1>1, <1>2, EnqueueFields DEF Kept, Sent
<1>3. CASE PostReturns(t) \/ PostRefused(t) \/ BatchDropped(t) \/ Retry(t)
  <2>1. PICK b, q, n :
            /\ q \in Seq(Msgs) /\ n \in Nat /\ b = With(tr[t], q, n)
            /\ Ends(tr'[t], b)
    BY <1>3, AdvanceForms
  <2>2. /\ tr'[t].ws = r.ws
        /\ tr'[t].flush = IF r.flush = "running" /\ q = <<>> THEN "resolved" ELSE r.flush
    BY <1>1, <2>1, AdvanceFields
  <2> QED BY <2>2
<1>4. CASE PostArrives(t) \/ PostFails(t) \/ UploaderCloses(t)
  BY <1>1, <1>4 DEF PostArrives, PostFails, UploaderCloses, TransportRecord
<1> QED BY <1>2, <1>3, <1>4 DEF Uploader

LEMMA NextGateInv == TypeInv /\ GateInv /\ [Next]_vars => GateInv'
<1> SUFFICES ASSUME TypeInv, GateInv, [Next]_vars PROVE GateInv'
  OBVIOUS
<1>1. TypeOK /\ \A t \in Transports : Moves(t)
  BY StepMoves DEF TypeInv
<1>2. (transport <= used /\ torn <= used /\ (torn # 0 => torn # transport))'
  BY NextInUse DEF GateInv
<1>3. \A t \in Transports : Busy(tr'[t])
  BY <1>1, MoveBusy DEF GateInv
<1>4. ASSUME transport' # 0, tr'[transport'].flush = "waiting"
      PROVE  tr'[transport'].ws = "connecting"
  <2> DEFINE t == transport
             r == tr[t]
  <2>1. CASE Brought(transport')
    BY <2>1 DEF Brought, Fresh, Unused
  <2>2. ASSUME transport' = t, t \in Transports,
               Kept(t) \/ Sent(t) \/ Uploader(t) \/ Connected(t) \/ HistoryFlushed(t)
        PROVE  tr'[t].ws = "connecting"
    <3>1. Sound(r) /\ r \in TransportRecord /\ tr \in [Transports -> TransportRecord] /\ t # 0
      BY <1>1, <1>4, <2>2 DEF TypeInv, TypeOK, Sound
    <3>2. tr'[t].flush = "waiting"
      BY <1>4, <2>2
    <3>3. ~Connected(t) /\ ~HistoryFlushed(t)
      BY <1>1, <2>2, <3>1, <3>2, LeavesWaiting
    <3>4. r.flush = "waiting" /\ tr'[t].ws = r.ws
      BY <1>1, <2>2, <3>1, <3>2, <3>3, StaysWaiting
    <3> QED BY <3>1, <3>4 DEF GateInv
  <2> QED BY <1>1, <1>4, <2>1, <2>2, CurrentMoves
<1> QED BY <1>2, <1>3, <1>4 DEF GateInv

\* The gate is down exactly while the current transport owes the history, and
\* never without somebody who will lift it: new work that arrives in the middle
\* of a flush, a grace period that runs out and a teardown that closes the old
\* transport late do not leave it down over a transport that went quiet.
THEOREM GateIsTheFlush == Spec => []GateFollowsFlush
<1>1. Init => GateFlag /\ GateInv
  <2> SUFFICES ASSUME Init PROVE GateFlag /\ GateInv
    OBVIOUS
  <2>1. \A t \in Transports : Busy(tr[t])
    BY DEF Init, Unused, Busy
  <2>2. transport = 0 /\ used = 0 /\ torn = 0 /\ ~gate.active
    BY DEF Init
  <2> QED BY <2>1, <2>2 DEF GateFlag, GateInv
<1>2. TypeInv /\ GateFlag /\ GateInv => GateFollowsFlush
  <2> SUFFICES ASSUME TypeInv, GateFlag, GateInv PROVE GateFollowsFlush
    OBVIOUS
  <2>1. transport # 0 => transport \in Transports
    BY Bounds DEF TypeInv, TypeOK, Transports
  <2> QED BY <2>1 DEF GateFlag, GateInv, GateFollowsFlush, Busy
<1>3. /\ TypeInv /\ GateFlag /\ GateInv /\ [Next]_vars
            => (TypeInv /\ GateFlag /\ GateInv)'
  BY NextTyped, NextGate, NextGateInv
<1> QED BY <1>1, <1>2, <1>3, InitTyped, PTL DEF Spec
-----------------------------------------------------------------------------
(* The order of the live messages.                                         *)

Rising(s)  == \A i, j \in DOMAIN s : i < j => s[i] < s[j]
UpTo(s, n) == \A i \in DOMAIN s : s[i] <= n

\* What was written went to a transport or waits, and nothing waits in an
\* open gate.
OrderInv ==
    /\ Rising(handed \o gate.queue) /\ UpTo(handed \o gate.queue, History + live)
    /\ ~gate.active => gate.queue = <<>>

LEMMA RisingAppend ==
    ASSUME NEW s \in Seq(Live), NEW n \in Nat, Rising(s), UpTo(s, n)
    PROVE  Rising(Append(s, n + 1)) /\ UpTo(Append(s, n + 1), n + 1)
<1> DEFINE a == Append(s, n + 1)
<1>1. Len(s) \in Nat /\ DOMAIN s = 1..Len(s) /\ \A i \in DOMAIN s : s[i] \in Nat
  <2>1. \A i \in 1..Len(s) : s[i] \in Live
    BY ElementOfSeq
  <2>2. Live \subseteq Nat
    BY Bounds DEF Live
  <2> QED BY <2>1, <2>2, LenProperties
<1>2. s \in Seq(Nat)
  <2>1. Live \subseteq Nat
    BY Bounds DEF Live
  <2> QED BY <2>1, SeqMonotonic
<1>3. /\ Len(a) = Len(s) + 1 /\ DOMAIN a = 1..(Len(s) + 1)
      /\ a[Len(s) + 1] = n + 1 /\ \A i \in 1..Len(s) : a[i] = s[i]
  <2>1. a \in Seq(Nat) /\ Len(a) = Len(s) + 1
        /\ a[Len(s) + 1] = n + 1 /\ \A i \in 1..Len(s) : a[i] = s[i]
    BY <1>2, AppendProperties
  <2> HIDE DEF a
  <2> QED BY <2>1, LenProperties
<1> HIDE DEF a
<1>4. Rising(a)
  <2> SUFFICES ASSUME NEW i \in DOMAIN a, NEW j \in DOMAIN a, i < j PROVE a[i] < a[j]
    BY DEF Rising
  <2>1. i \in 1..Len(s) /\ i \in Nat /\ j \in Nat
    BY <1>1, <1>3
  <2>2. CASE j = Len(s) + 1
    BY <1>1, <1>3, <2>1, <2>2 DEF UpTo
  <2>3. CASE j # Len(s) + 1
    <3>1. j \in 1..Len(s)
      BY <1>1, <1>3, <2>1, <2>3
    <3> QED BY <1>1, <1>3, <2>1, <3>1 DEF Rising
  <2> QED BY <2>2, <2>3
<1>5. UpTo(a, n + 1)
  <2> SUFFICES ASSUME NEW i \in DOMAIN a PROVE a[i] <= n + 1
    BY DEF UpTo
  <2>1. CASE i = Len(s) + 1
    BY <1>3, <2>1
  <2>2. CASE i # Len(s) + 1
    <3>1. i \in 1..Len(s)
      BY <1>1, <1>3, <2>2
    <3>2. a[i] = s[i] /\ s[i] \in Nat /\ s[i] <= n
      BY <1>1, <1>3, <3>1 DEF UpTo
    <3> QED BY <3>2
  <2> QED BY <2>1, <2>2
<1> QED BY <1>4, <1>5 DEF a

LEMMA RisingPrefix ==
    ASSUME NEW a \in Seq(Live), NEW b \in Seq(Live), NEW n \in Nat,
           Rising(a \o b), UpTo(a \o b, n)
    PROVE  Rising(a) /\ UpTo(a, n)
<1> DEFINE c == a \o b
<1>1. /\ DOMAIN a = 1..Len(a) /\ DOMAIN c = 1..(Len(a) + Len(b))
      /\ Len(a) \in Nat /\ Len(b) \in Nat /\ \A i \in 1..Len(a) : c[i] = a[i]
  <2>1. /\ c \in Seq(Live) /\ Len(c) = Len(a) + Len(b)
        /\ \A i \in 1..Len(a) : c[i] = a[i]
    BY ConcatProperties
  <2> HIDE DEF c
  <2> QED BY <2>1, LenProperties
<1> HIDE DEF c
<1>2. DOMAIN a \subseteq DOMAIN c
  BY <1>1
<1>3. Rising(c) /\ UpTo(c, n)
  BY DEF c
<1> QED BY <1>1, <1>2, <1>3 DEF Rising, UpTo

\* Whoever opens the gate passes on what waits, or gives it up.
LEMMA OpenKeepsOrder ==
    ASSUME TypeInv, OrderInv, gate' = OpenGate, UNCHANGED live,
           handed' = handed \o gate.queue \/ UNCHANGED handed
    PROVE  OrderInv'
<1>1. handed \in Seq(Live) /\ gate.queue \in Seq(Live) /\ handed \o gate.queue \in Seq(Live)
      /\ History + live \in Nat
  <2>1. live \in Nat /\ History \in Nat
    BY Bounds DEF TypeInv, TypeOK
  <2> QED BY <2>1, ConcatProperties DEF TypeInv, TypeOK
<1>2. handed' \in Seq(Live) /\ (handed \o gate.queue)' = handed'
  <2>1. handed' \in Seq(Live) /\ gate'.queue = <<>>
    BY <1>1 DEF OpenGate
  <2> QED BY <2>1, ConcatEmptySeq
<1>3. Rising(handed') /\ UpTo(handed', History + live)
  BY <1>1, RisingPrefix DEF OrderInv
<1> QED BY <1>2, <1>3 DEF OrderInv, OpenGate

LEMMA WriteKeepsOrder == TypeInv /\ OrderInv /\ WriteMessage => OrderInv'
<1> SUFFICES ASSUME TypeInv, OrderInv, WriteMessage PROVE OrderInv'
  OBVIOUS
<1> DEFINE n == History + live
           all == handed \o gate.queue
<1>1. handed \in Seq(Live) /\ gate.queue \in Seq(Live) /\ all \in Seq(Live)
      /\ n \in Nat /\ live' = live + 1 /\ n + 1 = History + live'
  <2>1. live \in Nat /\ History \in Nat /\ live' = live + 1
    BY Bounds DEF TypeInv, TypeOK, WriteMessage
  <2> QED BY <2>1, ConcatProperties, SMTT(30) DEF TypeInv, TypeOK
<1>2. n + 1 \in Live
  <2>1. live \in 0..MaxLive /\ live < MaxLive
    BY DEF WriteMessage, TypeInv, TypeOK
  <2> QED BY <2>1, Bounds DEF Live
<1>3. /\ Rising(all) /\ UpTo(all, n)
      /\ Rising(Append(all, n + 1)) /\ UpTo(Append(all, n + 1), n + 1)
  <2>1. Rising(all) /\ UpTo(all, n)
    BY DEF OrderInv
  <2> HIDE DEF all, n
  <2> QED BY <1>1, <2>1, RisingAppend
<1>4. CASE gate.active
  <2>1. gate' = [gate EXCEPT !.queue = Append(gate.queue, n + 1)] /\ UNCHANGED handed
    BY <1>4 DEF WriteMessage
  <2>2. gate'.active /\ gate'.queue = Append(gate.queue, n + 1)
    BY <1>4, <2>1 DEF TypeInv, TypeOK
  <2>3. handed \o Append(gate.queue, n + 1) = Append(all, n + 1)
    <3> HIDE DEF n
    <3> QED BY <1>1, <1>2
  <2> QED BY <1>1, <1>3, <2>1, <2>2, <2>3 DEF OrderInv
<1>5. CASE ~gate.active /\ transport # 0
  <2>1. UNCHANGED gate /\ handed' = Append(handed, n + 1) /\ gate.queue = <<>>
    BY <1>5 DEF WriteMessage, OrderInv
  <2>2. all = handed /\ Append(handed, n + 1) \o <<>> = Append(all, n + 1)
    <3>1. Append(handed, n + 1) \in Seq(Live) /\ all = handed
      BY <1>1, <1>2, <2>1, AppendProperties, ConcatEmptySeq
    <3> QED BY <3>1, ConcatEmptySeq
  <2> QED BY <1>1, <1>3, <1>5, <2>1, <2>2 DEF OrderInv
<1>6. CASE ~gate.active /\ transport = 0
  <2>1. UNCHANGED <<gate, handed>>
    BY <1>6 DEF WriteMessage
  <2>2. UpTo(all, n + 1)
    <3>1. \A i \in DOMAIN all : all[i] \in Nat
      <4>1. Live \subseteq Nat
        BY Bounds DEF Live
      <4> HIDE DEF all
      <4> QED BY <1>1, <4>1, ElementOfSeq, LenProperties
    <3> HIDE DEF all, n
    <3> QED BY <1>1, <1>3, <3>1 DEF UpTo
  <2> QED BY <1>1, <1>3, <2>1, <2>2 DEF OrderInv
<1> QED BY <1>4, <1>5, <1>6

LEMMA NextOrder == TypeInv /\ GateFlag /\ OrderInv /\ [Next]_vars => OrderInv'
<1> SUFFICES ASSUME TypeInv, GateFlag, OrderInv, [Next]_vars PROVE OrderInv'
  OBVIOUS
<1>1. CASE UNCHANGED <<gate, handed, live>>
  BY <1>1 DEF OrderInv
<1>2. CASE gate' = OpenGate /\ UNCHANGED live
           /\ (handed' = handed \o gate.queue \/ UNCHANGED handed)
  BY <1>2, OpenKeepsOrder
<1>3. CASE WriteMessage
  BY <1>3, WriteKeepsOrder
<1>4. ASSUME NEW t \in Transports, Connected(t) \/ HistoryFlushed(t) PROVE OrderInv'
  BY <1>1, <1>2, <1>4 DEF Connected, HistoryFlushed, DrainInto
<1>5. CASE WorkReceived
  <2>1. /\ UNCHANGED <<handed, live>>
        /\ UNCHANGED gate \/ gate' = [gate EXCEPT !.active = History > 0]
    BY <1>5 DEF WorkReceived
  <2>2. CASE UNCHANGED gate
    BY <1>1, <2>1, <2>2
  <2>3. CASE gate' = [gate EXCEPT !.active = History > 0]
    <3>1. gate'.queue = gate.queue /\ gate'.active = (History > 0)
      BY <2>3 DEF TypeInv, TypeOK
    <3>2. ~gate'.active => gate.queue = <<>>
      BY <3>1 DEF GateFlag, OrderInv
    <3> QED BY <2>1, <3>1, <3>2 DEF OrderInv
  <2> QED BY <2>1, <2>2, <2>3
<1>6. CASE HeartbeatFatal \/ Teardown \/ PermanentClose \/ EnvironmentLost
  BY <1>1, <1>2, <1>6 DEF HeartbeatFatal, Teardown, PermanentClose, EnvironmentLost, Tear,
                          KeepUp, rest
<1>7. CASE Reconnecting
  BY <1>1, <1>2, <1>7
     DEF Reconnecting, WorkStopped, Registered, ReconnectedInPlace, SessionArchived,
         SessionCreated, PointerWritten, Recovered, GoTo, GiveUp, Tear, KeepUp, rest
<1>8. CASE \/ \E t \in Transports : Uploader(t)
           \/ \E s \in Sessions : PollReturns(s)
           \/ TeardownCloses \/ UNCHANGED vars
  BY <1>1, <1>8 DEF Uploader, PostArrives, PostReturns, PostRefused, PostFails, BatchDropped,
                    Retry,
                    UploaderCloses, PollReturns, TeardownCloses, vars
<1> QED BY <1>3, <1>4, <1>5, <1>6, <1>7, <1>8 DEF Next

\* What the user writes goes out in the order written and once: a message
\* written behind a flush never overtakes one that waits, and what a drained
\* gate passed on is not passed on again.
THEOREM WrittenInOrder == Spec => []LiveInOrder
<1>1. Init => OrderInv
  <2> SUFFICES ASSUME Init PROVE OrderInv
    OBVIOUS
  <2>1. handed \o gate.queue = <<>> /\ gate.queue = <<>>
    BY Kinds, ConcatEmptySeq DEF Init
  <2>2. DOMAIN <<>> = {}
    OBVIOUS
  <2> QED BY <2>1, <2>2 DEF OrderInv, Rising, UpTo
<1>2. Init => GateFlag
  BY DEF Init, GateFlag
<1>3. /\ TypeInv /\ GateFlag /\ OrderInv /\ [Next]_vars
            => (TypeInv /\ GateFlag /\ OrderInv)'
  BY NextTyped, NextGate, NextOrder
<1>4. OrderInv => LiveInOrder
  BY DEF OrderInv, Rising, LiveInOrder
<1> QED BY <1>1, <1>2, <1>3, <1>4, InitTyped, PTL DEF Spec

-----------------------------------------------------------------------------
(* The history before the new messages.                                    *)

\* Nothing of session s has to wait for h any more.
Cleared(h, s) == \/ h \in Range(received[s]) \/ WrittenOff(h, s) \/ LeftOut(h, s)
                 \/ h \in FlushedBefore
ClearOf(s)    == {h \in Initial : Cleared(h, s)}

\* A queue in which a live message stands behind whatever is not cleared, and
\* one whose messages of the history belong to the flush p.
Lined(q, clear) ==
    \A i \in DOMAIN q, h \in Initial :
        q[i] \in Live => h \in clear \/ \E j \in 1..(i - 1) : q[j] = h
Owned(q, p) == \A i \in DOMAIN q : q[i] \in Initial => q[i] \in p

\* A transport's record, with what is cleared and what its server has got.
Good(r, clear, got) ==
    /\ r.drain # "posting" => ~r.arrived
    /\ r.arrived => \A i \in 1..r.sent : r.queue[i] \in got
    /\ Owned(r.queue, r.pieces) /\ Lined(r.queue, clear)
    /\ r.flush = "running" => Initial \subseteq clear \cup Range(r.queue)
    /\ r.flush \in {"resolved", "done"} => Initial \subseteq clear

LEMMA SeqFacts ==
    ASSUME NEW q \in Seq(Msgs)
    PROVE  Len(q) \in Nat /\ DOMAIN q = 1..Len(q) /\ Range(q) = {q[i] : i \in 1..Len(q)}
BY LenProperties DEF Range

LEMMA Joined ==
    ASSUME NEW p \in Seq(Msgs), NEW q \in Seq(Msgs)
    PROVE  /\ p \o q \in Seq(Msgs) /\ Len(p \o q) = Len(p) + Len(q)
           /\ \A i \in 1..Len(p) : (p \o q)[i] = p[i]
           /\ \A i \in 1..Len(q) : (p \o q)[Len(p) + i] = q[i]
BY ConcatProperties

LEMMA LinedCut ==
    ASSUME NEW q \in Seq(Msgs), NEW n \in Nat, n <= Len(q), NEW clear, NEW p,
           Lined(q, clear), Owned(q, p)
    PROVE  /\ Lined(SubSeq(q, 1, n), clear) /\ Owned(SubSeq(q, 1, n), p)
           /\ Owned(SubSeq(q, n + 1, Len(q)), p)
           /\ (\A i \in 1..n : q[i] \in Initial => q[i] \in clear) =>
                 /\ Lined(SubSeq(q, n + 1, Len(q)), clear)
                 /\ \A h \in Initial : h \in Range(q) =>
                        h \in clear \cup Range(SubSeq(q, n + 1, Len(q)))
<1> DEFINE a == SubSeq(q, 1, n)
           b == SubSeq(q, n + 1, Len(q))
           o == Len(q)
<1>1. /\ a \in Seq(Msgs) /\ Len(a) = n /\ \A i \in 1..n : a[i] = q[i]
      /\ b \in Seq(Msgs) /\ Len(b) = o - n /\ \A i \in 1..(o - n) : b[i] = q[n + i]
  BY Cut
<1>2. o \in Nat /\ DOMAIN q = 1..o /\ Range(q) = {q[i] : i \in 1..o} /\ n <= o
  BY SeqFacts
<1> HIDE DEF a, b, o
<1>3. DOMAIN a = 1..n /\ DOMAIN b = 1..(o - n) /\ Range(b) = {b[i] : i \in 1..(o - n)}
  BY <1>1, SeqFacts
<1>4. Lined(a, clear)
  <2> SUFFICES ASSUME NEW i \in 1..n, NEW h \in Initial, a[i] \in Live, h \notin clear
               PROVE  \E j \in 1..(i - 1) : a[j] = h
    BY <1>3 DEF Lined
  <2>1. i \in 1..o /\ q[i] = a[i]
    BY <1>1, <1>2
  <2>2. PICK j \in 1..(i - 1) : q[j] = h
    BY <1>2, <2>1 DEF Lined
  <2>3. j \in 1..n
    BY <1>2
  <2> QED BY <1>1, <2>2, <2>3
<1>5. Owned(a, p) /\ Owned(b, p)
  <2>1. \A i \in 1..n : i \in 1..o
    BY <1>2
  <2>2. \A i \in 1..(o - n) : n + i \in 1..o
    BY <1>2
  <2> QED BY <1>1, <1>2, <1>3, <2>1, <2>2 DEF Owned
<1>6. ASSUME \A i \in 1..n : q[i] \in Initial => q[i] \in clear
      PROVE  Lined(b, clear)
  <2> SUFFICES ASSUME NEW i \in 1..(o - n), NEW h \in Initial, b[i] \in Live, h \notin clear
               PROVE  \E j \in 1..(i - 1) : b[j] = h
    BY <1>3 DEF Lined
  <2>1. n + i \in 1..o /\ q[n + i] = b[i]
    BY <1>1, <1>2
  <2>2. PICK j \in 1..(n + i - 1) : q[j] = h
    BY <1>2, <2>1 DEF Lined
  <2>3. j \notin 1..n
    BY <1>6, <2>2
  <2>4. j - n \in 1..(i - 1) /\ j - n \in 1..(o - n) /\ n + (j - n) = j
    BY <1>2, <2>3
  <2>5. b[j - n] = h
    BY <1>1, <2>2, <2>4
  <2> QED BY <2>4, <2>5
<1>7. ASSUME \A i \in 1..n : q[i] \in Initial => q[i] \in clear,
             NEW h \in Initial, h \in Range(q), h \notin clear
      PROVE  h \in Range(b)
  <2>1. PICK k \in 1..o : q[k] = h
    BY <1>2, <1>7
  <2>2. k \notin 1..n
    BY <1>7, <2>1
  <2>3. k - n \in 1..(o - n) /\ n + (k - n) = k
    BY <1>2, <2>2
  <2>4. b[k - n] = h
    BY <1>1, <2>1, <2>3
  <2> QED BY <1>3, <2>3, <2>4
<1>8. /\ Lined(a, clear) /\ Owned(a, p) /\ Owned(b, p)
      /\ (\A i \in 1..n : q[i] \in Initial => q[i] \in clear) =>
            Lined(b, clear) /\ \A h \in Initial : h \in Range(q) => h \in clear \cup Range(b)
  BY <1>4, <1>5, <1>6, <1>7
<1> QED BY <1>8 DEF a, b, o

\* What is put behind such a queue: live messages once all is cleared, or what
\* the flush carries.
LEMMA LinedConcat ==
    ASSUME NEW q \in Seq(Msgs), NEW m \in Seq(Msgs), NEW clear, NEW p,
           Lined(q, clear), Owned(q, p),
           \/ m \in Seq(Live) /\ Initial \subseteq clear
           \/ m \in Seq(Initial) /\ Range(m) \subseteq p
    PROVE  /\ Lined(q \o m, clear) /\ Owned(q \o m, p)
           /\ Range(q) \subseteq Range(q \o m) /\ Range(m) \subseteq Range(q \o m)
           /\ \A i \in 1..Len(q) : (q \o m)[i] = q[i]
<1> DEFINE a == q \o m
           n == Len(q)
           o == Len(m)
<1>1. /\ a \in Seq(Msgs) /\ Len(a) = n + o
      /\ \A i \in 1..n : a[i] = q[i]
      /\ \A i \in 1..o : a[n + i] = m[i]
  BY Joined
<1>2. /\ n \in Nat /\ o \in Nat /\ DOMAIN q = 1..n /\ DOMAIN m = 1..o /\ DOMAIN a = 1..(n + o)
      /\ Range(q) = {q[i] : i \in 1..n} /\ Range(m) = {m[i] : i \in 1..o}
      /\ Range(a) = {a[i] : i \in 1..(n + o)}
  <2> HIDE DEF a
  <2> QED BY <1>1, SeqFacts
<1>3. \/ (\A i \in 1..o : m[i] \in Live) /\ Initial \subseteq clear
      \/ \A i \in 1..o : m[i] \in Initial /\ m[i] \notin Live /\ m[i] \in p
  <2>1. CASE m \in Seq(Live) /\ Initial \subseteq clear
    BY <2>1, ElementOfSeq
  <2>2. CASE m \in Seq(Initial) /\ Range(m) \subseteq p
    <3>1. \A i \in 1..o : m[i] \in p
      BY <1>2, <2>2
    <3> QED BY <2>2, <3>1, ElementOfSeq, Kinds
  <2> QED BY <2>1, <2>2
<1>4. Lined(q, clear) /\ Owned(q, p)
  OBVIOUS
<1> HIDE DEF a, n, o
<1>5. Range(q) \subseteq Range(a) /\ Range(m) \subseteq Range(a)
  <2>1. \A i \in 1..n : i \in 1..(n + o) /\ a[i] = q[i]
    BY <1>1, <1>2
  <2>2. \A i \in 1..o : n + i \in 1..(n + o) /\ a[n + i] = m[i]
    BY <1>1, <1>2
  <2> QED BY <1>2, <2>1, <2>2
<1>6. \A i \in 1..(n + o) : i \in 1..n \/ \E k \in 1..o : i = n + k /\ a[i] = m[k]
  <2> SUFFICES ASSUME NEW i \in 1..(n + o), i \notin 1..n
               PROVE  \E k \in 1..o : i = n + k /\ a[i] = m[k]
    OBVIOUS
  <2>1. i - n \in 1..o /\ i = n + (i - n)
    BY <1>2
  <2>2. a[n + (i - n)] = m[i - n]
    BY <1>1, <2>1
  <2> QED BY <2>1, <2>2
<1>7. Lined(a, clear)
  <2> SUFFICES ASSUME NEW i \in 1..(n + o), NEW h \in Initial, a[i] \in Live, h \notin clear
               PROVE  \E j \in 1..(i - 1) : a[j] = h
    BY <1>2 DEF Lined
  <2>1. i \in 1..n
    BY <1>3, <1>6
  <2>2. a[i] = q[i]
    BY <1>1, <2>1
  <2>3. PICK j \in 1..(i - 1) : q[j] = h
    BY <1>2, <1>4, <2>1, <2>2 DEF Lined
  <2>4. j \in 1..n
    BY <1>2, <2>1
  <2> QED BY <1>1, <2>3, <2>4
<1>8. Owned(a, p)
  <2> SUFFICES ASSUME NEW i \in 1..(n + o), a[i] \in Initial PROVE a[i] \in p
    BY <1>2 DEF Owned
  <2>1. CASE i \in 1..n
    <3>1. a[i] = q[i]
      BY <1>1, <2>1
    <3> QED BY <1>2, <1>4, <2>1, <3>1 DEF Owned
  <2>2. CASE i \notin 1..n
    <3>1. PICK k \in 1..o : a[i] = m[k]
      BY <1>6, <2>2
    <3> QED BY <1>3, <3>1, Kinds
  <2> QED BY <2>1, <2>2
<1> QED BY <1>1, <1>5, <1>7, <1>8 DEF a, n

\* What each step makes of a good record.
LEMMA GoodGrows ==
    ASSUME NEW r, NEW c, NEW g, Good(r, c, g), NEW c2, NEW g2, c \subseteq c2, g \subseteq g2
    PROVE  Good(r, c2, g2)
<1>1. Lined(r.queue, c2)
  BY DEF Good, Lined
<1> QED BY <1>1 DEF Good

LEMMA GoodAppend ==
    ASSUME NEW r, Sound(r), NEW m \in Seq(Msgs), NEW c, NEW g,
           \/ Good(r, c, g) /\ m \in Seq(Live) /\ Initial \subseteq c
           \/ /\ r.flush = "running" /\ ~r.closed
              /\ m \in Seq(Initial) /\ Range(m) \subseteq r.pieces
              /\ Initial \subseteq c \cup Range(m)
              /\ r.drain # "posting" => ~r.arrived
              /\ r.arrived => \A i \in 1..r.sent : r.queue[i] \in g
              /\ Owned(r.queue, r.pieces) /\ Lined(r.queue, c)
    PROVE  Good(Enqueue(r, m), c, g)
<1>1. /\ r \in TransportRecord /\ r.queue \in Seq(Msgs) /\ Len(r.queue) \in Nat
      /\ r.sent \in Nat /\ r.sent <= Len(r.queue)
  BY LenProperties DEF Sound, TransportRecord
<1>2. /\ r.drain # "posting" => ~r.arrived
      /\ r.arrived => \A i \in 1..r.sent : r.queue[i] \in g
      /\ Owned(r.queue, r.pieces) /\ Lined(r.queue, c)
      /\ r.flush \in {"resolved", "done"} => Initial \subseteq c
      /\ \/ m \in Seq(Live) /\ Initial \subseteq c
         \/ m \in Seq(Initial) /\ Range(m) \subseteq r.pieces
  BY DEF Good
<1>3. CASE r.closed \/ m = <<>>
  <2>1. Enqueue(r, m) = r
    BY <1>3 DEF Enqueue
  <2>2. CASE Good(r, c, g)
    BY <2>1, <2>2
  <2>3. CASE ~r.closed /\ Initial \subseteq c \cup Range(m) /\ r.flush = "running"
    <3>1. m = <<>>
      BY <1>3, <2>3
    <3>2. Range(m) = {}
      <4>1. DOMAIN m = {}
        BY <3>1
      <4> QED BY <4>1 DEF Range
    <3>3. Initial \subseteq c
      BY <2>3, <3>2
    <3> QED BY <1>2, <2>1, <2>3, <3>3 DEF Good
  <2> QED BY <2>2, <2>3
<1>4. CASE ~(r.closed \/ m = <<>>)
  <2> DEFINE q == r.queue \o m
             p == r.pushed \o m
             e == Enqueue(r, m)
  <2>1. /\ Lined(q, c) /\ Owned(q, r.pieces)
        /\ Range(r.queue) \subseteq Range(q) /\ Range(m) \subseteq Range(q)
        /\ \A i \in 1..Len(r.queue) : q[i] = r.queue[i]
    BY <1>1, <1>2, LinedConcat
  <2>2. q \in Seq(Msgs)
    BY <1>1, ConcatProperties
  <2>3. e = [r EXCEPT !.queue = q, !.pushed = p,
                      !.drain = IF r.drain = "idle" THEN "posting" ELSE r.drain,
                      !.sent = IF r.drain = "idle" THEN Len(q) ELSE r.sent]
    BY <1>1, <1>4 DEF Enqueue, TransportRecord
  <2> HIDE DEF q, p
  <2>4. /\ e.queue = q /\ e.pieces = r.pieces /\ e.flush = r.flush /\ e.arrived = r.arrived
        /\ e.drain = IF r.drain = "idle" THEN "posting" ELSE r.drain
        /\ r.drain # "idle" => e.sent = r.sent
    BY <1>1, <2>3 DEF TransportRecord
  <2> HIDE DEF e
  <2>5. e.drain # "posting" => ~e.arrived
    BY <1>1, <1>2, <2>4 DEF TransportRecord
  <2>6. e.arrived => \A i \in 1..e.sent : e.queue[i] \in g
    <3> SUFFICES ASSUME e.arrived, NEW i \in 1..e.sent PROVE e.queue[i] \in g
      OBVIOUS
    <3>1. r.arrived /\ r.drain = "posting"
      BY <1>2, <2>4
    <3>2. e.sent = r.sent
      BY <2>4, <3>1
    <3>3. i \in 1..Len(r.queue)
      BY <1>1, <3>2
    <3> QED BY <1>2, <2>1, <2>4, <3>1, <3>2, <3>3
  <2>7. e.flush = "running" => Initial \subseteq c \cup Range(e.queue)
    <3>1. CASE Good(r, c, g)
      BY <2>1, <2>4, <3>1 DEF Good
    <3>2. CASE Initial \subseteq c \cup Range(m)
      BY <2>1, <2>4, <3>2
    <3> QED BY <3>1, <3>2
  <2>8. Good(e, c, g)
    BY <1>2, <2>1, <2>4, <2>5, <2>6, <2>7 DEF Good
  <2> QED BY <2>8 DEF e
<1> QED BY <1>3, <1>4

\* The first n messages of the queue are settled, and the loop goes on.
LEMMA GoodAdvance ==
    ASSUME NEW r, Sound(r), NEW c, NEW g, Good(r, c, g), NEW n \in Nat, n <= Len(r.queue),
           \A i \in 1..n : r.queue[i] \in Initial => r.queue[i] \in c,
           NEW k \in Nat,
           NEW a, a = Advance([r EXCEPT !.queue = SubSeq(r.queue, n + 1, Len(r.queue)),
                                        !.answered = k])
    PROVE  Good(a, c, g) /\ Good(Lossy(a), c, g) /\ \A S : Good(Refusing(a, S), c, g)
<1> DEFINE q == SubSeq(r.queue, n + 1, Len(r.queue))
           b == [r EXCEPT !.queue = q, !.answered = k]
<1>1. r \in TransportRecord /\ r.queue \in Seq(Msgs)
  BY DEF Sound, TransportRecord
<1>2. q \in Seq(Msgs)
  BY <1>1, Cut
<1>3. /\ Lined(q, c) /\ Owned(q, r.pieces)
      /\ \A h \in Initial : h \in Range(r.queue) => h \in c \cup Range(q)
  BY <1>1, LinedCut DEF Good
<1>4. a = Advance(b)
  OBVIOUS
<1> HIDE DEF q
<1>5. b \in TransportRecord /\ b.queue = q /\ b.pieces = r.pieces /\ b.flush = r.flush
  BY <1>1, <1>2 DEF TransportRecord
<1> HIDE DEF b
<1>6. /\ a \in TransportRecord
      /\ a.queue = q /\ a.pieces = r.pieces /\ ~a.arrived
      /\ a.flush = IF r.flush = "running" /\ q = <<>> THEN "resolved" ELSE r.flush
  <2> DEFINE go == b.queue # <<>> /\ ~b.closed
             d == IF go THEN "posting" ELSE "idle"
             l == IF go THEN Len(b.queue) ELSE 0
             f == IF b.flush = "running" /\ b.queue = <<>> THEN "resolved" ELSE b.flush
  <2>1. a = [b EXCEPT !.drain = d, !.sent = l, !.arrived = FALSE, !.flush = f]
    BY <1>4, <1>5 DEF Advance, TransportRecord
  <2>2. l \in Nat
    BY <1>2, <1>5, LenProperties
  <2>3. f \in {"waiting", "running", "resolved", "done"} /\ d \in {"idle", "posting"}
    BY <1>5 DEF TransportRecord
  <2>4. f = IF r.flush = "running" /\ q = <<>> THEN "resolved" ELSE r.flush
    BY <1>5
  <2> HIDE DEF d, l, f
  <2>5. a \in TransportRecord /\ a.queue = q /\ a.pieces = r.pieces /\ ~a.arrived /\ a.flush = f
    BY <1>5, <2>1, <2>2, <2>3 DEF TransportRecord
  <2> QED BY <2>4, <2>5
<1>7. r.flush = "running" => Initial \subseteq c \cup Range(q)
  BY <1>3 DEF Good
<1>8. q = <<>> => Range(q) = {}
  <2>1. q = <<>> => DOMAIN q = {}
    OBVIOUS
  <2> QED BY <2>1 DEF Range
<1>9. /\ a.flush = "running" => Initial \subseteq c \cup Range(q)
      /\ a.flush \in {"resolved", "done"} => Initial \subseteq c
  BY <1>6, <1>7, <1>8 DEF Good
<1>10. Good(a, c, g)
  BY <1>3, <1>6, <1>9 DEF Good
<1>11. Good(Lossy(a), c, g)
  <2> DEFINE e == Lossy(a)
  <2>1. /\ e.queue = a.queue /\ e.pieces = a.pieces /\ e.arrived = a.arrived
        /\ e.flush = a.flush /\ e.drain = a.drain /\ e.sent = a.sent
    BY <1>6 DEF Lossy, TransportRecord
  <2> HIDE DEF e
  <2>2. Good(e, c, g)
    BY <1>10, <2>1 DEF Good
  <2> QED BY <2>2 DEF e
<1>12. ASSUME NEW S PROVE Good(Refusing(a, S), c, g)
  <2> DEFINE e == Refusing(a, S)
  <2>1. /\ e.queue = a.queue /\ e.pieces = a.pieces /\ e.arrived = a.arrived
        /\ e.flush = a.flush /\ e.drain = a.drain /\ e.sent = a.sent
    BY <1>6 DEF Refusing, TransportRecord
  <2> HIDE DEF e
  <2>2. Good(e, c, g)
    BY <1>10, <2>1 DEF Good
  <2> QED BY <2>2 DEF e
<1> QED BY <1>10, <1>11, <1>12

\* Fields that the flush and the queue do not show in.
LEMMA GoodSame ==
    ASSUME NEW r, NEW e, NEW c, NEW g, Good(r, c, g),
           e.queue = r.queue, e.pieces = r.pieces, e.arrived = r.arrived,
           e.flush = r.flush, e.drain = r.drain, e.sent = r.sent
    PROVE  Good(e, c, g)
BY DEF Good

\* A finished flush is marked; nothing else of the record changes.
LEMMA GoodDone ==
    ASSUME NEW r, r \in TransportRecord, NEW c, NEW g, Good(r, c, g), Initial \subseteq c,
           NEW e, e = [r EXCEPT !.flush = "done"] \/ e = [r EXCEPT !.ws = "up", !.flush = "done"]
    PROVE  Good(e, c, g)
<1>1. /\ e.queue = r.queue /\ e.pieces = r.pieces /\ e.arrived = r.arrived
      /\ e.flush = "done" /\ e.drain = r.drain /\ e.sent = r.sent
  BY DEF TransportRecord
<1> QED BY <1>1 DEF Good

\* What the uploader of a transport never touches.
Same(r, e) == /\ e.sess = r.sess /\ e.pieces = r.pieces /\ e.closed = r.closed
              /\ e.left = r.left /\ e.refused = r.refused

LEMMA EnqueueSame ==
    ASSUME NEW r, r \in TransportRecord, NEW m
    PROVE  Same(r, Enqueue(r, m)) /\ Enqueue(r, m).lossy = r.lossy
BY DEF Enqueue, Same, TransportRecord

\* A transport's history: it stays with its session, starts one flush at most,
\* and what it wrote off or left out stays so.
LEMMA MoveKeeps ==
    ASSUME TypeInv, NEW t \in Transports, Moves(t), ~Brought(t)
    PROVE  /\ tr'[t].sess = tr[t].sess
           /\ tr'[t].pieces = tr[t].pieces \/ (Connected(t) /\ tr[t].pieces = {})
           /\ tr'[t].left = tr[t].left \/ (Connected(t) /\ tr[t].left = {})
           /\ tr[t].closed => tr'[t].closed
           /\ tr[t].refused \subseteq tr'[t].refused
           /\ tr[t].pieces # {} /\ (tr[t].lossy \/ tr[t].closed)
                    => tr'[t].lossy \/ tr'[t].closed
<1> DEFINE r == tr[t]
<1>1. r \in TransportRecord /\ tr \in [Transports -> TransportRecord]
  BY DEF TypeInv, TypeOK
<1>2. CASE Kept(t)
  BY <1>2 DEF Kept
<1>3. CASE Dropped(t)
  BY <1>1, <1>3 DEF Dropped, Closing, TransportRecord
<1>4. CASE Sent(t)
  <2>1. tr'[t] = Enqueue(r, <<History + live + 1>>)
    BY <1>4 DEF Sent
  <2> QED BY <1>1, <2>1, EnqueueSame DEF Same
<1>5. CASE PostReturns(t) \/ PostRefused(t) \/ BatchDropped(t) \/ Retry(t)
  <2>1. PICK b, q, n :
            /\ q \in Seq(Msgs) /\ n \in Nat /\ b = With(tr[t], q, n)
            /\ Ends(tr'[t], b)
    BY <1>5, AdvanceForms
  <2>2. /\ tr'[t].sess = r.sess /\ tr'[t].pieces = r.pieces /\ tr'[t].closed = r.closed
        /\ tr'[t].left = r.left /\ r.refused \subseteq tr'[t].refused
        /\ r.lossy => tr'[t].lossy
    BY <1>1, <2>1, AdvanceFields
  <2> QED BY <2>2
<1>6. CASE PostArrives(t) \/ PostFails(t) \/ UploaderCloses(t)
  <2>1. \/ \E g : tr'[t] = [r EXCEPT !.arrived = TRUE, !.got = g]
        \/ tr'[t] = [r EXCEPT !.drain = "sleeping", !.sent = 0, !.arrived = FALSE]
        \/ tr'[t] = [r EXCEPT !.closed = TRUE, !.queue = SubSeq(r.queue, 1, r.sent),
                              !.flush = IF r.flush = "running" THEN "resolved" ELSE r.flush]
    BY <1>1, <1>6 DEF PostArrives, PostFails, UploaderCloses, TransportRecord
  <2> QED BY <1>1, <2>1 DEF TransportRecord
<1>7. CASE Connected(t)
  <2> DEFINE p == Recent(Initial \ flushed)
             l == (Initial \ flushed) \ p
             a == [r EXCEPT !.ws = "up", !.flush = "running", !.pieces = p,
                            !.lossy = FALSE, !.left = l]
             b == [r EXCEPT !.ws = "up", !.flush = "done"]
  <2>1. r.pieces = {} /\ r.left = {} /\ r.ws = "connecting"
    BY <1>7 DEF Connected, TypeInv, Sound
  <2>2. \E m : tr'[t] = Enqueue(a, m) \/ tr'[t] = Enqueue(b, m)
    BY <1>1, <1>7 DEF Connected, DrainInto, TransportRecord
  <2>3. p \in SUBSET Initial /\ l \in SUBSET Initial
    BY DEF Recent
  <2> HIDE DEF p, l
  <2>4. /\ a \in TransportRecord /\ b \in TransportRecord
        /\ a.sess = r.sess /\ a.closed = r.closed /\ a.refused = r.refused
        /\ Same(r, b)
    BY <1>1, <2>3 DEF Same, TransportRecord
  <2>5. PICK m : tr'[t] = Enqueue(a, m) \/ tr'[t] = Enqueue(b, m)
    BY <2>2
  <2> HIDE DEF a, b
  <2>6. Same(a, Enqueue(a, m)) /\ Same(b, Enqueue(b, m))
    BY <2>4, EnqueueSame
  <2>7. tr'[t].sess = r.sess /\ tr'[t].closed = r.closed /\ tr'[t].refused = r.refused
    BY <2>4, <2>5, <2>6 DEF Same
  <2> QED BY <1>7, <2>1, <2>7
<1>8. CASE HistoryFlushed(t)
  <2> DEFINE b == [r EXCEPT !.flush = "done"]
  <2>1. b \in TransportRecord /\ Same(r, b) /\ b.lossy = r.lossy
    BY <1>1 DEF TransportRecord, Same
  <2>2. tr'[t] = b \/ tr'[t] = Enqueue(b, gate.queue)
    BY <1>1, <1>8 DEF HistoryFlushed, DrainInto
  <2> HIDE DEF b
  <2> QED BY <2>1, <2>2, EnqueueSame DEF Same
<1> QED BY <1>2, <1>3, <1>4, <1>5, <1>6, <1>7, <1>8 DEF Moves, Uploader

\* The server forgets nothing.
LEMMA ServerGrows ==
    ASSUME TypeInv, [Next]_vars
    PROVE  /\ archived \subseteq archived'
           /\ \A s \in Sessions : Range(received[s]) \subseteq Range(received'[s])
<1>1. CASE UNCHANGED received /\ archived \subseteq archived'
  BY <1>1
<1>2. ASSUME NEW t \in Transports, PostArrives(t)
      PROVE  /\ archived \subseteq archived'
             /\ \A s \in Sessions : Range(received[s]) \subseteq Range(received'[s])
  <2> DEFINE b == SubSeq(tr[t].queue, 1, tr[t].sent)
             u == tr[t].sess
  <2>1. /\ tr[t].queue \in Seq(Msgs) /\ tr[t].sent \in Nat /\ tr[t].sent <= Len(tr[t].queue)
        /\ received \in [Sessions -> Seq(Msgs)] /\ u \in Sessions
    BY DEF TypeInv, TypeOK, Sound, TransportRecord
  <2>2. b \in Seq(Msgs)
    BY <2>1, Cut
  <2>3. received' = [received EXCEPT ![u] = received[u] \o b] /\ UNCHANGED archived
    BY <1>2 DEF PostArrives
  <2> HIDE DEF b, u
  <2>4. Range(received[u] \o b) = Range(received[u]) \cup Range(b)
    BY <2>1, <2>2, RangeConcatenation
  <2> QED BY <2>1, <2>3, <2>4
<1>3. CASE Reconnecting \/ TeardownCloses
  BY <1>1, <1>3 DEF Reconnecting, WorkStopped, Registered, ReconnectedInPlace, SessionArchived,
                    SessionCreated, PointerWritten, TeardownCloses, rest, server
<1>4. CASE \E t \in Transports : \/ PostReturns(t) \/ PostRefused(t) \/ PostFails(t)
                                 \/ BatchDropped(t) \/ Retry(t) \/ UploaderCloses(t)
                                 \/ Connected(t) \/ HistoryFlushed(t)
  BY <1>1, <1>4 DEF PostReturns, PostRefused, PostFails, BatchDropped, Retry, UploaderCloses,
                    Connected,
                    HistoryFlushed, server
<1>5. CASE \/ WriteMessage \/ \E s \in Sessions : PollReturns(s)
           \/ WorkReceived \/ HeartbeatFatal \/ PermanentClose \/ EnvironmentLost
           \/ Teardown \/ UNCHANGED vars
  BY <1>1, <1>5 DEF WriteMessage, PollReturns, WorkReceived, HeartbeatFatal, PermanentClose,
                    EnvironmentLost, Teardown, rest, server, vars
<1> QED BY <1>2, <1>3, <1>4, <1>5 DEF Next, Uploader

\* What may follow a message of the history: its transports, its sessions.
FlushInv ==
    /\ transport <= used
    /\ \A t \in Transports : t > used => tr[t].pieces = {} /\ tr[t].left = {}
    /\ \A h \in flushed, s \in Sessions : Cleared(h, s)
    /\ \A t \in Transports, s \in Sessions :
            tr[t].sess = s => Good(tr[t], ClearOf(s), Range(received[s]))

\* A transport that carries history is not a new one.
LEMMA NotBegun ==
    ASSUME TypeInv, FlushInv, NEW t \in Transports,
           tr[t].pieces # {} \/ tr[t].left # {}
    PROVE  ~Brought(t) /\ ~Connected(t)
<1>1. ~Brought(t)
  <2> SUFFICES ASSUME Brought(t) PROVE FALSE
    OBVIOUS
  <2>1. t > used
    BY Bounds DEF Brought, TypeInv, TypeOK
  <2> QED BY <2>1 DEF FlushInv
<1>2. ~Connected(t)
  BY DEF Connected, TypeInv, Sound
<1> QED BY <1>1, <1>2

LEMMA StaysWrittenOff ==
    ASSUME TypeInv, FlushInv, [Next]_vars, NEW h \in Initial, NEW s \in Sessions,
           WrittenOff(h, s)
    PROVE  WrittenOff(h, s)'
<1>1. PICK t \in Transports :
            /\ h \in tr[t].pieces
            /\ tr[t].lossy \/ tr[t].closed \/ tr[t].sess # s \/ h \in tr[t].refused
  BY DEF WrittenOff
<1>2. tr[t].pieces # {} /\ Moves(t)
  <2>1. TypeOK
    BY DEF TypeInv
  <2> QED BY <1>1, <2>1, StepMoves
<1>3. ~Brought(t) /\ ~Connected(t)
  BY <1>2, NotBegun
<1>4. /\ h \in tr'[t].pieces /\ tr'[t].sess = tr[t].sess
      /\ tr[t].lossy \/ tr[t].closed => tr'[t].lossy \/ tr'[t].closed
      /\ tr[t].refused \subseteq tr'[t].refused
  BY <1>1, <1>2, <1>3, MoveKeeps
<1>5. /\ h \in tr'[t].pieces
      /\ tr'[t].lossy \/ tr'[t].closed \/ tr'[t].sess # s \/ h \in tr'[t].refused
  BY <1>1, <1>4
<1> QED BY <1>5 DEF WrittenOff

LEMMA StaysLeftOut ==
    ASSUME TypeInv, FlushInv, [Next]_vars, NEW h \in Initial, NEW s \in Sessions,
           LeftOut(h, s)
    PROVE  LeftOut(h, s)'
<1>1. PICK t \in Transports : tr[t].sess = s /\ h \in tr[t].left
  BY DEF LeftOut
<1>2. Moves(t) /\ ~Brought(t) /\ ~Connected(t)
  <2>1. TypeOK
    BY DEF TypeInv
  <2> QED BY <1>1, <2>1, StepMoves, NotBegun
<1>3. tr'[t].sess = s /\ h \in tr'[t].left
  BY <1>1, <1>2, MoveKeeps
<1> QED BY <1>3 DEF LeftOut

LEMMA StaysCleared ==
    ASSUME TypeInv, FlushInv, [Next]_vars, NEW s \in Sessions
    PROVE  /\ \A h \in Initial : Cleared(h, s) => Cleared(h, s)'
           /\ ClearOf(s) \subseteq ClearOf(s)'
<1>1. ASSUME NEW h \in Initial, Cleared(h, s) PROVE Cleared(h, s)'
  <2>1. CASE h \in Range(received[s])
    BY <2>1, ServerGrows DEF Cleared
  <2>2. CASE WrittenOff(h, s)
    BY <2>2, StaysWrittenOff DEF Cleared
  <2>3. CASE LeftOut(h, s)
    BY <2>3, StaysLeftOut DEF Cleared
  <2>4. CASE h \in FlushedBefore
    BY <2>4 DEF Cleared
  <2> QED BY <1>1, <2>1, <2>2, <2>3, <2>4 DEF Cleared
<1> QED BY <1>1 DEF ClearOf

LEMMA SentIsCleared ==
    ASSUME TypeInv, FlushInv, NEW t \in Transports, PostReturns(t),
           NEW i \in 1..tr[t].sent, tr[t].queue[i] \in Initial
    PROVE  tr[t].queue[i] \in ClearOf(tr[t].sess)
<1> DEFINE r == tr[t]
<1>1. r.sess \in Sessions
  BY DEF TypeInv, Sound, TransportRecord
<1>2. r.arrived => r.queue[i] \in Range(received[r.sess])
  BY <1>1 DEF FlushInv, Good
<1>3. r.arrived
  BY DEF PostReturns
<1> QED BY <1>2, <1>3 DEF ClearOf, Cleared

LEMMA UploaderGood ==
    ASSUME TypeInv, FlushInv, NEW t \in Transports, Uploader(t), [Next]_vars,
           NEW s \in Sessions, tr[t].sess = s
    PROVE  Good(tr'[t], ClearOf(s)', Range(received'[s]))
<1> DEFINE r == tr[t]
           c == ClearOf(s)
           g == Range(received[s])
           d == ClearOf(s)'
           f == Range(received'[s])
<1>1. /\ Sound(r) /\ r \in TransportRecord /\ tr \in [Transports -> TransportRecord]
      /\ r.queue \in Seq(Msgs) /\ r.sent \in Nat /\ r.sent <= Len(r.queue)
  BY DEF TypeInv, TypeOK, Sound, TransportRecord
<1>2. Good(r, c, g) /\ c \subseteq d /\ g \subseteq f
  BY StaysCleared, ServerGrows DEF FlushInv
<1>3. Good(r, d, f)
  <2> HIDE DEF r, c, d, f, g
  <2> QED BY <1>2, GoodGrows
<1>4. CASE PostArrives(t)
  <2> DEFINE b == SubSeq(r.queue, 1, r.sent)
  <2>1. /\ received'[s] = received[s] \o b /\ r.drain = "posting"
        /\ tr'[t] = [r EXCEPT !.arrived = TRUE, !.got = r.got \o b]
    BY <1>1, <1>4 DEF PostArrives, TypeInv, TypeOK, TransportRecord
  <2>2. b \in Seq(Msgs) /\ Len(b) = r.sent /\ \A i \in 1..r.sent : b[i] = r.queue[i]
    BY <1>1, Cut
  <2>3. received[s] \in Seq(Msgs)
    BY DEF TypeInv, TypeOK
  <2> HIDE DEF b
  <2>4. Range(b) \subseteq f
    BY <2>1, <2>2, <2>3, RangeConcatenation
  <2>5. \A i \in 1..r.sent : r.queue[i] \in f
    BY <2>2, <2>4, SeqFacts
  <2>6. /\ tr'[t].queue = r.queue /\ tr'[t].pieces = r.pieces /\ tr'[t].drain = r.drain
        /\ tr'[t].flush = r.flush /\ tr'[t].sent = r.sent
    BY <1>1, <2>1 DEF TransportRecord
  <2> HIDE DEF r, c, d, f, g
  <2>7. Good(tr'[t], d, f)
    BY <1>3, <2>1, <2>5, <2>6 DEF Good
  <2> QED BY <2>7 DEF d, f
<1>5. CASE PostReturns(t)
  <2>1. \A i \in 1..r.sent : r.queue[i] \in Initial => r.queue[i] \in d
    BY <1>2, <1>5, SentIsCleared
  <2>2. /\ tr'[t] = Advance([r EXCEPT !.queue = SubSeq(r.queue, r.sent + 1, Len(r.queue)),
                                      !.answered = r.answered + r.sent])
        /\ r.answered + r.sent \in Nat
    BY <1>1, <1>5 DEF PostReturns, Settled, TransportRecord
  <2> HIDE DEF r, c, d, f, g
  <2>3. Good(tr'[t], d, f)
    BY <1>1, <1>3, <2>1, <2>2, GoodAdvance
  <2> QED BY <2>3 DEF d, f
<1>6. CASE PostFails(t)
  <2>1. tr'[t] = [r EXCEPT !.drain = "sleeping", !.sent = 0, !.arrived = FALSE]
    BY <1>1, <1>6 DEF PostFails
  <2>2. /\ tr'[t].queue = r.queue /\ tr'[t].pieces = r.pieces /\ tr'[t].flush = r.flush
        /\ ~tr'[t].arrived
    BY <1>1, <2>1 DEF TransportRecord
  <2> HIDE DEF r, c, d, f, g
  <2> QED BY <1>3, <2>2 DEF Good, d, f
<1>7. CASE BatchDropped(t)
  <2> DEFINE k == r.answered + r.sent
             a == Advance([r EXCEPT !.queue = SubSeq(r.queue, r.sent + 1, Len(r.queue)),
                                    !.answered = k])
  <2>1. tr'[t] = Lossy(a) /\ k \in Nat
    BY <1>1, <1>7 DEF BatchDropped, Settled, Lossy, TransportRecord
  <2>2. tr'[t].lossy /\ tr'[t].pieces = r.pieces
    <3> DEFINE q == SubSeq(r.queue, r.sent + 1, Len(r.queue))
    <3>1. q \in Seq(Msgs)
      BY <1>1, Cut
    <3>2. a = Advance(With(r, q, k)) /\ tr'[t] = Lossy(a)
      BY <2>1 DEF With
    <3> HIDE DEF q, k, r, a
    <3>3. a \in TransportRecord /\ tr'[t].pieces = r.pieces
      BY <1>1, <2>1, <3>1, <3>2, AdvanceFields DEF Ends
    <3>4. tr'[t].lossy
      BY <3>2, <3>3 DEF Lossy, TransportRecord
    <3> QED BY <3>3, <3>4
  <2>3. \A i \in 1..r.sent : r.queue[i] \in Initial => r.queue[i] \in d
    <3> SUFFICES ASSUME NEW i \in 1..r.sent, r.queue[i] \in Initial PROVE r.queue[i] \in d
      OBVIOUS
    <3>1. i \in DOMAIN r.queue
      BY <1>1, SeqFacts
    <3>2. r.queue[i] \in r.pieces
      BY <1>2, <3>1 DEF Good, Owned
    <3>3. PICK h \in Initial : h = r.queue[i]
      OBVIOUS
    <3>4. WrittenOff(h, s)'
      BY <2>2, <3>2, <3>3 DEF WrittenOff
    <3>5. h \in d
      BY <3>4 DEF ClearOf, Cleared
    <3> QED BY <3>3, <3>5
  <2>4. a = Advance([r EXCEPT !.queue = SubSeq(r.queue, r.sent + 1, Len(r.queue)),
                              !.answered = k])
    OBVIOUS
  <2> HIDE DEF a, k, r, c, d, f, g
  <2>5. Good(Lossy(a), d, f)
    BY <1>1, <1>3, <2>1, <2>3, <2>4, GoodAdvance
  <2> QED BY <2>1, <2>5 DEF d, f
<1>10. CASE PostRefused(t)
  <2> DEFINE k == r.answered + r.sent
             b == SubSeq(r.queue, 1, r.sent)
             S == r.refused \cup Range(b)
             a == Advance([r EXCEPT !.queue = SubSeq(r.queue, r.sent + 1, Len(r.queue)),
                                    !.answered = k])
  <2>1. tr'[t] = Refusing(a, S) /\ k \in Nat
    BY <1>1, <1>10 DEF PostRefused, Settled, Refusing, TransportRecord
  <2>2. S \subseteq tr'[t].refused /\ tr'[t].pieces = r.pieces
    <3> DEFINE q == SubSeq(r.queue, r.sent + 1, Len(r.queue))
               w == With(r, q, k)
    <3>1. q \in Seq(Msgs)
      BY <1>1, Cut
    <3>2. a = Advance(w)
      BY DEF With
    <3> HIDE DEF q, k, r, a, S
    <3>3. a \in TransportRecord /\ a.pieces = r.pieces
      BY <1>1, <2>1, <3>1, <3>2, AdvanceFields DEF Ends
    <3> QED BY <2>1, <3>3 DEF Refusing, TransportRecord
  <2>3. \A i \in 1..r.sent : r.queue[i] \in Initial => r.queue[i] \in d
    <3> SUFFICES ASSUME NEW i \in 1..r.sent, r.queue[i] \in Initial PROVE r.queue[i] \in d
      OBVIOUS
    <3>1. i \in DOMAIN r.queue
      BY <1>1, SeqFacts
    <3>2. r.queue[i] \in r.pieces
      BY <1>2, <3>1 DEF Good, Owned
    <3>3. PICK h \in Initial : h = r.queue[i]
      OBVIOUS
    <3>4. h \in Range(b)
      <4>1. b \in Seq(Msgs) /\ Len(b) = r.sent /\ b[i] = r.queue[i]
        BY <1>1, Cut
      <4> HIDE DEF b
      <4> QED BY <3>3, <4>1, SeqFacts
    <3>5. h \in tr'[t].pieces /\ h \in tr'[t].refused
      BY <2>2, <3>2, <3>3, <3>4
    <3>6. WrittenOff(h, s)'
      BY <3>5 DEF WrittenOff
    <3>7. h \in d
      BY <3>6 DEF ClearOf, Cleared
    <3> QED BY <3>3, <3>7
  <2>4. a = Advance([r EXCEPT !.queue = SubSeq(r.queue, r.sent + 1, Len(r.queue)),
                              !.answered = k])
    OBVIOUS
  <2> HIDE DEF a, k, b, S, r, c, d, f, g
  <2>5. Good(Refusing(a, S), d, f)
    BY <1>1, <1>3, <2>1, <2>3, <2>4, GoodAdvance
  <2> QED BY <2>1, <2>5 DEF d, f
<1>8. CASE Retry(t)
  <2>1. r.queue \in Seq(Msgs) /\ SubSeq(r.queue, 0 + 1, Len(r.queue)) = r.queue
    <3> DEFINE q == r.queue
               b == SubSeq(q, 0 + 1, Len(q))
    <3>1. 0 \in Nat /\ 0 <= Len(q) /\ q \in Seq(Msgs) /\ Len(q) \in Nat
      BY <1>1, LenProperties
    <3>2. b \in Seq(Msgs) /\ Len(b) = Len(q) - 0 /\ \A i \in 1..(Len(q) - 0) : b[i] = q[0 + i]
      BY <3>1, Cut
    <3> HIDE DEF b, q
    <3>3. Len(b) = Len(q) /\ \A i \in 1..Len(q) : b[i] = q[i]
      BY <3>1, <3>2
    <3>4. b = q
      BY <3>1, <3>2, <3>3, SeqEqual
    <3> QED BY <1>1, <3>4 DEF b, q
  <2>2. [r EXCEPT !.queue = r.queue, !.answered = r.answered] = r /\ r.answered \in Nat
    BY <1>1 DEF TransportRecord
  <2>3. tr'[t] = Advance([r EXCEPT !.queue = SubSeq(r.queue, 0 + 1, Len(r.queue)),
                                   !.answered = r.answered])
    BY <1>1, <1>8, <2>1, <2>2 DEF Retry
  <2>4. 0 \in Nat /\ 0 <= Len(r.queue) /\ 1..0 = {}
    BY <1>1, LenProperties
  <2> HIDE DEF r, c, d, f, g
  <2>5. Good(tr'[t], d, f)
    BY <1>1, <1>3, <2>2, <2>3, <2>4, GoodAdvance
  <2> QED BY <2>5 DEF d, f
<1>9. CASE UploaderCloses(t)
  <2> DEFINE q == SubSeq(r.queue, 1, r.sent)
             e == tr'[t]
  <2>1. e = [r EXCEPT !.closed = TRUE, !.queue = q,
                      !.flush = IF r.flush = "running" THEN "resolved" ELSE r.flush]
    BY <1>1, <1>9 DEF UploaderCloses
  <2>2. Lined(q, d) /\ Owned(q, r.pieces)
    BY <1>1, <1>3, LinedCut DEF Good
  <2>3. \A i \in 1..r.sent : q[i] = r.queue[i]
    BY <1>1, Cut
  <2>4. q \in Seq(Msgs)
    BY <1>1, Cut
  <2> HIDE DEF q
  <2>5. /\ e.queue = q /\ e.pieces = r.pieces /\ e.drain = r.drain /\ e.arrived = r.arrived
        /\ e.sent = r.sent /\ e.closed
        /\ e.flush = IF r.flush = "running" THEN "resolved" ELSE r.flush
    BY <1>1, <2>1, <2>4 DEF TransportRecord
  <2>6. r.flush = "running" => Initial \subseteq d
    <3> SUFFICES ASSUME r.flush = "running", NEW h \in Initial PROVE h \in d
      OBVIOUS
    <3>1. CASE h \in c
      BY <1>2, <3>1
    <3>2. CASE h \in Range(r.queue)
      <4>1. PICK i \in DOMAIN r.queue : r.queue[i] = h
        BY <3>2 DEF Range
      <4>2. h \in r.pieces
        BY <1>2, <4>1 DEF Good, Owned
      <4>3. WrittenOff(h, s)'
        BY <2>5, <4>2 DEF WrittenOff
      <4> QED BY <4>3 DEF ClearOf, Cleared
    <3> QED BY <1>2, <3>1, <3>2 DEF Good
  <2> HIDE DEF r, c, d, f, g, e
  <2>7. Good(e, d, f)
    BY <1>3, <2>2, <2>3, <2>5, <2>6 DEF Good
  <2> QED BY <2>7 DEF d, e, f
<1> QED BY <1>4, <1>5, <1>6, <1>7, <1>8, <1>9, <1>10 DEF Uploader

\* A message is sent through an open gate, and a gate that opens sends what
\* waited: either way the history of that session is cleared.
LEMMA FlushGood ==
    ASSUME TypeInv, FlushInv, GateFlag, [Next]_vars, NEW t \in Transports,
           Sent(t) \/ Connected(t) \/ HistoryFlushed(t),
           NEW s \in Sessions, tr[t].sess = s
    PROVE  Good(tr'[t], ClearOf(s)', Range(received'[s]))
<1> DEFINE r == tr[t]
           c == ClearOf(s)
           g == Range(received[s])
           d == ClearOf(s)'
           f == Range(received'[s])
<1>1. /\ Sound(r) /\ r \in TransportRecord /\ tr \in [Transports -> TransportRecord]
      /\ gate.queue \in Seq(Live) /\ gate.queue \in Seq(Msgs) /\ 0 \notin Transports
  BY Bounds, Kinds DEF TypeInv, TypeOK, Transports
<1>2. Good(r, c, g) /\ c \subseteq d /\ g \subseteq f
  BY StaysCleared, ServerGrows DEF FlushInv
<1>3. Good(r, d, f)
  <2> HIDE DEF r, c, d, f, g
  <2> QED BY <1>2, GoodGrows
<1>4. CASE Sent(t)
  <2>1. Initial \subseteq c
    <3>1. CASE History = 0
      BY <3>1 DEF Initial
    <3>2. CASE History > 0
      <4>1. r.flush = "done"
        BY <1>1, <1>4, <3>2 DEF Sent, GateFlag
      <4> QED BY <1>2, <4>1 DEF Good
    <3> QED BY <3>1, <3>2, Bounds
  <2>2. <<History + live + 1>> \in Seq(Live)
    <3>1. WriteMessage
      BY <1>4 DEF Sent
    <3> QED BY <3>1, NextMessage
  <2>3. PICK m \in Seq(Live) : tr'[t] = Enqueue(r, m)
    BY <1>4, <2>2 DEF Sent
  <2>4. m \in Seq(Msgs)
    BY Kinds
  <2>5. Initial \subseteq d
    BY <1>2, <2>1
  <2> HIDE DEF r, c, d, f, g
  <2>6. Good(tr'[t], d, f)
    BY <1>1, <1>3, <2>3, <2>4, <2>5, GoodAppend
  <2> QED BY <2>6 DEF d, f
<1>5. CASE Connected(t) /\ Recent(Initial \ flushed) # {}
  <2> DEFINE p == Recent(Initial \ flushed)
             l == (Initial \ flushed) \ p
             o == InOrder(p)
             b == [r EXCEPT !.ws = "up", !.flush = "running", !.pieces = p,
                            !.lossy = FALSE, !.left = l]
  <2>1. r.ws = "connecting" /\ tr'[t] = Enqueue(b, o)
    BY <1>1, <1>5 DEF Connected, TransportRecord
  <2>2. p \in SUBSET Initial /\ l \in SUBSET Initial /\ Initial \subseteq flushed \cup l \cup p
    BY DEF Recent
  <2>3. o \in Seq(Msgs) /\ o \in Seq(Initial) /\ Range(o) = p
    BY <2>2, HistoryInOrder, Kinds
  <2> HIDE DEF p, l, o
  <2>4. ~r.closed /\ r.pieces = {}
    BY <1>1, <2>1 DEF Sound
  <2>5. Sound(b)
    BY <1>1, <2>2, <2>4 DEF Sound, TransportRecord
  <2>6. /\ b.flush = "running" /\ b.pieces = p /\ b.left = l /\ b.closed = r.closed
        /\ b.drain = r.drain /\ b.arrived = r.arrived /\ b.sent = r.sent /\ b.queue = r.queue
        /\ b.sess = r.sess /\ b \in TransportRecord
    BY <1>1, <2>2 DEF TransportRecord
  <2> HIDE DEF b
  <2>7. tr'[t].left = l /\ tr'[t].sess = s
    BY <2>1, <2>6, EnqueueSame DEF Same
  <2>8. Initial \subseteq d \cup Range(o)
    <3> SUFFICES ASSUME NEW h \in Initial, h \notin p PROVE h \in d
      BY <2>3
    <3>1. CASE h \in flushed
      <4>1. Cleared(h, s)
        BY <3>1 DEF FlushInv
      <4> QED BY <1>2, <4>1 DEF ClearOf
    <3>2. CASE h \in l
      <4>1. LeftOut(h, s)'
        BY <2>7, <3>2 DEF LeftOut
      <4> QED BY <4>1 DEF ClearOf, Cleared
    <3> QED BY <2>2, <3>1, <3>2
  <2>9. /\ b.drain # "posting" => ~b.arrived
        /\ b.arrived => \A i \in 1..b.sent : b.queue[i] \in f
        /\ Owned(b.queue, b.pieces) /\ Lined(b.queue, d)
    <3> HIDE DEF r, c, d, f, g
    <3>1. Owned(b.queue, b.pieces)
      BY <1>3, <2>4, <2>6 DEF Good, Owned
    <3> QED BY <1>3, <2>6, <3>1 DEF Good
  <2> HIDE DEF r, c, d, f, g
  <2>10. Good(Enqueue(b, o), d, f)
    BY <2>3, <2>4, <2>5, <2>6, <2>8, <2>9, GoodAppend
  <2> QED BY <2>1, <2>10 DEF d, f
<1>6. CASE Connected(t) /\ Recent(Initial \ flushed) = {}
  <2> DEFINE b == [r EXCEPT !.ws = "up", !.flush = "done"]
  <2>1. tr'[t] = Enqueue(b, gate.queue)
    BY <1>1, <1>6 DEF Connected, DrainInto, TransportRecord
  <2>2. Initial \subseteq d
    <3>1. \A h \in Initial : h \in flushed
      <4>1. Initial \ flushed = {}
        BY <1>6, RecentPart
      <4> QED BY <4>1
    <3>2. \A h \in Initial : Cleared(h, s)
      BY <3>1 DEF FlushInv
    <3> QED BY <1>2, <3>2 DEF ClearOf
  <2>3. Sound(b)
    BY <1>1 DEF Sound, TransportRecord
  <2>4. b = [r EXCEPT !.flush = "done"] \/ b = [r EXCEPT !.ws = "up", !.flush = "done"]
    OBVIOUS
  <2> HIDE DEF b, r, c, d, f, g
  <2>5. Good(b, d, f)
    BY <1>1, <1>3, <2>2, <2>4, GoodDone
  <2>6. Good(Enqueue(b, gate.queue), d, f)
    BY <1>1, <2>2, <2>3, <2>5, GoodAppend
  <2> QED BY <2>1, <2>6 DEF d, f
<1>7. CASE HistoryFlushed(t)
  <2> DEFINE b == [r EXCEPT !.flush = "done"]
  <2>1. r.flush = "resolved" /\ (tr'[t] = b \/ tr'[t] = Enqueue(b, gate.queue))
    BY <1>1, <1>7 DEF HistoryFlushed, DrainInto
  <2>2. Initial \subseteq d
    BY <1>2, <2>1 DEF Good
  <2>3. Sound(b)
    <3>1. r.ws \notin {"unused", "connecting"}
      BY <1>1, <2>1 DEF Sound
    <3> QED BY <1>1, <3>1 DEF Sound, TransportRecord
  <2>4. b = [r EXCEPT !.flush = "done"] \/ b = [r EXCEPT !.ws = "up", !.flush = "done"]
    OBVIOUS
  <2> HIDE DEF b, r, c, d, f, g
  <2>5. Good(b, d, f)
    BY <1>1, <1>3, <2>2, <2>4, GoodDone
  <2>6. Good(Enqueue(b, gate.queue), d, f)
    BY <1>1, <2>2, <2>3, <2>5, GoodAppend
  <2> QED BY <2>1, <2>5, <2>6 DEF d, f
<1> QED BY <1>4, <1>5, <1>6, <1>7

LEMMA MoveGood ==
    ASSUME TypeInv, FlushInv, GateFlag, [Next]_vars, NEW t \in Transports,
           NEW s \in Sessions, tr'[t].sess = s
    PROVE  Good(tr'[t], ClearOf(s)', Range(received'[s]))
<1> DEFINE r == tr[t]
           e == tr'[t]
           d == ClearOf(s)'
           f == Range(received'[s])
<1>1. Moves(t) /\ r \in TransportRecord
  BY StepMoves DEF TypeInv, TypeOK
<1>2. CASE Brought(t)
  <2>1. /\ e.queue = <<>> /\ e.drain = "idle" /\ ~e.arrived /\ e.flush = "waiting"
    BY <1>2 DEF Brought, Fresh, Unused
  <2>2. DOMAIN e.queue = {}
    BY <2>1
  <2> HIDE DEF e, d, f
  <2>3. Good(e, d, f)
    BY <2>1, <2>2 DEF Good, Owned, Lined
  <2> QED BY <2>3 DEF e, d, f
<1>3. CASE ~Brought(t)
  <2>1. r.sess = s
    BY <1>1, <1>3, MoveKeeps
  <2>2. CASE Uploader(t)
    BY <2>1, <2>2, UploaderGood
  <2>3. CASE Sent(t) \/ Connected(t) \/ HistoryFlushed(t)
    BY <2>1, <2>3, FlushGood
  <2>4. CASE Kept(t) \/ Dropped(t)
    <3>1. /\ e.queue = r.queue /\ e.pieces = r.pieces /\ e.arrived = r.arrived
          /\ e.flush = r.flush /\ e.drain = r.drain /\ e.sent = r.sent
      BY <1>1, <2>4 DEF Kept, Dropped, Closing, TransportRecord
    <3>2. Good(r, ClearOf(s), Range(received[s]))
      BY <2>1 DEF FlushInv
    <3>3. ClearOf(s) \subseteq d /\ Range(received[s]) \subseteq f
      BY StaysCleared, ServerGrows
    <3> HIDE DEF r, e, d, f
    <3>4. Good(r, d, f)
      BY <3>2, <3>3, GoodGrows
    <3>5. Good(e, d, f)
      BY <3>1, <3>4, GoodSame
    <3> QED BY <3>5 DEF e, d, f
  <2> QED BY <1>1, <1>3, <2>2, <2>3, <2>4 DEF Moves
<1> QED BY <1>2, <1>3

LEMMA NextFlush == TypeInv /\ FlushInv /\ GateFlag /\ [Next]_vars => FlushInv'
<1> SUFFICES ASSUME TypeInv, FlushInv, GateFlag, [Next]_vars PROVE FlushInv'
  OBVIOUS
<1>1. TypeOK /\ \A t \in Transports : Moves(t)
  BY StepMoves DEF TypeInv
<1>2. transport' <= used' /\ used' >= used
  <2>1. transport \in Nat /\ used \in Nat
    BY <1>1, Bounds DEF TypeOK
  <2>2. CASE WorkReceived
    BY <2>1, <2>2 DEF WorkReceived, FlushInv
  <2>3. CASE ~WorkReceived
    <3>1. used' = used /\ transport' \in {transport, 0}
      BY <2>3, ZenonT(40) DEF Next, Uploader, PostArrives, PostReturns, PostRefused,
                              PostFails, BatchDropped, Retry,
                  UploaderCloses, Connected, HistoryFlushed, WriteMessage, PollReturns,
                  HeartbeatFatal, PermanentClose, EnvironmentLost, Reconnecting, WorkStopped,
                  Registered, ReconnectedInPlace, SessionArchived, SessionCreated,
                  PointerWritten, Teardown, TeardownCloses, Recovered, GoTo, GiveUp, Tear,
                  KeepUp, rest, vars
    <3> QED BY <2>1, <3>1, SMTT(30) DEF FlushInv
  <2> QED BY <2>2, <2>3
<1>3. ASSUME NEW t \in Transports, t > used'
      PROVE  tr'[t].pieces = {} /\ tr'[t].left = {}
  <2>1. t > used /\ tr[t].pieces = {} /\ tr[t].left = {}
    <3>1. t \in Nat /\ used \in Nat /\ used' \in Nat
      <4>1. used' = used \/ used' = used + 1
        BY DEF Next, Uploader, PostArrives, PostReturns, PostRefused, PostFails,
               BatchDropped, Retry,
               UploaderCloses, Connected, HistoryFlushed, WriteMessage, PollReturns,
               HeartbeatFatal, PermanentClose, EnvironmentLost, Reconnecting, WorkStopped,
               Registered, ReconnectedInPlace, SessionArchived, SessionCreated,
               PointerWritten, Teardown, TeardownCloses, WorkReceived, rest, vars
      <4> QED BY <1>1, <4>1 DEF TypeOK, Transports
    <3>2. t > used
      BY <1>2, <1>3, <3>1
    <3> QED BY <3>2 DEF FlushInv
  <2>2. CASE Brought(t)
    BY <2>2 DEF Brought, Fresh, Unused
  <2>3. CASE ~Brought(t)
    <3>1. ~Connected(t)
      <4> SUFFICES ASSUME Connected(t) PROVE FALSE
        OBVIOUS
      <4>1. transport = t
        BY DEF Connected
      <4>2. t \in Nat /\ used \in Nat
        BY <1>1, Bounds DEF TypeOK, Transports
      <4> QED BY <2>1, <4>1, <4>2 DEF FlushInv
    <3> QED BY <1>1, <2>1, <2>3, <3>1, MoveKeeps
  <2> QED BY <2>2, <2>3
<1>4. ASSUME NEW h \in flushed', NEW s \in Sessions PROVE Cleared(h, s)'
  <2>1. flushed' \subseteq Initial
    BY NextTyped, SMTT(30) DEF TypeInv, TypeOK
  <2>2. CASE h \in flushed
    BY <2>1, <2>2, StaysCleared DEF FlushInv
  <2>3. CASE h \notin flushed
    <3>1. PICK t \in Transports : HistoryFlushed(t)
      BY <2>3 DEF Next, Uploader, PostArrives, PostReturns, PostRefused, PostFails,
                  BatchDropped, Retry,
                  UploaderCloses, Connected, WriteMessage, PollReturns, WorkReceived,
                  HeartbeatFatal, PermanentClose, EnvironmentLost, Reconnecting, WorkStopped,
                  Registered, ReconnectedInPlace, SessionArchived, SessionCreated,
                  PointerWritten, Teardown, TeardownCloses, rest, vars
    <3>2. h \in tr[t].pieces /\ tr[t].flush = "resolved"
      BY <2>3, <3>1 DEF HistoryFlushed
    <3>3. Cleared(h, s)
      <4>1. CASE tr[t].sess = s
        <5>1. Initial \subseteq ClearOf(s)
          BY <3>2, <4>1 DEF FlushInv, Good
        <5> QED BY <2>1, <5>1 DEF ClearOf
      <4>2. CASE tr[t].sess # s
        BY <3>2, <4>2 DEF Cleared, WrittenOff
      <4> QED BY <4>1, <4>2
    <3> QED BY <2>1, <3>3, StaysCleared
  <2> QED BY <2>2, <2>3
<1>5. \A t \in Transports, s \in Sessions :
            tr'[t].sess = s => Good(tr'[t], ClearOf(s)', Range(received'[s]))
  BY MoveGood
<1> QED BY <1>2, <1>3, <1>4, <1>5 DEF FlushInv

LEMMA NextFirst == TypeInv /\ FlushInv /\ HistoryFirst /\ [Next]_vars => HistoryFirst'
<1> SUFFICES ASSUME TypeInv, FlushInv, HistoryFirst, [Next]_vars,
                    NEW s \in Sessions, NEW m \in Live, NEW h \in Initial \ FlushedBefore,
                    Before(received'[s], m, h)
             PROVE  WrittenOff(h, s)' \/ LeftOut(h, s)'
  BY DEF HistoryFirst, Before
<1>0. h \in Initial /\ (WrittenOff(h, s) \/ LeftOut(h, s) => WrittenOff(h, s)' \/ LeftOut(h, s)')
  BY StaysWrittenOff, StaysLeftOut
<1>1. CASE received'[s] = received[s]
  BY <1>0, <1>1 DEF HistoryFirst
<1>2. ASSUME NEW t \in Transports, PostArrives(t), tr[t].sess = s
      PROVE  WrittenOff(h, s)' \/ LeftOut(h, s)'
  <2> DEFINE r == tr[t]
             b == SubSeq(r.queue, 1, r.sent)
             log == received[s]
             n == Len(log)
  <2>1. /\ r.queue \in Seq(Msgs) /\ r.sent \in Nat /\ r.sent <= Len(r.queue)
        /\ log \in Seq(Msgs) /\ n \in Nat /\ Len(r.queue) \in Nat
    BY LenProperties DEF TypeInv, TypeOK, Sound, TransportRecord
  <2>2. b \in Seq(Msgs) /\ Len(b) = r.sent /\ \A i \in 1..r.sent : b[i] = r.queue[i]
    BY <2>1, Cut
  <2>3. received'[s] = log \o b
    BY <1>2 DEF PostArrives, TypeInv, TypeOK
  <2>4. Lined(r.queue, ClearOf(s))
    BY <1>2 DEF FlushInv, Good
  <2> DEFINE a == log \o b
  <2> HIDE DEF b, log, n, r
  <2>5. /\ a \in Seq(Msgs) /\ Len(a) = n + r.sent
        /\ \A i \in 1..n : a[i] = log[i]
        /\ \A i \in 1..r.sent : a[n + i] = b[i]
    <3>1. Len(log) = n
      BY DEF n
    <3>2. /\ a \in Seq(Msgs) /\ Len(a) = Len(log) + Len(b)
          /\ \A i \in 1..Len(log) : a[i] = log[i]
          /\ \A i \in 1..Len(b) : a[Len(log) + i] = b[i]
      BY <2>1, <2>2, Joined
    <3> HIDE DEF a
    <3>3. \A i \in 1..r.sent : a[n + i] = b[i]
      BY <2>2, <3>1, <3>2
    <3> QED BY <2>2, <3>1, <3>2, <3>3
  <2>6. PICK i \in DOMAIN a : a[i] = m /\ \A j \in 1..i : a[j] # h
    BY <2>3 DEF Before
  <2> HIDE DEF a
  <2>7. DOMAIN a = 1..(n + r.sent) /\ DOMAIN log = 1..n /\ DOMAIN r.queue = 1..Len(r.queue)
        /\ Range(log) = {log[x] : x \in 1..n}
    <3>1. Len(log) = n
      BY DEF n
    <3>2. DOMAIN a = 1..Len(a)
      BY <2>5, SeqFacts
    <3>3. DOMAIN log = 1..Len(log) /\ Range(log) = {log[x] : x \in 1..Len(log)}
      BY <2>1, SeqFacts
    <3>4. DOMAIN r.queue = 1..Len(r.queue)
      BY <2>1, SeqFacts
    <3> QED BY <2>5, <3>1, <3>2, <3>3, <3>4
  <2>8. CASE i \in 1..n
    <3>1. \A j \in 1..i : j \in 1..n
      BY <2>1, <2>8
    <3>2. log[i] = m /\ \A j \in 1..i : log[j] # h
      BY <2>5, <2>6, <2>8, <3>1
    <3>3. Before(log, m, h)
      BY <2>7, <2>8, <3>2 DEF Before
    <3> QED BY <1>0, <3>3 DEF HistoryFirst, log
  <2>9. CASE i \notin 1..n
    <3> DEFINE k == i - n
    <3>1. k \in 1..r.sent /\ n + k = i /\ k \in 1..Len(r.queue)
      BY <2>1, <2>6, <2>7, <2>9
    <3>2. r.queue[k] = m
      BY <2>2, <2>5, <2>6, <3>1
    <3>3. ~ \E j \in 1..(k - 1) : r.queue[j] = h
      <4> SUFFICES ASSUME NEW j \in 1..(k - 1), r.queue[j] = h PROVE FALSE
        OBVIOUS
      <4>1. j \in 1..r.sent /\ n + j \in 1..i
        BY <2>1, <3>1
      <4>2. a[n + j] = h
        BY <2>2, <2>5, <4>1
      <4> QED BY <2>6, <4>1, <4>2
    <3>4. h \in ClearOf(s)
      <4> HIDE DEF k
      <4> QED BY <1>0, <2>4, <2>7, <3>1, <3>2, <3>3 DEF Lined
    <3>5. h \notin Range(log)
      <4> SUFFICES ASSUME NEW x \in 1..n, log[x] = h PROVE FALSE
        BY <2>7
      <4>1. x \in 1..i /\ a[x] = h
        BY <2>1, <2>5, <2>6, <2>7, <2>9, SMTT(30)
      <4> QED BY <2>6, <4>1
    <3>6. WrittenOff(h, s) \/ LeftOut(h, s)
      BY <3>4, <3>5 DEF ClearOf, Cleared, log
    <3> QED BY <1>0, <3>6
  <2> QED BY <2>8, <2>9
<1>3. CASE received'[s] # received[s]
  <2>1. PICK t \in Transports : PostArrives(t)
    BY <1>3 DEF Next, Uploader, PostReturns, PostRefused, PostFails, BatchDropped, Retry,
                UploaderCloses, Connected, HistoryFlushed, WriteMessage, PollReturns,
                WorkReceived, HeartbeatFatal, PermanentClose, EnvironmentLost, Reconnecting,
                WorkStopped, Registered, ReconnectedInPlace, SessionArchived, SessionCreated,
                PointerWritten, Teardown, TeardownCloses, rest, server, vars
  <2>2. tr[t].sess = s
    <3> SUFFICES ASSUME tr[t].sess # s PROVE FALSE
      OBVIOUS
    <3>1. received \in [Sessions -> Seq(Msgs)]
      BY DEF TypeInv, TypeOK
    <3> QED BY <1>3, <2>1, <3>1 DEF PostArrives
  <2> QED BY <1>2, <2>1, <2>2
<1> QED BY <1>1, <1>3

LEMMA InitFlush == Init => FlushInv /\ HistoryFirst /\ GateFlag
<1> SUFFICES ASSUME Init PROVE FlushInv /\ HistoryFirst /\ GateFlag
  OBVIOUS
<1>1. GateFlag
  BY DEF Init, GateFlag
<1>2. DOMAIN <<>> = {}
  OBVIOUS
<1>3. HistoryFirst
  <2> SUFFICES ASSUME NEW s \in Sessions, NEW m \in Live, NEW h \in Initial,
                      Before(received[s], m, h)
               PROVE  FALSE
    BY DEF HistoryFirst
  <2>1. received[s] = <<>>
    BY DEF Init
  <2> QED BY <1>2, <2>1 DEF Before
<1>4. \A t \in Transports, s \in Sessions : Good(tr[t], ClearOf(s), Range(received[s]))
  <2> SUFFICES ASSUME NEW t \in Transports, NEW s \in Sessions
               PROVE  Good(tr[t], ClearOf(s), Range(received[s]))
    OBVIOUS
  <2> DEFINE r == tr[t]
             c == ClearOf(s)
             g == Range(received[s])
  <2>1. r.queue = <<>> /\ r.drain = "idle" /\ ~r.arrived /\ r.flush = "waiting"
    BY DEF Init, Unused
  <2>2. DOMAIN r.queue = {}
    BY <2>1
  <2> HIDE DEF r, c, g
  <2>3. Good(r, c, g)
    BY <2>1, <2>2 DEF Good, Owned, Lined
  <2> QED BY <2>3 DEF r, c, g
<1>5. /\ transport <= used
      /\ \A t \in Transports : tr[t].pieces = {} /\ tr[t].left = {}
      /\ flushed = FlushedBefore
  BY DEF Init, Unused
<1> QED BY <1>1, <1>3, <1>4, <1>5 DEF FlushInv, Cleared

\* A session's server never receives what the user wrote later without the
\* history that was to come first, unless a transport wrote that history off or
\* the cap left it out of a flush to this session: through failed and refused
\* POSTs, the grace period of a replaced transport, work that arrives in the
\* middle of a flush, a change of session and a bridge enabled again.
THEOREM HistoryComesFirst == Spec => []HistoryFirst
<1>1. /\ TypeInv /\ FlushInv /\ GateFlag /\ HistoryFirst /\ [Next]_vars
            => (TypeInv /\ FlushInv /\ GateFlag /\ HistoryFirst)'
  BY NextTyped, NextFlush, NextGate, NextFirst
<1> QED BY <1>1, InitTyped, InitFlush, PTL DEF Spec
=============================================================================
