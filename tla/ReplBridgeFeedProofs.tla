------------------------ MODULE ReplBridgeFeedProofs ------------------------
(***************************************************************************)
(* Theorems about what the transports of ReplBridge deliver, for every     *)
(* value of its constants: each is a MessageFeed, and the history that is  *)
(* marked as flushed was delivered unless it was cut off or refused.       *)
(***************************************************************************)
EXTENDS ReplBridgeProofs

-----------------------------------------------------------------------------
(* One transport as a feed.                                                *)

\* The queue is what was accepted and not answered for, or the beginning of
\* that once the grace period is over.
Fed(r) ==
    /\ r.answered + Len(r.queue) <= Len(r.pushed)
    /\ \A i \in 1..Len(r.queue) : r.queue[i] = r.pushed[r.answered + i]
    /\ ~r.closed => r.answered + Len(r.queue) = Len(r.pushed)

\* A transport that no work item has brought yet.
Blank(r) == /\ r.pushed = <<>> /\ r.answered = 0 /\ r.got = <<>> /\ r.queue = <<>>
            /\ r.drain = "idle" /\ r.flush = "waiting"

FeedInv == \A t \in Transports : Fed(tr[t]) /\ (t > used => Blank(tr[t]))

\* The steps of MessageFeed, from record to record.
SameFeed(r, e) == e.pushed = r.pushed /\ e.answered = r.answered /\ e.got = r.got
Accepts(r, e) ==
    /\ Len(e.pushed) >= Len(r.pushed) /\ SubSeq(e.pushed, 1, Len(r.pushed)) = r.pushed
    /\ e.answered = r.answered /\ e.got = r.got
Delivers(r, e) ==
    \E n \in (r.answered + 1)..Len(r.pushed) :
        /\ e.got = r.got \o SubSeq(r.pushed, r.answered + 1, n)
        /\ e.answered = r.answered /\ e.pushed = r.pushed
Answers(r, e) ==
    /\ e.answered \in (r.answered + 1)..Len(r.pushed)
    /\ e.pushed = r.pushed /\ e.got = r.got
FeedStep(r, e) == SameFeed(r, e) \/ Accepts(r, e) \/ Delivers(r, e) \/ Answers(r, e)

\* Only what the feed shows of a record matters.
LEMMA FedSame ==
    ASSUME NEW r, Fed(r), NEW e, SameFeed(r, e), e.queue = r.queue, r.closed => e.closed
    PROVE  Fed(e) /\ FeedStep(r, e)
BY DEF Fed, SameFeed, FeedStep

LEMMA EnqueueFed ==
    ASSUME NEW r, Sound(r), Fed(r), NEW m \in Seq(Msgs), NEW e, e = Enqueue(r, m)
    PROVE  Fed(e) /\ FeedStep(r, e)
<1>1. CASE r.closed \/ m = <<>>
  <2>1. e = r
    BY <1>1 DEF Enqueue
  <2> QED BY <2>1 DEF SameFeed, FeedStep
<1>2. CASE ~(r.closed \/ m = <<>>)
  <2> DEFINE q == r.queue \o m
             p == r.pushed \o m
  <2>1. /\ r \in TransportRecord /\ r.queue \in Seq(Msgs) /\ r.pushed \in Seq(Msgs)
        /\ r.answered \in Nat /\ r.got \in Seq(Msgs)
    BY DEF Sound, TransportRecord
  <2>2. /\ e.queue = q /\ e.pushed = p /\ e.answered = r.answered /\ e.got = r.got
        /\ e.closed = r.closed
    BY <1>2, <2>1 DEF Enqueue, TransportRecord
  <2>3. /\ q \in Seq(Msgs) /\ Len(q) = Len(r.queue) + Len(m)
        /\ \A i \in 1..Len(r.queue) : q[i] = r.queue[i]
        /\ \A i \in 1..Len(m) : q[Len(r.queue) + i] = m[i]
    BY <2>1, ConcatProperties
  <2>4. /\ p \in Seq(Msgs) /\ Len(p) = Len(r.pushed) + Len(m)
        /\ \A i \in 1..Len(r.pushed) : p[i] = r.pushed[i]
        /\ \A i \in 1..Len(m) : p[Len(r.pushed) + i] = m[i]
    BY <2>1, ConcatProperties
  <2> HIDE DEF q, p
  <2>5. Len(r.queue) \in Nat /\ Len(r.pushed) \in Nat /\ Len(m) \in Nat
    BY <2>1, LenProperties
  <2>6. r.answered + Len(r.queue) = Len(r.pushed)
    BY <1>2 DEF Fed
  <2> DEFINE x == Len(r.queue)
             y == Len(m)
             z == Len(r.pushed)
             u == r.answered
  <2>10. /\ x \in Nat /\ y \in Nat /\ z \in Nat /\ u \in Nat /\ u + x = z
        /\ Len(q) = x + y /\ Len(p) = z + y
    BY <2>1, <2>3, <2>4, <2>5, <2>6
  <2>7. \A i \in 1..Len(q) : q[i] = p[r.answered + i]
    <3> SUFFICES ASSUME NEW i \in 1..Len(q) PROVE q[i] = p[r.answered + i]
      OBVIOUS
    <3>1. CASE i \in 1..Len(r.queue)
      <4>1. r.answered + i \in 1..Len(r.pushed)
        BY <2>1, <2>5, <2>6, <3>1
      <4>2. q[i] = r.queue[i] /\ p[r.answered + i] = r.pushed[r.answered + i]
        BY <2>3, <2>4, <3>1, <4>1
      <4>3. r.queue[i] = r.pushed[r.answered + i]
        BY <3>1 DEF Fed
      <4> QED BY <4>2, <4>3
    <3>2. CASE i \notin 1..Len(r.queue)
      <4> DEFINE k == i - Len(r.queue)
      <4>1. k \in 1..Len(m) /\ Len(r.queue) + k = i /\ Len(r.pushed) + k = r.answered + i
        <5> HIDE DEF x, y, z, u
        <5>1. i \in 1..(x + y) /\ i \notin 1..x
          BY <2>10, <3>2 DEF x
        <5>2. i - x \in 1..y /\ x + (i - x) = i /\ z + (i - x) = u + i
          BY <2>10, <5>1
        <5> QED BY <5>2 DEF x, y, z, u
      <4>2. q[Len(r.queue) + k] = m[k] /\ p[Len(r.pushed) + k] = m[k]
        BY <2>3, <2>4, <4>1
      <4> HIDE DEF k
      <4>3. q[i] = m[k] /\ p[r.answered + i] = m[k]
        BY <4>1, <4>2
      <4> QED BY <4>3
    <3> QED BY <3>1, <3>2
  <2>8. Fed(e)
    <3>1. r.answered + Len(q) = Len(p)
      <4> HIDE DEF x, y, z, u
      <4>1. u + Len(q) = Len(p)
        BY <2>10
      <4> QED BY <4>1 DEF u
    <3>2. Len(p) \in Nat
      BY <2>4, <2>5
    <3> QED BY <2>2, <2>7, <3>1, <3>2 DEF Fed
  <2>9. Accepts(r, e)
    <3>1. SubSeq(p, 1, Len(r.pushed)) = r.pushed
      <4> DEFINE n == Len(r.pushed)
                 b == SubSeq(p, 1, n)
      <4>1. n \in Nat /\ n <= Len(p)
        BY <2>4, <2>5
      <4>2. b \in Seq(Msgs) /\ Len(b) = n /\ \A i \in 1..n : b[i] = p[i]
        BY <2>4, <4>1, Cut
      <4> HIDE DEF b
      <4>3. b = r.pushed
        BY <2>1, <2>4, <4>2, SeqEqual
      <4> QED BY <4>3 DEF b
    <3>2. Len(p) >= Len(r.pushed)
      BY <2>4, <2>5
    <3> QED BY <2>2, <3>1, <3>2 DEF Accepts
  <2> QED BY <2>8, <2>9 DEF FeedStep
<1> QED BY <1>1, <1>2

\* The first k messages of the queue are answered for.
LEMMA AdvanceFed ==
    ASSUME NEW r, Sound(r), Fed(r), NEW k \in Nat, k <= Len(r.queue),
           NEW n \in Nat, n = r.answered + k, NEW q \in Seq(Msgs),
           Len(q) = Len(r.queue) - k, \A i \in 1..(Len(r.queue) - k) : q[i] = r.queue[k + i],
           NEW b, b = With(r, q, n), NEW e, Ends(e, b)
    PROVE  Fed(e) /\ FeedStep(r, e)
<1>1. /\ r \in TransportRecord /\ r.queue \in Seq(Msgs) /\ r.answered \in Nat
      /\ Len(r.queue) \in Nat /\ r.pushed \in Seq(Msgs) /\ Len(r.pushed) \in Nat
  BY LenProperties DEF Sound, TransportRecord
<1>2. /\ Len(q) = Len(r.queue) - k
      /\ \A i \in 1..(Len(r.queue) - k) : q[i] = r.queue[k + i]
  OBVIOUS
<1>3. /\ e.queue = q /\ e.answered = n /\ e.pushed = r.pushed /\ e.got = r.got
      /\ e.closed = r.closed
  BY <1>1, AdvanceFields
<1>4. /\ r.answered + Len(r.queue) <= Len(r.pushed)
      /\ \A i \in 1..Len(r.queue) : r.queue[i] = r.pushed[r.answered + i]
      /\ ~r.closed => r.answered + Len(r.queue) = Len(r.pushed)
  BY DEF Fed
<1>5. Fed(e)
  <2>1. n + Len(q) = r.answered + Len(r.queue)
    BY <1>1, <1>2
  <2>2. \A i \in 1..Len(q) : q[i] = r.pushed[n + i]
    <3> SUFFICES ASSUME NEW i \in 1..Len(q) PROVE q[i] = r.pushed[n + i]
      OBVIOUS
    <3>1. k + i \in 1..Len(r.queue) /\ r.answered + (k + i) = n + i
      BY <1>1, <1>2
    <3>2. q[i] = r.queue[k + i]
      BY <1>2
    <3> QED BY <1>4, <3>1, <3>2
  <2> QED BY <1>3, <1>4, <2>1, <2>2 DEF Fed
<1>6. SameFeed(r, e) \/ Answers(r, e)
  BY <1>1, <1>3, <1>4 DEF SameFeed, Answers
<1> QED BY <1>5, <1>6 DEF FeedStep

LEMMA PostFed ==
    ASSUME NEW r, Sound(r), Fed(r), NEW e,
           e = [r EXCEPT !.arrived = TRUE, !.got = r.got \o SubSeq(r.queue, 1, r.sent)]
    PROVE  Fed(e) /\ FeedStep(r, e)
<1> DEFINE b == SubSeq(r.queue, 1, r.sent)
           n == r.answered + r.sent
           p == SubSeq(r.pushed, r.answered + 1, n)
<1>1. /\ r \in TransportRecord /\ r.queue \in Seq(Msgs) /\ r.pushed \in Seq(Msgs)
      /\ r.got \in Seq(Msgs)
      /\ r.answered \in Nat /\ r.sent \in Nat /\ r.sent <= Len(r.queue)
      /\ Len(r.queue) \in Nat /\ Len(r.pushed) \in Nat
  BY LenProperties DEF Sound, TransportRecord
<1>2. /\ e.queue = r.queue /\ e.pushed = r.pushed /\ e.answered = r.answered
      /\ e.closed = r.closed /\ e.got = r.got \o b
  BY <1>1 DEF TransportRecord
<1>3. Fed(e)
  BY <1>2 DEF Fed
<1>4. b \in Seq(Msgs) /\ Len(b) = r.sent /\ \A i \in 1..r.sent : b[i] = r.queue[i]
  BY <1>1, Cut
<1>5. n \in Nat /\ n <= Len(r.pushed)
  BY <1>1 DEF Fed
<1>6. /\ p \in Seq(Msgs) /\ Len(p) = r.sent
      /\ \A i \in 1..r.sent : p[i] = r.pushed[r.answered + i]
  <2> DEFINE a == r.answered + 1
  <2>1. a \in Int /\ n \in Int /\ \A i \in a..n : i \in 1..Len(r.pushed)
    BY <1>1, <1>5
  <2>2. \A i \in a..n : r.pushed[i] \in Msgs
    BY <1>1, <2>1, ElementOfSeq
  <2>3. a \in 1..(Len(r.pushed) + 1) /\ n \in (a - 1)..Len(r.pushed)
    BY <1>1, <1>5
  <2>4. /\ p \in Seq(Msgs) /\ Len(p) = IF a <= n THEN n - a + 1 ELSE 0
        /\ \A i \in 1..(n - a + 1) : p[i] = r.pushed[a + i - 1]
    <3>1. p = SubSeq(r.pushed, a, n) /\ r.pushed \in Seq(Msgs)
      BY <1>1
    <3> HIDE DEF a, n, p
    <3> QED BY <2>3, <3>1, SubSeqProperties
  <2> HIDE DEF p
  <2>5. Len(p) = r.sent
    BY <1>1, <2>4
  <2>6. \A i \in 1..r.sent : i \in 1..(n - a + 1) /\ a + i - 1 = r.answered + i
    BY <1>1
  <2> QED BY <2>4, <2>5, <2>6
<1>7. b = p
  <2>1. \A i \in 1..r.sent : i \in 1..Len(r.queue)
    BY <1>1
  <2> HIDE DEF b, p
  <2>2. \A i \in 1..r.sent : b[i] = p[i]
    BY <1>4, <1>6, <2>1 DEF Fed
  <2> QED BY <1>4, <1>6, <2>2, SeqEqual
<1>8. CASE r.sent = 0
  <2>1. b = <<>>
    BY <1>4, <1>8, EmptySeq
  <2>2. e.got = r.got
    <3> HIDE DEF b
    <3> QED BY <1>1, <1>2, <2>1, ConcatEmptySeq
  <2> QED BY <1>2, <1>3, <2>2 DEF SameFeed, FeedStep
<1>9. CASE r.sent # 0
  <2>1. n \in (r.answered + 1)..Len(r.pushed)
    BY <1>1, <1>5, <1>9
  <2>2. Delivers(r, e)
    <3> HIDE DEF b, n
    <3> QED BY <1>2, <1>7, <2>1 DEF Delivers
  <2> QED BY <1>3, <2>2 DEF FeedStep
<1> QED BY <1>8, <1>9

\* A step of the bridge is a step of each transport's feed.
LEMMA UploaderFed ==
    ASSUME TypeInv, NEW t \in Transports, Uploader(t), Fed(tr[t])
    PROVE  Fed(tr'[t]) /\ FeedStep(tr[t], tr'[t])
<1> DEFINE r == tr[t]
           e == tr'[t]
<1>1. /\ Sound(r) /\ Fed(r) /\ r \in TransportRecord /\ tr \in [Transports -> TransportRecord]
      /\ r.queue \in Seq(Msgs) /\ r.sent \in Nat /\ r.sent <= Len(r.queue)
      /\ Len(r.queue) \in Nat /\ r.answered \in Nat
  BY LenProperties DEF TypeInv, TypeOK, Sound, TransportRecord
<1>2. CASE PostArrives(t)
  <2>1. e = [r EXCEPT !.arrived = TRUE, !.got = r.got \o SubSeq(r.queue, 1, r.sent)]
    BY <1>1, <1>2 DEF PostArrives, TransportRecord
  <2> HIDE DEF e, r
  <2>2. Fed(e) /\ FeedStep(r, e)
    BY <1>1, <2>1, PostFed
  <2> QED BY <2>2 DEF e, r
<1>3. CASE PostReturns(t) \/ PostRefused(t) \/ BatchDropped(t)
  <2> DEFINE q == SubSeq(r.queue, r.sent + 1, Len(r.queue))
             n == r.answered + r.sent
             b == With(r, q, n)
  <2>1. q \in Seq(Msgs) /\ n \in Nat /\ Ends(e, b)
    BY <1>3, SettledForms
  <2>3. /\ q \in Seq(Msgs) /\ Len(q) = Len(r.queue) - r.sent
        /\ \A i \in 1..(Len(r.queue) - r.sent) : q[i] = r.queue[r.sent + i]
    BY <1>1, Cut
  <2>4. n = r.answered + r.sent /\ b = With(r, q, n)
    OBVIOUS
  <2> HIDE DEF q, n, b, r, e
  <2>5. Fed(e) /\ FeedStep(r, e)
    BY <1>1, <2>1, <2>3, <2>4, AdvanceFed
  <2> QED BY <2>5 DEF r, e
<1>4. CASE Retry(t)
  <2>1. r = With(r, r.queue, r.answered)
    BY <1>1 DEF With, TransportRecord
  <2>2. e = Advance(r)
    BY <1>1, <1>4 DEF Retry
  <2> HIDE DEF r, e
  <2>3. /\ 0 \in Nat /\ 0 <= Len(r.queue) /\ r.answered = r.answered + 0
        /\ Len(r.queue) = Len(r.queue) - 0
        /\ \A i \in 1..(Len(r.queue) - 0) : r.queue[i] = r.queue[0 + i]
    BY <1>1
  <2>4. Fed(e) /\ FeedStep(r, e)
    BY <1>1, <2>1, <2>2, <2>3, AdvanceFed DEF Ends
  <2> QED BY <2>4 DEF r, e
<1>5. CASE PostFails(t)
  <2>1. e = [r EXCEPT !.drain = "sleeping", !.sent = 0, !.arrived = FALSE]
    BY <1>1, <1>5 DEF PostFails
  <2>2. e.queue = r.queue /\ SameFeed(r, e) /\ e.closed = r.closed
    BY <1>1, <2>1 DEF SameFeed, TransportRecord
  <2> QED BY <1>1, <2>2, FedSame
<1>6. CASE UploaderCloses(t)
  <2> DEFINE q == SubSeq(r.queue, 1, r.sent)
  <2>1. e = [r EXCEPT !.closed = TRUE, !.queue = q,
                      !.flush = IF r.flush = "running" THEN "resolved" ELSE r.flush]
    BY <1>1, <1>6 DEF UploaderCloses
  <2>2. q \in Seq(Msgs) /\ Len(q) = r.sent /\ \A i \in 1..r.sent : q[i] = r.queue[i]
    BY <1>1, Cut
  <2> HIDE DEF q
  <2>3. e.queue = q /\ SameFeed(r, e) /\ e.closed
    BY <1>1, <2>1 DEF SameFeed, TransportRecord
  <2> HIDE DEF r, e
  <2>4. Fed(e)
    <3>1. \A i \in 1..r.sent : i \in 1..Len(r.queue)
      BY <1>1
    <3>2. \A i \in 1..Len(q) : q[i] = r.pushed[r.answered + i]
      BY <1>1, <2>2, <3>1 DEF Fed
    <3>3. r.pushed \in Seq(Msgs) /\ Len(r.pushed) \in Nat
      BY <1>1, LenProperties DEF TransportRecord
    <3>4. r.answered + Len(q) <= Len(r.pushed)
      BY <1>1, <2>2, <3>3 DEF Fed
    <3> QED BY <2>3, <3>2, <3>4 DEF Fed, SameFeed
  <2> QED BY <2>3, <2>4 DEF FeedStep, r, e
<1> QED BY <1>2, <1>3, <1>4, <1>5, <1>6 DEF Uploader

LEMMA MoveFed ==
    ASSUME TypeInv, FeedInv, NEW t \in Transports, Moves(t)
    PROVE  Fed(tr'[t]) /\ FeedStep(tr[t], tr'[t])
<1> DEFINE r == tr[t]
           e == tr'[t]
<1>1. /\ Sound(r) /\ Fed(r) /\ r \in TransportRecord /\ tr \in [Transports -> TransportRecord]
      /\ flushed \subseteq Initial
  BY DEF TypeInv, TypeOK, FeedInv
<1>2. CASE Kept(t) \/ Dropped(t)
  <2>1. SameFeed(r, e) /\ e.queue = r.queue /\ e.closed = r.closed
    BY <1>1, <1>2 DEF Kept, Dropped, Closing, SameFeed, TransportRecord
  <2> QED BY <1>1, <2>1, FedSame
<1>3. CASE Sent(t)
  <2>1. <<History + live + 1>> \in Seq(Msgs)
    <3>1. WriteMessage
      BY <1>3 DEF Sent
    <3> QED BY <3>1, NextMessage
  <2> QED BY <1>1, <1>3, <2>1, EnqueueFed DEF Sent
<1>4. CASE Brought(t)
  <2>1. Blank(r)
    <3>1. t > used
      BY <1>4, Bounds DEF Brought, TypeInv, TypeOK
    <3> QED BY <3>1 DEF FeedInv
  <2>2. SameFeed(r, e) /\ e.queue = r.queue
    BY <1>4, <2>1 DEF Brought, Fresh, Unused, Blank, SameFeed
  <2>3. ~e.closed /\ Len(r.queue) = 0 /\ Len(r.pushed) = 0 /\ r.answered = 0
    BY <1>4, <2>1, EmptySeq DEF Brought, Fresh, Unused, Blank
  <2>4. Fed(e)
    BY <2>2, <2>3 DEF Fed, SameFeed
  <2> QED BY <2>2, <2>4 DEF FeedStep
<1>5. CASE Uploader(t)
  BY <1>1, <1>5, UploaderFed
<1>6. CASE Connected(t) \/ HistoryFlushed(t)
  <2> DEFINE p == Recent(Initial \ flushed)
             l == (Initial \ flushed) \ p
             a == [r EXCEPT !.ws = "up", !.flush = "running", !.pieces = p,
                            !.lossy = FALSE, !.left = l]
             c == [r EXCEPT !.ws = "up", !.flush = "done"]
             d == [r EXCEPT !.flush = "done"]
  <2>1. gate.queue \in Seq(Msgs)
    BY Kinds DEF TypeInv, TypeOK
  <2>2. \E b \in {a, c, d}, m \in Seq(Msgs) :
            /\ b = d => HistoryFlushed(t)
            /\ e = b \/ e = Enqueue(b, m)
    <3>1. CASE Connected(t) /\ p # {}
      <4>1. e = Enqueue(a, InOrder(p)) /\ r.ws = "connecting"
        BY <1>1, <3>1 DEF Connected, TransportRecord
      <4>2. InOrder(p) \in Seq(Msgs)
        BY HistoryInOrder, Kinds DEF Recent
      <4>3. a # d
        <5> HIDE DEF p, l
        <5> QED BY <1>1, <4>1 DEF TransportRecord
      <4> QED BY <4>1, <4>2, <4>3
    <3>2. CASE Connected(t) /\ p = {}
      <4>1. e = Enqueue(c, gate.queue) /\ r.ws = "connecting"
        BY <1>1, <3>2 DEF Connected, DrainInto, TransportRecord
      <4>2. c # d
        BY <1>1, <4>1 DEF TransportRecord
      <4> QED BY <2>1, <4>1, <4>2
    <3>3. CASE HistoryFlushed(t)
      BY <1>1, <2>1, <3>3 DEF HistoryFlushed, DrainInto
    <3> QED BY <1>6, <3>1, <3>2, <3>3
  <2>3. PICK b \in {a, c, d}, m \in Seq(Msgs) :
            /\ b = d => HistoryFlushed(t)
            /\ e = b \/ e = Enqueue(b, m)
    BY <2>2
  <2> HIDE DEF p, l
  <2>4. SameFeed(r, b) /\ b.queue = r.queue /\ b.closed = r.closed
    BY <1>1 DEF SameFeed, TransportRecord
  <2>5. b = d => r.ws \notin {"unused", "connecting"}
    BY <1>1, <2>3 DEF HistoryFlushed, Sound
  <2>6. Sound(b)
    <3>1. p \in SUBSET Initial /\ l \in SUBSET Initial
      BY DEF Recent, p, l
    <3>2. CASE b = a
      BY <1>1, <3>1, <3>2 DEF Sound, TransportRecord
    <3>3. CASE b = c
      BY <1>1, <3>3 DEF Sound, TransportRecord
    <3>4. CASE b = d
      BY <1>1, <2>5, <3>4 DEF Sound, TransportRecord
    <3> QED BY <3>2, <3>3, <3>4
  <2> HIDE DEF a, c, d, r, e
  <2>7. Fed(b) /\ FeedStep(r, b)
    BY <1>1, <2>4, FedSame
  <2>8. CASE e = Enqueue(b, m)
    <3>1. Fed(e) /\ FeedStep(b, e)
      BY <2>6, <2>7, <2>8, EnqueueFed
    <3>2. FeedStep(r, e)
      BY <2>4, <3>1 DEF FeedStep, SameFeed, Accepts, Delivers, Answers
    <3> QED BY <3>1, <3>2 DEF r, e
  <2> QED BY <2>3, <2>7, <2>8 DEF r, e
<1> QED BY <1>2, <1>3, <1>4, <1>5, <1>6 DEF Moves

\* Work items only come in: a transport not yet brought was not before.
LEMMA UsedGrows == TypeInv /\ [Next]_vars => used' \in {used, used + 1}
BY DEF Next, Uploader, PostArrives, PostReturns, PostRefused, PostFails, BatchDropped, Retry,
       UploaderCloses, Connected, HistoryFlushed, WriteMessage, PollReturns,
       HeartbeatFatal, PermanentClose, EnvironmentLost, Reconnecting, WorkStopped,
       Registered, ReconnectedInPlace, SessionArchived, SessionCreated,
       PointerWritten, Teardown, TeardownCloses, WorkReceived, rest, vars

LEMMA StaysBlank ==
    ASSUME TypeInv, GateInv, FeedInv, [Next]_vars, NEW t \in Transports, t > used'
    PROVE  Blank(tr'[t])
<1> DEFINE r == tr[t]
<1>1. /\ r \in TransportRecord /\ tr \in [Transports -> TransportRecord]
      /\ Moves(t) /\ t \in Nat /\ used \in Nat /\ transport \in Nat /\ transport <= used
  BY StepMoves, Bounds DEF TypeInv, TypeOK, Transports, GateInv
<1>2. t > used
  <2>1. used' \in {used, used + 1}
    BY UsedGrows
  <2> QED BY <1>1, <2>1
<1>3. Blank(r)
  BY <1>2 DEF FeedInv
<1>4. ~Sent(t) /\ ~Connected(t) /\ ~HistoryFlushed(t)
  BY <1>1, <1>2, <1>3 DEF Sent, Connected, HistoryFlushed, Blank
<1>7. CASE Brought(t)
  <2>1. t = used + 1 /\ (used' = used + 1 \/ tr' = tr)
    BY <1>7 DEF Brought, WorkReceived
  <2> QED BY <1>1, <1>3, <2>1
<1>5. CASE Kept(t) \/ Dropped(t)
  BY <1>1, <1>3, <1>5 DEF Kept, Dropped, Closing, Blank, TransportRecord
<1>6. CASE Uploader(t)
  <2>1. UploaderCloses(t)
    BY <1>3, <1>6 DEF Uploader, PostArrives, PostReturns, PostRefused, PostFails,
                      BatchDropped, Retry, Blank
  <2>2. tr'[t] = [r EXCEPT !.closed = TRUE, !.queue = SubSeq(r.queue, 1, r.sent),
                           !.flush = IF r.flush = "running" THEN "resolved" ELSE r.flush]
    BY <1>1, <2>1 DEF UploaderCloses
  <2>3. SubSeq(r.queue, 1, r.sent) = <<>>
    <3>1. r.sent = 0
      BY <1>1, <1>3, EmptySeq DEF Blank, TypeInv, Sound, TransportRecord
    <3> QED BY <3>1, SubSeqEmpty
  <2> QED BY <1>1, <1>3, <2>2, <2>3 DEF Blank, TransportRecord
<1> QED BY <1>1, <1>4, <1>5, <1>6, <1>7 DEF Moves

LEMMA NextFeed == TypeInv /\ GateInv /\ FeedInv /\ [Next]_vars => FeedInv'
<1> SUFFICES ASSUME TypeInv, GateInv, FeedInv, [Next]_vars PROVE FeedInv'
  OBVIOUS
<1>1. \A t \in Transports : Moves(t)
  BY StepMoves DEF TypeInv
<1> QED BY <1>1, MoveFed, StaysBlank DEF FeedInv

\* To its server every transport is a MessageFeed: retries, dropped batches,
\* grace periods, reconnects and whatever the bridge enqueues meanwhile reorder
\* nothing, repeat nothing that was answered and invent nothing.
THEOREM EveryTransportFeeds == Spec => ImplementsFeeds
<1> DEFINE Starts == \A t \in Transports : Feed(t)!Init
           Steps  == \A t \in Transports : [Feed(t)!Next]_(Feed(t)!vars)
<1>1. Init => FeedInv /\ Starts /\ GateInv
  <2> SUFFICES ASSUME Init PROVE FeedInv /\ Starts /\ GateInv
    OBVIOUS
  <2>1. \A t \in Transports : Blank(tr[t]) /\ ~tr[t].closed
    BY DEF Init, Unused, Blank
  <2>2. \A t \in Transports : Fed(tr[t])
    BY <2>1, EmptySeq DEF Blank, Fed
  <2>3. Starts
    BY <2>1 DEF Blank, Feed!Init
  <2>4. GateInv
    BY <2>1 DEF Init, GateInv, Blank, Busy
  <2> QED BY <2>1, <2>2, <2>3, <2>4 DEF FeedInv
<1>2. TypeInv /\ FeedInv /\ [Next]_vars => Steps
  <2> SUFFICES ASSUME TypeInv, FeedInv, [Next]_vars, NEW t \in Transports
               PROVE  [Feed(t)!Next]_(Feed(t)!vars)
    OBVIOUS
  <2>1. FeedStep(tr[t], tr'[t])
    BY StepMoves, MoveFed DEF TypeInv
  <2>2. CASE SameFeed(tr[t], tr'[t])
    BY <2>2 DEF SameFeed, Feed!vars
  <2>3. CASE Accepts(tr[t], tr'[t])
    BY <2>3 DEF Accepts, Feed!Accept, Feed!Next
  <2>4. CASE Delivers(tr[t], tr'[t])
    BY <2>4 DEF Delivers, Feed!Deliver, Feed!Next
  <2>5. CASE Answers(tr[t], tr'[t])
    BY <2>5 DEF Answers, Feed!Answer, Feed!Next
  <2> QED BY <2>1, <2>2, <2>3, <2>4, <2>5 DEF FeedStep
<1>3. /\ TypeInv /\ GateInv /\ FeedInv /\ [Next]_vars
            => (TypeInv /\ GateInv /\ FeedInv)'
  BY NextTyped, NextGateInv, NextFeed
<1>4. Spec => Starts /\ [][Steps]_vars
  <2> HIDE DEF Starts, Steps
  <2> QED BY <1>1, <1>2, <1>3, InitTyped, PTL DEF Spec
<1>5. QED
  BY <1>4 DEF ImplementsFeeds

-----------------------------------------------------------------------------
(* What is marked as flushed.                                              *)

\* While nothing of it was dropped or cut off, the history of a flush is with
\* the server of its session, was refused or is in the queue, and in the end one
\* of the first two.
Held(r, log) ==
    ~r.lossy /\ ~r.closed =>
        /\ r.flush = "running" => r.pieces \subseteq log \cup r.refused \cup Range(r.queue)
        /\ r.flush \in {"resolved", "done"} => r.pieces \subseteq log \cup r.refused

HeldInv == \A t \in Transports : Held(tr[t], Range(received[tr[t].sess]))

LEMMA HeldGrows ==
    ASSUME NEW r, NEW a, Held(r, a), NEW b, a \subseteq b
    PROVE  Held(r, b)
BY DEF Held

\* What Held looks at.
LEMMA HeldSame ==
    ASSUME NEW r, NEW log, Held(r, log), NEW e,
           e.pieces = r.pieces, e.flush = r.flush, e.refused = r.refused,
           Range(r.queue) \subseteq Range(e.queue), r.lossy => e.lossy, r.closed => e.closed
    PROVE  Held(e, log)
BY DEF Held

\* A batch that is settled without loss has arrived or was refused.
Goes(r, e, q, log) ==
    /\ e.pieces = r.pieces /\ e.queue = q /\ e.closed = r.closed
    /\ r.refused \subseteq e.refused
    /\ r.lossy => e.lossy
    /\ e.flush = IF r.flush = "running" /\ q = <<>> THEN "resolved" ELSE r.flush
    /\ \A h \in Range(r.queue) : h \in log \cup e.refused \cup Range(q)

LEMMA HeldAdvances ==
    ASSUME NEW r, NEW log, Held(r, log), NEW e, NEW q, Goes(r, e, q, log)
    PROVE  Held(e, log)
<1> SUFFICES ASSUME ~e.lossy, ~e.closed
             PROVE  /\ e.flush = "running" =>
                            e.pieces \subseteq log \cup e.refused \cup Range(e.queue)
                    /\ e.flush \in {"resolved", "done"} => e.pieces \subseteq log \cup e.refused
  BY DEF Held
<1>1. Goes(r, e, q, log)
  OBVIOUS
<1>2. r.flush = "running" => r.pieces \subseteq log \cup e.refused \cup Range(q)
  BY <1>1 DEF Held, Goes
<1>3. r.flush \in {"resolved", "done"} => r.pieces \subseteq log \cup e.refused
  BY <1>1 DEF Held, Goes
<1>4. q = <<>> => Range(q) = {}
  BY DEF Range
<1> QED BY <1>1, <1>2, <1>3, <1>4 DEF Goes

\* A queue is its batch and what stands behind it.
LEMMA BatchAndRest ==
    ASSUME NEW q \in Seq(Msgs), NEW n \in Nat, n <= Len(q), NEW h \in Range(q)
    PROVE  \/ \E i \in 1..n : q[i] = h /\ h \in Range(SubSeq(q, 1, n))
           \/ h \in Range(SubSeq(q, n + 1, Len(q)))
<1> DEFINE a == SubSeq(q, 1, n)
           b == SubSeq(q, n + 1, Len(q))
           o == Len(q)
<1>1. /\ a \in Seq(Msgs) /\ Len(a) = n /\ \A i \in 1..n : a[i] = q[i]
      /\ b \in Seq(Msgs) /\ Len(b) = o - n /\ \A i \in 1..(o - n) : b[i] = q[n + i]
  BY Cut
<1>2. o \in Nat /\ DOMAIN q = 1..o /\ Range(q) = {q[i] : i \in 1..o} /\ n <= o
  BY SeqFacts
<1> HIDE DEF a, b, o
<1>3. /\ Range(a) = {a[i] : i \in 1..n}
      /\ Range(b) = {b[i] : i \in 1..(o - n)}
  BY <1>1, SeqFacts
<1>4. PICK k \in 1..o : q[k] = h
  BY <1>2
<1>5. CASE k \in 1..n
  BY <1>1, <1>3, <1>4, <1>5 DEF a
<1>6. CASE k \notin 1..n
  <2>1. k - n \in 1..(o - n) /\ n + (k - n) = k
    BY <1>2, <1>6
  <2>2. b[k - n] = h
    BY <1>1, <1>4, <2>1
  <2>3. h \in Range(b)
    BY <1>3, <2>1, <2>2
  <2> QED BY <2>3 DEF b, o
<1> QED BY <1>5, <1>6

LEMMA EnqueueHolds ==
    ASSUME NEW r, Sound(r), NEW m \in Seq(Msgs), NEW e, e = Enqueue(r, m)
    PROVE  /\ e.sess = r.sess /\ e.pieces = r.pieces /\ e.flush = r.flush
           /\ e.lossy = r.lossy /\ e.closed = r.closed /\ e.refused = r.refused
           /\ Range(r.queue) \subseteq Range(e.queue)
           /\ ~r.closed => Range(m) \subseteq Range(e.queue)
<1>1. r \in TransportRecord /\ r.queue \in Seq(Msgs)
  BY DEF Sound, TransportRecord
<1>2. CASE r.closed \/ m = <<>>
  <2>1. e = r /\ (m = <<>> => Range(m) = {})
    BY <1>2 DEF Enqueue, Range
  <2> QED BY <1>2, <2>1
<1>3. CASE ~(r.closed \/ m = <<>>)
  <2>1. /\ e.queue = r.queue \o m
        /\ e.sess = r.sess /\ e.pieces = r.pieces /\ e.flush = r.flush
        /\ e.lossy = r.lossy /\ e.closed = r.closed /\ e.refused = r.refused
    BY <1>1, <1>3 DEF Enqueue, TransportRecord
  <2>2. Range(r.queue \o m) = Range(r.queue) \cup Range(m)
    BY <1>1, RangeConcatenation
  <2> QED BY <2>1, <2>2
<1> QED BY <1>2, <1>3

LEMMA UploaderHolds ==
    ASSUME TypeInv, FlushInv, HeldInv, NEW t \in Transports, Uploader(t), [Next]_vars
    PROVE  Held(tr'[t], Range(received'[tr[t].sess]))
<1> DEFINE r == tr[t]
           e == tr'[t]
           log == Range(received[r.sess])
           log2 == Range(received'[r.sess])
<1>1. /\ Sound(r) /\ r \in TransportRecord /\ tr \in [Transports -> TransportRecord]
      /\ r.queue \in Seq(Msgs) /\ r.sent \in Nat /\ r.sent <= Len(r.queue)
      /\ r.answered \in Nat /\ r.sess \in Sessions
  BY DEF TypeInv, TypeOK, Sound, TransportRecord
<1>2. Held(r, log2) /\ log \subseteq log2
  <2>1. Held(r, log)
    BY DEF HeldInv
  <2>2. log \subseteq log2
    BY <1>1, ServerGrows
  <2> QED BY <2>1, <2>2, HeldGrows
<1>3. CASE PostArrives(t) \/ PostFails(t)
  <2>1. \/ \E g : e = [r EXCEPT !.arrived = TRUE, !.got = g]
        \/ e = [r EXCEPT !.drain = "sleeping", !.sent = 0, !.arrived = FALSE]
    BY <1>1, <1>3 DEF PostArrives, PostFails, TransportRecord
  <2>2. /\ e.pieces = r.pieces /\ e.flush = r.flush /\ e.queue = r.queue
        /\ e.lossy = r.lossy /\ e.closed = r.closed /\ e.refused = r.refused
    BY <1>1, <2>1 DEF TransportRecord
  <2> QED BY <1>2, <2>2, HeldSame
<1>4. CASE BatchDropped(t)
  <2>1. e = Lossy(Settled(r))
    BY <1>1, <1>4 DEF BatchDropped, Lossy
  <2>2. e.lossy
    <3>1. "lossy" \in DOMAIN Settled(r)
      BY <1>1 DEF Settled, Advance, TransportRecord
    <3> QED BY <2>1, <3>1 DEF Lossy
  <2> QED BY <2>2 DEF Held
<1>5. CASE UploaderCloses(t)
  <2>1. e.closed
    BY <1>1, <1>5 DEF UploaderCloses, TransportRecord
  <2> QED BY <2>1 DEF Held
<1>6. CASE Retry(t)
  <2>1. r = With(r, r.queue, r.answered) /\ e = Advance(r)
    BY <1>1, <1>6 DEF Retry, With, TransportRecord
  <2> HIDE DEF r, e
  <2>2. /\ e.pieces = r.pieces /\ e.queue = r.queue /\ e.closed = r.closed
        /\ r.refused \subseteq e.refused
        /\ r.lossy => e.lossy
        /\ e.flush = IF r.flush = "running" /\ r.queue = <<>> THEN "resolved" ELSE r.flush
    BY <1>1, <2>1, AdvanceFields DEF Ends
  <2> DEFINE q == r.queue
  <2>3. Goes(r, e, q, log2)
    BY <2>2 DEF Goes
  <2> HIDE DEF log2, q
  <2>4. Held(e, log2)
    BY <1>2, <2>3, HeldAdvances
  <2> QED BY <2>4 DEF r, e, log2
<1>7. CASE PostReturns(t) \/ PostRefused(t)
  <2> DEFINE q == SubSeq(r.queue, r.sent + 1, Len(r.queue))
             n == r.answered + r.sent
  <2>1. q \in Seq(Msgs) /\ n \in Nat /\ Ends(e, With(r, q, n))
    BY <1>7, SettledForms
  <2>2. /\ e.pieces = r.pieces /\ e.queue = q /\ e.closed = r.closed
        /\ r.refused \subseteq e.refused
        /\ r.lossy => e.lossy
        /\ e.flush = IF r.flush = "running" /\ q = <<>> THEN "resolved" ELSE r.flush
    <3> HIDE DEF q, n, r, e
    <3> QED BY <1>1, <2>1, AdvanceFields
  <2>3. PostRefused(t) => Range(SubSeq(r.queue, 1, r.sent)) \subseteq e.refused
    <3>1. "refused" \in DOMAIN Settled(r)
      BY <1>1 DEF Settled, Advance, TransportRecord
    <3> QED BY <1>1, <3>1 DEF PostRefused
  <2>4. PostReturns(t) => \A i \in 1..r.sent : r.queue[i] \in log
    <3>1. PostReturns(t) => r.arrived
      BY DEF PostReturns
    <3> QED BY <1>1, <3>1 DEF FlushInv, Good
  <2>5. \A h \in Range(r.queue) : h \in log2 \cup e.refused \cup Range(q)
    <3> SUFFICES ASSUME NEW h \in Range(r.queue), h \notin Range(q)
                 PROVE  h \in log2 \cup e.refused
      OBVIOUS
    <3>1. PICK i \in 1..r.sent : r.queue[i] = h /\ h \in Range(SubSeq(r.queue, 1, r.sent))
      BY <1>1, BatchAndRest
    <3> HIDE DEF r, e, q, log, log2
    <3> QED BY <1>2, <1>7, <2>3, <2>4, <3>1
  <2> HIDE DEF q, n, r, e, log2
  <2>6. Goes(r, e, q, log2)
    BY <2>2, <2>5 DEF Goes
  <2>7. Held(e, log2)
    BY <1>2, <2>6, HeldAdvances
  <2> QED BY <2>7 DEF r, e, log2
<1> QED BY <1>3, <1>4, <1>5, <1>6, <1>7 DEF Uploader

LEMMA MoveHolds ==
    ASSUME TypeInv, FlushInv, HeldInv, NEW t \in Transports, [Next]_vars
    PROVE  Held(tr'[t], Range(received'[tr'[t].sess]))
<1> DEFINE r == tr[t]
           e == tr'[t]
           log2 == Range(received'[r.sess])
<1>1. /\ Sound(r) /\ r \in TransportRecord /\ tr \in [Transports -> TransportRecord]
      /\ Moves(t) /\ r.sess \in Sessions
  BY StepMoves DEF TypeInv, TypeOK, Sound, TransportRecord
<1>2. Held(r, log2)
  <2>1. Held(r, Range(received[r.sess]))
    BY DEF HeldInv
  <2>2. Range(received[r.sess]) \subseteq log2
    BY <1>1, ServerGrows
  <2> QED BY <2>1, <2>2, HeldGrows
<1>3. CASE Brought(t)
  <2>1. e.flush = "waiting"
    BY <1>3 DEF Brought, Fresh, Unused
  <2> QED BY <2>1 DEF Held
<1>4. SUFFICES ASSUME ~Brought(t) PROVE Held(e, log2)
  <2>1. CASE ~Brought(t)
    <3>1. e.sess = r.sess
      BY <1>1, <2>1, MoveKeeps
    <3> QED BY <1>4, <2>1, <3>1
  <2> QED BY <1>3, <2>1
<1>5. CASE Uploader(t)
  BY <1>5, UploaderHolds
<1>6. CASE Kept(t) \/ Dropped(t)
  <2>1. /\ e.pieces = r.pieces /\ e.flush = r.flush /\ e.queue = r.queue
        /\ e.lossy = r.lossy /\ e.closed = r.closed /\ e.refused = r.refused
    BY <1>1, <1>6 DEF Kept, Dropped, Closing, TransportRecord
  <2> QED BY <1>2, <2>1, HeldSame
<1>7. CASE Sent(t)
  <2>1. <<History + live + 1>> \in Seq(Msgs)
    <3>1. WriteMessage
      BY <1>7 DEF Sent
    <3> QED BY <3>1, NextMessage
  <2>2. /\ e.pieces = r.pieces /\ e.flush = r.flush
        /\ Range(r.queue) \subseteq Range(e.queue)
        /\ e.lossy = r.lossy /\ e.closed = r.closed /\ e.refused = r.refused
    <3>1. PICK m \in Seq(Msgs) : e = Enqueue(r, m)
      BY <1>7, <2>1 DEF Sent
    <3> HIDE DEF e, r
    <3> QED BY <1>1, <3>1, EnqueueHolds
  <2> QED BY <1>2, <2>2, HeldSame
<1>8. CASE Connected(t) /\ Recent(Initial \ flushed) # {}
  <2> DEFINE p == Recent(Initial \ flushed)
             l == (Initial \ flushed) \ p
             o == InOrder(p)
             b == [r EXCEPT !.ws = "up", !.flush = "running", !.pieces = p,
                            !.lossy = FALSE, !.left = l]
  <2>1. e = Enqueue(b, o) /\ r.ws = "connecting"
    BY <1>1, <1>8 DEF Connected, TransportRecord
  <2>2. p \in SUBSET Initial /\ l \in SUBSET Initial
    BY DEF Recent
  <2>3. o \in Seq(Msgs) /\ Range(o) = p
    BY <2>2, HistoryInOrder, Kinds
  <2> HIDE DEF p, l, o
  <2>4. Sound(b) /\ ~b.closed /\ b.flush = "running" /\ b.pieces = p
    BY <1>1, <2>1, <2>2 DEF Sound, TransportRecord
  <2> HIDE DEF b, e
  <2>5. e.flush = "running" /\ e.pieces = p /\ p \subseteq Range(e.queue)
    BY <2>1, <2>3, <2>4, EnqueueHolds
  <2> QED BY <2>5 DEF Held
<1>9. CASE Connected(t) /\ Recent(Initial \ flushed) = {}
  <2> DEFINE b == [r EXCEPT !.ws = "up", !.flush = "done"]
  <2>1. e = Enqueue(b, gate.queue) /\ r.ws = "connecting"
    BY <1>1, <1>9 DEF Connected, DrainInto, TransportRecord
  <2>2. Sound(b) /\ b.flush = "done" /\ b.pieces = {}
    BY <1>1, <2>1 DEF Sound, TransportRecord
  <2>3. gate.queue \in Seq(Msgs)
    BY Kinds DEF TypeInv, TypeOK
  <2> HIDE DEF b, e
  <2>4. e.flush = "done" /\ e.pieces = {}
    BY <2>1, <2>2, <2>3, EnqueueHolds
  <2> QED BY <2>4 DEF Held
<1>10. CASE HistoryFlushed(t)
  <2> DEFINE b == [r EXCEPT !.flush = "done"]
  <2>1. r.flush = "resolved" /\ (e = b \/ e = Enqueue(b, gate.queue))
    BY <1>1, <1>10 DEF HistoryFlushed, DrainInto
  <2>2. /\ Sound(b) /\ b.pieces = r.pieces /\ b.flush = "done"
        /\ b.lossy = r.lossy /\ b.closed = r.closed /\ b.refused = r.refused
    <3>1. r.ws \notin {"unused", "connecting"}
      BY <1>1, <2>1 DEF Sound
    <3> QED BY <1>1, <3>1 DEF Sound, TransportRecord
  <2>3. gate.queue \in Seq(Msgs)
    BY Kinds DEF TypeInv, TypeOK
  <2> HIDE DEF b, e, r
  <2>4. /\ e.pieces = r.pieces /\ e.flush = "done"
        /\ e.lossy = r.lossy /\ e.closed = r.closed /\ e.refused = r.refused
    BY <2>1, <2>2, <2>3, EnqueueHolds
  <2> QED BY <1>2, <2>1, <2>4 DEF Held
<1> QED BY <1>1, <1>4, <1>5, <1>6, <1>7, <1>8, <1>9, <1>10 DEF Moves

\* What a transport of the past says about its history, it goes on saying.
LEMMA PastStays ==
    ASSUME TypeInv, FlushInv, [Next]_vars, NEW t \in Transports, NEW h \in tr[t].pieces
    PROVE  /\ h \in tr'[t].pieces /\ tr'[t].sess = tr[t].sess
           /\ tr[t].closed => tr'[t].closed
           /\ tr[t].refused \subseteq tr'[t].refused
<1>1. Moves(t) /\ tr[t].pieces # {}
  BY StepMoves DEF TypeInv
<1>2. ~Brought(t)
  <2> SUFFICES ASSUME Brought(t) PROVE FALSE
    OBVIOUS
  <2>1. t > used
    BY Bounds DEF Brought, TypeInv, TypeOK
  <2> QED BY <1>1, <2>1 DEF FlushInv
<1> QED BY <1>1, <1>2, MoveKeeps

LEMMA NextCutOff ==
    TypeInv /\ FlushInv /\ HeldInv /\ FlushedUnlessCutOff /\ [Next]_vars => FlushedUnlessCutOff'
<1> SUFFICES ASSUME TypeInv, FlushInv, HeldInv, FlushedUnlessCutOff, [Next]_vars,
                    NEW h \in flushed' \ FlushedBefore
             PROVE  \E t \in Transports :
                        /\ h \in tr'[t].pieces
                        /\ \/ h \in Range(received'[tr'[t].sess])
                           \/ tr'[t].closed \/ h \in tr'[t].refused
  BY DEF FlushedUnlessCutOff
<1>1. \E t \in Transports :
            /\ h \in tr[t].pieces
            /\ h \in Range(received[tr[t].sess]) \/ tr[t].closed \/ h \in tr[t].refused
  <2>1. CASE h \in flushed
    BY <2>1 DEF FlushedUnlessCutOff
  <2>2. CASE h \notin flushed
    <3>1. PICK t \in Transports : HistoryFlushed(t)
      BY <2>2 DEF Next, Uploader, PostArrives, PostReturns, PostRefused, PostFails,
                  BatchDropped, Retry, UploaderCloses, Connected, WriteMessage, PollReturns,
                  WorkReceived,
                  HeartbeatFatal, PermanentClose, EnvironmentLost, Reconnecting, WorkStopped,
                  Registered, ReconnectedInPlace, SessionArchived, SessionCreated,
                  PointerWritten, Teardown, TeardownCloses, rest, vars
    <3>2. h \in tr[t].pieces /\ ~tr[t].lossy /\ tr[t].flush = "resolved"
      BY <2>2, <3>1 DEF HistoryFlushed
    <3> QED BY <3>2, SMTT(30) DEF HeldInv, Held
  <2> QED BY <2>1, <2>2
<1>2. PICK t \in Transports :
            /\ h \in tr[t].pieces
            /\ h \in Range(received[tr[t].sess]) \/ tr[t].closed \/ h \in tr[t].refused
  BY <1>1
<1>3. /\ h \in tr'[t].pieces /\ tr'[t].sess = tr[t].sess
      /\ tr[t].closed => tr'[t].closed
      /\ tr[t].refused \subseteq tr'[t].refused
  BY <1>2, PastStays
<1>4. Range(received[tr[t].sess]) \subseteq Range(received'[tr[t].sess])
  <2>1. tr[t].sess \in Sessions
    BY DEF TypeInv, Sound, TransportRecord
  <2> QED BY <2>1, ServerGrows
<1> QED BY <1>2, <1>3, <1>4

\* What the bridge marks as flushed was delivered to the session it was sent to,
\* unless the grace period ended on it or its POST was refused for good: a batch
\* dropped after failed POSTs never goes unnoticed, whichever of the retries,
\* reconnects and new work items came in between.
THEOREM OnlyCutOffsGoUnnoticed == Spec => []FlushedUnlessCutOff
<1>1. Init => HeldInv /\ FlushedUnlessCutOff
  <2> SUFFICES ASSUME Init PROVE HeldInv /\ FlushedUnlessCutOff
    OBVIOUS
  <2>1. flushed = FlushedBefore /\ \A t \in Transports : tr[t].flush = "waiting"
    BY DEF Init, Unused
  <2> QED BY <2>1 DEF HeldInv, Held, FlushedUnlessCutOff
<1>2. TypeInv /\ FlushInv /\ HeldInv /\ [Next]_vars => HeldInv'
  BY MoveHolds DEF HeldInv
<1>3. /\ TypeInv /\ FlushInv /\ GateFlag /\ HeldInv /\ FlushedUnlessCutOff /\ [Next]_vars
            => (TypeInv /\ FlushInv /\ GateFlag /\ HeldInv /\ FlushedUnlessCutOff)'
  BY <1>2, NextTyped, NextFlush, NextGate, NextCutOff
<1> QED BY <1>1, <1>3, InitTyped, InitFlush, PTL DEF Spec
=============================================================================
