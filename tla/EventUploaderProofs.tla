------------------------ MODULE EventUploaderProofs ------------------------
(***************************************************************************)
(* Theorems about EventUploader, for every value of its constants.         *)
(***************************************************************************)
EXTENDS EventUploader, SequenceTheorems, TLAPS

-----------------------------------------------------------------------------
(* What the helpers do to sequences.                                       *)

LEMMA Ranges ==
    /\ \A q \in Seq(Messages) : Range(q) = {q[i] : i \in 1..Len(q)}
    /\ \A q, r \in Seq(Messages) : Range(q \o r) = Range(q) \cup Range(r)
    /\ Range(<<>>) = {}
<1>1. \A q \in Seq(Messages) : Range(q) = {q[i] : i \in 1..Len(q)}
  BY RangeEquality
<1>2. \A q, r \in Seq(Messages) : Range(q \o r) = Range(q) \cup Range(r)
  BY RangeConcatenation
<1>3. Range(<<>>) = {}
  <2>1. <<>> \in Seq(Messages) /\ Len(<<>>) = 0
    BY EmptySeq
  <2>2. Range(<<>>) = {<<>>[i] : i \in 1..Len(<<>>)}
    BY <1>1, <2>1
  <2>3. 1..Len(<<>>) = {}
    BY <2>1
  <2> QED BY <2>2, <2>3, Zenon
<1> QED BY <1>1, <1>2, <1>3

\* A sequence cut in two.
LEMMA Cut ==
    ASSUME NEW q \in Seq(Messages), NEW n \in 0..Len(q)
    PROVE  /\ SubSeq(q, 1, n) \in Seq(Messages)
           /\ SubSeq(q, n + 1, Len(q)) \in Seq(Messages)
           /\ Len(SubSeq(q, 1, n)) = n
           /\ Len(SubSeq(q, n + 1, Len(q))) = Len(q) - n
           /\ SubSeq(q, 1, n) \o SubSeq(q, n + 1, Len(q)) = q
<1>1. Len(q) \in Nat /\ \A i \in 1..Len(q) : q[i] \in Messages
  BY LenProperties, ElementOfSeq
<1>2. /\ SubSeq(q, 1, n) \in Seq(Messages)
      /\ Len(SubSeq(q, 1, n)) = n
  BY <1>1, SubSeqProperties
<1>3. /\ SubSeq(q, n + 1, Len(q)) \in Seq(Messages)
      /\ Len(SubSeq(q, n + 1, Len(q))) = Len(q) - n
  BY <1>1, SubSeqProperties
<1>4. SubSeq(q, 1, n) \o SubSeq(q, n + 1, Len(q)) = SubSeq(q, 1, Len(q))
  <2>1. 1 \in 1..Len(q)+1 /\ n \in 1-1..Len(q) /\ Len(q) \in n..Len(q)
    BY <1>1
  <2> QED BY <2>1, ConcatAdjacentSubSeq, Zenon
<1> QED BY <1>2, <1>3, <1>4, SubSeqFull

\* takeBatch splits the queue: nothing is lost or reordered.
LEMMA TakeBatch ==
    ASSUME NEW q \in Seq(Messages), NEW taken, NEW left,
           taken = SubSeq(q, 1, First(q)), left = SubSeq(q, First(q) + 1, Len(q))
    PROVE  /\ taken \in Seq(Messages) /\ left \in Seq(Messages)
           /\ Len(taken) <= MaxBatchSize /\ Len(left) <= Len(q)
           /\ taken \o left = q
<1>1. First(q) \in 0..Len(q) /\ First(q) <= MaxBatchSize
  BY SizesAssumption DEF First
<1>2. /\ taken \in Seq(Messages) /\ left \in Seq(Messages)
      /\ Len(taken) = First(q) /\ Len(left) = Len(q) - First(q)
      /\ taken \o left = q
  BY <1>1, Cut, Zenon
<1>3. Len(taken) <= MaxBatchSize
  BY <1>1, <1>2
<1>4. Len(left) <= Len(q)
  BY <1>1, <1>2
<1> QED BY <1>2, <1>3, <1>4

-----------------------------------------------------------------------------
(* What a step of the uploader does, in terms of what is still owed.       *)

Owed == batch \o pending

LEMMA ResolvedCalls ==
    ASSUME TypeOK, NEW release \in BOOLEAN, NEW drained \in BOOLEAN,
           calls' = Resolved(release, drained)
    PROVE  /\ calls' \in [Calls -> CallRecord]
           /\ \A c \in Calls :
                /\ calls'[c].items = calls[c].items /\ calls'[c].flush = calls[c].flush
                /\ calls'[c].after = calls[c].after
                /\ \/ calls'[c].st = calls[c].st
                   \/ calls[c].st = "blocked" /\ calls'[c].st = "woken"
                   \/ drained /\ calls[c].st = "flushing" /\ calls'[c].st = "done"
<1> SUFFICES ASSUME NEW c \in Calls
             PROVE  /\ calls'[c] \in CallRecord
                    /\ calls'[c].items = calls[c].items /\ calls'[c].flush = calls[c].flush
                    /\ calls'[c].after = calls[c].after
                    /\ \/ calls'[c].st = calls[c].st
                       \/ calls[c].st = "blocked" /\ calls'[c].st = "woken"
                       \/ drained /\ calls[c].st = "flushing" /\ calls'[c].st = "done"
  BY DEF Resolved
<1>1. calls[c] \in CallRecord
  BY DEF TypeOK
<1> QED BY <1>1 DEF Resolved, CallRecord

LEMMA GoOnSteps ==
    ASSUME TypeOK, NEW release \in BOOLEAN, GoOn(release)
    PROVE  /\ batch' \in Seq(Messages) /\ pending' \in Seq(Messages)
           /\ Len(batch') <= MaxBatchSize /\ Len(pending') <= Len(pending)
           /\ batch' \o pending' = pending
           /\ drain' \in {"posting", "idle"}
           /\ drain' = "idle" => batch' = <<>>
           /\ Closed => drain' = "idle"
           /\ \E drained \in BOOLEAN :
                /\ calls' = Resolved(release, drained)
                /\ drained => pending = <<>>
<1>1. pending \in Seq(Messages) /\ Len(pending) \in Nat
  BY DEF TypeOK
<1>2. CASE pending # <<>> /\ ~Closed
  <2>1. /\ batch' = SubSeq(pending, 1, First(pending))
        /\ pending' = SubSeq(pending, First(pending) + 1, Len(pending))
        /\ drain' = "posting" /\ calls' = Resolved(release, FALSE)
    BY <1>2 DEF GoOn
  <2>2. /\ batch' \in Seq(Messages) /\ pending' \in Seq(Messages)
        /\ Len(batch') <= MaxBatchSize /\ Len(pending') <= Len(pending)
        /\ batch' \o pending' = pending
    BY <1>1, <2>1, TakeBatch, Zenon
  <2> QED BY <1>2, <2>1, <2>2
<1>3. CASE ~(pending # <<>> /\ ~Closed)
  <2>1. batch' = <<>> /\ drain' = "idle" /\ pending' = pending
    BY <1>3 DEF GoOn
  <2>2. calls' = Resolved(release, pending = <<>>) /\ (pending = <<>>) \in BOOLEAN
    BY <1>3 DEF GoOn
  <2>3. <<>> \in Seq(Messages) /\ Len(<<>>) = 0 /\ <<>> \o pending = pending
    BY <1>1, EmptySeq, ConcatEmptySeq
  <2>4. \E drained \in BOOLEAN :
            calls' = Resolved(release, drained) /\ (drained => pending = <<>>)
    BY <2>2
  <2>5. Len(batch') <= MaxBatchSize
    BY <2>1, <2>3, SizesAssumption
  <2> QED BY <1>1, <2>1, <2>3, <2>4, <2>5
<1> QED BY <1>2, <1>3

LEMMA PushSteps ==
    ASSUME TypeOK, drain # "posting" => batch = <<>>,
           NEW items \in Seq(Messages), Push(items)
    PROVE  /\ batch' \in Seq(Messages) /\ pending' \in Seq(Messages)
           /\ Owed' = Owed \o items
           /\ Len(pending') <= Len(pending) + Len(items)
           /\ \/ batch' = batch /\ drain' = drain
              \/ /\ Len(batch') <= MaxBatchSize
                 /\ drain = "idle" /\ drain' = "posting"
           /\ failures' \in {0, failures}
           /\ pushed' = pushed \o items
           /\ dropped' = dropped /\ answered' = answered
           /\ refused' = refused /\ log' = log
<1> DEFINE q == pending \o items
<1>1. /\ q \in Seq(Messages) /\ Len(q) = Len(pending) + Len(items)
      /\ pending \in Seq(Messages) /\ batch \in Seq(Messages)
      /\ Len(pending) \in Nat /\ Len(items) \in Nat
  BY ConcatProperties DEF TypeOK
<1>2. batch \o q = Owed \o items
  BY <1>1, ConcatAssociative, SMTT(30) DEF Owed
<1>3. CASE drain = "idle"
  <2>1. batch' = SubSeq(q, 1, First(q)) /\ pending' = SubSeq(q, First(q) + 1, Len(q))
    BY <1>3 DEF Push
  <2>2. /\ batch' \o pending' = q /\ batch' \in Seq(Messages) /\ pending' \in Seq(Messages)
        /\ Len(batch') <= MaxBatchSize /\ Len(pending') <= Len(q)
    <3>1. q \in Seq(Messages) /\ Len(q) \in Nat
      BY <1>1
    <3> HIDE DEF q
    <3> QED BY <2>1, <3>1, TakeBatch, Zenon
  <2>3. batch = <<>> /\ batch \o q = q
    <3> HIDE DEF q
    <3> QED BY <1>1, <1>3, ConcatEmptySeq
  <2>4. Owed' = Owed \o items
    BY <1>2, <2>2, <2>3 DEF Owed
  <2> QED BY <1>1, <1>3, <2>2, <2>4 DEF Push
<1>4. CASE drain # "idle"
  <2>1. pending' = q /\ batch' = batch /\ drain' = drain /\ failures' = failures
    BY <1>4 DEF Push
  <2>2. Owed' = Owed \o items
    BY <1>2, <2>1 DEF Owed
  <2> QED BY <1>1, <2>1, <2>2 DEF Push
<1> QED BY <1>3, <1>4

-----------------------------------------------------------------------------
(* Type correctness, with the two facts about the drain loop it needs.     *)

\* Only a POST under way has a batch, and no batch is longer than allowed.
DrainOK ==
    /\ Len(batch) <= MaxBatchSize
    /\ drain # "posting" => batch = <<>>

LEMMA InitTyped == Init => TypeOK /\ DrainOK
<1>1. /\ <<>> \in Seq(Messages) /\ Len(<<>>) = 0
      /\ Unused \in CallRecord
  BY EmptySeq DEF Unused, CallRecord
<1> QED BY <1>1, SizesAssumption DEF Init, TypeOK, DrainOK

\* What enqueue leaves of a call.
LEMMA EnqueuedCall ==
    ASSUME TypeOK, NEW c \in Calls, NEW call \in CallRecord, Enqueue(c, call)
    PROVE  \E st \in {"blocked", "flushing", "done"} :
                calls' = [calls EXCEPT ![c] = [call EXCEPT !.st = st]]
<1>1. \A drained \in BOOLEAN :
         \E st \in {"flushing", "done"} : Returned(call, drained) = [call EXCEPT !.st = st]
  BY DEF Returned, CallRecord
<1>2. (pending = <<>> /\ drain = "idle") \in BOOLEAN
  OBVIOUS
<1> QED BY <1>1, <1>2 DEF Enqueue

LEMMA EnqueueTyped ==
    ASSUME TypeOK, DrainOK, NEW c \in Calls, NEW call \in CallRecord, Enqueue(c, call)
    PROVE  /\ calls' \in [Calls -> CallRecord] /\ pending' \in Seq(Messages)
           /\ batch' \in Seq(Messages) /\ drain' \in {"idle", "posting", "sleeping"}
           /\ failures' \in 0..(MaxConsecutiveFailures - 1) /\ dropped' \in Nat
           /\ pushed' \in Seq(Messages) /\ answered' \in Nat
           /\ refused' \subseteq Messages /\ log' \in Seq(Messages)
           /\ DrainOK'
<1>1. calls' \in [Calls -> CallRecord]
  <2>1. PICK st \in {"blocked", "flushing", "done"} :
                calls' = [calls EXCEPT ![c] = [call EXCEPT !.st = st]]
    BY EnqueuedCall
  <2>2. [call EXCEPT !.st = st] \in CallRecord
    BY DEF CallRecord
  <2> QED BY <2>1, <2>2 DEF TypeOK
<1>2. CASE UNCHANGED <<uploader, history>>
  BY <1>1, <1>2 DEF TypeOK, DrainOK, uploader, history
<1>3. CASE Push(call.items)
  <2>1. call.items \in Seq(Messages)
    BY DEF CallRecord
  <2>2. /\ batch' \in Seq(Messages) /\ pending' \in Seq(Messages)
        /\ \/ batch' = batch /\ drain' = drain
           \/ /\ Len(batch') <= MaxBatchSize
              /\ drain = "idle" /\ drain' = "posting"
        /\ failures' \in {0, failures}
        /\ pushed' = pushed \o call.items
        /\ dropped' = dropped /\ answered' = answered
        /\ refused' = refused /\ log' = log
    BY <1>3, <2>1, PushSteps DEF DrainOK
  <2>3. pushed' \in Seq(Messages)
    BY <2>1, <2>2, ConcatProperties DEF TypeOK
  <2>4. failures' \in 0..(MaxConsecutiveFailures - 1)
    BY <2>2, SizesAssumption DEF TypeOK
  <2> QED BY <1>1, <2>2, <2>3, <2>4 DEF TypeOK, DrainOK
<1> QED BY <1>2, <1>3 DEF Enqueue

\* A call that begins, as Enqueue sees it.
NewCall(items, flush) == [st |-> "done", items |-> items, flush |-> flush, after |-> dropped]

LEMMA NewCallTyped ==
    ASSUME TypeOK, NEW items \in Seq(Messages), NEW flush \in BOOLEAN
    PROVE  NewCall(items, flush) \in CallRecord
BY DEF TypeOK, NewCall, CallRecord

LEMMA CallTyped ==
    ASSUME TypeOK, DrainOK, NEW c \in Calls, Write(c) \/ TimerFires(c) \/ LookAgain(c)
    PROVE  TypeOK' /\ DrainOK'
<1>1. \E call \in CallRecord :
         /\ Enqueue(c, call) /\ made' \in 0..MaxMessages /\ buffer' \in Seq(Messages)
         /\ phase' = phase
  <2>1. CASE Write(c)
    <3>1. made + 1 \in Messages
      BY <2>1, SizesAssumption DEF Write, TypeOK, Messages
    <3>2. Append(buffer, made + 1) \in Seq(Messages)
      BY <3>1, AppendProperties DEF TypeOK
    <3>3. NewCall(Append(buffer, made + 1), TRUE) \in CallRecord
      BY <3>2, NewCallTyped
    <3>4. made' \in 0..MaxMessages /\ buffer' \in Seq(Messages) /\ phase' = phase
      BY <2>1, <3>1, EmptySeq DEF Write, Messages
    <3> QED BY <2>1, <3>3, <3>4 DEF Write, Call, NewCall
  <2>2. CASE TimerFires(c)
    <3>1. NewCall(buffer, FALSE) \in CallRecord
      BY NewCallTyped DEF TypeOK
    <3>2. made' = made /\ buffer' \in Seq(Messages) /\ phase' = phase
      BY <2>2, EmptySeq DEF TimerFires
    <3> QED BY <2>2, <3>1, <3>2 DEF TimerFires, Call, NewCall, TypeOK
  <2>3. CASE LookAgain(c)
    BY <2>3 DEF LookAgain, TypeOK
  <2> QED BY <2>1, <2>2, <2>3
<1>2. PICK call \in CallRecord :
         /\ Enqueue(c, call) /\ made' \in 0..MaxMessages /\ buffer' \in Seq(Messages)
         /\ phase' = phase
  BY <1>1
<1>3. /\ calls' \in [Calls -> CallRecord] /\ pending' \in Seq(Messages)
      /\ batch' \in Seq(Messages) /\ drain' \in {"idle", "posting", "sleeping"}
      /\ failures' \in 0..(MaxConsecutiveFailures - 1) /\ dropped' \in Nat
      /\ pushed' \in Seq(Messages) /\ answered' \in Nat
      /\ refused' \subseteq Messages /\ log' \in Seq(Messages)
      /\ DrainOK'
  BY <1>2, EnqueueTyped, Zenon
<1> QED BY <1>2, <1>3 DEF TypeOK

\* The loop goes on: its own variables and the calls it resolves.
LEMMA GoOnTyped ==
    ASSUME TypeOK, NEW release \in BOOLEAN, GoOn(release)
    PROVE  /\ pending' \in Seq(Messages) /\ batch' \in Seq(Messages)
           /\ drain' \in {"idle", "posting", "sleeping"}
           /\ calls' \in [Calls -> CallRecord] /\ DrainOK'
<1>1. /\ batch' \in Seq(Messages) /\ pending' \in Seq(Messages)
      /\ Len(batch') <= MaxBatchSize
      /\ drain' \in {"posting", "idle"}
      /\ drain' = "idle" => batch' = <<>>
  BY GoOnSteps
<1>2. calls' \in [Calls -> CallRecord]
  BY GoOnSteps, ResolvedCalls
<1> QED BY <1>1, <1>2 DEF DrainOK

LEMMA LostTyped == ASSUME TypeOK, Lost PROVE log' \in Seq(Messages)
BY ConcatProperties DEF TypeOK, Lost

LEMMA DrainTyped ==
    ASSUME TypeOK, DrainOK, PostReturns \/ PostFails \/ BatchDropped \/ PauseEnds
    PROVE  TypeOK' /\ DrainOK'
<1> USE SizesAssumption
<1>1. CASE PostReturns
  <2>1. GoOn(TRUE)
    BY <1>1 DEF PostReturns
  <2>2. /\ log' \in Seq(Messages) /\ refused' \subseteq Messages
    <3>1. log \o batch \in Seq(Messages) /\ Range(batch) \subseteq Messages
      BY ConcatProperties, RangeOfSeq DEF TypeOK
    <3> QED BY <1>1, <3>1 DEF PostReturns, TypeOK
  <2>3. answered' \in Nat /\ failures' \in 0..(MaxConsecutiveFailures - 1)
    BY <1>1 DEF PostReturns, TypeOK
  <2>4. /\ pending' \in Seq(Messages) /\ batch' \in Seq(Messages)
        /\ drain' \in {"idle", "posting", "sleeping"}
        /\ calls' \in [Calls -> CallRecord] /\ DrainOK'
    BY <2>1, GoOnTyped
  <2> QED BY <1>1, <2>2, <2>3, <2>4 DEF PostReturns, TypeOK
<1>2. CASE PostFails
  <2>1. pending' \in Seq(Messages) /\ batch' = <<>> /\ <<>> \in Seq(Messages) /\ Len(<<>>) = 0
    BY <1>2, ConcatProperties, EmptySeq DEF PostFails, TypeOK
  <2>2. log' \in Seq(Messages)
    BY <1>2, LostTyped DEF PostFails
  <2>3. failures' \in 0..(MaxConsecutiveFailures - 1)
    BY <1>2 DEF PostFails, TypeOK
  <2> QED BY <1>2, <2>1, <2>2, <2>3 DEF PostFails, TypeOK, DrainOK
<1>3. CASE BatchDropped
  <2>1. GoOn(TRUE) /\ log' \in Seq(Messages)
    BY <1>3, LostTyped DEF BatchDropped
  <2>2. /\ answered' \in Nat /\ dropped' \in Nat
        /\ failures' \in 0..(MaxConsecutiveFailures - 1)
    BY <1>3 DEF BatchDropped, TypeOK
  <2>3. /\ pending' \in Seq(Messages) /\ batch' \in Seq(Messages)
        /\ drain' \in {"idle", "posting", "sleeping"}
        /\ calls' \in [Calls -> CallRecord] /\ DrainOK'
    BY <2>1, GoOnTyped
  <2> QED BY <1>3, <2>1, <2>2, <2>3 DEF BatchDropped, TypeOK
<1>4. CASE PauseEnds
  <2>1. GoOn(FALSE)
    BY <1>4 DEF PauseEnds
  <2> QED BY <1>4, <2>1, GoOnTyped DEF PauseEnds, TypeOK, history
<1> QED BY <1>1, <1>2, <1>3, <1>4

LEMMA StepTyped == TypeOK /\ DrainOK /\ [Next]_vars => TypeOK' /\ DrainOK'
<1> SUFFICES ASSUME TypeOK, DrainOK, [Next]_vars PROVE TypeOK' /\ DrainOK'
  OBVIOUS
<1>1. CASE StreamEvent
  <2>1. made + 1 \in Messages
    BY <1>1, SizesAssumption DEF StreamEvent, TypeOK, Messages
  <2>2. buffer' \in Seq(Messages) /\ made' \in 0..MaxMessages
    BY <1>1, <2>1, AppendProperties DEF StreamEvent, TypeOK, Messages
  <2> QED BY <1>1, <2>2 DEF StreamEvent, TypeOK, DrainOK, uploader, history
<1>2. CASE \E c \in Calls : Write(c) \/ TimerFires(c) \/ LookAgain(c)
  BY <1>2, CallTyped
<1>3. CASE PostEnds \/ PauseEnds
  BY <1>3, DrainTyped DEF PostEnds
<1>4. CASE Close
  BY <1>4, EmptySeq DEF Close, TypeOK, DrainOK, uploader, history
<1>5. CASE UploaderCloses
  <2>1. calls' \in [Calls -> CallRecord]
    <3>1. calls' = Resolved(TRUE, TRUE)
      BY <1>5 DEF UploaderCloses
    <3> QED BY <3>1, ResolvedCalls
  <2> QED BY <1>5, <2>1, EmptySeq DEF UploaderCloses, TypeOK, DrainOK, history
<1>6. CASE UNCHANGED vars
  BY <1>6 DEF vars, TypeOK, DrainOK, uploader, history
<1> QED BY <1>1, <1>2, <1>3, <1>4, <1>5, <1>6 DEF Next

\* Every variable keeps its type, whatever the sizes.
THEOREM Typing == Spec => []TypeOK
<1>1. TypeOK /\ DrainOK /\ [Next]_vars => (TypeOK /\ DrainOK)'
  BY StepTyped
<1> QED BY <1>1, InitTyped, PTL DEF Spec

-----------------------------------------------------------------------------
(* The queue keeps its limit.                                              *)

\* Whoever goes on takes a full batch, or all there is.
LEMMA GoOnShortens ==
    ASSUME TypeOK, ~Closed, NEW release \in BOOLEAN, GoOn(release)
    PROVE  Len(pending') = 0 \/ Len(pending') = Len(pending) - MaxBatchSize
<1>1. pending \in Seq(Messages) /\ Len(pending) \in Nat
  BY DEF TypeOK
<1>2. CASE pending = <<>>
  BY <1>2, EmptySeq DEF GoOn
<1>3. CASE pending # <<>>
  <2>1. pending' = SubSeq(pending, First(pending) + 1, Len(pending))
    BY <1>3 DEF GoOn
  <2>2. First(pending) \in 0..Len(pending) /\ First(pending) \in {Len(pending), MaxBatchSize}
    BY <1>1, SizesAssumption DEF First
  <2>3. Len(pending') = Len(pending) - First(pending)
    BY <1>1, <2>1, <2>2, Cut
  <2> QED BY <1>1, <2>2, <2>3
<1> QED BY <1>2, <1>3

BoundInv == TypeOK /\ DrainOK /\ QueueBounded

LEMMA CallBounded ==
    ASSUME BoundInv, NEW c \in Calls, NEW call \in CallRecord, Enqueue(c, call),
           phase' = phase
    PROVE  QueueBounded'
<1> USE SizesAssumption
<1>1. pending \in Seq(Messages) /\ Len(pending) \in Nat
  BY DEF BoundInv, TypeOK
<1>2. CASE UNCHANGED <<uploader, history>>
  BY <1>2 DEF BoundInv, QueueBounded, Closed, uploader
<1>3. CASE ~Closed /\ Fits(call.items) /\ Push(call.items)
  <2>1. call.items \in Seq(Messages) /\ Len(call.items) \in Nat
    BY DEF CallRecord
  <2>2. /\ pending' \in Seq(Messages) /\ Len(pending') <= Len(pending) + Len(call.items)
    BY <1>3, <2>1, PushSteps DEF BoundInv, DrainOK
  <2>3. Len(pending') <= MaxQueueSize
    BY <1>1, <1>3, <2>1, <2>2 DEF Fits
  <2> QED BY <2>2, <2>3 DEF QueueBounded
<1> QED BY <1>2, <1>3 DEF Enqueue

\* The step of each caller is a call of enqueue, a new one or the one it waits in.
MadeBy(c, call) == Enqueue(c, call) /\ (call.after = dropped \/ call = calls[c])

LEMMA CallEnqueues ==
    ASSUME TypeOK, NEW c \in Calls, Write(c) \/ TimerFires(c) \/ LookAgain(c)
    PROVE  \E call \in CallRecord : MadeBy(c, call) /\ phase' = phase
<1> USE DEF MadeBy
<1>1. CASE Write(c)
  <2>1. Append(buffer, made + 1) \in Seq(Messages)
    BY <1>1, AppendProperties, SizesAssumption DEF Write, TypeOK, Messages
  <2>2. /\ NewCall(Append(buffer, made + 1), TRUE) \in CallRecord
        /\ NewCall(Append(buffer, made + 1), TRUE).after = dropped
    BY <2>1, NewCallTyped DEF NewCall
  <2> QED BY <1>1, <2>2 DEF Write, Call, NewCall
<1>2. CASE TimerFires(c)
  <2>1. NewCall(buffer, FALSE) \in CallRecord /\ NewCall(buffer, FALSE).after = dropped
    BY NewCallTyped DEF TypeOK, NewCall
  <2> QED BY <1>2, <2>1 DEF TimerFires, Call, NewCall
<1>3. CASE LookAgain(c)
  BY <1>3 DEF LookAgain, TypeOK
<1> QED BY <1>1, <1>2, <1>3

LEMMA BoundStep == BoundInv /\ [Next]_vars => BoundInv'
<1> SUFFICES ASSUME BoundInv, [Next]_vars PROVE QueueBounded'
  BY StepTyped DEF BoundInv
<1> USE SizesAssumption
<1>1. /\ TypeOK /\ pending \in Seq(Messages) /\ Len(pending) \in Nat
      /\ batch \in Seq(Messages) /\ Len(batch) \in Nat /\ Len(batch) <= MaxBatchSize
      /\ pending' \in Seq(Messages) /\ Len(pending') \in Nat
  <2>1. TypeOK /\ DrainOK
    BY DEF BoundInv
  <2>2. TypeOK'
    BY <2>1, StepTyped
  <2>3. pending \in Seq(Messages) /\ batch \in Seq(Messages) /\ pending' \in Seq(Messages)
    BY <2>1, <2>2 DEF TypeOK
  <2> QED BY <2>1, <2>3, LenProperties DEF DrainOK
<1>2. CASE \E c \in Calls : Write(c) \/ TimerFires(c) \/ LookAgain(c)
  BY <1>1, <1>2, CallEnqueues, CallBounded DEF MadeBy
<1>3. CASE PostReturns \/ BatchDropped
  <2>1. GoOn(TRUE) /\ drain = "posting" /\ phase' = phase
    BY <1>3 DEF PostReturns, BatchDropped
  <2>2. Len(pending') <= Len(pending)
    BY <1>1, <2>1, GoOnSteps
  <2> QED BY <1>1, <2>1, <2>2 DEF BoundInv, QueueBounded, Closed
<1>4. CASE PostFails
  <2>1. Len(pending') = Len(batch) + Len(pending) /\ drain' = "sleeping"
    BY <1>1, <1>4, ConcatProperties DEF PostFails
  <2>2. ~Closed' => Len(pending) <= MaxQueueSize
    BY <1>4 DEF PostFails, BoundInv, QueueBounded, Closed
  <2> QED BY <1>1, <2>1, <2>2 DEF QueueBounded
<1>5. CASE PauseEnds
  <2>1. GoOn(FALSE) /\ drain = "sleeping" /\ phase' = phase
    BY <1>5 DEF PauseEnds
  <2>2. ~Closed => Len(pending') = 0 \/ Len(pending') = Len(pending) - MaxBatchSize
    BY <1>1, <2>1, GoOnShortens
  <2> QED BY <1>1, <2>1, <2>2 DEF BoundInv, QueueBounded, Closed
<1>6. CASE StreamEvent \/ Close \/ UNCHANGED vars
  BY <1>6 DEF StreamEvent, Close, vars, uploader, BoundInv, QueueBounded, Closed
<1>7. CASE UploaderCloses
  BY <1>7 DEF UploaderCloses, QueueBounded, Closed
<1> QED BY <1>2, <1>3, <1>4, <1>5, <1>6, <1>7 DEF Next, PostEnds

\* However many callers write and however often the server fails, the queue of
\* an uploader in use keeps its limit; a batch that came back may stand on top.
THEOREM QueueKeepsItsLimit == Spec => []QueueBounded
<1>1. Init => BoundInv
  BY InitTyped, SizesAssumption, EmptySeq DEF BoundInv, Init, QueueBounded
<1>2. BoundInv => QueueBounded
  BY DEF BoundInv
<1> QED BY <1>1, <1>2, BoundStep, PTL DEF Spec

-----------------------------------------------------------------------------
(* The uploader implements MessageFeed.                                    *)

\* The batch is the next stretch of what entered the queue; while the uploader
\* is in use, batch and queue are all that is not answered for.
BatchIsNext ==
    /\ answered + Len(batch) <= Len(pushed)
    /\ \A i \in 1..Len(batch) : batch[i] = pushed[answered + i]
OwedIsRest ==
    /\ answered + Len(Owed) = Len(pushed)
    /\ \A i \in 1..Len(Owed) : Owed[i] = pushed[answered + i]
FeedInv ==
    /\ TypeOK /\ DrainOK /\ BatchIsNext
    /\ ~Closed => OwedIsRest

LEMMA Prefix ==
    ASSUME NEW b \in Seq(Messages), NEW p \in Seq(Messages), NEW a \in Nat, NEW f,
           a + Len(b \o p) = Len(f),
           \A i \in 1..Len(b \o p) : (b \o p)[i] = f[a + i]
    PROVE  /\ a + Len(b) <= Len(f)
           /\ \A i \in 1..Len(b) : b[i] = f[a + i]
<1>1. /\ Len(b \o p) = Len(b) + Len(p)
      /\ \A i \in 1..Len(b) : i \in 1..Len(b \o p) /\ (b \o p)[i] = b[i]
      /\ Len(b) \in Nat /\ Len(p) \in Nat
  BY ConcatProperties
<1>2. a + Len(b) <= Len(f)
  BY <1>1
<1> QED BY <1>1, <1>2, Zenon

LEMMA OwedCoversBatch ==
    /\ TypeOK /\ OwedIsRest => BatchIsNext
    /\ TypeOK' /\ OwedIsRest' => BatchIsNext'
<1>1. ASSUME TypeOK, OwedIsRest PROVE BatchIsNext
  <2>1. /\ batch \in Seq(Messages) /\ pending \in Seq(Messages) /\ answered \in Nat
        /\ answered + Len(batch \o pending) = Len(pushed)
        /\ \A i \in 1..Len(batch \o pending) : (batch \o pending)[i] = pushed[answered + i]
    BY <1>1 DEF TypeOK, OwedIsRest, Owed
  <2> QED BY <2>1, Prefix, ZenonT(40) DEF BatchIsNext
<1>2. ASSUME TypeOK', OwedIsRest' PROVE BatchIsNext'
  <2>1. /\ batch' \in Seq(Messages) /\ pending' \in Seq(Messages) /\ answered' \in Nat
        /\ answered' + Len(batch' \o pending') = Len(pushed')
        /\ \A i \in 1..Len(batch' \o pending') :
                (batch' \o pending')[i] = pushed'[answered' + i]
    BY <1>2 DEF TypeOK, OwedIsRest, Owed
  <2> QED BY <2>1, Prefix, ZenonT(40) DEF BatchIsNext
<1> QED BY <1>1, <1>2

\* What is pushed is owed.
LEMMA PushFeeds ==
    ASSUME FeedInv, ~Closed, NEW items \in Seq(Messages), Push(items)
    PROVE  OwedIsRest'
<1>1. /\ Owed' = Owed \o items /\ pushed' = pushed \o items /\ answered' = answered
  BY PushSteps DEF FeedInv, DrainOK
<1>2. Owed \in Seq(Messages) /\ pushed \in Seq(Messages) /\ answered \in Nat /\ OwedIsRest
  BY ConcatProperties DEF FeedInv, TypeOK, Owed
<1> HIDE DEF Owed
<1>3. /\ Len(Owed') = Len(Owed) + Len(items) /\ Len(pushed') = Len(pushed) + Len(items)
      /\ \A i \in 1..Len(Owed') :
            Owed'[i] = IF i <= Len(Owed) THEN Owed[i] ELSE items[i - Len(Owed)]
      /\ \A i \in 1..Len(pushed') :
            pushed'[i] = IF i <= Len(pushed) THEN pushed[i] ELSE items[i - Len(pushed)]
      /\ Len(Owed) \in Nat /\ Len(pushed) \in Nat /\ Len(items) \in Nat
  BY <1>1, <1>2, ConcatProperties
<1>4. /\ answered + Len(Owed) = Len(pushed)
      /\ \A i \in 1..Len(Owed) : Owed[i] = pushed[answered + i]
  BY <1>2 DEF OwedIsRest
<1>5. /\ answered + Len(Owed') = Len(pushed')
      /\ \A i \in 1..Len(Owed') :
            /\ answered + i \in 1..Len(pushed')
            /\ i <= Len(Owed) <=> answered + i <= Len(pushed)
            /\ (answered + i) - Len(pushed) = i - Len(Owed)
  <2>1. /\ answered \in Nat /\ Len(Owed) \in Nat /\ Len(items) \in Nat
        /\ answered + Len(Owed) = Len(pushed)
        /\ Len(Owed') = Len(Owed) + Len(items) /\ Len(pushed') = Len(pushed) + Len(items)
    BY <1>2, <1>3, <1>4
  <2>2. answered + Len(Owed') = Len(pushed')
    BY <2>1
  <2>3. ASSUME NEW i \in 1..Len(Owed') PROVE answered + i \in 1..Len(pushed')
    BY <2>1
  <2>4. ASSUME NEW i \in 1..Len(Owed') PROVE i <= Len(Owed) <=> answered + i <= Len(pushed)
    BY <2>1
  <2>5. ASSUME NEW i \in 1..Len(Owed') PROVE (answered + i) - Len(pushed) = i - Len(Owed)
    BY <2>1
  <2> QED BY <2>2, <2>3, <2>4, <2>5
<1>6. ASSUME NEW i \in 1..Len(Owed') PROVE Owed'[i] = pushed'[answered + i]
  <2>1. CASE i <= Len(Owed)
    <3>1. i \in 1..Len(Owed) /\ Owed'[i] = Owed[i]
      BY <1>3, <2>1
    <3>2. answered + i \in 1..Len(pushed') /\ answered + i <= Len(pushed)
      BY <1>5, <2>1
    <3> QED BY <1>3, <1>4, <3>1, <3>2
  <2>2. CASE ~(i <= Len(Owed))
    <3>1. Owed'[i] = items[i - Len(Owed)]
      BY <1>3, <2>2
    <3>2. /\ answered + i \in 1..Len(pushed') /\ ~(answered + i <= Len(pushed))
          /\ (answered + i) - Len(pushed) = i - Len(Owed)
      BY <1>5, <2>2
    <3>3. pushed'[answered + i] = items[(answered + i) - Len(pushed)]
      BY <1>3, <3>2
    <3> QED BY <3>1, <3>2, <3>3
  <2> QED BY <2>1, <2>2
<1> QED BY <1>1, <1>5, <1>6 DEF OwedIsRest

\* What was owed less what is answered for.
LEMMA AnswerFeeds ==
    ASSUME FeedInv, ~Closed, batch' \o pending' = pending,
           answered' = answered + Len(batch), pushed' = pushed
    PROVE  OwedIsRest'
<1>1. /\ Len(Owed) = Len(batch) + Len(pending)
      /\ \A i \in 1..Len(pending) : Owed[Len(batch) + i] = pending[i]
      /\ Len(batch) \in Nat /\ Len(pending) \in Nat /\ Len(pushed) \in Nat
  <2>1. batch \in Seq(Messages) /\ pending \in Seq(Messages) /\ pushed \in Seq(Messages)
    BY DEF FeedInv, TypeOK
  <2> QED BY <2>1, ConcatProperties DEF Owed
<1>2. Owed' = pending /\ OwedIsRest /\ answered \in Nat
  BY DEF Owed, FeedInv, TypeOK
<1> HIDE DEF Owed
<1>3. \A i \in 1..Len(pending) : pending[i] = pushed[answered + (Len(batch) + i)]
  <2> TAKE i \in 1..Len(pending)
  <2>1. Len(batch) + i \in 1..Len(Owed)
    BY <1>1
  <2> QED BY <1>1, <1>2, <2>1 DEF OwedIsRest
<1>4. answered + (Len(batch) + Len(pending)) = Len(pushed)
  BY <1>1, <1>2 DEF OwedIsRest
<1>5. \A i \in 1..Len(pending) : answered + (Len(batch) + i) = answered' + i
  BY <1>1, <1>2
<1>6. \A i \in 1..Len(pending) : pending[i] = pushed'[answered' + i]
  BY <1>3, <1>5
<1> QED BY <1>1, <1>2, <1>4, <1>6 DEF OwedIsRest

\* What becomes of the feed when a POST has its answer, or is given up.
LEMMA AnswerStep ==
    ASSUME FeedInv, PostReturns \/ BatchDropped
    PROVE  FeedInv'
<1>1. TypeOK' /\ DrainOK'
  BY DrainTyped DEF FeedInv
<1>2. /\ GoOn(TRUE) /\ drain = "posting" /\ phase' = phase
      /\ answered' = answered + Len(batch) /\ pushed' = pushed
  BY DEF PostReturns, BatchDropped
<1>3. CASE ~Closed
  <2>1. batch' \o pending' = pending
    BY <1>2, GoOnSteps DEF FeedInv
  <2>2. OwedIsRest'
    BY <1>2, <1>3, <2>1, AnswerFeeds
  <2>3. BatchIsNext'
    BY <1>1, <2>2, OwedCoversBatch
  <2> QED BY <1>1, <2>2, <2>3 DEF FeedInv
<1>4. CASE Closed
  <2>1. batch' = <<>> /\ Closed'
    BY <1>2, <1>4, GoOnSteps DEF FeedInv, Closed
  <2>2. BatchIsNext'
    BY <1>2, <2>1, EmptySeq DEF FeedInv, BatchIsNext, TypeOK
  <2> QED BY <1>1, <2>1, <2>2 DEF FeedInv
<1> QED BY <1>3, <1>4

\* The other steps of the drain loop owe what they owed.
LEMMA RetryStep ==
    ASSUME FeedInv, PostFails \/ PauseEnds
    PROVE  FeedInv'
<1>1. TypeOK' /\ DrainOK'
  BY DrainTyped DEF FeedInv
<1>2. /\ batch \in Seq(Messages) /\ pending \in Seq(Messages)
      /\ <<>> \in Seq(Messages) /\ Len(<<>>) = 0 /\ <<>> \o pending = pending
      /\ \A q \in Seq(Messages) : <<>> \o q = q
  BY EmptySeq, ConcatEmptySeq DEF FeedInv, TypeOK
<1>3. Owed' = Owed /\ answered' = answered /\ pushed' = pushed /\ phase' = phase
  <2>1. CASE PostFails
    <3>1. batch' = <<>> /\ pending' = Owed /\ Owed \in Seq(Messages)
      BY <2>1, <1>2, ConcatProperties DEF PostFails, Owed
    <3>2. batch' \o pending' = Owed
      <4> HIDE DEF Owed
      <4> QED BY <1>2, <3>1
    <3> QED BY <2>1, <3>2 DEF PostFails, Owed
  <2>2. CASE PauseEnds
    <3>1. GoOn(FALSE) /\ batch = <<>>
      BY <2>2 DEF PauseEnds, FeedInv, DrainOK
    <3>2. batch' \o pending' = pending
      BY <3>1, GoOnSteps DEF FeedInv
    <3>3. Owed' = pending
      BY <3>2 DEF Owed
    <3>4. Owed = pending
      BY <1>2, <3>1 DEF Owed
    <3>5. answered' = answered /\ pushed' = pushed /\ phase' = phase
      BY <2>2 DEF PauseEnds, history
    <3> QED BY <3>3, <3>4, <3>5, Zenon
  <2> QED BY <2>1, <2>2
<1>4. CASE ~Closed
  <2>1. OwedIsRest'
    <3> HIDE DEF Owed
    <3> QED BY <1>3, <1>4 DEF FeedInv, OwedIsRest
  <2> QED BY <1>1, <2>1, OwedCoversBatch DEF FeedInv
<1>5. CASE Closed
  <2>1. batch' = <<>>
    <3>1. CASE PostFails
      BY <3>1 DEF PostFails
    <3>2. CASE PauseEnds
      BY <3>2, <1>5, GoOnSteps DEF PauseEnds, FeedInv
    <3> QED BY <3>1, <3>2
  <2> QED BY <1>1, <1>2, <1>3, <1>5, <2>1 DEF FeedInv, BatchIsNext, TypeOK, Closed
<1> QED BY <1>4, <1>5

LEMMA CallFeeds ==
    ASSUME FeedInv, NEW c \in Calls, Write(c) \/ TimerFires(c) \/ LookAgain(c)
    PROVE  FeedInv'
<1>1. TypeOK' /\ DrainOK'
  BY CallTyped DEF FeedInv
<1>2. PICK call \in CallRecord : Enqueue(c, call) /\ phase' = phase
  BY CallEnqueues DEF FeedInv, MadeBy
<1>3. CASE UNCHANGED <<uploader, history>>
  BY <1>1, <1>2, <1>3
     DEF FeedInv, BatchIsNext, OwedIsRest, Owed, Closed, uploader, history
<1>4. CASE ~Closed /\ Push(call.items)
  <2>1. OwedIsRest'
    BY <1>4, PushFeeds DEF CallRecord
  <2> QED BY <1>1, <2>1, OwedCoversBatch DEF FeedInv
<1> QED BY <1>2, <1>3, <1>4 DEF Enqueue

LEMMA FeedStep == FeedInv /\ [Next]_vars => FeedInv'
<1> SUFFICES ASSUME FeedInv, [Next]_vars PROVE FeedInv'
  OBVIOUS
<1>1. TypeOK' /\ DrainOK'
  BY StepTyped DEF FeedInv
<1>2. CASE StreamEvent \/ Close \/ UNCHANGED vars
  BY <1>1, <1>2 DEF StreamEvent, Close, vars, uploader, history, FeedInv, BatchIsNext,
                    OwedIsRest, Owed, Closed
<1>3. CASE UploaderCloses
  BY <1>1, <1>3 DEF UploaderCloses, history, FeedInv, BatchIsNext, Closed
<1> QED BY <1>2, <1>3, CallFeeds, AnswerStep, RetryStep DEF Next, PostEnds

LEMMA FeedInit == Init => FeedInv
<1>1. <<>> \in Seq(Messages) /\ Len(<<>>) = 0 /\ <<>> \o <<>> = <<>>
  BY EmptySeq, ConcatEmptySeq
<1> QED BY <1>1, InitTyped DEF Init, FeedInv, BatchIsNext, OwedIsRest, Owed

\* What is on its way is the stretch after what is answered for.
LEMMA BatchIsStretch ==
    ASSUME FeedInv
    PROVE  /\ batch = SubSeq(pushed, answered + 1, answered + Len(batch))
           /\ answered + Len(batch) <= Len(pushed)
<1>1. /\ batch \in Seq(Messages) /\ Len(batch) \in Nat /\ answered \in Nat
      /\ pushed \in Seq(Messages) /\ Len(pushed) \in Nat /\ BatchIsNext
  BY DEF FeedInv, TypeOK
<1> DEFINE n == answered + Len(batch)
           s == SubSeq(pushed, answered + 1, n)
<1>2. answered + 1 \in Int /\ n \in Int /\ \A i \in answered + 1..n : pushed[i] \in Messages
  <2>1. \A i \in answered + 1..n : i \in 1..Len(pushed)
    BY <1>1 DEF BatchIsNext
  <2> QED BY <1>1, <2>1, ElementOfSeq
<1>3. /\ s \in Seq(Messages)
      /\ Len(s) = IF answered + 1 <= n THEN n - (answered + 1) + 1 ELSE 0
      /\ \A i \in 1..n - (answered + 1) + 1 : s[i] = pushed[(answered + 1) + i - 1]
  <2> HIDE DEF n
  <2> QED BY <1>2, SubSeqProperties
<1>4. Len(s) = Len(batch) /\ n - (answered + 1) + 1 = Len(batch)
  <2> HIDE DEF s
  <2> QED BY <1>1, <1>3
<1>5. \A i \in 1..Len(batch) : batch[i] = s[i]
  <2> TAKE i \in 1..Len(batch)
  <2>1. batch[i] = pushed[answered + i]
    BY <1>1 DEF BatchIsNext
  <2>2. (answered + 1) + i - 1 = answered + i
    BY <1>1
  <2> HIDE DEF s, n
  <2> QED BY <1>3, <1>4, <2>1, <2>2
<1>6. batch = s
  <2> HIDE DEF s
  <2> QED BY <1>1, <1>3, <1>4, <1>5, SeqEqual
<1> QED BY <1>1, <1>6 DEF BatchIsNext

\* What a refinement of a step needs of MessageFeed: a delivery, with or
\* without its answer, an answer, or neither.
LEMMA AnswersMap ==
    ASSUME FeedInv, PostReturns \/ PostFails \/ BatchDropped
    PROVE  [Feed!Next]_<<pushed, answered, log>>
<1> DEFINE n == answered + Len(batch)
<1>1. /\ batch = SubSeq(pushed, answered + 1, n) /\ n <= Len(pushed)
      /\ batch \in Seq(Messages) /\ Len(batch) \in Nat /\ answered \in Nat
      /\ log \in Seq(Messages) /\ Len(pushed) \in Nat
  BY BatchIsStretch DEF FeedInv, TypeOK
<1>2. /\ pushed' = pushed
      /\ answered' \in {answered, n}
      /\ log' \in {log, log \o batch}
  BY <1>1 DEF PostReturns, PostFails, BatchDropped, Lost
<1>3. CASE batch = <<>>
  <2>1. Len(batch) = 0 /\ log \o batch = log
    BY <1>1, <1>3, EmptySeq, ConcatEmptySeq
  <2>2. n = answered
    BY <1>1, <2>1
  <2> HIDE DEF n
  <2>3. <<pushed, answered, log>>' = <<pushed, answered, log>>
    BY <1>2, <2>1, <2>2
  <2> QED BY <2>3
<1>4. CASE batch # <<>>
  <2>1. n \in (answered + 1)..Len(pushed)
    <3>1. Len(batch) # 0
      BY <1>1, <1>4, EmptySeq
    <3> QED BY <1>1, <3>1
  <2>2. CASE log' = log \o batch
    <3>1. Feed!Deliver
      <4> HIDE DEF n
      <4> QED BY <1>1, <1>2, <2>1, <2>2 DEF Feed!Deliver
    <3> QED BY <3>1 DEF Feed!Next
  <2>3. CASE log' = log
    <3> HIDE DEF n
    <3>1. answered' = n => Feed!Answer
      BY <1>2, <2>1, <2>3 DEF Feed!Answer
    <3>2. answered' = answered => <<pushed, answered, log>>' = <<pushed, answered, log>>
      BY <1>2, <2>3
    <3> QED BY <1>2, <3>1, <3>2 DEF Feed!Next
  <2> QED BY <1>2, <2>2, <2>3
<1> QED BY <1>3, <1>4

LEMMA CallsMap ==
    ASSUME FeedInv, NEW c \in Calls, Write(c) \/ TimerFires(c) \/ LookAgain(c)
    PROVE  [Feed!Next]_<<pushed, answered, log>>
<1>1. PICK call \in CallRecord : Enqueue(c, call)
  BY CallEnqueues DEF FeedInv, MadeBy
<1>2. CASE UNCHANGED <<uploader, history>>
  BY <1>2 DEF history
<1>3. CASE Push(call.items)
  <2>1. /\ pushed' = pushed \o call.items /\ answered' = answered /\ log' = log
        /\ pushed \in Seq(Messages) /\ call.items \in Seq(Messages)
    BY <1>3, PushSteps DEF FeedInv, TypeOK, DrainOK, CallRecord
  <2>2. Len(pushed') >= Len(pushed) /\ SubSeq(pushed', 1, Len(pushed)) = pushed
    <3>1. /\ pushed' \in Seq(Messages) /\ Len(pushed') = Len(pushed) + Len(call.items)
          /\ Len(pushed) \in Nat /\ Len(call.items) \in Nat
      BY <2>1, ConcatProperties
    <3>2. \A i \in 1..Len(pushed) : i \in 1..Len(pushed') /\ pushed'[i] = pushed[i]
      BY <2>1, <3>1, ConcatProperties
    <3> DEFINE s == SubSeq(pushed', 1, Len(pushed))
    <3>3. Len(pushed) \in 0..Len(pushed')
      BY <3>1
    <3>4. /\ s \in Seq(Messages) /\ Len(s) = Len(pushed)
      BY <3>1, <3>3, Cut, Zenon
    <3>5. \A i \in 1..Len(pushed) : pushed'[i] \in Messages
      BY <3>1, <3>2, ElementOfSeq
    <3>6. \A i \in 1..(Len(pushed) - 1 + 1) : s[i] = pushed'[1 + i - 1]
      BY <3>1, <3>5, SubSeqProperties
    <3>7. \A i \in 1..Len(s) : s[i] = pushed[i]
      <4> HIDE DEF s
      <4> QED BY <3>1, <3>2, <3>4, <3>6
    <3>8. s = pushed
      <4> HIDE DEF s
      <4> QED BY <2>1, <3>4, <3>7, SeqEqual, Zenon
    <3> QED BY <3>1, <3>8
  <2>3. Feed!Accept
    BY <2>1, <2>2 DEF Feed!Accept
  <2> QED BY <2>3 DEF Feed!Next
<1> QED BY <1>1, <1>2, <1>3 DEF Enqueue

\* Whatever fails, what the server receives is what a MessageFeed delivers: the
\* messages in the order in which they were accepted, and nothing again that
\* was answered for.
THEOREM UploaderImplementsFeed == Spec => ImplementsFeed
<1>1. Init => Feed!Init
  BY DEF Init, Feed!Init
<1>2. FeedInv /\ [Next]_vars => [Feed!Next]_<<pushed, answered, log>>
  <2> SUFFICES ASSUME FeedInv, [Next]_vars PROVE [Feed!Next]_<<pushed, answered, log>>
    OBVIOUS
  <2>1. CASE StreamEvent \/ Close \/ PauseEnds \/ UploaderCloses \/ UNCHANGED vars
    BY <2>1 DEF StreamEvent, Close, PauseEnds, UploaderCloses, vars, history
  <2> QED BY <2>1, CallsMap, AnswersMap DEF Next, PostEnds
<1> QED BY <1>1, <1>2, FeedInit, FeedStep, PTL
        DEF Spec, ImplementsFeed, Feed!Spec, Feed!vars

-----------------------------------------------------------------------------
(* What was written and returned was delivered.                            *)

Settled == Range(log) \cup refused

\* A write whose flush waits is settled or owed, one that returned is settled,
\* unless a batch was dropped since it was made.
CallInv(c) ==
    /\ calls[c].after <= dropped
    /\ calls[c].flush /\ calls[c].after = dropped =>
        /\ calls[c].st = "flushing" => Range(calls[c].items) \subseteq Settled \cup Range(Owed)
        /\ calls[c].st = "done" => Range(calls[c].items) \subseteq Settled
DeliveryInv == FeedInv /\ (~Closed => \A c \in Calls : CallInv(c))

LEMMA OwedRanges ==
    /\ TypeOK => Range(Owed) = Range(batch) \cup Range(pending)
    /\ TypeOK' => Range(Owed') = Range(batch') \cup Range(pending')
BY Ranges DEF TypeOK, Owed

\* enqueue while the uploader is in use.
LEMMA EnqueueOpen ==
    ASSUME ~Closed, NEW c \in Calls, NEW call, Enqueue(c, call)
    PROVE  \/ /\ ~Fits(call.items)
              /\ calls' = [calls EXCEPT ![c] = [call EXCEPT !.st = "blocked"]]
              /\ UNCHANGED <<uploader, history>>
           \/ /\ Fits(call.items)
              /\ calls' = [calls EXCEPT ![c] = Returned(call, FALSE)]
              /\ Push(call.items)
BY Zenon DEF Enqueue

LEMMA CallDelivers ==
    ASSUME DeliveryInv, ~Closed, NEW c \in Calls, Write(c) \/ TimerFires(c) \/ LookAgain(c)
    PROVE  \A d \in Calls : CallInv(d)'
<1>1. PICK call \in CallRecord : /\ Enqueue(c, call) /\ phase' = phase
                                 /\ call.after = dropped \/ call = calls[c]
  BY CallEnqueues DEF DeliveryInv, FeedInv, MadeBy
<1>2. /\ call.after <= dropped /\ dropped \in Nat /\ calls \in [Calls -> CallRecord]
      /\ \A d \in Calls : CallInv(d)
  BY <1>1 DEF DeliveryInv, FeedInv, TypeOK, CallInv
<1>3. CASE ~Fits(call.items)
  <2>0. /\ calls' = [calls EXCEPT ![c] = [call EXCEPT !.st = "blocked"]]
        /\ UNCHANGED <<uploader, history>>
    BY <1>1, <1>3, EnqueueOpen, Zenon
  <2>1. /\ calls' = [calls EXCEPT ![c] = [call EXCEPT !.st = "blocked"]]
        /\ log' = log /\ refused' = refused /\ dropped' = dropped /\ Owed' = Owed
    BY <2>0 DEF uploader, history, Owed
  <2> HIDE DEF Owed
  <2>2. /\ calls'[c].st = "blocked" /\ calls'[c].after = call.after
        /\ \A d \in Calls \ {c} : calls'[d] = calls[d]
    BY <1>2, <2>1 DEF CallRecord
  <2> QED BY <1>2, <2>1, <2>2 DEF CallInv, Settled
<1>4. CASE Fits(call.items)
  <2>1. /\ calls' = [calls EXCEPT ![c] = Returned(call, FALSE)] /\ Push(call.items)
    BY <1>1, <1>4, EnqueueOpen, Zenon
  <2>2. /\ Owed' = Owed \o call.items /\ log' = log /\ refused' = refused
        /\ dropped' = dropped
    BY <2>1, PushSteps DEF DeliveryInv, FeedInv, DrainOK, CallRecord
  <2>3. Owed \in Seq(Messages) /\ call.items \in Seq(Messages)
    BY ConcatProperties DEF DeliveryInv, FeedInv, TypeOK, Owed, CallRecord
  <2> HIDE DEF Owed
  <2>4. Range(Owed') = Range(Owed) \cup Range(call.items)
    BY <2>2, <2>3, Ranges
  <2>5. /\ calls'[c].after = call.after /\ calls'[c].items = call.items
        /\ calls'[c].flush = call.flush
        /\ call.flush => calls'[c].st = "flushing"
        /\ \A d \in Calls \ {c} : calls'[d] = calls[d]
    BY <1>2, <2>1 DEF CallRecord, Returned
  <2>6. CallInv(c)'
    BY <1>2, <2>2, <2>4, <2>5 DEF CallInv, Settled
  <2>7. \A d \in Calls \ {c} : CallInv(d)'
    BY <1>2, <2>2, <2>4, <2>5 DEF CallInv, Settled
  <2> QED BY <2>6, <2>7
<1> QED BY <1>3, <1>4

\* The step of a drain loop that goes on, when it delivers what was in its batch.
LEMMA LoopDelivers ==
    ASSUME DeliveryInv, ~Closed, NEW release \in BOOLEAN, GoOn(release),
           dropped' = dropped, Settled \cup Range(batch) \subseteq Settled'
    PROVE  \A d \in Calls : CallInv(d)'
<1>1. /\ TypeOK /\ batch' \o pending' = pending
      /\ \A d \in Calls : CallInv(d)
      /\ batch \in Seq(Messages) /\ pending \in Seq(Messages)
  BY GoOnSteps DEF DeliveryInv, FeedInv, TypeOK
<1>2. PICK drained \in BOOLEAN : /\ calls' = Resolved(release, drained)
                                 /\ drained => pending = <<>>
  BY <1>1, GoOnSteps
<1>3. /\ Range(Owed) = Range(batch) \cup Range(pending) /\ Owed' = pending
  BY <1>1, OwedRanges DEF Owed
<1> HIDE DEF Owed
<1>4. ASSUME NEW d \in Calls PROVE CallInv(d)'
  <2>1. /\ calls'[d].items = calls[d].items /\ calls'[d].flush = calls[d].flush
        /\ calls'[d].after = calls[d].after
        /\ \/ calls'[d].st = calls[d].st
           \/ calls[d].st = "blocked" /\ calls'[d].st = "woken"
           \/ drained /\ calls[d].st = "flushing" /\ calls'[d].st = "done"
    BY <1>1, <1>2, ResolvedCalls, Zenon
  <2>2. CASE calls'[d].st = calls[d].st \/ calls'[d].st = "woken"
    BY <1>1, <1>3, <2>1, <2>2 DEF CallInv
  <2>3. CASE drained /\ calls[d].st = "flushing" /\ calls'[d].st = "done"
    <3>1. Range(pending) = {}
      BY <1>2, <2>3, Ranges, Zenon
    <3> QED BY <1>1, <1>3, <2>1, <2>3, <3>1 DEF CallInv
  <2> QED BY <2>1, <2>2, <2>3
<1> QED BY <1>4

LEMMA LostKeeps == ASSUME TypeOK, Lost PROVE Range(log) \subseteq Range(log')
<1>1. Range(log \o batch) = Range(log) \cup Range(batch)
  BY Ranges DEF TypeOK
<1> QED BY <1>1 DEF Lost

LEMMA DeliveryStep == DeliveryInv /\ [Next]_vars => DeliveryInv'
<1> SUFFICES ASSUME DeliveryInv, [Next]_vars, ~Closed' PROVE \A c \in Calls : CallInv(c)'
  BY FeedStep DEF DeliveryInv
<1>1. /\ ~Closed /\ TypeOK /\ \A c \in Calls : CallInv(c)
  <2>1. Closed => Closed'
    BY DEF Next, StreamEvent, Write, TimerFires, LookAgain, PostEnds, PostReturns, PostFails,
           BatchDropped, PauseEnds, Close, UploaderCloses, Closed, vars
  <2> QED BY <2>1 DEF DeliveryInv, FeedInv
<1>2. CASE \E c \in Calls : Write(c) \/ TimerFires(c) \/ LookAgain(c)
  BY <1>1, <1>2, CallDelivers
<1>3. CASE PostReturns
  <2>1. Range(log \o batch) = Range(log) \cup Range(batch)
    BY <1>1, Ranges DEF TypeOK
  <2>2. Settled \cup Range(batch) \subseteq Settled'
    BY <1>3, <2>1 DEF PostReturns, Settled
  <2> QED BY <1>1, <1>3, <2>2, LoopDelivers DEF PostReturns
<1>4. CASE PostFails
  <2>1. /\ calls' = calls /\ dropped' = dropped /\ Settled \subseteq Settled'
    BY <1>1, <1>4, LostKeeps DEF PostFails, Settled
  <2>2. /\ batch' = <<>> /\ pending' = Owed /\ Owed \in Seq(Messages)
    BY <1>1, <1>4, ConcatProperties DEF PostFails, Owed, TypeOK
  <2>3. Owed' = Owed
    <3>1. batch' \o pending' = Owed
      <4> HIDE DEF Owed
      <4> QED BY <2>2, ConcatEmptySeq
    <3> QED BY <3>1 DEF Owed
  <2> HIDE DEF Owed
  <2> QED BY <1>1, <2>1, <2>3 DEF CallInv
<1>5. CASE BatchDropped
  <2>1. GoOn(TRUE) /\ dropped' = dropped + 1 /\ dropped \in Nat
    BY <1>1, <1>5 DEF BatchDropped, TypeOK
  <2>2. \A c \in Calls : calls'[c].after = calls[c].after
    <3>1. PICK drained \in BOOLEAN : calls' = Resolved(TRUE, drained)
      BY <1>1, <2>1, GoOnSteps
    <3> QED BY <1>1, <3>1, ResolvedCalls
  <2>3. \A c \in Calls : calls[c].after \in Nat
    BY <1>1 DEF TypeOK, CallRecord
  <2> QED BY <1>1, <2>1, <2>2, <2>3 DEF CallInv
<1>6. CASE PauseEnds
  <2>1. batch = <<>> /\ Range(batch) = {}
    BY <1>6, Ranges DEF PauseEnds, DeliveryInv, FeedInv, DrainOK
  <2>2. Settled \cup Range(batch) \subseteq Settled' /\ dropped' = dropped /\ GoOn(FALSE)
    BY <1>6, <2>1 DEF PauseEnds, Settled, history
  <2> QED BY <1>1, <2>2, LoopDelivers
<1>7. CASE StreamEvent \/ Close \/ UNCHANGED vars
  BY <1>1, <1>7 DEF StreamEvent, Close, vars, uploader, history, CallInv, Settled, Owed
<1>8. CASE UploaderCloses
  BY <1>8 DEF UploaderCloses, Closed
<1> QED BY <1>2, <1>3, <1>4, <1>5, <1>6, <1>7, <1>8 DEF Next, PostEnds

\* A write that returned while the transport is in use was delivered or refused
\* for good, unless the count of dropped batches has moved since it was made.
THEOREM WritesAreDelivered == Spec => []WrittenMeansDelivered
<1>1. Init => DeliveryInv
  <2> SUFFICES ASSUME Init PROVE DeliveryInv
    OBVIOUS
  <2>1. \A c \in Calls : CallInv(c)
    BY DEF Init, Unused, CallInv
  <2> QED BY <2>1, FeedInit DEF DeliveryInv
<1>2. DeliveryInv => WrittenMeansDelivered
  <2> SUFFICES ASSUME DeliveryInv, NEW c \in Calls,
                      calls[c].st = "done", calls[c].flush, ~Closed, ~(dropped > calls[c].after)
               PROVE  \A i \in DOMAIN calls[c].items :
                            calls[c].items[i] \in Range(log) \cup refused
    BY DEF WrittenMeansDelivered
  <2>1. /\ CallInv(c) /\ dropped \in Nat /\ calls[c].after \in Nat
        /\ calls[c].items \in Seq(Messages)
    BY DEF DeliveryInv, FeedInv, TypeOK, CallRecord
  <2>2. Range(calls[c].items) \subseteq Settled
    BY <2>1 DEF CallInv
  <2>3. \A i \in DOMAIN calls[c].items : calls[c].items[i] \in Range(calls[c].items)
    BY <2>1, RangeEquality, LenProperties
  <2> QED BY <2>2, <2>3 DEF Settled
<1> QED BY <1>1, <1>2, DeliveryStep, PTL DEF Spec

-----------------------------------------------------------------------------
(* Nothing is overtaken, unless it is held back by a full queue.           *)

Waiting(c) == calls[c].st \in {"blocked", "woken"}
Items(c)   == Range(calls[c].items)

\* A message written is in the queue, in the buffer or held back; what is in the
\* buffer is newer than what is elsewhere.
EachIsSomewhere ==
    \A i \in 1..made : \/ i \in Range(pushed) \cup Range(buffer)
                      \/ \E c \in Calls : Waiting(c) /\ i \in Items(c)
Older(i) == i <= made /\ \A b \in Range(buffer) : i < b
BufferIsNewest ==
    /\ \A i \in Range(pushed) : Older(i)
    /\ \A c \in Calls : Waiting(c) => \A i \in Items(c) : Older(i)
    /\ \A b \in Range(buffer) : b <= made
OrderInv ==
    /\ TypeOK /\ DrainOK
    /\ phase = "open" => EachIsSomewhere /\ BufferIsNewest

LEMMA AppendedRange ==
    ASSUME NEW q \in Seq(Messages), NEW e \in Messages
    PROVE  /\ Append(q, e) \in Seq(Messages)
           /\ Range(Append(q, e)) = Range(q) \cup {e}
<1> DEFINE a == Append(q, e)
<1>1. /\ a \in Seq(Messages) /\ Len(a) = Len(q) + 1 /\ Len(q) \in Nat
      /\ \A i \in 1..Len(q) : a[i] = q[i]
      /\ a[Len(q) + 1] = e
  BY AppendProperties, LenProperties
<1> HIDE DEF a
<1>2. /\ Range(a) = {a[i] : i \in 1..Len(a)} /\ Range(q) = {q[i] : i \in 1..Len(q)}
  BY <1>1, Ranges
<1>3. 1..Len(a) = 1..Len(q) \cup {Len(q) + 1}
  BY <1>1
<1>4. Range(a) = Range(q) \cup {e}
  BY <1>1, <1>2, <1>3
<1> QED BY <1>1, <1>4 DEF a

\* The messages of each place are messages.
LEMMA PlacesTyped ==
    ASSUME TypeOK
    PROVE  /\ Range(buffer) \subseteq Messages /\ Range(pushed) \subseteq Messages
           /\ \A d \in Calls : calls[d] \in CallRecord /\ Items(d) \subseteq Messages
           /\ Messages \subseteq Nat /\ made \in Nat
<1>1. \A d \in Calls : calls[d] \in CallRecord /\ calls[d].items \in Seq(Messages)
  BY DEF TypeOK, CallRecord
<1>2. \A q \in Seq(Messages) : Range(q) \subseteq Messages
  BY RangeOfSeq
<1>3. Messages \subseteq Nat /\ made \in Nat
  BY SizesAssumption DEF Messages, TypeOK
<1> QED BY <1>1, <1>2, <1>3 DEF TypeOK, Items

\* A call of enqueue keeps the order when its items are what left the buffer.
LEMMA EnqueueOrders ==
    ASSUME OrderInv, phase = "open", NEW c \in Calls, NEW call \in CallRecord,
           Enqueue(c, call),
           \A i \in 1..made' :
                \/ i \in Range(pushed) \cup Range(call.items) \cup Range(buffer')
                \/ \E d \in Calls \ {c} : Waiting(d) /\ i \in Items(d),
           \A i \in Range(pushed) \cup Range(call.items) : Older(i)',
           \A d \in Calls \ {c} : Waiting(d) => \A i \in Items(d) : Older(i)',
           \A b \in Range(buffer') : b <= made'
    PROVE  EachIsSomewhere' /\ BufferIsNewest'
<1>1. /\ ~Closed /\ calls \in [Calls -> CallRecord] /\ pushed \in Seq(Messages)
      /\ call.items \in Seq(Messages)
  BY DEF OrderInv, TypeOK, Closed, CallRecord
<1>2. CASE ~Fits(call.items)
  <2>1. /\ calls' = [calls EXCEPT ![c] = [call EXCEPT !.st = "blocked"]]
        /\ UNCHANGED <<uploader, history>>
    BY <1>1, <1>2, EnqueueOpen, Zenon
  <2>2. /\ pushed' = pushed /\ calls'[c].st = "blocked" /\ calls'[c].items = call.items
        /\ \A d \in Calls \ {c} : calls'[d] = calls[d]
    BY <1>1, <2>1 DEF history, CallRecord
  <2>3. /\ Waiting(c)' /\ Items(c)' = Range(call.items)
        /\ \A d \in Calls \ {c} : (Waiting(d)' <=> Waiting(d)) /\ Items(d)' = Items(d)
    BY <2>2 DEF Waiting, Items
  <2>4. EachIsSomewhere'
    BY <2>2, <2>3 DEF EachIsSomewhere
  <2>5. BufferIsNewest'
    BY <2>2, <2>3 DEF BufferIsNewest
  <2> QED BY <2>4, <2>5
<1>3. CASE Fits(call.items)
  <2>1. calls' = [calls EXCEPT ![c] = Returned(call, FALSE)] /\ Push(call.items)
    BY <1>1, <1>3, EnqueueOpen, Zenon
  <2>2. /\ pushed' = pushed \o call.items
        /\ calls'[c].st \in {"flushing", "done"}
        /\ \A d \in Calls \ {c} : calls'[d] = calls[d]
    BY <1>1, <2>1 DEF Push, CallRecord, Returned
  <2>3. Range(pushed') = Range(pushed) \cup Range(call.items)
    BY <1>1, <2>2, Ranges
  <2>4. /\ ~Waiting(c)'
        /\ \A d \in Calls \ {c} : (Waiting(d)' <=> Waiting(d)) /\ Items(d)' = Items(d)
    BY <2>2 DEF Waiting, Items
  <2>5. EachIsSomewhere'
    BY <2>3, <2>4 DEF EachIsSomewhere
  <2>6. BufferIsNewest'
    BY <2>3, <2>4 DEF BufferIsNewest
  <2> QED BY <2>5, <2>6
<1> QED BY <1>2, <1>3

LEMMA CallOrders ==
    ASSUME OrderInv, phase = "open", NEW c \in Calls,
           Write(c) \/ TimerFires(c) \/ LookAgain(c)
    PROVE  EachIsSomewhere' /\ BufferIsNewest'
<1>1. /\ EachIsSomewhere /\ BufferIsNewest /\ TypeOK
      /\ made \in 0..MaxMessages /\ MaxMessages \in Nat /\ buffer \in Seq(Messages)
      /\ Range(buffer) \subseteq Messages /\ Range(pushed) \subseteq Messages
      /\ \A d \in Calls : calls[d] \in CallRecord /\ Items(d) \subseteq Messages
      /\ Range(<<>>) = {} /\ Messages \subseteq Nat
  BY SizesAssumption, PlacesTyped, Ranges DEF OrderInv, TypeOK
<1>2. CASE Write(c)
  <2> DEFINE items == Append(buffer, made + 1)
             call == NewCall(items, TRUE)
  <2>1. /\ made + 1 \in Messages /\ made' = made + 1 /\ buffer' = <<>>
        /\ calls[c].st = "unused" /\ Enqueue(c, call)
    BY <1>1, <1>2 DEF Write, Call, NewCall, Messages
  <2>2. /\ items \in Seq(Messages) /\ Range(items) = Range(buffer) \cup {made + 1}
    BY <1>1, <2>1, AppendedRange
  <2>3. call \in CallRecord /\ call.items = items /\ ~Waiting(c)
    BY <1>1, <2>1, <2>2, NewCallTyped DEF NewCall, Waiting
  <2> HIDE DEF call, items
  <2>4. \A i \in 1..made' :
            \/ i \in Range(pushed) \cup Range(call.items) \cup Range(buffer')
            \/ \E d \in Calls \ {c} : Waiting(d) /\ i \in Items(d)
    <3> TAKE i \in 1..made'
    <3>1. i \in 1..made \/ i = made + 1
      BY <1>1, <2>1
    <3> QED BY <1>1, <2>2, <2>3, <3>1 DEF EachIsSomewhere
  <2>5. /\ \A i \in Range(pushed) \cup Range(call.items) : Older(i)'
        /\ \A d \in Calls \ {c} : Waiting(d) => \A i \in Items(d) : Older(i)'
    <3>1. \A i \in Nat : i <= made + 1 => Older(i)'
      BY <1>1, <2>1 DEF Older
    <3>2. \A i \in Range(pushed) \cup Range(call.items) : i \in Nat /\ i <= made + 1
      <4>1. \A i \in Range(pushed) : i \in Nat /\ i <= made
        BY <1>1 DEF BufferIsNewest, Older
      <4>2. \A i \in Range(buffer) : i \in Nat /\ i <= made
        BY <1>1 DEF BufferIsNewest
      <4>3. made \in Nat
        BY <1>1
      <4> QED BY <2>2, <2>3, <4>1, <4>2, <4>3
    <3>3. \A d \in Calls : Waiting(d) => \A i \in Items(d) : i \in Nat /\ i <= made + 1
      <4>1. \A d \in Calls : Waiting(d) => \A i \in Items(d) : Older(i)
        BY <1>1 DEF BufferIsNewest
      <4>2. \A i \in Messages : Older(i) => i \in Nat /\ i <= made + 1
        BY <1>1 DEF Older
      <4>3. \A d \in Calls : \A i \in Items(d) : i \in Messages
        BY <1>1
      <4> QED BY <4>1, <4>2, <4>3
    <3> QED BY <3>1, <3>2, <3>3
  <2>6. \A b \in Range(buffer') : b <= made'
    BY <1>1, <2>1
  <2> QED BY <2>1, <2>3, <2>4, <2>5, <2>6, EnqueueOrders
<1>3. CASE TimerFires(c)
  <2> DEFINE call == NewCall(buffer, FALSE)
  <2>1. /\ made' = made /\ buffer' = <<>> /\ calls[c].st = "unused" /\ Enqueue(c, call)
    BY <1>3 DEF TimerFires, Call, NewCall
  <2>2. call \in CallRecord /\ call.items = buffer /\ ~Waiting(c)
    BY <1>1, <2>1, NewCallTyped DEF NewCall, Waiting
  <2> HIDE DEF call
  <2>3. \A i \in 1..made' :
            \/ i \in Range(pushed) \cup Range(call.items) \cup Range(buffer')
            \/ \E d \in Calls \ {c} : Waiting(d) /\ i \in Items(d)
    BY <1>1, <2>1, <2>2 DEF EachIsSomewhere
  <2>4. /\ \A i \in Range(pushed) \cup Range(call.items) : Older(i)'
        /\ \A d \in Calls \ {c} : Waiting(d) => \A i \in Items(d) : Older(i)'
    <3>1. \A i \in Nat : i <= made => Older(i)'
      BY <1>1, <2>1 DEF Older
    <3> QED BY <1>1, <2>1, <2>2, <3>1 DEF BufferIsNewest, Older
  <2>5. \A b \in Range(buffer') : b <= made'
    BY <1>1, <2>1
  <2> QED BY <2>1, <2>2, <2>3, <2>4, <2>5, EnqueueOrders
<1>4. CASE LookAgain(c)
  <2> DEFINE call == calls[c]
  <2>1. /\ made' = made /\ buffer' = buffer /\ Enqueue(c, call) /\ Waiting(c)
        /\ call \in CallRecord /\ Range(call.items) = Items(c)
    BY <1>1, <1>4 DEF LookAgain, Waiting, Items
  <2>2. \A i : Older(i)' <=> Older(i)
    BY <2>1 DEF Older
  <2> HIDE DEF call
  <2>3. \A i \in 1..made' :
            \/ i \in Range(pushed) \cup Range(call.items) \cup Range(buffer')
            \/ \E d \in Calls \ {c} : Waiting(d) /\ i \in Items(d)
    BY <1>1, <2>1 DEF EachIsSomewhere
  <2>4. /\ \A i \in Range(pushed) \cup Range(call.items) : Older(i)'
        /\ \A d \in Calls \ {c} : Waiting(d) => \A i \in Items(d) : Older(i)'
        /\ \A b \in Range(buffer') : b <= made'
    BY <1>1, <2>1, <2>2 DEF BufferIsNewest
  <2> QED BY <2>1, <2>3, <2>4, EnqueueOrders
<1> QED BY <1>2, <1>3, <1>4

\* Steps of the drain loop leave alone what waits and what was pushed.
LEMMA QuietOrders ==
    ASSUME EachIsSomewhere, BufferIsNewest,
           pushed' = pushed, buffer' = buffer, made' = made,
           \A c \in Calls : (Waiting(c)' <=> Waiting(c)) /\ calls'[c].items = calls[c].items
    PROVE  EachIsSomewhere' /\ BufferIsNewest'
<1>1. /\ \A i : Older(i)' <=> Older(i)
      /\ \A c \in Calls : Items(c)' = Items(c)
  BY DEF Older, Items
<1> QED BY <1>1 DEF EachIsSomewhere, BufferIsNewest

LEMMA OrderStep == OrderInv /\ [Next]_vars => OrderInv'
<1> SUFFICES ASSUME OrderInv, [Next]_vars, phase' = "open"
             PROVE  EachIsSomewhere' /\ BufferIsNewest'
  BY StepTyped DEF OrderInv
<1>1. /\ phase = "open"
  BY DEF Next, StreamEvent, Write, TimerFires, LookAgain, PostEnds, PostReturns, PostFails,
         BatchDropped, PauseEnds, Close, UploaderCloses, vars
<1>2. TypeOK /\ EachIsSomewhere /\ BufferIsNewest
  BY <1>1 DEF OrderInv
<1>3. CASE \E c \in Calls : Write(c) \/ TimerFires(c) \/ LookAgain(c)
  BY <1>1, <1>3, CallOrders
<1>4. CASE StreamEvent
  <2>1. /\ made' = made + 1 /\ buffer' = Append(buffer, made + 1)
        /\ calls' = calls /\ pushed' = pushed
        /\ made \in Nat /\ made + 1 \in Messages /\ buffer \in Seq(Messages)
    BY <1>2, <1>4, SizesAssumption DEF StreamEvent, history, TypeOK, Messages
  <2>2. Range(buffer') = Range(buffer) \cup {made + 1}
    BY <2>1, AppendedRange
  <2>3. /\ \A c \in Calls : (Waiting(c)' <=> Waiting(c)) /\ Items(c)' = Items(c)
        /\ \A c \in Calls : Items(c) \subseteq Nat
        /\ Range(pushed) \subseteq Nat /\ Range(buffer) \subseteq Nat
    BY <1>2, <2>1, PlacesTyped DEF Waiting, Items
  <2>4. \A i \in Nat : Older(i) => Older(i)'
    BY <2>1, <2>2 DEF Older
  <2>5. EachIsSomewhere'
    <3> SUFFICES ASSUME NEW i \in 1..made'
                 PROVE  \/ i \in Range(pushed') \cup Range(buffer')
                        \/ \E c \in Calls : Waiting(c)' /\ i \in Items(c)'
      BY DEF EachIsSomewhere
    <3>1. i \in 1..made \/ i = made + 1
      BY <2>1
    <3> QED BY <1>2, <2>1, <2>2, <2>3, <3>1 DEF EachIsSomewhere
  <2>6. BufferIsNewest'
    <3>1. \A b \in Range(buffer') : b <= made'
      BY <1>2, <2>1, <2>2, <2>3 DEF BufferIsNewest
    <3> QED BY <1>2, <2>1, <2>3, <2>4, <3>1 DEF BufferIsNewest
  <2> QED BY <2>5, <2>6
<1>5. CASE PostReturns \/ BatchDropped \/ PauseEnds
  <2>1. /\ \E release \in BOOLEAN : GoOn(release)
        /\ pushed' = pushed /\ buffer' = buffer /\ made' = made
    BY <1>5 DEF PostReturns, BatchDropped, PauseEnds, history
  <2>2. PICK release \in BOOLEAN, drained \in BOOLEAN : calls' = Resolved(release, drained)
    BY <1>2, <2>1, GoOnSteps
  <2>3. \A c \in Calls : (Waiting(c)' <=> Waiting(c)) /\ calls'[c].items = calls[c].items
    BY <1>2, <2>2, ResolvedCalls DEF Waiting
  <2> QED BY <1>2, <2>1, <2>3, QuietOrders
<1>6. CASE PostFails \/ UNCHANGED vars
  <2>1. pushed' = pushed /\ buffer' = buffer /\ made' = made /\ calls' = calls
    BY <1>6 DEF PostFails, vars, history
  <2> QED BY <1>2, <2>1, QuietOrders DEF Waiting
<1>7. CASE Close \/ UploaderCloses
  BY <1>7 DEF Close, UploaderCloses
<1> QED BY <1>3, <1>4, <1>5, <1>6, <1>7 DEF Next, PostEnds

\* While the transport is open, a message enters the queue before one written
\* earlier only while the queue was too full to take that one: a write never
\* passes the stream events before it.
THEOREM NothingIsOvertaken == Spec => []NotOvertaken
<1>1. Init => OrderInv
  <2> SUFFICES ASSUME Init PROVE OrderInv
    OBVIOUS
  <2>1. TypeOK /\ DrainOK /\ Range(<<>>) = {}
    BY InitTyped, Ranges
  <2>2. \A c \in Calls : ~Waiting(c)
    BY DEF Init, Unused, Waiting
  <2> QED BY <2>1, <2>2 DEF Init, OrderInv, EachIsSomewhere, BufferIsNewest
<1>2. OrderInv => NotOvertaken
  <2> SUFFICES ASSUME OrderInv, phase = "open", NEW i \in Messages, NEW j \in Messages,
                      i < j, j \in Range(pushed), i \notin Range(pushed)
               PROVE  \E c \in Calls : Waiting(c) /\ i \in Items(c)
    BY DEF NotOvertaken, Waiting, Items
  <2>1. i \in Nat /\ j \in Nat /\ i >= 1 /\ made \in Nat
    BY SizesAssumption DEF Messages, OrderInv, TypeOK
  <2>2. Older(j)
    BY DEF OrderInv, BufferIsNewest
  <2>3. i \in 1..made
    BY <2>1, <2>2 DEF Older
  <2>4. i \notin Range(buffer)
    BY <2>1, <2>2 DEF Older
  <2> QED BY <2>3, <2>4 DEF OrderInv, EachIsSomewhere
<1> QED BY <1>1, <1>2, OrderStep, PTL DEF Spec
-----------------------------------------------------------------------------
(* No wake-up is lost.                                                     *)

\* While the transport is in use, the loop has what its state says it has.
AtWork ==
    /\ drain = "idle" => pending = <<>>
    /\ drain = "posting" => batch # <<>>
    /\ drain = "sleeping" => pending # <<>>

\* Whoever waits for room has something to send that fits an empty queue: so
\* the queue it found full was not empty, and the loop not idle.
WakeInv ==
    /\ TypeOK /\ DrainOK /\ Len(buffer) <= MaxBurst
    /\ \A c \in Calls : Waiting(c) => Len(calls[c].items) \in 1..MaxQueueSize
    /\ ~Closed => AtWork /\ NobodyIsForgotten

LEMMA NotEmpty == \A q \in Seq(Messages) : Len(q) \in Nat /\ (q = <<>> <=> Len(q) = 0)
BY EmptySeq, LenProperties

\* The caller brings something that fits an empty queue.
LEMMA CallBrings ==
    ASSUME WakeInv, NEW c \in Calls, Write(c) \/ TimerFires(c) \/ LookAgain(c)
    PROVE  /\ phase' = phase /\ Len(buffer') <= MaxBurst
           /\ \E call \in CallRecord :
                Enqueue(c, call) /\ Len(call.items) \in 1..MaxQueueSize
<1> USE SizesAssumption
<1>1. /\ buffer \in Seq(Messages) /\ Len(buffer) \in Nat /\ Len(buffer) <= MaxBurst
      /\ Len(<<>>) = 0
  BY NotEmpty, EmptySeq DEF WakeInv, TypeOK
<1>2. CASE Write(c)
  <2>1. made + 1 \in Messages
    BY <1>2 DEF Write, WakeInv, TypeOK, Messages
  <2>2. Append(buffer, made + 1) \in Seq(Messages)
        /\ Len(Append(buffer, made + 1)) = Len(buffer) + 1
    BY <1>1, <2>1, AppendProperties
  <2>3. NewCall(Append(buffer, made + 1), TRUE) \in CallRecord
        /\ NewCall(Append(buffer, made + 1), TRUE).items = Append(buffer, made + 1)
    BY <2>2, NewCallTyped DEF NewCall, WakeInv
  <2> QED BY <1>1, <1>2, <2>2, <2>3 DEF Write, Call, NewCall
<1>3. CASE TimerFires(c)
  <2>1. Len(buffer) \in 1..MaxQueueSize
    BY <1>1, <1>3, NotEmpty DEF TimerFires
  <2>2. NewCall(buffer, FALSE) \in CallRecord /\ NewCall(buffer, FALSE).items = buffer
    BY <1>1, NewCallTyped DEF NewCall, WakeInv
  <2> QED BY <1>1, <1>3, <2>1, <2>2 DEF TimerFires, Call, NewCall
<1>4. CASE LookAgain(c)
  BY <1>4 DEF LookAgain, Waiting, WakeInv, TypeOK
<1> QED BY <1>2, <1>3, <1>4

\* An idle loop starts with what it is given.
LEMMA PushStarts ==
    ASSUME TypeOK, NEW items \in Seq(Messages), Len(items) >= 1, AtWork, Push(items)
    PROVE  AtWork' /\ drain' # "idle"
<1> USE SizesAssumption
<1>1. /\ pending \in Seq(Messages) /\ Len(pending) \in Nat /\ Len(items) \in Nat
      /\ pending \o items \in Seq(Messages)
      /\ Len(pending \o items) = Len(pending) + Len(items)
  BY NotEmpty, ConcatProperties DEF TypeOK
<1>2. CASE drain = "idle"
  <2>1. /\ batch' = SubSeq(pending \o items, 1, First(pending \o items))
        /\ drain' = "posting"
    BY <1>2 DEF Push
  <2>2. First(pending \o items) \in 1..Len(pending \o items)
    BY <1>1 DEF First
  <2>3. Len(batch') = First(pending \o items) /\ batch' \in Seq(Messages)
    BY <1>1, <2>1, <2>2, Cut
  <2> QED BY <2>1, <2>2, <2>3, NotEmpty DEF AtWork
<1>3. CASE drain # "idle"
  <2>1. pending' = pending \o items /\ batch' = batch /\ drain' = drain
    BY <1>3 DEF Push
  <2>2. pending' # <<>>
    BY <1>1, <2>1, NotEmpty
  <2> QED BY <1>3, <2>1, <2>2 DEF AtWork
<1> QED BY <1>2, <1>3

\* A caller that has to wait leaves a loop at work.
LEMMA CallIsRemembered ==
    ASSUME WakeInv, NEW c \in Calls, NEW call \in CallRecord, Enqueue(c, call),
           Len(call.items) \in 1..MaxQueueSize, phase' = phase
    PROVE  /\ \A d \in Calls : Waiting(d)' => Len(calls'[d].items) \in 1..MaxQueueSize
           /\ ~Closed' => AtWork' /\ NobodyIsForgotten'
<1>1. TypeOK /\ calls \in [Calls -> CallRecord] /\ pending \in Seq(Messages)
  BY DEF WakeInv, TypeOK
<1>2. /\ calls'[c].items = call.items
      /\ \A d \in Calls \ {c} : calls'[d] = calls[d]
  <2>1. PICK st \in {"blocked", "flushing", "done"} :
            calls' = [calls EXCEPT ![c] = [call EXCEPT !.st = st]]
    BY <1>1, EnqueuedCall
  <2> QED BY <1>1, <2>1 DEF CallRecord
<1>3. \A d \in Calls : Waiting(d)' => Len(calls'[d].items) \in 1..MaxQueueSize
  BY <1>2 DEF WakeInv, Waiting
<1>4. ASSUME ~Closed' PROVE AtWork' /\ NobodyIsForgotten'
  <2>1. ~Closed /\ AtWork /\ NobodyIsForgotten
    BY <1>4 DEF Closed, WakeInv
  <2>2. CASE ~Fits(call.items)
    <3>1. UNCHANGED <<uploader, history>>
      BY <2>1, <2>2, EnqueueOpen, Zenon
    <3>2. pending # <<>>
      BY <2>2, EmptySeq, SizesAssumption DEF Fits
    <3>3. drain # "idle" /\ drain' = drain /\ pending' = pending /\ batch' = batch
      BY <2>1, <3>1, <3>2 DEF AtWork, uploader
    <3> QED BY <2>1, <3>3 DEF AtWork, NobodyIsForgotten
  <2>3. CASE Fits(call.items)
    <3>1. Push(call.items)
      BY <2>1, <2>3, EnqueueOpen, Zenon
    <3>2. call.items \in Seq(Messages) /\ Len(call.items) >= 1
      BY DEF CallRecord
    <3> QED BY <1>1, <2>1, <3>1, <3>2, PushStarts DEF NobodyIsForgotten
  <2> QED BY <2>2, <2>3
<1> QED BY <1>3, <1>4

\* A loop that goes on has a batch; one that ends leaves nobody behind, if it
\* releases the callers held back or had something in its queue.
LEMMA LoopRemembers ==
    ASSUME WakeInv, ~Closed, NEW release \in BOOLEAN, GoOn(release),
           release \/ pending # <<>>
    PROVE  AtWork' /\ NobodyIsForgotten'
<1> USE SizesAssumption
<1>1. TypeOK /\ pending \in Seq(Messages) /\ Len(pending) \in Nat
  BY NotEmpty DEF WakeInv, TypeOK
<1>2. CASE pending # <<>>
  <2>1. batch' = SubSeq(pending, 1, First(pending)) /\ drain' = "posting"
    BY <1>2 DEF GoOn
  <2>2. First(pending) \in 1..Len(pending)
    BY <1>1, <1>2, NotEmpty DEF First
  <2>3. Len(batch') = First(pending) /\ batch' \in Seq(Messages)
    BY <1>1, <2>1, <2>2, Cut
  <2> QED BY <2>1, <2>2, <2>3, NotEmpty DEF AtWork, NobodyIsForgotten
<1>3. CASE pending = <<>>
  <2>1. drain' = "idle" /\ pending' = pending /\ calls' = Resolved(TRUE, TRUE)
    BY <1>3 DEF GoOn
  <2>2. \A c \in Calls : calls'[c].st \notin {"blocked", "flushing"}
    <3> SUFFICES ASSUME NEW c \in Calls PROVE calls'[c].st \notin {"blocked", "flushing"}
      OBVIOUS
    <3>1. calls[c] \in CallRecord
      BY <1>1 DEF TypeOK
    <3> QED BY <2>1, <3>1 DEF Resolved, CallRecord
  <2> QED BY <1>3, <2>1, <2>2 DEF AtWork, NobodyIsForgotten
<1> QED BY <1>2, <1>3

\* Resolving promises gives nobody other items, and nobody a place to wait.
LEMMA ResolvedWaits ==
    ASSUME WakeInv, NEW release \in BOOLEAN, NEW drained \in BOOLEAN,
           calls' = Resolved(release, drained)
    PROVE  \A d \in Calls : Waiting(d)' => Len(calls'[d].items) \in 1..MaxQueueSize
<1>1. TypeOK
  BY DEF WakeInv
<1>2. \A c \in Calls :
         /\ calls'[c].items = calls[c].items
         /\ \/ calls'[c].st = calls[c].st
            \/ calls[c].st = "blocked" /\ calls'[c].st = "woken"
            \/ drained /\ calls[c].st = "flushing" /\ calls'[c].st = "done"
  BY <1>1, ResolvedCalls
<1> QED BY <1>2 DEF WakeInv, Waiting

LEMMA WakeStep == WakeInv /\ [Next]_vars => WakeInv'
<1> SUFFICES ASSUME WakeInv, [Next]_vars
             PROVE  /\ Len(buffer') <= MaxBurst
                    /\ \A d \in Calls : Waiting(d)' => Len(calls'[d].items) \in 1..MaxQueueSize
                    /\ ~Closed' => AtWork' /\ NobodyIsForgotten'
  BY StepTyped DEF WakeInv
<1> USE SizesAssumption
<1>1. CASE \E c \in Calls : Write(c) \/ TimerFires(c) \/ LookAgain(c)
  BY <1>1, CallBrings, CallIsRemembered
<1>2. CASE PostReturns \/ BatchDropped
  <2>1. GoOn(TRUE) /\ phase' = phase /\ buffer' = buffer
    BY <1>2 DEF PostReturns, BatchDropped
  <2>2. \E drained \in BOOLEAN : calls' = Resolved(TRUE, drained)
    BY <2>1, GoOnSteps DEF WakeInv
  <2>3. \A d \in Calls : Waiting(d)' => Len(calls'[d].items) \in 1..MaxQueueSize
    BY <2>2, ResolvedWaits
  <2>4. ~Closed => AtWork' /\ NobodyIsForgotten'
    BY <2>1, LoopRemembers
  <2> QED BY <2>1, <2>3, <2>4 DEF WakeInv, Closed
<1>3. CASE PauseEnds
  <2>1. GoOn(FALSE) /\ phase' = phase /\ buffer' = buffer /\ drain = "sleeping"
    BY <1>3 DEF PauseEnds
  <2>2. \E drained \in BOOLEAN : calls' = Resolved(FALSE, drained)
    BY <2>1, GoOnSteps DEF WakeInv
  <2>3. \A d \in Calls : Waiting(d)' => Len(calls'[d].items) \in 1..MaxQueueSize
    BY <2>2, ResolvedWaits
  <2>4. ~Closed => AtWork' /\ NobodyIsForgotten'
    BY <2>1, LoopRemembers DEF WakeInv, AtWork
  <2> QED BY <2>1, <2>3, <2>4 DEF WakeInv, Closed
<1>4. CASE PostFails
  <2>1. /\ pending' = batch \o pending /\ drain' = "sleeping" /\ drain = "posting"
        /\ UNCHANGED <<buffer, phase, calls>>
    BY <1>4 DEF PostFails
  <2>2. ~Closed => pending' # <<>>
    <3>1. /\ batch \in Seq(Messages) /\ pending \in Seq(Messages)
          /\ pending' \in Seq(Messages) /\ Len(pending') = Len(batch) + Len(pending)
      BY <2>1, ConcatProperties DEF WakeInv, TypeOK
    <3>2. ~Closed => batch # <<>>
      BY <2>1 DEF WakeInv, AtWork
    <3> QED BY <3>1, <3>2, NotEmpty
  <2> QED BY <2>1, <2>2 DEF WakeInv, Waiting, Closed, AtWork, NobodyIsForgotten
<1>5. CASE StreamEvent
  <2>1. Len(buffer') = Len(buffer) + 1
    BY <1>5 DEF StreamEvent, WakeInv, TypeOK
  <2>2. Len(buffer) \in Nat /\ Len(buffer) < MaxBurst
    BY <1>5, NotEmpty DEF StreamEvent, WakeInv, TypeOK
  <2> QED BY <1>5, <2>1, <2>2
          DEF StreamEvent, uploader, WakeInv, Waiting, Closed, AtWork, NobodyIsForgotten
<1>6. CASE Close
  BY <1>6, EmptySeq DEF Close, uploader, WakeInv, Waiting, Closed, AtWork, NobodyIsForgotten
<1>7. CASE UploaderCloses
  <2>1. calls' = Resolved(TRUE, TRUE) /\ buffer' = buffer /\ Closed'
    BY <1>7 DEF UploaderCloses, Closed
  <2> QED BY <2>1, ResolvedWaits DEF WakeInv
<1>8. CASE UNCHANGED vars
  BY <1>8 DEF vars, uploader, WakeInv, Waiting, Closed, AtWork, NobodyIsForgotten
<1> QED BY <1>1, <1>2, <1>3, <1>4, <1>5, <1>6, <1>7, <1>8 DEF Next, PostEnds

\* Whatever the server answers and however the calls interleave: while someone
\* waits for room or for the queue to drain, the drain loop is at work.
THEOREM WakeUpsAreNotLost == Spec => []NobodyIsForgotten
<1>1. Init => WakeInv
  <2> SUFFICES ASSUME Init PROVE WakeInv
    OBVIOUS
  <2>1. TypeOK /\ DrainOK /\ Len(<<>>) = 0
    BY InitTyped, EmptySeq
  <2>2. \A c \in Calls : calls[c].st = "unused"
    BY DEF Init, Unused
  <2> QED BY <2>1, <2>2, SizesAssumption DEF Init, WakeInv, Waiting, AtWork, NobodyIsForgotten
<1>2. WakeInv => NobodyIsForgotten
  BY DEF WakeInv, NobodyIsForgotten
<1> QED BY <1>1, <1>2, WakeStep, PTL DEF Spec

-----------------------------------------------------------------------------
(* No message is handed over twice, so the server gets its news in order.  *)

Distinct(s) == \A i, j \in DOMAIN s : s[i] = s[j] => i = j

\* What is known of every implementation of MessageFeed.
Server == INSTANCE MessageFeedProofs WITH feed <- pushed, upto <- answered, got <- log, S <- Messages

\* The messages of every place are distinct, and no message is in two places.
OnceInv ==
    /\ TypeOK /\ DrainOK
    /\ Distinct(pushed) /\ Distinct(buffer)
    /\ Range(pushed) \cap Range(buffer) = {}
    /\ \A m \in Range(pushed) \cup Range(buffer) : m <= made
    /\ \A c \in Calls : Waiting(c) =>
          /\ Distinct(calls[c].items)
          /\ Items(c) \cap (Range(pushed) \cup Range(buffer)) = {}
          /\ \A m \in Items(c) : m <= made
          /\ \A d \in Calls \ {c} : Waiting(d) => Items(c) \cap Items(d) = {}

LEMMA DistinctConcat ==
    ASSUME NEW q \in Seq(Messages), NEW r \in Seq(Messages), NEW s, s = q \o r,
           Distinct(q), Distinct(r), Range(q) \cap Range(r) = {}
    PROVE  Distinct(s)
<1>1. /\ Len(q) \in Nat /\ Len(r) \in Nat /\ DOMAIN q = 1..Len(q) /\ DOMAIN r = 1..Len(r)
      /\ s \in Seq(Messages) /\ Len(s) = Len(q) + Len(r) /\ DOMAIN s = 1..Len(s)
      /\ \A i \in 1..(Len(q) + Len(r)) : s[i] = IF i <= Len(q) THEN q[i] ELSE r[i - Len(q)]
  BY ConcatProperties, LenProperties
<1>2. /\ \A i \in 1..Len(q) : q[i] \in Range(q)
      /\ \A i \in 1..Len(r) : r[i] \in Range(r)
  BY Ranges
<1> SUFFICES ASSUME NEW i \in 1..Len(s), NEW j \in 1..Len(s), s[i] = s[j] PROVE i = j
  BY <1>1 DEF Distinct
<1>3. CASE i <= Len(q) /\ j <= Len(q)
  <2>1. i \in 1..Len(q) /\ j \in 1..Len(q) /\ q[i] = q[j]
    BY <1>1, <1>3
  <2> QED BY <1>1, <2>1 DEF Distinct
<1>4. CASE i <= Len(q) /\ ~(j <= Len(q))
  <2>1. i \in 1..Len(q) /\ j - Len(q) \in 1..Len(r) /\ q[i] = r[j - Len(q)]
    BY <1>1, <1>4
  <2> QED BY <1>2, <2>1
<1>5. CASE ~(i <= Len(q)) /\ j <= Len(q)
  <2>1. j \in 1..Len(q) /\ i - Len(q) \in 1..Len(r) /\ q[j] = r[i - Len(q)]
    BY <1>1, <1>5
  <2> QED BY <1>2, <2>1
<1>6. CASE ~(i <= Len(q)) /\ ~(j <= Len(q))
  <2>1. i - Len(q) \in 1..Len(r) /\ j - Len(q) \in 1..Len(r) /\ r[i - Len(q)] = r[j - Len(q)]
    BY <1>1, <1>6
  <2>2. i - Len(q) = j - Len(q)
    BY <1>1, <2>1 DEF Distinct
  <2> QED BY <1>1, <2>2
<1> QED BY <1>3, <1>4, <1>5, <1>6

LEMMA DistinctAppend ==
    ASSUME NEW q \in Seq(Messages), NEW e \in Messages, NEW s, s = Append(q, e),
           Distinct(q), e \notin Range(q)
    PROVE  Distinct(s)
<1>1. /\ Len(q) \in Nat /\ DOMAIN q = 1..Len(q)
      /\ s \in Seq(Messages) /\ Len(s) = Len(q) + 1 /\ DOMAIN s = 1..Len(s)
      /\ \A i \in 1..Len(q) : s[i] = q[i]
      /\ s[Len(q) + 1] = e
  BY AppendProperties, LenProperties
<1>2. \A i \in 1..Len(q) : q[i] \in Range(q)
  BY Ranges
<1>3. \A i \in 1..Len(s) : i \in 1..Len(q) \/ i = Len(q) + 1
  BY <1>1
<1> QED BY <1>1, <1>2, <1>3 DEF Distinct

\* A call of enqueue, with items that are nowhere else.
LEMMA EnqueueOnce ==
    ASSUME OnceInv, TypeOK', DrainOK', NEW c \in Calls, NEW call \in CallRecord, Enqueue(c, call),
           \A m \in Messages : m <= made => m <= made',
           Distinct(buffer'), Range(buffer') \subseteq Range(buffer),
           Distinct(call.items), \A m \in Range(call.items) : m <= made',
           Range(call.items) \cap (Range(pushed) \cup Range(buffer')) = {},
           \A d \in Calls \ {c} : Waiting(d) => Range(call.items) \cap Items(d) = {}
    PROVE  OnceInv'
<1>1. /\ calls \in [Calls -> CallRecord] /\ pushed \in Seq(Messages) /\ call.items \in Seq(Messages)
      /\ Range(pushed) \subseteq Messages /\ Range(buffer) \subseteq Messages
      /\ \A d \in Calls : Items(d) \subseteq Messages
  BY PlacesTyped DEF OnceInv, TypeOK, CallRecord
<1>2. /\ calls'[c].items = call.items /\ \A d \in Calls \ {c} : calls'[d] = calls[d]
      /\ \/ pushed' = pushed
         \/ pushed' = pushed \o call.items /\ calls'[c].st \in {"flushing", "done"}
  <2>1. CASE Closed
    BY <1>1, <2>1 DEF Enqueue, history, Returned, CallRecord, Push
  <2>2. CASE ~Closed
    <3>1. CASE ~Fits(call.items)
      <4>1. calls' = [calls EXCEPT ![c] = [call EXCEPT !.st = "blocked"]]
            /\ UNCHANGED <<uploader, history>>
        BY <2>2, <3>1, EnqueueOpen, Zenon
      <4> QED BY <1>1, <4>1 DEF history, CallRecord
    <3>2. CASE Fits(call.items)
      <4>1. calls' = [calls EXCEPT ![c] = Returned(call, FALSE)] /\ Push(call.items)
        BY <2>2, <3>2, EnqueueOpen, Zenon
      <4> QED BY <1>1, <4>1 DEF Push, CallRecord, Returned
    <3> QED BY <3>1, <3>2
  <2> QED BY <2>1, <2>2
<1>3. /\ Items(c)' = Range(call.items)
      /\ \A d \in Calls \ {c} : (Waiting(d)' <=> Waiting(d)) /\ Items(d)' = Items(d)
  BY <1>2 DEF Items, Waiting
<1>4. /\ Distinct(pushed')
      /\ \/ Range(pushed') = Range(pushed)
         \/ Range(pushed') = Range(pushed) \cup Range(call.items) /\ ~Waiting(c)'
  <2>1. CASE pushed' = pushed
    BY <2>1 DEF OnceInv
  <2>2. CASE pushed' = pushed \o call.items /\ calls'[c].st \in {"flushing", "done"}
    <3>1. /\ Distinct(pushed) /\ Distinct(call.items)
          /\ Range(pushed) \cap Range(call.items) = {}
      BY DEF OnceInv
    <3>2. Distinct(pushed')
      <4>1. \A s : s = pushed \o call.items => Distinct(s)
        BY <1>1, <3>1, DistinctConcat
      <4> HIDE DEF Distinct
      <4>2. Distinct(pushed \o call.items)
        BY <4>1
      <4> QED BY <2>2, <4>2 DEF Distinct
    <3>3. Range(pushed') = Range(pushed) \cup Range(call.items) /\ ~Waiting(c)'
      BY <1>1, <2>2, Ranges DEF Waiting
    <3> QED BY <3>2, <3>3
  <2> QED BY <1>2, <2>1, <2>2
<1>5. /\ Range(pushed') \cap Range(buffer') = {}
      /\ \A m \in Range(pushed') \cup Range(buffer') : m <= made'
  BY <1>1, <1>4 DEF OnceInv
<1>6. ASSUME NEW d \in Calls, Waiting(d)'
      PROVE  /\ Distinct(calls'[d].items)
             /\ Items(d)' \cap (Range(pushed') \cup Range(buffer')) = {}
             /\ \A m \in Items(d)' : m <= made'
             /\ \A e \in Calls \ {d} : Waiting(e)' => Items(d)' \cap Items(e)' = {}
  <2>1. CASE d = c
    <3>1. Range(pushed') = Range(pushed)
      BY <1>4, <1>6, <2>1
    <3>2. \A e \in Calls \ {c} : Waiting(e)' => Items(c)' \cap Items(e)' = {}
      BY <1>3
    <3> QED BY <1>2, <1>3, <2>1, <3>1, <3>2
  <2>2. CASE d # c
    <3>1. calls'[d] = calls[d] /\ Waiting(d) /\ Items(d)' = Items(d) /\ d \in Calls \ {c}
      BY <1>2, <1>3, <1>6, <2>2
    <3>2. /\ Distinct(calls[d].items)
          /\ Items(d) \cap (Range(pushed) \cup Range(buffer)) = {}
          /\ \A m \in Items(d) : m <= made
          /\ \A e \in Calls \ {d} : Waiting(e) => Items(d) \cap Items(e) = {}
      BY <3>1 DEF OnceInv
    <3>3. Items(d) \cap Range(call.items) = {}
      BY <3>1
    <3>4. Items(d)' \cap (Range(pushed') \cup Range(buffer')) = {}
      BY <1>4, <3>1, <3>2, <3>3
    <3>5. \A e \in Calls \ {d} : Waiting(e)' => Items(d)' \cap Items(e)' = {}
      BY <1>3, <3>1, <3>2, <3>3
    <3>6. \A m \in Items(d)' : m <= made'
      BY <1>1, <3>1, <3>2
    <3> QED BY <3>1, <3>2, <3>4, <3>5, <3>6
  <2> QED BY <2>1, <2>2
<1> QED BY <1>4, <1>5, <1>6 DEF OnceInv

LEMMA CallOnce ==
    ASSUME OnceInv, NEW c \in Calls, Write(c) \/ TimerFires(c) \/ LookAgain(c)
    PROVE  OnceInv'
<1>1. /\ TypeOK /\ made \in 0..MaxMessages /\ MaxMessages \in Nat /\ buffer \in Seq(Messages)
      /\ Range(buffer) \subseteq Messages /\ Range(pushed) \subseteq Messages
      /\ \A d \in Calls : calls[d] \in CallRecord /\ Items(d) \subseteq Messages
      /\ Range(<<>>) = {} /\ Messages \subseteq Nat
  BY SizesAssumption, PlacesTyped, Ranges DEF OnceInv, TypeOK
<1>2. TypeOK' /\ DrainOK'
  BY CallTyped DEF OnceInv
<1>3. Distinct(<<>>)
  BY EmptySeq DEF Distinct
<1>4. CASE Write(c)
  <2> DEFINE items == Append(buffer, made + 1)
             call == NewCall(items, TRUE)
  <2>1. /\ made + 1 \in Messages /\ made' = made + 1 /\ buffer' = <<>>
        /\ Enqueue(c, call) /\ ~Waiting(c)
    BY <1>1, <1>4 DEF Write, Call, NewCall, Messages, Waiting
  <2>2. /\ items \in Seq(Messages) /\ Range(items) = Range(buffer) \cup {made + 1}
    BY <1>1, <2>1, AppendedRange
  <2>3. call \in CallRecord /\ call.items = items
    BY <1>1, <2>2, NewCallTyped DEF NewCall
  <2>4. \A m \in Messages : m <= made => m <= made' /\ m # made + 1
    BY <1>1, <2>1
  <2>5. made + 1 \notin Range(buffer) \cup Range(pushed)
    BY <1>1, <2>4 DEF OnceInv
  <2>6. \A d \in Calls : Waiting(d) => made + 1 \notin Items(d)
    BY <1>1, <2>4 DEF OnceInv
  <2>7. Distinct(items)
    BY <1>1, <2>1, <2>5, DistinctAppend DEF OnceInv
  <2> HIDE DEF call, items
  <2>8. \A m \in Range(items) : m <= made'
    <3>1. \A m \in Range(buffer) : m <= made'
      BY <1>1, <2>4 DEF OnceInv
    <3>2. made + 1 <= made'
      BY <1>1, <2>1
    <3> QED BY <2>2, <3>1, <3>2
  <2>9. Range(items) \cap (Range(pushed) \cup Range(buffer')) = {}
    BY <1>1, <2>1, <2>2, <2>5 DEF OnceInv
  <2>10. \A d \in Calls \ {c} : Waiting(d) => Range(items) \cap Items(d) = {}
    BY <2>2, <2>6 DEF OnceInv
  <2>11. Distinct(buffer') /\ Range(buffer') \subseteq Range(buffer)
    BY <1>1, <1>3, <2>1
  <2> QED BY <1>2, <2>1, <2>3, <2>4, <2>7, <2>8, <2>9, <2>10, <2>11, EnqueueOnce
<1>5. CASE TimerFires(c)
  <2> DEFINE call == NewCall(buffer, FALSE)
  <2>1. /\ made' = made /\ buffer' = <<>> /\ Enqueue(c, call)
    BY <1>5 DEF TimerFires, Call, NewCall
  <2>2. call \in CallRecord /\ call.items = buffer
    BY <1>1, NewCallTyped DEF NewCall
  <2> HIDE DEF call
  <2>3. \A d \in Calls \ {c} : Waiting(d) => Range(buffer) \cap Items(d) = {}
    BY DEF OnceInv
  <2>4. /\ Distinct(buffer) /\ \A m \in Range(buffer) : m <= made'
        /\ Range(buffer) \cap (Range(pushed) \cup Range(buffer')) = {}
        /\ Distinct(buffer') /\ Range(buffer') \subseteq Range(buffer)
    BY <1>1, <1>3, <2>1 DEF OnceInv
  <2> QED BY <1>2, <2>1, <2>2, <2>3, <2>4, EnqueueOnce
<1>6. CASE LookAgain(c)
  <2> DEFINE call == calls[c]
  <2>1. /\ made' = made /\ buffer' = buffer /\ Enqueue(c, call) /\ Waiting(c)
        /\ call \in CallRecord /\ Range(call.items) = Items(c)
    BY <1>1, <1>6 DEF LookAgain, Waiting, Items
  <2>2. /\ Distinct(call.items) /\ \A m \in Items(c) : m <= made'
        /\ Items(c) \cap (Range(pushed) \cup Range(buffer')) = {}
        /\ \A d \in Calls \ {c} : Waiting(d) => Items(c) \cap Items(d) = {}
        /\ Distinct(buffer') /\ Range(buffer') \subseteq Range(buffer)
    BY <2>1 DEF OnceInv
  <2> HIDE DEF call
  <2> QED BY <1>2, <2>1, <2>2, EnqueueOnce
<1> QED BY <1>4, <1>5, <1>6

\* A step that hands nothing over, and leaves at most fewer to be handed over.
LEMMA QuietOnce ==
    ASSUME OnceInv, TypeOK', DrainOK', pushed' = pushed, made' = made,
           buffer' = buffer \/ buffer' = <<>>,
           \A c \in Calls : (Waiting(c)' <=> Waiting(c)) /\ calls'[c].items = calls[c].items
    PROVE  OnceInv'
<1>1. \A c \in Calls : Items(c)' = Items(c)
  BY DEF Items
<1>2. Distinct(buffer') /\ Range(buffer') \subseteq Range(buffer)
  <2>1. Range(<<>>) = {} /\ Distinct(<<>>)
    BY Ranges, EmptySeq DEF Distinct
  <2> QED BY <2>1 DEF OnceInv
<1> QED BY <1>1, <1>2 DEF OnceInv

LEMMA OnceStep == OnceInv /\ [Next]_vars => OnceInv'
<1> SUFFICES ASSUME OnceInv, [Next]_vars PROVE OnceInv'
  OBVIOUS
<1>1. TypeOK /\ TypeOK' /\ DrainOK'
  BY StepTyped DEF OnceInv
<1>2. ASSUME NEW release \in BOOLEAN, NEW drained \in BOOLEAN, calls' = Resolved(release, drained)
      PROVE  \A c \in Calls : (Waiting(c)' <=> Waiting(c)) /\ calls'[c].items = calls[c].items
  BY <1>1, <1>2, ResolvedCalls DEF Waiting
<1>3. CASE StreamEvent
  <2>1. /\ made' = made + 1 /\ buffer' = Append(buffer, made + 1) /\ pushed' = pushed /\ calls' = calls
        /\ made + 1 \in Messages /\ made \in Nat
    BY <1>1, <1>3, SizesAssumption DEF StreamEvent, history, Messages, TypeOK
  <2>2. /\ Range(buffer) \subseteq Messages /\ Range(pushed) \subseteq Messages
        /\ \A d \in Calls : Items(d) \subseteq Messages
        /\ buffer \in Seq(Messages) /\ Messages \subseteq Nat
    BY <1>1, PlacesTyped DEF TypeOK
  <2>3. \A m \in Messages : m <= made => m <= made' /\ m # made + 1
    BY <2>1, <2>2
  <2>4. Range(buffer') = Range(buffer) \cup {made + 1}
    BY <2>1, <2>2, AppendedRange
  <2>5. made + 1 \notin Range(buffer) \cup Range(pushed)
    BY <2>2, <2>3 DEF OnceInv
  <2>6. Distinct(buffer')
    BY <2>1, <2>2, <2>5, DistinctAppend DEF OnceInv
  <2>7. \A d \in Calls : Waiting(d) => made + 1 \notin Items(d)
    BY <2>2, <2>3 DEF OnceInv
  <2>8. made + 1 <= made'
    BY <2>1
  <2>9. \A c \in Calls : (Waiting(c)' <=> Waiting(c)) /\ Items(c)' = Items(c)
    BY <2>1 DEF Waiting, Items
  <2>10. \A m \in Range(pushed') \cup Range(buffer') : m <= made'
    BY <2>1, <2>2, <2>3, <2>4, <2>8 DEF OnceInv
  <2>11. ASSUME NEW c \in Calls, Waiting(c)
         PROVE  /\ Distinct(calls'[c].items)
                /\ Items(c) \cap (Range(pushed') \cup Range(buffer')) = {}
                /\ \A m \in Items(c) : m <= made'
                /\ \A d \in Calls \ {c} : Waiting(d) => Items(c) \cap Items(d) = {}
    BY <2>1, <2>2, <2>3, <2>4, <2>7, <2>11 DEF OnceInv
  <2>12. Range(pushed') \cap Range(buffer') = {} /\ Distinct(pushed')
    BY <2>1, <2>4, <2>5 DEF OnceInv
  <2> QED BY <1>1, <2>6, <2>9, <2>10, <2>11, <2>12 DEF OnceInv
<1>4. CASE \E c \in Calls : Write(c) \/ TimerFires(c) \/ LookAgain(c)
  BY <1>4, CallOnce
<1>5. CASE PostReturns \/ BatchDropped
  <2>1. GoOn(TRUE) /\ pushed' = pushed /\ made' = made /\ buffer' = buffer
    BY <1>5 DEF PostReturns, BatchDropped
  <2>2. PICK drained \in BOOLEAN : calls' = Resolved(TRUE, drained)
    BY <1>1, <2>1, GoOnSteps
  <2> QED BY <1>1, <1>2, <2>1, <2>2, QuietOnce
<1>6. CASE PauseEnds
  <2>0. GoOn(FALSE)
    BY <1>6 DEF PauseEnds
  <2>1. pushed' = pushed /\ made' = made /\ buffer' = buffer
    BY <1>6 DEF PauseEnds, history
  <2>2. PICK drained \in BOOLEAN : calls' = Resolved(FALSE, drained)
    BY <1>1, <2>0, GoOnSteps
  <2> QED BY <1>1, <1>2, <2>1, <2>2, QuietOnce
<1>7. CASE UploaderCloses
  <2>1. /\ calls' = Resolved(TRUE, TRUE) /\ pushed' = pushed /\ made' = made /\ buffer' = buffer
    BY <1>7 DEF UploaderCloses, history
  <2> QED BY <1>1, <1>2, <2>1, QuietOnce
<1>8. CASE PostFails \/ Close \/ UNCHANGED vars
  <2>1. /\ calls' = calls /\ pushed' = pushed /\ made' = made
        /\ buffer' = buffer \/ buffer' = <<>>
    BY <1>8 DEF PostFails, Close, vars, history
  <2> QED BY <1>1, <2>1, QuietOnce DEF Waiting
<1> QED BY <1>3, <1>4, <1>5, <1>6, <1>7, <1>8 DEF Next, PostEnds

\* However the calls interleave, and whatever is sent again: nothing comes to
\* the server as news after a message that was handed over later.
THEOREM NewsReachTheServerInOrder == Spec => []Feed!NewsInOrder
<1>1. Init => OnceInv
  <2>1. Range(<<>>) = {} /\ DOMAIN <<>> = {}
    BY Ranges, EmptySeq
  <2>2. Init => \A c \in Calls : ~Waiting(c)
    BY DEF Init, Unused, Waiting
  <2> QED BY <2>1, <2>2, InitTyped DEF Init, OnceInv, Distinct
<1>2. OnceInv => Server!Accepted
  BY DEF OnceInv, Server!Accepted, Distinct, TypeOK
<1>3. Server!Spec <=> Feed!Spec
  BY DEF Server!Spec, Feed!Spec, Server!Init, Feed!Init, Server!Next, Feed!Next, Server!vars, Feed!vars,
     Server!Accept, Server!Deliver, Server!Answer, Feed!Accept, Feed!Deliver, Feed!Answer
<1>4. Server!NewsInOrder <=> Feed!NewsInOrder
  BY DEF Server!NewsInOrder, Feed!NewsInOrder
<1>5. Server!Spec /\ []Server!Accepted => []Server!NewsInOrder
  BY Server!NewsComeInOrder
<1> QED BY <1>1, <1>2, <1>3, <1>4, <1>5, OnceStep, UploaderImplementsFeed, PTL DEF Spec, ImplementsFeed
=============================================================================
