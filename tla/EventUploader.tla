--------------------------- MODULE EventUploader ---------------------------
(***************************************************************************)
(* HybridTransport's write path (cc-haha/src/cli/transports/): stream      *)
(* events wait in a buffer for a timer or the next write, writes go to a   *)
(* SerialBatchEventUploader, which posts batches one at a time, retries,   *)
(* drops a batch after maxConsecutiveFailures, holds callers back when its *)
(* queue is full, and tells them when it has drained.  close() grants a    *)
(* grace period.                                                           *)
(*                                                                         *)
(* Messages are numbered in the order they are written.  One thread: an    *)
(* action is what runs between two awaits.  A promise that is resolved     *)
(* runs its continuation later: where that looks at the queue again, the   *)
(* model lets other actions come between.                                  *)
(***************************************************************************)
EXTENDS Naturals, Sequences, FiniteSets, SequencesExt

CONSTANTS MaxQueueSize, MaxBatchSize,
          MaxConsecutiveFailures,
          MaxBurst,     \* bound: stream events between two timers
          MaxMessages,  \* bound: messages written
          MaxCalls      \* bound: calls of enqueue

\* A burst must fit with the write that takes it along: the code sets the
\* queue's size for that.
ASSUME SizesAssumption ==
    /\ MaxQueueSize \in Nat /\ MaxBatchSize \in Nat \ {0}
    /\ MaxConsecutiveFailures \in Nat \ {0}
    /\ MaxBurst \in Nat /\ MaxBurst < MaxQueueSize
    /\ MaxMessages \in Nat /\ MaxCalls \in Nat

VARIABLES made,      \* messages written so far
          buffer,    \* streamEventBuffer
          pending,   \* the queue
          batch,     \* in the POST under way
          drain,     \* the drain loop
          failures,
          dropped,   \* droppedBatches
          phase,     \* the transport: open, in its grace period, closed
          calls,     \* the calls of enqueue, and of the flush after it
          pushed,    \* history: what entered the queue, in order
          answered,  \* history: how much of it was delivered or given up
          refused,   \* history: refused by the server for good
          log        \* what the server received, repetitions included

uploader == <<pending, batch, drain, failures, dropped>>
history  == <<pushed, answered, refused, log>>
vars     == <<made, buffer, uploader, phase, calls, history>>

-----------------------------------------------------------------------------
Messages == 1..MaxMessages
Calls    == 1..MaxCalls

\* after: droppedBatches when the call was made.  flush: it waits for the queue to drain.
CallRecord == [st : {"unused", "blocked", "woken", "flushing", "done"},
               items : Seq(Messages), flush : BOOLEAN, after : Nat]
Unused == [st |-> "unused", items |-> <<>>, flush |-> FALSE, after |-> 0]

TypeOK ==
    /\ made \in 0..MaxMessages /\ buffer \in Seq(Messages)
    /\ pending \in Seq(Messages) /\ batch \in Seq(Messages)
    /\ drain \in {"idle", "posting", "sleeping"}
    /\ failures \in 0..(MaxConsecutiveFailures - 1) /\ dropped \in Nat
    /\ phase \in {"open", "grace", "closed"}
    /\ calls \in [Calls -> CallRecord]
    /\ pushed \in Seq(Messages) /\ answered \in Nat
    /\ refused \subseteq Messages /\ log \in Seq(Messages)

Init ==
    /\ made = 0 /\ buffer = <<>> /\ pending = <<>> /\ batch = <<>>
    /\ drain = "idle" /\ failures = 0 /\ dropped = 0
    /\ phase = "open" /\ calls = [c \in Calls |-> Unused]
    /\ pushed = <<>> /\ answered = 0 /\ refused = {} /\ log = <<>>

Closed == phase = "closed"
\* Mutant: looks whether there is room, not for how many.
Fits_One(items) == Len(pending) < MaxQueueSize

Fits(items) == Len(pending) + Len(items) <= MaxQueueSize

\* takeBatch
First(q) == IF Len(q) < MaxBatchSize THEN Len(q) ELSE MaxBatchSize

-----------------------------------------------------------------------------
(* Callers.                                                                *)

\* The queue takes items; an idle drain loop starts with them at once.
Push(items) ==
    LET q == pending \o items
    IN  /\ pushed' = pushed \o items
        /\ IF drain = "idle"
           THEN /\ batch' = SubSeq(q, 1, First(q))
                /\ pending' = SubSeq(q, First(q) + 1, Len(q))
                /\ drain' = "posting" /\ failures' = 0
           ELSE pending' = q /\ UNCHANGED <<batch, drain, failures>>
        /\ UNCHANGED <<dropped, answered, refused, log>>

\* What follows enqueue, before any answer of the network: a write waits in
\* flush() for the queue to drain, unless there is nothing to wait for.
Returned(call, drained) ==
    [call EXCEPT !.st = IF call.flush /\ ~drained THEN "flushing" ELSE "done"]

\* enqueue, up to its first wait or its end.
Enqueue(c, call) ==
    \/ /\ Closed
       /\ calls' = [calls EXCEPT ![c] = Returned(call, pending = <<>> /\ drain = "idle")]
       /\ UNCHANGED <<uploader, history>>
    \/ /\ ~Closed /\ ~Fits(call.items)
       /\ calls' = [calls EXCEPT ![c] = [call EXCEPT !.st = "blocked"]]
       /\ UNCHANGED <<uploader, history>>
    \/ /\ ~Closed /\ Fits(call.items)
       /\ calls' = [calls EXCEPT ![c] = Returned(call, FALSE)]
       /\ Push(call.items)

Call(c, items, flush) ==
    /\ calls[c].st = "unused" /\ \A d \in 1..(c - 1) : calls[d].st # "unused"
    /\ Enqueue(c, [st |-> "done", items |-> items, flush |-> flush, after |-> dropped])

\* write: a stream event is only buffered, ...
StreamEvent ==
    /\ made < MaxMessages /\ Len(buffer) < MaxBurst
    /\ made' = made + 1 /\ buffer' = Append(buffer, made + 1)
    /\ UNCHANGED <<uploader, phase, calls, history>>

\* Mutant: the buffered stream events are left to their timer.
Write_Alone(c) ==
    /\ made < MaxMessages /\ made' = made + 1
    /\ Call(c, <<made + 1>>, TRUE)
    /\ UNCHANGED <<buffer, phase>>

\* ... any other message takes along what is buffered.
Write(c) ==
    /\ made < MaxMessages /\ made' = made + 1
    /\ Call(c, Append(buffer, made + 1), TRUE)
    /\ buffer' = <<>>
    /\ UNCHANGED phase

\* flushStreamEvents
TimerFires(c) ==
    /\ buffer # <<>>
    /\ Call(c, buffer, FALSE)
    /\ buffer' = <<>>
    /\ UNCHANGED <<made, phase>>

\* A caller held back was woken: it looks again.
LookAgain(c) ==
    /\ calls[c].st = "woken"
    /\ Enqueue(c, calls[c])
    /\ UNCHANGED <<made, buffer, phase>>

\* What a step of the uploader resolves: callers held back, waits for a flush.
Resolved(release, flushed) ==
    [c \in Calls |->
        IF release /\ calls[c].st = "blocked" THEN [calls[c] EXCEPT !.st = "woken"]
        ELSE IF flushed /\ calls[c].st = "flushing" THEN [calls[c] EXCEPT !.st = "done"]
        ELSE calls[c]]

-----------------------------------------------------------------------------
(* The drain loop.                                                         *)

\* Mutant: every batch wakes the flush waiters.
GoOn_Early(release) ==
    IF pending # <<>> /\ ~Closed
    THEN /\ batch' = SubSeq(pending, 1, First(pending))
         /\ pending' = SubSeq(pending, First(pending) + 1, Len(pending))
         /\ drain' = "posting"
         /\ calls' = Resolved(release, release)
    ELSE /\ batch' = <<>> /\ drain' = "idle" /\ UNCHANGED pending
         /\ calls' = Resolved(release, pending = <<>>)

\* The top of the loop: the next batch, or the end and the flush waiters.
GoOn(release) ==
    IF pending # <<>> /\ ~Closed
    THEN /\ batch' = SubSeq(pending, 1, First(pending))
         /\ pending' = SubSeq(pending, First(pending) + 1, Len(pending))
         /\ drain' = "posting"
         /\ calls' = Resolved(release, FALSE)
    ELSE /\ batch' = <<>> /\ drain' = "idle" /\ UNCHANGED pending
         /\ calls' = Resolved(release, pending = <<>>)

\* 2xx, or a refusal for good, which send() does not report.
PostReturns ==
    /\ drain = "posting"
    /\ \/ log' = log \o batch /\ UNCHANGED refused
       \/ refused' = refused \cup Range(batch) /\ UNCHANGED log
    /\ answered' = answered + Len(batch)
    /\ failures' = 0 /\ GoOn(TRUE)
    /\ UNCHANGED <<made, buffer, dropped, phase, pushed>>

\* 429, 5xx, no answer: the server may have taken the batch all the same.
Lost == log' \in {log, log \o batch}

\* Mutants: the batch goes to the back; a batch is never given up; a failure that
\* did not reach the server is not counted.
PostFails_Behind ==
    /\ drain = "posting" /\ failures + 1 < MaxConsecutiveFailures /\ Lost
    /\ failures' = failures + 1
    /\ pending' = pending \o batch /\ batch' = <<>> /\ drain' = "sleeping"
    /\ UNCHANGED <<made, buffer, dropped, phase, calls, pushed, answered, refused>>
PostFails_Forever ==
    /\ drain = "posting" /\ Lost
    /\ failures' = failures + 1
    /\ pending' = batch \o pending /\ batch' = <<>> /\ drain' = "sleeping"
    /\ UNCHANGED <<made, buffer, dropped, phase, calls, pushed, answered, refused>>

PostFails_Uncounted ==
    /\ drain = "posting" /\ failures + 1 < MaxConsecutiveFailures /\ Lost
    /\ failures' = IF log' = log THEN failures ELSE failures + 1
    /\ pending' = batch \o pending /\ batch' = <<>> /\ drain' = "sleeping"
    /\ UNCHANGED <<made, buffer, dropped, phase, calls, pushed, answered, refused>>

\* The batch goes back to the front; after a pause it is sent again.
PostFails ==
    /\ drain = "posting" /\ failures + 1 < MaxConsecutiveFailures /\ Lost
    /\ failures' = failures + 1
    /\ pending' = batch \o pending /\ batch' = <<>> /\ drain' = "sleeping"
    /\ UNCHANGED <<made, buffer, dropped, phase, calls, pushed, answered, refused>>

\* Mutant: the callers held back are not woken.
BatchDropped_Quiet ==
    /\ drain = "posting" /\ failures + 1 = MaxConsecutiveFailures /\ Lost
    /\ failures' = 0 /\ dropped' = dropped + 1
    /\ answered' = answered + Len(batch)
    /\ GoOn(FALSE)
    /\ UNCHANGED <<made, buffer, phase, pushed, refused>>

BatchDropped ==
    /\ drain = "posting" /\ failures + 1 = MaxConsecutiveFailures /\ Lost
    /\ failures' = 0 /\ dropped' = dropped + 1
    /\ answered' = answered + Len(batch)
    /\ GoOn(TRUE)
    /\ UNCHANGED <<made, buffer, phase, pushed, refused>>

PauseEnds ==
    /\ drain = "sleeping"
    /\ GoOn(FALSE)
    /\ UNCHANGED <<failures, made, buffer, dropped, phase, history>>

\* HybridTransport.close: buffered stream events are dropped, ...
Close ==
    /\ phase = "open" /\ phase' = "grace" /\ buffer' = <<>>
    /\ UNCHANGED <<made, uploader, calls, history>>

\* ... the uploader is closed once it has drained or the grace period is over.
UploaderCloses ==
    /\ phase = "grace" /\ phase' = "closed"
    /\ pending' = <<>> /\ calls' = Resolved(TRUE, TRUE)
    /\ UNCHANGED <<made, buffer, batch, drain, failures, dropped, history>>

PostEnds == PostReturns \/ PostFails \/ BatchDropped

Next ==
    \/ StreamEvent
    \/ \E c \in Calls : Write(c) \/ TimerFires(c) \/ LookAgain(c)
    \/ PostEnds \/ PauseEnds \/ Close \/ UploaderCloses

Spec == Init /\ [][Next]_vars

\* Continuations run, a POST ends (15 s), a pause ends.  The server may fail
\* every POST.
FairSpec ==
    /\ Spec /\ WF_vars(PostEnds) /\ WF_vars(PauseEnds)
    /\ \A c \in Calls : WF_vars(LookAgain(c))

-----------------------------------------------------------------------------
(* Properties.                                                             *)

\* The server sees what was accepted in that order; only the batch that is
\* not answered for can be seen again.
Feed == INSTANCE MessageFeed WITH feed <- pushed, upto <- answered, got <- log
ImplementsFeed == Feed!Spec

\* A write that returned was delivered.  If not, the server refused it, or the
\* count of dropped batches has moved since the write was made, which is how
\* the caller can tell; unless the transport was closed meanwhile.
WrittenMeansDelivered ==
    \A c \in Calls :
        calls[c].st = "done" /\ calls[c].flush /\ ~Closed =>
            \/ dropped > calls[c].after
            \/ \A i \in DOMAIN calls[c].items :
                    calls[c].items[i] \in Range(log) \cup refused

\* A message is overtaken only while it is held back by a full queue: a write
\* never passes the stream events before it.
NotOvertaken ==
    phase = "open" =>
        \A i, j \in Messages :
            i < j /\ j \in Range(pushed) =>
                \/ i \in Range(pushed)
                \/ \E c \in Calls : /\ calls[c].st \in {"blocked", "woken"}
                                    /\ i \in Range(calls[c].items)

\* A queue in use never holds more than its limit; only a batch that came back
\* may stand on top of it, until it is sent again.
QueueBounded ==
    ~Closed => Len(pending) <= MaxQueueSize + IF drain = "sleeping" THEN MaxBatchSize ELSE 0

\* No wake-up is lost: as long as a caller waits, for room or for the queue to
\* drain, the drain loop is at work, and it is the loop that wakes callers.
NobodyIsForgotten ==
    ~Closed => \A c \in Calls :
        calls[c].st \in {"blocked", "flushing"} => drain # "idle"

\* However the server fails, a caller is not held up for ever while the
\* transport is in use.
CallersReturn ==
    \A c \in Calls :
        calls[c].st \notin {"unused", "done"} ~> calls[c].st = "done" \/ Closed
=============================================================================
