----------------------------- MODULE ReplBridge -----------------------------
(***************************************************************************)
(* Remote Control of a terminal session (cc-haha/src/bridge/replBridge.ts, *)
(* v1 transports).  The bridge polls for work; each work item brings a     *)
(* fresh transport to the session, which first sends the history of the    *)
(* conversation and then the messages written meanwhile, held back by a    *)
(* gate (flushGate.ts).  When the connection is lost for good, doReconnect *)
(* revives the session or replaces it, while the poll loop goes on.        *)
(*                                                                         *)
(* Messages 1..History are the conversation at the start, the live ones    *)
(* follow.  One thread: an action is what runs between two awaits.  Of a   *)
(* transport's uploader the model keeps the queue, the batch on its way    *)
(* and the grace period; EventUploader has the rest.                       *)
(***************************************************************************)
EXTENDS Naturals, Sequences, FiniteSets, SequencesExt

CONSTANTS History,        \* initial messages
          HistoryCap,     \* initialHistoryCap; 0: none
          FlushedBefore,  \* previouslyFlushedUUIDs at the start: the REPL had a bridge before
          MaxLive,        \* bound: messages written while the bridge runs
          MaxTransports,  \* bound: work items dispatched
          MaxSessions,    \* bound: sessions created
          MaxFaults       \* bound: POSTs that fail or are refused, environments and leases lost

ASSUME BoundsAssumption ==
    /\ History \in Nat /\ HistoryCap \in Nat /\ MaxLive \in Nat
    /\ FlushedBefore \subseteq 1..History
    /\ MaxTransports \in Nat /\ MaxSessions \in Nat \ {0} /\ MaxFaults \in Nat

VARIABLES session,   \* currentSessionId; sessions 1..session were created
          transport, \* the current transport (0: null)
          work,      \* currentWorkId (0: null): the transport it brought, if any
          gate,      \* flushGate
          flushed,   \* previouslyFlushedUUIDs
          live,      \* live messages written so far
          handed,    \* live messages given to a transport, in order
          tr,        \* the transports
          used,      \* work items received so far
          poll,      \* the poll loop
          recon,     \* the run of doReconnect
          aborted,   \* pollController.signal
          torn,      \* the transport a teardown still has to close (0: none)
          received,  \* what the server received for each session, in order
          archived,  \* sessions archived
          faults

server == <<received, archived>>
loop   == <<poll, recon, aborted, torn>>
vars   == <<session, transport, work, gate, flushed, live, handed, tr, used,
            loop, server, faults>>

-----------------------------------------------------------------------------
Initial    == 1..History
Live       == (History + 1)..(History + MaxLive)
Msgs       == Initial \cup Live
Transports == 1..MaxTransports
Sessions   == 1..MaxSessions

\* flush: the writeBatch of the history.  pieces: what it carries; left: what the
\* cap left out of it.
\* drain: the uploader's loop; sent: the messages of the queue in its batch.
\* History of the uploader: what it accepted, how much of that is answered for
\* or given up, what the server got from it, repetitions included, and what was
\* refused for good.
TransportRecord ==
    [ws : {"unused", "connecting", "up", "closed"}, sess : Sessions,
     queue : Seq(Msgs), drain : {"idle", "posting", "sleeping"}, sent : Nat,
     arrived : BOOLEAN, flush : {"waiting", "running", "resolved", "done"},
     pieces : SUBSET Initial, lossy : BOOLEAN, grace : BOOLEAN, closed : BOOLEAN,
     pushed : Seq(Msgs), answered : Nat, got : Seq(Msgs),
     left : SUBSET Initial, refused : SUBSET Msgs]
Unused ==
    [ws |-> "unused", sess |-> 1, queue |-> <<>>, drain |-> "idle", sent |-> 0,
     arrived |-> FALSE, flush |-> "waiting", pieces |-> {}, lossy |-> FALSE,
     grace |-> FALSE, closed |-> FALSE, pushed |-> <<>>, answered |-> 0, got |-> <<>>,
     left |-> {}, refused |-> {}]
Fresh(s) == [Unused EXCEPT !.ws = "connecting", !.sess = s]

Reconnects == [pc : {"idle", "stopping", "registering", "inplace", "archiving",
                     "creating", "pointer"},
               work : 0..MaxTransports]
NoRecon == [pc |-> "idle", work |-> 0]
At(pc) == recon.pc = pc

TypeOK ==
    /\ session \in Sessions /\ transport \in 0..MaxTransports
    /\ work \in 0..MaxTransports /\ used \in 0..MaxTransports
    /\ gate \in [active : BOOLEAN, queue : Seq(Live)]
    /\ flushed \subseteq Initial /\ live \in 0..MaxLive /\ handed \in Seq(Live)
    /\ tr \in [Transports -> TransportRecord]
    /\ \A t \in Transports : tr[t].sent <= Len(tr[t].queue)
    /\ poll \in [st : {"polling", "acking", "lost"}, sess : 0..MaxSessions]
    /\ recon \in Reconnects /\ aborted \in BOOLEAN /\ torn \in 0..MaxTransports
    /\ received \in [Sessions -> Seq(Msgs)] /\ archived \subseteq Sessions
    /\ faults \in 0..MaxFaults

Init ==
    /\ session = 1 /\ transport = 0 /\ work = 0 /\ used = 0
    /\ gate = [active |-> FALSE, queue |-> <<>>]
    /\ flushed = FlushedBefore /\ live = 0 /\ handed = <<>>
    /\ tr = [t \in Transports |-> Unused]
    /\ poll = [st |-> "polling", sess |-> 0]
    /\ recon = NoRecon /\ aborted = FALSE /\ torn = 0
    /\ received = [s \in Sessions |-> <<>>] /\ archived = {}
    /\ faults = 0

\* The most recent messages of S, as many as the cap admits.
Recent(S) ==
    {h \in S : HistoryCap = 0 \/ Cardinality({g \in S : h < g}) < HistoryCap}

InOrder(S) ==
    CHOOSE s \in [1..Cardinality(S) -> S] :
        Range(s) = S /\ \A i, j \in DOMAIN s : i < j => s[i] < s[j]

Fault == faults < MaxFaults /\ faults' = faults + 1

-----------------------------------------------------------------------------
(* The transport: its uploader, and close() with its grace period.         *)

\* enqueue and the drain it kicks: an idle uploader posts at once.
Enqueue(r, msgs) ==
    IF r.closed \/ msgs = <<>> THEN r
    ELSE LET q == r.queue \o msgs
         IN  [r EXCEPT !.queue = q, !.pushed = @ \o msgs,
                       !.drain = IF @ = "idle" THEN "posting" ELSE @,
                       !.sent = IF r.drain = "idle" THEN Len(q) ELSE @]

\* Mutant: the batch is counted as on its way when the loop has ended.
Advance_NotReset(r) ==
    LET go == r.queue # <<>> /\ ~r.closed
    IN  [r EXCEPT !.drain = IF go THEN "posting" ELSE "idle",
                  !.sent = IF go THEN Len(r.queue) ELSE @,
                  !.arrived = FALSE,
                  !.flush = IF @ = "running" /\ r.queue = <<>> THEN "resolved" ELSE @]

\* The loop goes on with what is queued, or ends and wakes the flush.
Advance(r) ==
    LET go == r.queue # <<>> /\ ~r.closed
    IN  [r EXCEPT !.drain = IF go THEN "posting" ELSE "idle",
                  !.sent = IF go THEN Len(r.queue) ELSE 0,
                  !.arrived = FALSE,
                  !.flush = IF @ = "running" /\ r.queue = <<>> THEN "resolved" ELSE @]

Settled(r) == Advance([r EXCEPT !.queue = SubSeq(@, r.sent + 1, Len(@)),
                                !.answered = @ + r.sent])

Closing(r) == [r EXCEPT !.ws = "closed", !.grace = TRUE]
CloseOf(t, f) == IF t = 0 THEN f ELSE [f EXCEPT ![t] = Closing(@)]

PostArrives(t) ==
    LET r == tr[t]
        body == SubSeq(r.queue, 1, r.sent)
    IN  /\ r.drain = "posting" /\ ~r.arrived
        /\ r.sess \notin archived
        /\ tr' = [tr EXCEPT ![t].arrived = TRUE, ![t].got = @ \o body]
        /\ received' = [received EXCEPT ![r.sess] = @ \o body]
        /\ UNCHANGED <<session, transport, work, gate, flushed, live, handed, used,
                       loop, archived, faults>>

PostReturns(t) ==
    /\ tr[t].drain = "posting" /\ tr[t].arrived
    /\ tr' = [tr EXCEPT ![t] = Settled(@)]
    /\ UNCHANGED <<session, transport, work, gate, flushed, live, handed, used,
                   loop, server, faults>>

\* The server refuses for good (any 4xx but 429, as an archived session does), or
\* there is no token to send with: the batch is settled and nobody is told.
PostRefused(t) ==
    LET r == tr[t]
        body == SubSeq(r.queue, 1, r.sent)
    IN  /\ r.drain = "posting" /\ ~r.arrived
        /\ \/ r.sess \in archived /\ UNCHANGED faults
           \/ Fault
        /\ tr' = [tr EXCEPT ![t] = [Settled(r) EXCEPT !.refused = r.refused \cup Range(body)]]
        /\ UNCHANGED <<session, transport, work, gate, flushed, live, handed, used,
                       loop, server>>

\* Mutant: the batch goes to the back of the queue.
PostFails_Behind(t) ==
    /\ tr[t].drain = "posting" /\ Fault
    /\ tr' = [tr EXCEPT ![t].drain = "sleeping", ![t].sent = 0, ![t].arrived = FALSE,
                        ![t].queue = SubSeq(@, tr[t].sent + 1, Len(@))
                                     \o SubSeq(@, 1, tr[t].sent)]
    /\ UNCHANGED <<session, transport, work, gate, flushed, live, handed, used,
                   loop, server>>

\* The POST fails: the batch goes back to the front of the queue ...
PostFails(t) ==
    /\ tr[t].drain = "posting" /\ Fault
    /\ tr' = [tr EXCEPT ![t].drain = "sleeping", ![t].sent = 0, ![t].arrived = FALSE]
    /\ UNCHANGED <<session, transport, work, gate, flushed, live, handed, used,
                   loop, server>>

\* ... or it failed maxConsecutiveFailures times and is dropped.
BatchDropped(t) ==
    /\ tr[t].drain = "posting" /\ Fault
    /\ tr' = [tr EXCEPT ![t] = [Settled(@) EXCEPT !.lossy = TRUE]]
    /\ UNCHANGED <<session, transport, work, gate, flushed, live, handed, used,
                   loop, server>>

Retry(t) ==
    /\ tr[t].drain = "sleeping"
    /\ tr' = [tr EXCEPT ![t] = Advance(@)]
    /\ UNCHANGED <<session, transport, work, gate, flushed, live, handed, used,
                   loop, server, faults>>

\* uploader.close(): the grace period is over.  A batch on its way stays so.
UploaderCloses(t) ==
    /\ tr[t].grace /\ ~tr[t].closed
    /\ tr' = [tr EXCEPT ![t].closed = TRUE,
                        ![t].queue = SubSeq(@, 1, tr[t].sent),
                        ![t].flush = IF @ = "running" THEN "resolved" ELSE @]
    /\ UNCHANGED <<session, transport, work, gate, flushed, live, handed, used,
                   loop, server, faults>>

-----------------------------------------------------------------------------
(* The gate and what goes through it.                                      *)

OpenGate == [active |-> FALSE, queue |-> <<>>]
Queued == Range(gate.queue)

\* Mutant: the queue of the gate is not emptied (flushGate.end).
DrainInto_Kept(t, f) ==
    /\ gate' = [gate EXCEPT !.active = FALSE]
    /\ tr' = [f EXCEPT ![t] = Enqueue(@, gate.queue)]
    /\ handed' = handed \o gate.queue

\* drainFlushGate: what waited goes to the current transport, if there is one.
DrainInto(t, f) ==
    /\ gate' = OpenGate
    /\ tr' = [f EXCEPT ![t] = Enqueue(@, gate.queue)]
    /\ handed' = handed \o gate.queue

\* Mutant: with nothing to flush the gate is left as it is.
Connected_GateKept(t) ==
    LET pieces == Recent(Initial \ flushed)
        up     == [tr EXCEPT ![t].ws = "up"]
    IN  /\ tr[t].ws = "connecting" /\ transport = t
        /\ tr' = IF pieces = {} THEN [up EXCEPT ![t].flush = "done"]
                 ELSE [up EXCEPT ![t] = Enqueue([up[t] EXCEPT !.flush = "running",
                                                 !.pieces = pieces, !.lossy = FALSE,
                                                 !.left = (Initial \ flushed) \ pieces],
                                             InOrder(pieces))]
        /\ UNCHANGED <<gate, handed, session, transport, work, flushed, live, used, loop,
                       server, faults>>

\* The socket of t opens.  The latest of the history that was not flushed yet goes
\* out; what the cap leaves is eligible again when the next transport connects.
Connected(t) ==
    LET pieces == Recent(Initial \ flushed)
        up     == [tr EXCEPT ![t].ws = "up"]
    IN  /\ tr[t].ws = "connecting"
        /\ \/ /\ transport = t /\ pieces # {}
              /\ tr' = [tr EXCEPT ![t] = Enqueue([up[t] EXCEPT !.flush = "running",
                                                     !.pieces = pieces, !.lossy = FALSE,
                                                     !.left = (Initial \ flushed) \ pieces],
                                                 InOrder(pieces))]
              /\ UNCHANGED <<gate, handed>>
           \/ /\ transport = t /\ pieces = {}
              /\ DrainInto(t, [up EXCEPT ![t].flush = "done"])
        /\ UNCHANGED <<session, transport, work, flushed, live, used, loop, server, faults>>

\* Mutant: a flush that lost a batch returns before the gate is drained.
HistoryFlushed_LossyStops(t) ==
    LET done == [tr EXCEPT ![t].flush = "done"]
    IN  /\ tr[t].flush = "resolved"
        /\ flushed' = IF tr[t].lossy THEN flushed ELSE flushed \cup tr[t].pieces
        /\ IF transport = t /\ ~tr[t].lossy THEN DrainInto(t, done)
           ELSE tr' = done /\ UNCHANGED <<gate, handed>>
        /\ UNCHANGED <<session, transport, work, live, used, loop, server, faults>>

\* Mutant: the count of dropped batches is not looked at.
HistoryFlushed_Uncounted(t) ==
    LET done == [tr EXCEPT ![t].flush = "done"]
    IN  /\ tr[t].flush = "resolved"
        /\ flushed' = flushed \cup tr[t].pieces
        /\ IF transport = t THEN DrainInto(t, done)
           ELSE tr' = done /\ UNCHANGED <<gate, handed>>
        /\ UNCHANGED <<session, transport, work, live, used, loop, server, faults>>

\* The writeBatch of the history resolves: sent, dropped, or closed.
HistoryFlushed(t) ==
    LET done == [tr EXCEPT ![t].flush = "done"]
    IN  /\ tr[t].flush = "resolved"
        /\ flushed' = IF tr[t].lossy THEN flushed ELSE flushed \cup tr[t].pieces
        /\ IF transport = t THEN DrainInto(t, done)
           ELSE tr' = done /\ UNCHANGED <<gate, handed>>
        /\ UNCHANGED <<session, transport, work, live, used, loop, server, faults>>

\* writeMessages with the next live message.
WriteMessage ==
    LET m == History + live + 1
    IN  /\ live < MaxLive /\ live' = live + 1
        /\ \/ /\ gate.active
              /\ gate' = [gate EXCEPT !.queue = Append(@, m)]
              /\ UNCHANGED <<handed, tr>>
           \/ /\ ~gate.active /\ transport # 0
              /\ tr' = [tr EXCEPT ![transport] = Enqueue(@, <<m>>)]
              /\ handed' = Append(handed, m)
              /\ UNCHANGED gate
           \/ /\ ~gate.active /\ transport = 0
              /\ UNCHANGED <<gate, handed, tr>>
        /\ UNCHANGED <<session, transport, work, flushed, used, loop, server, faults>>

-----------------------------------------------------------------------------
(* The poll loop.                                                          *)

\* A work item; the server re-dispatches when it sees fit.
PollReturns(s) ==
    /\ poll.st = "polling" /\ ~aborted
    /\ s <= session
    /\ s \notin archived
    /\ poll' = [st |-> "acking", sess |-> s]
    /\ UNCHANGED <<session, transport, work, gate, flushed, live, handed, tr, used,
                   recon, aborted, torn, server, faults>>

\* Mutant: the gate is not put down for the new transport.
WorkReceived_NoGate ==
    LET t == used + 1
    IN  /\ poll.st = "acking"
        /\ poll' = [st |-> "polling", sess |-> 0]
        /\ poll.sess = session /\ used < MaxTransports
        /\ used' = t /\ work' = t /\ transport' = t
        /\ tr' = [CloseOf(transport, tr) EXCEPT ![t] = Fresh(session)]
        /\ UNCHANGED <<gate, session, flushed, live, handed, recon, aborted,
                       torn, server, faults>>

\* Acknowledged: onWorkReceived.  Work of another session is ignored; without an
\* OAuth token the work is current and nothing else is done about it.
WorkReceived ==
    LET t == used + 1
    IN  /\ poll.st = "acking"
        /\ poll' = [st |-> "polling", sess |-> 0]
        /\ \/ /\ poll.sess # session
              /\ UNCHANGED <<transport, work, gate, tr, used>>
           \/ /\ poll.sess = session /\ used < MaxTransports
              /\ used' = t /\ work' = t
              /\ UNCHANGED <<transport, gate, tr>>
           \/ /\ poll.sess = session /\ used < MaxTransports
              /\ used' = t /\ work' = t /\ transport' = t
              /\ tr' = [CloseOf(transport, tr) EXCEPT ![t] = Fresh(session)]
              /\ gate' = [gate EXCEPT !.active = History > 0]
        /\ UNCHANGED <<session, flushed, live, handed, recon, aborted,
                       torn, server, faults>>

\* The lease is gone: the transport is closed for a fast re-dispatch.
HeartbeatFatal ==
    /\ poll.st = "polling" /\ ~aborted /\ transport # 0 /\ work # 0
    /\ Fault
    /\ tr' = CloseOf(transport, tr)
    /\ transport' = 0 /\ work' = 0 /\ gate' = OpenGate
    /\ UNCHANGED <<session, flushed, live, handed, used, loop, server>>

-----------------------------------------------------------------------------
(* doReconnect: one run at a time, shared by its callers.                  *)

rest == <<session, flushed, live, handed, used, server>>

Start ==
    /\ At("idle")
    /\ recon' = [pc |-> IF work # 0 THEN "stopping" ELSE "registering", work |-> work]

\* Teardown drops the transport and the gate; it closes the transport later.
Tear(lost) ==
    /\ aborted' = TRUE /\ torn' = IF aborted THEN torn ELSE lost
    /\ transport' = 0 /\ gate' = OpenGate
KeepUp     == UNCHANGED <<aborted, torn, transport, gate>>
PollsAgain == poll' = [poll EXCEPT !.st = IF @ = "lost" THEN "polling" ELSE @]

Recovered == recon' = NoRecon /\ PollsAgain /\ KeepUp
GoTo(pc)  == recon' = [recon EXCEPT !.pc = pc] /\ KeepUp /\ UNCHANGED poll

\* false: the caller tears the bridge down, unless that has begun.
GiveUp ==
    /\ recon' = NoRecon /\ PollsAgain
    /\ IF aborted THEN KeepUp ELSE Tear(transport)

\* The socket of the current transport closed for good: the transport is
\* forgotten, not closed, and its uploader goes on.
PermanentClose ==
    /\ transport # 0 /\ tr[transport].ws # "closed"
    /\ tr' = [tr EXCEPT ![transport].ws = "closed"]
    /\ \/ Start /\ UNCHANGED <<aborted, torn>> /\ transport' = 0 /\ gate' = OpenGate
       \/ ~At("idle") /\ UNCHANGED <<recon, aborted, torn>>
          /\ transport' = 0 /\ gate' = OpenGate
       \/ \* close code 1000
          Tear(0) /\ UNCHANGED recon
    /\ UNCHANGED <<poll, work, faults, rest>>

\* A poll answers 404: the loop waits for doReconnect.
EnvironmentLost ==
    /\ poll.st = "polling" /\ ~aborted /\ Fault
    /\ \/ /\ Start /\ poll' = [poll EXCEPT !.st = "lost"]
          /\ tr' = CloseOf(transport, tr) /\ transport' = 0 /\ gate' = OpenGate
          /\ UNCHANGED <<aborted, torn>>
       \/ /\ ~At("idle") /\ poll' = [poll EXCEPT !.st = "lost"]
          /\ UNCHANGED <<recon, tr>> /\ KeepUp
    /\ UNCHANGED <<work, rest>>

\* stopWork of the captured work item returned; newer work means the poll
\* loop has recovered.
WorkStopped ==
    /\ At("stopping")
    /\ \/ work # recon.work /\ Recovered /\ UNCHANGED work
       \/ work = recon.work /\ work' = 0
          /\ IF aborted THEN GiveUp ELSE GoTo("registering")
    /\ UNCHANGED <<tr, faults, rest>>

\* registerBridgeEnvironment returned: the same environment, another, or none.
Registered ==
    /\ At("registering")
    /\ \/ GiveUp
       \/ ~aborted /\ transport # 0 /\ Recovered
       \/ ~aborted /\ transport = 0 /\ GoTo("inplace")
       \/ ~aborted /\ transport = 0 /\ GoTo("archiving")
    /\ UNCHANGED <<work, tr, faults, rest>>

\* reconnectSession returned, or failed (its answer may be what was lost).
ReconnectedInPlace ==
    /\ At("inplace")
    /\ Recovered \/ GoTo("archiving")
    /\ UNCHANGED <<work, tr, faults, rest>>

\* archiveSession returned.
SessionArchived ==
    /\ At("archiving")
    /\ archived' = archived \cup {session}
    /\ IF aborted THEN GiveUp ELSE GoTo("creating")
    /\ UNCHANGED <<work, tr, faults, session, flushed, live, handed, used, received>>

\* createSession returned: the bridge is on the new session at once, ...
SessionCreated ==
    /\ At("creating")
    /\ \/ GiveUp /\ UNCHANGED session
       \/ /\ ~aborted /\ session < MaxSessions
          /\ session' = session + 1 /\ GoTo("pointer")
    /\ UNCHANGED <<work, tr, faults, flushed, live, handed, used, server>>

\* ... what was flushed is forgotten once the crash pointer is written.
PointerWritten ==
    /\ At("pointer")
    /\ flushed' = {} /\ Recovered
    /\ UNCHANGED <<work, tr, faults, session, live, handed, used, server>>

\* The user, a fatal error of a poll, too many lost environments or a signal
\* tears the bridge down.
Teardown ==
    /\ ~aborted /\ Tear(transport)
    /\ UNCHANGED <<poll, recon, work, tr, faults, rest>>

\* stopWork and archiveSession returned: the transport is closed at last.
TeardownCloses ==
    /\ aborted
    /\ archived' = archived \cup {session}
    /\ tr' = CloseOf(torn, tr) /\ torn' = 0
    /\ UNCHANGED <<session, transport, work, gate, flushed, live, handed, used, poll,
                   recon, aborted, received, faults>>

-----------------------------------------------------------------------------
Uploader(t) == PostArrives(t) \/ PostReturns(t) \/ PostRefused(t) \/ PostFails(t)
               \/ BatchDropped(t) \/ Retry(t) \/ UploaderCloses(t)
Reconnecting == WorkStopped \/ Registered \/ ReconnectedInPlace \/ SessionArchived
                \/ SessionCreated \/ PointerWritten

Next ==
    \/ \E t \in Transports : Uploader(t) \/ Connected(t) \/ HistoryFlushed(t)
    \/ WriteMessage
    \/ \E s \in Sessions : PollReturns(s)
    \/ WorkReceived \/ HeartbeatFatal \/ PermanentClose \/ EnvironmentLost
    \/ Reconnecting \/ Teardown \/ TeardownCloses

Spec == Init /\ [][Next]_vars

\* The current transport goes on: a socket that connects opens or is given up (10
\* minutes of retries), a POST is answered within 15 s, a pause of the uploader
\* ends, and so does what awaited the flush.
GoesOn(t) ==
    \/ tr[t].ws = "connecting" /\ (Connected(t) \/ PermanentClose)
    \/ PostArrives(t) \/ PostReturns(t) \/ PostRefused(t) \/ Retry(t)
    \/ HistoryFlushed(t)
FairSpec == Spec /\ WF_vars(\E t \in Transports : transport = t /\ GoesOn(t))

-----------------------------------------------------------------------------
(* Properties.                                                             *)

\* The gate is down exactly while the current transport still owes the
\* history, so that nothing slips past a history that is still to come; and
\* whoever finds it down can count on somebody who will lift it: the socket
\* that connects, the uploader that works on the flush, or its continuation.
GateFollowsFlush ==
    /\ gate.active <=> History > 0 /\ transport # 0 /\ tr[transport].flush # "done"
    /\ gate.active =>
          /\ tr[transport].flush = "waiting" => tr[transport].ws = "connecting"
          /\ tr[transport].flush = "running" => /\ tr[transport].drain # "idle"
                                                /\ tr[transport].queue # <<>>

\* To its server every transport is a feed like the one of EventUploader: what
\* it accepted arrives in that order, whatever is retried, dropped or cut off.
Feed(t) == INSTANCE MessageFeed WITH feed <- tr[t].pushed, upto <- tr[t].answered,
                                     got <- tr[t].got
ImplementsFeeds ==
    /\ \A t \in Transports : Feed(t)!Init
    /\ [][\A t \in Transports : [Feed(t)!Next]_(Feed(t)!vars)]_vars

\* The count of dropped batches catches every history that was lost, but for
\* two ways: the uploader was closed on it, or its POST was refused for good.
\* Whatever else is marked as flushed, the session it was sent to received.
FlushedUnlessCutOff ==
    \A h \in flushed \ FlushedBefore : \E t \in Transports :
        /\ h \in tr[t].pieces
        /\ h \in Range(received[tr[t].sess]) \/ tr[t].closed \/ h \in tr[t].refused

\* What the user writes leaves in the order written and once, whatever became
\* of the transports: queued behind a flush, kept over a change of transport,
\* or sent directly.
LiveInOrder ==
    LET all == handed \o gate.queue
    IN  \A i, j \in DOMAIN all : i < j => all[i] < all[j]

\* A session's server receives a new message before, or without, a message of the
\* history only when a transport wrote that one off (the batch dropped or refused,
\* the uploader closed on it, or sent to another session), or when the cap left it
\* out of a flush to this session: it follows, late, with the next work item.
Before(log, m, h) ==
    \E i \in DOMAIN log : log[i] = m /\ \A j \in 1..i : log[j] # h
WrittenOff(h, s) ==
    \E t \in Transports :
        /\ h \in tr[t].pieces
        /\ tr[t].lossy \/ tr[t].closed \/ tr[t].sess # s \/ h \in tr[t].refused
LeftOut(h, s) == \E t \in Transports : tr[t].sess = s /\ h \in tr[t].left
HistoryFirst ==
    \A s \in Sessions, m \in Live, h \in Initial \ FlushedBefore :
        Before(received[s], m, h) => WrittenOff(h, s) \/ LeftOut(h, s)

\* What waits behind the gate does not wait for ever: the flush ends, or the
\* connection is given up and the messages with it.
GateDrains == []<>(gate.queue = <<>>)

\* "If any batch was dropped during this flush [...] the events were NOT
\* delivered.  Don't mark UUIDs as flushed -- keep them eligible for re-send":
\* what is marked has arrived somewhere, or is on its way.
FlushedWereDelivered ==
    ~aborted => \A h \in flushed \ FlushedBefore :
        \/ \E s \in Sessions : h \in Range(received[s])
        \/ \E t \in Transports : h \in Range(SubSeq(tr[t].queue, 1, tr[t].sent))

\* doReconnect defers to a poll loop that recovered "rather than proceeding to
\* archiveSession, which would destroy the session its new transport is
\* connected to".
TransportOnLiveSession ==
    transport # 0 /\ ~aborted => tr[transport].sess \notin archived
=============================================================================
