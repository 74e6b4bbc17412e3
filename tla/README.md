# Verification of the private fund research desk

TLA+ models, TLC runs and TLAPS proofs of the parts of this repository where
several parties work on one state and a test hardly reaches their interleavings:
the tracking of risks and catalysts and the memos it feeds on, the window a
browser tab keeps on a live session, and the way a terminal agent's messages
reach its remote session. All paths below are relative to `src/`; `tracking.py`
stands for `omnigent/omnigent/server/private_fund_tracking.py`, `chatStore.ts`
for `omnigent/web/src/store/chatStore.ts`, and `replBridge.ts` for
`cc-haha/src/bridge/replBridge.ts`.

## The system and its parts

The repository is a monorepo around one product, a research desk for a private
fund. Documents of a company are imported into a *dataset*, agents answer
questions and write memos from it, and background services keep the risks,
catalysts and valuations of the company up to date. One SQLite database per
dataset (`collection.db`, WAL mode) is shared by all of them.

| Component | Where | State it keeps | Operations | Who calls it | What is hard | What makes it correct |
|---|---|---|---|---|---|---|
| Tracking queue and worker | `tracking.py` 499-685, 2493-2728; `private_fund_tracking_worker.py` | `research_tracking_jobs`; the job a worker holds | enqueue, claim, complete, retry, recover, hourly scan | API server, memo tool, the worker itself | leases that expire under a running attempt, crashes between claim and result, lost enqueues, memos deleted under their job, upgrades | retries stay in budget, completed is final, every job settles, every current source is analysed |
| Tracking ledger | `tracking.py` 1903-2490, 2918-3460 | items, versions, change events, observations, watch rules, alerts | reconcile the candidates of an attempt, hourly scan, archive, restore, purge, edit rules and alerts | worker; user through the API server | a lookup outside the transaction that writes, handlers that commit half an attempt, selections validated in an earlier transaction | a judgement is revised and never rewritten; alerts lead to evidence; purging is complete; reminders are issued |
| Memo catalog | `tracking.py` 705-1196; `private_fund_dataset.py` 2338-2564; `private_fund_pdf.py` 4792-4847 | series and versions of memos, and their files | create, revise, register, backfill, clean-up, delete | memo tool, every page load, user | minutes between look-up and registration, backfill by stale lists, numbers given out again, files without rows after a crash | numbers, current version and lineage agree; nothing that was registered is lost or hidden; one version per memo |
| Valuation tracking | `private_fund_valuation_tracking.py`, `_worker.py` and the agents beside it | a job queue of its own, model runs, metric versions, impacts | enqueue, claim, run a model, publish | API server, its worker | the same as the tracking queue, and runs that supersede each other | a published valuation belongs to the run it names |
| Research workflow | `private_fund_workflow.py` | nodes, node versions, report versions | save, reserve a report version, publish, retry | API server, agents | a version reserved before the report is written | versions without gaps or reuse, immutable when published |
| Obsidian projection | `private_fund_obsidian.py`, `_worker.py` | exported notes, checksums, conflicts | export, detect edits, import | its worker, user | notes edited while they are exported | user edits are not overwritten |
| Upload batches | `private_fund_pdf.py` 2400-2720 | jobs in memory of the API server | upload, ingest, enqueue tracking | user | a restart forgets them | what was imported is tracked (through the queue) |
| Source folders, data migrations | `private_fund_source_folders.py`, `private_fund_data_migrations.py` | folders, schema versions | sync, migrate | server start, user | a crash half way through a migration | a migration can run again |
| Candidate extraction, citation gate | `tracking.py` 1285-1900, `private_fund_dataset.py` | none | text heuristics, prompts to a model | worker, memo tool | quality of text, not states | - |
| Session events and prompts | `omnigent/omnigent/runtime/session_stream.py`, `pending_elicitations.py` | subscribers of a session, prompts that wait for a verdict | publish, subscribe, park, resolve, deliver a verdict | harness, web client | no replay: what is published to nobody is gone; a prompt that parks again under its id | a verdict reaches the prompt it was given for |
| Web client: session window | `chatStore.ts` | the committed items and approval cards shown, cursors, the stream pump, the requests in flight | bind, rebind, switch, receive, flush a frame, reconnect, reconcile, rehydrate, scroll up, answer | user, stream, answers to requests | snapshots and a stream without replay meet in any order; a reconnect replaces the window under a page that is awaited; a verdict races events that do not know of it | nothing twice, no hole, the cursor is true, cards agree with the server in the end |
| Web client: pages | `omnigent/web/src/pages`, `components` | none that lasts | poll and render | user | - | - |
| Omnigent runner | `omnigent/omnigent/runner` | harness processes, tunnels, pending inputs | start and stop agents, relay their events | server | reconnects, timeouts, late answers | no event lost, each input answered once |
| cc-haha: event upload | `cc-haha/src/cli/transports` | buffered stream events, a bounded queue, the batch on its way | write, post, retry, drop, flush, close | Remote Control bridge, SDK sessions | callers that wait for room, a batch given up under a waiting flush, a grace period that ends in the middle | in order, at least once; a write that returned was delivered or the loss can be told; every caller returns |
| cc-haha: Remote Control bridge | `replBridge.ts`, `cc-haha/src/bridge/flushGate.ts` | the session, the current transport, the flush gate, the poll loop, a run of `doReconnect` | take work, connect, flush the history, write, reconnect, tear down | user, poll loop, socket callbacks | callbacks of transports that were replaced, a recovery that overtakes another, awaits in the middle of everything | new messages follow the history, in order and once, and never wait for ever |
| cc-haha: agent | `cc-haha/src` otherwise | transcripts, terminal and desktop interface | - | user | - | - |
| Service stack | `scripts/manage_omnigent_services.sh` | one tmux window per service | start, stop, restart | operator | a restart in the middle of anything | one worker of each kind |
| FinSagent | `FinSagent/data_pipeline` | index files | parse and index documents | upload batches | batch program | - |

How they interact. An import (`private_fund_pdf.py`) makes a document current in
the database and *afterwards* enqueues its analysis. The memo tool writes files,
registers a version and *afterwards* enqueues its analysis. The tracking worker
repeats both enqueues in every cycle from the database, which repairs the ones
that were lost, adds an hourly scan, and then claims up to five jobs. The attempt
of a job reads its sources, asks a model, and reconciles the candidates with the
ledger. The user archives, restores and purges items, edits rules and alerts,
and loads pages; a page load registers memo files that have no version yet.

Sessions are separate from that database. A harness publishes committed items and
prompts to the streams subscribed at that moment; the web client opens a stream
and fetches a snapshot beside it, again after every reconnect. A terminal agent
reaches its session through the bridge, which writes to a transport, which hands
its messages to an uploader that posts them in batches.

## The modules

| Module | Models | Proofs |
|---|---|---|
| `JobLifecycle` | what a durable job queue promises to its submitters | - |
| `TrackingQueue` | the queue, the worker's cycle and every caller; implements `JobLifecycle` | `TrackingQueueProofs` |
| `RecordHistory` | what the ledger promises to its readers | - |
| `TrackingLedger` | the ledger and every operation on it; implements `RecordHistory` | `TrackingLedgerProofs` |
| `MemoCatalog` | memo versions, their files and the pages that show them | `MemoCatalogProofs` |
| `SessionStream` | the window of a browser tab on one session | `SessionStreamProofs` |
| `MessageFeed` | what an uploader promises the server | `MessageFeedProofs` |
| `EventUploader` | the uploader and the transport around it; implements `MessageFeed` | `EventUploaderProofs` |
| `ReplBridge` | the bridge with its transports, their uploaders reduced to what it observes; each transport implements `MessageFeed` | `ReplBridgeProofs`, `ReplBridgeFeedProofs` |
| `MC...` | the instances TLC checks, one module for each component | - |

The first three components share a database but hardly any table, so each is modelled
with the others reduced to what it can observe of them. To the queue a memo is a
number that is registered or deleted; to the ledger a job is a source of
candidates that may be attempted until it is settled; to the catalog jobs do not
matter at all. A composition of all three would multiply states without adding
an interaction: the only shared writes are that registering and deleting a memo
touches its job (in `TrackingQueue`) and that settling a job and writing its
results are one transaction (in `TrackingLedger`, where `settled` stands for it).
`ReplBridge` does compose: each of its transports holds an uploader, of which it
keeps the queue, the batch on its way, the pause, the drop and the grace period,
and leaves the limit of the queue and the waiting callers to `EventUploader`.

### Steps

SQLite admits one writer, and a transaction is atomic. So one transaction is one
action, two transactions of one function are two actions, and a look at the file
system is an action of its own. Between two actions anything may happen: another
process, the clock, a crash.

The TypeScript components run on one thread: what runs between two awaits is one
action, and every await, callback and timer is a place where others go first.

### TrackingQueue

`jobs` is the table, by job id. The id digests the job type, the source and the
extractor version, hence `JobIds == Sources \X Versions`. Of a row we keep the
status, `attempt_count`, the priority, and of the two timestamps whether
`available_at` has passed (`due`) and whether `locked_at` is older than 20
minutes (`stale`); `BackoffElapses` and `LeaseExpires` flip them. `workers` is
what a worker process has in memory, `calls` the enqueues the API server has
still to make, in any order, after the transaction that made them necessary.

| Code | Action |
|---|---|
| `enqueue_job`, from each caller | `Enqueue` in `EnqueueCurrentDocument`, `EnqueueCurrentMemo`, `EnqueueScheduledScan`, `EnqueueCall`, `RequestScan`, `RequestRebuild` |
| `run_cycle`: recover, read snapshot, enqueue, process up to five | `RecoverStaleJobs`, `ReadDocuments`, ..., `EndCycle` |
| `_claim_job`, then the row read again | `ClaimJob`, `StartJob` |
| `process_next_job`, its result and its handler | `CompleteJob`, `FailJob` |
| `register_memo_version`, `delete_memo_version` as far as jobs go | `RegisterMemo`, `DeleteMemo` |
| kill, exception outside an attempt; restart of server; restart of the stack after an upgrade | `RestartWorker`; `RestartServer`; `Upgrade` |

### TrackingLedger

The variables are the tables. While the worker holds the write lock
(`pc = "writing"`) they are what its own connection sees, and `saved` is what was
last committed: a crash restores it, and refinement speaks of it. A *reading* is
what a version says, up to the differences `_meaningful_change` sees: its
`content`, the extracted words, and the rest, of which metadata, state and values
are the `detail`. Observations are inserted once for an item, a source and a
content (`INSERT OR IGNORE`, `tracking.py:2370`); a later reading with the same
words and another judgement makes a version but no observation, and
`HistoryIsDocumented` asks for no more than that: each version has an observation
of its content by its source. An extraction is a nondeterministic list of candidates, and `like` names the item
`_find_item` takes for the same by evidence or similarity. The attempt commits
before it reconciles, therefore `FindFirst` reads without a lock and `WriteFirst`
takes it; the following candidates are found and written under it (`WriteNext`).
`FailAttempt` is the exception handler, which *commits*. `ScanDueItems`
reproduces the scan as it is, with the `TypeError` of finding 1.

### MemoCatalog

A stem stands for the Markdown, HTML and PDF files of one memo. Memos carry the
time they were generated, so a stem is also a content; `Empty` is the content of
a file that is gone. An id is `<<series, number, content>>`, what
`memo_version_id` digests. `calls` holds the memo tool's call for each stem,
`pages` the page loads: the list of duplicates and of paths each has read, and
the topic and content of the file it is about to register.
The tool reads the content of its files immediately before the transaction that
registers it; the two are one action, which changes nothing: a deletion of the
files between them commutes with the registration. A topic is asked for (`Topic`)
or found in the Markdown (`Recovered`); the model leaves their relation open.

### SessionStream

The server's side is what a client can tell of it: items `1..last` are committed,
prompts are parked or not, and every change is published to the connection that
is up (`wire`), to nobody otherwise. The client is `chatStore.ts`: `window` holds
the committed items in the order shown, `buffer` what waits for the next frame,
`cards` the approval card of each prompt, `oldest`, `hasMore` and `more` the state
of scroll-up, `binds` the calls of `bindStream`, `recon` the call of
`reconcileOnReconnect`, and `query` the session snapshot that react-query shares
among all who ask while it is in flight. A page is a span of consecutive items;
its answer tells what was committed when it was served, and is looked at later.

| Code | Action |
|---|---|
| `publish`, `record_publish`, `resolve` | `CommitItem`, `Park`, `ResolveElsewhere`, `TakeVerdict` |
| `switchTo`, `ensureBoundSession` | `SwitchTo`, `SwitchAway`, `Rebind` |
| `bindStream` before, at and after its awaits | `StartBind`, `ServeBindPage`, `DeliverSession`, `MergeBind`, `FailBindPage` |
| `startStreamPump` | `Open`, `Refuse`, `LoopGoesOn` |
| `pumpStreamEvents` and its `flush` | `Receive`, `Frame`, `Drop`, `ServerCloses` |
| `reconcileOnReconnect`, `rehydrateWindowOnReconnect` | `ServeReconPage`, `ReconArrives` (`Backfill`, `AskOlder`, `Rehydrate`), `FailReconPage` |
| `loadMoreHistory` | `LoadMoreHistory`, `OlderPageArrives`, `OlderPageFails` |
| `reconcilePendingElicitations` | `TabBecomesVisible`, `DeliverSession` |
| `submitApproval` | `SubmitApproval`, `VerdictDelivered`, `VerdictFails` |

`historyGeneration` is not a counter in the model: a step that raises it voids
the page scroll-up waits for (`NoPage`) and the reconciliation under way
(`Voided`), which is all the comparison is for. Left out are blocks without an
item: streamed text and the turn in progress, which no snapshot brings.

### EventUploader

Messages are numbered in the order they are written. `buffer` is
`streamEventBuffer` of `HybridTransport`; `pending`, `batch`, `drain`, `failures`
and `dropped` are the fields of `SerialBatchEventUploader`; `calls` the calls of
`enqueue` and of the `flush()` after it. `pushed`, `answered` and `refused` are
history variables, `log` is what the server saw.

| Code | Action |
|---|---|
| `HybridTransport.write`, `flushStreamEvents`, `close` | `StreamEvent`, `Write`, `TimerFires`, `Close` |
| `enqueue`, its wait for room, `flush` | `Enqueue` in `Write`, `TimerFires` and `LookAgain`; `Resolved` |
| `drain`: a batch sent, failed, given up; its pause | `PostReturns`, `PostFails`, `BatchDropped`, `PauseEnds` |
| `close` of the uploader | `UploaderCloses` |

A POST that failed may have reached the server or not. One that arrived counts as
answered at the same moment; a delay between the two would be a failure with the
batch arrived. A promise that is resolved lets other actions come before its
continuation, which admits more orders than the microtask queue does.

### ReplBridge

| Code | Action |
|---|---|
| `startWorkPollLoop`, `onWorkReceived` | `PollReturns`, `WorkReceived` |
| `onHeartbeatFatal`, a poll's 404 | `HeartbeatFatal`, `EnvironmentLost` |
| `setOnConnect`, the flush after it, `drainFlushGate` | `Connected`, `HistoryFlushed`, `DrainInto` |
| `writeMessages` | `WriteMessage` |
| `handleTransportPermanentClose` | `PermanentClose` |
| `doReconnect`, one action for each await | `Start`, `WorkStopped`, `Registered`, `ReconnectedInPlace`, `SessionArchived`, `SessionCreated`, `PointerWritten` |
| `doTeardownImpl` | `Teardown`, `TeardownCloses` |
| the uploader of each transport | `PostArrives`, `PostReturns`, `PostRefused`, `PostFails`, `BatchDropped`, `Retry`, `UploaderCloses` |

Here a POST arrives and is answered in two steps, since a transport may be closed
between them. Reconnects of the socket inside a transport do not show. A POST may
be refused for good, by a 4xx other than 429, or not be sent for want of a token
(`HybridTransport.ts:204-208, 238-251`): `PostRefused` settles the batch as if it
had been sent, and counts against `MaxFaults` unless the session is archived,
whose server refuses every POST. A POST that was given up is not processed later.
A flush sends the `HistoryCap` most recent messages of those not marked as flushed
(`Recent`); what the cap leaves out (`left`) stays unmarked and goes out with the
next flush. `FlushedBefore` are the marks the set holds when the bridge starts: the
hook keeps it for all bridges of a REPL (`useReplBridge.tsx:62`). Work that comes
without an OAuth token becomes the current work and brings no transport
(`replBridge.ts:1157-1163`), which `doReconnect` takes for a recovery: in
`WorkReceived` the number of the transport it would have had stays unused.
`received` holds every arrival, repeated ones too. `pushed`,
`answered` and `got` of a transport are history: what its uploader accepted, how
much of that is answered for or given up, and what the server got from it. With
them each reduced uploader is shown to keep what `EventUploader` keeps
(`ImplementsFeeds`), so the reduction loses nothing the server could tell.

## The runs

Times are of two TLC workers.

| Run | Instance | Distinct states | What it shows |
|---|---|---|---|
| `queue_jobs` | 1 worker, 2 memo versions, 1 rebuild, 1 hour, 2 attempts, 2 jobs per cycle, 1 crash, 2 registrations | 2,296,170 (1 min) | `TypeOK`, `RetryBudget`, `WorkerOwnsItsJob`, `GivesUpExhausted`, `RebuildOnce`; implements `JobLifecycle` |
| `queue_documents` | 1 document, 2 extractor versions, 2 hours, 1 crash; fair | 461,128 (35 s) | `EveryCurrentDocumentAnalysed` |
| `queue_live` | 1 memo, 1 manual scan, 2 attempts, 1 crash, 2 registrations; fair | 211,350 (45 s) | `EveryCurrentMemoAnalysed`, `EveryJobSettles` |
| `ledger_history` | 2 items, one of them legacy, that resemble each other; readings that differ in their judgement and not in their words; 3 jobs, one a rebuild, 3 attempts, 2 candidates each | 481,144 (35 s) | `TypeOK`, `HistoryIsDocumented`; implements `RecordHistory` |
| `ledger_alerts` | 1 item, 1 rule edited freely, readings with and without a due date, 2 attempts, 2 days; fair | 55,728 (35 s) | `AlertsHaveEvidence`, `SnoozedAlertsReturn` |
| `catalog_pages` | 2 memos of one topic, 2 page loads, numbers 1..2 | 6,551,310 (2 min) | `TypeOK`, `PageShowsEveryMemo`, `SeriesIsCurrent`, `LineageGoesBack`, `RegisteredMemosStay` |
| `ledger_due` | 1 item, 1 rule, 2 days | violation | `DueRemindersIssued` |
| `stream_window` | page of 1, 2 pages walked back at most, 3 items, 2 bindings, 1 failed request | 2,332,755 (1.5 min) | `TypeOK`, `EachItemOnce`, `ReconnectClosesTheGap`, `ScrollUpLeavesNoGap`, `HeldItemsStay` |
| `stream_cards` | 1 prompt that parks 3 times, 1 binding, 1 failed request; fair | 261,550 (35 s) | `VerdictsStand`, `CardsSettle` |
| `upload_feed` | queue of 2, batches of 2, given up after 2 failures, bursts of 1 stream event, 4 messages, 4 calls; fair | 1,400,320 (3 min) | `TypeOK`, `WrittenMeansDelivered`, `NotOvertaken`, `QueueBounded`, `NobodyIsForgotten`, `CallersReturn`; implements `MessageFeed` |
| `bridge_gate` | 2 history messages, the second marked by an earlier bridge, a cap of 1; 2 live ones, 2 transports, 2 sessions, 1 fault; fair | 2,982,152 (2.5 min) | `TypeOK`, `GateFollowsFlush`, `LiveInOrder`, `HistoryFirst`, `FlushedUnlessCutOff`, `GateDrains`; every transport implements `MessageFeed` |
| `bridge_flushed` | 1 history message, no cap, no earlier marks, 1 live one, 2 transports, 2 sessions, 1 fault | violation | `FlushedWereDelivered` |

Deadlock is checked in the runs of the tracking components: whatever bounds are
used up, the worker can start a cycle, a scan can run and a page can be loaded.
The others may stop: a user may write nothing more and commit nothing more, a tab
may stay without a stream, a transport that was closed does nothing.

Why the bounds suffice. The interesting cases of the queue need one job held by
the worker and a second that competes with it, one retry (2 attempts), a crash,
and a memo that is registered, deleted and registered again (2 registrations, 2
numbers); more of a kind only repeats them. The ledger's cases need an item that
is found by its key and by resemblance, two readings with the same words, an item
purged between lookup and write and found again, and a rebuild after a normal
attempt. In the catalog two memos and two pages are the least for which a page works from a stale list while
another has cleaned up, the user has deleted, and a new memo has received the
number of the old one; `MaxNo` must be 2 for that. Files of a time before the
catalog are the same as those of a call that crashed.

In the window, a page of one item makes three items a session longer than a page,
a gap longer than a page and a gap longer than the pages walked back (2), so that
`Backfill` and `Rehydrate` both occur with live items beside them. Where the code
fetches an initial window it walks back up to eight pages, to a point where a turn
begins (`fetchInitialHistoryWindow`); the model takes the newest page, so its
windows are shorter at the old end and `Rehydrate` drops more. Two bindings
are the switch and one rebind or return to the session; one failure is enough to
lose any one request or the stream for good. A prompt has to park three times for
a card to be cleared, revived, and cleared again. Items and cards do not touch
each other's state, so each has a run of its own. The uploader needs a queue that
one caller fills while a second waits and a third looks again, a batch that comes
back on top of a full queue, and one that is given up. The bridge needs a
history longer than its cap and two live messages, a transport that replaces
another and a session that replaces another. The earlier mark is on the second
history message, so the first flush sends the first alone; after a new session
has cleared the marks both are eligible and the cap leaves the first out. Without
the mark, and with a third, marked history message, the first message follows the
live ones in the same session; both instances (3.8 and 4.1 million states) were
checked by hand with the same result.

The proofs remove these bounds for the safety properties.

Two workers at once, which nothing prevents an operator from starting, are
covered by the proof of `RebuildRunsOnce`.

Fairness. `TrackingQueue!FairSpec` assumes that the worker takes its next step
again and again and that the clock advances; the worker's `main` is an endless
loop that sleeps at most 60 seconds, and restarts a cycle after any exception.
No request, import, registration or server call is assumed to happen, and no
particular outcome of an attempt. `TrackingLedger!FairSpec` assumes that an
attempt ends, that the hourly scan recurs and that days pass; it follows from the
same loop, which enqueues one scan every hour. The number of crashes is finite
(`MaxFaults`): a worker that dies for ever finishes nothing. `MemoCatalog` has no
liveness property: page loads and calls promise nothing to each other.
`SessionStream!FairSpec` assumes the client's own steps and an answer, good or
bad, to what it asked: fetch has timeouts, and frames are scheduled by the
browser. Nothing is assumed of the user, the harness, or how long a stream lasts;
`CardsSettle` states its own condition, that the stream is recycled again and
again, which the ingress does every five minutes. `EventUploader!FairSpec` assumes
that a POST ends (its timeout is 15 s), that a pause ends and that continuations
run; every POST may fail. `ReplBridge!FairSpec` assumes
that of the current transport only, and in addition that a socket which connects
opens or is given up, as its ten minutes of retries see to. `EveryJobSettles` holds with finitely many
requests (`MaxRequests`): nothing ages a priority, and an endless stream of better
jobs would starve a poor one. `CallersReturn` holds with finitely many messages:
endless writes keep a queue from draining and so a `flush()` from returning.

## What the runs found

1. **The hourly scan fails at the first due item** (`ledger_due`). `_scan_due_items`
   calls `_watch_rule_matches` without its required argument `event_type`
   (`tracking.py:2438`), so the reminders that the documentation promises are
   never issued. Other effects of the scan survive, because the handler commits:
   `SnoozedAlertsReturn` holds.
2. **A history that was refused or cut off counts as flushed** (`bridge_flushed`).
   The bridge means to keep messages of a flush that lost a batch eligible for the
   next transport, and recognises such a flush by the count of dropped batches. Two
   losses do not count: a POST answered by a permanent 4xx, or not sent for want of
   a token, returns as if it had succeeded (`HybridTransport.ts:204-208, 238-251`);
   and when the POST fails until new work replaces the transport, the end of the
   grace period discards the queue and resolves the flush
   (`SerialBatchEventUploader.ts:139-150`). Either way the history is marked
   (`replBridge.ts:1295`) and the next transport does not send it. The cut-off costs
   the history only when the next socket opens after the three seconds of grace.
   `FlushedUnlessCutOff` shows that these two are all: a message this bridge marked
   that its session did not receive was in a flush whose uploader was closed or
   whose POST was refused.

The history cap disagrees with a comment as well, though no run is spent on it. The
comment at `replBridge.ts:1238-1245` has the gate keep new messages from arriving
"interleaved with the historical messages". It does so within one flush; but the
messages a cap leaves out of it (1252-1261) are unmarked, hence eligible when the
next work item connects, and then reach the same session behind the live messages
of the first transport. `HistoryFirst` without its disjunct `LeftOut` shows it, in the instance
without earlier marks.

Some modules also state what the code does not keep though a reader may expect it.
These statements have no run; naming one of them in the configuration of its
component, as an invariant or as a property, shows the behaviour in seconds.

| Statement | Behaviour |
|---|---|
| `TrackingLedger!PurgeIsComplete` | The first lookup of an attempt holds no lock; purged in between, the item leaves a version, an event and an observation without an item, and its numbers collide later. `HistoryIsDocumented`, `AlertsHaveEvidence` and the refinement hold in spite of it. |
| `TrackingLedger!OnlyRejectedAreArchived` | A record is archived that was verified after the selection was validated. |
| `MemoCatalog!OneVersionPerMemo` | A memo is registered twice when a page load read the registered paths before the tool registered it. A later page load removes the copy, but until then it is the current version of its series. |
| `MemoCatalog!CreateReturnsExisting` | Two creates of one topic both add a version, since look-up and registration are minutes apart. |
| `SessionStream!StreamOrSnapshotCatches` | An item committed after the snapshot was read and before the stream is subscribed comes with neither, until the next reconnect or visit. |
| `ReplBridge!TransportOnLiveSession` | Work that is acknowledged while `doReconnect` awaits `tryReconnectInPlace` or `archiveSession` gets a transport on the session that is archived (`replBridge.ts:747`, against its comment at 660-666). |

Two more observations are not findings, as no document speaks of them. Without
its exception for `Empty`, `RegisteredMemosStay` fails: a memo whose files were
deleted before it was registered has the empty content, its id is that of any
other such version with its number, and a stale clean-up can hit it. And the
retry budget needs the single worker that the service scripts start: with two, a
worker whose lease was taken over may fail late and requeue, on its own old copy
of the count, a job that the other has exhausted.

Three further hazards were looked at and are covered by no property: a revision
target removed while its memo is written (`tracking.py:824`, the registration
fails); a file deleted between two reads of the backfill (`tracking.py:795`, the
topic is found and the content is empty, which `MemoCatalog` admits); and a
reconciliation whose fetch fails (`chatStore.ts:2518`), which is given up until
the next reconnect.

## What is proved

Every theorem holds for all values of the constants that satisfy the
assumptions of the modules (`BoundsAssumption`, `LedgerAssumption`,
`CatalogAssumption`, `SizesAssumption`).

*TrackingQueueProofs.* `Typing` and `RebuildRunsOnce` hold for any number of
workers. The latter rests on `RebuildInv`: beside the types, nobody asks for a
rebuild to be requeued (`OnlyMemosRequeue`) and a rebuild a worker holds has
spent its only attempt (`RebuildSpent`). The other four theorems assume
`SingleWorker`. `QueueInv` says of each job that the worker which holds it owns
its row or, for a memo, that the row was withdrawn and perhaps is a new one
(`Owned`); that the budget is kept (`Budgeted`); and that only an exhausted job
has failed. `RetryBudget` alone is not inductive: the failure path compares a copy
of the count in memory, so the invariant must say that the copy is right, which
is `Owned`. `QueueImplementsLifecycle` maps every step to moves of the lifecycle
(`StatusMoves`).

*TrackingLedgerProofs.* `LedgerInv` says that the tables, and the committed copy
while the worker writes, are `Sound` (versions up to the current number exist,
each with its event and an observation of its content, and every alert has its evidence); that
a lookup the worker holds (`Held`) still describes the item unless it was purged,
since nobody else revises or creates items; and that the open transaction only
extends the committed histories, by readings that differ (`Grows`). It gives
`HistoriesAreDocumented`, `AlertsLeadToEvidence` and `LedgerImplementsHistory`.

*MemoCatalogProofs.* `NumberInv` (numbers of a series are distinct and the
current one is their maximum; targets of calls lie in their series) gives
`SeriesStayCurrent` and `LineagesGoBack`. `CatalogInv` adds what a page's stale
lists still guarantee. `DiskSound`: files and rows come from calls that began.
`PageSound`: a row listed for removal is backfilled, the tool's own version of its
files is registered as long as the files are there, and that version never has
its id, even if the number was given out again (`Superseded`); what the page takes
for registered is registered, unless its files are gone (`SeenCovered`). It gives
`PagesShowEveryMemo` and `RegisteredMemosAreKept`.

*SessionStreamProofs.* `TypeInv` adds to the types that a page which is not empty
is not upside down, so a cursor taken from it names an item. `WindowInv`, that
neither the window nor the buffer holds an item twice, gives `ShownOnce`: each
way into the window compares with it first, and the frame compares again. `MoreInv`,
that a page is awaited for the cursor of now or not at all, gives
`ScrollUpIsClosed`. `GapIsClosed` needs two facts about a reconciliation that is
under way on an open connection: it began when the pump was up (`LinkInv`), and
from its first page on whatever is newer than that page is shown or on its way
(`GapInv`), because nothing leaves the connection but by being received
(`WireGrows`) and nothing leaves the window but with the window (`KnownStays`).
What is older than the page's end is in the span walked, or above items that were
shown. `VerdictsAreKept` follows from the types, step by step.
`NothingHeldIsLost` says that an item the tab has, shown or waiting for its frame,
leaves it only above the scroll cursor. It needs that nothing newer than the last
item committed is anywhere (`CommitInv`), and that the first page after a reconnect
ends behind everything shown before it (`PreInv`): a reconnect that replaces the
window by the pages walked and what is newer then drops only what scroll-up brings
back.

*EventUploaderProofs.* What is owed is the batch and the queue behind it, in the
order pushed, after what is answered for. That is the invariant behind
`UploaderImplementsFeed`: a POST delivers the next stretch, a failure puts it back
where it was. `WritesAreDelivered` adds where the items of a waiting call are: in
what is owed, delivered, refused, or lost with a batch that raised the count since.
`QueueKeepsItsLimit` must say that the batch in flight fits the limit too, since
it may come back. `NothingIsOvertaken` keeps the messages in three regions (pushed,
held by a caller, buffered) and relates their numbers. `WakeUpsAreNotLost` is the
safety half of `CallersReturn`: who waits, waits for a loop that is at work. Its
invariant `WakeInv` says that the items of a caller held back fit an empty queue,
so the queue it found full was not empty, and that a loop which sleeps has
something queued, since a batch that was posted is not empty.

*MessageFeedProofs.* `NewsComeInOrder` draws from the abstract specification what
the server has of it: if no message is accepted twice, then whatever is repeated,
the first arrivals are in the order accepted. Beside that, its invariant says that
of the stretch not answered for, what has come was preceded by all in front of it.
`NewsReachTheServerInOrder` carries this over to `EventUploader` through the
refinement; what is left to prove there is that no message is handed over twice
(`OnceInv`: pushed, buffered and held by callers are distinct and apart).

*ReplBridgeProofs.* `GateIsTheFlush` says that the gate is down exactly while a flush
is owed, and that somebody will lift it. The second part needs that a transport in
use which waits for its flush is still connecting, and that a flush which runs has
an uploader at work with something queued (`GateInv`). `WrittenInOrder`
strengthens to: what was handed on and what waits rise together and stay below the
next message, and an open gate holds nothing. `HistoryComesFirst` rests on
`FlushInv`: a transport that is current and has flushed its share has nothing of
the history outstanding that is not received, written off, left out by the cap or
marked by an earlier bridge (`Cleared`, which only grows), and in the queue of every
uploader the pieces of the history precede the live messages. What the cap keeps
and what it leaves make up what is eligible (`RecentPart`). That the pieces can be
put in order at all, for a history of any size, is `HistoryInOrder`, which ranks
each message by the number of smaller ones.

*ReplBridgeFeedProofs.* `EveryTransportFeeds` rests on `FeedInv`: the queue of an
uploader is what it accepted after what is answered for, until it is closed, and
a beginning of that afterwards; a transport that no work brought yet is blank.
`OnlyCutOffsGoUnnoticed` keeps track of the pieces of a flush (`HeldInv`): each is
queued, received, refused, or counted as dropped, until the uploader is closed.

All inductive invariants were checked with TLC before they were proved.

Only model-checked: the liveness properties (`EveryJobSettles`,
`EveryCurrentDocumentAnalysed`, `EveryCurrentMemoAnalysed`,
`SnoozedAlertsReturn`, `CardsSettle`, `CallersReturn`, `GateDrains`), since the
prover has no rules for fairness and ENABLED. In those of the queue a job that was
given up with its budget spent counts as settled: `Analysed` means completed or
failed. No module here declares a RECURSIVE operator, and none needs induction over
data.

## What is not modelled, and why

- Text: extraction, similarity, quality heuristics and rendering decide *which*
  reading is found; every outcome is admitted.
- Timestamps: only their comparisons with leases, back-off, hours and days. Two
  memos of one dataset within a second would share their file names
  (`private_fund_dataset.py:2459`).
- `research_memo_sections` and document snapshots: written and deleted with their
  version in one transaction, and read by nobody concurrently.
- A failing or full database: an exception outside the handlers appears as a crash.
- Streamed text, the turn in progress, pending user messages and the composer of
  the web client: they have no identity that a snapshot could repeat. Presence and
  idle flips appear as drops of the stream.
- The bridge's v2 transports, inbound messages and their de-duplication, control
  requests, poll back-off and perpetual sessions.
- The components listed as not modelled in `PROJECT.json`.

## Plan

Done: `TrackingQueue`, `TrackingLedger`, `MemoCatalog`, `SessionStream`,
`EventUploader` and `ReplBridge`, with their abstract specifications, runs and
proofs. What would follow, in this order:

1. `ValuationQueue`: the second queue, with runs that supersede each other; it
   should implement `JobLifecycle` too, and a specification of published
   valuations. Theorems: typing, publication follows the latest run.
2. `ReportVersions`: reservation, retry and publication of report and node
   versions in the research workflow; abstractly, a log without gaps.
   Theorems: no reuse of a number, published versions are final.
3. `ObsidianProjection`: export against edits of the user; no edit is lost.
4. `PendingInputs` and the tunnel registry of the Omnigent runner: answers that
   race timeouts, reconnects that race late messages.
5. The inbound side of the bridge: de-duplication of echoes and re-deliveries by
   bounded sets of ids, across changes of transport.
6. `UploadBatches` and the migrations: what a restart forgets, and whether a
   migration can run again.
