--------------------------- MODULE TrackingQueue ---------------------------
(***************************************************************************)
(* The durable job queue of the risk/catalyst tracking service: the table  *)
(* research_tracking_jobs of one dataset, the worker process that polls it *)
(* (private_fund_tracking_worker.run_cycle), and the calls of the API      *)
(* server that feed it (private_fund_tracking.enqueue_*,                   *)
(* register_memo_version, delete_memo_version).                            *)
(*                                                                         *)
(* A transaction of SQLite is one step; two transactions of one function   *)
(* are two steps, with the other processes, a crash or the clock in        *)
(* between.  What a job writes in the ledger is left to TrackingLedger.    *)
(***************************************************************************)
EXTENDS Naturals, FiniteSets

CONSTANTS Workers,          \* tracking worker processes (one is deployed)
          Docs,             \* document ids
          MaxMemo,          \* versions of the memo series are 1..MaxMemo
          Scans,            \* timestamp tokens of "update now" requests
          Rebuilds,         \* timestamp tokens of legacy rebuild requests
          MaxHour,          \* bound: the clock stops at this hour
          MaxVersion,       \* bound: extractor versions are 1..MaxVersion
          MaxAttempts,      \* default of max_attempts (4 in the code)
          MaxJobsPerCycle,  \* jobs of one dataset in one cycle (5)
          MaxFaults,        \* bound: crashes and aborted cycles
          MaxRequests       \* bound: memo registrations

ASSUME BoundsAssumption ==
    /\ MaxMemo \in Nat
    /\ MaxHour \in Nat
    /\ MaxVersion \in Nat \ {0}
    /\ MaxAttempts \in Nat \ {0}
    /\ MaxJobsPerCycle \in Nat \ {0}
    /\ MaxFaults \in Nat
    /\ MaxRequests \in Nat

VARIABLES jobs,      \* the table, by job id
          workers,   \* what each worker process holds in memory
          current,   \* documents that are current, active and indexed
          memos,     \* memo versions in the catalog
          calls,     \* enqueue calls in flight in the API server
          hour,      \* wall clock, to the hour
          version,   \* EXTRACTOR_VERSION of the running code
          faults, requests

env  == <<current, memos, calls, hour, version, faults, requests>>
vars == <<jobs, workers, env>>

-----------------------------------------------------------------------------
Memos    == 1..MaxMemo
Versions == 1..MaxVersion

Document(d)  == <<"document_ingested", d>>
Memo(m)      == <<"memo_version_created", m>>
ManualScan(t) == <<"manual_scan", t>>
Rebuild(t)   == <<"legacy_rebuild", t>>
HourlyScan(h) == <<"scheduled_scan", h>>

MemoSources    == {Memo(m) : m \in Memos}
RebuildSources == {Rebuild(t) : t \in Rebuilds}
Sources == {Document(d) : d \in Docs} \cup {ManualScan(t) : t \in Scans}
           \cup {HourlyScan(h) : h \in 0..MaxHour}
           \cup MemoSources \cup RebuildSources

\* job_id digests the job type, the source and the extractor version.
JobIds      == Sources \X Versions
MemoJobs    == MemoSources \X Versions
RebuildJobs == RebuildSources \X Versions

\* Mutant: a rebuild is retried like any other job.
MaxOf_NoSingleShot(j) == MaxAttempts

MaxOf(j) == IF j \in RebuildJobs THEN 1 ELSE MaxAttempts

Priorities == {0, 10, 20, 40, 50, 60, 200}

\* due: available_at <= now, of interest while queued.
\* stale: locked_at is older than 20 minutes, of interest while running.
JobRecord == [status : {"absent", "queued", "running", "completed", "failed"},
              attempts : Nat, prio : Priorities,
              due : BOOLEAN, stale : BOOLEAN]

NoJob == [status |-> "absent", attempts |-> 0, prio |-> 0,
          due |-> TRUE, stale |-> FALSE]

NewJob(prio) == [status |-> "queued", attempts |-> 0, prio |-> prio,
                 due |-> TRUE, stale |-> FALSE]

WorkerRecord == [pc : {"idle", "documents", "putDocuments", "putMemos",
                       "process", "claimed", "executing"},
                 todo : SUBSET Sources, budget : 0..MaxJobsPerCycle,
                 job : JobIds \cup {<<>>}, attempt : Nat, found : BOOLEAN]

Idle == [pc |-> "idle", todo |-> {}, budget |-> 0,
         job |-> <<>>, attempt |-> 0, found |-> FALSE]

Call == [source : Sources, requeue : BOOLEAN]

HoldsJob(w) == workers[w].pc \in {"claimed", "executing"}

TypeOK ==
    /\ jobs \in [JobIds -> JobRecord]
    /\ workers \in [Workers -> WorkerRecord]
    /\ \A w \in Workers : HoldsJob(w) => workers[w].job \in JobIds /\ workers[w].budget > 0
    /\ current \subseteq Docs
    /\ memos \subseteq Memos
    /\ calls \subseteq Call
    /\ hour \in 0..MaxHour
    /\ version \in Versions
    /\ faults \in 0..MaxFaults
    /\ requests \in 0..MaxRequests

Init ==
    /\ jobs = [j \in JobIds |-> NoJob]
    /\ workers = [w \in Workers |-> Idle]
    /\ current = {} /\ memos = {} /\ calls = {}
    /\ hour = 0 /\ version = 1
    /\ faults = 0 /\ requests = 0

-----------------------------------------------------------------------------
(* enqueue_job: INSERT OR IGNORE, then optionally wake a failed job.       *)

\* Mutants: INSERT OR REPLACE; requeue_failed that keeps the attempts; and one
\* that also wakes up completed jobs.
Enqueued_Replaces(job, prio, requeue) == NewJob(prio)

Enqueued_KeepsAttempts(job, prio, requeue) ==
    IF job.status = "absent" THEN NewJob(prio)
    ELSE IF requeue /\ job.status = "failed"
         THEN [job EXCEPT !.status = "queued", !.due = TRUE, !.stale = FALSE]
    ELSE job

Enqueued_WakesCompleted(job, prio, requeue) ==
    IF job.status = "absent" THEN NewJob(prio)
    ELSE IF requeue /\ job.status \in {"failed", "completed"}
         THEN [job EXCEPT !.status = "queued", !.attempts = 0,
                          !.due = TRUE, !.stale = FALSE]
    ELSE job

Enqueued(job, prio, requeue) ==
    IF job.status = "absent" THEN NewJob(prio)
    ELSE IF requeue /\ job.status = "failed"
         THEN [job EXCEPT !.status = "queued", !.attempts = 0,
                          !.due = TRUE, !.stale = FALSE]
    ELSE job

\* Mutant: the job id forgets the extractor version.
Enqueue_Unversioned(source, prio, requeue) ==
    jobs' = [jobs EXCEPT ![<<source, 1>>] = Enqueued(@, prio, requeue)]

Enqueue(source, prio, requeue) ==
    jobs' = [jobs EXCEPT ![<<source, version>>] = Enqueued(@, prio, requeue)]

-----------------------------------------------------------------------------
(* The worker: one cycle over the dataset, then sleep and start again.     *)

\* Mutant: an expired lease always goes back to the queue.
Recovered_AlwaysQueued(j) ==
    [jobs[j] EXCEPT !.status = "queued", !.due = TRUE, !.stale = FALSE]

Recovered(j) ==
    [jobs[j] EXCEPT !.status = IF jobs[j].attempts >= MaxOf(j) THEN "failed" ELSE "queued",
                    !.due = TRUE, !.stale = FALSE]

\* Mutant: nobody looks after expired leases.
RecoverStaleJobs_Never(w) ==
    /\ workers[w].pc = "idle"
    /\ workers' = [workers EXCEPT ![w].pc = "documents"]
    /\ UNCHANGED <<jobs, env>>

RecoverStaleJobs(w) ==
    /\ workers[w].pc = "idle"
    /\ jobs' = [j \in JobIds |->
                  IF jobs[j].status = "running" /\ jobs[j].stale
                  THEN Recovered(j) ELSE jobs[j]]
    /\ workers' = [workers EXCEPT ![w].pc = "documents"]
    /\ UNCHANGED env

ReadDocuments(w) ==
    /\ workers[w].pc = "documents"
    /\ workers' = [workers EXCEPT ![w].pc = "putDocuments",
                                  ![w].todo = {Document(d) : d \in current}]
    /\ UNCHANGED <<jobs, env>>

PutOne(w, phase, prio) ==
    /\ workers[w].pc = phase
    /\ \E source \in workers[w].todo :
         /\ Enqueue(source, prio, FALSE)
         /\ workers' = [workers EXCEPT ![w].todo = @ \ {source}]
    /\ UNCHANGED env

EnqueueCurrentDocument(w) == PutOne(w, "putDocuments", 50)

CurrentMemos == {m \in memos : \A n \in memos : n <= m}

\* Mutant: the worker leaves the memo jobs to the server.
ReadMemos_None(w) ==
    /\ workers[w].pc = "putDocuments"
    /\ workers[w].todo = {}
    /\ workers' = [workers EXCEPT ![w].pc = "putMemos"]
    /\ UNCHANGED <<jobs, env>>

ReadMemos(w) ==
    /\ workers[w].pc = "putDocuments"
    /\ workers[w].todo = {}
    /\ workers' = [workers EXCEPT ![w].pc = "putMemos",
                                  ![w].todo = {Memo(m) : m \in CurrentMemos}]
    /\ UNCHANGED <<jobs, env>>

EnqueueCurrentMemo(w) == PutOne(w, "putMemos", 60)

EnqueueScheduledScan(w) ==
    /\ workers[w].pc = "putMemos"
    /\ workers[w].todo = {}
    /\ Enqueue(HourlyScan(hour), 200, FALSE)
    /\ workers' = [workers EXCEPT ![w].pc = "process",
                                  ![w].budget = MaxJobsPerCycle]
    /\ UNCHANGED env

Ready(j) == jobs[j].status = "queued" /\ jobs[j].due

\* ORDER BY priority, created_at: the order of creation among jobs of equal
\* priority is left open.
Claimable == {j \in JobIds : /\ Ready(j)
                             /\ \A k \in JobIds : Ready(k) => jobs[j].prio <= jobs[k].prio}

\* Mutant: a cycle that does not count its jobs.
ClaimJob_NoBudget(w) ==
    /\ workers[w].pc = "process"
    /\ \E j \in Claimable :
         /\ jobs' = [jobs EXCEPT ![j].status = "running", ![j].attempts = @ + 1,
                                 ![j].stale = FALSE]
         /\ workers' = [workers EXCEPT ![w].pc = "claimed", ![w].job = j]
    /\ UNCHANGED env

ClaimJob(w) ==
    /\ workers[w].pc = "process"
    /\ workers[w].budget > 0
    /\ \E j \in Claimable :
         /\ jobs' = [jobs EXCEPT ![j].status = "running", ![j].attempts = @ + 1,
                                 ![j].stale = FALSE]
         /\ workers' = [workers EXCEPT ![w].pc = "claimed", ![w].job = j]
    /\ UNCHANGED env

EndCycle(w) ==
    /\ workers[w].pc = "process"
    /\ workers[w].budget = 0 \/ Claimable = {}
    /\ workers' = [workers EXCEPT ![w] = Idle]
    /\ UNCHANGED <<jobs, env>>

\* Mutant: the attempt works with the row as it was before the claim.
StartJob_RowBeforeClaim(w) ==
    LET j == workers[w].job IN
    /\ workers[w].pc = "claimed"
    /\ workers' = [workers EXCEPT ![w].pc = "executing", ![w].found = TRUE,
                                  ![w].attempt = IF jobs[j].attempts = 0 THEN 0
                                                 ELSE jobs[j].attempts - 1]
    /\ UNCHANGED <<jobs, env>>

\* The claimed row is read again after the claim has committed; a memo deleted
\* in between took its job along and the cycle ends.  The sources are read at
\* the start of the attempt, long before its results are written.
StartJob(w) ==
    LET j == workers[w].job IN
    /\ workers[w].pc = "claimed"
    /\ workers' = [workers EXCEPT ![w] =
                     IF jobs[j].status = "absent" THEN Idle
                     ELSE [@ EXCEPT !.pc = "executing",
                                    !.attempt = jobs[j].attempts,
                                    !.found = j[1] \in MemoSources => j[1][2] \in memos]]
    /\ UNCHANGED <<jobs, env>>

Finished(w) ==
    workers' = [workers EXCEPT ![w].pc = "process", ![w].budget = @ - 1,
                               ![w].job = <<>>, ![w].attempt = 0, ![w].found = FALSE]

\* Both updates name the job by its id only: a row deleted meanwhile is not
\* written, and a row of the same id created meanwhile is.
CompleteJob(w) ==
    LET j == workers[w].job IN
    /\ workers[w].pc = "executing"
    /\ workers[w].found
    /\ jobs' = [jobs EXCEPT ![j] = IF @.status = "absent" THEN @
                                   ELSE [@ EXCEPT !.status = "completed", !.stale = FALSE]]
    /\ Finished(w)
    /\ UNCHANGED env

\* Mutant: the last retry is not taken.
FailJob_OffByOne(w) ==
    LET j == workers[w].job IN
    /\ workers[w].pc = "executing"
    /\ jobs' = [jobs EXCEPT ![j] =
                  IF @.status = "absent" THEN @
                  ELSE [@ EXCEPT !.status = IF workers[w].attempt + 1 >= MaxOf(j)
                                            THEN "failed" ELSE "queued",
                                 !.due = workers[w].attempt + 1 >= MaxOf(j),
                                 !.stale = FALSE]]
    /\ Finished(w)
    /\ UNCHANGED env

FailJob(w) ==
    LET j == workers[w].job IN
    /\ workers[w].pc = "executing"
    /\ jobs' = [jobs EXCEPT ![j] =
                  IF @.status = "absent" THEN @
                  ELSE [@ EXCEPT !.status = IF workers[w].attempt >= MaxOf(j)
                                            THEN "failed" ELSE "queued",
                                 !.due = workers[w].attempt >= MaxOf(j),
                                 !.stale = FALSE]]
    /\ Finished(w)
    /\ UNCHANGED env

\* The process dies, or an exception outside process_next_job aborts the
\* cycle: either way the next thing it does is a new cycle.
RestartWorker(w) ==
    /\ workers[w].pc # "idle"
    /\ faults < MaxFaults
    /\ faults' = faults + 1
    /\ workers' = [workers EXCEPT ![w] = Idle]
    /\ UNCHANGED <<jobs, current, memos, calls, hour, version, requests>>

WorkerStep(w) ==
    \/ RecoverStaleJobs(w) \/ ReadDocuments(w) \/ EnqueueCurrentDocument(w)
    \/ ReadMemos(w) \/ EnqueueCurrentMemo(w) \/ EnqueueScheduledScan(w)
    \/ ClaimJob(w) \/ EndCycle(w) \/ StartJob(w) \/ CompleteJob(w) \/ FailJob(w)

-----------------------------------------------------------------------------
(* The API server, the importer, and the clock.                            *)

\* An import makes a document current; one that went through the HTTP pipeline
\* then enqueues the whole snapshot, one transaction per document.
ImportDocument(d) ==
    /\ d \notin current
    /\ current' = current \cup {d}
    /\ calls' \in {calls, calls \cup [source : {Document(e) : e \in current'},
                                      requeue : {FALSE}]}
    /\ UNCHANGED <<jobs, workers, memos, hour, version, faults, requests>>

RetireDocument(d) ==
    /\ d \in current
    /\ current' = current \ {d}
    /\ UNCHANGED <<jobs, workers, memos, calls, hour, version, faults, requests>>

\* register_memo_version: the content of version m is already registered, or m
\* is the next number of the series.  The enqueue is a later transaction.
RegisterMemo(m) ==
    /\ requests < MaxRequests
    /\ requests' = requests + 1
    /\ \/ m \in memos
       \/ m = 1 /\ memos = {}
       \/ m - 1 \in CurrentMemos
    /\ memos' = memos \cup {m}
    /\ calls' = calls \cup {[source |-> Memo(m), requeue |-> m \in memos]}
    /\ UNCHANGED <<jobs, workers, current, hour, version, faults>>

\* delete_memo_version: the version and its jobs of every extractor version.
DeleteMemo(m) ==
    /\ m \in memos
    /\ memos' = memos \ {m}
    /\ jobs' = [j \in JobIds |-> IF j[1] = Memo(m) THEN NoJob ELSE jobs[j]]
    /\ UNCHANGED <<workers, current, calls, hour, version, faults, requests>>

EnqueueCall ==
    /\ \E c \in calls :
         /\ Enqueue(c.source, IF c.source \in MemoSources THEN 40 ELSE 50, c.requeue)
         /\ calls' = calls \ {c}
    /\ UNCHANGED <<workers, current, memos, hour, version, faults, requests>>

Unused(source) == \A v \in Versions : jobs[<<source, v>>].status = "absent"

RequestScan(t) ==
    /\ Unused(ManualScan(t))
    /\ Enqueue(ManualScan(t), 20, FALSE)
    /\ UNCHANGED <<workers, env>>

RequestRebuild(t) ==
    /\ Unused(Rebuild(t))
    /\ Enqueue(Rebuild(t), 10, FALSE)
    /\ UNCHANGED <<workers, env>>

RestartServer ==
    /\ calls # {}
    /\ faults < MaxFaults
    /\ faults' = faults + 1
    /\ calls' = {}
    /\ UNCHANGED <<jobs, workers, current, memos, hour, version, requests>>

\* manage_omnigent_services.sh restart after an upgrade: every process of the
\* stack stops and starts again with the new extractor.
Upgrade ==
    /\ version < MaxVersion
    /\ version' = version + 1
    /\ workers' = [w \in Workers |-> Idle]
    /\ calls' = {}
    /\ UNCHANGED <<jobs, current, memos, hour, faults, requests>>

NextHour ==
    /\ hour < MaxHour
    /\ hour' = hour + 1
    /\ UNCHANGED <<jobs, workers, current, memos, calls, version, faults, requests>>

BackoffElapses(j) ==
    /\ jobs[j].status = "queued" /\ ~jobs[j].due
    /\ jobs' = [jobs EXCEPT ![j].due = TRUE]
    /\ UNCHANGED <<workers, env>>

LeaseExpires(j) ==
    /\ jobs[j].status = "running" /\ ~jobs[j].stale
    /\ jobs' = [jobs EXCEPT ![j].stale = TRUE]
    /\ UNCHANGED <<workers, env>>

ClockAdvances == \E j \in JobIds : BackoffElapses(j) \/ LeaseExpires(j)

-----------------------------------------------------------------------------
Next ==
    \/ \E w \in Workers : WorkerStep(w) \/ RestartWorker(w)
    \/ \E d \in Docs : ImportDocument(d) \/ RetireDocument(d)
    \/ \E m \in Memos : RegisterMemo(m) \/ DeleteMemo(m)
    \/ \E t \in Scans : RequestScan(t)
    \/ \E t \in Rebuilds : RequestRebuild(t)
    \/ EnqueueCall \/ RestartServer \/ Upgrade \/ NextHour
    \/ ClockAdvances

Spec == Init /\ [][Next]_vars

\* The worker loops for ever (main sleeps at most 60 seconds) and the clock
\* does not stop.  Nobody promises that a request, an import or a call of the
\* server ever happens; faults are only assumed to be finitely many.
Fairness == WF_vars(ClockAdvances) /\ \A w \in Workers : WF_vars(WorkerStep(w))

FairSpec == Spec /\ Fairness

-----------------------------------------------------------------------------
(* Properties.                                                             *)

Executing(w, j) == HoldsJob(w) /\ workers[w].job = j

\* No job is attempted more often than max_attempts, whatever crashes, stale
\* leases, failures, deletions and re-registrations come between the attempts:
\* the count is spent by _claim_job, but checked by recover_stale_jobs and by
\* the failure path of process_next_job, each on its own copy of it.
RetryBudget ==
    \A j \in JobIds : /\ jobs[j].attempts <= MaxOf(j)
                      /\ jobs[j].status = "queued" => jobs[j].attempts < MaxOf(j)

\* A legacy rebuild rewrites and archives the ledger: once its only attempt was
\* taken it never re-enters the queue, be there several workers, a crash in the
\* middle of it or a lease that expires under a worker still running it.
RebuildOnce ==
    [][\A j \in RebuildJobs :
         jobs[j].status \notin {"absent", "queued"} => jobs'[j].status # "queued"]_vars

\* While the worker holds a job, nobody else moved it: the row is running at the
\* attempt the worker remembers.  Only a memo job may be withdrawn under it.
WorkerOwnsItsJob ==
    \A w \in Workers, j \in JobIds \ MemoJobs :
      Executing(w, j) =>
        /\ jobs[j].status = "running"
        /\ workers[w].pc = "executing" => workers[w].attempt = jobs[j].attempts

\* A job is given up only after its whole retry budget.
GivesUpExhausted ==
    \A j \in JobIds \ MemoJobs : jobs[j].status = "failed" => jobs[j].attempts = MaxOf(j)

Stage(status) == CASE status = "absent" -> "none"
                   [] status = "completed" -> "done"
                   [] status = "failed" -> "gaveUp"
                   [] OTHER -> "open"

Lifecycle == INSTANCE JobLifecycle WITH
                 Jobs <- JobIds, Reusable <- MemoJobs,
                 state <- [j \in JobIds |-> Stage(jobs[j].status)]

\* The queue implements the lifecycle: in particular no late attempt, recovery
\* or repeated enqueue (every cycle repeats them all) reopens a completed job,
\* so its results are written once, and a job that was given up is taken up
\* again for a memo only.
ImplementsLifecycle == Lifecycle!Spec

\* Every job that enters the queue settles: neither a crash between two steps of
\* an attempt, nor an expired lease, a back-off or jobs of better priority keep
\* it queued or running for ever.
EveryJobSettles == Lifecycle!EveryJobSettles

Analysed(source) == jobs[<<source, version>>].status \in {"completed", "failed"}

\* A document that is current is analysed by the extractor that is deployed (its job
\* completes, or is given up with its budget spent), or ceases to be current: also when it was imported behind the server's back,
\* when the server died before it enqueued the job, and after an upgrade.
EveryCurrentDocumentAnalysed ==
    \A d \in Docs : d \in current ~> (d \notin current \/ Analysed(Document(d)))

\* The same for the current version of the memo series, whose enqueue is a
\* transaction after the one that registers it.
EveryCurrentMemoAnalysed ==
    \A m \in Memos : m \in CurrentMemos ~> (m \notin CurrentMemos \/ Analysed(Memo(m)))
=============================================================================
