------------------------ MODULE TrackingQueueProofs ------------------------
(***************************************************************************)
(* Theorems about TrackingQueue, for every value of its constants.         *)
(***************************************************************************)
EXTENDS TrackingQueue, TLAPS

-----------------------------------------------------------------------------
(* The job ids.                                                            *)

\* A source and an extractor version make a job id, and its source is its first
\* component.
LEMMA JobIdOfSource ==
    ASSUME NEW s \in Sources, NEW v \in Versions
    PROVE  <<s, v>> \in JobIds
BY DEF JobIds

\* Every document, memo version and hour names a source.
LEMMA NamedSources ==
    /\ \A d \in Docs : Document(d) \in Sources
    /\ \A m \in Memos : Memo(m) \in MemoSources
    /\ \A h \in 0..MaxHour : HourlyScan(h) \in Sources
    /\ \A t \in Scans : ManualScan(t) \in Sources
    /\ \A t \in Rebuilds : Rebuild(t) \in RebuildSources
    /\ MemoSources \subseteq Sources /\ RebuildSources \subseteq Sources
BY DEF Sources, MemoSources, RebuildSources

\* No job of a rebuild is a job of a memo, and both are jobs.
LEMMA KindsOfJobs ==
    /\ MemoJobs \subseteq JobIds /\ RebuildJobs \subseteq JobIds
    /\ MemoJobs \cap RebuildJobs = {}
    /\ \A j \in JobIds : j[1] \in Sources
    /\ \A j \in JobIds : j[1] \in MemoSources <=> j \in MemoJobs
<1>1. MemoJobs \subseteq JobIds /\ RebuildJobs \subseteq JobIds
  BY NamedSources DEF MemoJobs, RebuildJobs, JobIds
<1>2. MemoSources \cap RebuildSources = {}
  BY DEF MemoSources, RebuildSources, Memo, Rebuild
<1>3. MemoJobs \cap RebuildJobs = {}
  BY <1>2 DEF MemoJobs, RebuildJobs
<1>4. \A j \in JobIds : /\ j[1] \in Sources
                        /\ j[1] \in MemoSources <=> j \in MemoJobs
  BY DEF JobIds, MemoJobs
<1> QED BY <1>1, <1>3, <1>4

LEMMA MaxOfPositive == \A j \in JobIds : MaxOf(j) \in Nat \ {0}
BY BoundsAssumption DEF MaxOf

-----------------------------------------------------------------------------
(* Type correctness.                                                       *)

LEMMA NewJobTyped == \A prio \in Priorities : NewJob(prio) \in JobRecord
BY DEF JobRecord, NewJob, Priorities

LEMMA EnqueuedTyped ==
    ASSUME NEW job \in JobRecord, NEW prio \in Priorities, NEW requeue \in BOOLEAN
    PROVE  Enqueued(job, prio, requeue) \in JobRecord
<1>1. CASE job.status = "absent"
  BY <1>1, NewJobTyped DEF Enqueued
<1>2. CASE job.status # "absent" /\ requeue /\ job.status = "failed"
  BY <1>2 DEF Enqueued, JobRecord
<1>3. CASE job.status # "absent" /\ ~(requeue /\ job.status = "failed")
  BY <1>3 DEF Enqueued
<1> QED BY <1>1, <1>2, <1>3

LEMMA EnqueueTyped ==
    ASSUME TypeOK, NEW s \in Sources, NEW prio \in Priorities,
           NEW requeue \in BOOLEAN, Enqueue(s, prio, requeue)
    PROVE  jobs' \in [JobIds -> JobRecord]
<1>1. <<s, version>> \in JobIds
  BY JobIdOfSource DEF TypeOK
<1>2. Enqueued(jobs[<<s, version>>], prio, requeue) \in JobRecord
  BY <1>1, EnqueuedTyped DEF TypeOK
<1> QED BY <1>1, <1>2 DEF Enqueue, TypeOK

LEMMA IdleTyped == Idle \in WorkerRecord /\ Idle.pc = "idle"
BY BoundsAssumption DEF Idle, WorkerRecord

LEMMA InitTyped == Init => TypeOK
BY BoundsAssumption
   DEF Init, TypeOK, HoldsJob, NoJob, JobRecord, Priorities, Idle, WorkerRecord, Versions

LEMMA RecoverTyped ==
    ASSUME TypeOK, NEW w \in Workers, RecoverStaleJobs(w)
    PROVE  TypeOK'
<1>1. \A j \in JobIds : Recovered(j) \in JobRecord
  BY DEF TypeOK, Recovered, JobRecord
<1>2. jobs' \in [JobIds -> JobRecord]
  BY <1>1 DEF RecoverStaleJobs, TypeOK
<1>3. workers' \in [Workers -> WorkerRecord]
  BY DEF RecoverStaleJobs, TypeOK, WorkerRecord
<1> QED BY <1>2, <1>3 DEF RecoverStaleJobs, TypeOK, env, HoldsJob

LEMMA CycleTyped ==
    ASSUME TypeOK, NEW w \in Workers,
           \/ ReadDocuments(w) \/ ReadMemos(w) \/ EndCycle(w) \/ StartJob(w)
           \/ RestartWorker(w)
    PROVE  TypeOK'
<1>2. CASE ReadDocuments(w)
  <2>1. {Document(d) : d \in current} \in SUBSET Sources
    BY NamedSources DEF TypeOK
  <2>2. workers' \in [Workers -> WorkerRecord]
    BY <1>2, <2>1, ZenonT(40) DEF ReadDocuments, TypeOK, WorkerRecord
  <2> QED BY <1>2, <2>2 DEF ReadDocuments, TypeOK, env, HoldsJob
<1>3. CASE ReadMemos(w)
  <2>1. {Memo(m) : m \in CurrentMemos} \in SUBSET Sources
    BY NamedSources DEF TypeOK, CurrentMemos
  <2>2. workers' \in [Workers -> WorkerRecord]
    BY <1>3, <2>1, ZenonT(40) DEF ReadMemos, TypeOK, WorkerRecord
  <2> QED BY <1>3, <2>2 DEF ReadMemos, TypeOK, env, HoldsJob
<1>4. CASE EndCycle(w)
  BY IdleTyped, <1>4 DEF EndCycle, TypeOK, env, HoldsJob
<1>5. CASE StartJob(w)
  <2> DEFINE j == workers[w].job
  <2>1. CASE jobs[j].status = "absent"
    BY IdleTyped, <1>5, <2>1 DEF StartJob, TypeOK, env, HoldsJob
  <2>2. CASE jobs[j].status # "absent"
    <3>1. jobs[j].attempts \in Nat
      BY <1>5 DEF TypeOK, StartJob, JobRecord, HoldsJob
    <3> DEFINE r == [workers[w] EXCEPT !.pc = "executing",
                                       !.attempt = jobs[j].attempts,
                                       !.found = j[1] \in MemoSources => j[1][2] \in memos]
    <3>2. workers' = [workers EXCEPT ![w] = r] /\ workers \in [Workers -> WorkerRecord]
      BY <1>5, <2>2 DEF StartJob, TypeOK
    <3>3. /\ r \in WorkerRecord /\ HoldsJob(w)
          /\ r.job = workers[w].job /\ r.budget = workers[w].budget
      <4> DEFINE Started(a, b) == [workers[w] EXCEPT !.pc = "executing",
                                                     !.attempt = a, !.found = b]
      <4>1. ASSUME NEW a \in Nat, NEW b \in BOOLEAN
            PROVE  /\ Started(a, b) \in WorkerRecord
                   /\ Started(a, b).job = workers[w].job
                   /\ Started(a, b).budget = workers[w].budget
        BY <3>2 DEF WorkerRecord
      <4>2. (j[1] \in MemoSources => j[1][2] \in memos) \in BOOLEAN
        OBVIOUS
      <4>3. r = Started(jobs[j].attempts, j[1] \in MemoSources => j[1][2] \in memos)
        OBVIOUS
      <4>4. HoldsJob(w)
        BY <1>5 DEF StartJob, HoldsJob
      <4> HIDE DEF Started, r
      <4> QED BY <3>1, <4>1, <4>2, <4>3, <4>4
    <3>4. workers' \in [Workers -> WorkerRecord]
      BY <3>2, <3>3
    <3>5. \A v \in Workers : HoldsJob(v)' => workers'[v].job \in JobIds /\ workers'[v].budget > 0
      <4>1. \A v \in Workers \ {w} : workers'[v] = workers[v]
        BY <3>2
      <4>2. workers'[w].job = workers[w].job /\ workers'[w].budget = workers[w].budget
        BY <3>2, <3>3
      <4> QED BY <3>3, <4>1, <4>2 DEF TypeOK, HoldsJob
    <3> QED BY <1>5, <3>4, <3>5 DEF StartJob, TypeOK, env, HoldsJob
  <2> QED BY <2>1, <2>2
<1>6. CASE RestartWorker(w)
  BY IdleTyped, <1>6, BoundsAssumption DEF RestartWorker, TypeOK, HoldsJob
<1> QED BY <1>2, <1>3, <1>4, <1>5, <1>6

LEMMA EnqueueStepTyped ==
    ASSUME TypeOK, NEW w \in Workers,
           \/ EnqueueCurrentDocument(w) \/ EnqueueCurrentMemo(w)
           \/ EnqueueScheduledScan(w)
    PROVE  TypeOK'
<1>1. ASSUME NEW phase, NEW prio \in Priorities, PutOne(w, phase, prio),
             phase \in {"putDocuments", "putMemos"}
      PROVE  TypeOK'
  <2>1. PICK source \in workers[w].todo :
          /\ Enqueue(source, prio, FALSE)
          /\ workers' = [workers EXCEPT ![w].todo = @ \ {source}]
    BY <1>1 DEF PutOne
  <2>2. source \in Sources
    BY DEF TypeOK, WorkerRecord
  <2>3. jobs' \in [JobIds -> JobRecord]
    BY <2>1, <2>2, EnqueueTyped
  <2>4. /\ workers' \in [Workers -> WorkerRecord]
        /\ \A v \in Workers : /\ workers'[v].pc = workers[v].pc
                              /\ workers'[v].job = workers[v].job
                              /\ workers'[v].budget = workers[v].budget
    BY <2>1 DEF TypeOK, WorkerRecord
  <2> QED BY <1>1, <2>3, <2>4 DEF PutOne, TypeOK, env, HoldsJob
<1>2. CASE EnqueueCurrentDocument(w)
  BY <1>1, <1>2 DEF EnqueueCurrentDocument, Priorities
<1>3. CASE EnqueueCurrentMemo(w)
  BY <1>1, <1>3 DEF EnqueueCurrentMemo, Priorities
<1>4. CASE EnqueueScheduledScan(w)
  <2>1. jobs' \in [JobIds -> JobRecord]
    BY <1>4, NamedSources, EnqueueTyped, ZenonT(40) DEF EnqueueScheduledScan, Priorities, TypeOK
  <2>2. /\ workers \in [Workers -> WorkerRecord]
        /\ workers' = [workers EXCEPT ![w].pc = "process", ![w].budget = MaxJobsPerCycle]
    BY <1>4 DEF EnqueueScheduledScan, TypeOK
  <2>3. workers' \in [Workers -> WorkerRecord]
    <3>1. MaxJobsPerCycle \in 0..MaxJobsPerCycle
      BY BoundsAssumption
    <3>2. [workers[w] EXCEPT !.pc = "process", !.budget = MaxJobsPerCycle] \in WorkerRecord
      BY <2>2, <3>1 DEF WorkerRecord
    <3> QED BY <2>2, <3>2
  <2>4. \A v \in Workers : HoldsJob(v)' => HoldsJob(v) /\ workers'[v] = workers[v]
    BY <2>2 DEF WorkerRecord, HoldsJob
  <2> QED BY <1>4, <2>1, <2>3, <2>4 DEF EnqueueScheduledScan, TypeOK, env, HoldsJob
<1> QED BY <1>2, <1>3, <1>4

LEMMA AttemptTyped ==
    ASSUME TypeOK, NEW w \in Workers,
           ClaimJob(w) \/ CompleteJob(w) \/ FailJob(w)
    PROVE  TypeOK'
<1>1. CASE ClaimJob(w)
  <2>1. PICK j \in Claimable :
          /\ jobs' = [jobs EXCEPT ![j].status = "running", ![j].attempts = @ + 1,
                                  ![j].stale = FALSE]
          /\ workers' = [workers EXCEPT ![w].pc = "claimed", ![w].job = j]
    BY <1>1 DEF ClaimJob
  <2>2. j \in JobIds
    BY DEF Claimable
  <2>3. jobs' \in [JobIds -> JobRecord]
    BY <2>1, <2>2 DEF TypeOK, JobRecord
  <2>4. workers' \in [Workers -> WorkerRecord]
    <3>1. workers \in [Workers -> WorkerRecord]
      BY DEF TypeOK
    <3> QED BY <2>1, <2>2, <3>1, ZenonT(40) DEF WorkerRecord
  <2>5. \A v \in Workers : HoldsJob(v)' => /\ workers'[v].job \in JobIds
                                            /\ workers'[v].budget > 0
    <3> SUFFICES ASSUME NEW v \in Workers, HoldsJob(v)'
                 PROVE  workers'[v].job \in JobIds /\ workers'[v].budget > 0
      OBVIOUS
    <3>1. CASE v = w
      <4>1. workers[w] \in WorkerRecord /\ workers[w].budget > 0
        BY <1>1 DEF ClaimJob, TypeOK
      <4>2. workers'[w] = [workers[w] EXCEPT !.pc = "claimed", !.job = j]
        BY <2>1 DEF TypeOK
      <4> QED BY <2>2, <3>1, <4>1, <4>2 DEF WorkerRecord
    <3>2. CASE v # w
      BY <2>1, <3>2 DEF TypeOK, HoldsJob
    <3> QED BY <3>1, <3>2
  <2> QED BY <1>1, <2>3, <2>4, <2>5 DEF ClaimJob, TypeOK, env, HoldsJob
<1>2. ASSUME Finished(w), workers[w].pc = "executing"
      PROVE  /\ workers' \in [Workers -> WorkerRecord]
             /\ \A v \in Workers : HoldsJob(v)' => /\ workers'[v].job \in JobIds
                                                   /\ workers'[v].budget > 0
  BY <1>2, BoundsAssumption DEF Finished, TypeOK, WorkerRecord, HoldsJob
<1>3. CASE CompleteJob(w)
  <2>1. jobs' \in [JobIds -> JobRecord]
    BY <1>3, ZenonT(40) DEF CompleteJob, TypeOK, JobRecord
  <2> QED BY <1>2, <1>3, <2>1 DEF CompleteJob, TypeOK, env, HoldsJob
<1>4. CASE FailJob(w)
  <2>1. workers[w].job \in JobIds /\ workers[w].attempt \in Nat
    BY <1>4 DEF FailJob, TypeOK, WorkerRecord, HoldsJob
  <2>2. jobs' \in [JobIds -> JobRecord]
    <3> DEFINE j == workers[w].job
               failed == workers[w].attempt >= MaxOf(j)
    <3>1. jobs[j] \in JobRecord /\ failed \in BOOLEAN
      BY <2>1, MaxOfPositive DEF TypeOK
    <3>2. [jobs[j] EXCEPT !.status = IF failed THEN "failed" ELSE "queued",
                          !.due = failed, !.stale = FALSE] \in JobRecord
      BY <3>1 DEF JobRecord
    <3> QED BY <1>4, <2>1, <3>1, <3>2 DEF FailJob, TypeOK
  <2> QED BY <1>2, <1>4, <2>2 DEF FailJob, TypeOK, env, HoldsJob
<1> QED BY <1>1, <1>3, <1>4

LEMMA RequestTyped ==
    ASSUME TypeOK,
           \/ \E d \in Docs : ImportDocument(d) \/ RetireDocument(d)
           \/ \E m \in Memos : RegisterMemo(m) \/ DeleteMemo(m)
           \/ \E t \in Scans : RequestScan(t)
           \/ \E t \in Rebuilds : RequestRebuild(t)
           \/ EnqueueCall \/ RestartServer \/ Upgrade \/ NextHour
           \/ ClockAdvances
    PROVE  TypeOK'
<1>1. ASSUME NEW d \in Docs, ImportDocument(d) PROVE TypeOK'
  <2>1. [source : {Document(e) : e \in current'}, requeue : {FALSE}] \subseteq Call
    BY <1>1, NamedSources DEF ImportDocument, TypeOK, Call
  <2> QED BY <1>1, <2>1 DEF ImportDocument, TypeOK, HoldsJob
<1>2. ASSUME NEW d \in Docs, RetireDocument(d) PROVE TypeOK'
  BY <1>2 DEF RetireDocument, TypeOK, HoldsJob
<1>3. ASSUME NEW m \in Memos, RegisterMemo(m) PROVE TypeOK'
  <2>1. [source |-> Memo(m), requeue |-> m \in memos] \in Call
    BY NamedSources DEF Call
  <2>2. requests' \in 0..MaxRequests
    BY <1>3, BoundsAssumption DEF RegisterMemo, TypeOK
  <2> QED BY <1>3, <2>1, <2>2 DEF RegisterMemo, TypeOK, HoldsJob
<1>4. ASSUME NEW m \in Memos, DeleteMemo(m) PROVE TypeOK'
  <2>1. NoJob \in JobRecord
    BY DEF NoJob, JobRecord, Priorities
  <2> QED BY <1>4, <2>1 DEF DeleteMemo, TypeOK, HoldsJob
<1>5. ASSUME NEW t \in Scans, RequestScan(t) PROVE TypeOK'
  <2>1. jobs' \in [JobIds -> JobRecord]
    BY <1>5, NamedSources, EnqueueTyped DEF RequestScan, Priorities
  <2> QED BY <1>5, <2>1 DEF RequestScan, TypeOK, HoldsJob, env
<1>6. ASSUME NEW t \in Rebuilds, RequestRebuild(t) PROVE TypeOK'
  <2>1. Rebuild(t) \in Sources
    BY NamedSources
  <2>2. jobs' \in [JobIds -> JobRecord]
    BY <1>6, <2>1, EnqueueTyped DEF RequestRebuild, Priorities
  <2> QED BY <1>6, <2>2 DEF RequestRebuild, TypeOK, HoldsJob, env
<1>7. CASE EnqueueCall
  <2>1. PICK c \in calls :
          /\ Enqueue(c.source, IF c.source \in MemoSources THEN 40 ELSE 50, c.requeue)
          /\ calls' = calls \ {c}
    BY <1>7 DEF EnqueueCall
  <2>2. c.source \in Sources /\ c.requeue \in BOOLEAN
    BY DEF TypeOK, Call
  <2>3. jobs' \in [JobIds -> JobRecord]
    BY <2>1, <2>2, EnqueueTyped DEF Priorities
  <2> QED BY <1>7, <2>1, <2>3 DEF EnqueueCall, TypeOK, HoldsJob
<1>8. CASE RestartServer
  BY <1>8, BoundsAssumption DEF RestartServer, TypeOK, HoldsJob
<1>9. CASE Upgrade
  BY <1>9, BoundsAssumption, IdleTyped DEF Upgrade, TypeOK, HoldsJob, Versions
<1>10. CASE NextHour
  BY <1>10, BoundsAssumption DEF NextHour, TypeOK, HoldsJob
<1>11. CASE ClockAdvances
  <2>1. PICK j \in JobIds : /\ \/ jobs' = [jobs EXCEPT ![j].due = TRUE]
                              \/ jobs' = [jobs EXCEPT ![j].stale = TRUE]
                           /\ UNCHANGED <<workers, env>>
    BY <1>11 DEF ClockAdvances, BackoffElapses, LeaseExpires
  <2>2. /\ [jobs[j] EXCEPT !.due = TRUE] \in JobRecord
        /\ [jobs[j] EXCEPT !.stale = TRUE] \in JobRecord
    BY DEF TypeOK, JobRecord
  <2>3. jobs' \in [JobIds -> JobRecord]
    BY <2>1, <2>2 DEF TypeOK
  <2> QED BY <2>1, <2>3 DEF TypeOK, HoldsJob, env
<1> QED BY <1>1, <1>2, <1>3, <1>4, <1>5, <1>6, <1>7, <1>8, <1>9, <1>10, <1>11

LEMMA StepTyped == TypeOK /\ [Next]_vars => TypeOK'
<1> SUFFICES ASSUME TypeOK, [Next]_vars PROVE TypeOK'
  OBVIOUS
<1>1. CASE UNCHANGED vars
  BY <1>1 DEF vars, env, TypeOK, HoldsJob
<1>2. ASSUME NEW w \in Workers, WorkerStep(w) \/ RestartWorker(w) PROVE TypeOK'
  BY <1>2, RecoverTyped, CycleTyped, EnqueueStepTyped, AttemptTyped DEF WorkerStep
<1> QED BY <1>1, <1>2, RequestTyped DEF Next

\* The table, the processes' memory and the clock keep their types, and a
\* worker that holds a job knows which and has budget left for it.
THEOREM Typing == Spec => []TypeOK
BY InitTyped, StepTyped, PTL DEF Spec

-----------------------------------------------------------------------------
(* A legacy rebuild runs at most once, for any number of workers.          *)

\* Only memo jobs are woken up by an enqueue, and a rebuild that was claimed, or
\* that a worker still holds, has spent its only attempt.
OnlyMemosRequeue == \A c \in calls : c.requeue => c.source \in MemoSources

RebuildSpent ==
    \A j \in RebuildJobs :
      /\ jobs[j].status \notin {"absent", "queued"} => jobs[j].attempts >= 1
      /\ \A w \in Workers :
           Executing(w, j) =>
             /\ jobs[j].status \notin {"absent", "queued"}
             /\ workers[w].pc = "executing" => workers[w].attempt >= 1

RebuildInv == TypeOK /\ OnlyMemosRequeue /\ RebuildSpent

WakesOnlyMemos(s, requeue) == requeue => s \in MemoSources

\* An enqueue leaves every job alone that is there already, unless it wakes up a
\* failed job of a memo.
LEMMA EnqueueLeaves ==
    ASSUME TypeOK, NEW s \in Sources, NEW prio, NEW requeue \in BOOLEAN,
           Enqueue(s, prio, requeue), WakesOnlyMemos(s, requeue),
           NEW j \in JobIds
    PROVE  \/ jobs'[j] = jobs[j]
           \/ /\ jobs[j].status = "absent"
              /\ jobs'[j] = NewJob(prio)
           \/ /\ j \in MemoJobs /\ jobs[j].status = "failed"
              /\ jobs'[j].status = "queued" /\ jobs'[j].attempts = 0
<1>1. CASE j # <<s, version>>
  BY <1>1 DEF Enqueue, TypeOK
<1>2. CASE j = <<s, version>>
  <2>1. jobs'[j] = Enqueued(jobs[j], prio, requeue)
    BY <1>2 DEF Enqueue, TypeOK
  <2>2. requeue => j \in MemoJobs
    BY <1>2, KindsOfJobs DEF WakesOnlyMemos
  <2>3. jobs[j] \in JobRecord
    BY DEF TypeOK
  <2> QED BY <2>1, <2>2, <2>3 DEF Enqueued, JobRecord
<1> QED BY <1>1, <1>2

LEMMA RequeueStep == TypeOK /\ OnlyMemosRequeue /\ [Next]_vars => OnlyMemosRequeue'
<1> SUFFICES ASSUME TypeOK, OnlyMemosRequeue, [Next]_vars PROVE OnlyMemosRequeue'
  OBVIOUS
<1>1. CASE calls' \subseteq calls
  BY <1>1 DEF OnlyMemosRequeue
<1>2. ASSUME NEW d \in Docs, ImportDocument(d) PROVE OnlyMemosRequeue'
  <2>1. \A c \in [source : {Document(e) : e \in current'}, requeue : {FALSE}] : ~c.requeue
    OBVIOUS
  <2>2. calls' \in {calls, calls \cup [source : {Document(e) : e \in current'},
                                        requeue : {FALSE}]}
    BY <1>2 DEF ImportDocument
  <2> QED BY <2>1, <2>2 DEF OnlyMemosRequeue
<1>3. ASSUME NEW m \in Memos, RegisterMemo(m) PROVE OnlyMemosRequeue'
  BY <1>3, NamedSources DEF RegisterMemo, OnlyMemosRequeue
<1>4. ASSUME NEW w \in Workers, WorkerStep(w) \/ RestartWorker(w)
      PROVE  calls' \subseteq calls
  BY <1>4 DEF WorkerStep, RecoverStaleJobs, ReadDocuments, EnqueueCurrentDocument,
     PutOne, ReadMemos, EnqueueCurrentMemo, EnqueueScheduledScan, ClaimJob, EndCycle,
     StartJob, CompleteJob, FailJob, RestartWorker, env
<1> QED
  BY <1>1, <1>2, <1>3, <1>4
  DEF Next, RetireDocument, DeleteMemo, RequestScan, RequestRebuild, EnqueueCall,
      RestartServer, Upgrade, NextHour, ClockAdvances, BackoffElapses, LeaseExpires,
      vars, env

\* What a step may do to a rebuild j and to the workers that hold it.
RebuildMoves(j) ==
    /\ jobs[j].status \notin {"absent", "queued"} => jobs'[j].status \notin {"absent", "queued"}
    /\ jobs'[j].status \notin {"absent", "queued"} => jobs'[j].attempts >= 1
    /\ \A w \in Workers : Executing(w, j)' =>
         /\ jobs'[j].status \notin {"absent", "queued"}
         /\ workers'[w].pc = "executing" => workers'[w].attempt >= 1

\* A step that neither changes the row beyond its timers nor who holds it.
LEMMA RebuildKept ==
    ASSUME RebuildInv, NEW j \in RebuildJobs,
           jobs'[j].status = jobs[j].status, jobs'[j].attempts = jobs[j].attempts,
           \A w \in Workers : HoldsJob(w)' => workers'[w] = workers[w]
    PROVE  RebuildMoves(j)
BY DEF RebuildInv, RebuildSpent, RebuildMoves, Executing, HoldsJob

\* An enqueue by anybody who changes no worker that holds a job.
LEMMA RebuildEnqueue ==
    ASSUME RebuildInv, NEW j \in RebuildJobs, NEW s \in Sources, NEW prio,
           NEW requeue \in BOOLEAN, Enqueue(s, prio, requeue),
           WakesOnlyMemos(s, requeue),
           \A w \in Workers : HoldsJob(w)' => workers'[w] = workers[w]
    PROVE  RebuildMoves(j)
<1>1. j \in JobIds /\ j \notin MemoJobs
  BY KindsOfJobs
<1>2. \/ jobs'[j] = jobs[j]
      \/ /\ jobs[j].status = "absent"
         /\ jobs'[j] = NewJob(prio)
  BY <1>1, EnqueueLeaves DEF RebuildInv
<1>3. CASE jobs'[j] = jobs[j]
  BY <1>3, RebuildKept
<1>4. CASE /\ jobs[j].status = "absent"
           /\ jobs'[j] = NewJob(prio)
  <2>1. jobs'[j].status = "queued"
    BY <1>4 DEF NewJob
  <2>2. \A w \in Workers : ~Executing(w, j)'
    BY <1>4 DEF RebuildInv, RebuildSpent, Executing, HoldsJob
  <2> QED BY <1>4, <2>1, <2>2 DEF RebuildMoves
<1> QED BY <1>2, <1>3, <1>4

LEMMA RebuildCycle ==
    ASSUME RebuildInv, NEW j \in RebuildJobs, NEW w \in Workers,
           WorkerStep(w) \/ RestartWorker(w)
    PROVE  RebuildMoves(j)
<1>1. /\ TypeOK /\ RebuildSpent /\ j \in JobIds /\ j \notin MemoJobs
      /\ MaxOf(j) = 1 /\ Idle.pc = "idle"
      /\ workers \in [Workers -> WorkerRecord] /\ jobs \in [JobIds -> JobRecord]
  BY KindsOfJobs, IdleTyped DEF RebuildInv, MaxOf, TypeOK
<1>2. CASE RecoverStaleJobs(w)
  <2>1. \/ jobs'[j] = jobs[j]
        \/ /\ jobs[j].status = "running"
           /\ jobs'[j].status = "failed" /\ jobs'[j].attempts = jobs[j].attempts
    BY <1>1, <1>2 DEF RecoverStaleJobs, Recovered, RebuildSpent, JobRecord
  <2>2. \A v \in Workers : HoldsJob(v)' => workers'[v] = workers[v]
    BY <1>1, <1>2 DEF RecoverStaleJobs, HoldsJob, WorkerRecord
  <2> QED BY <1>1, <2>1, <2>2 DEF RebuildMoves, RebuildSpent, Executing, HoldsJob
<1>3. CASE \/ ReadDocuments(w) \/ ReadMemos(w) \/ EndCycle(w) \/ RestartWorker(w)
  <2>1. jobs' = jobs
    BY <1>3 DEF ReadDocuments, ReadMemos, EndCycle, RestartWorker
  <2>2. \A v \in Workers : HoldsJob(v)' => workers'[v] = workers[v]
    BY <1>1, <1>3
    DEF ReadDocuments, ReadMemos, EndCycle, RestartWorker, HoldsJob, WorkerRecord
  <2> QED BY <2>1, <2>2, RebuildKept
<1>4. ASSUME NEW phase \in {"putDocuments", "putMemos"}, NEW prio, PutOne(w, phase, prio)
      PROVE  RebuildMoves(j)
  <2>1. PICK source \in workers[w].todo :
          /\ Enqueue(source, prio, FALSE)
          /\ workers' = [workers EXCEPT ![w].todo = @ \ {source}]
    BY <1>4 DEF PutOne
  <2>2. source \in Sources /\ WakesOnlyMemos(source, FALSE)
    BY <1>1 DEF WorkerRecord, WakesOnlyMemos
  <2>3. \A v \in Workers : HoldsJob(v)' => workers'[v] = workers[v]
    BY <1>1, <1>4, <2>1 DEF PutOne, HoldsJob, WorkerRecord
  <2> QED BY <2>1, <2>2, <2>3, RebuildEnqueue
<1>5. CASE EnqueueCurrentDocument(w) \/ EnqueueCurrentMemo(w)
  BY <1>4, <1>5 DEF EnqueueCurrentDocument, EnqueueCurrentMemo
<1>6. CASE EnqueueScheduledScan(w)
  <2>1. HourlyScan(hour) \in Sources /\ WakesOnlyMemos(HourlyScan(hour), FALSE)
    BY <1>1, NamedSources DEF WakesOnlyMemos, TypeOK
  <2>2. \A v \in Workers : HoldsJob(v)' => workers'[v] = workers[v]
    BY <1>1, <1>6 DEF EnqueueScheduledScan, HoldsJob, WorkerRecord
  <2> QED BY <1>6, <2>1, <2>2, RebuildEnqueue DEF EnqueueScheduledScan
<1>7. CASE ClaimJob(w)
  <2>1. PICK k \in Claimable :
          /\ jobs' = [jobs EXCEPT ![k].status = "running", ![k].attempts = @ + 1,
                                  ![k].stale = FALSE]
          /\ workers' = [workers EXCEPT ![w].pc = "claimed", ![w].job = k]
    BY <1>7 DEF ClaimJob
  <2>2. k \in JobIds /\ jobs[k].status = "queued" /\ jobs[k].attempts \in Nat
    BY <1>1 DEF Claimable, Ready, JobRecord
  <2>3. CASE k = j
    <3>1. jobs'[j].status = "running" /\ jobs'[j].attempts >= 1
      BY <1>1, <2>1, <2>2, <2>3 DEF JobRecord
    <3>2. \A v \in Workers : v # w => ~Executing(v, j)'
      BY <1>1, <2>1, <2>2, <2>3 DEF RebuildSpent, Executing, HoldsJob
    <3>3. workers'[w].pc = "claimed"
      BY <1>1, <2>1 DEF WorkerRecord
    <3> QED BY <3>1, <3>2, <3>3 DEF RebuildMoves
  <2>4. CASE k # j
    <3>1. jobs'[j] = jobs[j]
      BY <1>1, <2>1, <2>2, <2>4
    <3>2. \A v \in Workers : Executing(v, j)' => v # w /\ workers'[v] = workers[v]
      BY <1>1, <2>1, <2>4 DEF Executing, WorkerRecord
    <3> QED BY <1>1, <3>1, <3>2 DEF RebuildMoves, RebuildSpent, Executing, HoldsJob
  <2> QED BY <2>3, <2>4
<1>8. CASE StartJob(w)
  <2>1. jobs' = jobs
    BY <1>8 DEF StartJob
  <2>2. \A v \in Workers : v # w => workers'[v] = workers[v]
    BY <1>1, <1>8 DEF StartJob
  <2>3. Executing(w, j)' => Executing(w, j) /\ workers'[w].attempt = jobs[j].attempts
    BY <1>1, <1>8 DEF StartJob, Executing, HoldsJob, WorkerRecord
  <2> QED BY <1>1, <2>1, <2>2, <2>3 DEF RebuildMoves, RebuildSpent, Executing, HoldsJob
<1>9. ASSUME Finished(w)
      PROVE  \A v \in Workers : HoldsJob(v)' => workers'[v] = workers[v]
  BY <1>1, <1>9 DEF Finished, HoldsJob, WorkerRecord
<1>10. CASE CompleteJob(w)
  <2>1. \/ jobs'[j] = jobs[j]
        \/ /\ Executing(w, j) /\ jobs'[j].status = "completed"
           /\ jobs'[j].attempts = jobs[j].attempts
    BY <1>1, <1>10 DEF CompleteJob, Executing, HoldsJob, JobRecord
  <2>2. \A v \in Workers : HoldsJob(v)' => workers'[v] = workers[v]
    BY <1>9, <1>10 DEF CompleteJob
  <2> QED BY <1>1, <2>1, <2>2 DEF RebuildMoves, RebuildSpent, Executing, HoldsJob
<1>11. CASE FailJob(w)
  <2>1. \/ jobs'[j] = jobs[j]
        \/ /\ Executing(w, j) /\ jobs'[j].attempts = jobs[j].attempts
           /\ workers[w].attempt >= 1 => jobs'[j].status = "failed"
    BY <1>1, <1>11 DEF FailJob, Executing, HoldsJob, JobRecord
  <2>2. \A v \in Workers : HoldsJob(v)' => workers'[v] = workers[v]
    BY <1>9, <1>11 DEF FailJob
  <2>3. Executing(w, j) => workers[w].attempt >= 1
    BY <1>1, <1>11 DEF FailJob, RebuildSpent
  <2> QED BY <1>1, <2>1, <2>2, <2>3 DEF RebuildMoves, RebuildSpent, Executing, HoldsJob
<1> QED
  BY <1>2, <1>3, <1>5, <1>6, <1>7, <1>8, <1>10, <1>11 DEF WorkerStep

LEMMA RebuildRequest ==
    ASSUME RebuildInv, NEW j \in RebuildJobs,
           \/ \E d \in Docs : ImportDocument(d) \/ RetireDocument(d)
           \/ \E m \in Memos : RegisterMemo(m) \/ DeleteMemo(m)
           \/ \E t \in Scans : RequestScan(t)
           \/ \E t \in Rebuilds : RequestRebuild(t)
           \/ EnqueueCall \/ RestartServer \/ Upgrade \/ NextHour
           \/ ClockAdvances \/ UNCHANGED vars
    PROVE  RebuildMoves(j)
<1>1. /\ TypeOK /\ OnlyMemosRequeue /\ j \in JobIds /\ j[1] \notin MemoSources
      /\ jobs \in [JobIds -> JobRecord]
  BY KindsOfJobs DEF RebuildInv, TypeOK
<1>2. ASSUME UNCHANGED jobs, UNCHANGED workers PROVE RebuildMoves(j)
  BY <1>2, RebuildKept
<1>3. ASSUME NEW d \in Docs, ImportDocument(d) \/ RetireDocument(d) PROVE RebuildMoves(j)
  BY <1>2, <1>3 DEF ImportDocument, RetireDocument
<1>4. ASSUME NEW m \in Memos, RegisterMemo(m) PROVE RebuildMoves(j)
  BY <1>2, <1>4 DEF RegisterMemo
<1>5. ASSUME NEW m \in Memos, DeleteMemo(m) PROVE RebuildMoves(j)
  <2>1. jobs'[j] = jobs[j]
    BY <1>1, <1>5, NamedSources DEF DeleteMemo
  <2> QED BY <1>5, <2>1, RebuildKept DEF DeleteMemo
<1>6. ASSUME NEW s \in Sources, NEW prio, Enqueue(s, prio, FALSE), UNCHANGED workers
      PROVE  RebuildMoves(j)
  <2>1. WakesOnlyMemos(s, FALSE)
    BY DEF WakesOnlyMemos
  <2> QED BY <1>6, <2>1, RebuildEnqueue
<1>7. ASSUME NEW t \in Scans, RequestScan(t) PROVE RebuildMoves(j)
  BY <1>6, <1>7, NamedSources DEF RequestScan
<1>8. ASSUME NEW t \in Rebuilds, RequestRebuild(t) PROVE RebuildMoves(j)
  <2>1. Rebuild(t) \in Sources
    BY NamedSources
  <2> QED BY <1>6, <1>8, <2>1 DEF RequestRebuild
<1>9. CASE EnqueueCall
  <2>1. PICK c \in calls :
          Enqueue(c.source, IF c.source \in MemoSources THEN 40 ELSE 50, c.requeue)
    BY <1>9 DEF EnqueueCall
  <2>2. c.source \in Sources /\ c.requeue \in BOOLEAN /\ WakesOnlyMemos(c.source, c.requeue)
    BY <1>1 DEF TypeOK, Call, OnlyMemosRequeue, WakesOnlyMemos
  <2>3. \A w \in Workers : HoldsJob(w)' => workers'[w] = workers[w]
    BY <1>9 DEF EnqueueCall
  <2> QED BY <2>1, <2>2, <2>3, RebuildEnqueue
<1>10. CASE RestartServer \/ NextHour \/ UNCHANGED vars
  BY <1>2, <1>10 DEF RestartServer, NextHour, vars
<1>11. CASE Upgrade
  BY <1>11, IdleTyped, RebuildKept DEF Upgrade, HoldsJob
<1>12. CASE ClockAdvances
  <2>1. PICK k \in JobIds : \/ jobs' = [jobs EXCEPT ![k].due = TRUE]
                            \/ jobs' = [jobs EXCEPT ![k].stale = TRUE]
    BY <1>12 DEF ClockAdvances, BackoffElapses, LeaseExpires
  <2>2. jobs'[j].status = jobs[j].status /\ jobs'[j].attempts = jobs[j].attempts
    BY <1>1, <2>1 DEF JobRecord
  <2>3. UNCHANGED workers
    BY <1>12 DEF ClockAdvances, BackoffElapses, LeaseExpires
  <2> QED BY <2>2, <2>3, RebuildKept
<1> QED
  BY <1>3, <1>4, <1>5, <1>7, <1>8, <1>9, <1>10, <1>11, <1>12

LEMMA RebuildStep ==
    ASSUME RebuildInv, [Next]_vars
    PROVE  RebuildInv' /\ \A j \in RebuildJobs : RebuildMoves(j)
<1>1. \A j \in RebuildJobs : RebuildMoves(j)
  BY RebuildCycle, RebuildRequest DEF Next
<1>2. TypeOK' /\ OnlyMemosRequeue'
  BY StepTyped, RequeueStep DEF RebuildInv
<1>3. RebuildSpent'
  BY <1>1 DEF RebuildSpent, RebuildMoves
<1> QED BY <1>1, <1>2, <1>3 DEF RebuildInv

\* For any number of workers, a legacy rebuild that was claimed never returns to
\* the queue.
THEOREM RebuildRunsOnce == Spec => RebuildOnce
<1>1. Init => RebuildInv
  <2> SUFFICES ASSUME Init PROVE RebuildInv
    OBVIOUS
  <2>1. \A w \in Workers : ~HoldsJob(w)
    BY IdleTyped DEF Init, HoldsJob
  <2>2. \A j \in RebuildJobs : jobs[j].status = "absent"
    BY KindsOfJobs DEF Init, NoJob
  <2> QED
    BY <2>1, <2>2, InitTyped DEF Init, RebuildInv, OnlyMemosRequeue, RebuildSpent, Executing
<1>2. RebuildInv /\ [Next]_vars => RebuildInv'
  BY RebuildStep
<1>3. RebuildInv /\ [Next]_vars =>
        [\A j \in RebuildJobs :
           jobs[j].status \notin {"absent", "queued"} => jobs'[j].status # "queued"]_vars
  BY RebuildStep DEF RebuildMoves
<1> QED BY <1>1, <1>2, <1>3, PTL DEF Spec, RebuildOnce

-----------------------------------------------------------------------------
(* One worker, as deployed: retries stay within their budget, a job that   *)
(* is given up has used it, and the queue implements JobLifecycle.         *)

\* There is at most one worker process.
SingleWorker == \A v, w \in Workers : v = w

\* Whoever holds a job owns the row, unless the memo was deleted meanwhile and
\* perhaps registered again: then the row is gone or is a new one.
Owned(j) ==
    \A w \in Workers : Executing(w, j) =>
      \/ /\ jobs[j].status = "running"
         /\ workers[w].pc = "executing" => workers[w].attempt = jobs[j].attempts
      \/ /\ j \in MemoJobs
         /\ jobs[j].status = "absent" \/ (jobs[j].status = "queued" /\ jobs[j].attempts = 0)

Budgeted(j) ==
    /\ jobs[j].attempts <= MaxOf(j)
    /\ jobs[j].status = "queued" => jobs[j].attempts < MaxOf(j)
    /\ j \notin MemoJobs /\ jobs[j].status = "failed" => jobs[j].attempts = MaxOf(j)

JobInv(j) == Owned(j) /\ Budgeted(j)

QueueInv == TypeOK /\ OnlyMemosRequeue /\ \A j \in JobIds : JobInv(j)

Open == {"queued", "running"}

\* The moves of the lifecycle, in terms of the status column.
StatusMoves(j) ==
    \/ jobs'[j].status = jobs[j].status
    \/ jobs[j].status \in Open /\ jobs'[j].status \in Open \cup {"completed", "failed"}
    \/ jobs[j].status = "absent" /\ jobs'[j].status \in Open
    \/ j \in MemoJobs /\ jobs[j].status = "failed" /\ jobs'[j].status \in Open
    \/ j \in MemoJobs /\ jobs'[j].status = "absent"

LEMMA JobKept ==
    ASSUME NEW j \in JobIds, JobInv(j),
           jobs'[j].status = jobs[j].status, jobs'[j].attempts = jobs[j].attempts,
           \A w \in Workers : HoldsJob(w)' => workers'[w] = workers[w]
    PROVE  JobInv(j)' /\ StatusMoves(j)
<1>1. Owned(j)'
  BY DEF JobInv, Owned, Executing, HoldsJob
<1>2. Budgeted(j)'
  BY DEF JobInv, Budgeted
<1> QED BY <1>1, <1>2 DEF JobInv, StatusMoves

LEMMA JobEnqueue ==
    ASSUME QueueInv, NEW j \in JobIds, NEW s \in Sources, NEW prio,
           NEW requeue \in BOOLEAN, Enqueue(s, prio, requeue),
           WakesOnlyMemos(s, requeue),
           \A w \in Workers : HoldsJob(w)' => workers'[w] = workers[w]
    PROVE  JobInv(j)' /\ StatusMoves(j)
<1>1. JobInv(j) /\ MaxOf(j) \in Nat \ {0}
  BY MaxOfPositive DEF QueueInv
<1>2. \/ jobs'[j] = jobs[j]
      \/ /\ jobs[j].status = "absent"
         /\ jobs'[j] = NewJob(prio)
      \/ /\ j \in MemoJobs /\ jobs[j].status = "failed"
         /\ jobs'[j].status = "queued" /\ jobs'[j].attempts = 0
  BY EnqueueLeaves DEF QueueInv
<1>3. CASE jobs'[j] = jobs[j]
  BY <1>1, <1>3, JobKept
<1>4. CASE /\ jobs[j].status \in {"absent", "failed"}
           /\ jobs[j].status = "failed" => j \in MemoJobs
           /\ jobs'[j].status = "queued" /\ jobs'[j].attempts = 0
  <2>1. Owned(j)'
    BY <1>1, <1>4 DEF JobInv, Owned, Executing, HoldsJob
  <2>2. Budgeted(j)'
    BY <1>1, <1>4 DEF Budgeted
  <2>3. StatusMoves(j)
    BY <1>4 DEF StatusMoves, Open
  <2> QED BY <2>1, <2>2, <2>3 DEF JobInv
<1> QED BY <1>2, <1>3, <1>4 DEF NewJob

LEMMA JobCycle ==
    ASSUME SingleWorker, QueueInv, NEW j \in JobIds, NEW w \in Workers,
           WorkerStep(w) \/ RestartWorker(w)
    PROVE  JobInv(j)' /\ StatusMoves(j)
<1>1. /\ TypeOK /\ JobInv(j) /\ Idle.pc = "idle" /\ MaxOf(j) \in Nat \ {0}
      /\ workers \in [Workers -> WorkerRecord] /\ jobs \in [JobIds -> JobRecord]
      /\ jobs[j].attempts \in Nat
  BY MaxOfPositive, IdleTyped DEF QueueInv, TypeOK, JobRecord
<1>2. \A v \in Workers : v = w
  BY DEF SingleWorker
<1>3. CASE RecoverStaleJobs(w)
  <2>1. \A v \in Workers : ~Executing(v, j)'
    BY <1>1, <1>2, <1>3 DEF RecoverStaleJobs, Executing, HoldsJob, WorkerRecord
  <2>2. \/ jobs'[j] = jobs[j]
        \/ /\ jobs[j].status = "running" /\ jobs'[j].attempts = jobs[j].attempts
           /\ jobs'[j].status = IF jobs[j].attempts >= MaxOf(j) THEN "failed" ELSE "queued"
    BY <1>1, <1>3 DEF RecoverStaleJobs, Recovered, JobRecord
  <2>3. Budgeted(j)'
    BY <1>1, <2>2 DEF JobInv, Budgeted
  <2> QED BY <2>1, <2>2, <2>3 DEF JobInv, Owned, StatusMoves, Open
<1>4. CASE \/ ReadDocuments(w) \/ ReadMemos(w) \/ EndCycle(w) \/ RestartWorker(w)
  <2>1. jobs' = jobs
    BY <1>4 DEF ReadDocuments, ReadMemos, EndCycle, RestartWorker
  <2>2. \A v \in Workers : HoldsJob(v)' => workers'[v] = workers[v]
    BY <1>1, <1>4
    DEF ReadDocuments, ReadMemos, EndCycle, RestartWorker, HoldsJob, WorkerRecord
  <2> QED BY <1>1, <2>1, <2>2, JobKept
<1>5. ASSUME NEW phase \in {"putDocuments", "putMemos"}, NEW prio, PutOne(w, phase, prio)
      PROVE  JobInv(j)' /\ StatusMoves(j)
  <2>1. PICK source \in workers[w].todo :
          /\ Enqueue(source, prio, FALSE)
          /\ workers' = [workers EXCEPT ![w].todo = @ \ {source}]
    BY <1>5 DEF PutOne
  <2>2. source \in Sources /\ WakesOnlyMemos(source, FALSE)
    BY <1>1 DEF WorkerRecord, WakesOnlyMemos
  <2>3. \A v \in Workers : HoldsJob(v)' => workers'[v] = workers[v]
    BY <1>1, <1>5, <2>1 DEF PutOne, HoldsJob, WorkerRecord
  <2> QED BY <2>1, <2>2, <2>3, JobEnqueue
<1>6. CASE EnqueueCurrentDocument(w) \/ EnqueueCurrentMemo(w)
  BY <1>5, <1>6 DEF EnqueueCurrentDocument, EnqueueCurrentMemo
<1>7. CASE EnqueueScheduledScan(w)
  <2>1. HourlyScan(hour) \in Sources /\ WakesOnlyMemos(HourlyScan(hour), FALSE)
    BY <1>1, NamedSources DEF WakesOnlyMemos, TypeOK
  <2>2. \A v \in Workers : HoldsJob(v)' => workers'[v] = workers[v]
    BY <1>1, <1>7 DEF EnqueueScheduledScan, HoldsJob, WorkerRecord
  <2> QED BY <1>7, <2>1, <2>2, JobEnqueue DEF EnqueueScheduledScan
<1>8. CASE ClaimJob(w)
  <2>1. PICK k \in Claimable :
          /\ jobs' = [jobs EXCEPT ![k].status = "running", ![k].attempts = @ + 1,
                                  ![k].stale = FALSE]
          /\ workers' = [workers EXCEPT ![w].pc = "claimed", ![w].job = k]
    BY <1>8 DEF ClaimJob
  <2>2. k \in JobIds /\ jobs[k].status = "queued"
    BY DEF Claimable, Ready
  <2>3. \A v \in Workers : workers'[v].pc = "claimed" /\ (Executing(v, j)' => j = k)
    BY <1>1, <1>2, <2>1 DEF Executing, WorkerRecord
  <2>4. CASE k = j
    <3>1. /\ jobs[j].status = "queued" /\ jobs'[j].status = "running"
          /\ jobs'[j].attempts = jobs[j].attempts + 1
      BY <1>1, <2>1, <2>2, <2>4 DEF JobRecord
    <3>2. Budgeted(j)'
      BY <1>1, <3>1 DEF JobInv, Budgeted
    <3>3. Owned(j)'
      BY <2>3, <3>1 DEF Owned
    <3> QED BY <3>1, <3>2, <3>3 DEF JobInv, StatusMoves, Open
  <2>5. CASE k # j
    <3>1. jobs'[j] = jobs[j]
      BY <1>1, <2>1, <2>2, <2>5
    <3>2. Owned(j)' /\ Budgeted(j)'
      BY <1>1, <2>3, <2>5, <3>1 DEF JobInv, Owned, Budgeted
    <3> QED BY <3>1, <3>2 DEF JobInv, StatusMoves
  <2> QED BY <2>4, <2>5
<1>9. CASE StartJob(w)
  <2>1. jobs' = jobs
    BY <1>9 DEF StartJob
  <2>2. Executing(w, j)' => /\ Executing(w, j)
                            /\ workers'[w].attempt = jobs[j].attempts
    BY <1>1, <1>9 DEF StartJob, Executing, HoldsJob, WorkerRecord
  <2>3. Owned(j)'
    BY <1>1, <1>2, <2>1, <2>2 DEF JobInv, Owned
  <2>4. Budgeted(j)'
    BY <1>1, <2>1 DEF JobInv, Budgeted
  <2> QED BY <2>1, <2>3, <2>4 DEF JobInv, StatusMoves
<1>10. ASSUME Finished(w)
       PROVE  \A v \in Workers : ~HoldsJob(v)'
  BY <1>1, <1>2, <1>10 DEF Finished, HoldsJob, WorkerRecord
<1>11. CASE CompleteJob(w)
  <2>1. Owned(j)'
    BY <1>10, <1>11 DEF CompleteJob, Owned, Executing
  <2>2. \/ jobs'[j] = jobs[j]
        \/ /\ Executing(w, j) /\ jobs[j].status # "absent"
           /\ jobs'[j].status = "completed" /\ jobs'[j].attempts = jobs[j].attempts
    BY <1>1, <1>11 DEF CompleteJob, Executing, HoldsJob, JobRecord
  <2>3. Executing(w, j) => jobs[j].status \in {"absent", "queued", "running"}
    BY <1>1 DEF JobInv, Owned
  <2>4. Budgeted(j)'
    BY <1>1, <2>2 DEF JobInv, Budgeted
  <2> QED BY <2>1, <2>2, <2>3, <2>4 DEF JobInv, StatusMoves, Open
<1>12. CASE FailJob(w)
  <2>1. Owned(j)'
    BY <1>10, <1>12 DEF FailJob, Owned, Executing
  <2>2. \/ jobs'[j] = jobs[j]
        \/ /\ Executing(w, j) /\ workers[w].pc = "executing"
           /\ jobs[j].status # "absent" /\ jobs'[j].attempts = jobs[j].attempts
           /\ jobs'[j].status = IF workers[w].attempt >= MaxOf(j) THEN "failed" ELSE "queued"
    BY <1>1, <1>12 DEF FailJob, Executing, HoldsJob, JobRecord
  <2>3. CASE jobs'[j] = jobs[j]
    BY <1>1, <2>1, <2>3 DEF JobInv, Budgeted, StatusMoves
  <2>4. CASE jobs'[j] # jobs[j]
    <3>1. \/ jobs[j].status = "running" /\ workers[w].attempt = jobs[j].attempts
          \/ j \in MemoJobs /\ jobs[j].status = "queued" /\ jobs[j].attempts = 0
      BY <1>1, <2>2, <2>4 DEF JobInv, Owned
    <3>2. Budgeted(j)'
      BY <1>1, <2>2, <2>4, <3>1 DEF JobInv, Budgeted
    <3> QED BY <2>1, <2>2, <2>4, <3>1, <3>2 DEF JobInv, StatusMoves, Open
  <2> QED BY <2>3, <2>4
<1> QED
  BY <1>3, <1>4, <1>6, <1>7, <1>8, <1>9, <1>11, <1>12 DEF WorkerStep

LEMMA JobRequest ==
    ASSUME QueueInv, NEW j \in JobIds,
           \/ \E d \in Docs : ImportDocument(d) \/ RetireDocument(d)
           \/ \E m \in Memos : RegisterMemo(m) \/ DeleteMemo(m)
           \/ \E t \in Scans : RequestScan(t)
           \/ \E t \in Rebuilds : RequestRebuild(t)
           \/ EnqueueCall \/ RestartServer \/ Upgrade \/ NextHour
           \/ ClockAdvances \/ UNCHANGED vars
    PROVE  JobInv(j)' /\ StatusMoves(j)
<1>1. /\ TypeOK /\ OnlyMemosRequeue /\ JobInv(j) /\ MaxOf(j) \in Nat \ {0}
      /\ jobs \in [JobIds -> JobRecord]
  BY MaxOfPositive DEF QueueInv, TypeOK
<1>2. ASSUME UNCHANGED jobs, UNCHANGED workers PROVE JobInv(j)' /\ StatusMoves(j)
  BY <1>1, <1>2, JobKept
<1>3. ASSUME NEW d \in Docs, ImportDocument(d) \/ RetireDocument(d)
      PROVE  JobInv(j)' /\ StatusMoves(j)
  BY <1>2, <1>3 DEF ImportDocument, RetireDocument
<1>4. ASSUME NEW m \in Memos, RegisterMemo(m) PROVE JobInv(j)' /\ StatusMoves(j)
  BY <1>2, <1>4 DEF RegisterMemo
<1>5. ASSUME NEW m \in Memos, DeleteMemo(m) PROVE JobInv(j)' /\ StatusMoves(j)
  <2>1. UNCHANGED workers
    BY <1>5 DEF DeleteMemo
  <2>2. CASE j[1] = Memo(m)
    <3>1. j \in MemoJobs /\ jobs'[j].status = "absent" /\ jobs'[j].attempts = 0
      BY <1>5, <2>2, NamedSources, KindsOfJobs DEF DeleteMemo, NoJob
    <3> QED BY <1>1, <3>1 DEF JobInv, Owned, Budgeted, StatusMoves
  <2>3. CASE j[1] # Memo(m)
    <3>1. jobs'[j] = jobs[j]
      BY <1>5, <2>3 DEF DeleteMemo
    <3> QED BY <1>1, <2>1, <3>1, JobKept
  <2> QED BY <2>2, <2>3
<1>6. ASSUME NEW s \in Sources, NEW prio, Enqueue(s, prio, FALSE), UNCHANGED workers
      PROVE  JobInv(j)' /\ StatusMoves(j)
  <2>1. WakesOnlyMemos(s, FALSE)
    BY DEF WakesOnlyMemos
  <2> QED BY <1>6, <2>1, JobEnqueue
<1>7. ASSUME NEW t \in Scans, RequestScan(t) PROVE JobInv(j)' /\ StatusMoves(j)
  BY <1>6, <1>7, NamedSources DEF RequestScan
<1>8. ASSUME NEW t \in Rebuilds, RequestRebuild(t) PROVE JobInv(j)' /\ StatusMoves(j)
  <2>1. Rebuild(t) \in Sources
    BY NamedSources
  <2> QED BY <1>6, <1>8, <2>1 DEF RequestRebuild
<1>9. CASE EnqueueCall
  <2>1. PICK c \in calls :
          Enqueue(c.source, IF c.source \in MemoSources THEN 40 ELSE 50, c.requeue)
    BY <1>9 DEF EnqueueCall
  <2>2. c.source \in Sources /\ c.requeue \in BOOLEAN /\ WakesOnlyMemos(c.source, c.requeue)
    BY <1>1 DEF TypeOK, Call, OnlyMemosRequeue, WakesOnlyMemos
  <2>3. \A w \in Workers : HoldsJob(w)' => workers'[w] = workers[w]
    BY <1>9 DEF EnqueueCall
  <2> QED BY <2>1, <2>2, <2>3, JobEnqueue
<1>10. CASE RestartServer \/ NextHour \/ UNCHANGED vars
  BY <1>2, <1>10 DEF RestartServer, NextHour, vars
<1>11. CASE Upgrade
  BY <1>1, <1>11, IdleTyped, JobKept DEF Upgrade, HoldsJob
<1>12. CASE ClockAdvances
  <2>1. PICK k \in JobIds : \/ jobs' = [jobs EXCEPT ![k].due = TRUE]
                            \/ jobs' = [jobs EXCEPT ![k].stale = TRUE]
    BY <1>12 DEF ClockAdvances, BackoffElapses, LeaseExpires
  <2>2. jobs'[j].status = jobs[j].status /\ jobs'[j].attempts = jobs[j].attempts
    BY <1>1, <2>1 DEF JobRecord
  <2>3. UNCHANGED workers
    BY <1>12 DEF ClockAdvances, BackoffElapses, LeaseExpires
  <2> QED BY <1>1, <2>2, <2>3, JobKept
<1> QED
  BY <1>3, <1>4, <1>5, <1>7, <1>8, <1>9, <1>10, <1>11, <1>12

LEMMA QueueInit == Init => QueueInv
<1> SUFFICES ASSUME Init PROVE QueueInv
  OBVIOUS
<1>1. \A w \in Workers : ~HoldsJob(w)
  BY IdleTyped DEF Init, HoldsJob
<1>2. \A j \in JobIds : jobs[j].status = "absent" /\ jobs[j].attempts = 0
  BY DEF Init, NoJob
<1>3. \A j \in JobIds : JobInv(j)
  BY <1>1, <1>2, MaxOfPositive DEF JobInv, Owned, Budgeted, Executing
<1> QED BY <1>3, InitTyped DEF Init, QueueInv, OnlyMemosRequeue

LEMMA QueueStep ==
    ASSUME SingleWorker, QueueInv, [Next]_vars
    PROVE  QueueInv' /\ \A j \in JobIds : StatusMoves(j)
<1>1. \A j \in JobIds : JobInv(j)' /\ StatusMoves(j)
  BY JobCycle, JobRequest DEF Next
<1>2. TypeOK' /\ OnlyMemosRequeue'
  BY StepTyped, RequeueStep DEF QueueInv
<1> QED BY <1>1, <1>2 DEF QueueInv

\* With one worker, no job is attempted more often than max_attempts allows.
THEOREM RetriesStayInBudget ==
    ASSUME SingleWorker PROVE Spec => []RetryBudget
<1>1. QueueInv => RetryBudget
  BY DEF QueueInv, JobInv, Budgeted, RetryBudget
<1>2. QueueInv /\ [Next]_vars => QueueInv'
  BY QueueStep
<1> QED BY <1>1, <1>2, QueueInit, PTL DEF Spec

\* With one worker, a job that is not a memo's is given up only when its budget
\* is used up.
THEOREM GivingUpIsExhausted ==
    ASSUME SingleWorker PROVE Spec => []GivesUpExhausted
<1>1. QueueInv => GivesUpExhausted
  BY DEF QueueInv, JobInv, Budgeted, GivesUpExhausted
<1>2. QueueInv /\ [Next]_vars => QueueInv'
  BY QueueStep
<1> QED BY <1>1, <1>2, QueueInit, PTL DEF Spec

\* With one worker, the row of a held job that is not a memo's is the holder's.
THEOREM HoldersOwnTheirJobs ==
    ASSUME SingleWorker PROVE Spec => []WorkerOwnsItsJob
<1>1. QueueInv => WorkerOwnsItsJob
  BY KindsOfJobs DEF QueueInv, JobInv, Owned, WorkerOwnsItsJob
<1>2. QueueInv /\ [Next]_vars => QueueInv'
  BY QueueStep
<1> QED BY <1>1, <1>2, QueueInit, PTL DEF Spec

\* With one worker, the queue implements JobLifecycle: every step of the queue
\* is a step of the lifecycle or leaves it alone, so done is final.
THEOREM QueueImplementsLifecycle ==
    ASSUME SingleWorker PROVE Spec => ImplementsLifecycle
<1> DEFINE stages == [j \in JobIds |-> Stage(jobs[j].status)]
<1>1. Init => Lifecycle!Init
  BY DEF Init, Lifecycle!Init, NoJob, Stage
<1>2. ASSUME QueueInv, [Next]_vars PROVE [Lifecycle!Next]_stages
  <2>1. \A j \in JobIds : StatusMoves(j) /\ jobs[j] \in JobRecord /\ jobs'[j] \in JobRecord
    BY <1>2, QueueStep DEF QueueInv, TypeOK
  <2>2. stages' \in [JobIds -> Lifecycle!States]
    BY DEF Lifecycle!States, Stage
  <2>3. ASSUME NEW j \in JobIds
        PROVE  \/ stages'[j] = stages[j]
               \/ stages[j] = "none" /\ stages'[j] = "open"
               \/ stages[j] = "open" /\ stages'[j] \in {"done", "gaveUp"}
               \/ j \in MemoJobs /\ stages[j] = "gaveUp" /\ stages'[j] = "open"
               \/ j \in MemoJobs /\ stages'[j] = "none"
    <3>1. stages[j] = Stage(jobs[j].status) /\ stages'[j] = Stage(jobs'[j].status)
      OBVIOUS
    <3> QED BY <2>1, <3>1 DEF StatusMoves, Stage, Open, JobRecord
  <2> QED BY <2>2, <2>3
          DEF Lifecycle!Next, Lifecycle!Submit, Lifecycle!Settle, Lifecycle!Resubmit,
              Lifecycle!Withdraw
<1>3. QueueInv /\ [Next]_vars => QueueInv'
  BY QueueStep
<1> QED BY <1>1, <1>2, <1>3, QueueInit, PTL DEF Spec, ImplementsLifecycle, Lifecycle!Spec
=============================================================================
