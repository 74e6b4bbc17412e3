--------------------------- MODULE TrackingLedger ---------------------------
(***************************************************************************)
(* The ledger of risks and catalysts of one dataset: items, their          *)
(* versions, change events, observations, watch rules and alerts, written  *)
(* by the attempts of the tracking worker and by the user's archive,       *)
(* restore, purge, rule and alert operations.                              *)
(*                                                                         *)
(* SQLite admits one writer.  Every operation of the server starts with an *)
(* INSERT OR IGNORE (the default rules) and so reads under the write lock; *)
(* the worker commits before it reads, and takes the lock with the first   *)
(* row it writes.  While it holds it (pc = "writing") the variables are    *)
(* what its own connection sees and saved is what was last committed.      *)
(***************************************************************************)
EXTENDS Naturals, Sequences

CONSTANTS Items,        \* canonical keys; the item id is a digest of the key
          NoItem,
          Readings,     \* what a version says, up to meaningful change
          Candidates,   \* what an extraction may find
          Sources,      \* jobs: documents, memo versions, scans, rebuilds
          Rebuilds,     \* those that are legacy rebuilds
          Rules,        \* watch rules
          DefaultRules, \* those every dataset has
          Legacy,       \* items a former release left, with their reading
          MaxLen,       \* bound: candidates of one extraction
          MaxNo,        \* bound: versions of one item
          MaxAttempts,  \* bound: attempts of the worker
          MaxDay        \* bound: the clock stops on this day

\* content: the extracted text; detail: title, state, metadata and values, as far as
\* a change of them is meaningful.  confidence: 0 below 0.72, 1 below 0.8, 2 otherwise.  rank: the priority of
\* the change, 1 medium and 2 high.  due: the day it is expected, 0 for none.
Reading == [content : STRING, detail : STRING,
            verified : BOOLEAN, rejected : BOOLEAN,
            legacy : BOOLEAN, confidence : 0..2, rank : 1..2, due : Nat]

Candidate == [key : Items, like : Items \cup {NoItem}, reading : Readings]

ASSUME LedgerAssumption ==
    /\ NoItem \notin Items
    /\ Readings \subseteq Reading
    /\ Candidates \subseteq Candidate
    /\ Rebuilds \subseteq Sources /\ "none" \notin Sources
    /\ DefaultRules \subseteq Rules
    /\ DOMAIN Legacy \subseteq Items /\ \A i \in DOMAIN Legacy : Legacy[i] \in Readings
    /\ MaxLen \in Nat /\ MaxNo \in Nat \ {0} /\ MaxAttempts \in Nat /\ MaxDay \in Nat

VARIABLES items, versions, events, observations, alerts, rules,  \* tables
          settled,    \* jobs that are not attempted again
          saved,      \* the committed tables while the worker writes
          worker,     \* the attempt in progress
          archiving,  \* an archive request whose selection was validated
          scan,       \* outcome of the last hourly scan
          today, attempts

tables == <<items, versions, events, observations, alerts, settled>>
vars   == <<tables, rules, saved, worker, archiving, scan, today, attempts>>

-----------------------------------------------------------------------------
Numbers   == 1..MaxNo
Days      == 0..MaxDay
Keys      == Items \X Numbers           \* of versions and their change events
AlertKeys == Rules \X Items \X (0..MaxNo)   \* 0: a reminder of the due date

NoReading == [content |-> "none", detail |-> "none", verified |-> FALSE, rejected |-> FALSE,
              legacy |-> FALSE, confidence |-> 0, rank |-> 1, due |-> 0]

Absent     == [present |-> FALSE, no |-> 0, archived |-> FALSE]
ItemRow    == [present : {TRUE}, no : 0..MaxNo, archived : BOOLEAN] \cup {Absent}
VersionRow == [source : Sources \cup {"migration"}, reading : Readings]
EventRow   == [old : 0..MaxNo, type : {"new", "changed"}]
AlertRow   == [status : {"absent", "new", "acknowledged", "dismissed", "snoozed"},
               born : Days, until : Days]
RuleRow    == [active : BOOLEAN, target : Items \cup {NoItem},
               every : {0, 1, 7}, min : 1..2]
Match      == [item : Items \cup {NoItem}, no : 0..MaxNo,
               reading : Readings \cup {NoReading}]
Lists      == UNION {[1..n -> Candidates] : n \in 0..MaxLen}
Attempt    == [pc : {"idle", "reading", "found", "writing"}, source : Sources \cup {"none"},
               todo : Seq(Candidates), match : Match]

NoVersion == [source |-> "none", reading |-> NoReading]
NoEvent   == [old |-> 0, type |-> "none"]
NoAlert   == [status |-> "absent", born |-> 0, until |-> 0]
NoMatch   == [item |-> NoItem, no |-> 0, reading |-> NoReading]
Idle      == [pc |-> "idle", source |-> "none", todo |-> <<>>, match |-> NoMatch]
Default   == [active |-> TRUE, target |-> NoItem, every |-> 0, min |-> 1]
Inactive  == [active |-> FALSE, target |-> NoItem, every |-> 0, min |-> 1]

Tables == [items |-> items, versions |-> versions, events |-> events,
           observations |-> observations, alerts |-> alerts, settled |-> settled]

Writing == worker.pc = "writing"

\* The tables as the other connections read them.
Committed == IF Writing THEN saved ELSE Tables

Init ==
    /\ items = [i \in Items |-> IF i \in DOMAIN Legacy
                                THEN [present |-> TRUE, no |-> 1, archived |-> FALSE]
                                ELSE Absent]
    /\ versions = [k \in Keys |-> IF k[1] \in DOMAIN Legacy /\ k[2] = 1
                                  THEN [source |-> "migration", reading |-> Legacy[k[1]]]
                                  ELSE NoVersion]
    /\ events = [k \in Keys |-> IF k[1] \in DOMAIN Legacy /\ k[2] = 1
                                THEN [old |-> 0, type |-> "new"] ELSE NoEvent]
    /\ observations = {<<i, "migration", Legacy[i].content>> : i \in DOMAIN Legacy}
    /\ alerts = [k \in AlertKeys |-> NoAlert]
    /\ settled = {}
    /\ rules = [r \in Rules |-> IF r \in DefaultRules THEN Default ELSE Inactive]
    /\ saved = <<>>
    /\ worker = Idle
    /\ archiving = {}
    /\ scan = "none"
    /\ today = 0 /\ attempts = 0

-----------------------------------------------------------------------------
(* _find_item and the rows that _reconcile_candidates writes for one       *)
(* candidate c, given the item m that was found for it.                    *)

Current(i) == IF items[i].no = 0 THEN NoReading ELSE versions[<<i, items[i].no>>].reading

Record(i) == [item |-> i, no |-> items[i].no, reading |-> Current(i)]

\* By canonical key, else by overlapping evidence or similar text.
FindItem(c) ==
    IF items[c.key].present THEN Record(c.key)
    ELSE IF c.like # NoItem /\ items[c.like].present THEN Record(c.like)
    ELSE NoMatch

Target(c, m) == IF m.item = NoItem THEN c.key ELSE m.item

\* Mutant: every reading makes a version.
MeaningfulChange_Always(c, m) == TRUE

MeaningfulChange(c, m) == m.item = NoItem \/ m.reading # c.reading

ChangeType(m) == IF m.no = 0 THEN "new" ELSE "changed"

Recent(r, i) ==
    \E n \in 0..MaxNo : /\ alerts[<<r, i, n>>].status # "absent"
                        /\ alerts[<<r, i, n>>].born + rules[r].every >= today

\* A filter of the rule that rejects the reading counts as a higher minimum.
Matches(r, i, rank) ==
    /\ rules[r].active
    /\ rules[r].target \in {NoItem, i}
    /\ rules[r].min <= rank

Alarming(reading, type) ==
    /\ reading.verified
    /\ IF type = "new" THEN reading.confidence = 2 /\ reading.rank = 2
                       ELSE reading.confidence >= 1

WithAlerts(i, n, reading, type) ==
    [k \in AlertKeys |->
        IF /\ k[2] = i /\ k[3] = n
           /\ alerts[k].status = "absent"
           /\ Alarming(reading, type)
           /\ Matches(k[1], i, reading.rank)
           /\ rules[k[1]].every = 0 \/ ~Recent(k[1], i)
        THEN [status |-> "new", born |-> today, until |-> 0]
        ELSE alerts[k]]

\* Mutant: an item that is not there is written anew.
RevisedItem_Upserts(i, c, m, n) ==
    [present |-> TRUE, no |-> n,
     archived |-> items[i].archived /\ ~c.reading.verified]

\* The UPDATE of the item finds no row when it was purged after it was read.
RevisedItem(i, c, m, n) ==
    IF m.item = NoItem THEN [present |-> TRUE, no |-> n, archived |-> FALSE]
    ELSE IF ~items[i].present THEN items[i]
    ELSE [present |-> TRUE, no |-> n,
          archived |-> items[i].archived /\ ~c.reading.verified]

\* INSERT OR IGNORE: an item has one observation per source and content, and what
\* else a later reading with that content says is not kept.
Observed(c, m) ==
    observations' = observations \cup {<<Target(c, m), worker.source, c.reading.content>>}

\* Nothing material is new: the observation is all that is kept.
Observe(c, m) ==
    /\ ~MeaningfulChange(c, m)
    /\ Observed(c, m)
    /\ UNCHANGED <<items, versions, events, alerts, settled>>

Revise(c, m) ==
    LET i == Target(c, m)
        n == m.no + 1 IN
    /\ MeaningfulChange(c, m)
    /\ n \in Numbers
    /\ versions[<<i, n>>] = NoVersion
    /\ versions' = [versions EXCEPT ![<<i, n>>] = [source |-> worker.source,
                                                   reading |-> c.reading]]
    /\ items' = [items EXCEPT ![i] = RevisedItem(i, c, m, n)]
    /\ events' = [events EXCEPT ![<<i, n>>] = [old |-> m.no, type |-> ChangeType(m)]]
    /\ alerts' = WithAlerts(i, n, c.reading, ChangeType(m))
    /\ Observed(c, m)
    /\ UNCHANGED settled

Collides(c, m) ==
    /\ MeaningfulChange(c, m)
    /\ m.no + 1 \in Numbers
    /\ versions[<<Target(c, m), m.no + 1>>] # NoVersion

-----------------------------------------------------------------------------
(* An attempt of the worker.  Its candidates come from documents read, and *)
(* a model asked, before it looks at the ledger.                           *)

StartAttempt(s) ==
    /\ worker.pc = "idle"
    /\ s \notin settled
    /\ attempts < MaxAttempts
    /\ attempts' = attempts + 1
    /\ \E list \in Lists :
         /\ \A m, n \in DOMAIN list : list[m].key = list[n].key => m = n
         /\ worker' = [Idle EXCEPT !.pc = "reading", !.source = s, !.todo = list]
    /\ UNCHANGED <<tables, rules, saved, archiving, scan, today>>

\* The first lookup reads what is committed and holds no lock.
FindFirst ==
    /\ worker.pc = "reading"
    /\ worker.todo # <<>>
    /\ worker' = [worker EXCEPT !.pc = "found", !.match = FindItem(Head(worker.todo))]
    /\ UNCHANGED <<tables, rules, saved, archiving, scan, today, attempts>>

Reconcile(m) ==
    /\ worker.todo # <<>>
    /\ Observe(Head(worker.todo), m) \/ Revise(Head(worker.todo), m)
    /\ worker' = [worker EXCEPT !.pc = "writing", !.todo = Tail(@), !.match = NoMatch]
    /\ UNCHANGED <<rules, archiving, scan, today, attempts>>

WriteFirst ==
    /\ worker.pc = "found"
    /\ saved' = Tables
    /\ Reconcile(worker.match)

WriteNext ==
    /\ Writing
    /\ worker.todo # <<>>
    /\ UNCHANGED saved
    /\ Reconcile(FindItem(Head(worker.todo)))

Release == worker' = Idle /\ saved' = <<>>

\* The item's current reading was written by a former release.
Unmatched(i) == items[i].present /\ ~items[i].archived /\ Current(i).legacy

FinishAttempt ==
    /\ worker.pc \in {"reading", "writing"}
    /\ worker.todo = <<>>
    /\ settled' = settled \cup {worker.source}
    /\ items' = [i \in Items |-> IF worker.source \in Rebuilds /\ Unmatched(i)
                                 THEN [items[i] EXCEPT !.archived = TRUE] ELSE items[i]]
    /\ Release
    /\ UNCHANGED <<versions, events, observations, alerts, rules, archiving,
                   scan, today, attempts>>

\* A rebuild has one attempt; the other jobs are retried.
GiveUp == IF worker.source \in Rebuilds THEN {worker.source} ELSE {}

\* The exception handler commits what was written before the exception: a
\* version number that is taken, a rebuild whose model did not answer, or an
\* error before the first write.
FailAttempt ==
    /\ \/ worker.pc \in {"reading", "found"}
       \/ Writing /\ worker.todo = <<>> /\ worker.source \in Rebuilds
       \/ Writing /\ worker.todo # <<>>
            /\ Collides(Head(worker.todo), FindItem(Head(worker.todo)))
    /\ settled' = settled \cup GiveUp
    /\ Release
    /\ UNCHANGED <<items, versions, events, observations, alerts, rules, archiving,
                   scan, today, attempts>>

\* What was not committed is lost; the expired lease is recovered as queued,
\* or as failed after a rebuild.
CrashWorker ==
    /\ worker.pc # "idle"
    /\ items' = Committed.items /\ versions' = Committed.versions
    /\ events' = Committed.events /\ observations' = Committed.observations
    /\ alerts' = Committed.alerts /\ settled' = Committed.settled \cup GiveUp
    /\ Release
    /\ UNCHANGED <<rules, archiving, scan, today, attempts>>

Worker ==
    \/ \E s \in Sources : StartAttempt(s)
    \/ FindFirst \/ WriteFirst \/ WriteNext \/ FinishAttempt \/ FailAttempt \/ CrashWorker

-----------------------------------------------------------------------------
(* The hourly scan, another job of the worker.                             *)

DueDate(i) == Current(i).due

Overdue(i) == DueDate(i) < today

Approaching(i) == \E days \in {0, 1, 3, 7} : DueDate(i) = today + days

Urgency(i) == IF DueDate(i) <= today + 1 THEN 2 ELSE 1

Due(i) ==
    /\ items[i].present /\ DueDate(i) > 0
    /\ Current(i).verified /\ Current(i).confidence >= 1
    /\ Overdue(i) \/ Approaching(i)

Reminders ==
    {p \in Rules \X Items : Due(p[2]) /\ Matches(p[1], p[2], Urgency(p[2]))}

\* Mutant: the handler rolls back what the failed scan has done.
ScanDueItems_RollsBack ==
    /\ worker.pc = "idle"
    /\ scan' = IF Reminders = {} THEN "completed" ELSE "failed"
    /\ alerts' = [k \in AlertKeys |->
                    IF Reminders = {} /\ alerts[k].status = "snoozed" /\ alerts[k].until <= today
                    THEN [alerts[k] EXCEPT !.status = "new", !.until = 0] ELSE alerts[k]]
    /\ UNCHANGED <<items, versions, events, observations, settled, rules, saved, worker,
                   archiving, today, attempts>>

\* Snoozed alerts return; then the first rule that applies to an item that is
\* due ends the scan with a TypeError (_watch_rule_matches is called without
\* event_type), whose handler commits what was done.  No reminder is written.
ScanDueItems ==
    /\ worker.pc = "idle"
    /\ scan' = IF Reminders = {} THEN "completed" ELSE "failed"
    /\ alerts' = [k \in AlertKeys |->
                    IF alerts[k].status = "snoozed" /\ alerts[k].until <= today
                    THEN [alerts[k] EXCEPT !.status = "new", !.until = 0] ELSE alerts[k]]
    /\ UNCHANGED <<items, versions, events, observations, settled, rules, saved, worker,
                   archiving, today, attempts>>

-----------------------------------------------------------------------------
(* The user's operations on the server, each one transaction but the first. *)

Rejected(i) ==
    items[i].present /\ ~items[i].archived /\ (Current(i).rejected \/ Current(i).legacy)

ServerOnly == UNCHANGED <<settled, saved, worker, scan, today, attempts>>

\* archive_low_quality_items validates the selection in one transaction ...
SelectRejected(S) ==
    /\ ~Writing
    /\ archiving = {}
    /\ \A i \in S : Rejected(i)
    /\ archiving' = S
    /\ UNCHANGED <<tables, rules, saved, worker, scan, today, attempts>>

\* Mutant: the selected rows are written whether they exist or not.
ArchiveSelected_Inserts ==
    /\ ~Writing
    /\ archiving # {}
    /\ archiving' = {}
    /\ items' = [i \in Items |-> IF i \in archiving
                                 THEN [items[i] EXCEPT !.archived = TRUE] ELSE items[i]]
    /\ UNCHANGED <<versions, events, observations, alerts, rules>>
    /\ ServerOnly

\* ... and archives it in another.
ArchiveSelected ==
    /\ ~Writing
    /\ archiving # {}
    /\ archiving' = {}
    /\ items' = [i \in Items |-> IF i \in archiving /\ items[i].present
                                 THEN [items[i] EXCEPT !.archived = TRUE] ELSE items[i]]
    /\ UNCHANGED <<versions, events, observations, alerts, rules>>
    /\ ServerOnly

DropSelection ==
    /\ archiving # {}
    /\ archiving' = {}
    /\ UNCHANGED <<tables, rules, saved, worker, scan, today, attempts>>

Restore(S) ==
    /\ ~Writing
    /\ \E i \in S : items[i].archived
    /\ items' = [i \in Items |-> IF i \in S THEN [items[i] EXCEPT !.archived = FALSE]
                                 ELSE items[i]]
    /\ UNCHANGED <<versions, events, observations, alerts, rules, archiving>>
    /\ ServerOnly

\* Mutant: the alerts of a purged item are left.
Purge_KeepsAlerts(S) ==
    /\ ~Writing
    /\ \A i \in S : items[i].present /\ items[i].archived
    /\ items' = [i \in Items |-> IF i \in S THEN Absent ELSE items[i]]
    /\ versions' = [k \in Keys |-> IF k[1] \in S THEN NoVersion ELSE versions[k]]
    /\ events' = [k \in Keys |-> IF k[1] \in S THEN NoEvent ELSE events[k]]
    /\ observations' = {o \in observations : o[1] \notin S}
    /\ UNCHANGED <<alerts, rules, archiving>>
    /\ ServerOnly

\* The default rules are there again at the next operation.
Purge(S) ==
    /\ ~Writing
    /\ \A i \in S : items[i].present /\ items[i].archived
    /\ items' = [i \in Items |-> IF i \in S THEN Absent ELSE items[i]]
    /\ versions' = [k \in Keys |-> IF k[1] \in S THEN NoVersion ELSE versions[k]]
    /\ events' = [k \in Keys |-> IF k[1] \in S THEN NoEvent ELSE events[k]]
    /\ observations' = {o \in observations : o[1] \notin S}
    /\ alerts' = [k \in AlertKeys |-> IF k[2] \in S THEN NoAlert ELSE alerts[k]]
    /\ rules' = [r \in Rules |-> IF rules[r].target \notin S THEN rules[r]
                                 ELSE IF r \in DefaultRules THEN Default ELSE Inactive]
    /\ UNCHANGED archiving
    /\ ServerOnly

UpsertRule(r) ==
    /\ ~Writing
    /\ \E row \in RuleRow : rules' = [rules EXCEPT ![r] = row]
    /\ UNCHANGED <<tables, saved, worker, archiving, scan, today, attempts>>

UpdateAlert(k) ==
    /\ ~Writing
    /\ alerts[k].status # "absent"
    /\ \/ \E status \in {"new", "acknowledged", "dismissed"} :
            alerts' = [alerts EXCEPT ![k].status = status, ![k].until = 0]
       \/ \E day \in Days :
            alerts' = [alerts EXCEPT ![k].status = "snoozed", ![k].until = day]
    /\ UNCHANGED <<items, versions, events, observations, rules, archiving>>
    /\ ServerOnly

NextDay ==
    /\ today < MaxDay
    /\ today' = today + 1
    /\ UNCHANGED <<tables, rules, saved, worker, archiving, scan, attempts>>

-----------------------------------------------------------------------------
Next ==
    \/ Worker \/ ScanDueItems
    \/ \E S \in SUBSET Items \ {{}} : SelectRejected(S) \/ Restore(S) \/ Purge(S)
    \/ ArchiveSelected \/ DropSelection
    \/ \E r \in Rules : UpsertRule(r)
    \/ \E k \in AlertKeys : UpdateAlert(k)
    \/ NextDay

Spec == Init /\ [][Next]_vars

\* The worker queues a scan every hour and settles what it queued, the clock
\* does not stop, and an attempt that was started ends.
FairSpec == /\ Spec
            /\ WF_vars(ScanDueItems) /\ WF_vars(NextDay)
            /\ WF_vars(FindFirst \/ WriteFirst \/ WriteNext \/ FinishAttempt \/ FailAttempt)
-----------------------------------------------------------------------------
(* Properties.                                                             *)

TableTypes(t) ==
    /\ t.items \in [Items -> ItemRow]
    /\ t.versions \in [Keys -> VersionRow \cup {NoVersion}]
    /\ t.events \in [Keys -> EventRow \cup {NoEvent}]
    /\ t.observations \subseteq Items \X (Sources \cup {"migration"}) \X STRING
    /\ t.alerts \in [AlertKeys -> AlertRow]
    /\ t.settled \subseteq Sources

\* Every table, the committed copy of it and the attempt have their types.
TypeOK ==
    /\ TableTypes(Tables)
    /\ Writing => TableTypes(saved)
    /\ rules \in [Rules -> RuleRow]
    /\ worker \in Attempt
    /\ worker.pc # "idle" => worker.source \in Sources
    /\ worker.pc = "found" => worker.todo # <<>>
    /\ archiving \subseteq Items
    /\ scan \in {"none", "completed", "failed"}
    /\ today \in Days /\ attempts \in 0..MaxAttempts

\* Whatever was purged while the worker held an old lookup of it: versions 1 to
\* no of an item exist, each with the event that names the version before it
\* and an observation of its content by the source that wrote it.
Documented(t) ==
    \A i \in Items : t.items[i].present => \A n \in 1..t.items[i].no :
        /\ t.versions[<<i, n>>] # NoVersion
        /\ t.events[<<i, n>>] = [old |-> n - 1, type |-> IF n = 1 THEN "new" ELSE "changed"]
        /\ <<i, t.versions[<<i, n>>].source, t.versions[<<i, n>>].reading.content>>
                \in t.observations

HistoryIsDocumented == Documented(Tables)

\* An alert leads to a change event and a version that is verified, also after
\* purges, crashes in the middle of a transaction and late writes: the page of
\* an alert never shows a judgement without its evidence.
AlertsHaveEvidence ==
    \A r \in Rules, k \in Keys :
        alerts[<<r, k[1], k[2]>>].status # "absent" =>
            events[k] # NoEvent /\ versions[k].reading.verified

History(t) ==
    [i \in Items |-> IF t.items[i].present
                     THEN [n \in 1..t.items[i].no |-> t.versions[<<i, n>>].reading]
                     ELSE <<>>]

Recorded == INSTANCE RecordHistory WITH
                history <- History(Committed),
                hidden <- {i \in Items : Committed.items[i].archived}

\* What is committed implements a history that is revised, never rewritten:
\* late, failed, repeated or half finished attempts leave no gap, no repeated
\* reading and no lost revision, and only an archived item disappears.
ImplementsHistory == Recorded!Spec

\* An alert put off until a later day is new again after that day, although the
\* scan that wakes it up fails whenever some item is due.
SnoozedAlertsReturn ==
    \A k \in AlertKeys : alerts[k].status = "snoozed" ~> alerts[k].status # "snoozed"

\* Purging "permanently deletes selected archived records and their dependent
\* tracking data": nothing in any table names an item that is not there.
PurgeIsComplete ==
    \A i \in Items : ~items[i].present =>
        /\ \A n \in Numbers : versions[<<i, n>>] = NoVersion /\ events[<<i, n>>] = NoEvent
        /\ \A r \in Rules, n \in 0..MaxNo : alerts[<<r, i, n>>] = NoAlert
        /\ \A o \in observations : o[1] # i

\* "Only active records rejected by the quality gate can be archived."
OnlyRejectedAreArchived ==
    [][ArchiveSelected => \A i \in archiving : items'[i].archived =>
                                               items[i].archived \/ Rejected(i)]_vars

\* The hourly scan issues the reminders of the items that are due.
DueRemindersIssued ==
    [][ScanDueItems => \A p \in Reminders : alerts'[<<p[1], p[2], 0>>].status # "absent"]_vars
=============================================================================
