------------------------ MODULE TrackingLedgerProofs ------------------------
(***************************************************************************)
(* Theorems about TrackingLedger, for every value of its constants.        *)
(***************************************************************************)
EXTENDS TrackingLedger, TLAPS

-----------------------------------------------------------------------------
(* The rows.                                                               *)

LEMMA ContentTyped == \A x \in Readings : x.content \in STRING
<1>1. \A x \in Readings : x \in Reading
  BY LedgerAssumption
<1> QED BY <1>1 DEF Reading

LEMMA ReadingTyped ==
    ASSUME NEW x \in Readings \cup {NoReading}
    PROVE  /\ x.verified \in BOOLEAN /\ x.legacy \in BOOLEAN /\ x.rejected \in BOOLEAN
           /\ x.confidence \in 0..2 /\ x.rank \in 1..2 /\ x.due \in Nat
<1>1. CASE x \in Readings
  <2>1. x \in Reading
    BY <1>1, LedgerAssumption
  <2> QED BY <2>1 DEF Reading
<1>2. CASE x = NoReading
  <2>1. NoReading.verified \in BOOLEAN
    BY DEF NoReading
  <2>2. NoReading.legacy \in BOOLEAN
    BY DEF NoReading
  <2>3. NoReading.rejected \in BOOLEAN
    BY DEF NoReading
  <2>4. NoReading.confidence = 0 /\ NoReading.rank = 1 /\ NoReading.due = 0
    BY DEF NoReading
  <2> HIDE DEF NoReading
  <2> QED BY <1>2, <2>1, <2>2, <2>3, <2>4
<1> QED BY <1>1, <1>2

LEMMA CandidateTyped ==
    ASSUME NEW c \in Candidates
    PROVE  c.key \in Items /\ c.like \in Items \cup {NoItem} /\ c.reading \in Readings
BY LedgerAssumption DEF Candidate

\* A row is there or it is Absent.
LEMMA ItemTyped ==
    ASSUME NEW x \in ItemRow
    PROVE  /\ x.present \in BOOLEAN /\ x.no \in 0..MaxNo /\ x.archived \in BOOLEAN
           /\ ~x.present => x = Absent
<1>1. CASE x = Absent
  BY <1>1, LedgerAssumption DEF Absent
<1>2. CASE x \in [present : {TRUE}, no : 0..MaxNo, archived : BOOLEAN]
  BY <1>2
<1> QED BY <1>1, <1>2 DEF ItemRow

LEMMA ItemRowMade ==
    ASSUME NEW n \in 0..MaxNo, NEW b \in BOOLEAN
    PROVE  [present |-> TRUE, no |-> n, archived |-> b] \in ItemRow
BY DEF ItemRow

LEMMA AbsentKept ==
    /\ [Absent EXCEPT !.archived = FALSE] = Absent
    /\ Absent.present = FALSE /\ Absent.no = 0 /\ Absent.archived = FALSE
<1>1. Absent.present = FALSE /\ Absent.no = 0 /\ Absent.archived = FALSE
  BY DEF Absent
<1>2. Absent \in [present : BOOLEAN, no : Nat, archived : BOOLEAN]
  BY DEF Absent
<1>3. \A x \in [present : BOOLEAN, no : Nat, archived : BOOLEAN] :
        x.archived = FALSE => [x EXCEPT !.archived = FALSE] = x
  OBVIOUS
<1> QED BY <1>1, <1>2, <1>3

\* Archiving or restoring a row that is there, and restoring one that is not.
LEMMA ItemRowMarked ==
    ASSUME NEW x \in ItemRow, NEW b \in BOOLEAN, x.present \/ ~b
    PROVE  /\ [x EXCEPT !.archived = b] \in ItemRow
           /\ [x EXCEPT !.archived = b].present = x.present
           /\ [x EXCEPT !.archived = b].no = x.no
           /\ [x EXCEPT !.archived = b].archived = b
<1>1. CASE x = Absent
  <2>1. ~b
    BY <1>1 DEF Absent
  <2> QED BY <1>1, <2>1, AbsentKept
<1>2. CASE x \in [present : {TRUE}, no : 0..MaxNo, archived : BOOLEAN]
  BY <1>2 DEF ItemRow
<1> QED BY <1>1, <1>2 DEF ItemRow

LEMMA VersionTyped ==
    ASSUME NEW v \in VersionRow \cup {NoVersion}
    PROVE  /\ v.reading \in Readings \cup {NoReading}
           /\ v # NoVersion => v \in VersionRow /\ v.reading \in Readings
                                               /\ v.source \in Sources \cup {"migration"}
BY DEF VersionRow, NoVersion

LEMMA CurrentTyped ==
    ASSUME TableTypes(Tables), NEW i \in Items
    PROVE  Current(i) \in Readings \cup {NoReading}
<1>1. items[i] \in ItemRow
  BY DEF TableTypes, Tables
<1>2. CASE items[i].no = 0
  BY <1>2 DEF Current
<1>3. CASE items[i].no # 0
  <2>1. <<i, items[i].no>> \in Keys
    BY <1>1, <1>3, ItemTyped, LedgerAssumption DEF Keys, Numbers
  <2>2. versions[<<i, items[i].no>>] \in VersionRow \cup {NoVersion}
    BY <2>1 DEF TableTypes, Tables
  <2> QED BY <1>3, <2>2, VersionTyped DEF Current
<1> QED BY <1>2, <1>3

LEMMA RecordTyped ==
    ASSUME TableTypes(Tables), NEW i \in Items
    PROVE  Record(i) \in Match
<1>1. items[i].no \in 0..MaxNo
  BY ItemTyped DEF TableTypes, Tables
<1> QED BY <1>1, CurrentTyped DEF Record, Match

LEMMA NoMatchTyped == NoMatch \in Match
BY LedgerAssumption DEF NoMatch, Match

LEMMA FindItemTyped ==
    ASSUME TableTypes(Tables), NEW c \in Candidates
    PROVE  FindItem(c) \in Match
BY RecordTyped, NoMatchTyped, CandidateTyped DEF FindItem

LEMMA MatchTyped ==
    ASSUME NEW m \in Match
    PROVE  /\ m.item \in Items \cup {NoItem} /\ m.no \in 0..MaxNo
           /\ m.reading \in Readings \cup {NoReading}
BY DEF Match

LEMMA AlertRowMade ==
    ASSUME NEW born \in Days, NEW until \in Days,
           NEW status \in {"absent", "new", "acknowledged", "dismissed", "snoozed"}
    PROVE  [status |-> status, born |-> born, until |-> until] \in AlertRow
BY DEF AlertRow

LEMMA AlertTyped ==
    ASSUME NEW a \in AlertRow
    PROVE  /\ \A s \in {"new", "acknowledged", "dismissed", "snoozed"}, d \in Days :
                /\ [a EXCEPT !.status = s, !.until = d] \in AlertRow
                /\ [a EXCEPT !.status = s, !.until = d].status = s
           /\ a.status \in {"absent", "new", "acknowledged", "dismissed", "snoozed"}
BY DEF AlertRow

LEMMA DaysTyped == 0 \in Days /\ NoAlert \in AlertRow
BY LedgerAssumption DEF Days, NoAlert, AlertRow

LEMMA IdleTyped == Idle \in Attempt /\ Idle.pc = "idle"
BY NoMatchTyped DEF Idle, Attempt

-----------------------------------------------------------------------------
(* Type correctness.                                                       *)

LEMMA InitTyped == Init => TypeOK
<1> SUFFICES ASSUME Init PROVE TypeOK
  OBVIOUS
<1>1. items \in [Items -> ItemRow]
  <2>1. 1 \in 0..MaxNo /\ Absent \in ItemRow
    BY LedgerAssumption DEF ItemRow
  <2>2. [present |-> TRUE, no |-> 1, archived |-> FALSE] \in ItemRow
    BY <2>1, ItemRowMade
  <2> QED BY <2>1, <2>2 DEF Init
<1>2. versions \in [Keys -> VersionRow \cup {NoVersion}]
  <2>1. \A i \in DOMAIN Legacy : [source |-> "migration", reading |-> Legacy[i]] \in VersionRow
    BY LedgerAssumption DEF VersionRow
  <2> QED BY <2>1 DEF Init
<1>3. events \in [Keys -> EventRow \cup {NoEvent}]
  <2>1. [old |-> 0, type |-> "new"] \in EventRow
    BY LedgerAssumption DEF EventRow
  <2> QED BY <2>1 DEF Init
<1>4. observations \subseteq Items \X (Sources \cup {"migration"}) \X STRING
  BY LedgerAssumption, ContentTyped DEF Init
<1>5. alerts \in [AlertKeys -> AlertRow]
  BY DaysTyped DEF Init
<1>6. rules \in [Rules -> RuleRow]
  <2>1. Default \in RuleRow /\ Inactive \in RuleRow
    BY DEF Default, Inactive, RuleRow
  <2> QED BY <2>1 DEF Init
<1>7. today \in Days /\ attempts \in 0..MaxAttempts /\ settled \subseteq Sources
  BY LedgerAssumption DEF Init, Days
<1>8. worker \in Attempt /\ worker.pc = "idle" /\ archiving \subseteq Items /\ scan = "none"
  BY IdleTyped DEF Init
<1> QED BY <1>1, <1>2, <1>3, <1>4, <1>5, <1>6, <1>7, <1>8
        DEF TypeOK, TableTypes, Tables, Writing

LEMMA WithAlertsTyped ==
    ASSUME TypeOK, NEW i, NEW n, NEW reading, NEW type
    PROVE  WithAlerts(i, n, reading, type) \in [AlertKeys -> AlertRow]
<1>1. [status |-> "new", born |-> today, until |-> 0] \in AlertRow
  BY DaysTyped, AlertRowMade DEF TypeOK
<1>2. \A k \in AlertKeys : alerts[k] \in AlertRow
  BY DEF TypeOK, TableTypes, Tables
<1> QED BY <1>1, <1>2 DEF WithAlerts

LEMMA TargetTyped ==
    ASSUME NEW c \in Candidates, NEW m \in Match
    PROVE  Target(c, m) \in Items
BY CandidateTyped, MatchTyped DEF Target

LEMMA RevisedItemTyped ==
    ASSUME TypeOK, NEW c \in Candidates, NEW m \in Match, NEW n \in Numbers
    PROVE  RevisedItem(Target(c, m), c, m, n) \in ItemRow
<1> DEFINE i == Target(c, m)
           kept == items[i].archived /\ ~c.reading.verified
<1>1. items[i] \in ItemRow
  BY TargetTyped DEF TypeOK, TableTypes, Tables
<1>2. n \in 0..MaxNo /\ kept \in BOOLEAN
  BY LedgerAssumption DEF Numbers
<1>3. RevisedItem(i, c, m, n) = IF m.item = NoItem
                                THEN [present |-> TRUE, no |-> n, archived |-> FALSE]
                                ELSE IF ~items[i].present THEN items[i]
                                ELSE [present |-> TRUE, no |-> n, archived |-> kept]
  BY DEF RevisedItem
<1> HIDE DEF i, kept
<1>4. RevisedItem(i, c, m, n) \in ItemRow
  BY <1>1, <1>2, <1>3, ItemRowMade
<1> QED BY <1>4 DEF i

LEMMA ReconcileTyped ==
    ASSUME TypeOK, NEW c \in Candidates, NEW m \in Match, worker.source \in Sources,
           Observe(c, m) \/ Revise(c, m)
    PROVE  TableTypes(Tables)'
<1> DEFINE i == Target(c, m)
           n == m.no + 1
<1>1. i \in Items /\ c.reading \in Readings
  BY TargetTyped, CandidateTyped
<1>2. observations' \subseteq Items \X (Sources \cup {"migration"}) \X STRING
  <2>1. observations' = observations \cup {<<i, worker.source, c.reading.content>>}
    BY DEF Observe, Revise, Observed
  <2>2. c.reading.content \in STRING
    BY <1>1, ContentTyped
  <2> QED BY <1>1, <2>1, <2>2 DEF TypeOK, TableTypes, Tables
<1>3. CASE Observe(c, m)
  BY <1>2, <1>3 DEF Observe, TypeOK, TableTypes, Tables
<1>4. CASE Revise(c, m)
  <2>1. n \in Numbers /\ m.no \in 0..MaxNo
    BY <1>4, MatchTyped DEF Revise
  <2>2. versions' \in [Keys -> VersionRow \cup {NoVersion}]
    <3>1. [source |-> worker.source, reading |-> c.reading] \in VersionRow
      BY <1>1 DEF VersionRow
    <3> QED BY <1>4, <3>1 DEF Revise, TypeOK, TableTypes, Tables
  <2>3. items' \in [Items -> ItemRow]
    BY <1>4, <2>1, RevisedItemTyped DEF Revise, TypeOK, TableTypes, Tables
  <2>4. events' \in [Keys -> EventRow \cup {NoEvent}]
    <3>1. [old |-> m.no, type |-> ChangeType(m)] \in EventRow
      BY <2>1 DEF EventRow, ChangeType
    <3> QED BY <1>4, <3>1 DEF Revise, TypeOK, TableTypes, Tables
  <2>5. alerts' \in [AlertKeys -> AlertRow]
    BY <1>4, WithAlertsTyped DEF Revise
  <2> QED BY <1>2, <1>4, <2>2, <2>3, <2>4, <2>5 DEF Revise, TypeOK, TableTypes, Tables
<1> QED BY <1>3, <1>4

\* What follows from a list of candidates that is not empty.
LEMMA TodoTyped ==
    ASSUME NEW w \in Attempt, w.todo # <<>>
    PROVE  Head(w.todo) \in Candidates /\ Tail(w.todo) \in Seq(Candidates)
BY DEF Attempt

LEMMA ListsTyped == Lists \subseteq Seq(Candidates)
BY LedgerAssumption DEF Lists

LEMMA WorkerTyped ==
    ASSUME TypeOK, Worker
    PROVE  TypeOK'
<1>1. ASSUME NEW s \in Sources, StartAttempt(s) PROVE TypeOK'
  <2>1. PICK list \in Lists :
          worker' = [Idle EXCEPT !.pc = "reading", !.source = s, !.todo = list]
    BY <1>1 DEF StartAttempt
  <2>2. worker' \in Attempt /\ worker'.pc = "reading" /\ worker'.source = s
    BY <2>1, ListsTyped, IdleTyped DEF Attempt
  <2>3. attempts' \in 0..MaxAttempts
    BY <1>1, LedgerAssumption DEF StartAttempt, TypeOK
  <2> QED BY <1>1, <2>2, <2>3 DEF StartAttempt, TypeOK, tables, TableTypes, Tables, Writing
<1>2. CASE FindFirst
  <2>1. FindItem(Head(worker.todo)) \in Match
    BY <1>2, TodoTyped, FindItemTyped DEF FindFirst, TypeOK
  <2>2. /\ worker' \in Attempt /\ worker'.pc = "found" /\ worker'.source = worker.source
        /\ worker'.todo # <<>>
    BY <1>2, <2>1 DEF FindFirst, TypeOK, Attempt
  <2> QED BY <1>2, <2>2 DEF FindFirst, TypeOK, tables, TableTypes, Tables, Writing
<1>3. ASSUME NEW m \in Match, Reconcile(m), worker.pc # "idle", TableTypes(saved')
      PROVE  TypeOK'
  <2>1. Head(worker.todo) \in Candidates /\ Tail(worker.todo) \in Seq(Candidates)
    BY <1>3, TodoTyped DEF Reconcile, TypeOK
  <2>2. TableTypes(Tables)'
    BY <1>3, <2>1, ReconcileTyped DEF Reconcile, TypeOK
  <2>3. worker' \in Attempt /\ worker'.pc = "writing" /\ worker'.source = worker.source
    BY <1>3, <2>1, NoMatchTyped DEF Reconcile, TypeOK, Attempt
  <2> QED BY <1>3, <2>2, <2>3 DEF Reconcile, TypeOK
<1>4. CASE WriteFirst
  <2>1. worker.match \in Match /\ TableTypes(saved')
    BY <1>4 DEF WriteFirst, TypeOK, Attempt
  <2> QED BY <1>3, <1>4, <2>1 DEF WriteFirst
<1>5. CASE WriteNext
  <2>1. FindItem(Head(worker.todo)) \in Match /\ TableTypes(saved')
    BY <1>5, TodoTyped, FindItemTyped DEF WriteNext, TypeOK
  <2> QED BY <1>3, <1>5, <2>1 DEF WriteNext, Writing
<1>6. CASE FinishAttempt
  <2>1. worker' = Idle /\ settled' \subseteq Sources
    BY <1>6 DEF FinishAttempt, Release, TypeOK, TableTypes, Tables
  <2>2. items' \in [Items -> ItemRow]
    <3>1. ASSUME NEW i \in Items, Unmatched(i)
          PROVE  [items[i] EXCEPT !.archived = TRUE] \in ItemRow
      BY <3>1, ItemRowMarked DEF Unmatched, TypeOK, TableTypes, Tables
    <3> QED BY <1>6, <3>1 DEF FinishAttempt, TypeOK, TableTypes, Tables
  <2> QED BY <1>6, <2>1, <2>2, IdleTyped
          DEF FinishAttempt, TypeOK, TableTypes, Tables, Writing
<1>7. CASE FailAttempt
  <2>1. worker' = Idle /\ settled' \subseteq Sources
    BY <1>7, LedgerAssumption DEF FailAttempt, Release, GiveUp, TypeOK, TableTypes, Tables
  <2> QED BY <1>7, <2>1, IdleTyped DEF FailAttempt, TypeOK, TableTypes, Tables, Writing
<1>8. CASE CrashWorker
  <2>1. TableTypes(Committed)
    BY DEF Committed, TypeOK
  <2>2. worker' = Idle /\ settled' \subseteq Sources
    BY <1>8, <2>1, LedgerAssumption DEF CrashWorker, Release, GiveUp, TableTypes
  <2>3. TableTypes(Tables)'
    BY <1>8, <2>1, <2>2 DEF CrashWorker, TableTypes, Tables
  <2> QED BY <1>8, <2>2, <2>3, IdleTyped DEF CrashWorker, TypeOK, Writing
<1> QED BY <1>1, <1>2, <1>4, <1>5, <1>6, <1>7, <1>8 DEF Worker

LEMMA UserTyped ==
    ASSUME TypeOK,
           \/ ScanDueItems
           \/ \E S \in SUBSET Items \ {{}} : SelectRejected(S) \/ Restore(S) \/ Purge(S)
           \/ ArchiveSelected \/ DropSelection
           \/ \E r \in Rules : UpsertRule(r)
           \/ \E k \in AlertKeys : UpdateAlert(k)
           \/ NextDay
    PROVE  TypeOK'
<1>1. CASE ScanDueItems
  <2>1. alerts' \in [AlertKeys -> AlertRow]
    BY <1>1, AlertTyped, DaysTyped DEF ScanDueItems, TypeOK, TableTypes, Tables
  <2>2. scan' \in {"none", "completed", "failed"}
    BY <1>1 DEF ScanDueItems
  <2> QED BY <1>1, <2>1, <2>2 DEF ScanDueItems, TypeOK, TableTypes, Tables, Writing
<1>2. ASSUME NEW S \in SUBSET Items, SelectRejected(S) PROVE TypeOK'
  BY <1>2 DEF SelectRejected, TypeOK, TableTypes, Tables, tables, Writing
<1>3. ASSUME NEW S \in SUBSET Items, Restore(S) PROVE TypeOK'
  <2>1. items' \in [Items -> ItemRow]
    BY <1>3, ItemRowMarked DEF Restore, TypeOK, TableTypes, Tables
  <2> QED BY <1>3, <2>1 DEF Restore, ServerOnly, TypeOK, TableTypes, Tables, Writing
<1>4. ASSUME NEW S \in SUBSET Items, Purge(S) PROVE TypeOK'
  <2>1. items' \in [Items -> ItemRow]
    BY <1>4 DEF Purge, TypeOK, TableTypes, Tables, ItemRow
  <2>2. alerts' \in [AlertKeys -> AlertRow]
    BY <1>4, DaysTyped DEF Purge, TypeOK, TableTypes, Tables
  <2>3. rules' \in [Rules -> RuleRow]
    <3>1. Default \in RuleRow /\ Inactive \in RuleRow
      BY DEF Default, Inactive, RuleRow
    <3> QED BY <1>4, <3>1 DEF Purge, TypeOK
  <2>4. /\ versions' \in [Keys -> VersionRow \cup {NoVersion}]
        /\ events' \in [Keys -> EventRow \cup {NoEvent}]
        /\ observations' \subseteq Items \X (Sources \cup {"migration"}) \X STRING
    BY <1>4 DEF Purge, TypeOK, TableTypes, Tables
  <2> QED BY <1>4, <2>1, <2>2, <2>3, <2>4
          DEF Purge, ServerOnly, TypeOK, TableTypes, Tables, Writing
<1>5. CASE ArchiveSelected
  <2>1. items' \in [Items -> ItemRow]
    BY <1>5, ItemRowMarked DEF ArchiveSelected, TypeOK, TableTypes, Tables
  <2> QED BY <1>5, <2>1 DEF ArchiveSelected, ServerOnly, TypeOK, TableTypes, Tables, Writing
<1>6. CASE DropSelection
  BY <1>6 DEF DropSelection, TypeOK, TableTypes, Tables, tables, Writing
<1>7. ASSUME NEW r \in Rules, UpsertRule(r) PROVE TypeOK'
  BY <1>7 DEF UpsertRule, TypeOK, TableTypes, Tables, tables, Writing
<1>8. ASSUME NEW k \in AlertKeys, UpdateAlert(k) PROVE TypeOK'
  <2>1. alerts' \in [AlertKeys -> AlertRow]
    <3>1. PICK status \in {"new", "acknowledged", "dismissed", "snoozed"}, day \in Days :
            alerts' = [alerts EXCEPT ![k].status = status, ![k].until = day]
      BY <1>8, DaysTyped DEF UpdateAlert
    <3>2. alerts \in [AlertKeys -> AlertRow]
      BY DEF TypeOK, TableTypes, Tables
    <3>3. alerts' = [alerts EXCEPT ![k] = [alerts[k] EXCEPT !.status = status, !.until = day]]
      BY <3>1
    <3> QED BY <1>8, <3>2, <3>3, AlertTyped
  <2> QED BY <1>8, <2>1 DEF UpdateAlert, ServerOnly, TypeOK, TableTypes, Tables, Writing
<1>9. CASE NextDay
  <2>1. today' \in Days
    BY <1>9, LedgerAssumption DEF NextDay, TypeOK, Days
  <2> QED BY <1>9, <2>1 DEF NextDay, TypeOK, TableTypes, Tables, tables, Writing
<1> QED BY <1>1, <1>2, <1>3, <1>4, <1>5, <1>6, <1>7, <1>8, <1>9

LEMMA StepTyped == TypeOK /\ [Next]_vars => TypeOK'
<1> SUFFICES ASSUME TypeOK, [Next]_vars PROVE TypeOK'
  OBVIOUS
<1>1. CASE UNCHANGED vars
  BY <1>1 DEF vars, tables, TypeOK, TableTypes, Tables, Writing
<1> QED BY <1>1, WorkerTyped, UserTyped DEF Next

\* Every table and its committed copy keep their types; an item is absent or
\* numbered, whatever was archived, restored or purged while an attempt ran.
THEOREM Typing == Spec => []TypeOK
BY InitTyped, StepTyped, PTL DEF Spec

-----------------------------------------------------------------------------
(* The inductive invariant.  The tables are sound at every step, those that *)
(* were last committed are sound while the worker writes, and what it wrote *)
(* since then only adds to them.  Nobody but the worker revises an item, so *)
(* what it holds of an item is what the item says, unless it was purged.    *)

Numbered(t) == \A i \in Items : t.items[i].present => t.items[i].no \in Numbers

Evident(t) ==
    \A r \in Rules, k \in Keys :
        t.alerts[<<r, k[1], k[2]>>].status # "absent" =>
            t.events[k] # NoEvent /\ t.versions[k].reading.verified

Sound(t) == Documented(t) /\ Numbered(t) /\ Evident(t)

\* The match m that the worker holds for candidate c.
Held(c, m) ==
    /\ m.item = NoItem => m = NoMatch /\ ~items[c.key].present
    /\ m.item # NoItem /\ items[m.item].present => m = Record(m.item)

Grows(new, old) == new = old \/ Recorded!Extends(new, old)

LedgerInv ==
    /\ TypeOK
    /\ Sound(Tables)
    /\ worker.pc = "found" => Held(Head(worker.todo), worker.match)
    /\ Writing => Sound(saved) /\ \A i \in Items : Grows(History(Tables)[i], History(saved)[i])

-----------------------------------------------------------------------------
(* Histories.                                                              *)

LEMMA HistoryTyped ==
    ASSUME NEW t, TableTypes(t), Documented(t), NEW i \in Items
    PROVE  /\ History(t)[i] \in Seq(Readings)
           /\ t.items[i].present => /\ Len(History(t)[i]) = t.items[i].no
                                    /\ \A n \in 1..t.items[i].no :
                                         History(t)[i][n] = t.versions[<<i, n>>].reading
           /\ ~t.items[i].present => History(t)[i] = <<>>
<1> DEFINE no == t.items[i].no
<1>1. CASE ~t.items[i].present
  BY <1>1 DEF History
<1>2. CASE t.items[i].present
  <2>1. no \in 0..MaxNo
    BY ItemTyped DEF TableTypes
  <2>2. \A n \in 1..no : t.versions[<<i, n>>].reading \in Readings
    <3> SUFFICES ASSUME NEW n \in 1..no PROVE t.versions[<<i, n>>].reading \in Readings
      OBVIOUS
    <3>1. <<i, n>> \in Keys
      BY <2>1, LedgerAssumption DEF Keys, Numbers
    <3>2. t.versions[<<i, n>>] \in VersionRow \cup {NoVersion} /\ t.versions[<<i, n>>] # NoVersion
      BY <1>2, <3>1 DEF TableTypes, Documented
    <3> QED BY <3>2, VersionTyped
  <2>3. History(t)[i] = [n \in 1..no |-> t.versions[<<i, n>>].reading]
    BY <1>2 DEF History
  <2> HIDE DEF no
  <2>4. no \in Nat
    BY <2>1, LedgerAssumption
  <2>5. History(t)[i] \in Seq(Readings) /\ Len(History(t)[i]) = no
    BY <2>2, <2>3, <2>4
  <2> QED BY <1>2, <2>3, <2>5 DEF no
<1> QED BY <1>1, <1>2

LEMMA GrowsTransitive ==
    ASSUME NEW a \in Seq(Readings), NEW b \in Seq(Readings), NEW c \in Seq(Readings),
           Grows(b, a), Grows(c, b)
    PROVE  Grows(c, a)
<1>1. CASE b = a \/ c = b
  BY <1>1 DEF Grows
<1>2. CASE Recorded!Extends(b, a) /\ Recorded!Extends(c, b)
  <2>1. Len(a) < Len(b) /\ Len(b) < Len(c) /\ Len(a) \in Nat /\ Len(b) \in Nat /\ Len(c) \in Nat
    BY <1>2 DEF Recorded!Extends
  <2>2. \A n \in 1..Len(a) : c[n] = a[n]
    BY <1>2, <2>1 DEF Recorded!Extends
  <2>3. ASSUME NEW n \in Len(a)..(Len(c) - 1), n > 0 PROVE c[n + 1] # c[n]
    <3>1. CASE n < Len(b)
      <4>1. n \in Len(a)..(Len(b) - 1) /\ n \in 1..Len(b) /\ n + 1 \in 1..Len(b)
        BY <2>1, <2>3, <3>1
      <4> QED BY <1>2, <2>3, <4>1 DEF Recorded!Extends
    <3>2. CASE n >= Len(b)
      <4>1. n \in Len(b)..(Len(c) - 1)
        BY <2>1, <3>2
      <4> QED BY <1>2, <2>3, <4>1 DEF Recorded!Extends
    <3> QED BY <2>1, <3>1, <3>2
  <2> QED BY <2>1, <2>2, <2>3 DEF Grows, Recorded!Extends
<1> QED BY <1>1, <1>2 DEF Grows

-----------------------------------------------------------------------------
(* What the worker writes.                                                 *)

LEMMA FindItemHeld ==
    ASSUME NEW c \in Candidates
    PROVE  Held(c, FindItem(c))
<1>1. NoMatch.item = NoItem /\ \A i \in Items : Record(i).item = i /\ i # NoItem
  BY LedgerAssumption DEF NoMatch, Record
<1> QED BY <1>1, CandidateTyped DEF FindItem, Held

\* The item a revision goes to: it is new, it is revised from the version the
\* worker read, or it is gone.
LEMMA RevisedItemIs ==
    ASSUME TypeOK, NEW c \in Candidates, NEW m \in Match, Held(c, m), m.no + 1 \in Numbers
    PROVE  LET i == Target(c, m)
               row == RevisedItem(i, c, m, m.no + 1)
           IN  row.present =>
                 /\ row.no = m.no + 1
                 /\ items[i].present =>
                      m.item = i /\ items[i].no = m.no /\ m.reading = Current(i)
                 /\ ~items[i].present => m.no = 0
<1> DEFINE i == Target(c, m)
           row == RevisedItem(i, c, m, m.no + 1)
<1>1. CASE m.item = NoItem
  <2>1. m.no = 0 /\ ~items[i].present /\ row.no = m.no + 1
    BY <1>1 DEF Held, NoMatch, Target, RevisedItem
  <2> QED BY <2>1
<1>2. CASE m.item # NoItem
  <2>1. i = m.item
    BY <1>2 DEF Target
  <2>2. CASE items[i].present
    <3>1. m = Record(i)
      BY <1>2, <2>1, <2>2 DEF Held
    <3>2. m.no = items[i].no /\ m.reading = Current(i)
      BY <3>1 DEF Record
    <3>3. row.no = m.no + 1
      BY <1>2, <2>2 DEF RevisedItem
    <3> QED BY <2>1, <2>2, <3>2, <3>3
  <2>3. CASE ~items[i].present
    <3>1. row = items[i]
      BY <1>2, <2>3 DEF RevisedItem
    <3> QED BY <2>3, <3>1
  <2> QED BY <2>2, <2>3
<1> QED BY <1>1, <1>2

LEMMA ReviseDocumented ==
    ASSUME TypeOK, Sound(Tables), NEW c \in Candidates, NEW m \in Match, Held(c, m),
           worker.source \in Sources, Revise(c, m)
    PROVE  Documented(Tables)' /\ Numbered(Tables)'
<1> DEFINE i == Target(c, m)
           n == m.no + 1
<1>1. /\ i \in Items /\ n \in Numbers /\ <<i, n>> \in Keys /\ m.no \in 0..MaxNo
      /\ m.no \in Nat
  BY TargetTyped, MatchTyped, LedgerAssumption DEF Revise, Keys
<1>2. /\ versions'[<<i, n>>] = [source |-> worker.source, reading |-> c.reading]
      /\ \A k \in Keys \ {<<i, n>>} : versions'[k] = versions[k]
      /\ events'[<<i, n>>] = [old |-> m.no, type |-> ChangeType(m)]
      /\ \A k \in Keys \ {<<i, n>>} : events'[k] = events[k]
  BY <1>1 DEF Revise, TypeOK, TableTypes, Tables
<1>3. observations' = observations \cup {<<i, worker.source, c.reading.content>>}
  BY DEF Revise, Observed
<1>4. /\ items'[i] = RevisedItem(i, c, m, n)
      /\ \A j \in Items \ {i} : items'[j] = items[j]
  BY <1>1 DEF Revise, TypeOK, TableTypes, Tables
<1>5. items'[i].present => /\ items'[i].no = n
                           /\ items[i].present => items[i].no = m.no
                           /\ ~items[i].present => m.no = 0
  BY <1>1, <1>4, RevisedItemIs
<1>6. [source |-> worker.source, reading |-> c.reading] # NoVersion
  BY LedgerAssumption DEF NoVersion
<1> HIDE DEF i, n
<1>7. ASSUME NEW j \in Items, items'[j].present, NEW k \in 1..(items'[j].no)
      PROVE  /\ versions'[<<j, k>>] # NoVersion
             /\ events'[<<j, k>>] = [old |-> k - 1, type |-> IF k = 1 THEN "new" ELSE "changed"]
             /\ <<j, versions'[<<j, k>>].source, versions'[<<j, k>>].reading.content>>
                    \in observations'
  <2>1. CASE j = i /\ k = n
    <3>1. events'[<<j, k>>] = [old |-> k - 1, type |-> IF k = 1 THEN "new" ELSE "changed"]
      <4>1. n - 1 = m.no /\ (n = 1 <=> m.no = 0)
        BY <1>1 DEF n
      <4> QED BY <1>2, <2>1, <4>1 DEF ChangeType
    <3> QED BY <1>2, <1>3, <1>6, <2>1, <3>1
  <2>2. CASE ~(j = i /\ k = n)
    <3>1. items[j].present /\ k \in 1..items[j].no
      <4>1. CASE j = i
        <5>1. k \in 1..n /\ k # n /\ n = m.no + 1
          BY <1>5, <1>7, <2>2, <4>1 DEF n
        <5> QED BY <1>1, <1>5, <1>7, <4>1, <5>1
      <4>2. CASE j # i
        BY <1>4, <1>7, <4>2
      <4> QED BY <4>1, <4>2
    <3>2. <<j, k>> \in Keys
      <4>1. items[j].no \in 0..MaxNo
        BY ItemTyped DEF TypeOK, TableTypes, Tables
      <4> QED BY <3>1, <4>1, LedgerAssumption DEF Keys, Numbers
    <3>3. <<j, k>> # <<i, n>>
      BY <2>2
    <3>4. versions'[<<j, k>>] = versions[<<j, k>>] /\ events'[<<j, k>>] = events[<<j, k>>]
      BY <1>2, <3>2, <3>3
    <3> QED BY <1>3, <3>1, <3>4 DEF Sound, Documented, Tables
  <2> QED BY <2>1, <2>2
<1>8. ASSUME NEW j \in Items, items'[j].present PROVE items'[j].no \in Numbers
  BY <1>1, <1>4, <1>5, <1>8 DEF Sound, Numbered, Tables, n
<1> QED BY <1>7, <1>8 DEF Documented, Numbered, Tables

LEMMA ReviseEvident ==
    ASSUME TypeOK, Sound(Tables), NEW c \in Candidates, NEW m \in Match,
           worker.source \in Sources, Revise(c, m)
    PROVE  Evident(Tables)'
<1> DEFINE i == Target(c, m)
           n == m.no + 1
<1>1. i \in Items /\ n \in Numbers /\ <<i, n>> \in Keys
  BY TargetTyped DEF Revise, Keys
<1>2. /\ versions'[<<i, n>>] = [source |-> worker.source, reading |-> c.reading]
      /\ \A k \in Keys \ {<<i, n>>} : versions'[k] = versions[k]
      /\ events'[<<i, n>>] = [old |-> m.no, type |-> ChangeType(m)]
      /\ \A k \in Keys \ {<<i, n>>} : events'[k] = events[k]
  BY <1>1 DEF Revise, TypeOK, TableTypes, Tables
<1>3. ASSUME NEW r \in Rules, NEW k \in Keys,
             alerts'[<<r, k[1], k[2]>>].status # "absent"
      PROVE  events'[k] # NoEvent /\ versions'[k].reading.verified
  <2> DEFINE a == <<r, k[1], k[2]>>
  <2>1. a \in AlertKeys /\ k = <<k[1], k[2]>> /\ a[2] = k[1] /\ a[3] = k[2]
    BY LedgerAssumption DEF AlertKeys, Keys, Numbers
  <2>2. \/ alerts'[a] = alerts[a]
        \/ k = <<i, n>> /\ Alarming(c.reading, ChangeType(m))
    BY <2>1 DEF Revise, WithAlerts
  <2>3. CASE alerts'[a] = alerts[a]
    <3>1. events[k] # NoEvent /\ versions[k].reading.verified
      BY <1>3, <2>3 DEF Sound, Evident, Tables
    <3>2. k # <<i, n>>
      <4>1. versions[<<i, n>>] = NoVersion
        BY DEF Revise
      <4> QED BY <3>1, <4>1 DEF NoVersion, NoReading
    <3> QED BY <1>2, <3>1, <3>2
  <2>4. CASE k = <<i, n>> /\ Alarming(c.reading, ChangeType(m))
    <3>1. c.reading.verified
      BY <2>4 DEF Alarming
    <3>2. [old |-> m.no, type |-> ChangeType(m)] # NoEvent
      BY DEF NoEvent, ChangeType
    <3> QED BY <1>2, <2>4, <3>1, <3>2
  <2> QED BY <2>2, <2>3, <2>4
<1> QED BY <1>3 DEF Evident, Tables

LEMMA ReviseGrows ==
    ASSUME TypeOK, Sound(Tables), NEW c \in Candidates, NEW m \in Match, Held(c, m),
           worker.source \in Sources, Revise(c, m), NEW j \in Items
    PROVE  Grows(History(Tables)'[j], History(Tables)[j])
<1> DEFINE i == Target(c, m)
           n == m.no + 1
           old == History(Tables)[j]
           new == History(Tables)'[j]
<1>1. i \in Items /\ n \in Numbers /\ <<i, n>> \in Keys /\ m.no \in Nat
  BY TargetTyped, MatchTyped, LedgerAssumption DEF Revise, Keys
<1>2. /\ versions'[<<i, n>>] = [source |-> worker.source, reading |-> c.reading]
      /\ \A k \in Keys \ {<<i, n>>} : versions'[k] = versions[k]
  BY <1>1 DEF Revise, TypeOK, TableTypes, Tables
<1>3. /\ items'[i] = RevisedItem(i, c, m, n)
      /\ \A k \in Items \ {i} : items'[k] = items[k]
  BY <1>1 DEF Revise, TypeOK, TableTypes, Tables
<1>4. TableTypes(Tables)' /\ Documented(Tables)' /\ TableTypes(Tables) /\ Documented(Tables)
  BY ReconcileTyped, ReviseDocumented DEF TypeOK, Sound
<1>5. /\ old \in Seq(Readings)
      /\ items[j].present => /\ Len(old) = items[j].no
                             /\ \A k \in 1..items[j].no : old[k] = versions[<<j, k>>].reading
      /\ ~items[j].present => old = <<>>
  BY <1>4, HistoryTyped DEF Tables
<1>6. /\ new \in Seq(Readings)
      /\ items'[j].present => /\ Len(new) = items'[j].no
                              /\ \A k \in 1..items'[j].no : new[k] = versions'[<<j, k>>].reading
      /\ ~items'[j].present => new = <<>>
  BY <1>4, HistoryTyped DEF Tables
<1>7. items'[i].present => /\ items'[i].no = n
                           /\ items[i].present => /\ m.item = i /\ items[i].no = m.no
                                                  /\ m.reading = Current(i)
                           /\ ~items[i].present => m.no = 0
  BY <1>1, <1>3, RevisedItemIs
<1>8. items[i].present => items'[i].present
  <2>1. CASE m.item = NoItem
    BY <1>3, <2>1 DEF RevisedItem
  <2>2. CASE m.item # NoItem
    BY <1>3, <2>2 DEF RevisedItem
  <2> QED BY <2>1, <2>2
<1>9. items[j].no \in 0..MaxNo
  BY ItemTyped DEF TypeOK, TableTypes, Tables
<1> HIDE DEF i, old, new
<1>10. CASE j # i
  <2>1. items'[j] = items[j]
    BY <1>3, <1>10
  <2>2. \A k \in 1..items[j].no : versions'[<<j, k>>] = versions[<<j, k>>]
    <3> SUFFICES ASSUME NEW k \in 1..items[j].no
                 PROVE  versions'[<<j, k>>] = versions[<<j, k>>]
      OBVIOUS
    <3>1. <<j, k>> \in Keys
      BY <1>9, LedgerAssumption DEF Keys, Numbers
    <3> QED BY <1>2, <1>10, <3>1
  <2>3. new = old
    <3>1. [k \in 1..items[j].no |-> versions'[<<j, k>>].reading]
            = [k \in 1..items[j].no |-> versions[<<j, k>>].reading]
      BY <2>2
    <3> QED BY <2>1, <3>1 DEF History, Tables, old, new
  <2> QED BY <2>3 DEF Grows, old, new
<1>11. CASE j = i
  <2>1. CASE ~items'[i].present
    <3>1. new = <<>> /\ old = <<>>
      BY <1>5, <1>6, <1>8, <1>11, <2>1
    <3> QED BY <3>1 DEF Grows, old, new
  <2>2. CASE items'[i].present
    <3>1. Len(old) = m.no /\ Len(new) = n
      BY <1>1, <1>5, <1>6, <1>7, <1>11, <2>2
    <3>2. \A k \in 1..Len(old) : new[k] = old[k]
      <4> SUFFICES ASSUME NEW k \in 1..m.no PROVE new[k] = old[k]
        BY <3>1
      <4>1. items[i].present /\ items[i].no = m.no
        BY <1>7, <2>2
      <4>2. <<i, k>> \in Keys /\ k # n /\ k \in 1..n
        BY <1>1, <1>9, <1>11, <4>1, LedgerAssumption DEF Keys, Numbers
      <4> QED BY <1>2, <1>5, <1>6, <1>7, <1>11, <2>2, <4>1, <4>2
    <3>3. ASSUME NEW k \in Len(old)..(Len(new) - 1), k > 0 PROVE new[k + 1] # new[k]
      <4>1. k = m.no /\ k + 1 = n /\ m.no # 0 /\ k \in 1..m.no /\ n \in 1..n
        BY <1>1, <3>1, <3>3
      <4>2. items[i].present /\ m.item = i /\ items[i].no = m.no /\ m.reading = Current(i)
        BY <1>7, <2>2, <4>1
      <4>3. c.reading # m.reading
        BY <1>1, <4>2, LedgerAssumption DEF Revise, MeaningfulChange
      <4>4. new[n] = c.reading
        BY <1>2, <1>6, <1>7, <1>11, <2>2, <4>1
      <4>5. new[k] = Current(i)
        BY <1>5, <1>11, <3>1, <3>2, <4>1, <4>2 DEF Current
      <4> QED BY <4>1, <4>2, <4>3, <4>4, <4>5
    <3> QED BY <1>1, <3>1, <3>2, <3>3 DEF Grows, Recorded!Extends, old, new
  <2> QED BY <2>1, <2>2
<1> QED BY <1>10, <1>11

\* An observation is all that is added: the histories stay as they are.
LEMMA ObserveSound ==
    ASSUME TypeOK, Sound(Tables), NEW c \in Candidates, NEW m \in Match, Observe(c, m)
    PROVE  Sound(Tables)' /\ History(Tables)' = History(Tables)
<1>1. Documented(Tables)'
  BY DEF Observe, Observed, Sound, Documented, Tables
<1>2. Numbered(Tables)' /\ Evident(Tables)'
  BY DEF Observe, Sound, Numbered, Evident, Tables
<1>3. History(Tables)' = History(Tables)
  BY DEF Observe, History, Tables
<1> QED BY <1>1, <1>2, <1>3 DEF Sound

LEMMA ReconcileSound ==
    ASSUME TypeOK, Sound(Tables), NEW c \in Candidates, NEW m \in Match, Held(c, m),
           worker.source \in Sources, Observe(c, m) \/ Revise(c, m)
    PROVE  Sound(Tables)' /\ \A i \in Items : Grows(History(Tables)'[i], History(Tables)[i])
BY ReviseDocumented, ReviseEvident, ReviseGrows, ObserveSound DEF Sound, Grows

-----------------------------------------------------------------------------
(* What everybody else does: items are marked or purged, never revised.    *)

Forgets ==
    /\ \A j \in Items :
         /\ items'[j].present =>
              /\ items[j].present /\ items'[j].no = items[j].no
              /\ \A n \in Numbers : /\ versions'[<<j, n>>] = versions[<<j, n>>]
                                   /\ events'[<<j, n>>] = events[<<j, n>>]
              /\ \A o \in observations : o[1] = j => o \in observations'
         /\ items[j].present => items'[j].present \/ items[j].archived
    /\ \A r \in Rules, k \in Keys :
         alerts'[<<r, k[1], k[2]>>].status # "absent" =>
           /\ alerts[<<r, k[1], k[2]>>].status # "absent"
           /\ versions'[k] = versions[k] /\ events'[k] = events[k]

LEMMA NothingForgotten == UNCHANGED tables => Forgets
BY DEF tables, Forgets

LEMMA MarkedForgets ==
    ASSUME TypeOK, UNCHANGED <<versions, events, observations, alerts>>,
           \A j \in Items : items'[j].present = items[j].present /\ items'[j].no = items[j].no
    PROVE  Forgets
BY DEF Forgets

LEMMA UserForgets ==
    ASSUME TypeOK,
           \/ ScanDueItems
           \/ \E S \in SUBSET Items \ {{}} : SelectRejected(S) \/ Restore(S) \/ Purge(S)
           \/ ArchiveSelected \/ DropSelection
           \/ \E r \in Rules : UpsertRule(r)
           \/ \E k \in AlertKeys : UpdateAlert(k)
           \/ NextDay
    PROVE  Forgets /\ UNCHANGED <<worker, saved>> /\ (Writing => UNCHANGED tables)
<1>1. CASE ScanDueItems
  <2>1. \A k \in AlertKeys : alerts'[k].status # "absent" => alerts[k].status # "absent"
    BY <1>1 DEF ScanDueItems
  <2>2. \A r \in Rules, k \in Keys : <<r, k[1], k[2]>> \in AlertKeys
    BY LedgerAssumption DEF AlertKeys, Keys, Numbers
  <2> QED BY <1>1, <2>1, <2>2 DEF ScanDueItems, Forgets, Writing
<1>2. ASSUME NEW S \in SUBSET Items, SelectRejected(S)
      PROVE  Forgets /\ UNCHANGED <<worker, saved>> /\ ~Writing
  BY <1>2, NothingForgotten DEF SelectRejected
<1>3. ASSUME NEW S \in SUBSET Items, Restore(S)
      PROVE  Forgets /\ UNCHANGED <<worker, saved>> /\ ~Writing
  <2>1. \A j \in Items : items'[j].present = items[j].present /\ items'[j].no = items[j].no
    BY <1>3, ItemRowMarked DEF Restore, TypeOK, TableTypes, Tables
  <2> QED BY <1>3, <2>1, MarkedForgets DEF Restore, ServerOnly
<1>4. ASSUME NEW S \in SUBSET Items, Purge(S)
      PROVE  Forgets /\ UNCHANGED <<worker, saved>> /\ ~Writing
  <2>1. \A j \in Items : /\ j \in S => ~items'[j].present /\ items[j].archived
                         /\ j \notin S => items'[j] = items[j]
    BY <1>4, AbsentKept DEF Purge
  <2>2. \A j \in Items \ S : /\ \A n \in Numbers : /\ versions'[<<j, n>>] = versions[<<j, n>>]
                                                 /\ events'[<<j, n>>] = events[<<j, n>>]
                            /\ \A o \in observations : o[1] = j => o \in observations'
    BY <1>4 DEF Purge, Keys
  <2>3. ASSUME NEW r \in Rules, NEW k \in Keys, alerts'[<<r, k[1], k[2]>>].status # "absent"
        PROVE  /\ alerts[<<r, k[1], k[2]>>].status # "absent"
               /\ versions'[k] = versions[k] /\ events'[k] = events[k]
    <3>1. <<r, k[1], k[2]>> \in AlertKeys
      BY LedgerAssumption DEF AlertKeys, Keys, Numbers
    <3>2. k[1] \notin S
      BY <1>4, <2>3, <3>1 DEF Purge, NoAlert
    <3> QED BY <1>4, <2>3, <3>1, <3>2 DEF Purge
  <2>4. UNCHANGED <<worker, saved>> /\ ~Writing
    BY <1>4 DEF Purge, ServerOnly
  <2> QED BY <2>1, <2>2, <2>3, <2>4 DEF Forgets
<1>5. CASE ArchiveSelected
  <2>1. \A j \in Items : items'[j].present = items[j].present /\ items'[j].no = items[j].no
    BY <1>5, ItemRowMarked DEF ArchiveSelected, TypeOK, TableTypes, Tables
  <2> QED BY <1>5, <2>1, MarkedForgets DEF ArchiveSelected, ServerOnly
<1>6. CASE DropSelection
  BY <1>6, NothingForgotten DEF DropSelection
<1>7. ASSUME NEW r \in Rules, UpsertRule(r)
      PROVE  Forgets /\ UNCHANGED <<worker, saved>> /\ ~Writing
  BY <1>7, NothingForgotten DEF UpsertRule
<1>8. ASSUME NEW k \in AlertKeys, UpdateAlert(k)
      PROVE  Forgets /\ UNCHANGED <<worker, saved>> /\ ~Writing
  <2>1. \A a \in AlertKeys : alerts'[a].status # "absent" => alerts[a].status # "absent"
    BY <1>8 DEF UpdateAlert, TypeOK, TableTypes, Tables
  <2>2. \A r \in Rules, a \in Keys : <<r, a[1], a[2]>> \in AlertKeys
    BY LedgerAssumption DEF AlertKeys, Keys, Numbers
  <2> QED BY <1>8, <2>1, <2>2 DEF UpdateAlert, ServerOnly, Forgets
<1>9. CASE NextDay
  BY <1>9, NothingForgotten DEF NextDay
<1> QED BY <1>1, <1>2, <1>3, <1>4, <1>5, <1>6, <1>7, <1>8, <1>9

LEMMA ForgetsSound ==
    ASSUME TypeOK, TypeOK', Sound(Tables), Forgets
    PROVE  /\ Sound(Tables)'
           /\ \A j \in Items : items'[j].present => History(Tables)'[j] = History(Tables)[j]
<1>1. ASSUME NEW j \in Items, items'[j].present
      PROVE  /\ items[j].present /\ items'[j].no = items[j].no
             /\ \A n \in 1..items[j].no : /\ versions'[<<j, n>>] = versions[<<j, n>>]
                                         /\ events'[<<j, n>>] = events[<<j, n>>]
  <2>1. items[j].no \in 0..MaxNo
    BY ItemTyped DEF TypeOK, TableTypes, Tables
  <2>2. \A n \in 1..items[j].no : n \in Numbers
    BY <2>1, LedgerAssumption DEF Numbers
  <2> QED BY <1>1, <2>2 DEF Forgets
<1>2. Documented(Tables)'
  <2> SUFFICES ASSUME NEW j \in Items, items'[j].present, NEW n \in 1..items'[j].no
               PROVE  /\ versions'[<<j, n>>] # NoVersion
                      /\ events'[<<j, n>>] = [old |-> n - 1,
                                             type |-> IF n = 1 THEN "new" ELSE "changed"]
                      /\ <<j, versions'[<<j, n>>].source, versions'[<<j, n>>].reading.content>>
                           \in observations'
    BY DEF Documented, Tables
  <2>1. /\ versions[<<j, n>>] # NoVersion
        /\ events[<<j, n>>] = [old |-> n - 1, type |-> IF n = 1 THEN "new" ELSE "changed"]
        /\ <<j, versions[<<j, n>>].source, versions[<<j, n>>].reading.content>> \in observations
    BY <1>1 DEF Sound, Documented, Tables
  <2>2. \A o \in observations : o[1] = j => o \in observations'
    BY DEF Forgets
  <2> QED BY <1>1, <2>1, <2>2
<1>3. Numbered(Tables)'
  BY <1>1 DEF Sound, Numbered, Tables
<1>4. Evident(Tables)'
  BY DEF Sound, Evident, Tables, Forgets
<1>5. ASSUME NEW j \in Items, items'[j].present
      PROVE  History(Tables)'[j] = History(Tables)[j]
  <2>1. [n \in 1..items'[j].no |-> versions'[<<j, n>>].reading]
          = [n \in 1..items[j].no |-> versions[<<j, n>>].reading]
    BY <1>1, <1>5
  <2> QED BY <1>1, <1>5, <2>1 DEF History, Tables
<1> QED BY <1>2, <1>3, <1>4, <1>5 DEF Sound

LEMMA ForgetsHeld ==
    ASSUME TypeOK, Forgets, NEW c \in Candidates, NEW m \in Match, Held(c, m)
    PROVE  Held(c, m)'
<1>1. CASE m.item = NoItem
  BY <1>1, CandidateTyped DEF Held, Forgets
<1>2. CASE m.item # NoItem /\ items'[m.item].present
  <2> DEFINE i == m.item
  <2>1. i \in Items /\ items[i].no \in 0..MaxNo
    BY <1>2, MatchTyped, ItemTyped DEF TypeOK, TableTypes, Tables
  <2>2. items[i].present /\ items'[i].no = items[i].no
    BY <1>2, <2>1 DEF Forgets
  <2>3. items[i].no # 0 => versions'[<<i, items[i].no>>] = versions[<<i, items[i].no>>]
    BY <1>2, <2>1, LedgerAssumption DEF Forgets, Numbers
  <2>4. Record(i)' = Record(i)
    BY <2>2, <2>3 DEF Record, Current
  <2> QED BY <1>2, <2>2, <2>4 DEF Held
<1> QED BY <1>1, <1>2 DEF Held

-----------------------------------------------------------------------------
(* The invariant is inductive.                                             *)

LEMMA LedgerInit == Init => LedgerInv
<1> SUFFICES ASSUME Init PROVE LedgerInv
  OBVIOUS
<1>1. TypeOK /\ worker.pc = "idle"
  BY InitTyped, IdleTyped DEF Init
<1>2. Documented(Tables)
  <2> SUFFICES ASSUME NEW i \in Items, items[i].present, NEW n \in 1..items[i].no
               PROVE  /\ versions[<<i, n>>] # NoVersion
                      /\ events[<<i, n>>] = [old |-> n - 1,
                                            type |-> IF n = 1 THEN "new" ELSE "changed"]
                      /\ <<i, versions[<<i, n>>].source, versions[<<i, n>>].reading.content>>
                           \in observations
    BY DEF Documented, Tables
  <2>1. i \in DOMAIN Legacy /\ n = 1 /\ <<i, n>> \in Keys
    BY LedgerAssumption DEF Init, Absent, Keys, Numbers
  <2>2. versions[<<i, n>>] = [source |-> "migration", reading |-> Legacy[i]]
    BY <2>1 DEF Init
  <2>3. events[<<i, n>>] = [old |-> 0, type |-> "new"]
    BY <2>1 DEF Init
  <2> QED BY <2>1, <2>2, <2>3 DEF Init, NoVersion
<1>3. Numbered(Tables)
  BY LedgerAssumption DEF Init, Absent, Numbered, Numbers, Tables
<1>4. Evident(Tables)
  <2>1. \A r \in Rules, k \in Keys : <<r, k[1], k[2]>> \in AlertKeys
    BY LedgerAssumption DEF AlertKeys, Keys, Numbers
  <2> QED BY <2>1 DEF Init, Evident, Tables, NoAlert
<1> QED BY <1>1, <1>2, <1>3, <1>4 DEF LedgerInv, Sound, Writing

LEMMA TablesKept ==
    ASSUME UNCHANGED tables
    PROVE  UNCHANGED <<Tables, Sound(Tables), History(Tables)>>
<1>1. Tables' = Tables
  BY DEF tables, Tables
<1> QED BY <1>1 DEF Sound, Documented, Numbered, Evident, History

LEMMA UserStep ==
    ASSUME LedgerInv, TypeOK', Forgets, UNCHANGED <<worker, saved>>, Writing => UNCHANGED tables
    PROVE  LedgerInv'
<1>1. Sound(Tables)'
  BY ForgetsSound DEF LedgerInv
<1>2. worker'.pc = "found" => Held(Head(worker.todo), worker.match)'
  <2> SUFFICES ASSUME worker.pc = "found" PROVE Held(Head(worker.todo), worker.match)'
    OBVIOUS
  <2>1. Head(worker.todo) \in Candidates /\ worker.match \in Match
    BY TodoTyped DEF LedgerInv, TypeOK, Attempt
  <2> QED BY <2>1, ForgetsHeld DEF LedgerInv
<1>3. CASE Writing
  <2>1. Writing' /\ saved' = saved /\ History(Tables)' = History(Tables)
    BY <1>3, TablesKept DEF Writing
  <2>2. Sound(saved)' = Sound(saved) /\ History(saved)' = History(saved)
    BY <2>1 DEF Sound, Documented, Numbered, Evident, History
  <2>3. \A i \in Items : Grows(History(Tables)'[i], History(saved)'[i])
    BY <1>3, <2>1, <2>2 DEF LedgerInv
  <2> QED BY <1>1, <1>2, <1>3, <2>2, <2>3 DEF LedgerInv
<1>4. CASE ~Writing
  BY <1>1, <1>2, <1>4 DEF LedgerInv, Writing
<1> QED BY <1>3, <1>4

\* What the next write of the attempt starts from.
LEMMA ReconcileStep ==
    ASSUME LedgerInv, NEW m \in Match, Reconcile(m), worker.pc # "idle",
           Held(Head(worker.todo), m)
    PROVE  /\ Sound(Tables)' /\ worker'.pc = "writing"
           /\ \A i \in Items : Grows(History(Tables)'[i], History(Tables)[i])
<1>1. Head(worker.todo) \in Candidates
  BY TodoTyped DEF LedgerInv, TypeOK, Reconcile
<1>2. worker'.pc = "writing"
  BY DEF Reconcile, LedgerInv, TypeOK, Attempt
<1> QED BY <1>1, <1>2, ReconcileSound DEF LedgerInv, TypeOK, Reconcile

LEMMA FinishForgets ==
    ASSUME TypeOK, FinishAttempt \/ FailAttempt
    PROVE  Forgets /\ worker'.pc = "idle" /\ History(Tables)' = History(Tables)
<1>1. /\ worker'.pc = "idle" /\ UNCHANGED <<versions, events, observations, alerts>>
      /\ \A j \in Items : items'[j].present = items[j].present /\ items'[j].no = items[j].no
  <2>1. CASE FinishAttempt
    BY <2>1, ItemRowMarked, IdleTyped
       DEF FinishAttempt, Release, Unmatched, TypeOK, TableTypes, Tables
  <2>2. CASE FailAttempt
    BY <2>2, IdleTyped DEF FailAttempt, Release
  <2> QED BY <2>1, <2>2
<1>2. History(Tables)' = History(Tables)
  BY <1>1 DEF History, Tables
<1> QED BY <1>1, <1>2, MarkedForgets

LEMMA WorkerStep ==
    ASSUME LedgerInv, TypeOK', Worker
    PROVE  LedgerInv'
<1>1. ASSUME NEW s \in Sources, StartAttempt(s) PROVE LedgerInv'
  <2>1. worker'.pc = "reading" /\ Sound(Tables)'
    BY <1>1, IdleTyped, TablesKept DEF StartAttempt, LedgerInv, Attempt
  <2> QED BY <2>1 DEF LedgerInv, Writing
<1>2. CASE FindFirst
  <2> DEFINE c == Head(worker.todo)
             m == FindItem(c)
  <2>1. c \in Candidates
    BY <1>2, TodoTyped DEF FindFirst, LedgerInv, TypeOK
  <2>2. worker'.pc = "found" /\ worker'.todo = worker.todo /\ worker'.match = m
    BY <1>2 DEF FindFirst, LedgerInv, TypeOK, Attempt
  <2>3. UNCHANGED <<items, versions>> /\ Sound(Tables)'
    BY <1>2, TablesKept DEF FindFirst, tables, LedgerInv
  <2>4. Held(Head(worker.todo), FindItem(Head(worker.todo)))
    BY <2>1, FindItemHeld
  <2>5. \A i \in Items : Record(i)' = Record(i)
    BY <2>3 DEF Record, Current
  <2>6. Held(Head(worker.todo), worker.match)'
    <3>1. m \in Match
      BY <2>1, FindItemTyped DEF LedgerInv, TypeOK
    <3> HIDE DEF m
    <3> QED BY <2>2, <2>3, <2>4, <2>5, <3>1, MatchTyped DEF Held, m
  <2> QED BY <2>2, <2>3, <2>6 DEF LedgerInv, Writing
<1>3. CASE WriteFirst
  <2>1. Held(Head(worker.todo), worker.match) /\ worker.match \in Match
    BY <1>3 DEF WriteFirst, LedgerInv, TypeOK, Attempt
  <2>2. /\ Sound(Tables)' /\ worker'.pc = "writing"
        /\ \A i \in Items : Grows(History(Tables)'[i], History(Tables)[i])
    BY <1>3, <2>1, ReconcileStep DEF WriteFirst
  <2>3. saved' = Tables
    BY <1>3 DEF WriteFirst
  <2>4. Sound(saved)' /\ History(saved)' = History(Tables)
    BY <2>3 DEF LedgerInv, Sound, Documented, Numbered, Evident, History
  <2> QED BY <2>2, <2>4 DEF LedgerInv
<1>4. CASE WriteNext
  <2>1. Head(worker.todo) \in Candidates
    BY <1>4, TodoTyped DEF WriteNext, LedgerInv, TypeOK
  <2>2. Held(Head(worker.todo), FindItem(Head(worker.todo)))
    BY <2>1, FindItemHeld
  <2>3. FindItem(Head(worker.todo)) \in Match
    BY <2>1, FindItemTyped DEF LedgerInv, TypeOK
  <2>4. /\ Sound(Tables)' /\ worker'.pc = "writing"
        /\ \A i \in Items : Grows(History(Tables)'[i], History(Tables)[i])
    BY <1>4, <2>2, <2>3, ReconcileStep DEF WriteNext, Writing
  <2>5. saved' = saved /\ Writing /\ Sound(saved)
    BY <1>4 DEF WriteNext, LedgerInv
  <2>6. Sound(saved)' /\ History(saved)' = History(saved)
    BY <2>5 DEF Sound, Documented, Numbered, Evident, History
  <2>7. ASSUME NEW i \in Items PROVE Grows(History(Tables)'[i], History(saved)[i])
    <3>1. /\ History(saved)[i] \in Seq(Readings) /\ History(Tables)[i] \in Seq(Readings)
          /\ History(Tables)'[i] \in Seq(Readings)
      BY <2>4, <2>5, HistoryTyped DEF LedgerInv, TypeOK, Sound
    <3>2. Grows(History(Tables)[i], History(saved)[i])
      BY <2>5 DEF LedgerInv
    <3> QED BY <2>4, <3>1, <3>2, GrowsTransitive
  <2> QED BY <2>4, <2>6, <2>7 DEF LedgerInv
<1>5. CASE FinishAttempt \/ FailAttempt
  <2>1. Forgets /\ worker'.pc = "idle"
    BY <1>5, FinishForgets DEF LedgerInv
  <2>2. Sound(Tables)'
    BY <2>1, ForgetsSound DEF LedgerInv
  <2> QED BY <2>1, <2>2 DEF LedgerInv, Writing
<1>6. CASE CrashWorker
  <2>1. Sound(Committed)
    BY DEF Committed, LedgerInv
  <2>2. Sound(Tables)'
    BY <1>6, <2>1 DEF CrashWorker, Sound, Documented, Numbered, Evident, Tables
  <2>3. worker'.pc = "idle"
    BY <1>6, IdleTyped DEF CrashWorker, Release
  <2> QED BY <2>2, <2>3 DEF LedgerInv, Writing
<1> QED BY <1>1, <1>2, <1>3, <1>4, <1>5, <1>6 DEF Worker

LEMMA LedgerStep == LedgerInv /\ [Next]_vars => LedgerInv'
<1> SUFFICES ASSUME LedgerInv, [Next]_vars PROVE LedgerInv'
  OBVIOUS
<1>1. TypeOK'
  BY StepTyped DEF LedgerInv
<1>2. CASE UNCHANGED vars
  BY <1>1, <1>2, NothingForgotten, UserStep DEF vars
<1>3. CASE Worker
  BY <1>1, <1>3, WorkerStep
<1> QED BY <1>1, <1>2, <1>3, UserForgets, UserStep DEF Next, LedgerInv

LEMMA LedgerInvariant == Spec => []LedgerInv
BY LedgerInit, LedgerStep, PTL DEF Spec

\* Every version up to an item's current number is there, with the event and the
\* observation that document it, for any number of items, sources and attempts.
THEOREM HistoriesAreDocumented == Spec => []HistoryIsDocumented
<1>1. LedgerInv => HistoryIsDocumented
  BY DEF LedgerInv, Sound, HistoryIsDocumented
<1> QED BY <1>1, LedgerInvariant, PTL

\* No alert outlives its version or was raised on an unverified one.
THEOREM AlertsLeadToEvidence == Spec => []AlertsHaveEvidence
<1>1. LedgerInv => AlertsHaveEvidence
  BY DEF LedgerInv, Sound, Evident, Tables, AlertsHaveEvidence
<1> QED BY <1>1, LedgerInvariant, PTL

-----------------------------------------------------------------------------
(* The ledger implements RecordHistory.                                    *)

LEMMA CommittedSound ==
    ASSUME LedgerInv
    PROVE  TableTypes(Committed) /\ Sound(Committed)
BY DEF LedgerInv, TypeOK, Committed

LEMMA CommittedHistory ==
    ASSUME NEW t, TableTypes(t), Sound(t)
    PROVE  /\ History(t) \in [Items -> Seq(Readings)]
           /\ {i \in Items : t.items[i].archived} \subseteq {i \in Items : History(t)[i] # <<>>}
<1>1. History(t) \in [Items -> Seq(Readings)]
  <2>1. \A i \in Items : History(t)[i] \in Seq(Readings)
    BY HistoryTyped DEF Sound
  <2> QED BY <2>1 DEF History
<1>2. ASSUME NEW i \in Items, t.items[i].archived PROVE History(t)[i] # <<>>
  <2>1. t.items[i].present
    BY <1>2, ItemTyped, AbsentKept DEF TableTypes
  <2>2. Len(History(t)[i]) > 0
    BY <2>1, HistoryTyped, LedgerAssumption DEF Sound, Numbered, Numbers
  <2> QED BY <2>2
<1> QED BY <1>1, <1>2

\* Each item's committed history stays, grows, or goes with an archived item.
LEMMA HistoryMoves ==
    ASSUME LedgerInv, LedgerInv', [Next]_vars, NEW i \in Items
    PROVE  \/ Grows(History(Committed)'[i], History(Committed)[i])
           \/ /\ Committed.items[i].archived /\ ~Committed'.items[i].archived
              /\ History(Committed)'[i] = <<>>
<1>1. ASSUME Forgets, UNCHANGED <<worker, saved>>, Writing => UNCHANGED tables
      PROVE  \/ Grows(History(Committed)'[i], History(Committed)[i])
             \/ /\ Committed.items[i].archived /\ ~Committed'.items[i].archived
                /\ History(Committed)'[i] = <<>>
  <2>1. CASE Writing
    <3>1. Committed' = Committed
      BY <1>1, <2>1 DEF Committed, Writing
    <3> QED BY <3>1 DEF Grows, History
  <2>2. CASE ~Writing
    <3>1. Committed = Tables /\ Committed' = Tables'
      BY <1>1, <2>2 DEF Committed, Writing
    <3>2. History(Committed)' = History(Tables)' /\ History(Committed) = History(Tables)
      BY <3>1 DEF History
    <3>3. CASE items'[i].present
      BY <1>1, <3>2, <3>3, ForgetsSound DEF LedgerInv, Grows
    <3>4. CASE ~items'[i].present
      <4>1. History(Tables)'[i] = <<>> /\ ~items'[i].archived
        BY <3>4, ItemTyped, AbsentKept DEF History, Tables, LedgerInv, TypeOK, TableTypes
      <4>2. CASE items[i].present
        <5>1. items[i].archived
          BY <1>1, <3>4, <4>2 DEF Forgets
        <5> QED BY <3>1, <3>2, <4>1, <5>1 DEF Tables
      <4>3. CASE ~items[i].present
        BY <3>2, <4>1, <4>3 DEF History, Tables, Grows
      <4> QED BY <4>2, <4>3
    <3> QED BY <3>3, <3>4
  <2> QED BY <2>1, <2>2
<1>2. ASSUME History(Committed)' = History(Committed)
      PROVE  Grows(History(Committed)'[i], History(Committed)[i])
  BY <1>2 DEF Grows
<1>3. CASE Worker
  <2>1. ASSUME NEW s \in Sources, StartAttempt(s) PROVE History(Committed)' = History(Committed)
    <3>1. worker'.pc = "reading" /\ Tables' = Tables
      BY <2>1, IdleTyped DEF StartAttempt, Attempt, tables, Tables
    <3> QED BY <2>1, <3>1 DEF StartAttempt, Committed, Writing, History
  <2>2. CASE FindFirst
    <3>1. worker'.pc = "found" /\ Tables' = Tables
      BY <2>2 DEF FindFirst, LedgerInv, TypeOK, Attempt, tables, Tables
    <3> QED BY <1>2, <2>2, <3>1 DEF FindFirst, Committed, Writing, History
  <2>3. CASE WriteFirst
    <3>1. Writing' /\ ~Writing /\ saved' = Tables
      BY <2>3 DEF WriteFirst, Reconcile, LedgerInv, TypeOK, Attempt, Writing
    <3> QED BY <1>2, <3>1 DEF Committed, History
  <2>4. CASE WriteNext
    <3>1. Writing' /\ Writing /\ saved' = saved
      BY <2>4 DEF WriteNext, Reconcile, LedgerInv, TypeOK, Attempt, Writing
    <3> QED BY <1>2, <3>1 DEF Committed, History
  <2>5. CASE FinishAttempt \/ FailAttempt
    <3>1. worker'.pc = "idle" /\ History(Tables)' = History(Tables)
      BY <2>5, FinishForgets DEF LedgerInv
    <3>2. Committed' = Tables'
      BY <3>1 DEF Committed, Writing
    <3>3. History(Committed)' = History(Tables)
      BY <3>1, <3>2 DEF History
    <3>4. CASE Writing
      <4>1. Committed = saved
        BY <3>4 DEF Committed
      <4> QED BY <3>3, <3>4, <4>1 DEF LedgerInv
    <3>5. CASE ~Writing
      <4>1. Committed = Tables
        BY <3>5 DEF Committed
      <4> QED BY <3>3, <4>1 DEF Grows
    <3> QED BY <3>4, <3>5
  <2>6. CASE CrashWorker
    <3>1. worker'.pc = "idle"
      BY <2>6, IdleTyped DEF CrashWorker, Release
    <3>2. Committed' = Tables' /\ items' = Committed.items /\ versions' = Committed.versions
      BY <2>6, <3>1 DEF CrashWorker, Committed, Writing
    <3> QED BY <1>2, <3>2 DEF History, Tables
  <2> QED BY <1>2, <1>3, <2>1, <2>2, <2>3, <2>4, <2>5, <2>6 DEF Worker
<1>4. CASE UNCHANGED vars
  BY <1>1, <1>4, NothingForgotten DEF vars
<1> QED BY <1>1, <1>3, <1>4, UserForgets DEF Next, LedgerInv

\* The committed tables implement RecordHistory: a judgement is revised, never
\* rewritten or repeated, and only an archived item disappears, whatever
\* attempts fail, crash or come late.
THEOREM LedgerImplementsHistory == Spec => ImplementsHistory
<1> DEFINE hidden == {i \in Items : Committed.items[i].archived}
<1>1. LedgerInv => /\ History(Committed) \in [Items -> Seq(Readings)]
                   /\ hidden \subseteq {i \in Items : History(Committed)[i] # <<>>}
  BY CommittedSound, CommittedHistory
<1>2. Init => Recorded!Init
  BY <1>1, LedgerInit DEF Recorded!Init
<1>3. ASSUME LedgerInv, LedgerInv', [Next]_vars
      PROVE  Recorded!Next
  <2>1. /\ History(Committed)' \in [Items -> Seq(Readings)]
        /\ hidden' \subseteq {i \in Items : History(Committed)'[i] # <<>>}
    <3>1. TableTypes(Committed)' /\ Sound(Committed)'
      BY <1>3 DEF LedgerInv, TypeOK, Committed
    <3> QED BY <3>1, CommittedHistory
  <2>2. \A i \in Items : Recorded!Keep(i) \/ Recorded!Revise(i) \/ Recorded!Purge(i)
    <3> SUFFICES ASSUME NEW i \in Items
                 PROVE  Recorded!Keep(i) \/ Recorded!Revise(i) \/ Recorded!Purge(i)
      OBVIOUS
    <3>1. CASE Grows(History(Committed)'[i], History(Committed)[i])
      BY <3>1 DEF Grows, Recorded!Keep, Recorded!Revise
    <3>2. CASE /\ Committed.items[i].archived /\ ~Committed'.items[i].archived
               /\ History(Committed)'[i] = <<>>
      BY <3>2 DEF Recorded!Purge
    <3> QED BY <1>3, <3>1, <3>2, HistoryMoves
  <2> QED BY <2>1, <2>2 DEF Recorded!Next
<1>4. LedgerInv /\ [Next]_vars => LedgerInv'
  BY LedgerStep
<1> QED BY <1>2, <1>3, <1>4, LedgerInit, PTL DEF Spec, ImplementsHistory, Recorded!Spec
=============================================================================
