---------------------------- MODULE MemoCatalog ----------------------------
(***************************************************************************)
(* The memo catalog of one dataset: the versions of each series in the     *)
(* database, and the files they describe.  Three parties work on it at     *)
(* once: calls of the memo tool, which write the files of a memo and       *)
(* register them minutes after they looked for an earlier version; page    *)
(* loads, whose backfill registers the files it does not know and removes  *)
(* what is registered twice; and the user, who deletes memos from a page.  *)
(* Each transaction and each look at the directory is a step.              *)
(*                                                                         *)
(* A stem stands for the Markdown, HTML and PDF file of one memo.  Memos   *)
(* carry the time they were generated, so a stem is also a content.  The   *)
(* jobs that follow a version are in TrackingQueue.                        *)
(***************************************************************************)
EXTENDS Naturals, FiniteSetsExt

CONSTANTS Stems,
          Legacy,      \* those whose files were there before the catalog
          Topics,
          Topic,       \* the topic a memo was asked for
          Recovered,   \* the topic the backfill finds in its Markdown
          Lost,        \* the topic of an artifact that cannot be read
          Empty,       \* the content of an artifact that cannot be read
          None,        \* no version, no stem
          Pages,       \* page loads and delete requests at one time
          MaxNo        \* bound: versions are 1..MaxNo

ASSUME CatalogAssumption ==
    /\ Legacy \subseteq Stems
    /\ Topic \in [Stems -> Topics] /\ Recovered \in [Stems -> Topics]
    /\ Lost \in Topics
    /\ Empty \notin Stems
    /\ MaxNo \in Nat \ {0}

VARIABLES files,     \* stems whose files are on disk
          versions,  \* rows of research_memo_versions
          current,   \* current_version_no of each series, 0 without a row
          calls,     \* the call of the memo tool that generates a stem
          pages      \* page loads in progress

vars == <<files, versions, current, calls, pages>>

-----------------------------------------------------------------------------
Numbers == 1..MaxNo

\* memo_version_id digests the series, the number and the content.
Ids == Topics \X Numbers \X (Stems \cup {Empty})

Version == [series : Topics, no : Numbers, content : Stems \cup {Empty}, stem : Stems,
            kind : {"agent_generated", "legacy_backfill"}, parent : Ids \cup {None}]

Call == [pc : {"none", "checked", "written", "over"}, target : Ids \cup {None}]

\* rows: what the page is about to remove, and later what it shows
Page == [pc : {"idle", "removing", "listing", "registering", "topic", "content",
               "shown", "unlinked"},
         rows : SUBSET Version, listed : SUBSET Stems, todo : SUBSET Stems,
         stem : Stems \cup {None}, series : Topics, content : Stems \cup {Empty},
         id : Ids \cup {None}]

Away == [pc |-> "idle", rows |-> {}, listed |-> {}, todo |-> {}, stem |-> None,
         series |-> Lost, content |-> Empty, id |-> None]

Id(v) == <<v.series, v.no, v.content>>

Versions(t) == {v \in versions : v.series = t}

Last(V) == Max({v.no : v \in V} \cup {0})

Init ==
    /\ files = Legacy
    /\ versions = {}
    /\ current = [t \in Topics |-> 0]
    /\ calls = [s \in Stems |-> [pc |-> IF s \in Legacy THEN "over" ELSE "none",
                                 target |-> None]]
    /\ pages = [p \in Pages |-> Away]

-----------------------------------------------------------------------------
(* register_memo_version and delete_memo_version, a transaction each.      *)

Content(s) == IF s \in files THEN s ELSE Empty

\* Mutant: any version of this kind in the series counts as this one.
Registered_ByTopic(t, content, kind) == {v \in Versions(t) : v.kind = kind}

Registered(t, content, kind) == {v \in Versions(t) : v.content = content /\ v.kind = kind}

\* Mutant: the last version is not looked up in the series.
Parent_AnySeries(t, target) ==
    IF target # None THEN target
    ELSE IF versions = {} THEN None
    ELSE Id(CHOOSE v \in versions : v.no = Last(versions))

\* Without an explicit target, a version revises the last one of its series.
Parent(t, target) ==
    IF target # None THEN target
    ELSE IF Versions(t) = {} THEN None
    ELSE Id(CHOOSE v \in Versions(t) : v.no = Last(Versions(t)))

Register(t, content, s, kind, target) ==
    IF Registered(t, content, kind) # {} THEN UNCHANGED <<versions, current>>
    ELSE LET no == Last(Versions(t)) + 1 IN
         /\ no \in Numbers
         /\ versions' = versions \cup {[series |-> t, no |-> no, content |-> content, stem |-> s,
                                        kind |-> kind, parent |-> Parent(t, target)]}
         /\ current' = [current EXCEPT ![t] = no]

\* Mutant: the series keeps the number of the deleted version.
Delete_KeepsCurrent(id) ==
    /\ versions' = {v \in versions : Id(v) # id}
    /\ UNCHANGED current

\* Mutant: the version is named by its number alone.
Delete_ByNumber(id) ==
    /\ versions' = {v \in versions : v.series # id[1] \/ v.no # id[2]}
    /\ current' = [current EXCEPT ![id[1]] = Last({v \in versions' : v.series = id[1]})]

\* The series falls back to the last version that is left, or disappears.
Delete(id) ==
    /\ versions' = {v \in versions : Id(v) # id}
    /\ current' = [current EXCEPT ![id[1]] = Last({v \in versions' : v.series = id[1]})]

-----------------------------------------------------------------------------
(* A call of the memo tool.                                                *)

StartCreate(s) ==
    /\ calls[s].pc = "none"
    /\ Versions(Topic[s]) = {}      \* else the call returns that version
    /\ calls' = [calls EXCEPT ![s].pc = "checked"]
    /\ UNCHANGED <<files, versions, current, pages>>

StartRevise(s) ==
    /\ calls[s].pc = "none"
    /\ \E v \in Versions(Topic[s]) : calls' = [calls EXCEPT ![s] = [pc |-> "checked",
                                                                   target |-> Id(v)]]
    /\ UNCHANGED <<files, versions, current, pages>>

WriteFiles(s) ==
    /\ calls[s].pc = "checked"
    /\ files' = files \cup {s}
    /\ calls' = [calls EXCEPT ![s].pc = "written"]
    /\ UNCHANGED <<versions, current, pages>>

Vanished(target) == target # None /\ \A v \in versions : Id(v) # target

\* An unknown target raises, and the call removes its files.
RegisterMemo(s) ==
    /\ calls[s].pc = "written"
    /\ IF Vanished(calls[s].target)
       THEN /\ files' = files \ {s}
            /\ UNCHANGED <<versions, current>>
       ELSE /\ Register(Topic[s], Content(s), s, "agent_generated", calls[s].target)
            /\ UNCHANGED files
    /\ calls' = [calls EXCEPT ![s].pc = "over"]
    /\ UNCHANGED pages

\* A crash, or a PDF that cannot be rendered: what was written stays.
CrashCall(s) ==
    /\ calls[s].pc \in {"checked", "written"}
    /\ calls' = [calls EXCEPT ![s].pc = "over"]
    /\ UNCHANGED <<files, versions, current, pages>>

-----------------------------------------------------------------------------
(* The backfill of a page load.                                            *)

\* Backfilled rows for files that the memo tool has registered itself.
Duplicates ==
    {v \in versions : /\ v.kind = "legacy_backfill"
                      /\ \E w \in versions : w.kind # "legacy_backfill" /\ w.stem = v.stem}

BeginPass(p) ==
    /\ pages[p].pc = "idle"
    /\ pages' = [pages EXCEPT ![p] = [Away EXCEPT !.pc = "removing", !.rows = Duplicates]]
    /\ UNCHANGED <<files, versions, current, calls>>

RemoveDuplicate(p) ==
    /\ pages[p].pc = "removing"
    /\ \E v \in pages[p].rows :
         /\ Delete(Id(v))
         /\ pages' = [pages EXCEPT ![p].rows = @ \ {v}]
    /\ UNCHANGED <<files, calls>>

\* The paths in the database are read first ...
ReadRegisteredPaths(p) ==
    /\ pages[p].pc = "removing" /\ pages[p].rows = {}
    /\ pages' = [pages EXCEPT ![p] = [@ EXCEPT !.pc = "listing",
                                               !.todo = Stems \ {v.stem : v \in versions}]]
    /\ UNCHANGED <<files, versions, current, calls>>

\* ... and then the directory.
ListDirectory(p) ==
    /\ pages[p].pc = "listing"
    /\ pages' = [pages EXCEPT ![p] = [@ EXCEPT !.pc = "registering", !.listed = files,
                                               !.todo = pages[p].todo \cap files]]
    /\ UNCHANGED <<files, versions, current, calls>>

ReadTopic(p) ==
    /\ pages[p].pc = "registering"
    /\ \E s \in pages[p].todo :
         pages' = [pages EXCEPT ![p] =
                      [@ EXCEPT !.pc = "topic", !.stem = s,
                                !.series = IF s \in files THEN Recovered[s] ELSE Lost]]
    /\ UNCHANGED <<files, versions, current, calls>>

ReadContent(p) ==
    /\ pages[p].pc = "topic"
    /\ pages' = [pages EXCEPT ![p] = [@ EXCEPT !.pc = "content",
                                               !.content = Content(pages[p].stem)]]
    /\ UNCHANGED <<files, versions, current, calls>>

RegisterArtifact(p) ==
    /\ pages[p].pc = "content"
    /\ Register(pages[p].series, pages[p].content, pages[p].stem, "legacy_backfill", None)
    /\ pages' = [pages EXCEPT ![p] = [@ EXCEPT !.pc = "registering",
                                               !.todo = pages[p].todo \ {pages[p].stem},
                                               !.stem = None, !.series = Lost,
                                               !.content = Empty]]
    /\ UNCHANGED <<files, calls>>

\* The page shows the versions there are now.
EndPass(p) ==
    /\ pages[p].pc = "registering" /\ pages[p].todo = {}
    /\ pages' = [pages EXCEPT ![p] = [@ EXCEPT !.pc = "shown", !.rows = versions]]
    /\ UNCHANGED <<files, versions, current, calls>>

-----------------------------------------------------------------------------
(* A delete request, which made a pass of its own; the files go first.     *)

\* Mutant: the id of the version is not in the catalog of the request.
DeleteFiles_LosesId(p) ==
    /\ pages[p].pc = "shown"
    /\ \E v \in pages[p].rows :
         /\ files' = files \ {v.stem}
         /\ pages' = [pages EXCEPT ![p] = [@ EXCEPT !.pc = "unlinked",
                                                    !.rows = pages[p].rows \ {v}]]
    /\ UNCHANGED <<versions, current, calls>>

DeleteFiles(p) ==
    /\ pages[p].pc = "shown"
    /\ \E v \in pages[p].rows :
         /\ files' = files \ {v.stem}
         /\ pages' = [pages EXCEPT ![p] = [@ EXCEPT !.pc = "unlinked", !.id = Id(v),
                                                    !.rows = pages[p].rows \ {v}]]
    /\ UNCHANGED <<versions, current, calls>>

DeleteVersion(p) ==
    /\ pages[p].pc = "unlinked"
    /\ Delete(pages[p].id)
    /\ pages' = [pages EXCEPT ![p] = [@ EXCEPT !.pc = "shown", !.id = None]]
    /\ UNCHANGED <<files, calls>>

\* A request ends or is cut off, after any of its steps.
LeavePage(p) ==
    /\ pages[p].pc # "idle"
    /\ pages' = [pages EXCEPT ![p] = Away]
    /\ UNCHANGED <<files, versions, current, calls>>

-----------------------------------------------------------------------------
Tool(s) ==
    StartCreate(s) \/ StartRevise(s) \/ WriteFiles(s) \/ RegisterMemo(s) \/ CrashCall(s)

Backfill(p) ==
    \/ BeginPass(p) \/ RemoveDuplicate(p) \/ ReadRegisteredPaths(p) \/ ListDirectory(p)
    \/ ReadTopic(p) \/ ReadContent(p) \/ RegisterArtifact(p) \/ EndPass(p)

User(p) == DeleteFiles(p) \/ DeleteVersion(p) \/ LeavePage(p)

Next == (\E s \in Stems : Tool(s)) \/ (\E p \in Pages : Backfill(p) \/ User(p))

Spec == Init /\ [][Next]_vars

-----------------------------------------------------------------------------
(* Properties.                                                             *)

\* The tables, the calls and the pages have their types.
TypeOK ==
    /\ files \subseteq Stems
    /\ versions \subseteq Version
    /\ current \in [Topics -> 0..MaxNo]
    /\ calls \in [Stems -> Call]
    /\ pages \in [Pages -> Page]
    /\ \A p \in Pages : /\ pages[p].pc \in {"topic", "content"} => pages[p].stem \in Stems
                        /\ pages[p].pc = "unlinked" => pages[p].id \in Ids

\* Whatever registrations and deletions cross: a series points at its last
\* version, and no two of its versions have the same number.
SeriesIsCurrent ==
    \A t \in Topics :
        /\ current[t] = Last(Versions(t))
        /\ \A v, w \in Versions(t) : v.no = w.no => v = w

\* The version a memo revises is an earlier one of its own series, also when
\* that version is gone and its number was given away again.
LineageGoesBack ==
    \A v \in versions : v.parent # None => v.parent[1] = v.series /\ v.parent[2] < v.no

\* The clean-up of the backfill works from a list that may be stale when it
\* deletes, and ids are given out again; still, a memo that the tool registered
\* disappears only when the user deletes it.  A memo whose files were gone when
\* it was registered is left out: its id does not tell it from another such one.
RegisteredMemosStay ==
    [][\A v \in versions \ versions' :
          v.kind = "agent_generated" /\ v.content # Empty =>
              \E p \in Pages : pages[p].pc = "unlinked" /\ pages[p].id = Id(v)]_vars

\* Whatever was registered, removed and deleted during its pass, a page shows
\* every memo it found in the directory that is still there.
PageShowsEveryMemo ==
    \A p \in Pages : pages[p].pc = "shown" =>
        \A s \in pages[p].listed \cap files : \E v \in versions : v.stem = s

\* The files of a memo are registered as the same memo_version.
OneVersionPerMemo == \A v, w \in versions : v.stem = w.stem => v = w

\* With a memo on a topic there, create returns "its current version without
\* generating a duplicate": two memos that were created are of two topics.
CreateReturnsExisting ==
    \A v, w \in versions :
        v # w /\ v.series = w.series /\ v.kind = "agent_generated" /\ w.kind = "agent_generated"
          => calls[v.stem].target # None \/ calls[w.stem].target # None
=============================================================================
