------------------------- MODULE MemoCatalogProofs -------------------------
(***************************************************************************)
(* Theorems about MemoCatalog, for every value of its constants.           *)
(***************************************************************************)
EXTENDS MemoCatalog, FiniteSetTheorems, TLAPS

-----------------------------------------------------------------------------
(* The last number of a set of versions.                                   *)

\* Among the sets of what is above an element, one has no smaller one.
LEMMA MaxExists ==
    ASSUME NEW n \in Nat, NEW S \in SUBSET (0..n), S # {}
    PROVE  Max(S) \in S /\ \A y \in S : y <= Max(S)
<1> DEFINE Above(x) == {y \in S : y > x}
           U == {Above(x) : x \in S}
           R == StrictSubsetOrdering(S)
<1>1. IsFiniteSet(S)
  BY FS_BoundedSetOfNaturals
<1>2. IsWellFoundedOn(R, SUBSET S)
  BY <1>1, FS_StrictSubsetOrderingWellFounded, FS_FiniteSubsetsOfFinite
<1>3. U \subseteq SUBSET S /\ U # {}
  OBVIOUS
<1>4. PICK A \in U : \A B \in U : ~(<<B, A>> \in R)
  <2> HIDE DEF R, U
  <2> QED BY <1>2, <1>3, WFMin
<1>5. PICK x \in S : A = Above(x)
  BY <1>4
<1>6. ASSUME NEW y \in S, y > x PROVE FALSE
  <2>1. Above(y) \subseteq Above(x) /\ Above(y) # Above(x)
    <3>1. ASSUME NEW z \in Above(y) PROVE z \in Above(x)
      <4>1. x \in Nat /\ y \in Nat /\ z \in Nat /\ z \in S /\ z > y
        BY <3>1
      <4> QED BY <1>6, <4>1
    <3>2. y \in Above(x) /\ y \notin Above(y)
      BY <1>6
    <3> QED BY <3>1, <3>2
  <2>2. Above(y) \in U
    OBVIOUS
  <2>3. <<Above(y), A>> \in R
    <3> HIDE DEF Above
    <3>1. A \in SUBSET S /\ Above(y) \in SUBSET S
      BY <2>2, <1>3, <1>4
    <3> QED BY <2>1, <1>5, <3>1 DEF StrictSubsetOrdering
  <2> QED BY <1>4, <2>2, <2>3
<1>7. \A y \in S : x >= y
  BY <1>6
<1> QED BY <1>7 DEF Max

LEMMA LastIs ==
    ASSUME NEW V, \A v \in V : v.no \in Numbers
    PROVE  /\ Last(V) \in 0..MaxNo
           /\ \A v \in V : v.no <= Last(V)
           /\ V = {} => Last(V) = 0
           /\ V # {} => \E v \in V : v.no = Last(V)
<1> DEFINE S == {v.no : v \in V} \cup {0}
<1>1. S \in SUBSET (0..MaxNo) /\ S # {} /\ MaxNo \in Nat
  BY CatalogAssumption DEF Numbers
<1>2. Max(S) \in S /\ \A y \in S : y <= Max(S)
  <2> HIDE DEF S
  <2> QED BY <1>1, MaxExists
<1>3. Last(V) = Max(S)
  BY DEF Last
<1>4. Max(S) \in 0..MaxNo /\ \A v \in V : v.no <= Max(S)
  BY <1>1, <1>2
<1>5. V = {} => Max(S) = 0
  BY <1>2
<1>6. ASSUME V # {} PROVE \E v \in V : v.no = Max(S)
  <2>1. PICK w \in V : TRUE
    BY <1>6
  <2>2. w.no >= 1 /\ w.no <= Max(S) /\ w.no \in Nat
    BY <1>4 DEF Numbers
  <2>3. Max(S) # 0
    BY <2>2, <1>4
  <2> QED BY <1>2, <2>3
<1> HIDE DEF S
<1> QED BY <1>3, <1>4, <1>5, <1>6

LEMMA LastEq ==
    ASSUME NEW V, \A v \in V : v.no \in Numbers,
           NEW m \in Nat, \A v \in V : v.no <= m, \E v \in V : v.no = m
    PROVE  Last(V) = m
<1>1. Last(V) \in 0..MaxNo /\ \A v \in V : v.no <= Last(V)
  BY LastIs
<1>2. PICK w \in V : w.no = Last(V)
  BY LastIs
<1> QED BY <1>1, <1>2

LEMMA IdTyped ==
    ASSUME NEW v \in Version
    PROVE  Id(v) \in Ids /\ Id(v)[1] = v.series /\ Id(v)[2] = v.no /\ Id(v)[3] = v.content
BY DEF Version, Id, Ids

-----------------------------------------------------------------------------
(* Types.                                                                  *)

LEMMA ParentTyped ==
    ASSUME versions \subseteq Version, NEW t \in Topics, NEW target \in Ids \cup {None}
    PROVE  /\ Parent(t, target) \in Ids \cup {None}
           /\ target = None /\ Parent(t, target) # None =>
                \E v \in Versions(t) : Parent(t, target) = Id(v)
<1>1. \A v \in Versions(t) : v.no \in Numbers /\ v \in Version
  BY DEF Versions, Version
<1>2. CASE target = None /\ Versions(t) # {}
  <2> DEFINE w == CHOOSE v \in Versions(t) : v.no = Last(Versions(t))
  <2>1. \E v \in Versions(t) : v.no = Last(Versions(t))
    BY <1>1, <1>2, LastIs
  <2>2. w \in Versions(t)
    BY <2>1
  <2>3. Parent(t, target) = Id(w)
    BY <1>2 DEF Parent
  <2> HIDE DEF w
  <2> QED BY <1>1, <1>2, <2>2, <2>3 DEF Version, Id, Ids
<1>3. CASE target # None
  BY <1>3 DEF Parent
<1>4. CASE target = None /\ Versions(t) = {}
  BY <1>4 DEF Parent
<1> QED BY <1>2, <1>3, <1>4

Tables == versions \subseteq Version /\ current \in [Topics -> 0..MaxNo]

LEMMA RegisterTyped ==
    ASSUME Tables, NEW t \in Topics, NEW c \in Stems \cup {Empty}, NEW s \in Stems,
           NEW kind \in {"agent_generated", "legacy_backfill"},
           NEW target \in Ids \cup {None}, Register(t, c, s, kind, target)
    PROVE  Tables'
<1>1. CASE UNCHANGED <<versions, current>>
  BY <1>1 DEF Tables
<1>2. CASE Registered(t, c, kind) = {}
  <2> DEFINE no == Last(Versions(t)) + 1
             new == [series |-> t, no |-> no, content |-> c, stem |-> s, kind |-> kind,
                     parent |-> Parent(t, target)]
  <2>1. no \in Numbers /\ versions' = versions \cup {new}
        /\ current' = [current EXCEPT ![t] = no]
    BY <1>2 DEF Register
  <2>2. Parent(t, target) \in Ids \cup {None}
    BY ParentTyped DEF Tables
  <2> HIDE DEF no
  <2>3. new \in Version
    BY <2>1, <2>2 DEF Version
  <2> QED BY <2>1, <2>3 DEF Tables, Numbers
<1> QED BY <1>1, <1>2 DEF Register

LEMMA DeleteTyped ==
    ASSUME Tables, NEW id \in Ids, Delete(id)
    PROVE  Tables'
<1>1. versions' \subseteq Version
  BY DEF Delete, Tables
<1> DEFINE V == {v \in versions' : v.series = id[1]}
<1>2. \A v \in V : v.no \in Numbers
  BY <1>1 DEF Version
<1>3. Last(V) \in 0..MaxNo
  <2> HIDE DEF V
  <2> QED BY <1>2, LastIs
<1> QED BY <1>1, <1>3 DEF Delete, Tables

\* What RegisterArtifact and DeleteFiles make of a page.
Registering(P) == [P EXCEPT !.pc = "registering", !.todo = P.todo \ {P.stem}, !.stem = None,
                            !.series = Lost, !.content = Empty]

Unlinked(P, v) == [P EXCEPT !.pc = "unlinked", !.id = Id(v), !.rows = P.rows \ {v}]

LEMMA RegisteringPage ==
    ASSUME NEW P \in Page
    PROVE  /\ Registering(P) \in Page
           /\ Registering(P).pc = "registering" /\ Registering(P).rows = P.rows
           /\ Registering(P).listed = P.listed /\ Registering(P).id = P.id
           /\ Registering(P).todo = P.todo \ {P.stem}
<1>1. Lost \in Topics
  BY CatalogAssumption
<1>2. Registering(P) \in Page
  BY <1>1 DEF Registering, Page
<1>3. /\ Registering(P).pc = "registering" /\ Registering(P).rows = P.rows
      /\ Registering(P).listed = P.listed /\ Registering(P).id = P.id
  BY DEF Registering, Page
<1>4. Registering(P).todo = P.todo \ {P.stem}
  BY DEF Registering, Page
<1> QED BY <1>2, <1>3, <1>4

LEMMA UnlinkedPage ==
    ASSUME NEW P \in Page, NEW v \in P.rows
    PROVE  /\ Unlinked(P, v) \in Page /\ Id(v) \in Ids
           /\ Unlinked(P, v).pc = "unlinked" /\ Unlinked(P, v).rows = P.rows \ {v}
           /\ Unlinked(P, v).listed = P.listed /\ Unlinked(P, v).todo = P.todo
           /\ Unlinked(P, v).id = Id(v)
<1>1. Id(v) \in Ids
  BY DEF Page, Version, Id, Ids
<1>2. P.rows \ {v} \in SUBSET Version
  BY DEF Page
<1> HIDE DEF Id, Ids, Version
<1>3. Unlinked(P, v) \in Page
  BY <1>1, <1>2 DEF Unlinked, Page
<1>4. /\ Unlinked(P, v).pc = "unlinked" /\ Unlinked(P, v).rows = P.rows \ {v}
      /\ Unlinked(P, v).listed = P.listed /\ Unlinked(P, v).todo = P.todo
      /\ Unlinked(P, v).id = Id(v)
  BY DEF Unlinked, Page
<1> QED BY <1>1, <1>3, <1>4

LEMMA InitTyped == Init => TypeOK
BY CatalogAssumption DEF Init, TypeOK, Call, Page, Away

LEMMA Typed == TypeOK /\ [Next]_vars => TypeOK'
<1> SUFFICES ASSUME TypeOK, [Next]_vars PROVE TypeOK'
  OBVIOUS
<1> USE DEF TypeOK
<1> Tables
  BY DEF Tables
<1>a. Away \in Page
  BY CatalogAssumption DEF Away, Page
<1>b. \A s \in Stems : Content(s) \in Stems \cup {Empty}
  BY DEF Content
<1>c. \A v \in versions : Id(v) \in Ids
  BY DEF Version, Id, Ids
<1>1. ASSUME NEW s \in Stems, StartCreate(s) PROVE TypeOK'
  BY <1>1 DEF StartCreate, Call
<1>2. ASSUME NEW s \in Stems, StartRevise(s) PROVE TypeOK'
  BY <1>2, <1>c DEF StartRevise, Call, Versions
<1>3. ASSUME NEW s \in Stems, WriteFiles(s) PROVE TypeOK'
  BY <1>3 DEF WriteFiles, Call
<1>4. ASSUME NEW s \in Stems, RegisterMemo(s) PROVE TypeOK'
  <2>1. Tables'
    <3>1. CASE Vanished(calls[s].target)
      BY <1>4, <3>1 DEF RegisterMemo, Tables
    <3>2. CASE ~Vanished(calls[s].target)
      <4>1. Register(Topic[s], Content(s), s, "agent_generated", calls[s].target)
        BY <1>4, <3>2 DEF RegisterMemo
      <4>2. calls[s].target \in Ids \cup {None} /\ Topic[s] \in Topics
        BY CatalogAssumption DEF Call
      <4> QED BY <4>1, <4>2, <1>b, RegisterTyped
    <3> QED BY <3>1, <3>2
  <2>2. files' \subseteq Stems /\ calls' \in [Stems -> Call] /\ UNCHANGED pages
    BY <1>4 DEF RegisterMemo, Call
  <2> QED BY <2>1, <2>2 DEF Tables
<1>5. ASSUME NEW s \in Stems, CrashCall(s) PROVE TypeOK'
  BY <1>5 DEF CrashCall, Call
<1>6. ASSUME NEW p \in Pages, BeginPass(p) PROVE TypeOK'
  <2>1. Duplicates \subseteq Version
    BY DEF Duplicates
  <2> QED BY <1>6, <1>a, <2>1 DEF BeginPass, Page, Away
<1>7. ASSUME NEW p \in Pages, RemoveDuplicate(p) PROVE TypeOK'
  <2>1. PICK v \in pages[p].rows : Delete(Id(v)) /\ pages' = [pages EXCEPT ![p].rows = @ \ {v}]
    BY <1>7 DEF RemoveDuplicate
  <2>2. Id(v) \in Ids
    BY DEF Page, Version, Id, Ids
  <2>3. Tables'
    BY <2>1, <2>2, DeleteTyped
  <2>4. pages' \in [Pages -> Page]
    BY <2>1 DEF Page
  <2>5. \A q \in Pages : pages'[q].pc = pages[q].pc /\ pages'[q].stem = pages[q].stem
                         /\ pages'[q].id = pages[q].id
    BY <2>1 DEF Page
  <2> QED BY <1>7, <2>3, <2>4, <2>5 DEF RemoveDuplicate, Tables
<1>8. ASSUME NEW p \in Pages, ReadRegisteredPaths(p) PROVE TypeOK'
  BY <1>8, ZenonT(40) DEF ReadRegisteredPaths, Page
<1>9. ASSUME NEW p \in Pages, ListDirectory(p) PROVE TypeOK'
  BY <1>9, ZenonT(40) DEF ListDirectory, Page
<1>10. ASSUME NEW p \in Pages, ReadTopic(p) PROVE TypeOK'
  <2> DEFINE found(s) == IF s \in files THEN Recovered[s] ELSE Lost
  <2>1. PICK s \in pages[p].todo :
          pages' = [pages EXCEPT ![p] = [@ EXCEPT !.pc = "topic", !.stem = s,
                                                  !.series = found(s)]]
    BY <1>10 DEF ReadTopic
  <2>2. s \in Stems
    BY DEF Page
  <2>3. found(s) \in Topics
    BY <2>2, CatalogAssumption
  <2> HIDE DEF found
  <2>4. pages' \in [Pages -> Page] /\ pages'[p].stem = s /\ pages'[p].pc = "topic"
        /\ \A q \in Pages \ {p} : pages'[q] = pages[q]
    BY <2>1, <2>2, <2>3, ZenonT(40) DEF Page
  <2> QED BY <1>10, <2>2, <2>4 DEF ReadTopic
<1>11. ASSUME NEW p \in Pages, ReadContent(p) PROVE TypeOK'
  BY <1>11, <1>b, ZenonT(40) DEF ReadContent, Page
<1>12. ASSUME NEW p \in Pages, RegisterArtifact(p) PROVE TypeOK'
  <2>1. pages[p].series \in Topics /\ pages[p].content \in Stems \cup {Empty}
        /\ pages[p].stem \in Stems
    BY <1>12 DEF RegisterArtifact, Page
  <2>2. Tables'
    BY <1>12, <2>1, RegisterTyped DEF RegisterArtifact
  <2>3. Registering(pages[p]) \in Page /\ Registering(pages[p]).pc = "registering"
    <3>1. pages[p] \in Page
      OBVIOUS
    <3> QED BY <3>1, RegisteringPage
  <2>4. pages' = [pages EXCEPT ![p] = Registering(pages[p])]
    BY <1>12 DEF RegisterArtifact, Registering
  <2>5. /\ pages' \in [Pages -> Page] /\ pages'[p].pc = "registering"
        /\ \A q \in Pages \ {p} : pages'[q] = pages[q]
    BY <2>3, <2>4
  <2> QED BY <1>12, <2>2, <2>5 DEF RegisterArtifact, Tables
<1>13. ASSUME NEW p \in Pages, EndPass(p) PROVE TypeOK'
  BY <1>13, ZenonT(40) DEF EndPass, Page
<1>14. ASSUME NEW p \in Pages, DeleteFiles(p) PROVE TypeOK'
  <2>1. \A v \in pages[p].rows : Id(v) \in Ids
    BY DEF Page, Version, Id, Ids
  <2>2. PICK v \in pages[p].rows :
          pages' = [pages EXCEPT ![p] = [@ EXCEPT !.pc = "unlinked", !.id = Id(v),
                                                  !.rows = pages[p].rows \ {v}]]
    BY <1>14 DEF DeleteFiles
  <2>3. /\ Unlinked(pages[p], v) \in Page /\ Unlinked(pages[p], v).pc = "unlinked"
        /\ Unlinked(pages[p], v).id \in Ids
    <3>1. pages[p] \in Page
      OBVIOUS
    <3> QED BY <2>2, <3>1, UnlinkedPage
  <2>4. pages' = [pages EXCEPT ![p] = Unlinked(pages[p], v)]
    BY <2>2 DEF Unlinked
  <2>5. /\ pages' \in [Pages -> Page] /\ pages'[p].pc = "unlinked" /\ pages'[p].id \in Ids
        /\ \A q \in Pages \ {p} : pages'[q] = pages[q]
    BY <2>3, <2>4
  <2>6. files' \subseteq Stems
    BY <1>14 DEF DeleteFiles
  <2> QED BY <1>14, <2>5, <2>6 DEF DeleteFiles
<1>15. ASSUME NEW p \in Pages, DeleteVersion(p) PROVE TypeOK'
  <2>1. Tables'
    BY <1>15, DeleteTyped DEF DeleteVersion
  <2>2. /\ pages' \in [Pages -> Page] /\ pages'[p].pc = "shown"
        /\ \A q \in Pages \ {p} : pages'[q] = pages[q]
    BY <1>15, ZenonT(40) DEF DeleteVersion, Page
  <2> QED BY <1>15, <2>1, <2>2 DEF DeleteVersion, Tables
<1>16. ASSUME NEW p \in Pages, LeavePage(p) PROVE TypeOK'
  BY <1>16, <1>a DEF LeavePage, Away
<1>17. CASE UNCHANGED vars
  BY <1>17 DEF vars
<1> QED
  BY <1>1, <1>2, <1>3, <1>4, <1>5, <1>6, <1>7, <1>8, <1>9, <1>10, <1>11, <1>12, <1>13,
     <1>14, <1>15, <1>16, <1>17 DEF Next, Tool, Backfill, User

\* The tables, the calls and the pages keep their types, whatever the number
\* of memos, topics and pages.
THEOREM Typing == Spec => []TypeOK
<1>1. Init => TypeOK
  BY InitTyped
<1>2. TypeOK /\ [Next]_vars => TypeOK'
  BY Typed
<1> QED BY <1>1, <1>2, PTL DEF Spec
-----------------------------------------------------------------------------
(* Numbers: a series points at its last version, and revisions go back.    *)

\* A registration and a deletion are all that happens to the tables.
LEMMA TableSteps ==
    ASSUME TypeOK, Next
    PROVE  \/ UNCHANGED <<versions, current>>
           \/ \E s \in Stems : /\ ~Vanished(calls[s].target)
                               /\ Register(Topic[s], Content(s), s, "agent_generated",
                                           calls[s].target)
           \/ \E t \in Topics, c \in Stems \cup {Empty}, s \in Stems :
                   Register(t, c, s, "legacy_backfill", None)
           \/ \E id \in Ids : Delete(id)
<1>1. ASSUME NEW s \in Stems, RegisterMemo(s), ~Vanished(calls[s].target)
      PROVE  Register(Topic[s], Content(s), s, "agent_generated", calls[s].target)
  BY <1>1 DEF RegisterMemo
<1>2. ASSUME NEW s \in Stems, RegisterMemo(s), Vanished(calls[s].target)
      PROVE  UNCHANGED <<versions, current>>
  BY <1>2 DEF RegisterMemo
<1>3. ASSUME NEW p \in Pages, RegisterArtifact(p)
      PROVE  /\ Register(pages[p].series, pages[p].content, pages[p].stem,
                         "legacy_backfill", None)
             /\ pages[p].series \in Topics /\ pages[p].content \in Stems \cup {Empty}
             /\ pages[p].stem \in Stems
  BY <1>3 DEF RegisterArtifact, TypeOK, Page
<1>4. ASSUME NEW p \in Pages, RemoveDuplicate(p)
      PROVE  \E id \in Ids : Delete(id)
  <2>1. PICK v \in pages[p].rows : Delete(Id(v))
    BY <1>4 DEF RemoveDuplicate
  <2>2. v \in Version
    BY DEF TypeOK, Page
  <2> QED BY <2>1, <2>2, IdTyped
<1>5. ASSUME NEW p \in Pages, DeleteVersion(p)
      PROVE  \E id \in Ids : Delete(id)
  BY <1>5 DEF DeleteVersion, TypeOK
<1> QED
  BY <1>1, <1>2, <1>3, <1>4, <1>5
  DEF Next, Tool, Backfill, User, StartCreate, StartRevise, WriteFiles, CrashCall, BeginPass,
      ReadRegisteredPaths, ListDirectory, ReadTopic, ReadContent, EndPass, DeleteFiles, LeavePage

Numbered == SeriesIsCurrent /\ LineageGoesBack

LEMMA RegisterNumbers ==
    ASSUME Tables, Tables', Numbered, NEW t \in Topics, NEW c, NEW s, NEW kind,
           NEW target \in Ids \cup {None}, Register(t, c, s, kind, target),
           target # None => target[1] = t /\ \E v \in versions : Id(v) = target
    PROVE  Numbered'
<1>1. CASE UNCHANGED <<versions, current>>
  BY <1>1 DEF Numbered, SeriesIsCurrent, LineageGoesBack, Versions
<1>2. CASE Registered(t, c, kind) = {}
  <2> DEFINE no == Last(Versions(t)) + 1
             parent == Parent(t, target)
             new == [series |-> t, no |-> no, content |-> c, stem |-> s, kind |-> kind,
                     parent |-> parent]
  <2>1. no \in Numbers /\ versions' = versions \cup {new}
        /\ current' = [current EXCEPT ![t] = no]
    BY <1>2 DEF Register
  <2>2. /\ \A v \in Versions(t) : v \in Version /\ v.no \in Numbers
        /\ \A v \in Versions(t) : v.no <= Last(Versions(t))
        /\ Last(Versions(t)) \in 0..MaxNo
    <3>1. \A v \in Versions(t) : v \in Version /\ v.no \in Numbers
      BY DEF Tables, Versions, Version
    <3> QED BY <3>1, LastIs
  <2>3. \A v \in Versions(t) : v.no < no
    BY <2>2 DEF Numbers
  <2>4. new.no = no /\ new.series = t /\ new.parent = parent
    OBVIOUS
  <2>5. ASSUME parent # None PROVE parent[1] = t /\ parent[2] < no
    <3>1. \E v \in Versions(t) : parent = Id(v)
      <4>1. CASE target = None
        BY <2>5, <4>1, ParentTyped DEF Tables
      <4>2. CASE target # None
        <5>1. PICK v \in versions : Id(v) = target
          BY <4>2
        <5>2. v.series = t
          BY <4>2, <5>1 DEF Id
        <5>3. parent = Id(v)
          BY <4>2, <5>1 DEF Parent
        <5> QED BY <5>2, <5>3 DEF Versions
      <4> QED BY <4>1, <4>2
    <3> QED BY <3>1, <2>2, <2>3, IdTyped DEF Versions
  <2> HIDE DEF no, parent, new
  <2>6. LineageGoesBack'
    BY <2>1, <2>4, <2>5 DEF LineageGoesBack, Numbered
  <2>7. Versions(t)' = Versions(t) \cup {new}
    BY <2>1, <2>4 DEF Versions
  <2>8. \A u \in Topics \ {t} : Versions(u)' = Versions(u) /\ current'[u] = current[u]
    BY <2>1, <2>4 DEF Versions, Tables
  <2>9. Last(Versions(t)') = no
    <3> DEFINE V == Versions(t)'
    <3>1. (\A v \in V : v.no \in Numbers /\ v.no <= no) /\ \E v \in V : v.no = no
      BY <2>1, <2>2, <2>3, <2>4, <2>7 DEF Numbers
    <3>2. no \in Nat
      BY <2>1 DEF Numbers
    <3>3. Last(V) = no
      <4> HIDE DEF V
      <4> QED BY <3>1, <3>2, LastEq
    <3> QED BY <3>3
  <2>10. current'[t] = no
    BY <2>1 DEF Tables
  <2>11. \A v, w \in Versions(t)' : v.no = w.no => v = w
    BY <2>2, <2>3, <2>4, <2>7 DEF Numbered, SeriesIsCurrent, Numbers
  <2>12. \A u \in Topics \ {t} :
            /\ current'[u] = Last(Versions(u)')
            /\ \A v, w \in Versions(u)' : v.no = w.no => v = w
    BY <2>8 DEF Numbered, SeriesIsCurrent
  <2>13. SeriesIsCurrent'
    <3> SUFFICES ASSUME NEW u \in Topics
                 PROVE  /\ current'[u] = Last(Versions(u)')
                        /\ \A v, w \in Versions(u)' : v.no = w.no => v = w
      BY DEF SeriesIsCurrent, Last, Versions
    <3> QED BY <2>9, <2>10, <2>11, <2>12
  <2> QED BY <2>6, <2>13 DEF Numbered
<1> QED BY <1>1, <1>2 DEF Register

LEMMA DeleteNumbers ==
    ASSUME Tables, Numbered, NEW id \in Ids, Delete(id)
    PROVE  Numbered'
<1>1. versions' \subseteq versions
  BY DEF Delete
<1>2. LineageGoesBack'
  BY <1>1 DEF LineageGoesBack, Numbered
<1>3. \A u \in Topics : Versions(u)' \subseteq Versions(u)
  BY <1>1 DEF Versions
<1>4. id[1] \in Topics /\ current'[id[1]] = Last(Versions(id[1])')
  BY DEF Delete, Versions, Ids, Tables
<1>5. ASSUME NEW u \in Topics \ {id[1]}
      PROVE  Versions(u)' = Versions(u) /\ current'[u] = current[u]
  <2>1. \A v \in Versions(u) : Id(v) # id
    BY IdTyped DEF Versions, Tables
  <2> QED BY <1>4, <2>1 DEF Delete, Versions, Tables
<1>6. \A u \in Topics : current'[u] = Last(Versions(u)')
  BY <1>4, <1>5 DEF Numbered, SeriesIsCurrent
<1>7. \A u \in Topics : \A v, w \in Versions(u)' : v.no = w.no => v = w
  BY <1>3 DEF Numbered, SeriesIsCurrent
<1>8. SeriesIsCurrent'
  BY <1>6, <1>7 DEF SeriesIsCurrent, Last, Versions
<1> QED BY <1>2, <1>8 DEF Numbered

\* A call revises a version of the series that it registers in.
TargetsInSeries ==
    \A s \in Stems : calls[s].target # None => calls[s].target[1] = Topic[s]

LEMMA TargetSteps ==
    ASSUME TypeOK, TargetsInSeries, [Next]_vars
    PROVE  TargetsInSeries'
<1>1. ASSUME NEW s \in Stems, StartRevise(s) PROVE TargetsInSeries'
  <2>1. PICK v \in Versions(Topic[s]) :
          calls' = [calls EXCEPT ![s] = [pc |-> "checked", target |-> Id(v)]]
    BY <1>1 DEF StartRevise
  <2>2. v.series = Topic[s] /\ v \in Version
    BY DEF Versions, TypeOK
  <2>3. Id(v)[1] = Topic[s]
    BY <2>2, IdTyped
  <2> QED BY <2>1, <2>3 DEF TargetsInSeries, TypeOK
<1>2. ASSUME NEW s \in Stems, calls' = [calls EXCEPT ![s].pc = "checked"]
                             \/ calls' = [calls EXCEPT ![s].pc = "written"]
                             \/ calls' = [calls EXCEPT ![s].pc = "over"]
      PROVE  TargetsInSeries'
  <2>1. \A u \in Stems : calls'[u].target = calls[u].target
    BY <1>2 DEF TypeOK, Call
  <2> QED BY <2>1 DEF TargetsInSeries
<1>3. CASE UNCHANGED calls
  BY <1>3 DEF TargetsInSeries
<1> QED
  BY <1>1, <1>2, <1>3
  DEF Next, vars, Tool, Backfill, User, StartCreate, WriteFiles, RegisterMemo, CrashCall,
      BeginPass, RemoveDuplicate, ReadRegisteredPaths, ListDirectory, ReadTopic, ReadContent,
      RegisterArtifact, EndPass, DeleteFiles, DeleteVersion, LeavePage

NumberInv == TypeOK /\ Numbered /\ TargetsInSeries

LEMMA NumbersInitially == Init => NumberInv
<1> SUFFICES ASSUME Init PROVE NumberInv
  OBVIOUS
<1>1. TypeOK
  BY InitTyped
<1>2. \A t \in Topics : Versions(t) = {} /\ Last(Versions(t)) = 0
  <2>1. \A t \in Topics : Versions(t) = {}
    BY DEF Init, Versions
  <2> QED BY <2>1, LastIs
<1>3. Numbered
  BY <1>2 DEF Numbered, SeriesIsCurrent, LineageGoesBack, Init
<1>4. TargetsInSeries
  BY DEF TargetsInSeries, Init
<1> QED BY <1>1, <1>3, <1>4 DEF NumberInv

LEMMA NumbersKept == NumberInv /\ [Next]_vars => NumberInv'
<1> SUFFICES ASSUME NumberInv, [Next]_vars PROVE NumberInv'
  OBVIOUS
<1> USE DEF NumberInv
<1>1. TypeOK'
  BY Typed
<1>2. TargetsInSeries'
  BY TargetSteps
<1>3. Tables /\ Tables'
  BY <1>1 DEF TypeOK, Tables
<1>4. ASSUME UNCHANGED <<versions, current>> PROVE Numbered'
  BY <1>4 DEF Numbered, SeriesIsCurrent, LineageGoesBack, Versions
<1>5. ASSUME NEW s \in Stems, ~Vanished(calls[s].target),
             Register(Topic[s], Content(s), s, "agent_generated", calls[s].target)
      PROVE  Numbered'
  <2>1. Topic[s] \in Topics /\ calls[s].target \in Ids \cup {None}
    BY CatalogAssumption DEF TypeOK, Call
  <2>2. calls[s].target # None => /\ calls[s].target[1] = Topic[s]
                                  /\ \E v \in versions : Id(v) = calls[s].target
    BY <1>5 DEF TargetsInSeries, Vanished
  <2> QED BY <1>3, <1>5, <2>1, <2>2, RegisterNumbers
<1>6. ASSUME NEW t \in Topics, NEW c, NEW s, Register(t, c, s, "legacy_backfill", None)
      PROVE  Numbered'
  BY <1>3, <1>6, RegisterNumbers
<1>7. ASSUME NEW id \in Ids, Delete(id) PROVE Numbered'
  BY <1>3, <1>7, DeleteNumbers
<1>8. ASSUME Next PROVE Numbered'
  BY <1>4, <1>5, <1>6, <1>7, <1>8, TableSteps
<1>9. ASSUME UNCHANGED vars PROVE Numbered'
  BY <1>4, <1>9 DEF vars
<1> QED BY <1>1, <1>2, <1>8, <1>9

LEMMA NumbersAlways == Spec => []NumberInv
BY NumbersInitially, NumbersKept, PTL DEF Spec

\* A series points at its last version and numbers none twice, and a version
\* revises an earlier one, however registrations and deletions cross.
THEOREM SeriesStayCurrent == Spec => []SeriesIsCurrent
<1>1. NumberInv => SeriesIsCurrent
  BY DEF NumberInv, Numbered
<1> QED BY <1>1, NumbersAlways, PTL

\* The version a memo revises is an earlier one of its own series, for any
\* number of concurrent calls and of deletions that free a number.
THEOREM LineagesGoBack == Spec => []LineageGoesBack
<1>1. NumberInv => LineageGoesBack
  BY DEF NumberInv, Numbered
<1> QED BY <1>1, NumbersAlways, PTL

-----------------------------------------------------------------------------
(* What is on disk and in the tables: nothing that is found is lost.       *)

\* The stems whose files may be there; once gone they stay away.
Begun == {s \in Stems : calls[s].pc \in {"written", "over"}}

\* A row has the content of its file, or its file was gone and stays so.
Genuine(v) ==
    /\ v.stem \in Begun
    /\ v.content = v.stem \/ (v.content = Empty /\ v.stem \notin files)
    /\ v.kind = "agent_generated" => calls[v.stem].pc = "over"

Covered(s) == \E v \in versions : v.stem = s

\* What a page takes for registered.
Seen(P) ==
    IF P.pc = "listing" THEN Stems \ P.todo
    ELSE IF P.pc \in {"idle", "removing"} THEN {}
    ELSE P.listed \ P.todo

\* A row that a page is about to remove has a successor, with an id of its own.
Superseded(r) ==
    /\ r.kind = "legacy_backfill"
    /\ calls[r.stem].pc = "over"
    /\ \A v \in versions : v.kind = "agent_generated" /\ v.stem = r.stem => Id(v) # Id(r)
    /\ r.stem \in files => \E w \in versions : w.kind = "agent_generated" /\ w.stem = r.stem

RowsSound(P) == \A r \in P.rows : Genuine(r) /\ (P.pc = "removing" => Superseded(r))

ListSound(P) ==
    /\ P.listed \subseteq Begun /\ Seen(P) \subseteq Begun
    /\ P.pc \in {"registering", "topic", "content"} => P.todo \subseteq P.listed
    /\ P.pc \in {"topic", "content"} => P.stem \in P.todo
    /\ P.pc \in {"shown", "unlinked"} => P.todo = {}

ReadSound(P) ==
    /\ P.pc = "content" => P.content = P.stem \/ (P.content = Empty /\ P.stem \notin files)
    /\ P.pc = "unlinked" => P.id[3] = Empty \/ P.id[3] \in Begun \ files

SeenCovered(P) == \A s \in Seen(P) \cap files : Covered(s)

PageSound(P) == RowsSound(P) /\ ListSound(P) /\ ReadSound(P) /\ SeenCovered(P)

DiskSound == files \subseteq Begun /\ \A v \in versions : Genuine(v)

CatalogInv == DiskSound /\ \A p \in Pages : PageSound(pages[p])

LEMMA FileSteps ==
    ASSUME TypeOK, files \subseteq Begun, [Next]_vars
    PROVE  /\ Begun \subseteq Begun' /\ files' \subseteq Begun'
           /\ files' \cap Begun \subseteq files
           /\ \A s \in Stems : calls[s].pc = "over" => calls'[s].pc = "over"
<1>1. ASSUME NEW s \in Stems, calls[s].pc = "none", UNCHANGED files,
             \E c \in Call : c.pc = "checked" /\ calls' = [calls EXCEPT ![s] = c]
      PROVE  /\ Begun' = Begun /\ UNCHANGED files
             /\ \A u \in Stems : calls[u].pc = "over" => calls'[u].pc = "over"
  BY <1>1 DEF Begun, TypeOK
<1>2. ASSUME NEW s \in Stems, StartCreate(s)
      PROVE  \E c \in Call : c.pc = "checked" /\ calls' = [calls EXCEPT ![s] = c]
  <2>1. [calls[s] EXCEPT !.pc = "checked"] \in Call /\ [calls[s] EXCEPT !.pc = "checked"].pc = "checked"
    BY DEF TypeOK, Call
  <2> QED BY <1>2, <2>1 DEF StartCreate
<1>3. ASSUME NEW s \in Stems, StartRevise(s)
      PROVE  \E c \in Call : c.pc = "checked" /\ calls' = [calls EXCEPT ![s] = c]
  <2>1. PICK v \in Versions(Topic[s]) :
          calls' = [calls EXCEPT ![s] = [pc |-> "checked", target |-> Id(v)]]
    BY <1>3 DEF StartRevise
  <2>2. Id(v) \in Ids
    BY IdTyped DEF TypeOK, Versions
  <2>3. [pc |-> "checked", target |-> Id(v)] \in Call
    BY <2>2 DEF Call
  <2> QED BY <2>1, <2>3
<1>4. ASSUME NEW s \in Stems, WriteFiles(s)
      PROVE  /\ Begun' = Begun \cup {s} /\ s \notin Begun /\ files' = files \cup {s}
             /\ \A u \in Stems : calls[u].pc = "over" => calls'[u].pc = "over"
  BY <1>4 DEF WriteFiles, Begun, TypeOK, Call
<1>5. ASSUME NEW s \in Stems, calls' = [calls EXCEPT ![s].pc = "over"]
      PROVE  /\ Begun \subseteq Begun'
             /\ \A u \in Stems : calls[u].pc = "over" => calls'[u].pc = "over"
  BY <1>5 DEF Begun, TypeOK, Call
<1>6. CASE \E s \in Stems : StartCreate(s) \/ StartRevise(s)
  BY <1>1, <1>2, <1>3, <1>6 DEF StartCreate, StartRevise
<1>7. CASE \E s \in Stems : WriteFiles(s)
  BY <1>4, <1>7
<1>8. CASE \E s \in Stems : RegisterMemo(s) \/ CrashCall(s)
  <2>1. files' \subseteq files /\ \E s \in Stems : calls' = [calls EXCEPT ![s].pc = "over"]
    BY <1>8 DEF RegisterMemo, CrashCall
  <2> QED BY <1>5, <2>1
<1>9. CASE UNCHANGED calls /\ files' \subseteq files
  BY <1>9 DEF Begun
<1>10. (\E p \in Pages : Backfill(p) \/ User(p)) => UNCHANGED calls /\ files' \subseteq files
  BY DEF Backfill, User, BeginPass, RemoveDuplicate, ReadRegisteredPaths, ListDirectory,
         ReadTopic, ReadContent, RegisterArtifact, EndPass, DeleteFiles, DeleteVersion, LeavePage
<1> QED BY <1>6, <1>7, <1>8, <1>9, <1>10 DEF Next, Tool, vars

LEMMA RegisterSteps ==
    ASSUME NEW t, NEW c, NEW s, NEW kind, NEW target, Register(t, c, s, kind, target)
    PROVE  /\ versions \subseteq versions'
           /\ \A v \in versions' \ versions : v.stem = s /\ v.content = c /\ v.kind = kind
           /\ \E v \in versions' : v.content = c /\ (v \in versions \/ v.stem = s)
<1>1. CASE Registered(t, c, kind) # {}
  BY <1>1 DEF Register, Registered, Versions
<1>2. CASE Registered(t, c, kind) = {}
  <2> DEFINE new == [series |-> t, no |-> Last(Versions(t)) + 1, content |-> c, stem |-> s,
                     kind |-> kind, parent |-> Parent(t, target)]
  <2>1. new.stem = s /\ new.content = c /\ new.kind = kind
    OBVIOUS
  <2>2. versions' = versions \cup {new}
    BY <1>2 DEF Register
  <2> HIDE DEF new
  <2> QED BY <2>1, <2>2
<1> QED BY <1>1, <1>2

\* Two calls never register the same memo.
LEMMA NewRows ==
    ASSUME TypeOK, CatalogInv, [Next]_vars, NEW v \in versions' \ versions
    PROVE  Genuine(v)' /\ (v.kind = "agent_generated" => calls[v.stem].pc = "written")
<1>1. ASSUME NEW s \in Stems, RegisterMemo(s)
      PROVE  Genuine(v)' /\ (v.kind = "agent_generated" => calls[v.stem].pc = "written")
  <2>1. ~Vanished(calls[s].target)
    BY <1>1 DEF RegisterMemo
  <2>2. v.stem = s /\ v.content = Content(s)
    BY <1>1, <2>1, RegisterSteps DEF RegisterMemo
  <2>3. calls[s].pc = "written" /\ calls'[s].pc = "over" /\ files' = files
    BY <1>1, <2>1 DEF RegisterMemo, TypeOK, Call
  <2> QED BY <2>2, <2>3 DEF Genuine, Begun, Content
<1>2. ASSUME NEW p \in Pages, RegisterArtifact(p)
      PROVE  Genuine(v)' /\ (v.kind = "agent_generated" => calls[v.stem].pc = "written")
  <2> DEFINE P == pages[p]
  <2>1. v.stem = P.stem /\ v.content = P.content /\ v.kind = "legacy_backfill"
    BY <1>2, RegisterSteps DEF RegisterArtifact
  <2>2. P.pc = "content" /\ UNCHANGED <<files, calls>>
    BY <1>2 DEF RegisterArtifact
  <2>3. P.stem \in Begun
    BY <2>2 DEF CatalogInv, PageSound, ListSound
  <2>4. P.content = P.stem \/ (P.content = Empty /\ P.stem \notin files)
    BY <2>2 DEF CatalogInv, PageSound, ReadSound
  <2> QED BY <2>1, <2>2, <2>3, <2>4 DEF Genuine, Begun
<1>3. ASSUME NEW p \in Pages, RemoveDuplicate(p) \/ DeleteVersion(p) PROVE FALSE
  BY <1>3 DEF RemoveDuplicate, DeleteVersion, Delete
<1> QED
  BY <1>1, <1>2, <1>3
  DEF Next, vars, Tool, Backfill, User, StartCreate, StartRevise, WriteFiles, CrashCall,
      BeginPass, ReadRegisteredPaths, ListDirectory, ReadTopic, ReadContent, EndPass,
      DeleteFiles, LeavePage

\* Only pages remove rows: one that has a successor, or one that the user chose.
LEMMA Removals ==
    ASSUME TypeOK, CatalogInv, [Next]_vars, NEW v \in versions \ versions'
    PROVE  \/ \E p \in Pages, r \in Version :
                  RemoveDuplicate(p) /\ Id(v) = Id(r) /\ Genuine(r) /\ Superseded(r)
           \/ \E p \in Pages : DeleteVersion(p) /\ pages[p].id = Id(v)
<1>1. ASSUME NEW p \in Pages, RemoveDuplicate(p)
      PROVE  \E r \in Version : Id(v) = Id(r) /\ Genuine(r) /\ Superseded(r)
  <2>1. PICK r \in pages[p].rows : Delete(Id(r))
    BY <1>1 DEF RemoveDuplicate
  <2>2. Id(v) = Id(r)
    BY <2>1 DEF Delete
  <2>3. r \in Version
    BY DEF TypeOK, Page
  <2>4. Genuine(r) /\ Superseded(r)
    BY <1>1 DEF RemoveDuplicate, CatalogInv, PageSound, RowsSound
  <2> QED BY <2>2, <2>3, <2>4
<1>2. ASSUME NEW p \in Pages, DeleteVersion(p) PROVE pages[p].id = Id(v)
  BY <1>2 DEF DeleteVersion, Delete
<1>3. ASSUME NEW s \in Stems, RegisterMemo(s) PROVE FALSE
  BY <1>3, RegisterSteps DEF RegisterMemo
<1>4. ASSUME NEW p \in Pages, RegisterArtifact(p) PROVE FALSE
  BY <1>4, RegisterSteps DEF RegisterArtifact
<1> QED
  BY <1>1, <1>2, <1>3, <1>4
  DEF Next, vars, Tool, Backfill, User, StartCreate, StartRevise, WriteFiles, CrashCall,
      BeginPass, ReadRegisteredPaths, ListDirectory, ReadTopic, ReadContent, EndPass,
      DeleteFiles, LeavePage

\* Of the rows that pages remove, none is of the memo tool and has a content.
LEMMA SupersededIsLegacy ==
    ASSUME TypeOK, CatalogInv, NEW v \in versions, NEW r \in Version,
           Id(v) = Id(r), Genuine(r), Superseded(r), v.content # Empty
    PROVE  v.stem = r.stem /\ v.kind # "agent_generated"
<1>1. Genuine(v) /\ v \in Version
  BY DEF CatalogInv, DiskSound, TypeOK
<1>2. v.content = r.content
  BY <1>1, IdTyped
<1>3. v.stem = r.stem
  BY <1>1, <1>2 DEF Genuine
<1> QED BY <1>3 DEF Superseded

LEMMA FilesKeepRows ==
    ASSUME TypeOK, CatalogInv, [Next]_vars, NEW v \in versions \ versions', v.stem \in files
    PROVE  v.kind # "agent_generated" /\ Covered(v.stem)'
<1>1. Genuine(v) /\ v \in Version
  BY DEF CatalogInv, DiskSound, TypeOK
<1>2. v.content = v.stem /\ v.content # Empty
  BY <1>1, CatalogAssumption DEF Genuine, Begun
<1>3. ASSUME NEW p \in Pages, DeleteVersion(p), pages[p].id = Id(v) PROVE FALSE
  <2>1. Id(v)[3] = v.stem
    BY <1>1, <1>2, IdTyped
  <2>2. Id(v)[3] = Empty \/ Id(v)[3] \notin files
    BY <1>3 DEF DeleteVersion, CatalogInv, PageSound, ReadSound
  <2> QED BY <1>2, <2>1, <2>2
<1>4. ASSUME NEW p \in Pages, NEW r \in Version, RemoveDuplicate(p), Id(v) = Id(r),
             Genuine(r), Superseded(r)
      PROVE  v.kind # "agent_generated" /\ Covered(v.stem)'
  <2>1. v.stem = r.stem /\ v.kind # "agent_generated"
    BY <1>2, <1>4, SupersededIsLegacy
  <2>2. PICK w \in versions : w.kind = "agent_generated" /\ w.stem = v.stem
    BY <1>4, <2>1 DEF Superseded
  <2>3. w \in versions'
    <3> SUFFICES ASSUME w \notin versions' PROVE FALSE
      OBVIOUS
    <3>1. PICK q \in pages[p].rows : Delete(Id(q))
      BY <1>4 DEF RemoveDuplicate
    <3>2. Id(w) = Id(v)
      BY <3>1 DEF Delete
    <3>3. Id(w) # Id(r)
      BY <1>4, <2>1, <2>2 DEF Superseded
    <3> QED BY <1>4, <3>2, <3>3
  <2> QED BY <2>1, <2>2, <2>3 DEF Covered
<1> QED BY <1>3, <1>4, Removals

-----------------------------------------------------------------------------
(* What a page knows stays true, whoever takes the next step.              *)

LEMMA GenuineKept ==
    ASSUME TypeOK, CatalogInv, [Next]_vars, NEW v, Genuine(v)
    PROVE  Genuine(v)'
<1>1. files \subseteq Begun
  BY DEF CatalogInv, DiskSound
<1> QED BY <1>1, FileSteps DEF Genuine, Begun

LEMMA CoveredKept ==
    ASSUME TypeOK, CatalogInv, [Next]_vars, NEW s \in files, Covered(s)
    PROVE  Covered(s)'
<1>1. PICK v \in versions : v.stem = s
  BY DEF Covered
<1> QED BY <1>1, FilesKeepRows DEF Covered

LEMMA SupersededKept ==
    ASSUME TypeOK, CatalogInv, [Next]_vars, NEW r, Genuine(r), Superseded(r)
    PROVE  Superseded(r)'
<1>1. files \subseteq Begun /\ r.stem \in Begun /\ r.stem \in Stems
  BY DEF CatalogInv, DiskSound, Genuine, Begun
<1>2. calls[r.stem].pc = "over" /\ calls'[r.stem].pc = "over"
  BY <1>1, FileSteps DEF Superseded
<1>3. ASSUME NEW v \in versions', v.kind = "agent_generated", v.stem = r.stem
      PROVE  Id(v) # Id(r)
  <2>1. v \in versions
    BY <1>2, <1>3, NewRows
  <2> QED BY <1>3, <2>1 DEF Superseded
<1>4. ASSUME r.stem \in files'
      PROVE  \E w \in versions' : w.kind = "agent_generated" /\ w.stem = r.stem
  <2>1. r.stem \in files
    BY <1>1, <1>4, FileSteps
  <2>2. PICK w \in versions : w.kind = "agent_generated" /\ w.stem = r.stem
    BY <2>1 DEF Superseded
  <2> QED BY <2>1, <2>2, FilesKeepRows
<1> QED BY <1>2, <1>3, <1>4 DEF Superseded, Id

\* A page that takes no step.
LEMMA PageKept ==
    ASSUME TypeOK, CatalogInv, [Next]_vars, NEW P \in Page, PageSound(P),
           P.pc \in {"topic", "content"} => P.stem \in Stems
    PROVE  PageSound(P)'
<1> USE DEF PageSound
<1>1. /\ files \subseteq Begun /\ Begun \subseteq Begun' /\ files' \cap Begun \subseteq files
      /\ files' \subseteq Begun'
  BY FileSteps DEF CatalogInv, DiskSound
<1>2. RowsSound(P)'
  BY GenuineKept, SupersededKept DEF RowsSound
<1>3. ListSound(P)'
  BY <1>1 DEF ListSound, Seen
<1>4. ReadSound(P)'
  <2>1. P.pc = "content" => P.stem \in Begun
    BY DEF ListSound
  <2> QED BY <1>1, <2>1 DEF ReadSound
<1>5. ASSUME NEW s \in Seen(P), s \in files' PROVE Covered(s)'
  <2>1. CASE s \in files
    BY <1>5, <2>1, CoveredKept DEF SeenCovered
  <2>2. CASE s \notin files
    BY <1>1, <1>5, <2>2 DEF ListSound
  <2> QED BY <2>1, <2>2
<1> QED BY <1>2, <1>3, <1>4, <1>5 DEF SeenCovered, Seen

\* A page that takes a step.
LEMMA BeginPassSound ==
    ASSUME TypeOK, Numbered, CatalogInv, NEW p \in Pages, BeginPass(p), NEW Q, Q = pages'[p]
    PROVE  PageSound(Q)'
<1>1. Q = [Away EXCEPT !.pc = "removing", !.rows = Duplicates]
      /\ UNCHANGED <<files, versions, calls>>
  BY DEF BeginPass, TypeOK
<1>2. Q.pc = "removing" /\ Q.rows = Duplicates /\ Q.listed = {}
  BY <1>1 DEF Away
<1>3. ASSUME NEW r \in Duplicates PROVE Genuine(r) /\ Superseded(r)
  <2>1. Genuine(r) /\ r \in versions /\ r.kind = "legacy_backfill"
    BY DEF Duplicates, CatalogInv, DiskSound
  <2>2. PICK w \in versions : w.kind # "legacy_backfill" /\ w.stem = r.stem
    BY DEF Duplicates
  <2>3. w.kind = "agent_generated" /\ calls[r.stem].pc = "over"
    BY <2>2 DEF TypeOK, Version, CatalogInv, DiskSound, Genuine
  <2>4. ASSUME NEW v \in versions, v.kind = "agent_generated" PROVE Id(v) # Id(r)
    <3>1. v \in Version /\ r \in Version /\ v # r
      BY <2>1, <2>4 DEF TypeOK
    <3>2. v.series = r.series => v.no # r.no
      <4>1. v.series \in Topics
        BY <3>1 DEF Version
      <4> QED BY <2>1, <3>1, <4>1 DEF Numbered, SeriesIsCurrent, Versions
    <3> QED BY <3>1, <3>2, IdTyped
  <2> QED BY <2>1, <2>2, <2>3, <2>4 DEF Superseded
<1>4. PageSound(Q)
  BY <1>2, <1>3 DEF PageSound, RowsSound, ListSound, ReadSound, SeenCovered, Seen
<1> QED
  BY <1>1, <1>4 DEF PageSound, RowsSound, ListSound, ReadSound, SeenCovered, Seen, Covered,
                    Genuine, Superseded, Begun

\* The steps of a pass that only look.
LEMMA LookSound ==
    ASSUME TypeOK, CatalogInv, NEW p \in Pages, NEW Q, Q = pages'[p],
           \/ ReadRegisteredPaths(p) \/ ListDirectory(p) \/ ReadTopic(p)
           \/ ReadContent(p) \/ EndPass(p) \/ LeavePage(p)
    PROVE  PageSound(Q)'
<1> DEFINE P == pages[p]
<1>1. P \in Page /\ PageSound(P) /\ pages \in [Pages -> Page]
  BY DEF TypeOK, CatalogInv
<1>2. UNCHANGED <<files, versions, calls>>
  BY DEF ReadRegisteredPaths, ListDirectory, ReadTopic, ReadContent, EndPass, LeavePage
<1> USE DEF PageSound
<1>3. ASSUME ReadRegisteredPaths(p) PROVE PageSound(Q)
  <2>1. /\ P.pc = "removing" /\ P.rows = {} /\ Q.pc = "listing" /\ Q.rows = P.rows
        /\ Q.listed = P.listed /\ Q.todo = Stems \ {v.stem : v \in versions}
    BY <1>1, <1>3 DEF ReadRegisteredPaths, Page
  <2>2. \A s \in Seen(Q) : Covered(s) /\ s \in Begun
    BY <2>1 DEF Seen, Covered, CatalogInv, DiskSound, Genuine
  <2> QED BY <1>1, <2>1, <2>2 DEF RowsSound, ListSound, ReadSound, SeenCovered
<1>4. ASSUME ListDirectory(p) PROVE PageSound(Q)
  <2>1. /\ P.pc = "listing" /\ Q.pc = "registering" /\ Q.rows = P.rows
        /\ Q.listed = files /\ Q.todo = P.todo \cap files
    BY <1>1, <1>4 DEF ListDirectory, Page
  <2>2. files \subseteq Begun /\ files \subseteq Stems
    BY DEF CatalogInv, DiskSound, TypeOK
  <2>3. \A s \in Seen(Q) : s \in files /\ s \in Seen(P)
    BY <2>1, <2>2 DEF Seen
  <2> QED BY <1>1, <2>1, <2>2, <2>3 DEF RowsSound, ListSound, ReadSound, SeenCovered
<1>5. ASSUME ReadTopic(p) PROVE PageSound(Q)
  <2> DEFINE found(s) == IF s \in files THEN Recovered[s] ELSE Lost
  <2>0. PICK s \in P.todo : Q = [P EXCEPT !.pc = "topic", !.stem = s, !.series = found(s)]
    BY <1>1, <1>5 DEF ReadTopic
  <2> HIDE DEF found
  <2>1. /\ P.pc = "registering" /\ Q.pc = "topic" /\ Q.rows = P.rows
        /\ Q.listed = P.listed /\ Q.todo = P.todo /\ Q.stem \in P.todo
    BY <1>1, <1>5, <2>0 DEF ReadTopic, Page
  <2>2. Seen(Q) = Seen(P)
    BY <2>1 DEF Seen
  <2> QED BY <1>1, <2>1, <2>2 DEF RowsSound, ListSound, ReadSound, SeenCovered
<1>6. ASSUME ReadContent(p) PROVE PageSound(Q)
  <2>1. /\ P.pc = "topic" /\ Q.pc = "content" /\ Q.rows = P.rows /\ Q.stem = P.stem
        /\ Q.listed = P.listed /\ Q.todo = P.todo /\ Q.content = Content(P.stem)
    BY <1>1, <1>6 DEF ReadContent, Page
  <2>2. Seen(Q) = Seen(P)
    BY <2>1 DEF Seen
  <2> QED BY <1>1, <2>1, <2>2 DEF RowsSound, ListSound, ReadSound, SeenCovered, Content
<1>7. ASSUME EndPass(p) PROVE PageSound(Q)
  <2>1. /\ P.pc = "registering" /\ P.todo = {} /\ Q.pc = "shown" /\ Q.rows = versions
        /\ Q.listed = P.listed /\ Q.todo = P.todo
    BY <1>1, <1>7 DEF EndPass, Page
  <2>2. Seen(Q) = Seen(P) /\ \A r \in versions : Genuine(r)
    BY <2>1 DEF Seen, CatalogInv, DiskSound
  <2> QED BY <1>1, <2>1, <2>2 DEF RowsSound, ListSound, ReadSound, SeenCovered
<1>8. ASSUME LeavePage(p) PROVE PageSound(Q)
  <2>1. Q = Away
    BY <1>8 DEF LeavePage, TypeOK
  <2>2. Q.pc = "idle" /\ Q.rows = {} /\ Q.listed = {} /\ Q.todo = {}
    BY <2>1 DEF Away
  <2> QED BY <2>2 DEF RowsSound, ListSound, ReadSound, SeenCovered, Seen
<1>9. PageSound(Q) => PageSound(Q)'
  BY <1>2 DEF RowsSound, ListSound, ReadSound, SeenCovered, Seen, Covered, Genuine, Superseded,
              Begun
<1>10. PageSound(Q)
  BY <1>3, <1>4, <1>5, <1>6, <1>7, <1>8
<1> QED BY <1>9, <1>10

\* The steps that change the tables or the disk.
LEMMA ChangeSound ==
    ASSUME TypeOK, CatalogInv, [Next]_vars, NEW p \in Pages,
           NEW P, P = pages[p], NEW Q, Q = pages'[p],
           \/ RemoveDuplicate(p) \/ RegisterArtifact(p) \/ DeleteFiles(p) \/ DeleteVersion(p)
    PROVE  PageSound(Q)'
<1>1. P \in Page /\ PageSound(P) /\ PageSound(P)'
  <2>1. P \in Page /\ PageSound(P) /\ (P.pc \in {"topic", "content"} => P.stem \in Stems)
    BY DEF TypeOK, CatalogInv
  <2> QED BY <2>1, PageKept
<1> USE DEF PageSound
<1>2. ASSUME RemoveDuplicate(p) PROVE PageSound(Q)'
  <2>1. PICK v \in P.rows : pages' = [pages EXCEPT ![p].rows = @ \ {v}]
    BY <1>2 DEF RemoveDuplicate
  <2>2. /\ Q.pc = P.pc /\ P.pc = "removing" /\ Q.rows \subseteq P.rows
        /\ Q.listed = P.listed /\ Q.todo = P.todo
    BY <1>1, <1>2, <2>1 DEF RemoveDuplicate, TypeOK, Page
  <2>3. RowsSound(Q)'
    BY <1>1, <2>2 DEF RowsSound
  <2> QED BY <1>1, <2>2, <2>3 DEF ListSound, ReadSound, SeenCovered, Seen
<1>3. ASSUME RegisterArtifact(p) PROVE PageSound(Q)'
  <2>1. Q = Registering(P) /\ P.pc = "content" /\ UNCHANGED files
    BY <1>3 DEF RegisterArtifact, Registering, TypeOK
  <2>2. /\ Q.pc = "registering" /\ Q.rows = P.rows
        /\ Q.listed = P.listed /\ Q.todo = P.todo \ {P.stem}
    BY <1>1, <2>1, RegisteringPage
  <2>3. Seen(Q) \subseteq Seen(P) \cup {P.stem} /\ P.stem \in Begun'
    BY <1>1, <2>1, <2>2 DEF Seen, ListSound
  <2>4. ASSUME P.stem \in files' PROVE Covered(P.stem)'
    <3>1. P.content = P.stem /\ P.stem \in Stems
      BY <1>1, <2>1, <2>4 DEF ReadSound, TypeOK
    <3>2. PICK v \in versions' : v.content = P.stem /\ (v \in versions \/ v.stem = P.stem)
      BY <1>3, <3>1, RegisterSteps DEF RegisterArtifact
    <3>3. v \in versions => v.stem = P.stem
      BY <3>1, <3>2, CatalogAssumption DEF CatalogInv, DiskSound, Genuine
    <3> QED BY <3>2, <3>3 DEF Covered
  <2>5. RowsSound(Q)' /\ ReadSound(Q)'
    BY <1>1, <2>1, <2>2 DEF RowsSound, ReadSound
  <2>6. ListSound(Q)'
    BY <1>1, <2>1, <2>2, <2>3 DEF ListSound, Seen
  <2>7. \A s \in Seen(Q) : s \in files' => Covered(s)'
    BY <1>1, <2>3, <2>4 DEF SeenCovered, Seen
  <2> QED BY <2>5, <2>6, <2>7 DEF SeenCovered, Seen
<1>4. ASSUME DeleteFiles(p) PROVE PageSound(Q)'
  <2>1. PICK v \in P.rows : Q = Unlinked(P, v) /\ files' = files \ {v.stem} /\ UNCHANGED calls
    BY <1>4 DEF DeleteFiles, Unlinked, TypeOK
  <2>2. /\ P.pc = "shown" /\ Q.pc = "unlinked" /\ Q.rows = P.rows \ {v}
        /\ Q.listed = P.listed /\ Q.todo = P.todo /\ Q.id = Id(v)
    <3>1. P.pc = "shown"
      BY <1>4 DEF DeleteFiles
    <3> QED BY <1>1, <2>1, <3>1, UnlinkedPage
  <2>3. Genuine(v) /\ Id(v)[3] = v.content
    BY <1>1 DEF RowsSound, Id
  <2>4. ReadSound(Q)'
    BY <2>1, <2>2, <2>3 DEF ReadSound, Genuine, Begun
  <2> QED BY <1>1, <2>2, <2>4 DEF RowsSound, ListSound, SeenCovered, Seen
<1>5. ASSUME DeleteVersion(p) PROVE PageSound(Q)'
  <2>1. /\ P.pc = "unlinked" /\ Q.pc = "shown" /\ Q.rows = P.rows
        /\ Q.listed = P.listed /\ Q.todo = P.todo
    BY <1>1, <1>5 DEF DeleteVersion, TypeOK, Page
  <2> QED BY <1>1, <2>1 DEF RowsSound, ListSound, ReadSound, SeenCovered, Seen
<1> QED BY <1>2, <1>3, <1>4, <1>5

LEMMA PagesKept ==
    ASSUME TypeOK, Numbered, CatalogInv, [Next]_vars, NEW q \in Pages, NEW Q, Q = pages'[q]
    PROVE  PageSound(Q)'
<1>1. CASE pages'[q] = pages[q]
  <2>1. Q \in Page /\ PageSound(Q) /\ (Q.pc \in {"topic", "content"} => Q.stem \in Stems)
    BY <1>1 DEF TypeOK, CatalogInv
  <2> QED BY <2>1, PageKept
<1>2. CASE pages'[q] # pages[q]
  <2>1. PICK p \in Pages : Backfill(p) \/ User(p)
    BY <1>2 DEF Next, vars, Tool, StartCreate, StartRevise, WriteFiles, RegisterMemo, CrashCall
  <2>2. p = q
    BY <1>2, <2>1 DEF Backfill, User, BeginPass, RemoveDuplicate, ReadRegisteredPaths,
                      ListDirectory, ReadTopic, ReadContent, RegisterArtifact, EndPass,
                      DeleteFiles, DeleteVersion, LeavePage, TypeOK
  <2> QED BY <2>1, <2>2, BeginPassSound, LookSound, ChangeSound DEF Backfill, User
<1> QED BY <1>1, <1>2

FullInv == NumberInv /\ CatalogInv

LEMMA FullInitially == Init => FullInv
<1> SUFFICES ASSUME Init PROVE FullInv
  OBVIOUS
<1>1. NumberInv
  BY NumbersInitially
<1>2. DiskSound
  BY CatalogAssumption DEF Init, DiskSound, Begun
<1>3. ASSUME NEW p \in Pages PROVE PageSound(pages[p])
  <2>1. pages[p].pc = "idle" /\ pages[p].rows = {} /\ pages[p].listed = {}
    BY DEF Init, Away
  <2> QED BY <2>1 DEF PageSound, RowsSound, ListSound, ReadSound, SeenCovered, Seen
<1> QED BY <1>1, <1>2, <1>3 DEF FullInv, CatalogInv

LEMMA FullKept == FullInv /\ [Next]_vars => FullInv'
<1> SUFFICES ASSUME FullInv, [Next]_vars PROVE FullInv'
  OBVIOUS
<1>1. TypeOK /\ Numbered /\ CatalogInv /\ NumberInv'
  BY NumbersKept DEF FullInv, NumberInv
<1>2. DiskSound'
  <2>1. files' \subseteq Begun'
    BY <1>1, FileSteps DEF CatalogInv, DiskSound
  <2>2. \A v \in versions' : Genuine(v)'
    BY <1>1, NewRows, GenuineKept DEF CatalogInv, DiskSound
  <2> QED BY <2>1, <2>2 DEF DiskSound
<1>3. ASSUME NEW p \in Pages PROVE PageSound(pages[p])'
  <2>1. \A Q : Q = pages'[p] => PageSound(Q)'
    BY <1>1, PagesKept
  <2> QED BY <2>1 DEF PageSound, RowsSound, ListSound, ReadSound, SeenCovered, Seen, Covered,
                      Genuine, Superseded, Begun
<1> QED BY <1>1, <1>2, <1>3 DEF FullInv, CatalogInv

LEMMA FullAlways == Spec => []FullInv
BY FullInitially, FullKept, PTL DEF Spec

\* Whatever is registered, removed and deleted during its pass, a page shows
\* every memo that it found in the directory and that is still there, for any
\* number of page loads, delete requests and calls of the memo tool.
THEOREM PagesShowEveryMemo == Spec => []PageShowsEveryMemo
<1>1. FullInv => PageShowsEveryMemo
  <2> SUFFICES ASSUME FullInv, NEW p \in Pages, pages[p].pc = "shown",
                      NEW s \in pages[p].listed \cap files
               PROVE  Covered(s)
    BY DEF PageShowsEveryMemo, Covered
  <2>1. PageSound(pages[p])
    BY DEF FullInv, CatalogInv
  <2> QED BY <2>1 DEF PageSound, ListSound, SeenCovered, Seen
<1> QED BY <1>1, FullAlways, PTL

\* A clean-up that works from a stale list removes no memo that the tool
\* registered, although the ids it works with may have been given out again.
THEOREM RegisteredMemosAreKept == Spec => RegisteredMemosStay
<1>1. ASSUME FullInv, [Next]_vars, NEW v \in versions \ versions',
             v.kind = "agent_generated", v.content # Empty
      PROVE  \E p \in Pages : pages[p].pc = "unlinked" /\ pages[p].id = Id(v)
  <2>1. TypeOK /\ CatalogInv
    BY <1>1 DEF FullInv, NumberInv
  <2> QED BY <1>1, <2>1, Removals, SupersededIsLegacy DEF DeleteVersion
<1>2. FullInv /\ [Next]_vars =>
        [\A v \in versions \ versions' :
            v.kind = "agent_generated" /\ v.content # Empty =>
                \E p \in Pages : pages[p].pc = "unlinked" /\ pages[p].id = Id(v)]_vars
  BY <1>1
<1> QED BY <1>2, FullAlways, PTL DEF Spec, RegisteredMemosStay
=============================================================================
