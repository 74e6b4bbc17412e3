-------------------------- MODULE MCTrackingLedger --------------------------
(***************************************************************************)
(* Instances of TrackingLedger for TLC: what an extraction may find.       *)
(***************************************************************************)
EXTENDS TrackingLedger, TLC

CONSTANTS i1, i2, s1, s2, s3, r1, r2

\* The same words, judged worth nothing and verified; another text with a date;
\* what a former release wrote.
Vague == [content |-> "claim", detail |-> "vague", verified |-> FALSE, rejected |-> TRUE,
          legacy |-> FALSE, confidence |-> 0, rank |-> 1, due |-> 0]
Firm  == [content |-> "claim", detail |-> "firm", verified |-> TRUE, rejected |-> FALSE,
          legacy |-> FALSE, confidence |-> 2, rank |-> 2, due |-> 0]
Dated == [Firm EXCEPT !.content = "date", !.due = 1]
Old   == [Vague EXCEPT !.content = "old", !.legacy = TRUE]

ThreeReadings == {Vague, Firm, Old}
DatedReadings == {Dated, Firm}
TwoReadings   == {Vague, Dated}

OneItem  == {i1}
TwoItems == {i1, i2}

\* Both keys with both readings; the second also resembles the first.
TwoKeys == [key : {i1}, like : {NoItem}, reading : {Vague, Firm}]
             \cup [key : {i2}, like : {i1}, reading : {Vague, Firm}]
OneKey == [key : {i1}, like : {NoItem}, reading : {Vague, Firm}]
MixedKey == [key : {i1}, like : {NoItem}, reading : TwoReadings]
DatedKey == [key : {i1}, like : {NoItem}, reading : DatedReadings]

OneSource  == {s1}
TwoSources == {s1, s2}
NoneOfThem == {}
ThreeSources == {s1, s2, s3}
LastSource == {s3}
OneRule    == {r1}
NoLegacy   == << >>
OldItem    == i1 :> Old
=============================================================================
