--------------------------- MODULE MCMemoCatalog ---------------------------
(***************************************************************************)
(* Instances of MemoCatalog for TLC: every memo is on one topic, and the   *)
(* backfill reads that topic or, when the file is gone, Lost.              *)
(***************************************************************************)
EXTENDS MemoCatalog

CONSTANTS m1, m2, t1, p1, p2

OneMemo == {m1}
TwoMemos == {m1, m2}
NoMemo == {}

TwoTopics == {t1, Lost}

SameTopic == [s \in Stems |-> t1]

OnePage  == {p1}
TwoPages == {p1, p2}
=============================================================================
