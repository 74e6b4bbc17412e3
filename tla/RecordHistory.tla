---------------------------- MODULE RecordHistory ----------------------------
(***************************************************************************)
(* What the ledger promises to its readers: the judgement recorded on an   *)
(* item is revised, never rewritten.  Its history only grows, by readings  *)
(* that differ from the one before, until the item is purged as a whole,   *)
(* and only a hidden item is purged.                                       *)
(***************************************************************************)
EXTENDS Naturals, Sequences

CONSTANTS Items, Readings

VARIABLES history,  \* the readings of each item, oldest first
          hidden    \* items taken out of the active list

vars == <<history, hidden>>

Init == /\ history \in [Items -> Seq(Readings)]
        /\ hidden \subseteq {i \in Items : history[i] # <<>>}

Extends(new, old) ==
    /\ Len(old) < Len(new)
    /\ \A n \in 1..Len(old) : new[n] = old[n]
    /\ \A n \in Len(old)..(Len(new) - 1) : n > 0 => new[n + 1] # new[n]

Keep(i)   == history'[i] = history[i]
Revise(i) == Extends(history'[i], history[i])
Purge(i)  == i \in hidden /\ i \notin hidden' /\ history'[i] = <<>>

\* A transaction may revise several items, hide some and show others.
Next ==
    /\ history' \in [Items -> Seq(Readings)]
    /\ hidden' \subseteq {i \in Items : history'[i] # <<>>}
    /\ \A i \in Items : Keep(i) \/ Revise(i) \/ Purge(i)

Spec == Init /\ [][Next]_vars
=============================================================================
