---------------------------- MODULE JobLifecycle ----------------------------
(***************************************************************************)
(* What a durable job queue promises to those who submit to it, whoever    *)
(* executes the jobs and however often they are retried: a job that was    *)
(* submitted is open until it is done or given up, and done is final.      *)
(* Only a job of Reusable may be withdrawn with its source, or submitted   *)
(* again after it was given up.                                            *)
(***************************************************************************)
CONSTANTS Jobs, Reusable

VARIABLE state

States == {"none", "open", "done", "gaveUp"}

Init == state = [j \in Jobs |-> "none"]

Submit(j)   == state[j] = "none" /\ state'[j] = "open"
Settle(j)   == state[j] = "open" /\ state'[j] \in {"done", "gaveUp"}
Resubmit(j) == j \in Reusable /\ state[j] = "gaveUp" /\ state'[j] = "open"
Withdraw(j) == j \in Reusable /\ state'[j] = "none"

\* One step may move several jobs: a recovery pass, the deletion of a source.
Next ==
    /\ state' \in [Jobs -> States]
    /\ \A j \in Jobs : \/ state'[j] = state[j]
                       \/ Submit(j) \/ Settle(j) \/ Resubmit(j) \/ Withdraw(j)

Spec == Init /\ [][Next]_state

\* What the submitter waits for: an open job does not stay open for ever.
EveryJobSettles == \A j \in Jobs : state[j] = "open" ~> state[j] # "open"
=============================================================================
