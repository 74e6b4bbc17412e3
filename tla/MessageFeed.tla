---------------------------- MODULE MessageFeed ----------------------------
(***************************************************************************)
(* What an event uploader promises the server: the messages it accepted    *)
(* arrive in the order accepted; only the stretch not answered for yet may *)
(* arrive again, and what is answered for never does.                      *)
(***************************************************************************)
EXTENDS Naturals, Sequences

VARIABLES feed,  \* messages accepted, in order
          upto,  \* how many of them are answered for: delivered or given up
          got    \* what the server received, repetitions included

vars == <<feed, upto, got>>

Init == feed = <<>> /\ upto = 0 /\ got = <<>>

Accept ==
    /\ Len(feed') >= Len(feed) /\ SubSeq(feed', 1, Len(feed)) = feed
    /\ UNCHANGED <<upto, got>>

\* A stretch arrives; with it the answer, or not.
Deliver ==
    \E n \in (upto + 1)..Len(feed) :
        /\ got' = got \o SubSeq(feed, upto + 1, n)
        /\ upto' \in {upto, n}
        /\ UNCHANGED feed

\* Given up, or answered for at last.
Answer ==
    /\ upto' \in (upto + 1)..Len(feed)
    /\ UNCHANGED <<feed, got>>

Next == Accept \/ Deliver \/ Answer
Spec == Init /\ [][Next]_vars

\* What it comes to for the server, when no message is accepted twice: nothing
\* comes as news after a message that was accepted later.
NewsInOrder ==
    \A p, q \in DOMAIN got, i, j \in DOMAIN feed :
        (p < q /\ i < j /\ got[p] = feed[j] /\ got[q] = feed[i])
            => \E r \in 1..(p - 1) : got[r] = feed[i]
=============================================================================
