------------------------------ MODULE BoardPod ------------------------------
(***************************************************************************)
(* What the board promises about its pods: each is off the board, free,    *)
(* held by one hand, being crushed, or crushed and not taken off.  A crush *)
(* is never called off, a pod that is crushed is never held again, and no  *)
(* hand holds two pods.  PodScene is shown to implement it.                *)
(***************************************************************************)
CONSTANTS Pods, Hands

VARIABLE where

Places == {"off", "free", "crushing", "crushed"} \cup Hands

(* How a pod may move in one step.  A pod may leave the board from         *)
(* everywhere, and comes back as a new one.                                *)
Moves ==
    {<<x, x>> : x \in Places}
    \cup {<<x, "off">> : x \in Places}
    \cup {<<"off", "free">>, <<"crushing", "crushed">>}
    \cup {<<"free", h>> : h \in Hands} \cup {<<h, "free">> : h \in Hands}
    \cup {<<x, "crushing">> : x \in {"free"} \cup Hands}

Init == where = [p \in Pods |-> "off"]

Next ==
    /\ where' \in [Pods -> Places]
    /\ \A p \in Pods : <<where[p], where'[p]>> \in Moves
    /\ \A p, q \in Pods : where'[p] = where'[q] /\ where'[p] \in Hands => p = q

Spec == Init /\ [][Next]_where
=============================================================================
