---------------------------- MODULE PodLifecycle ----------------------------
(***************************************************************************)
(* What the rest of the game may rely on about one pod: a live pod may     *)
(* survive an event, start terminating, or be gone at once; a terminating  *)
(* pod never lives again; a gone pod answers no more events; a restart of  *)
(* its process starts a new life.                                          *)
(***************************************************************************)
VARIABLES
    status,       \* status of the pod's current life
    up            \* does its process run?

vars == <<status, up>>

(* The statuses in which an event can leave a pod of status s. *)
Outcomes(s) ==
    CASE s = "LIVE"        -> {"LIVE", "TERMINATING", "GONE"}
      [] s = "TERMINATING" -> {"TERMINATING", "GONE"}
      [] s = "GONE"        -> {"GONE"}

Init == status = "LIVE" /\ up = TRUE

Event == up /\ status' \in Outcomes(status) /\ UNCHANGED up
Stop  == up /\ up' = FALSE /\ UNCHANGED status
Start == ~up /\ up' = TRUE /\ status' = "LIVE"

Next == Event \/ Stop \/ Start

Spec == Init /\ [][Next]_vars
=============================================================================
