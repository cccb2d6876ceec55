--------------------------- MODULE SessionCounters ---------------------------
(***************************************************************************)
(* What UpdateSessionMetrics promises: an update of a session's counters   *)
(* is applied at once to the counters it finds, or not at all; whoever is  *)
(* told that it succeeded can rely on it; the counters of a deleted        *)
(* session do not come back.                                               *)
(***************************************************************************)
EXTENDS MetricsFunctions

CONSTANTS Updaters, NoMetrics, fn(_, _)

VARIABLES metrics, answer

vars == <<metrics, answer>>

Init ==
    /\ metrics = [live |-> 0, gone |-> 0]
    /\ answer = [p \in Updaters |-> "none"]

(* The answer is an error if the connection breaks after the update. *)
Apply(p) ==
    /\ answer[p] = "none"
    /\ metrics # NoMetrics
    /\ metrics' = fn(p, metrics)
    /\ \E a \in {"ok", "error"} : answer' = [answer EXCEPT ![p] = a]

Refuse(p) ==
    /\ answer[p] = "none"
    /\ answer' = [answer EXCEPT ![p] = "error"]
    /\ UNCHANGED metrics

Delete ==
    /\ metrics' = NoMetrics
    /\ UNCHANGED answer

Next == Delete \/ \E p \in Updaters : Apply(p) \/ Refuse(p)

Fairness == \A p \in Updaters : WF_vars(Apply(p) \/ Refuse(p))

Safe == Init /\ [][Next]_vars
Spec == Safe /\ Fairness
==============================================================================
