-------------------------- MODULE MetricsFunctions --------------------------
(***************************************************************************)
(* The functions the services pass to UpdateSessionMetrics.                *)
(***************************************************************************)
EXTENDS Naturals

Metrics == [live : Nat, gone : Nat]

(* RegisterSlave *)
Registered(m) == [m EXCEPT !.live = @ + 1]

(* Mutant: the death is not added to the gone ones. *)
Died_Uncounted(m) == [live |-> IF m.live > 0 THEN m.live - 1 ELSE 0, gone |-> m.gone]

(* applySessionMetricsForStateChange, the same in both services *)
Died(m) == [live |-> IF m.live > 0 THEN m.live - 1 ELSE 0, gone |-> m.gone + 1]

(* markAllSlavesGone, with the number of slaves it listed *)
AllGone(n) == [live |-> 0, gone |-> n]
=============================================================================
