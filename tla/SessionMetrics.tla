--------------------------- MODULE SessionMetrics ---------------------------
(***************************************************************************)
(* UpdateSessionMetrics (libs/infra/redis/redis.go): the optimistic update *)
(* of one session's metrics key with WATCH, GET and MULTI/EXEC, as the     *)
(* master and the controller run it concurrently, and the deletion of the  *)
(* key by DeleteSession.                                                   *)
(*                                                                         *)
(* Each updater makes one call.  Redis runs one request at a time, so each *)
(* request is a step; touched[p] is Redis's note that the key p watches    *)
(* was written or deleted since.                                           *)
(***************************************************************************)
EXTENDS MetricsFunctions, FiniteSets

CONSTANTS
    Registering,      \* calls by RegisterSlave
    Dying,            \* calls by applySessionMetricsForStateChange
    Ending,           \* calls by markAllSlavesGone
    Listed,           \* how many slaves markAllSlavesGone listed
    NoMetrics,        \* the key does not exist
    maxRetries,
    RedisMayFail

Updaters == Registering \cup Dying \cup Ending

ASSUME MetricsAssumption ==
    /\ IsFiniteSet(Updaters)
    /\ Registering \cap Dying = {}
    /\ Ending \cap (Registering \cup Dying) = {}
    /\ Listed \in Nat
    /\ NoMetrics \notin Metrics
    /\ maxRetries \in Nat \ {0}
    /\ RedisMayFail \in BOOLEAN

VARIABLES
    metrics,          \* Redis: the session's metrics key
    pc,               \* next request of each call, or how it returned
    seen,             \* what GET returned to it
    touched,          \* Redis: its watched key was modified
    attempt,
    writes            \* history: how often the key was written or deleted

vars == <<metrics, pc, seen, touched, attempt, writes>>

fn(p, m) == IF p \in Registering THEN Registered(m)
            ELSE IF p \in Dying THEN Died(m)
            ELSE AllGone(Listed)

Init ==
    /\ metrics = [live |-> 0, gone |-> 0]
    /\ pc = [p \in Updaters |-> "watch"]
    /\ seen = [p \in Updaters |-> NoMetrics]
    /\ touched = [p \in Updaters |-> FALSE]
    /\ attempt = [p \in Updaters |-> 0]
    /\ writes = 0

(* WATCH *)
Watch(p) ==
    /\ pc[p] = "watch"
    /\ pc' = [pc EXCEPT ![p] = "get"]
    /\ touched' = [touched EXCEPT ![p] = FALSE]
    /\ UNCHANGED <<metrics, seen, attempt, writes>>

(* GET: without the key the call returns "session metrics not found". *)
Get(p) ==
    /\ pc[p] = "get"
    /\ IF metrics = NoMetrics
       THEN pc' = [pc EXCEPT ![p] = "error"] /\ UNCHANGED seen
       ELSE /\ pc' = [pc EXCEPT ![p] = "exec"]
            /\ seen' = [seen EXCEPT ![p] = metrics]
    /\ UNCHANGED <<metrics, touched, attempt, writes>>

(* The key is written: everyone who watches it is told. *)
Written(m) ==
    /\ metrics' = m
    /\ touched' = [p \in Updaters |-> TRUE]
    /\ writes' = writes + 1

(* Mutant: the transaction runs without looking at the watched key. *)
Exec_Unwatched(p) ==
    /\ pc[p] = "exec"
    /\ Written(fn(p, seen[p]))
    /\ pc' = [pc EXCEPT ![p] = "ok"]
    /\ UNCHANGED <<seen, attempt>>

(* MULTI/EXEC with the key untouched.  The call may also return an error   *)
(* other than TxFailedErr although the transaction ran.                    *)
Exec(p) ==
    /\ pc[p] = "exec"
    /\ ~touched[p]
    /\ Written(fn(p, seen[p]))
    /\ \E a \in {"ok"} \cup (IF RedisMayFail THEN {"error"} ELSE {}) :
         pc' = [pc EXCEPT ![p] = a]
    /\ UNCHANGED <<seen, attempt>>

(* Mutant: a failed transaction gives up at once. *)
ExecFails_GivesUp(p) ==
    /\ pc[p] = "exec" /\ touched[p]
    /\ attempt' = [attempt EXCEPT ![p] = @ + 1]
    /\ pc' = [pc EXCEPT ![p] = "exhausted"]
    /\ UNCHANGED <<metrics, seen, touched, writes>>

(* Mutant: a failed transaction is tried again without reading again. *)
ExecFails_KeepsValue(p) ==
    /\ pc[p] = "exec" /\ touched[p]
    /\ attempt' = [attempt EXCEPT ![p] = @ + 1]
    /\ touched' = [touched EXCEPT ![p] = FALSE]
    /\ pc' = [pc EXCEPT ![p] = IF attempt'[p] < maxRetries THEN "exec"
                               ELSE "exhausted"]
    /\ UNCHANGED <<metrics, seen, writes>>

(* MULTI/EXEC with the key touched: TxFailedErr, and the loop goes on up   *)
(* to maxRetries attempts.                                                 *)
ExecFails(p) ==
    /\ pc[p] = "exec"
    /\ touched[p]
    /\ attempt' = [attempt EXCEPT ![p] = @ + 1]
    /\ pc' = [pc EXCEPT ![p] = IF attempt'[p] < maxRetries THEN "watch"
                               ELSE "exhausted"]
    /\ UNCHANGED <<metrics, seen, touched, writes>>

(* A request returns an error and has had no effect. *)
RequestFails(p) ==
    /\ RedisMayFail
    /\ pc[p] \in {"watch", "get", "exec"}
    /\ pc' = [pc EXCEPT ![p] = "error"]
    /\ UNCHANGED <<metrics, seen, touched, attempt, writes>>

(* DeleteSession removes the key. *)
DeleteSession ==
    /\ metrics # NoMetrics
    /\ Written(NoMetrics)
    /\ UNCHANGED <<pc, seen, attempt>>

Call(p) == Watch(p) \/ Get(p) \/ Exec(p) \/ ExecFails(p) \/ RequestFails(p)

Next == DeleteSession \/ \E p \in Updaters : Call(p)

(* A call makes its requests without waiting for anything but Redis. *)
Fairness == \A p \in Updaters : WF_vars(Call(p))

Safe == Init /\ [][Next]_vars
Spec == Safe /\ Fairness

-----------------------------------------------------------------------------
(* Properties *)

(* The counters are counters, and no call makes more attempts than the     *)
(* loop allows.                                                            *)
TypeOK ==
    /\ metrics \in Metrics \cup {NoMetrics}
    /\ pc \in [Updaters -> {"watch", "get", "exec", "ok", "error", "exhausted"}]
    /\ seen \in [Updaters -> Metrics \cup {NoMetrics}]
    /\ touched \in [Updaters -> BOOLEAN]
    /\ attempt \in [Updaters -> 0..maxRetries]
    /\ writes \in Nat

(* The retry limit of UpdateSessionMetrics only strikes a call that has    *)
(* been overtaken as often as it may try: each failed attempt is answered  *)
(* by another successful write.                                            *)
ExhaustedByContention ==
    \A p \in Updaters : pc[p] = "exhausted" => writes >= maxRetries

(* Until the end of the session is counted, the gone counter has every     *)
(* death whose update returned success, and no more besides than those     *)
(* that returned an error: no update is lost, none is applied twice.       *)
Reported == {p \in Dying : pc[p] = "ok"}
Attempted == {p \in Dying : pc[p] \in {"ok", "error"}}

NoDeathLost ==
    metrics # NoMetrics /\ (\A p \in Ending : pc[p] \notin {"ok", "error"}) =>
        /\ Cardinality(Reported) <= metrics.gone
        /\ metrics.gone <= Cardinality(Attempted)

(* The key of a deleted session is never written again by an update that   *)
(* had read it before.                                                     *)
DeletedStaysDeleted == [][metrics = NoMetrics => metrics' = NoMetrics]_vars

Answer(p) == IF pc[p] = "ok" THEN "ok"
             ELSE IF pc[p] \in {"error", "exhausted"} THEN "error"
             ELSE "none"

Counters == INSTANCE SessionCounters WITH answer <- [p \in Updaters |-> Answer(p)]

(* The watched, retried update behaves as the atomic one of SessionCounters *)
(* and every call returns.                                                 *)
ImplementsCounters == Counters!Spec
=============================================================================
