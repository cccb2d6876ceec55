------------------------ MODULE SessionMetricsProofs ------------------------
(***************************************************************************)
(* Proofs about SessionMetrics, for any finite sets of calls, any retry    *)
(* limit, with or without Redis errors.                                    *)
(*                                                                         *)
(* The heart is Current: what a call has read is what the key holds, as    *)
(* long as Redis has not noted a write; it is what makes an unnoted EXEC   *)
(* the atomic update of SessionCounters.                                   *)
(***************************************************************************)
EXTENDS SessionMetrics, FiniteSetTheorems, TLAPS

Calling == {"watch", "get", "exec"}

(* What a call has read is current until it is told otherwise. *)
Current == \A p \in Updaters :
    pc[p] = "exec" /\ ~touched[p] => seen[p] = metrics /\ metrics # NoMetrics

(* The loop's variable. *)
Attempts == \A p \in Updaters : /\ pc[p] \in Calling => attempt[p] < maxRetries
                                /\ pc[p] = "exhausted" => attempt[p] = maxRetries

(* Each failed attempt, past or coming, has a write of its own. *)
Overtaken == \A p \in Updaters :
    IF pc[p] \in {"get", "exec"} /\ touched[p] THEN attempt[p] + 1 <= writes
                                               ELSE attempt[p] <= writes

(* What a call has read is not the mark of a missing key. *)
Read == \A p \in Updaters : pc[p] = "exec" => seen[p] # NoMetrics

IInv == TypeOK /\ Current /\ Attempts /\ Overtaken /\ Read

-----------------------------------------------------------------------------
(* The functions of the services yield counters. *)
LEMMA FnLemma ==
    ASSUME NEW p \in Updaters, NEW m \in Metrics
    PROVE  fn(p, m) \in Metrics
<1>1. Registered(m) \in Metrics
  BY DEF Registered, Metrics
<1>2. Died(m) \in Metrics
  <2>1. (IF m.live > 0 THEN m.live - 1 ELSE 0) \in Nat /\ m.gone + 1 \in Nat
    BY DEF Metrics
  <2> QED BY <2>1 DEF Died, Metrics
<1>3. AllGone(Listed) \in Metrics
  BY MetricsAssumption DEF AllGone, Metrics
<1> QED BY <1>1, <1>2, <1>3 DEF fn

(* Initially nothing has been read or written. *)
LEMMA InitLemma == Init => IInv
<1> SUFFICES ASSUME Init PROVE IInv
  OBVIOUS
<1>1. metrics \in Metrics
  BY DEF Init, Metrics
<1>2. TypeOK
  BY <1>1, MetricsAssumption DEF Init, TypeOK
<1> QED BY <1>2, MetricsAssumption DEF Init, IInv, Current, Attempts, Overtaken, Read, Calling

(* Every step keeps the invariant. *)
LEMMA NextLemma == IInv /\ [Next]_vars => IInv'
<1> SUFFICES ASSUME IInv, [Next]_vars PROVE IInv'
  OBVIOUS
<1> USE MetricsAssumption
<1> USE DEF IInv, TypeOK, Current, Attempts, Overtaken, Read, Calling
<1>1. CASE DeleteSession
  BY <1>1 DEF DeleteSession, Written
<1>2. ASSUME NEW p \in Updaters, Watch(p) PROVE IInv'
  BY <1>2 DEF Watch
<1>3. ASSUME NEW p \in Updaters, Get(p) PROVE IInv'
  <2>1. CASE metrics = NoMetrics
    BY <1>3, <2>1 DEF Get
  <2>2. CASE metrics # NoMetrics
    BY <1>3, <2>2 DEF Get
  <2> QED BY <2>1, <2>2
<1>4. ASSUME NEW p \in Updaters, Exec(p) PROVE IInv'
  <2>1. seen[p] \in Metrics
    BY <1>4 DEF Exec
  <2>2. metrics' \in Metrics
    BY <2>1, <1>4, FnLemma DEF Exec, Written
  <2>3. PICK a \in {"ok", "error"} : pc' = [pc EXCEPT ![p] = a]
    BY <1>4 DEF Exec
  <2> QED BY <1>4, <2>2, <2>3 DEF Exec, Written
<1>5. ASSUME NEW p \in Updaters, ExecFails(p) PROVE IInv'
  <2>1. attempt'[p] = attempt[p] + 1 /\ attempt[p] + 1 \in 0..maxRetries
    BY <1>5 DEF ExecFails
  <2>2. CASE attempt[p] + 1 < maxRetries
    BY <1>5, <2>1, <2>2 DEF ExecFails
  <2>3. CASE attempt[p] + 1 = maxRetries
    BY <1>5, <2>1, <2>3 DEF ExecFails
  <2> QED BY <2>1, <2>2, <2>3
<1>6. ASSUME NEW p \in Updaters, RequestFails(p) PROVE IInv'
  BY <1>6 DEF RequestFails
<1>7. CASE UNCHANGED vars
  BY <1>7 DEF vars
<1> QED BY <1>1, <1>2, <1>3, <1>4, <1>5, <1>6, <1>7 DEF Next, Call

(* The invariant holds throughout.                                         *)
THEOREM Invariance == Safe => []IInv
BY InitLemma, NextLemma, PTL DEF Safe

(* Every state is well typed; in particular the counters are naturals and  *)
(* no call tries more often than the loop of UpdateSessionMetrics allows.  *)
THEOREM TypeCorrect == Safe => []TypeOK
BY Invariance, PTL DEF IInv

(* A call that runs out of attempts has been overtaken by maxRetries       *)
(* successful writes.                                                      *)
THEOREM Exhausted == Safe => []ExhaustedByContention
<1>1. IInv => ExhaustedByContention
  BY MetricsAssumption DEF IInv, TypeOK, Attempts, Overtaken, Calling, ExhaustedByContention
<1> QED BY <1>1, Invariance, PTL

(* The transaction of UpdateSessionMetrics never brings a deleted key back. *)
THEOREM Deleted == Safe => DeletedStaysDeleted
<1>1. IInv /\ [Next]_vars => (metrics = NoMetrics => metrics' = NoMetrics)
  <2> SUFFICES ASSUME IInv, [Next]_vars, metrics = NoMetrics PROVE metrics' = NoMetrics
    OBVIOUS
  <2>1. ASSUME NEW p \in Updaters, Exec(p) PROVE FALSE
    BY <2>1 DEF Exec, IInv, Current
  <2> QED BY <2>1 DEF Next, Call, vars, DeleteSession, Watch, Get, ExecFails, RequestFails
<1>2. IInv /\ [Next]_vars => [metrics = NoMetrics => metrics' = NoMetrics]_vars
  BY <1>1
<1> QED BY <1>2, Invariance, PTL DEF Safe, DeletedStaysDeleted

-----------------------------------------------------------------------------
(* No update is lost. *)

(* Both sets of deaths are finite, and reported ones were attempted. *)
LEMMA DeathSets ==
    /\ IsFiniteSet(Reported) /\ Cardinality(Reported) \in Nat
    /\ IsFiniteSet(Attempted) /\ Cardinality(Attempted) \in Nat
<1>1. IsFiniteSet(Dying)
  BY MetricsAssumption, FS_Subset DEF Updaters
<1>2. IsFiniteSet(Reported) /\ IsFiniteSet(Attempted)
  BY <1>1, FS_Subset DEF Reported, Attempted
<1> QED BY <1>2, FS_CardinalityType

(* The gone counter only moves with an update whose answer is counted. *)
LEMMA NoDeathLostStep == IInv /\ NoDeathLost /\ [Next]_vars => NoDeathLost'
<1> SUFFICES ASSUME IInv, NoDeathLost, [Next]_vars,
                    metrics' # NoMetrics,
                    \A p \in Ending : pc'[p] \notin {"ok", "error"}
             PROVE  /\ Cardinality(Reported') <= metrics'.gone
                    /\ metrics'.gone <= Cardinality(Attempted')
  BY DEF NoDeathLost
<1> USE MetricsAssumption DEF IInv, TypeOK
<1> DEFINE Bounds == Cardinality(Reported) <= metrics.gone /\ metrics.gone <= Cardinality(Attempted)
<1>0. ASSUME NEW p \in Updaters, NEW a, pc' = [pc EXCEPT ![p] = a],
             pc[p] \in Calling, metrics # NoMetrics
      PROVE  Bounds /\ metrics.gone \in Nat
  <2>1. \A q \in Ending : pc[q] \notin {"ok", "error"}
    BY <1>0 DEF Updaters, Calling
  <2> QED BY <1>0, <2>1 DEF NoDeathLost, Metrics
<1>1. ASSUME NEW p \in Updaters, Exec(p) PROVE Bounds'
  <2>1. PICK a \in {"ok", "error"} : pc' = [pc EXCEPT ![p] = a]
    BY <1>1 DEF Exec
  <2>2. seen[p] = metrics /\ metrics \in Metrics /\ pc[p] = "exec"
    BY <1>1 DEF Exec, Current
  <2>4. Bounds
    BY <1>0, <2>1, <2>2 DEF Calling
  <2>5. metrics' = fn(p, metrics)
    BY <1>1, <2>2 DEF Exec, Written
  <2>6. CASE p \in Dying
    <3>1. metrics'.gone = metrics.gone + 1 /\ metrics.gone \in Nat
      BY <2>2, <2>5, <2>6 DEF fn, Died, Metrics
    <3>2. Attempted' = Attempted \cup {p} /\ p \notin Attempted
      BY <2>1, <2>2, <2>6 DEF Attempted, Updaters
    <3>3. Cardinality(Attempted \cup {p}) = Cardinality(Attempted) + 1
      BY <3>2, DeathSets, FS_AddElement, Zenon
    <3>4. CASE a = "ok"
      <4>1. Reported' = Reported \cup {p} /\ p \notin Reported
        BY <2>1, <2>2, <2>6, <3>4 DEF Reported, Updaters
      <4>2. Cardinality(Reported \cup {p}) = Cardinality(Reported) + 1
        BY <4>1, DeathSets, FS_AddElement, Zenon
      <4> QED BY <3>1, <3>2, <3>3, <4>1, <4>2, <2>4, DeathSets
    <3>5. CASE a = "error"
      <4>1. Reported' = Reported
        BY <2>1, <2>2, <3>5 DEF Reported, Updaters
      <4> QED BY <3>1, <3>2, <3>3, <4>1, <2>4, DeathSets
    <3> QED BY <3>4, <3>5
  <2>7. CASE p \in Registering
    <3>1. metrics'.gone = metrics.gone
      BY <2>2, <2>5, <2>7 DEF fn, Registered, Metrics
    <3>2. Reported' = Reported /\ Attempted' = Attempted
      BY <2>1, <2>7 DEF Reported, Attempted, Updaters
    <3> QED BY <3>1, <3>2, <2>4
  <2>8. CASE p \in Ending
    BY <2>1, <2>8
  <2> QED BY <2>6, <2>7, <2>8 DEF Updaters
<1>2. ASSUME NEW p \in Updaters, RequestFails(p) \/ Watch(p) \/ Get(p) \/ ExecFails(p)
      PROVE  Bounds'
  <2>1. UNCHANGED metrics
    BY <1>2 DEF RequestFails, Watch, Get, ExecFails
  <2>2. PICK a \in {"get", "exec", "watch", "error", "exhausted"} :
            pc' = [pc EXCEPT ![p] = a] /\ pc[p] \in Calling
    BY <1>2 DEF RequestFails, Watch, Get, ExecFails, Calling
  <2>3. Bounds /\ metrics.gone \in Nat
    BY <1>0, <2>1, <2>2
  <2>4. Reported' = Reported
    BY <2>2 DEF Reported, Updaters, Calling
  <2>5. CASE a = "error" /\ p \in Dying
    <3>1. Attempted' = Attempted \cup {p} /\ p \notin Attempted
      BY <2>2, <2>5 DEF Attempted, Updaters, Calling
    <3>2. Cardinality(Attempted \cup {p}) = Cardinality(Attempted) + 1
      BY <3>1, DeathSets, FS_AddElement, Zenon
    <3> QED BY <2>1, <2>3, <2>4, <3>1, <3>2, DeathSets
  <2>6. CASE ~(a = "error" /\ p \in Dying)
    <3>1. Attempted' = Attempted
      BY <2>2, <2>6 DEF Attempted, Updaters, Calling
    <3> QED BY <2>1, <2>3, <2>4, <3>1
  <2> QED BY <2>5, <2>6
<1>3. CASE DeleteSession
  BY <1>3 DEF DeleteSession, Written
<1>4. CASE UNCHANGED vars
  BY <1>4 DEF vars, NoDeathLost, Reported, Attempted
<1> QED BY <1>1, <1>2, <1>3, <1>4 DEF Next, Call

(* The gone counter of an open session has every reported death and none   *)
(* twice, however many services update it at once.                         *)
THEOREM DeathsCounted == Safe => []NoDeathLost
<1>1. Init => NoDeathLost
  <2> SUFFICES ASSUME Init PROVE Cardinality(Reported) <= 0 /\ 0 <= Cardinality(Attempted)
    BY DEF NoDeathLost, Init
  <2>1. Reported = {} /\ Attempted = {}
    BY DEF Init, Updaters, Reported, Attempted
  <2> QED BY <2>1, FS_EmptySet
<1> QED BY <1>1, NoDeathLostStep, Invariance, PTL DEF Safe

-----------------------------------------------------------------------------
(* Refinement *)

(* A step of a call is an atomic update, a refusal, or invisible. *)
LEMMA CallRefines ==
    ASSUME IInv, NEW p \in Updaters, Call(p)
    PROVE  [Counters!Next]_(Counters!vars)
<1> DEFINE ans == [q \in Updaters |-> Answer(q)]
<1> USE DEF IInv, TypeOK
<1>1. ASSUME NEW a, pc' = [pc EXCEPT ![p] = a], a \in {"watch", "get", "exec"}, pc[p] \in Calling
      PROVE  ans' = ans
  BY <1>1 DEF Answer, Calling
<1>2. ASSUME NEW a, pc' = [pc EXCEPT ![p] = a], pc[p] \in Calling,
             a \in {"ok", "error", "exhausted"}
      PROVE  /\ ans[p] = "none"
             /\ ans' = [ans EXCEPT ![p] = IF a = "ok" THEN "ok" ELSE "error"]
  BY <1>2 DEF Answer, Calling
<1>3. ASSUME NEW a, pc' = [pc EXCEPT ![p] = a], pc[p] \in Calling,
             a \in {"error", "exhausted"}, UNCHANGED metrics
      PROVE  Counters!Next
  <2>1. Counters!Refuse(p)
    BY <1>2, <1>3 DEF Counters!Refuse
  <2> QED BY <2>1 DEF Counters!Next
<1>4. ASSUME NEW a, pc' = [pc EXCEPT ![p] = a], pc[p] \in Calling,
             a \in {"watch", "get", "exec"}, UNCHANGED metrics
      PROVE  UNCHANGED Counters!vars
  BY <1>1, <1>4 DEF Counters!vars
<1>5. CASE Watch(p)
  BY <1>4, <1>5 DEF Watch, Calling
<1>6. CASE Get(p)
  <2>1. CASE metrics = NoMetrics
    BY <1>3, <1>6, <2>1 DEF Get, Calling
  <2>2. CASE metrics # NoMetrics
    BY <1>4, <1>6, <2>2 DEF Get, Calling
  <2> QED BY <2>1, <2>2
<1>7. CASE Exec(p)
  <2>1. PICK a \in {"ok", "error"} : pc' = [pc EXCEPT ![p] = a]
    BY <1>7 DEF Exec
  <2>2. metrics # NoMetrics /\ metrics' = fn(p, metrics)
    BY <1>7 DEF Exec, Written, Current
  <2>3. Counters!Apply(p)
    BY <1>2, <1>7, <2>1, <2>2 DEF Exec, Calling, Counters!Apply
  <2> QED BY <2>3 DEF Counters!Next
<1>8. CASE ExecFails(p)
  <2>1. CASE attempt[p] + 1 < maxRetries
    BY <1>4, <1>8, <2>1 DEF ExecFails, Calling
  <2>2. CASE ~(attempt[p] + 1 < maxRetries)
    BY <1>3, <1>8, <2>2 DEF ExecFails, Calling
  <2> QED BY <2>1, <2>2
<1>9. CASE RequestFails(p)
  BY <1>3, <1>9 DEF RequestFails, Calling
<1> QED BY <1>5, <1>6, <1>7, <1>8, <1>9 DEF Call

(* The watched, retried update is an atomic update of the counters or has  *)
(* no effect: every behaviour is one of SessionCounters.                   *)
THEOREM CountersRefinement == Safe => Counters!Safe
<1>1. Init => Counters!Init
  BY DEF Init, Counters!Init, Answer
<1>2. IInv /\ [Next]_vars => [Counters!Next]_(Counters!vars)
  <2> SUFFICES ASSUME IInv, [Next]_vars PROVE [Counters!Next]_(Counters!vars)
    OBVIOUS
  <2>1. CASE DeleteSession
    <3>1. Counters!Delete
      BY <2>1 DEF DeleteSession, Written, Counters!Delete, Answer
    <3> QED BY <3>1 DEF Counters!Next
  <2>2. CASE UNCHANGED vars
    BY <2>2 DEF vars, Counters!vars, Answer
  <2> QED BY <2>1, <2>2, CallRefines DEF Next
<1> QED BY <1>1, <1>2, Invariance, PTL DEF Safe, Counters!Safe
=============================================================================
