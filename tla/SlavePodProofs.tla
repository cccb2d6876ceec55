--------------------------- MODULE SlavePodProofs ---------------------------
(***************************************************************************)
(* The pod of a slave process, for every initial lifespan and whatever the *)
(* random generator returns.                                               *)
(***************************************************************************)
EXTENDS SlavePod, TLAPS

USE SlaveAssumption

(* A field of a pod may take any value of its type. *)
LEMMA SetField ==
    ASSUME NEW p \in Pods
    PROVE  /\ \A n \in Nat : [p EXCEPT !.turnsLived = n] \in Pods
           /\ \A n \in Int : [p EXCEPT !.remaining = n] \in Pods
           /\ \A n \in Nat : [p EXCEPT !.stress = n] \in Pods
           /\ \A n \in Nat : [p EXCEPT !.fear = n] \in Pods
           /\ \A s \in Statuses : [p EXCEPT !.status = s] \in Pods
           /\ \A s \in Reasons : [p EXCEPT !.deathReason = s] \in Pods
           /\ \A b \in BOOLEAN : [p EXCEPT !.infected = b] \in Pods
           /\ \A b \in BOOLEAN : [p EXCEPT !.firewall = b] \in Pods
  BY DEF Pods

(* A pod's fields are typed.                                               *)
LEMMA FieldTypes ==
    ASSUME NEW p \in Pods
    PROVE  /\ p.turnsLived \in Nat /\ p.remaining \in Int
           /\ p.stress \in Nat /\ p.fear \in Nat
           /\ p.status \in Statuses /\ p.deathReason \in Reasons
           /\ p.infected \in BOOLEAN /\ p.firewall \in BOOLEAN
  BY DEF Pods

(* SetupPod makes a pod. *)
LEMMA FreshPodType == FreshPod \in Pods
  BY DEF FreshPod, Pods, Statuses, Reasons

(* maxInt32(x, 0) keeps what it is given a natural number. *)
LEMMA MaxNat == \A x \in Int : maxInt32(x, 0) \in Nat
  BY DEF maxInt32

(* tick counts one turn and keeps stress and fear natural numbers. *)
LEMMA TickLemma ==
    ASSUME NEW p \in Pods
    PROVE  /\ tick(p) \in Pods
           /\ tick(p).turnsLived = p.turnsLived + 1
           /\ tick(p).remaining = IF p.remaining > 0 THEN p.remaining - 1
                                  ELSE p.remaining
           /\ tick(p).status = p.status
           /\ tick(p).deathReason = p.deathReason
           /\ tick(p).infected = p.infected
  <1>1. /\ p.turnsLived + 1 \in Nat
        /\ (IF p.remaining > 0 THEN p.remaining - 1 ELSE p.remaining) \in Int
        /\ maxInt32(p.stress - 1, 0) \in Nat
        /\ maxInt32(p.fear - 1, 0) \in Nat
    BY FieldTypes, MaxNat
  <1> DEFINE turn == [p EXCEPT !.turnsLived = p.turnsLived + 1]
             left == [turn EXCEPT !.remaining =
                        IF p.remaining > 0 THEN p.remaining - 1 ELSE p.remaining]
             calm == [left EXCEPT !.stress = maxInt32(p.stress - 1, 0)]
  <1>2. turn \in Pods
    BY <1>1, SetField
  <1>3. left \in Pods
    BY <1>1, <1>2, SetField
  <1>4. calm \in Pods
    BY <1>1, <1>3, SetField
  <1>5. [calm EXCEPT !.fear = maxInt32(p.fear - 1, 0)] \in Pods
    BY <1>1, <1>4, SetField
  <1>6. tick(p) = [calm EXCEPT !.fear = maxInt32(p.fear - 1, 0)]
    BY Zenon DEF tick, Pods
  <1> QED
    BY <1>5, <1>6 DEF tick, Pods

(* An event's effect on stress, fear, infection and firewall touches       *)
(* neither turns, nor status, nor cause of death.                          *)
Unaged(p, q) ==
    /\ q \in Pods
    /\ q.turnsLived = p.turnsLived
    /\ q.remaining = p.remaining
    /\ q.status = p.status
    /\ q.deathReason = p.deathReason
    /\ p.infected => q.infected

(* The same for each combination of fields the events write. *)
LEMMA FeelingsLemma ==
    ASSUME NEW p \in Pods, NEW m \in Nat, NEW n \in Nat, NEW b \in BOOLEAN
    PROVE  /\ Unaged(p, [p EXCEPT !.fear = n])
           /\ Unaged(p, [p EXCEPT !.stress = m, !.fear = n])
           /\ Unaged(p, [p EXCEPT !.infected = TRUE, !.stress = m, !.fear = n])
           /\ Unaged(p, [p EXCEPT !.firewall = b, !.stress = m])
           /\ Unaged(p, [p EXCEPT !.firewall = b, !.stress = m, !.fear = n])
  <1>1. /\ [p EXCEPT !.fear = n] \in Pods
        /\ [p EXCEPT !.stress = m, !.fear = n] \in Pods
        /\ [p EXCEPT !.firewall = b, !.stress = m] \in Pods
    BY SetField
  <1>2. [p EXCEPT !.infected = TRUE, !.stress = m, !.fear = n] \in Pods
    <2>1. [p EXCEPT !.infected = TRUE, !.stress = m] \in Pods
      BY SetField
    <2> QED
      BY <2>1, SetField
  <1>3. [p EXCEPT !.firewall = b, !.stress = m, !.fear = n] \in Pods
    BY <1>1, SetField
  <1> QED
    BY <1>1, <1>2, <1>3 DEF Unaged, Pods

(* No event makes stress or fear negative or changes status and turns. *)
LEMMA EffectsLemma ==
    ASSUME NEW p \in Pods, NEW eventId \in 1..5, NEW q \in Effects(p, eventId)
    PROVE  Unaged(p, q)
  <1> USE FieldTypes, MaxNat
  <1>1. CASE eventId = 1
    <2>0. q \in applyHit(p)
      BY <1>1 DEF Effects
    <2>1. PICK d \in Intn(16) \X Intn(10) :
            q = [p EXCEPT !.stress = @ + (IF p.firewall THEN Half(10 + d[1])
                                          ELSE 10 + d[1]),
                          !.fear   = @ + 8 + d[2]]
      BY <2>0 DEF applyHit
    <2>2. d[1] \in Nat /\ d[2] \in Nat
      OBVIOUS
    <2>3. Half(10 + d[1]) \in Nat
      BY <2>2 DEF Half
    <2>4. /\ p.stress + (IF p.firewall THEN Half(10 + d[1]) ELSE 10 + d[1]) \in Nat
          /\ p.fear + 8 + d[2] \in Nat
      BY <2>2, <2>3
    <2> QED
      BY <2>1, <2>4, FeelingsLemma
  <1>2. CASE eventId = 2
    <2>1. PICK d \in Intn(12) :
            q = [p EXCEPT !.fear = @ + (IF p.firewall THEN SevenTenths(14 + d)
                                        ELSE 14 + d)]
      BY <1>2 DEF Effects, applyScare
    <2>2. d \in Nat
      OBVIOUS
    <2>3. SevenTenths(14 + d) \in Nat
      BY <2>2 DEF SevenTenths
    <2>4. p.fear + (IF p.firewall THEN SevenTenths(14 + d) ELSE 14 + d) \in Nat
      BY <2>2, <2>3
    <2> QED
      BY <2>1, <2>4, FeelingsLemma
  <1>3. CASE eventId = 3
    <2>0. q \in applyInfection(p)
      BY <1>3 DEF Effects
    <2>1. PICK d \in Intn(8) \X Intn(4) :
            q = [p EXCEPT !.infected = TRUE, !.stress = @ + 6 + d[1],
                          !.fear = @ + 5 + d[2]]
      BY <2>0 DEF applyInfection
    <2>2. p.stress + 6 + d[1] \in Nat /\ p.fear + 5 + d[2] \in Nat
      OBVIOUS
    <2> QED
      BY <2>1, <2>2, FeelingsLemma
  <1>4. CASE eventId = 4
    <2>0. q \in applyFirewall(p)
      BY <1>4 DEF Effects
    <2>1. CASE p.firewall
      <3>0. q \in {[p EXCEPT !.firewall = FALSE, !.stress = @ + s] : s \in Intn(8)}
        BY <2>0, <2>1 DEF applyFirewall
      <3>1. PICK s \in Intn(8) : q = [p EXCEPT !.firewall = FALSE, !.stress = @ + s]
        BY <3>0, Zenon
      <3>2. p.stress + s \in Nat
        OBVIOUS
      <3> QED
        BY <3>1, <3>2, FeelingsLemma
    <2>2. CASE ~p.firewall
      <3>1. q = [p EXCEPT !.firewall = TRUE, !.stress = maxInt32(@ - 4, 0),
                          !.fear = maxInt32(@ - 2, 0)]
        BY <2>0, <2>2 DEF applyFirewall
      <3>2. maxInt32(p.stress - 4, 0) \in Nat /\ maxInt32(p.fear - 2, 0) \in Nat
        OBVIOUS
      <3> QED
        BY <3>1, <3>2, FeelingsLemma
    <2> QED
      BY <2>1, <2>2
  <1>5. CASE eventId = 5
    <2>1. q = [p EXCEPT !.stress = maxInt32(@ - 1, 0), !.fear = maxInt32(@ - 2, 0)]
      BY <1>5 DEF Effects, recover
    <2>2. maxInt32(p.stress - 1, 0) \in Nat /\ maxInt32(p.fear - 2, 0) \in Nat
      OBVIOUS
    <2> QED
      BY <2>1, <2>2, FeelingsLemma
  <1> QED
    BY <1>1, <1>2, <1>3, <1>4, <1>5

(* What mutateLife makes of a pod whose turn was counted. *)
Judged(q, r) ==
    /\ r \in Pods
    /\ r.turnsLived = q.turnsLived
    /\ r.remaining = q.remaining
    /\ r.infected = q.infected
    /\ r.status = "LIVE" => /\ q.status = "LIVE" /\ q.remaining > 0
                            /\ r.stress < 85
                            /\ r.deathReason = q.deathReason
    /\ r.status # "LIVE" => r.deathReason # "UNSPECIFIED"
    /\ q.status = "TERMINATING" /\ r.deathReason # q.deathReason
         => r.deathReason = "LIFESPAN"
    /\ r.deathReason = "LIFESPAN" => q.remaining <= 0 \/ q.deathReason = "LIFESPAN"
    /\ r.deathReason = "DISEASE" => q.infected \/ q.deathReason = "DISEASE"

(* mutateLife judges the pod.                                              *)
LEMMA MutateLifeLemma ==
    ASSUME NEW q \in Pods, NEW r \in mutateLife(q), q.status # "GONE",
           q.status = "LIVE" <=> q.deathReason = "UNSPECIFIED"
    PROVE  Judged(q, r)
  <1> DEFINE a == Stressed(Aged(q))
  <1>1. PICK b \in Diseased(a) : r \in Ended(b)
    BY DEF mutateLife
  <1>2. Aged(q) \in Pods
    BY DEF Aged, Dying, Pods, Statuses, Reasons
  <1>3. a \in Pods
    BY <1>2 DEF Stressed, Dying, Pods, Statuses, Reasons
  <1>4. b = a \/ (b = Dying(a, "DISEASE") /\ a.status = "LIVE" /\ a.infected)
    BY <1>1 DEF Diseased
  <1>5. r = b \/ (r = [b EXCEPT !.status = "GONE"] /\ b.status = "TERMINATING")
    BY <1>1 DEF Ended
  <1>6. b \in Pods
    BY <1>3, <1>4 DEF Dying, Pods, Statuses, Reasons
  <1>7. r \in Pods
    BY <1>5, <1>6 DEF Pods, Statuses
  <1>8. /\ a.turnsLived = q.turnsLived /\ a.remaining = q.remaining
        /\ a.infected = q.infected /\ a.stress = q.stress
        /\ a.status \in {"LIVE", "TERMINATING"}
        /\ a.status = "LIVE" => /\ q.status = "LIVE" /\ q.remaining > 0
                                /\ q.stress < 85 /\ a = q
        /\ a.status = "TERMINATING" =>
             \/ a = q
             \/ a.deathReason = "LIFESPAN" /\ q.remaining <= 0
             \/ a.deathReason = "USER_ACTION" /\ q.status = "LIVE"
    BY <1>2 DEF Aged, Stressed, Dying, Pods, Statuses
  <1>9. /\ b.turnsLived = a.turnsLived /\ b.remaining = a.remaining
        /\ b.infected = a.infected /\ b.stress = a.stress
        /\ \/ b.status = a.status /\ b.deathReason = a.deathReason
           \/ /\ b.status = "TERMINATING" /\ b.deathReason = "DISEASE"
              /\ a.status = "LIVE" /\ a.infected
    BY <1>3, <1>4 DEF Dying, Pods
  <1>10. /\ r.turnsLived = b.turnsLived /\ r.remaining = b.remaining
         /\ r.infected = b.infected /\ r.stress = b.stress
         /\ r.deathReason = b.deathReason
         /\ r.status = b.status \/ (r.status = "GONE" /\ b.status = "TERMINATING")
    BY <1>5, <1>6 DEF Pods
  <1> QED
    BY <1>3, <1>7, <1>8, <1>9, <1>10 DEF Judged, Pods, Statuses

-----------------------------------------------------------------------------
IInv == TypeOK /\ LiveIsViable /\ LifespanAccounted /\ CauseFits

(* One event, from the request to the answer. *)
LEMMA EventLemma ==
    ASSUME IInv, NEW eventId \in 1..5, ExecuteEvent(eventId)
    PROVE  \E q \in Pods : Unaged(tick(pod), q) /\ Judged(q, pod')
  <1>1. PICK q \in Effects(tick(pod), eventId) : pod' \in mutateLife(q)
    BY DEF ExecuteEvent
  <1>2. pod \in Pods /\ pod.status # "GONE"
    BY DEF IInv, TypeOK, ExecuteEvent
  <1>3. tick(pod) \in Pods /\ Unaged(tick(pod), q)
    BY <1>1, <1>2, TickLemma, EffectsLemma
  <1>4. q \in Pods /\ q.status # "GONE" /\ (q.status = "LIVE" <=> q.deathReason = "UNSPECIFIED")
    BY <1>2, <1>3, TickLemma DEF Unaged, IInv, CauseFits
  <1>5. Judged(q, pod')
    BY <1>1, <1>4, MutateLifeLemma
  <1> QED
    BY <1>3, <1>4, <1>5

(* The invariants of the pod hold together at every step. *)
LEMMA IInvNext == IInv /\ [Next]_vars => IInv'
  <1> SUFFICES ASSUME IInv, [Next]_vars PROVE IInv'
    OBVIOUS
  <1>0. pod \in Pods
    BY DEF IInv, TypeOK
  <1>1. ASSUME NEW eventId \in 1..5, ExecuteEvent(eventId) PROVE IInv'
    <2>1. PICK q \in Pods : Unaged(tick(pod), q) /\ Judged(q, pod')
      BY <1>1, EventLemma
    <2>2. TypeOK'
      BY <1>1, <2>1 DEF Judged, IInv, TypeOK, ExecuteEvent
    <2>3. LiveIsViable'
      BY <2>1 DEF Judged, LiveIsViable
    <2>4. /\ pod'.turnsLived = pod.turnsLived + 1
          /\ pod'.remaining = IF pod.remaining > 0 THEN pod.remaining - 1
                              ELSE pod.remaining
      BY <1>0, <2>1, TickLemma DEF Judged, Unaged
    <2>5. LifespanAccounted'
      BY <1>0, <2>4, FieldTypes DEF LifespanAccounted, IInv, maxInt32
    <2>6. CauseFits'
      <3>1. /\ q.status = pod.status /\ q.deathReason = pod.deathReason
            /\ pod.infected => q.infected
            /\ q.remaining = pod'.remaining /\ pod'.infected = q.infected
        BY <1>0, <2>1, TickLemma DEF Unaged, Judged
      <3>2. pod.remaining <= 0 => pod'.remaining <= 0
        BY <1>0, <2>4, FieldTypes
      <3> QED
        BY <2>1, <3>1, <3>2 DEF Judged, CauseFits, IInv
    <2> QED
      BY <2>2, <2>3, <2>5, <2>6 DEF IInv
  <1>2. CASE Shutdown \/ Exit
    BY <1>2 DEF Shutdown, Exit, IInv, TypeOK, LiveIsViable, LifespanAccounted,
                CauseFits
  <1>3. CASE Start
    <2>1. TypeOK'
      BY <1>3, FreshPodType DEF Start, TypeOK
    <2> QED
      BY <1>3, <2>1 DEF Start, FreshPod, IInv, LiveIsViable, LifespanAccounted,
                        CauseFits, maxInt32
  <1>4. CASE UNCHANGED vars
    BY <1>4 DEF vars, IInv, TypeOK, LiveIsViable, LifespanAccounted, CauseFits
  <1> QED
    BY <1>1, <1>2, <1>3, <1>4 DEF Next

(* The invariant holds throughout.                                         *)
LEMMA Invariant == Spec => []IInv
  <1>1. Init => IInv
    <2> SUFFICES ASSUME Init PROVE IInv
      OBVIOUS
    <2>1. TypeOK
      BY FreshPodType DEF Init, TypeOK
    <2> QED
      BY <2>1 DEF Init, FreshPod, IInv, LiveIsViable, LifespanAccounted,
                  CauseFits, maxInt32
  <1> QED
    BY <1>1, IInvNext, PTL DEF Spec

-----------------------------------------------------------------------------
(* The fields keep their types: stress and fear never go below zero. *)
THEOREM TypeCorrect == Spec => []TypeOK
  BY Invariant, PTL DEF IInv

(* mutateLife never leaves a pod live that has no turns or too much stress,*)
(* for any lifespan configured, negative ones included.                    *)
THEOREM Viable == Spec => []LiveIsViable
  BY Invariant, PTL DEF IInv

(* The turns left are accounted for. *)
THEOREM Accounted == Spec => []LifespanAccounted
  BY Invariant, PTL DEF IInv

(* A pod that died has a cause of death, and one that fits. *)
THEOREM Causes == Spec => []CauseFits
  BY Invariant, PTL DEF IInv

(* ExecuteEvent replaces a recorded cause of death by old age only. *)
THEOREM CauseStable == Spec => CauseChangesOnlyToLifespan
  <1> DEFINE A == pod.deathReason # "UNSPECIFIED" /\ pod'.deathReason # pod.deathReason
                    => process = "down" \/ pod'.deathReason = "LIFESPAN"
  <1>1. IInv /\ [Next]_vars => [A]_vars
    <2> SUFFICES ASSUME IInv, Next PROVE A
      BY DEF vars
    <2>1. ASSUME NEW eventId \in 1..5, ExecuteEvent(eventId) PROVE A
      <3>1. PICK q \in Pods : Unaged(tick(pod), q) /\ Judged(q, pod')
        BY <2>1, EventLemma
      <3>2. pod \in Pods /\ pod.status # "GONE"
        BY <2>1 DEF IInv, TypeOK, ExecuteEvent
      <3>3. q.status = pod.status /\ q.deathReason = pod.deathReason
        BY <3>1, <3>2, TickLemma DEF Unaged
      <3>4. pod.deathReason # "UNSPECIFIED" => pod.status = "TERMINATING"
        BY <3>2 DEF IInv, CauseFits, Pods, Statuses
      <3> QED
        BY <3>1, <3>3, <3>4 DEF Judged
    <2> QED
      BY <2>1 DEF Next, Shutdown, Exit, Start
  <1> QED
    BY <1>1, Invariant, PTL DEF Spec, CauseChangesOnlyToLifespan

(* Every step of the process is one PodLifecycle allows. *)
THEOREM PodRefinement == Spec => ImplementsPodLifecycle
  <1>1. Init => Lifecycle!Init
    BY DEF Init, FreshPod, Lifecycle!Init
  <1>2. IInv /\ [Next]_vars => [Lifecycle!Next]_(Lifecycle!vars)
    <2> SUFFICES ASSUME IInv, [Next]_vars
                 PROVE  Lifecycle!Next \/ UNCHANGED Lifecycle!vars
      OBVIOUS
    <2>1. ASSUME NEW eventId \in 1..5, ExecuteEvent(eventId)
          PROVE  Lifecycle!Event
      <3>1. PICK q \in Pods : Unaged(tick(pod), q) /\ Judged(q, pod')
        BY <2>1, EventLemma
      <3>2. pod \in Pods /\ pod.status # "GONE"
        BY <2>1 DEF IInv, TypeOK, ExecuteEvent
      <3>3. q.status = pod.status
        BY <3>1, <3>2, TickLemma DEF Unaged
      <3>4. pod'.status \in Statuses /\ (pod'.status = "LIVE" => pod.status = "LIVE")
        BY <3>1, <3>3 DEF Judged, Pods
      <3>5. pod'.status \in Lifecycle!Outcomes(pod.status)
        BY <3>2, <3>4 DEF Lifecycle!Outcomes, Pods, Statuses
      <3> QED
        BY <2>1, <3>5 DEF ExecuteEvent, Lifecycle!Event
    <2>2. CASE Shutdown
      BY <2>2 DEF Shutdown, Lifecycle!vars
    <2>3. CASE Exit
      BY <2>3 DEF Exit, Lifecycle!Next, Lifecycle!Stop
    <2>4. CASE Start
      BY <2>4 DEF Start, FreshPod, Lifecycle!Next, Lifecycle!Start
    <2>5. CASE UNCHANGED vars
      BY <2>5 DEF vars, Lifecycle!vars
    <2> QED
      BY <2>1, <2>2, <2>3, <2>4, <2>5 DEF Next, Lifecycle!Next
  <1> QED
    BY <1>1, <1>2, Invariant, PTL DEF Spec, Lifecycle!Spec, ImplementsPodLifecycle
=============================================================================
