------------------------------ MODULE SlavePod ------------------------------
(***************************************************************************)
(* The pod of one slave process (libs/app/slave/service.go, podState) and  *)
(* the life of that process (apps/slave-service/cmd/server/main.go,        *)
(* libs/server/grpc/server.go).                                            *)
(*                                                                         *)
(* Every request runs under Service.mu, so an ExecuteEvent is one step.    *)
(* What the seeded generator returns is a nondeterministic choice: Intn(n) *)
(* are the values rng.Intn(n) can take, and a test of Float64() goes both  *)
(* ways.                                                                   *)
(*                                                                         *)
(* Bound: MaxTurns events per process (a terminating pod may take many).   *)
(***************************************************************************)
EXTENDS Integers

CONSTANTS
    InitialRemainingTurns,    \* SLAVE_INITIAL_REMAINING_TURNS
    Intn(_),                  \* the values of rng.Intn(n)
    MaxTurns                  \* bound on events in one process

ASSUME SlaveAssumption ==
    /\ InitialRemainingTurns \in Int
    /\ \A n \in {4, 8, 10, 12, 16} : Intn(n) \subseteq 0..(n - 1)
    /\ MaxTurns \in Nat

VARIABLES
    pod,                      \* podState
    process,                  \* "up", "stopping" after OnShutdown, "down"
    callbacks                 \* calls of OnShutdown in this process

vars == <<pod, process, callbacks>>

Statuses == {"LIVE", "TERMINATING", "GONE"}
Reasons  == {"UNSPECIFIED", "LIFESPAN", "DISEASE", "USER_ACTION"}
Pods == [turnsLived : Nat, remaining : Int, status : Statuses,
         deathReason : Reasons, stress : Nat, fear : Nat,
         infected : BOOLEAN, firewall : BOOLEAN]

(* SetupPod *)
FreshPod ==
    [turnsLived |-> 0, remaining |-> InitialRemainingTurns, status |-> "LIVE",
     deathReason |-> "UNSPECIFIED", stress |-> 0, fear |-> 0,
     infected |-> FALSE, firewall |-> FALSE]

-----------------------------------------------------------------------------
(* What an event does to a pod *)

maxInt32(current, min) == IF current > min THEN current ELSE min

(* Mutant: an exhausted pod keeps counting down. *)
tick_Below(p) ==
    [p EXCEPT !.turnsLived = @ + 1,
              !.remaining  = @ - 1,
              !.stress     = maxInt32(@ - 1, 0),
              !.fear       = maxInt32(@ - 1, 0)]

(* tick: stress and fear are never negative, so "if > 0 then decrement" is *)
(* maxInt32(x - 1, 0) for them; remaining may start at or below zero.      *)
tick(p) ==
    [p EXCEPT !.turnsLived = @ + 1,
              !.remaining  = IF @ > 0 THEN @ - 1 ELSE @,
              !.stress     = maxInt32(@ - 1, 0),
              !.fear       = maxInt32(@ - 1, 0)]

(* math.Round of half, and of seven tenths, of a positive integer: halves  *)
(* are rounded up.                                                         *)
Half(x)        == (x + 1) \div 2
SevenTenths(x) == (7 * x + 5) \div 10

applyHit(p) ==
    {[p EXCEPT !.stress = @ + (IF p.firewall THEN Half(10 + d[1])
                               ELSE 10 + d[1]),
               !.fear   = @ + 8 + d[2]] : d \in Intn(16) \X Intn(10)}

applyScare(p) ==
    {[p EXCEPT !.fear =
         @ + (IF p.firewall THEN SevenTenths(14 + d) ELSE 14 + d)] :
       d \in Intn(12)}

applyInfection(p) ==
    {[p EXCEPT !.infected = TRUE,
               !.stress   = @ + 6 + d[1],
               !.fear     = @ + 5 + d[2]] : d \in Intn(8) \X Intn(4)}

applyFirewall(p) ==
    IF p.firewall
    THEN {[p EXCEPT !.firewall = FALSE, !.stress = @ + s] : s \in Intn(8)}
    ELSE {[p EXCEPT !.firewall = TRUE,
                    !.stress   = maxInt32(@ - 4, 0),
                    !.fear     = maxInt32(@ - 2, 0)]}

recover(p) ==
    [p EXCEPT !.stress = maxInt32(@ - 1, 0), !.fear = maxInt32(@ - 2, 0)]

(* The event ids 1 to 4; every other one is a recovery. *)
Effects(p, eventId) ==
    CASE eventId = 1 -> applyHit(p)
      [] eventId = 2 -> applyScare(p)
      [] eventId = 3 -> applyInfection(p)
      [] eventId = 4 -> applyFirewall(p)
      [] OTHER       -> {recover(p)}

-----------------------------------------------------------------------------
(* mutateLife, its four tests in the order of the code *)

Dying(p, reason) == [p EXCEPT !.status = "TERMINATING", !.deathReason = reason]

(* Mutant: the last turn is lived twice. *)
Aged_Late(p) ==
    IF p.remaining < 0 THEN Dying(p, "LIFESPAN") ELSE p

(* Whatever its status, a pod without turns is dying of age. *)
Aged(p) == IF p.remaining <= 0 THEN Dying(p, "LIFESPAN") ELSE p

Stressed(p) ==
    IF p.status = "LIVE" /\ p.stress >= 85 THEN Dying(p, "USER_ACTION") ELSE p

Diseased(p) ==
    {p} \cup {q \in {Dying(p, "DISEASE")} :
                p.status = "LIVE" /\ p.infected /\ p.fear > 70}

Ended(p) ==
    {p} \cup {q \in {[p EXCEPT !.status = "GONE"]} : p.status = "TERMINATING"}

mutateLife(p) == UNION {Ended(q) : q \in Diseased(Stressed(Aged(p)))}

-----------------------------------------------------------------------------
Init ==
    /\ pod = FreshPod
    /\ process = "up"
    /\ callbacks = 0

(* Mutant: a gone pod takes part in events. *)
ExecuteEvent_Gone(eventId) ==
    /\ process # "down" /\ pod.turnsLived < MaxTurns
    /\ \E p \in Effects(tick(pod), eventId) : pod' \in mutateLife(p)
    /\ UNCHANGED <<process, callbacks>>

(* ExecuteEvent for a matching target.  A gone pod is left alone.  During  *)
(* GracefulStop requests already accepted are still served.                *)
ExecuteEvent(eventId) ==
    /\ process # "down"
    /\ pod.status # "GONE"
    /\ pod.turnsLived < MaxTurns
    /\ \E p \in Effects(tick(pod), eventId) : pod' \in mutateLife(p)
    /\ UNCHANGED <<process, callbacks>>

(* Shutdown: sync.Once runs the callback, which cancels the context.  A    *)
(* second request finds it done and changes nothing.                       *)
Shutdown ==
    /\ process # "down"
    /\ callbacks = 0
    /\ process' = "stopping"
    /\ callbacks' = 1
    /\ UNCHANGED pod

(* The process ends: GracefulStop returned, SIGTERM, or a crash. *)
Exit ==
    /\ process # "down"
    /\ process' = "down"
    /\ UNCHANGED <<pod, callbacks>>

(* Kubernetes starts a new process: main calls SetupPod before it serves. *)
Start ==
    /\ process = "down"
    /\ process' = "up"
    /\ pod' = FreshPod
    /\ callbacks' = 0

Next ==
    \/ \E eventId \in 1..5 : ExecuteEvent(eventId)
    \/ Shutdown
    \/ Exit
    \/ Start

Spec == Init /\ [][Next]_vars

-----------------------------------------------------------------------------
(* Properties *)

(* The fields of podState have their types; stress and fear are never      *)
(* negative, and the shutdown callback ran at most once.                   *)
TypeOK ==
    /\ pod \in Pods
    /\ process \in {"up", "stopping", "down"}
    /\ callbacks \in 0..1

(* A pod that went through an event and is still reported live had turns   *)
(* left and less than the lethal stress: no order of the tests in          *)
(* mutateLife, nor an earlier event, leaves a dead pod live.               *)
LiveIsViable ==
    pod.status = "LIVE" /\ pod.turnsLived > 0 =>
        pod.remaining > 0 /\ pod.stress < 85

(* The turns reported left are what the turns lived leave of the initial   *)
(* lifespan; it never goes below zero, however long a terminating pod is   *)
(* kept busy.                                                              *)
LifespanAccounted ==
    pod.remaining = IF InitialRemainingTurns > 0
                    THEN maxInt32(InitialRemainingTurns - pod.turnsLived, 0)
                    ELSE InitialRemainingTurns

(* A pod has a cause of death exactly when it is no longer live, and the   *)
(* cause fits what happened to it.                                         *)
CauseFits ==
    /\ pod.status = "LIVE" <=> pod.deathReason = "UNSPECIFIED"
    /\ pod.deathReason = "LIFESPAN" => pod.remaining <= 0
    /\ pod.deathReason = "DISEASE" => pod.infected

(* Within one process a recorded cause of death is only ever replaced by   *)
(* old age: mutateLife tests the lifespan of terminating pods too.         *)
CauseChangesOnlyToLifespan ==
    [][pod.deathReason # "UNSPECIFIED" /\ pod'.deathReason # pod.deathReason
         => process = "down" \/ pod'.deathReason = "LIFESPAN"]_vars

(* To the rest of the game the pod is the one of PodLifecycle. *)
Lifecycle == INSTANCE PodLifecycle WITH
    status <- pod.status, up <- process # "down"

ImplementsPodLifecycle == Lifecycle!Spec
=============================================================================
