------------------------- MODULE MasterSessionProofs -------------------------
(***************************************************************************)
(* The session slot of the master service is safe for every set of         *)
(* connections, timers and sessions, every grace period, and whether or    *)
(* not Redis fails or the process restarts.                                *)
(***************************************************************************)
EXTENDS MasterSession, TLAPS

USE SessionAssumption DEF Procs

------------------------------------------------------------------------------
(* Type correctness *)

(* Stopping the slot's timer changes nothing but that timer, and only if   *)
(* it is armed.                                                            *)
LEMMA StopTimer ==
    ASSUME TypeOK
    PROVE  /\ PcStopped \in [Procs -> ConnPCs \cup TimerPCs]
           /\ \A p \in Procs : \/ PcStopped[p] = pc[p]
                               \/ /\ p \in Timers
                                  /\ pc[p] = "armed"
                                  /\ PcStopped[p] = "idle"
           /\ \A c \in Conns : PcStopped[c] = pc[c]
  BY DEF TypeOK, PcStopped, ConnPCs, TimerPCs

(* The initial state has its type. *)
LEMMA TypeInit == Init => TypeOK
  <1> SUFFICES ASSUME Init PROVE TypeOK
    OBVIOUS
  <1>1. pc \in [Procs -> ConnPCs \cup TimerPCs] /\ sess \in [Procs -> {NoSession}]
    BY DEF Init, ConnPCs, TimerPCs
  <1>2. /\ \A c \in Conns : pc[c] \in ConnPCs
        /\ \A t \in Timers : pc[t] \in TimerPCs
    BY DEF Init, ConnPCs, TimerPCs
  <1>3. left \in [Timers -> 0..Grace] /\ away \in 0..Grace
    BY DEF Init
  <1> QED
    BY <1>1, <1>2, <1>3 DEF Init, TypeOK

(* Every step keeps the types.                                             *)
LEMMA TypeNext == TypeOK /\ [Next]_vars => TypeOK'
  <1> SUFFICES ASSUME TypeOK, [Next]_vars PROVE TypeOK'
    OBVIOUS
  <1> USE DEF TypeOK, ConnPCs, TimerPCs, OwnerPCs, FinalizePCs, Goto, memory,
              redis
  <1>1. ASSUME NEW c \in Conns, HandlerStep(c) PROVE TypeOK'
    <2>1. CASE Upgrade(c)
      BY <2>1 DEF Upgrade
    <2>2. CASE StartSession(c)
      BY <2>2 DEF StartSession
    <2>3. CASE CommitSession(c)
      BY <2>3 DEF CommitSession
    <2>4. CASE AbortPendingSession(c)
      BY <2>4 DEF AbortPendingSession
    <2>5. CASE Join(c)
      BY <2>5 DEF Join
    <2>6. CASE Leave(c)
      BY <2>6 DEF Leave
    <2>7. CASE ConnectionClosed(c)
      <3>1. pc' \in [Procs -> ConnPCs \cup TimerPCs]
        BY <2>7, StopTimer DEF ConnectionClosed
      <3>2. /\ \A d \in Conns : pc'[d] \in ConnPCs
            /\ \A t \in Timers : pc'[t] \in TimerPCs
        BY <2>7, StopTimer DEF ConnectionClosed
      <3>3. away' \in 0..Grace /\ sessionClosing' \in BOOLEAN
        <4>1. CASE sessionID # sess[c] \/ sessionClosing
          BY <2>7, <4>1 DEF ConnectionClosed
        <4>2. CASE ~(sessionID # sess[c] \/ sessionClosing)
          <5>1. away' = 0
            BY <2>7, <4>2 DEF ConnectionClosed
          <5>2. sessionClosing' = sessionClosing \/ sessionClosing' = TRUE
            BY <2>7, <4>2 DEF ConnectionClosed
          <5>3. away' \in 0..Grace
            BY <5>1
          <5>4. sessionClosing' \in BOOLEAN
            BY <5>2, Zenon
          <5> QED
            BY <5>3, <5>4
        <4> QED
          BY <4>1, <4>2
      <3> QED
        BY <2>7, <3>1, <3>2, <3>3 DEF ConnectionClosed
    <2>8. CASE ArmTimer(c)
      BY <2>8 DEF ArmTimer
    <2> QED
      BY <1>1, <2>1, <2>2, <2>3, <2>4, <2>5, <2>6, <2>7, <2>8 DEF HandlerStep
  <1>2. ASSUME NEW c \in Conns, ClientStep(c) PROVE TypeOK'
    <2>1. CASE TryBegin(c)
      BY <2>1, StopTimer DEF TryBegin, Admitted
    <2>2. ASSUME NEW asked \in BOOLEAN, ReadFails(c, asked) PROVE TypeOK'
      BY <2>2 DEF ReadFails
    <2>3. CASE DropFromHub(c)
      BY <2>3 DEF DropFromHub
    <2> QED
      BY <1>2, <2>1, <2>2, <2>3 DEF ClientStep
  <1>3. ASSUME NEW t \in Timers, TimerStep(t) PROVE TypeOK'
    <2>1. CASE Expire(t)
      BY <2>1 DEF Expire
    <2>2. CASE FinishSession(t)
      <3>1. pc' \in [Procs -> ConnPCs \cup TimerPCs]
        BY <2>2, StopTimer DEF FinishSession
      <3>2. /\ \A c \in Conns : pc'[c] \in ConnPCs
            /\ \A u \in Timers : pc'[u] \in TimerPCs
        BY <2>2, StopTimer DEF FinishSession
      <3> QED
        BY <2>2, <3>1, <3>2 DEF FinishSession
    <2> QED
      BY <1>3, <2>1, <2>2 DEF TimerStep
  <1>4. ASSUME NEW p \in Procs, FinalizeStep(p) PROVE TypeOK'
    <2>1. CASE EndSessionFails(p)
      BY <2>1 DEF EndSessionFails
    <2>2. CASE MarkAllSlavesGone(p)
      BY <2>2 DEF MarkAllSlavesGone
    <2>3. CASE ReadActive(p)
      BY <2>3 DEF ReadActive
    <2>4. CASE DeleteSession(p)
      BY <2>4 DEF DeleteSession
    <2>5. CASE ResetSession(p)
      BY <2>5, StopTimer DEF ResetSession
    <2> QED
      BY <1>4, <2>1, <2>2, <2>3, <2>4, <2>5 DEF FinalizeStep
  <1>5. CASE Tick
    BY <1>5 DEF Tick
  <1>6. CASE Restart
    BY <1>6 DEF Restart
  <1>7. CASE UNCHANGED vars
    BY <1>7 DEF vars
  <1> QED
    BY <1>1, <1>2, <1>3, <1>4, <1>5, <1>6, <1>7 DEF Next

(* Every reachable state of the slot has its type. *)
THEOREM TypeCorrect == Safe => []TypeOK
  BY TypeInit, TypeNext, PTL DEF Safe

------------------------------------------------------------------------------
(* The inductive invariant *)

(* A handler between its admission and the first lock section of its       *)
(* handleConnectionClosed: with the open session, or with the reserved     *)
(* slot.                                                                   *)
Mine(c) == \/ pc[c] \in {"joining", "serving", "leaving", "closed"}
           \/ (pc[c] = "upgrading" /\ Resumed(c))
New(c)  == \/ pc[c] \in {"starting", "committing", "aborting"}
           \/ (pc[c] = "upgrading" /\ ~Resumed(c))

(* What each process carries agrees with the slot. *)
Carried ==
    /\ \A c \in Conns : Mine(c) => sess[c] = sessionID /\ sessionID \in Sessions
    /\ \A c \in Conns : New(c) => sessionID = Pending
    /\ \A p \in Procs :
         Finalizer(p) => sess[p] = sessionID /\ sessionID \in Sessions
    /\ \A p \in Procs : pc[p] \in {"rearming", "armed", "fired", "committing"}
                        => sess[p] \in Sessions
    /\ sessionID = Pending => \E c \in Conns : New(c)

(* Redis agrees with the slot, and with what was read from it. *)
Keyed ==
    /\ OpenSessionQueryable
    /\ stored \subseteq used
    /\ sessionID \in Sessions => sessionMeta = sessionID
    /\ \A c \in Conns :
         pc[c] = "committing" => active = sess[c] /\ sess[c] \in stored
    /\ \A p \in Procs :
         pc[p] = "purging" /\ seesActive[p] => active = sess[p]

Registered == \A c \in hub : pc[c] \in {"serving", "leaving"}

IInv ==
    /\ TypeOK
    /\ SingleOwner
    /\ SingleFinalizer
    /\ Carried
    /\ Keyed
    /\ Registered
    /\ InterruptedSessionHasEnder

(* The initial state satisfies it. *)
LEMMA IInvInit == Init => IInv
  <1> SUFFICES ASSUME Init PROVE IInv
    OBVIOUS
  <1>1. \A p \in Procs : pc[p] = "idle"
    BY DEF Init
  <1>2. SingleOwner /\ SingleFinalizer /\ Carried /\ Keyed
    BY <1>1 DEF Init, SingleOwner, SingleFinalizer, Carried, Keyed, Owner,
                Finalizer, OwnerPCs, FinalizePCs, Mine, New,
                OpenSessionQueryable
  <1>3. Registered /\ InterruptedSessionHasEnder
    BY <1>1 DEF Init, Registered, InterruptedSessionHasEnder, Waiting
  <1> QED
    BY <1>2, <1>3, TypeInit DEF IInv

(* Every step of the processes keeps it. *)
LEMMA IInvNext == IInv /\ [Next]_vars => IInv'
  <1> SUFFICES ASSUME IInv, [Next]_vars PROVE IInv'
    OBVIOUS
  <1>0. TypeOK /\ TypeOK'
    BY TypeNext DEF IInv
  <1> USE <1>0 DEF IInv, SingleOwner, SingleFinalizer, Carried, Keyed, Registered,
              InterruptedSessionHasEnder, OpenSessionQueryable, Waiting, Owner,
              Finalizer, Mine, New, Resumed, OwnerPCs, FinalizePCs, Goto, memory,
              redis
  <1>1. ASSUME NEW c \in Conns, HandlerStep(c) PROVE IInv'
    <2>1. CASE Upgrade(c)
      BY <2>1 DEF Upgrade, TypeOK
    <2>2. CASE StartSession(c)
      BY <2>2 DEF StartSession, TypeOK
    <2>3. CASE CommitSession(c)
      BY <2>3 DEF CommitSession, TypeOK
    <2>4. CASE AbortPendingSession(c)
      BY <2>4 DEF AbortPendingSession, TypeOK
    <2>5. CASE Join(c)
      BY <2>5 DEF Join, TypeOK
    <2>6. CASE Leave(c)
      BY <2>6 DEF Leave, TypeOK
    <2>7. CASE ConnectionClosed(c)
      BY <2>7, StopTimer DEF ConnectionClosed, TypeOK
    <2>8. CASE ArmTimer(c)
      BY <2>8 DEF ArmTimer, TypeOK
    <2> QED
      BY <1>1, <2>1, <2>2, <2>3, <2>4, <2>5, <2>6, <2>7, <2>8 DEF HandlerStep
  <1>2. ASSUME NEW c \in Conns, ClientStep(c) PROVE IInv'
    <2>1. CASE TryBegin(c)
      BY <2>1, StopTimer DEF TryBegin, Admitted, TypeOK
    <2>2. ASSUME NEW asked \in BOOLEAN, ReadFails(c, asked) PROVE IInv'
      BY <2>2 DEF ReadFails, TypeOK
    <2>3. CASE DropFromHub(c)
      BY <2>3 DEF DropFromHub, TypeOK
    <2> QED
      BY <1>2, <2>1, <2>2, <2>3 DEF ClientStep
  <1>3. ASSUME NEW t \in Timers, TimerStep(t) PROVE IInv'
    <2>1. CASE Expire(t)
      BY <2>1 DEF Expire, TypeOK
    <2>2. CASE FinishSession(t)
      BY <2>2, StopTimer DEF FinishSession, TypeOK
    <2> QED
      BY <1>3, <2>1, <2>2 DEF TimerStep
  <1>4. ASSUME NEW p \in Procs, FinalizeStep(p) PROVE IInv'
    <2>1. CASE EndSessionFails(p)
      BY <2>1 DEF EndSessionFails, TypeOK
    <2>2. CASE MarkAllSlavesGone(p)
      BY <2>2 DEF MarkAllSlavesGone, TypeOK
    <2>3. CASE ReadActive(p)
      BY <2>3 DEF ReadActive, TypeOK
    <2>4. CASE DeleteSession(p)
      BY <2>4 DEF DeleteSession, TypeOK
    <2>5. CASE ResetSession(p)
      BY <2>5, StopTimer DEF ResetSession, TypeOK
    <2> QED
      BY <1>4, <2>1, <2>2, <2>3, <2>4, <2>5 DEF FinalizeStep
  <1>5. CASE Tick
    BY <1>5 DEF Tick
  <1>6. CASE Restart
    BY <1>6 DEF Restart
  <1>7. CASE UNCHANGED vars
    BY <1>7 DEF vars
  <1> QED
    BY <1>1, <1>2, <1>3, <1>4, <1>5, <1>6, <1>7 DEF Next

(* The invariant behind every theorem below. *)
LEMMA Invariant == Safe => []IInv
  BY IInvInit, IInvNext, PTL DEF Safe

------------------------------------------------------------------------------
(* What follows from it *)

(* tryBeginSessionConnection and handleConnectionClosed keep at most one   *)
(* /ws handler in the slot, and clientConnected tells whether there is one.*)
THEOREM OneOwner == Safe => []SingleOwner
  BY Invariant, PTL DEF IInv

(* finalizeSession never runs twice at once, and never beside a client.    *)
THEOREM OneFinalizer == Safe => []SingleFinalizer
  BY Invariant, PTL DEF IInv

(* The websocket hub only holds the client of the current session.         *)
THEOREM HubCurrent == Safe => []HubServesCurrentSession
  <1>1. IInv => HubServesCurrentSession
    BY DEF IInv, HubServesCurrentSession, Registered, Carried, Mine, TypeOK,
           SingleOwner, SingleFinalizer, Owner, OwnerPCs
  <1> QED
    BY <1>1, Invariant, PTL

(* The reserved slot always has a handler that will commit or abort it.    *)
THEOREM PendingHeld == Safe => []PendingIsHeld
  <1>1. IInv => PendingIsHeld
    BY DEF IInv, PendingIsHeld, Carried, New
  <1> QED
    BY <1>1, Invariant, PTL

(* An open session is the active session of Redis, with its keys, whatever *)
(* errors or restarts came before it.                                      *)
THEOREM Queryable == Safe => []OpenSessionQueryable
  BY Invariant, PTL DEF IInv, Keyed

(* A session without a client always has a handler, a timer or a callback  *)
(* left that will end it.                                                  *)
THEOREM NeverStranded == Safe => []InterruptedSessionHasEnder
  BY Invariant, PTL DEF IInv

(* DeleteSession only removes session:active when it still names the       *)
(* session being finalized, although it was read in an earlier request.    *)
THEOREM ActiveKey == Safe => ActiveKeyRemovedByItsOwner
  <1> DEFINE Kept == active # active' /\ active' = NoSession
                       => active = sessionID /\ sessionClosing
  <1>1. IInv /\ [Next]_vars => [Kept]_vars
    <2> SUFFICES ASSUME IInv, Next, active # active', active' = NoSession
                 PROVE  active = sessionID /\ sessionClosing
      BY DEF vars
    <2>1. PICK p \in Procs : DeleteSession(p)
      BY DEF Next, HandlerStep, ClientStep, TimerStep, FinalizeStep, redis,
             Upgrade, StartSession, CommitSession, AbortPendingSession, Join,
             Leave, ConnectionClosed, ArmTimer, TryBegin, Admitted, ReadFails,
             DropFromHub, Expire, FinishSession, EndSessionFails,
             MarkAllSlavesGone, ReadActive, ResetSession, Tick, Restart, IInv,
             TypeOK
    <2>2. pc[p] = "purging" /\ seesActive[p]
      BY <2>1 DEF DeleteSession, Goto
    <2> QED
      BY <2>1, <2>2 DEF IInv, Carried, Keyed, SingleFinalizer, Finalizer,
                        FinalizePCs
  <1> QED
    BY <1>1, Invariant, PTL DEF Safe, ActiveKeyRemovedByItsOwner

------------------------------------------------------------------------------
(* Refinement *)

(* The identifiers spent, as the abstract slot sees them. *)
LEMMA CommittingAlone ==
    ASSUME IInv, NEW c \in Conns, pc[c] = "committing"
    PROVE  {sess[d] : d \in {e \in Conns : pc[e] = "committing"}} = {sess[c]}
  BY DEF IInv, SingleOwner, Owner, OwnerPCs

(* Every step of the master service is a step of SessionLifecycle, or      *)
(* leaves the abstract slot as it is.                                      *)
LEMMA StepRefines == IInv /\ IInv' /\ [Next]_vars => [Lifecycle!Next]_(Lifecycle!vars)
  <1> SUFFICES ASSUME IInv, IInv', [Next]_vars
               PROVE  Lifecycle!Next \/ UNCHANGED Lifecycle!vars
    OBVIOUS
  <1> USE DEF IInv, SingleOwner, SingleFinalizer, Carried, Owner, Finalizer, Mine,
              New, Resumed, OwnerPCs, FinalizePCs, Goto, memory, redis, TypeOK,
              Lifecycle!vars
  <1>1. ASSUME NEW c \in Conns, HandlerStep(c)
        PROVE  Lifecycle!Next \/ UNCHANGED Lifecycle!vars
    <2>1. CASE Upgrade(c)
      BY <2>1 DEF Upgrade
    <2>2. CASE StartSession(c)
      BY <2>2 DEF StartSession, Lifecycle!Next, Lifecycle!Spoil
    <2>3. CASE CommitSession(c)
      <3>1. sess[c] \in Sessions /\ sess[c] \in used
        BY <2>3 DEF CommitSession, Keyed
      <3>2. {sess[d] : d \in {e \in Conns : pc[e] = "committing"}} = {sess[c]}
        BY <2>3, CommittingAlone DEF CommitSession
      <3>3. {sess'[d] : d \in {e \in Conns : pc'[e] = "committing"}} = {}
        BY <2>3 DEF CommitSession
      <3>4. sessionID = Pending /\ ~sessionClosing /\ clientConnected
        BY <2>3 DEF CommitSession
      <3>5. sessionID' = sess[c] /\ clientConnected' /\ ~sessionClosing'
            /\ used' = used
        BY <2>3 DEF CommitSession
      <3> QED
        BY <3>1, <3>2, <3>3, <3>4, <3>5 DEF Lifecycle!Next, Lifecycle!Open
    <2>4. CASE AbortPendingSession(c)
      BY <2>4 DEF AbortPendingSession, Lifecycle!Next, Lifecycle!Abandon
    <2>5. CASE Join(c)
      BY <2>5 DEF Join
    <2>6. CASE Leave(c)
      BY <2>6 DEF Leave
    <2>7. CASE ConnectionClosed(c)
      BY <2>7, StopTimer DEF ConnectionClosed, Lifecycle!Next, Lifecycle!Drop, Lifecycle!End
    <2>8. CASE ArmTimer(c)
      BY <2>8 DEF ArmTimer
    <2> QED
      BY <1>1, <2>1, <2>2, <2>3, <2>4, <2>5, <2>6, <2>7, <2>8 DEF HandlerStep
  <1>2. ASSUME NEW c \in Conns, ClientStep(c)
        PROVE  Lifecycle!Next \/ UNCHANGED Lifecycle!vars
    <2>1. CASE TryBegin(c)
      BY <2>1, StopTimer DEF TryBegin, Admitted, Lifecycle!Next, Lifecycle!Reserve,
                             Lifecycle!Resume
    <2>2. ASSUME NEW asked \in BOOLEAN, ReadFails(c, asked)
          PROVE  UNCHANGED Lifecycle!vars
      BY <2>2 DEF ReadFails
    <2>3. CASE DropFromHub(c)
      BY <2>3 DEF DropFromHub
    <2> QED
      BY <1>2, <2>1, <2>2, <2>3 DEF ClientStep
  <1>3. ASSUME NEW t \in Timers, TimerStep(t)
        PROVE  Lifecycle!Next \/ UNCHANGED Lifecycle!vars
    <2>1. CASE Expire(t)
      BY <2>1 DEF Expire
    <2>2. CASE FinishSession(t)
      BY <2>2, StopTimer DEF FinishSession, Lifecycle!Next, Lifecycle!End
    <2> QED
      BY <1>3, <2>1, <2>2 DEF TimerStep
  <1>4. ASSUME NEW p \in Procs, FinalizeStep(p)
        PROVE  Lifecycle!Next \/ UNCHANGED Lifecycle!vars
    <2>1. CASE EndSessionFails(p)
      BY <2>1 DEF EndSessionFails
    <2>2. CASE MarkAllSlavesGone(p)
      BY <2>2 DEF MarkAllSlavesGone
    <2>3. CASE ReadActive(p)
      BY <2>3 DEF ReadActive
    <2>4. CASE DeleteSession(p)
      BY <2>4 DEF DeleteSession
    <2>5. CASE ResetSession(p)
      BY <2>5, StopTimer DEF ResetSession, Lifecycle!Next, Lifecycle!Closed
    <2> QED
      BY <1>4, <2>1, <2>2, <2>3, <2>4, <2>5 DEF FinalizeStep
  <1>5. CASE Tick
    BY <1>5 DEF Tick
  <1>6. CASE Restart
    BY <1>6 DEF Restart, Lifecycle!Next, Lifecycle!Restart
  <1>7. CASE UNCHANGED vars
    BY <1>7 DEF vars
  <1> QED
    BY <1>1, <1>2, <1>3, <1>4, <1>5, <1>6, <1>7 DEF Next

(* The mutex, the timers and Redis implement the abstract session slot:    *)
(* the safety half of ImplementsLifecycle, for every value of the          *)
(* constants.                                                              *)
THEOREM Refinement == Safe => Lifecycle!Safe
  <1>1. Init => Lifecycle!Init
    BY DEF Init, Lifecycle!Init
  <1> QED
    BY <1>1, StepRefines, Invariant, PTL DEF Safe, Lifecycle!Safe
==============================================================================
