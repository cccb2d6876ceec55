---------------------------- MODULE MasterSession ----------------------------
(***************************************************************************)
(* The session slot of the master service                                  *)
(* (apps/master-service/cmd/server/main.go, with the session keys of       *)
(* libs/infra/redis/redis.go).                                             *)
(*                                                                         *)
(* Processes: one goroutine per /ws request (Conns) and one callback per   *)
(* time.AfterFunc timer (Timers).  A step is what a process does between   *)
(* taking and releasing masterServer.mu, or one request to Redis, so every *)
(* interleaving the mutex allows is a behaviour.  pc[p] names what process *)
(* p does next, sess[p] is the session identifier it carries.              *)
(*                                                                         *)
(* Bounds: Conns, Timers and Sessions are finite sets; a connection is     *)
(* admitted only while an identifier and enough timers remain (RoomLeft).  *)
(***************************************************************************)
EXTENDS Naturals, FiniteSets

CONSTANTS
    Conns,            \* handler goroutines of /ws, reused once finished
    Timers,           \* timers made by time.AfterFunc, reused once over
    Sessions,         \* session identifiers (uuid.NewString)
    NoSession,        \* sessionID ""
    Pending,          \* sessionID "pending"
    NoTimer,          \* sessionEndTimer nil
    Grace,            \* sessionDisconnectGracePeriod, in ticks
    RedisMayFail,     \* may a request to Redis return an error?
    MayRestart        \* may the process crash and start again?

ASSUME SessionAssumption ==
    /\ NoSession \notin Sessions
    /\ Pending \notin Sessions
    /\ NoSession # Pending
    /\ NoTimer \notin Timers
    /\ Conns \cap Timers = {}
    /\ Grace \in Nat
    /\ RedisMayFail \in BOOLEAN
    /\ MayRestart \in BOOLEAN

Procs == Conns \cup Timers

VARIABLES
    sessionID, sessionMeta, clientConnected, sessionClosing, sessionEndTimer,
    hub,              \* connections registered in the websocket hub
    pc, sess,
    explicit,         \* close code 4000 was read on the connection
    seesActive,       \* DeleteSession read its own id in session:active
    left,             \* ticks before an armed timer expires
    away,             \* ticks since the slot lost its client, at most Grace
    active,           \* Redis: session:active
    stored,           \* Redis: sessions with meta and metrics keys
    used              \* identifiers that ever reached Redis

memory == <<sessionID, sessionMeta, clientConnected, sessionClosing,
            sessionEndTimer>>
redis  == <<active, stored, used>>
vars   == <<memory, hub, pc, sess, explicit, seesActive, left, away, redis>>

OwnerPCs    == {"upgrading", "starting", "committing", "aborting", "joining",
                "serving", "leaving", "closed"}
FinalizePCs == {"marking", "deleting", "purging", "resetting"}
ConnPCs     == {"idle", "rearming"} \cup OwnerPCs \cup FinalizePCs
TimerPCs    == {"idle", "armed", "fired"} \cup FinalizePCs

(* Process p moves from one step of the code to another. *)
Goto(p, from, to) ==
    /\ pc[p] = from
    /\ pc' = [pc EXCEPT ![p] = to]

Init ==
    /\ sessionID = NoSession /\ sessionMeta = NoSession
    /\ clientConnected = FALSE /\ sessionClosing = FALSE
    /\ sessionEndTimer = NoTimer
    /\ hub = {}
    /\ pc = [p \in Procs |-> "idle"]
    /\ sess = [p \in Procs |-> NoSession]
    /\ explicit = [c \in Conns |-> FALSE]
    /\ seesActive = [p \in Procs |-> FALSE]
    /\ left = [t \in Timers |-> 0]
    /\ away = 0
    /\ active = NoSession /\ stored = {} /\ used = {}

------------------------------------------------------------------------------
(* Timers *)

(* pc after sessionEndTimer.Stop(): a timer that has not expired never     *)
(* will; Stop cannot recall a callback that already runs.                  *)
PcStopped ==
    IF sessionEndTimer # NoTimer /\ pc[sessionEndTimer] = "armed"
    THEN [pc EXCEPT ![sessionEndTimer] = "idle"]
    ELSE pc

(* An open session whose client is gone and which nobody ends yet. *)
Waiting == sessionID \in Sessions /\ ~clientConnected /\ ~sessionClosing

(* One tick of the clock: armed timers come closer to expiry, and an       *)
(* interrupted session has been without a client for longer.               *)
Tick ==
    /\ \/ \E t \in Timers : pc[t] = "armed" /\ left[t] > 0
       \/ Waiting /\ away < Grace
    /\ left' = [t \in Timers |-> IF pc[t] = "armed" /\ left[t] > 0
                               THEN left[t] - 1 ELSE 0]
    /\ away' = IF Waiting /\ away < Grace THEN away + 1 ELSE away
    /\ UNCHANGED <<memory, hub, pc, sess, explicit, seesActive, redis>>

(* The runtime starts the callback of an expired timer on a goroutine. *)
Expire(t) ==
    /\ left[t] = 0
    /\ Goto(t, "armed", "fired")
    /\ UNCHANGED <<memory, hub, sess, explicit, seesActive, left, away, redis>>

------------------------------------------------------------------------------
(* The /ws handler up to the message loop *)

(* Bound: an identifier for a new session, and a timer for every handler   *)
(* that may arm one.                                                       *)
RoomLeft ==
    /\ sessionID = NoSession => used # Sessions
    /\ Grace > 0 =>
         Cardinality({t \in Timers : pc[t] = "idle"})
           > Cardinality({c \in Conns : pc[c] # "idle"})

(* A client takes the slot: the running timer is stopped, and the session  *)
(* is resumed or, if there is none, its place reserved.                    *)
Admitted(c) ==
    /\ RoomLeft
    /\ pc[c] = "idle"
    /\ pc' = [PcStopped EXCEPT ![c] = "upgrading"]
    /\ sessionEndTimer' = NoTimer
    /\ clientConnected' = TRUE
    /\ sessionID' = IF sessionID = NoSession THEN Pending ELSE sessionID
    /\ sess' = [sess EXCEPT ![c] =
                  IF sessionID = NoSession THEN NoSession ELSE sessionMeta]
    /\ explicit' = [explicit EXCEPT ![c] = FALSE]
    /\ UNCHANGED <<sessionMeta, sessionClosing, hub, seesActive, left, away,
                   redis>>

(* Mutant: the slot is handed out while a client has it. *)
TryBegin_WhileConnected(c) == sessionID # Pending /\ ~sessionClosing /\ Admitted(c)

(* Mutant: a resuming client is not recorded as connected. *)
TryBegin_Unrecorded(c) ==
    /\ sessionID # Pending /\ ~clientConnected /\ ~sessionClosing
    /\ IF sessionID = NoSession
       THEN Admitted(c)
       ELSE /\ pc[c] = "idle"
            /\ pc' = [PcStopped EXCEPT ![c] = "upgrading"]
            /\ sessionEndTimer' = NoTimer
            /\ sess' = [sess EXCEPT ![c] = sessionMeta]
            /\ UNCHANGED <<sessionID, sessionMeta, clientConnected,
                           sessionClosing, hub, explicit, seesActive, left,
                           away, redis>>

(* tryBeginSessionConnection, the outcome in which the client is admitted; *)
(* a rejected one changes nothing.                                         *)
TryBegin(c) ==
    /\ sessionID # Pending /\ ~clientConnected /\ ~sessionClosing
    /\ Admitted(c)

Resumed(c) == sess[c] # NoSession

(* upgrader.Upgrade: the handshake succeeds or fails. *)
Upgrade(c) ==
    /\ \/ Goto(c, "upgrading", IF Resumed(c) THEN "joining" ELSE "starting")
       \/ Goto(c, "upgrading", IF Resumed(c) THEN "closed" ELSE "aborting")
    /\ UNCHANGED <<memory, hub, sess, explicit, seesActive, left, away, redis>>

(* startSession: CreateSession writes meta, metrics and session:active in  *)
(* one MULTI/EXEC.  With an error the transaction may have run or not.     *)
StartSession(c) ==
    /\ \/ \E s \in Sessions \ used :
            /\ \/ Goto(c, "starting", "committing")
                  /\ sess' = [sess EXCEPT ![c] = s]
               \/ RedisMayFail
                  /\ Goto(c, "starting", "aborting")
                  /\ UNCHANGED sess
            /\ active' = s
            /\ stored' = stored \cup {s}
            /\ used' = used \cup {s}
       \/ /\ RedisMayFail
          /\ Goto(c, "starting", "aborting")
          /\ UNCHANGED <<sess, redis>>
    /\ UNCHANGED <<memory, hub, explicit, seesActive, left, away>>

CommitSession(c) ==
    /\ Goto(c, "committing", "joining")
    /\ sessionID' = sess[c]
    /\ sessionMeta' = sess[c]
    /\ clientConnected' = TRUE
    /\ sessionClosing' = FALSE
    /\ UNCHANGED <<sessionEndTimer, hub, sess, explicit, seesActive, left,
                   away, redis>>

AbortPendingSession(c) ==
    /\ Goto(c, "aborting", "idle")
    /\ IF sessionID = Pending
       THEN /\ sessionID' = NoSession
            /\ sessionMeta' = NoSession
            /\ clientConnected' = FALSE
       ELSE UNCHANGED <<sessionID, sessionMeta, clientConnected>>
    /\ sess' = [sess EXCEPT ![c] = NoSession]
    /\ UNCHANGED <<sessionClosing, sessionEndTimer, hub, explicit, seesActive,
                   left, away, redis>>

------------------------------------------------------------------------------
(* The /ws handler from hub.add to the deferred close *)

Join(c) ==
    /\ Goto(c, "joining", "serving")
    /\ hub' = hub \cup {c}
    /\ UNCHANGED <<memory, sess, explicit, seesActive, left, away, redis>>

(* ReadMessage returns an error: a close frame with code 4000, any other   *)
(* close, a missed pong, or the connection closed by a failed write.       *)
ReadFails(c, asked) ==
    /\ Goto(c, "serving", "leaving")
    /\ explicit' = [explicit EXCEPT ![c] = asked]
    /\ UNCHANGED <<memory, hub, sess, seesActive, left, away, redis>>

(* hub.broadcast fails to write to a client and drops it from the hub. *)
DropFromHub(c) ==
    /\ c \in hub
    /\ hub' = hub \ {c}
    /\ UNCHANGED <<memory, pc, sess, explicit, seesActive, left, away, redis>>

(* Mutant: the connection stays registered. *)
Leave_KeepsRegistration(c) ==
    /\ Goto(c, "leaving", "closed")
    /\ UNCHANGED <<memory, hub, sess, explicit, seesActive, left, away, redis>>

Leave(c) ==
    /\ Goto(c, "leaving", "closed")
    /\ hub' = hub \ {c}
    /\ UNCHANGED <<memory, sess, explicit, seesActive, left, away, redis>>

(* Mutant: the close code is ignored. *)
ConnectionClosed_CodeIgnored(c) ==
    /\ Goto(c, "closed", "rearming")
    /\ clientConnected' = FALSE
    /\ sessionEndTimer' = NoTimer
    /\ away' = 0
    /\ UNCHANGED <<sessionID, sessionMeta, sessionClosing, hub, sess, explicit,
                   seesActive, left, redis>>

(* Mutant: the slot is freed before the session is taken down. *)
ConnectionClosed_FreesSlot(c) ==
    /\ Goto(c, "closed", "marking")
    /\ clientConnected' = FALSE
    /\ sessionID' = NoSession
    /\ away' = 0
    /\ UNCHANGED <<sessionMeta, sessionClosing, sessionEndTimer, hub, sess,
                   explicit, seesActive, left, redis>>

(* handleConnectionClosed, first lock section. *)
ConnectionClosed(c) ==
    /\ pc[c] = "closed"
    /\ IF sessionID # sess[c] \/ sessionClosing
       THEN /\ pc' = [pc EXCEPT ![c] = "idle"]
            /\ sess' = [sess EXCEPT ![c] = NoSession]
            /\ UNCHANGED <<memory, away>>
       ELSE /\ clientConnected' = FALSE
            /\ sessionEndTimer' = NoTimer
            /\ away' = 0
            /\ IF explicit[c] \/ Grace = 0
               THEN /\ sessionClosing' = TRUE
                    /\ pc' = [PcStopped EXCEPT ![c] = "marking"]
               ELSE /\ UNCHANGED sessionClosing
                    /\ pc' = [PcStopped EXCEPT ![c] = "rearming"]
            /\ UNCHANGED <<sessionID, sessionMeta, sess>>
    /\ UNCHANGED <<hub, explicit, seesActive, left, redis>>

(* handleConnectionClosed, second lock section: time.AfterFunc.  The timer *)
(* already in sessionEndTimer, if there is one, is not stopped.            *)
ArmTimer(c) ==
    /\ pc[c] = "rearming"
    /\ IF sessionID # sess[c] \/ sessionClosing \/ clientConnected
       THEN /\ pc' = [pc EXCEPT ![c] = "idle"]
            /\ sess' = [sess EXCEPT ![c] = NoSession]
            /\ UNCHANGED <<sessionEndTimer, left>>
       ELSE \E t \in Timers :
            /\ pc[t] = "idle"
            /\ pc' = [pc EXCEPT ![c] = "idle", ![t] = "armed"]
            /\ sess' = [sess EXCEPT ![c] = NoSession, ![t] = sess[c]]
            /\ left' = [left EXCEPT ![t] = Grace]
            /\ sessionEndTimer' = t
    /\ UNCHANGED <<sessionID, sessionMeta, clientConnected, sessionClosing,
                   hub, explicit, seesActive, away, redis>>

(* Mutant: a callback does not see that the session is being closed. *)
FinishSession_Reentrant(t) ==
    /\ Goto(t, "fired", IF sessionID # sess[t] \/ clientConnected
                        THEN "idle" ELSE "marking")
    /\ sessionClosing' = (sessionClosing \/ pc[t]' = "marking")
    /\ UNCHANGED <<sessionID, sessionMeta, clientConnected, sessionEndTimer, hub,
                   sess, explicit, seesActive, left, away, redis>>

(* finishSession, the timer's callback, up to the unlock. *)
FinishSession(t) ==
    /\ pc[t] = "fired"
    /\ IF sessionID # sess[t] \/ clientConnected \/ sessionClosing
       THEN /\ pc' = [pc EXCEPT ![t] = "idle"]
            /\ UNCHANGED <<sessionClosing, sessionEndTimer>>
       ELSE /\ sessionClosing' = TRUE
            /\ pc' = [PcStopped EXCEPT ![t] = "marking"]
            /\ sessionEndTimer' = NoTimer
    /\ UNCHANGED <<sessionID, sessionMeta, clientConnected, hub, sess,
                   explicit, seesActive, left, away, redis>>

------------------------------------------------------------------------------
(* finalizeSession, by a handler or by a timer's callback *)

(* An error anywhere in endSession is logged and the rest of it skipped. *)
EndSessionFails(p) ==
    /\ RedisMayFail
    /\ \E from \in {"marking", "deleting", "purging"} :
         Goto(p, from, "resetting")
    /\ UNCHANGED <<memory, hub, sess, explicit, seesActive, left, away, redis>>

(* markAllSlavesGone; its last step, UpdateSessionMetrics, needs the       *)
(* session's metrics key.                                                  *)
MarkAllSlavesGone(p) ==
    /\ Goto(p, "marking",
            IF sess[p] \in stored THEN "deleting" ELSE "resetting")
    /\ UNCHANGED <<memory, hub, sess, explicit, seesActive, left, away, redis>>

(* DeleteSession, the reads before its transaction. *)
ReadActive(p) ==
    /\ Goto(p, "deleting", "purging")
    /\ seesActive' = [seesActive EXCEPT ![p] = active = sess[p]]
    /\ UNCHANGED <<memory, hub, sess, explicit, left, away, redis>>

(* DeleteSession, the MULTI/EXEC. *)
DeleteSession(p) ==
    /\ Goto(p, "purging", "resetting")
    /\ active' = IF seesActive[p] THEN NoSession ELSE active
    /\ stored' = stored \ {sess[p]}
    /\ UNCHANGED <<memory, hub, sess, explicit, seesActive, left, away, used>>

(* Mutant: the closing flag is not lowered. *)
ResetSession_StaysClosing(p) ==
    /\ Goto(p, "resetting", "idle")
    /\ sessionID' = NoSession /\ sessionMeta' = NoSession
    /\ clientConnected' = FALSE
    /\ UNCHANGED <<sessionClosing, sessionEndTimer, hub, sess, explicit,
                   seesActive, left, away, redis>>

(* finalizeSession after endSession. *)
ResetSession(p) ==
    /\ pc[p] = "resetting"
    /\ pc' = [PcStopped EXCEPT ![p] = "idle"]
    /\ sessionEndTimer' = NoTimer
    /\ IF sessionID = sess[p]
       THEN sessionID' = NoSession /\ sessionMeta' = NoSession
       ELSE UNCHANGED <<sessionID, sessionMeta>>
    /\ clientConnected' = FALSE
    /\ sessionClosing' = FALSE
    /\ sess' = [sess EXCEPT ![p] = NoSession]
    /\ UNCHANGED <<hub, explicit, seesActive, left, away, redis>>

------------------------------------------------------------------------------
(* The process ends, by a crash or by main returning on SIGTERM, and a new *)
(* one starts: connections and timers are gone, Redis keeps its keys.      *)
Restart ==
    /\ MayRestart
    /\ sessionID' = NoSession /\ sessionMeta' = NoSession
    /\ clientConnected' = FALSE /\ sessionClosing' = FALSE
    /\ sessionEndTimer' = NoTimer
    /\ hub' = {}
    /\ pc' = [p \in Procs |-> "idle"]
    /\ sess' = [p \in Procs |-> NoSession]
    /\ UNCHANGED <<explicit, seesActive, left, away, redis>>

(* What a handler does without waiting for its client. *)
HandlerStep(c) ==
    \/ Upgrade(c) \/ StartSession(c) \/ CommitSession(c)
    \/ AbortPendingSession(c) \/ Join(c) \/ Leave(c)
    \/ ConnectionClosed(c) \/ ArmTimer(c)

FinalizeStep(p) ==
    \/ EndSessionFails(p) \/ MarkAllSlavesGone(p) \/ ReadActive(p)
    \/ DeleteSession(p) \/ ResetSession(p)

ClientStep(c) ==
    \/ TryBegin(c)
    \/ \E asked \in BOOLEAN : ReadFails(c, asked)
    \/ DropFromHub(c)

TimerStep(t) == Expire(t) \/ FinishSession(t)

Next ==
    \/ \E c \in Conns : HandlerStep(c) \/ ClientStep(c)
    \/ \E t \in Timers : TimerStep(t)
    \/ \E p \in Procs : FinalizeStep(p)
    \/ Tick
    \/ Restart

(* The Go scheduler runs every runnable goroutine, the mutex is handed on, *)
(* Redis requests time out, the clock advances.  Clients owe nothing.      *)
Fairness ==
    /\ \A c \in Conns : WF_vars(HandlerStep(c))
    /\ \A t \in Timers : WF_vars(TimerStep(t))
    /\ \A p \in Procs : WF_vars(FinalizeStep(p))
    /\ WF_vars(Tick)

Safe == Init /\ [][Next]_vars
Spec == Safe /\ Fairness

------------------------------------------------------------------------------
(* Properties *)

(* Types of the mutex-protected fields, of the processes' program counters *)
(* and of the Redis session keys.                                          *)
TypeOK ==
    /\ sessionID \in Sessions \cup {NoSession, Pending}
    /\ sessionMeta \in Sessions \cup {NoSession}
    /\ clientConnected \in BOOLEAN
    /\ sessionClosing \in BOOLEAN
    /\ sessionEndTimer \in Timers \cup {NoTimer}
    /\ hub \subseteq Conns
    /\ pc \in [Procs -> ConnPCs \cup TimerPCs]
    /\ \A c \in Conns : pc[c] \in ConnPCs
    /\ \A t \in Timers : pc[t] \in TimerPCs
    /\ sess \in [Procs -> Sessions \cup {NoSession}]
    /\ explicit \in [Conns -> BOOLEAN]
    /\ seesActive \in [Procs -> BOOLEAN]
    /\ left \in [Timers -> 0..Grace]
    /\ away \in 0..Grace
    /\ active \in Sessions \cup {NoSession}
    /\ stored \subseteq Sessions
    /\ used \subseteq Sessions

Owner(c)     == pc[c] \in OwnerPCs
Finalizer(p) == pc[p] \in FinalizePCs

(* clientConnected stands for exactly one /ws handler, however admissions, *)
(* failed upgrades, resumed and closing connections interleave.            *)
SingleOwner ==
    /\ \A c, d \in Conns : Owner(c) /\ Owner(d) => c = d
    /\ clientConnected <=> \E c \in Conns : Owner(c)

(* sessionClosing stands for exactly one run of finalizeSession, whether a *)
(* handler or one of several timers started it, and no client is admitted  *)
(* or served while it lasts.                                               *)
SingleFinalizer ==
    /\ \A p, q \in Procs : Finalizer(p) /\ Finalizer(q) => p = q
    /\ sessionClosing <=> \E p \in Procs : Finalizer(p)
    /\ ~(sessionClosing /\ clientConnected)

(* The hub, which has a mutex of its own, never holds a client of another  *)
(* session than the current one: state updates are broadcast to all of it. *)
HubServesCurrentSession ==
    \A c \in hub : sess[c] = sessionID /\ ~sessionClosing /\ Owner(c)

(* The reserved slot ("pending") is never left behind: a handler that will *)
(* commit or abort it is on its way.                                       *)
PendingIsHeld ==
    sessionID = Pending <=>
        \E c \in Conns : \/ pc[c] \in {"starting", "committing", "aborting"}
                         \/ (pc[c] = "upgrading" /\ ~Resumed(c))

(* A session that is open, its client connected or awaited, can be queried *)
(* in Redis, whatever failed and whichever session ended before it.        *)
OpenSessionQueryable ==
    sessionID \in Sessions /\ ~sessionClosing =>
        /\ active = sessionID
        /\ sessionID \in stored
        /\ sessionMeta = sessionID

(* A session without a client is never stranded: a handler about to arm    *)
(* the timer, an armed timer or a running callback will see to its end.    *)
InterruptedSessionHasEnder ==
    Waiting =>
        \E p \in Procs : sess[p] = sessionID /\ pc[p] \in {"rearming", "armed",
                                                         "fired"}

(* session:active is only ever removed by the finalization of the session  *)
(* it names: DeleteSession's read and its transaction are not atomic.      *)
ActiveKeyRemovedByItsOwner ==
    [][active # active' /\ active' = NoSession
         => active = sessionID /\ sessionClosing]_vars

(* An explicit disconnect (code 4000) ends its session. *)
ExplicitDisconnectEnds ==
    \A c \in Conns, s \in Sessions :
        pc[c] = "closed" /\ explicit[c] /\ sess[c] = s ~> sessionID # s

(* openspec/specs/session-lifecycle/spec.md: after an unexpected close     *)
(* the session is kept for the grace period; it is a timer that ends it,   *)
(* and only when no client has been there for that long.                   *)
GracePeriodKept ==
    [][\A t \in Timers : pc[t] = "fired" /\ Finalizer(t)' => away = Grace]_vars

(* The slot seen as the one of SessionLifecycle. *)
Lifecycle == INSTANCE SessionLifecycle WITH
    phase <- IF sessionClosing THEN "closing"
             ELSE IF sessionID = NoSession THEN "idle"
             ELSE IF sessionID = Pending THEN "starting"
             ELSE IF clientConnected THEN "active" ELSE "grace",
    session <- IF sessionID = Pending THEN NoSession ELSE sessionID,
    used <- used \ {sess[c] : c \in {d \in Conns : pc[d] = "committing"}}

(* The mutex, the timers and Redis together keep the lifecycle's promises, *)
(* fairness included.                                                      *)
ImplementsLifecycle == Lifecycle!Spec
=============================================================================
