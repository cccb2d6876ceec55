-------------------------- MODULE SessionLifecycle --------------------------
(***************************************************************************)
(* What the master service promises about gameplay sessions, with no       *)
(* goroutine, lock, timer or Redis in sight: there is one slot, a session  *)
(* is opened in it under an identifier never used before, it survives an   *)
(* interrupted connection until it is resumed or ended, and a new session  *)
(* waits until the previous one is entirely closed.                        *)
(***************************************************************************)
CONSTANTS
    Sessions,     \* the session identifiers (uuid.NewString)
    NoSession     \* sessionID ""

VARIABLES
    phase,        \* what the slot is doing
    session,      \* the session in the slot, if one is open
    used          \* identifiers that can never be opened again

vars == <<phase, session, used>>

Phases == {"idle", "starting", "active", "grace", "closing"}

TypeOK ==
    /\ phase \in Phases
    /\ session \in Sessions \cup {NoSession}
    /\ used \subseteq Sessions

Init ==
    /\ phase = "idle"
    /\ session = NoSession
    /\ used = {}

(* A client is admitted to an empty slot. *)
Reserve ==
    /\ phase = "idle"
    /\ phase' = "starting"
    /\ UNCHANGED <<session, used>>

(* The session of the admitted client becomes the current one. *)
Open(s) ==
    /\ phase = "starting"
    /\ s \notin used
    /\ phase' = "active"
    /\ session' = s
    /\ used' = used \cup {s}

(* An identifier is spent on a session that never opens. *)
Spoil(s) ==
    /\ phase = "starting"
    /\ used' = used \cup {s}
    /\ UNCHANGED <<phase, session>>

Abandon ==
    /\ phase = "starting"
    /\ phase' = "idle"
    /\ UNCHANGED <<session, used>>

(* The connection is lost: the session waits for its client. *)
Drop ==
    /\ phase = "active"
    /\ phase' = "grace"
    /\ UNCHANGED <<session, used>>

Resume ==
    /\ phase = "grace"
    /\ phase' = "active"
    /\ UNCHANGED <<session, used>>

(* An explicit end, or an interrupted session given up. *)
End ==
    /\ phase \in {"active", "grace"}
    /\ phase' = "closing"
    /\ UNCHANGED <<session, used>>

Closed ==
    /\ phase = "closing"
    /\ phase' = "idle"
    /\ session' = NoSession
    /\ UNCHANGED used

(* The service restarts: it remembers nothing of the slot. *)
Restart ==
    /\ phase' = "idle"
    /\ session' = NoSession
    /\ used \subseteq used'
    /\ used' \in SUBSET Sessions

Next ==
    \/ Reserve \/ Abandon \/ Drop \/ Resume \/ End \/ Closed \/ Restart
    \/ \E s \in Sessions : Open(s) \/ Spoil(s)

(* An admission is decided, a session nobody returns to is given up, and   *)
(* what is being closed gets closed.                                       *)
Fairness ==
    /\ WF_vars(Abandon \/ \E s \in Sessions : Open(s))
    /\ WF_vars(phase = "grace" /\ End)
    /\ WF_vars(Closed)

Safe == Init /\ [][Next]_vars
Spec == Safe /\ Fairness
=============================================================================
