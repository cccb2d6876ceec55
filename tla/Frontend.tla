------------------------------ MODULE Frontend ------------------------------
(***************************************************************************)
(* The browser client (apps/frontend-webxr/src/main.ts, store.ts, api.ts)  *)
(* with the master service it talks to.                                    *)
(*                                                                         *)
(* The browser runs one task at a time: an event handler, or the part of   *)
(* an async function between two awaits, is one step.  What interleaves    *)
(* are the player's clicks, the events of the sockets (old ones included), *)
(* the answers to the requests of a snapshot, the WebXR session and the    *)
(* server.  Sockets and calls of startSession are named by the value of    *)
(* connectionAttemptId that started them.                                  *)
(*                                                                         *)
(* A pod's state is its status, LIVE standing for every status but GONE    *)
(* (the client tells no others apart), and the number of the publication   *)
(* it stems from.  A GONE pod stays GONE on the server (module Backend     *)
(* shows when it does not).  The /internal/session and                     *)
(* /internal/session/metrics requests are one: both fail when no session   *)
(* is active, and the counters themselves are not kept here.               *)
(*                                                                         *)
(* A session is named by the socket whose handler created it.              *)
(*                                                                         *)
(* Bounds: MaxAttempts values of connectionAttemptId, MaxUpdates           *)
(* publications by the controller, Tries rounds of requests (40 in the     *)
(* code).                                                                  *)
(***************************************************************************)
EXTENDS Naturals, Sequences

CONSTANTS Pods, MaxAttempts, MaxUpdates, Tries

ASSUME FrontendAssumption ==
    /\ MaxAttempts \in Nat /\ MaxUpdates \in Nat
    /\ Tries \in Nat \ {0}

None     == 0                        \* no socket, no session
Attempts == 1 .. MaxAttempts
Absent   == [status |-> "absent", seq |-> 0]
NoPods   == [p \in Pods |-> Absent]
NoAnswer == [session |-> {}, states |-> {}]

VARIABLES
    \* main.ts
    connectionAttemptId, socket,
    pc,               \* where startSession of each attempt is
    answers,          \* answers of its snapshot requests, {} while awaited
    tries,            \* rounds of requests it made
    leaving,          \* disconnectSession awaits the end of WebXR
    \* store.ts
    phase, session, podsById, xrEliminatedPodIds,
    xr,               \* the WebXR session of scene.ts
    \* the sockets
    readyState,
    down, up,         \* messages on their way to the browser, to the server
    \* the master service
    handler,          \* the /ws handler of each socket
    client,           \* the socket that owns the session slot
    active,           \* the active session
    record, seq       \* the pods' states in Redis, publications so far

calls   == <<pc, answers, tries>>
store   == <<phase, session, podsById, xrEliminatedPodIds>>
server  == <<handler, client, active, record, seq>>
browser == <<connectionAttemptId, socket, calls, leaving, store, xr,
             readyState>>
vars    == <<browser, down, up, server>>

Init ==
    /\ connectionAttemptId = 0 /\ socket = None
    /\ pc = [a \in Attempts |-> "idle"]
    /\ answers = [a \in Attempts |-> NoAnswer]
    /\ tries = [a \in Attempts |-> 0]
    /\ leaving = FALSE
    /\ phase = "idle" /\ session = None
    /\ podsById = NoPods /\ xrEliminatedPodIds = {}
    /\ xr = "off"
    /\ readyState = [a \in Attempts |-> "none"]
    /\ down = [a \in Attempts |-> <<>>] /\ up = [a \in Attempts |-> <<>>]
    /\ handler = [a \in Attempts |-> "none"] /\ client = None
    /\ active = None /\ record = NoPods /\ seq = 0

----------------------------------------------------------------------------
(* The master service.                                                     *)

Open         == [type |-> "open"]
Close        == [type |-> "close"]
Explicit     == [type |-> "close4000"]
PodMsg(p, r) == [type |-> "pod", pod |-> p, state |-> r]

(* websocketHub.broadcast: connections in the hub get the state, in the    *)
(* order of publication.                                                   *)
Broadcast(m) ==
    down' = [a \in Attempts |-> IF handler[a] = "joined"
                                THEN Append(down[a], m) ELSE down[a]]

(* PublishSlaveState and the subscription of the master service.           *)
Publish(p, status) ==
    LET r == [status |-> status, seq |-> seq + 1]
    IN /\ seq' = seq + 1
       /\ record' = [record EXCEPT ![p] = r]
       /\ Broadcast(PodMsg(p, r))

(* A registration or an event changes a pod of the active session.         *)
PodChanges(p) ==
    /\ active # None /\ seq < MaxUpdates /\ record[p].status # "GONE"
    /\ \E status \in {"LIVE", "GONE"} :
           /\ record[p] = Absent => status = "LIVE"
           /\ Publish(p, status)
    /\ UNCHANGED <<browser, up, handler, client, active>>

Upgrade(a) ==
    /\ handler[a] = "asked" /\ client = None
    /\ handler' = [handler EXCEPT ![a] = "upgraded"]
    /\ client' = a
    /\ down' = [down EXCEPT ![a] = Append(@, Open)]
    /\ UNCHANGED <<browser, up, active, record, seq>>

(* The slot is taken (409) or the server cannot be reached.                *)
Refuse(a) ==
    /\ handler[a] = "asked"
    /\ handler' = [handler EXCEPT ![a] = "left"]
    /\ down' = [down EXCEPT ![a] = Append(@, Close)]
    /\ UNCHANGED <<browser, up, client, active, record, seq>>

(* The handler resumes the session or creates one, and joins the hub.      *)
Join(a) ==
    /\ handler[a] = "upgraded"
    /\ handler' = [handler EXCEPT ![a] = "joined"]
    /\ active' = IF active = None THEN a ELSE active
    /\ UNCHANGED <<browser, down, up, client, record, seq>>

(* startSession of the server fails: the connection is closed.             *)
CreateFails(a) ==
    /\ handler[a] = "upgraded" /\ active = None
    /\ handler' = [handler EXCEPT ![a] = "left"]
    /\ client' = None
    /\ down' = [down EXCEPT ![a] = Append(@, Close)]
    /\ up' = [up EXCEPT ![a] = <<>>]
    /\ UNCHANGED <<browser, active, record, seq>>

(* handlePodStateUpdate: a report of another session, or of a pod that has *)
(* no record, is refused.                                                  *)
ReadReport(a) ==
    /\ handler[a] = "joined" /\ up[a] # <<>> /\ Head(up[a]).type = "gone"
    /\ LET m == Head(up[a]) IN
       IF m.session = active /\ record[m.pod] # Absent
       THEN Publish(m.pod, "GONE")
       ELSE UNCHANGED <<record, seq, down>>
    /\ up' = [up EXCEPT ![a] = Tail(@)]
    /\ UNCHANGED <<browser, handler, client, active>>

EndSession == active' = None /\ record' = NoPods

(* The close frame: code 4000 ends the session, any other starts its grace *)
(* period.                                                                 *)
ReadClose(a) ==
    /\ handler[a] = "joined" /\ up[a] # <<>>
    /\ \/ Head(up[a]) = Close /\ UNCHANGED <<active, record>>
       \/ Head(up[a]) = Explicit /\ EndSession
    /\ handler' = [handler EXCEPT ![a] = "left"]
    /\ client' = None
    /\ up' = [up EXCEPT ![a] = <<>>]
    /\ down' = [down EXCEPT ![a] = Append(@, Close)]
    /\ UNCHANGED <<browser, seq>>

(* The connection breaks: what was under way is lost, all of it or a       *)
(* suffix; the browser learns of it before the server, or after.           *)
Break(a) ==
    /\ handler[a] = "joined"
    /\ handler' = [handler EXCEPT ![a] = "broken"]
    /\ \E n \in 0 .. Len(down[a]) :
           down' = [down EXCEPT ![a] = Append(SubSeq(@, 1, n), Close)]
    /\ up' = [up EXCEPT ![a] = <<>>]
    /\ UNCHANGED <<browser, client, active, record, seq>>

ServerNotices(a) ==
    /\ handler[a] = "broken"
    /\ handler' = [handler EXCEPT ![a] = "left"]
    /\ client' = None
    /\ UNCHANGED <<browser, up, down, active, record, seq>>

GraceExpires ==
    /\ active # None /\ client = None
    /\ EndSession
    /\ UNCHANGED <<browser, down, up, handler, client, seq>>

----------------------------------------------------------------------------
(* The sockets as the browser sees them.                                   *)

(* socket.close() and socket.send() on an open socket; nothing otherwise.  *)
(* What is sent over a connection that broke gets nowhere.                 *)
IsOpen(s)  == s # None /\ readyState[s] = "open"
Closing(s) == IF IsOpen(s) THEN [readyState EXCEPT ![s] = "closing"]
              ELSE readyState
Send(s, m) == IF IsOpen(s) /\ handler[s] \in {"upgraded", "joined"}
              THEN [up EXCEPT ![s] = Append(@, m)] ELSE up

(* startSession of attempt a is over.                                      *)
Settled(a) ==
    /\ pc' = [pc EXCEPT ![a] = "done"]
    /\ answers' = [answers EXCEPT ![a] = NoAnswer]
    /\ tries' = [tries EXCEPT ![a] = 0]

(* The catch block of startSession, entered by attempt a.                  *)
AttemptFails(a) ==
    /\ Settled(a)
    /\ IF a = connectionAttemptId
       THEN /\ up' = Send(socket, Close)
            /\ socket' = None
            /\ phase' = "error"
       ELSE UNCHANGED <<up, socket, phase>>

----------------------------------------------------------------------------
(* The player.                                                             *)

(* store.resetToDisconnected, prepareSessionInitialization.               *)
ResetStore ==
    /\ session' = None
    /\ podsById' = NoPods
    /\ xrEliminatedPodIds' = {}

(* startSession up to its first await; the start screen is hidden while    *)
(* playing.                                                                *)
StartSession ==
    /\ phase \in {"idle", "error"} /\ ~IsOpen(socket)
    /\ connectionAttemptId < MaxAttempts
    /\ connectionAttemptId' = connectionAttemptId + 1
    /\ LET a == connectionAttemptId + 1 IN
       /\ pc' = [pc EXCEPT ![a] = "opening"]
       /\ readyState' = [readyState EXCEPT ![a] = "connecting"]
       /\ handler' = [handler EXCEPT ![a] = "asked"]
    /\ phase' = "connecting"
    /\ ResetStore
    /\ UNCHANGED <<socket, answers, tries, leaving, xr, down, up, client,
                   active, record, seq>>

(* disconnectSession from its await on.                             *)
FinishDisconnect ==
    /\ readyState' = Closing(socket)
    /\ up' = Send(socket, Explicit)
    /\ socket' = None
    /\ phase' = "idle"
    /\ ResetStore

(* The Disconnect button is hidden unless playing; the one of the wrist    *)
(* HUD works as long as WebXR does.  Ending a WebXR session that is being  *)
(* ended already rejects, and disconnectSession goes no further.           *)
DisconnectSession ==
    /\ phase = "playing" \/ xr = "on"
    /\ connectionAttemptId < MaxAttempts
    /\ connectionAttemptId' = connectionAttemptId + 1
    /\ \/ /\ xr \in {"off", "entering"}
          /\ FinishDisconnect
          /\ UNCHANGED <<leaving, xr>>
       \/ /\ xr = "on"
          /\ leaving' = TRUE
          /\ xr' = "ending"
          /\ UNCHANGED <<readyState, up, socket, store>>
       \/ /\ xr = "ending"
          /\ UNCHANGED <<readyState, up, socket, store, leaving, xr>>
    /\ UNCHANGED <<calls, down, server>>

(* Mutant: the pod leaves the board and no message is sent.                *)
ReportPodGone_Unsent(p) ==
    /\ podsById[p].status = "LIVE" /\ p \notin xrEliminatedPodIds
    /\ session # None /\ socket # None
    /\ podsById' = [podsById EXCEPT ![p].status = "GONE"]
    /\ xrEliminatedPodIds' = xrEliminatedPodIds \cup {p}
    /\ UNCHANGED <<connectionAttemptId, socket, calls, leaving, phase,
                   session, xr, readyState, down, up, server>>

(* reportPodGone, called once for each pod of the board that falls or is   *)
(* crushed; it does nothing without a session or a socket.  The pod is     *)
(* taken off the board before the message is sent.                         *)
ReportPodGone(p) ==
    /\ podsById[p].status = "LIVE" /\ p \notin xrEliminatedPodIds
    /\ session # None /\ socket # None
    /\ podsById' = [podsById EXCEPT ![p].status = "GONE"]
    /\ xrEliminatedPodIds' = xrEliminatedPodIds \cup {p}
    /\ up' = Send(socket, [type |-> "gone", session |-> session, pod |-> p])
    /\ UNCHANGED <<connectionAttemptId, socket, calls, leaving, phase,
                   session, xr, readyState, down, server>>

EnterXR ==
    /\ phase = "playing" /\ xr = "off"
    /\ xr' = "entering"
    /\ UNCHANGED <<connectionAttemptId, socket, calls, leaving, store,
                   readyState, down, up, server>>

(* The headset grants the session or refuses it, whatever happened since;  *)
(* a session ends by itself, or because exitXR asked for it: then the      *)
(* disconnectSession that waits goes on.                                   *)
XRAnswers ==
    /\ xr = "entering"
    /\ xr' \in {"on", "off"}
    /\ UNCHANGED <<connectionAttemptId, socket, calls, leaving, store,
                   readyState, down, up, server>>

XREnds ==
    /\ xr \in {"on", "ending"}
    /\ xr' = "off"
    /\ leaving' = FALSE
    /\ IF leaving
       THEN FinishDisconnect
       ELSE UNCHANGED <<readyState, up, socket, store>>
    /\ UNCHANGED <<connectionAttemptId, calls, down, server>>

----------------------------------------------------------------------------
(* Events of the sockets.                                                  *)

Event(a, type) == down[a] # <<>> /\ Head(down[a]).type = type
Taken(a)       == down' = [down EXCEPT ![a] = Tail(@)]

(* Mutant: the socket of an attempt given up is kept.                      *)
OnOpen_Kept(a) ==
    /\ Event(a, "open") /\ Taken(a)
    /\ readyState' = [readyState EXCEPT ![a] = "open"]
    /\ \/ /\ a = connectionAttemptId
          /\ socket' = a
          /\ pc' = [pc EXCEPT ![a] = "snapshot"]
          /\ UNCHANGED <<answers, tries>>
       \/ /\ a # connectionAttemptId
          /\ Settled(a)
          /\ UNCHANGED socket
    /\ UNCHANGED <<connectionAttemptId, leaving, store, xr, up, server>>

(* onOpen; the await of openSocket ends at once and the snapshot is asked  *)
(* for.  A socket of an attempt given up is closed, with no code.          *)
OnOpen(a) ==
    /\ Event(a, "open") /\ Taken(a)
    /\ \/ /\ a = connectionAttemptId
          /\ socket' = a
          /\ readyState' = [readyState EXCEPT ![a] = "open"]
          /\ pc' = [pc EXCEPT ![a] = "snapshot"]
          /\ UNCHANGED <<up, answers, tries>>
       \/ /\ a # connectionAttemptId
          /\ readyState' = [readyState EXCEPT ![a] = "closing"]
          /\ up' = IF handler[a] \in {"upgraded", "joined"}
                   THEN [up EXCEPT ![a] = Append(@, Close)] ELSE up
          /\ Settled(a)
          /\ UNCHANGED socket
    /\ UNCHANGED <<connectionAttemptId, leaving, store, xr, server>>

(* upsertPod: a pod taken off the board returns if the state it had is     *)
(* GONE and the new one was not observed earlier; the first time is the    *)
(* browser's clock, the second the server's.                               *)
UpsertPod(p, r) ==
    /\ podsById' = [podsById EXCEPT ![p] = r]
    /\ \/ UNCHANGED xrEliminatedPodIds
       \/ /\ podsById[p].status = "GONE" /\ r.status # "GONE"
          /\ xrEliminatedPodIds' = xrEliminatedPodIds \ {p}

OnMessage(a) ==
    /\ Event(a, "pod") /\ Taken(a)
    /\ LET m == Head(down[a]) IN
       IF readyState[a] = "open" /\ a = connectionAttemptId /\ socket = a
       THEN UpsertPod(m.pod, m.state)
       ELSE UNCHANGED <<podsById, xrEliminatedPodIds>>
    /\ UNCHANGED <<connectionAttemptId, socket, calls, leaving, phase,
                   session, xr, readyState, up, server>>

(* Mutant: the attempt is not told.                                        *)
OnCloseUnopened_Ignored(a) ==
    /\ Event(a, "close") /\ Taken(a)
    /\ readyState[a] = "connecting"
    /\ readyState' = [readyState EXCEPT ![a] = "closed"]
    /\ UNCHANGED <<connectionAttemptId, socket, calls, leaving, store, xr,
                   up, server>>

(* onClose before the socket opened (onError, which comes first, rejects   *)
(* the attempt in the same way).                                           *)
OnCloseUnopened(a) ==
    /\ Event(a, "close") /\ Taken(a)
    /\ readyState[a] = "connecting"
    /\ readyState' = [Closing(IF a = connectionAttemptId THEN socket ELSE None)
                      EXCEPT ![a] = "closed"]
    /\ IF a = connectionAttemptId
       THEN AttemptFails(a)
       ELSE UNCHANGED <<calls, up, socket, phase>>
    /\ UNCHANGED <<connectionAttemptId, leaving, session, podsById,
                   xrEliminatedPodIds, xr, server>>

(* onClose of a socket that had opened: the one in use, of the current     *)
(* attempt, resets the client.  connectionAttemptId stays as it is.        *)
OnClose(a) ==
    /\ Event(a, "close") /\ Taken(a)
    /\ readyState[a] # "connecting"
    /\ readyState' = [readyState EXCEPT ![a] = "closed"]
    /\ IF a = connectionAttemptId /\ socket = a
       THEN /\ socket' = None
            /\ phase' = "idle"
            /\ ResetStore
            /\ xr' = IF xr = "on" THEN "ending" ELSE xr
       ELSE UNCHANGED <<socket, store, xr>>
    /\ UNCHANGED <<connectionAttemptId, calls, leaving, up, server>>

----------------------------------------------------------------------------
(* waitForSessionSnapshot: the requests of a round are answered by the     *)
(* server one by one, each from what it then finds.                        *)

AnswerSession(a) ==
    /\ pc[a] = "snapshot" /\ answers[a].session = {}
    /\ active # None
    /\ answers' = [answers EXCEPT ![a].session = {active}]
    /\ UNCHANGED <<connectionAttemptId, socket, pc, tries, leaving, store,
                   xr, readyState, down, up, server>>

(* The list is empty, and no error, when no session is active.             *)
AnswerStates(a) ==
    /\ pc[a] = "snapshot" /\ answers[a].states = {}
    /\ answers' = [answers EXCEPT ![a].states = {record}]
    /\ UNCHANGED <<connectionAttemptId, socket, pc, tries, leaving, store,
                   xr, readyState, down, up, server>>

(* A request fails: the round is over, and so are the rounds after Tries.  *)
RequestFails(a) ==
    /\ pc[a] = "snapshot"
    /\ answers[a].session = {} \/ answers[a].states = {}
    /\ \/ /\ tries[a] + 1 < Tries
          /\ tries' = [tries EXCEPT ![a] = @ + 1]
          /\ answers' = [answers EXCEPT ![a] = NoAnswer]
          /\ UNCHANGED <<pc, readyState, up, socket, phase>>
       \/ /\ tries[a] + 1 = Tries
          /\ AttemptFails(a)
          /\ readyState' = IF a = connectionAttemptId THEN Closing(socket)
                           ELSE readyState
    /\ UNCHANGED <<connectionAttemptId, leaving, session, podsById,
                   xrEliminatedPodIds, xr, down, server>>

(* Mutant: the attempt is not compared.                                    *)
SnapshotArrives_Unchecked(a) ==
    /\ pc[a] = "snapshot"
    /\ Settled(a)
    /\ \E s \in answers[a].session, states \in answers[a].states :
           /\ phase' = "playing"
           /\ session' = s
           /\ podsById' = states
           /\ xrEliminatedPodIds' = {}
    /\ UNCHANGED <<connectionAttemptId, socket, leaving, xr,
                   readyState, down, up, server>>

(* hydrateSnapshot, unless another attempt was begun.                      *)
SnapshotArrives(a) ==
    /\ pc[a] = "snapshot"
    /\ Settled(a)
    /\ \E s \in answers[a].session, states \in answers[a].states :
           IF a = connectionAttemptId
           THEN /\ phase' = "playing"
                /\ session' = s
                /\ podsById' = states
                /\ xrEliminatedPodIds' = {}
           ELSE UNCHANGED <<store>>
    /\ UNCHANGED <<connectionAttemptId, socket, leaving, xr,
                   readyState, down, up, server>>

----------------------------------------------------------------------------
Service(a) == \/ Upgrade(a) \/ Refuse(a) \/ Join(a) \/ CreateFails(a)
              \/ ReadReport(a) \/ ReadClose(a) \/ ServerNotices(a)

Task(a) == \/ OnOpen(a) \/ OnMessage(a) \/ OnCloseUnopened(a) \/ OnClose(a)
           \/ SnapshotArrives(a)

Answer(a) == AnswerSession(a) \/ AnswerStates(a) \/ RequestFails(a)

Player == \/ StartSession \/ DisconnectSession \/ EnterXR
          \/ \E p \in Pods : ReportPodGone(p)

Next ==
    \/ Player \/ XRAnswers \/ XREnds \/ GraceExpires
    \/ \E p \in Pods : PodChanges(p)
    \/ \E a \in Attempts : Service(a) \/ Task(a) \/ Answer(a) \/ Break(a)

Spec == Init /\ [][Next]_vars

----------------------------------------------------------------------------
(* Properties.                                                             *)

Ids      == {None} \cup Attempts
Existing == [status : {"LIVE", "GONE"}, seq : Nat]
States   == {Absent} \cup Existing

DownMessages == {Open, Close} \cup [type : {"pod"}, pod : Pods,
                                    state : Existing]
UpMessages   == {Close, Explicit} \cup [type : {"gone"}, session : Ids,
                                        pod : Pods]

(* Every variable has its type, and only pods the store knows are taken    *)
(* off the board.                                                          *)
TypeOK ==
    /\ connectionAttemptId \in Ids
    /\ socket \in Ids
    /\ pc \in [Attempts -> {"idle", "opening", "snapshot", "done"}]
    /\ answers \in [Attempts -> [session : SUBSET Attempts,
                                 states : SUBSET [Pods -> States]]]
    /\ tries \in [Attempts -> 0 .. Tries]
    /\ leaving \in BOOLEAN
    /\ phase \in {"idle", "connecting", "playing", "error"}
    /\ session \in Ids
    /\ podsById \in [Pods -> States]
    /\ xrEliminatedPodIds \subseteq {p \in Pods : podsById[p] # Absent}
    /\ xr \in {"off", "entering", "on", "ending"}
    /\ readyState \in [Attempts -> {"none", "connecting", "open", "closing",
                                    "closed"}]
    /\ down \in [Attempts -> Seq(DownMessages)]
    /\ up \in [Attempts -> Seq(UpMessages)]
    /\ handler \in [Attempts -> {"none", "asked", "upgraded", "joined",
                                 "broken", "left"}]
    /\ client \in Ids
    /\ active \in Ids
    /\ record \in [Pods -> States]
    /\ seq \in Nat

(* The client keeps no open socket but the one it holds: a socket of an    *)
(* attempt that was given up, failed or was disconnected is being closed   *)
(* (main.ts:367, 393, 444 and 462), or the server would refuse the next.   *)
OneOpenSocket ==
    \A a \in Attempts : readyState[a] = "open" => socket = a

(* While the server serves the socket that the client plays on, the client *)
(* shows the session the server has for it: the reports it sends are never *)
(* refused with "session mismatch" (main.go:493), although the session was *)
(* fetched by requests of their own, maybe of an older attempt.            *)
SessionIsServed ==
    (phase = "playing" /\ socket # None /\ handler[socket] = "joined")
        => session = active

Quiet(a) == handler[a] = "joined" /\ down[a] = <<>> /\ up[a] = <<>>

(* A pod taken off the board before its death was acknowledged is gone on  *)
(* the server too once all messages are delivered: it is not hidden from   *)
(* the player while it lives (main.ts:599).                                *)
EliminatedIsGone ==
    (phase = "playing" /\ socket = connectionAttemptId /\ IsOpen(socket)
        /\ Quiet(socket))
        => \A p \in xrEliminatedPodIds : record[p].status = "GONE"

(* A client that is connecting does not wait for nothing: a call of        *)
(* disconnectSession is about to reset it, or the current attempt makes    *)
(* requests, or its socket's first event is still to come.  The player can *)
(* start again in no other phase (main.ts:352).                            *)
ConnectingHasEnder ==
    phase = "connecting" =>
        \/ leaving /\ xr = "ending"
        \/ pc[connectionAttemptId] = "snapshot"
        \/ /\ pc[connectionAttemptId] = "opening"
           /\ \/ handler[connectionAttemptId] = "asked"
              \/ down[connectionAttemptId] # <<>>

(* Does not hold (main.ts:376 and 496).  "WHEN the frontend determines     *)
(* that a Pod is gone because it was crushed or fell THEN the frontend     *)
(* sends the Pod state update over the gameplay WebSocket"                 *)
(* (openspec/specs/playable-frontend/spec.md:93): a client that plays has  *)
(* a socket to send it over.  A socket that closes while the snapshot is   *)
(* under way leaves the attempt current, and the snapshot still starts the *)
(* game.                                                                   *)
PlayingIsConnected == phase = "playing" => socket # None
=============================================================================
