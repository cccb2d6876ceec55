--------------------------- MODULE FrontendProofs ---------------------------
(***************************************************************************)
(* The browser client, for every number of pods, attempts and rounds: type *)
(* correctness, the one open socket, that a connecting client waits for    *)
(* something, and that what it plays is in accord with the server.         *)
(***************************************************************************)
EXTENDS Frontend, TLAPS

USE FrontendAssumption DEF None, Ids, Attempts

----------------------------------------------------------------------------
(* The inductive invariant.                                                *)

(* Attempts not begun have left no trace. *)
Fresh(a) ==
    a > connectionAttemptId =>
        /\ readyState[a] = "none" /\ handler[a] = "none"
        /\ down[a] = <<>> /\ pc[a] = "idle"

(* A socket the server has not answered is connecting. *)
AskedFirst(a) ==
    handler[a] = "asked" => readyState[a] = "connecting" /\ down[a] = <<>>

(* An open event is the first event of a socket. *)
OpenFirst(a) ==
    \A i \in 1 .. Len(down[a]) :
        down[a][i].type = "open" => i = 1 /\ readyState[a] = "connecting"

(* A connecting socket the server has answered is about to open or close. *)
Awaited(a) ==
    (readyState[a] = "connecting" /\ handler[a] # "asked") =>
        down[a] # <<>> /\ down[a][1].type \in {"open", "close"}

Sockets == \A a \in Attempts :
               Fresh(a) /\ AskedFirst(a) /\ OpenFirst(a) /\ Awaited(a)

(* While the current attempt's socket is connecting, none is open. *)
Alone ==
    (connectionAttemptId # None
        /\ readyState[connectionAttemptId] = "connecting") => ~IsOpen(socket)

(* The current attempt waits for its socket only while that is connecting. *)
Opening ==
    (connectionAttemptId # None /\ pc[connectionAttemptId] = "opening") =>
        readyState[connectionAttemptId] = "connecting"

(* A connecting client has a current attempt under way, or is leaving. *)
UnderWay ==
    phase = "connecting" =>
        \/ leaving
        \/ /\ connectionAttemptId # None
           /\ pc[connectionAttemptId] \in {"opening", "snapshot"}

(* disconnectSession waits for a WebXR session that is ending. *)
LeavingEnds == leaving => xr = "ending"

Client == OneOpenSocket /\ Alone /\ Opening /\ UnderWay /\ LeavingEnds

IInv == TypeOK /\ Sockets /\ Client

----------------------------------------------------------------------------
(* Sequences.                                                              *)

(* A message is added at the end. *)
LEMMA Pushed ==
    ASSUME NEW S, NEW q \in Seq(S), NEW m \in S
    PROVE  /\ Append(q, m) \in Seq(S)
           /\ Len(Append(q, m)) = Len(q) + 1 /\ Len(q) \in Nat
           /\ Append(q, m) # <<>>
           /\ \A i \in 1 .. Len(q) : Append(q, m)[i] = q[i]
           /\ Append(q, m)[Len(q) + 1] = m
  OBVIOUS

(* The first message is taken. *)
LEMMA Popped ==
    ASSUME NEW S, NEW q \in Seq(S), q # <<>>
    PROVE  /\ Tail(q) \in Seq(S)
           /\ Len(Tail(q)) = Len(q) - 1 /\ Len(q) \in Nat \ {0}
           /\ Head(q) = q[1] /\ q[1] \in S
           /\ \A i \in 1 .. Len(Tail(q)) : Tail(q)[i] = q[i + 1]
  OBVIOUS

(* A beginning of the sequence is kept, and a message added. *)
LEMMA CutOff ==
    ASSUME NEW S, NEW q \in Seq(S), NEW m \in S, NEW n \in 0 .. Len(q)
    PROVE  /\ Append(SubSeq(q, 1, n), m) \in Seq(S)
           /\ Len(Append(SubSeq(q, 1, n), m)) = n + 1
           /\ Append(SubSeq(q, 1, n), m) # <<>>
           /\ \A i \in 1 .. n : Append(SubSeq(q, 1, n), m)[i] = q[i]
           /\ Append(SubSeq(q, 1, n), m)[n + 1] = m
  OBVIOUS

----------------------------------------------------------------------------
(* Types.                                                                  *)

(* The messages are messages. *)
LEMMA MessageTypes ==
    /\ Open \in DownMessages /\ Close \in DownMessages
    /\ \A p \in Pods, r \in Existing : PodMsg(p, r) \in DownMessages
    /\ \A m \in DownMessages : m.type = "pod" =>
           m.pod \in Pods /\ m.state \in Existing
    /\ Close \in UpMessages /\ Explicit \in UpMessages
    /\ \A p \in Pods, s \in Ids :
           [type |-> "gone", session |-> s, pod |-> p] \in UpMessages
    /\ \A m \in UpMessages : m.type = "gone" => m.pod \in Pods
  BY DEF DownMessages, UpMessages, Open, Close, Explicit, PodMsg

(* A publication leaves records, messages and their number well typed. *)
LEMMA PublishType ==
    ASSUME TypeOK, NEW p \in Pods, NEW status \in {"LIVE", "GONE"},
           Publish(p, status)
    PROVE  /\ record' \in [Pods -> States] /\ seq' \in Nat
           /\ down' \in [Attempts -> Seq(DownMessages)]
  <1> DEFINE r == [status |-> status, seq |-> seq + 1]
  <1>1. r \in Existing /\ seq' \in Nat
    BY DEF TypeOK, Publish, Existing
  <1>2. record' \in [Pods -> States]
    BY <1>1 DEF TypeOK, Publish, States
  <1>3. PodMsg(p, r) \in DownMessages
    BY <1>1, MessageTypes
  <1>4. \A a \in Attempts : Append(down[a], PodMsg(p, r)) \in Seq(DownMessages)
    BY <1>3, Pushed DEF TypeOK
  <1>5. down' \in [Attempts -> Seq(DownMessages)]
    BY <1>4 DEF TypeOK, Publish, Broadcast
  <1> QED
    BY <1>1, <1>2, <1>5

(* Messages that are added, taken or lost leave the queues well typed. *)
LEMMA QueueTypes ==
    ASSUME TypeOK, NEW a \in Attempts
    PROVE  /\ \A m \in DownMessages :
                  [down EXCEPT ![a] = Append(@, m)]
                      \in [Attempts -> Seq(DownMessages)]
           /\ \A m \in DownMessages : \A n \in 0 .. Len(down[a]) :
                  [down EXCEPT ![a] = Append(SubSeq(@, 1, n), m)]
                      \in [Attempts -> Seq(DownMessages)]
           /\ down[a] # <<>> =>
                  /\ [down EXCEPT ![a] = Tail(@)]
                         \in [Attempts -> Seq(DownMessages)]
                  /\ Head(down[a]) \in DownMessages
           /\ \A m \in UpMessages :
                  [up EXCEPT ![a] = Append(@, m)] \in [Attempts -> Seq(UpMessages)]
           /\ up[a] # <<>> =>
                  /\ [up EXCEPT ![a] = Tail(@)] \in [Attempts -> Seq(UpMessages)]
                  /\ Head(up[a]) \in UpMessages
           /\ [up EXCEPT ![a] = <<>>] \in [Attempts -> Seq(UpMessages)]
  <1>1. /\ down \in [Attempts -> Seq(DownMessages)]
        /\ up \in [Attempts -> Seq(UpMessages)]
    BY DEF TypeOK
  <1>2. ASSUME NEW m \in DownMessages
        PROVE  [down EXCEPT ![a] = Append(@, m)]
                   \in [Attempts -> Seq(DownMessages)]
    BY <1>1, Pushed
  <1>3. ASSUME NEW m \in DownMessages, NEW n \in 0 .. Len(down[a])
        PROVE  [down EXCEPT ![a] = Append(SubSeq(@, 1, n), m)]
                   \in [Attempts -> Seq(DownMessages)]
    BY <1>1, CutOff
  <1>4. ASSUME down[a] # <<>>
        PROVE  /\ [down EXCEPT ![a] = Tail(@)]
                      \in [Attempts -> Seq(DownMessages)]
               /\ Head(down[a]) \in DownMessages
    BY <1>1, <1>4, Popped
  <1>5. ASSUME NEW m \in UpMessages
        PROVE  [up EXCEPT ![a] = Append(@, m)] \in [Attempts -> Seq(UpMessages)]
    BY <1>1, Pushed
  <1>6. ASSUME up[a] # <<>>
        PROVE  /\ [up EXCEPT ![a] = Tail(@)] \in [Attempts -> Seq(UpMessages)]
               /\ Head(up[a]) \in UpMessages
    BY <1>1, <1>6, Popped
  <1>7. [up EXCEPT ![a] = <<>>] \in [Attempts -> Seq(UpMessages)]
    BY <1>1
  <1> QED
    BY <1>2, <1>3, <1>4, <1>5, <1>6, <1>7

(* What close and send do to the sockets. *)
LEMMA SendTypes ==
    ASSUME TypeOK
    PROVE  /\ \A s \in Ids : Closing(s)
                  \in [Attempts -> {"none", "connecting", "open", "closing",
                                    "closed"}]
           /\ \A s \in Ids, m \in UpMessages :
                  Send(s, m) \in [Attempts -> Seq(UpMessages)]
  <1>1. \A s \in Ids : Closing(s)
            \in [Attempts -> {"none", "connecting", "open", "closing", "closed"}]
    BY DEF TypeOK, Closing, IsOpen
  <1>2. ASSUME NEW s \in Ids, NEW m \in UpMessages
        PROVE  Send(s, m) \in [Attempts -> Seq(UpMessages)]
    <2>1. CASE s = None
      BY <2>1 DEF TypeOK, Send, IsOpen
    <2>2. CASE s # None
      BY <2>2, QueueTypes DEF TypeOK, Send, IsOpen
    <2> QED
      BY <2>1, <2>2
  <1> QED
    BY <1>1, <1>2

(* The end of startSession, and its catch block. *)
LEMMA CallTypes ==
    ASSUME TypeOK, NEW a \in Attempts, Settled(a)
    PROVE  /\ pc' \in [Attempts -> {"idle", "opening", "snapshot", "done"}]
           /\ answers' \in [Attempts -> [session : SUBSET Attempts,
                                         states : SUBSET [Pods -> States]]]
           /\ tries' \in [Attempts -> 0 .. Tries]
  BY DEF TypeOK, Settled, NoAnswer

(* An empty store is typed.                                                *)
LEMMA NoPodsType == NoPods \in [Pods -> States]
  BY DEF NoPods, States, Absent

(* The end of disconnectSession. *)
LEMMA FinishTypes ==
    ASSUME TypeOK, FinishDisconnect
    PROVE  /\ readyState' \in [Attempts -> {"none", "connecting", "open",
                                           "closing", "closed"}]
           /\ up' \in [Attempts -> Seq(UpMessages)]
           /\ socket' \in Ids /\ phase' = "idle" /\ session' \in Ids
           /\ podsById' \in [Pods -> States] /\ xrEliminatedPodIds' = {}
  <1>1. socket \in Ids
    BY DEF TypeOK
  <1>2. /\ readyState' \in [Attempts -> {"none", "connecting", "open",
                                         "closing", "closed"}]
        /\ up' \in [Attempts -> Seq(UpMessages)]
    BY <1>1, SendTypes, MessageTypes DEF FinishDisconnect
  <1> QED
    BY <1>2, NoPodsType DEF FinishDisconnect, ResetStore

(* The catch block of startSession. *)
LEMMA FailureTypes ==
    ASSUME TypeOK, NEW a \in Attempts, AttemptFails(a)
    PROVE  /\ pc' \in [Attempts -> {"idle", "opening", "snapshot", "done"}]
           /\ answers' \in [Attempts -> [session : SUBSET Attempts,
                                         states : SUBSET [Pods -> States]]]
           /\ tries' \in [Attempts -> 0 .. Tries]
           /\ up' \in [Attempts -> Seq(UpMessages)]
           /\ socket' \in Ids
           /\ phase' \in {"idle", "connecting", "playing", "error"}
  <1>1. Settled(a)
    BY DEF AttemptFails
  <1>2. socket \in Ids /\ up \in [Attempts -> Seq(UpMessages)]
        /\ phase \in {"idle", "connecting", "playing", "error"}
    BY DEF TypeOK
  <1>3. up' \in [Attempts -> Seq(UpMessages)]
    <2>1. Send(socket, Close) \in [Attempts -> Seq(UpMessages)]
      BY <1>2, SendTypes, MessageTypes
    <2>2. up' = Send(socket, Close) \/ up' = up
      BY DEF AttemptFails
    <2> QED
      BY <1>2, <2>1, <2>2
  <1>4. /\ socket' \in Ids
        /\ phase' \in {"idle", "connecting", "playing", "error"}
    BY <1>2 DEF AttemptFails
  <1> QED
    BY <1>1, <1>3, <1>4, CallTypes

(* Every step keeps the types. *)
LEMMA TypeStep == TypeOK /\ [Next]_vars => TypeOK'
  <1> SUFFICES ASSUME TypeOK, [Next]_vars PROVE TypeOK'
    OBVIOUS
  <1> USE DEF browser, calls, store, server
  <1>1. CASE UNCHANGED vars
    BY <1>1 DEF TypeOK, vars
  <1>2. CASE StartSession
    <2>1. connectionAttemptId + 1 \in Attempts
      BY <1>2 DEF TypeOK, StartSession
    <2> QED
      BY <1>2, <2>1, NoPodsType DEF TypeOK, StartSession, ResetStore
  <1>3. CASE DisconnectSession
    <2>1. connectionAttemptId' \in Ids
      BY <1>3 DEF TypeOK, DisconnectSession
    <2>2. CASE xr \in {"off", "entering"}
      <3>1. FinishDisconnect /\ UNCHANGED <<leaving, xr>>
        BY <1>3, <2>2 DEF DisconnectSession
      <3> QED
        BY <1>3, <2>1, <3>1, FinishTypes DEF TypeOK, DisconnectSession
    <2>3. CASE xr = "on"
      BY <1>3, <2>1, <2>3 DEF TypeOK, DisconnectSession
    <2>4. CASE xr = "ending"
      BY <1>3, <2>1, <2>4 DEF TypeOK, DisconnectSession
    <2> QED
      BY <2>2, <2>3, <2>4 DEF TypeOK
  <1>4. CASE EnterXR
    BY <1>4 DEF TypeOK, EnterXR
  <1>5. ASSUME NEW p \in Pods, ReportPodGone(p)
        PROVE  TypeOK'
    <2>1. [podsById[p] EXCEPT !.status = "GONE"] \in Existing
      <3>1. podsById[p] \in Existing
        BY <1>5 DEF TypeOK, ReportPodGone, States, Absent
      <3> QED
        BY <3>1 DEF Existing
    <2>2. podsById' \in [Pods -> States] /\ podsById'[p] # Absent
      BY <1>5, <2>1 DEF TypeOK, ReportPodGone, States, Existing, Absent
    <2>3. up' \in [Attempts -> Seq(UpMessages)]
      BY <1>5, SendTypes, MessageTypes DEF TypeOK, ReportPodGone
    <2> QED
      BY <1>5, <2>2, <2>3 DEF TypeOK, ReportPodGone
  <1>6. CASE XRAnswers
    BY <1>6 DEF TypeOK, XRAnswers
  <1>7. CASE XREnds
    <2>1. CASE leaving
      BY <1>7, <2>1, FinishTypes DEF TypeOK, XREnds
    <2>2. CASE ~leaving
      BY <1>7, <2>2 DEF TypeOK, XREnds
    <2> QED
      BY <2>1, <2>2
  <1>8. CASE GraceExpires
    BY <1>8, NoPodsType DEF TypeOK, GraceExpires, EndSession
  <1>9. ASSUME NEW p \in Pods, PodChanges(p)
        PROVE  TypeOK'
    BY <1>9, PublishType DEF TypeOK, PodChanges
  <1>10. ASSUME NEW a \in Attempts, Upgrade(a)
         PROVE  TypeOK'
    BY <1>10, MessageTypes, QueueTypes DEF TypeOK, Upgrade
  <1>11. ASSUME NEW a \in Attempts, Refuse(a)
         PROVE  TypeOK'
    <2>1. down' \in [Attempts -> Seq(DownMessages)]
      BY <1>11, MessageTypes, QueueTypes DEF Refuse
    <2> QED
      BY <1>11, <2>1 DEF TypeOK, Refuse
  <1>12. ASSUME NEW a \in Attempts, Join(a)
         PROVE  TypeOK'
    BY <1>12 DEF TypeOK, Join
  <1>13. ASSUME NEW a \in Attempts, CreateFails(a)
         PROVE  TypeOK'
    BY <1>13, MessageTypes, QueueTypes DEF TypeOK, CreateFails
  <1>14. ASSUME NEW a \in Attempts, ReadReport(a)
         PROVE  TypeOK'
    <2> DEFINE m == Head(up[a])
    <2>1. m.pod \in Pods /\ up' \in [Attempts -> Seq(UpMessages)]
      BY <1>14, MessageTypes, QueueTypes DEF ReadReport
    <2>2. CASE m.session = active /\ record[m.pod] # Absent
      <3>1. Publish(m.pod, "GONE")
        BY <1>14, <2>2 DEF ReadReport
      <3> QED
        <4>1. /\ record' \in [Pods -> States] /\ seq' \in Nat
              /\ down' \in [Attempts -> Seq(DownMessages)]
          BY <2>1, <3>1, PublishType
        <4> QED
          BY <1>14, <2>1, <4>1 DEF TypeOK, ReadReport
    <2>3. CASE ~(m.session = active /\ record[m.pod] # Absent)
      BY <1>14, <2>1, <2>3 DEF TypeOK, ReadReport
    <2> QED
      BY <2>2, <2>3
  <1>15. ASSUME NEW a \in Attempts, ReadClose(a)
         PROVE  TypeOK'
    BY <1>15, MessageTypes, QueueTypes, NoPodsType
       DEF TypeOK, ReadClose, EndSession
  <1>16. ASSUME NEW a \in Attempts, ServerNotices(a)
         PROVE  TypeOK'
    BY <1>16 DEF TypeOK, ServerNotices
  <1>17. ASSUME NEW a \in Attempts, Break(a)
         PROVE  TypeOK'
    <2>1. PICK n \in 0 .. Len(down[a]) :
             down' = [down EXCEPT ![a] = Append(SubSeq(@, 1, n), Close)]
      BY <1>17 DEF Break
    <2>2. /\ down' \in [Attempts -> Seq(DownMessages)]
          /\ up' \in [Attempts -> Seq(UpMessages)]
      BY <1>17, <2>1, MessageTypes, QueueTypes DEF Break
    <2> QED
      BY <1>17, <2>2 DEF TypeOK, Break
  <1>18. ASSUME NEW a \in Attempts, OnOpen(a)
         PROVE  TypeOK'
    <2>1. /\ down' \in [Attempts -> Seq(DownMessages)]
          /\ up' \in [Attempts -> Seq(UpMessages)]
      <3>1. down' \in [Attempts -> Seq(DownMessages)]
        BY <1>18, QueueTypes DEF OnOpen, Event, Taken
      <3>2. up \in [Attempts -> Seq(UpMessages)]
        BY DEF TypeOK
      <3>3. [up EXCEPT ![a] = Append(@, Close)] \in [Attempts -> Seq(UpMessages)]
        BY MessageTypes, QueueTypes
      <3>4. up' = up \/ up' = [up EXCEPT ![a] = Append(@, Close)]
        BY <1>18 DEF OnOpen
      <3> QED
        BY <3>1, <3>2, <3>3, <3>4
    <2>2. CASE a = connectionAttemptId
      BY <1>18, <2>1, <2>2 DEF TypeOK, OnOpen
    <2>3. CASE a # connectionAttemptId
      BY <1>18, <2>1, <2>3, CallTypes DEF TypeOK, OnOpen
    <2> QED
      BY <2>2, <2>3
  <1>19. ASSUME NEW a \in Attempts, OnMessage(a)
         PROVE  TypeOK'
    <2> DEFINE m == Head(down[a])
    <2>1. /\ down' \in [Attempts -> Seq(DownMessages)]
          /\ m.pod \in Pods /\ m.state \in Existing
      BY <1>19, MessageTypes, QueueTypes DEF OnMessage, Event, Taken
    <2>2. CASE UpsertPod(m.pod, m.state)
      <3>1. m.state \in States /\ m.state # Absent
        BY <2>1 DEF States, Existing, Absent
      <3>2. podsById' = [podsById EXCEPT ![m.pod] = m.state]
            /\ xrEliminatedPodIds' \subseteq xrEliminatedPodIds
        BY <2>2 DEF UpsertPod
      <3>3. /\ podsById' \in [Pods -> States]
            /\ xrEliminatedPodIds' \subseteq {p \in Pods : podsById'[p] # Absent}
        BY <2>1, <3>1, <3>2 DEF TypeOK
      <3> QED
        BY <1>19, <2>1, <3>3 DEF TypeOK, OnMessage
    <2>3. CASE UNCHANGED <<podsById, xrEliminatedPodIds>>
      BY <1>19, <2>1, <2>3 DEF TypeOK, OnMessage
    <2> QED
      BY <1>19, <2>2, <2>3 DEF OnMessage
  <1>20. ASSUME NEW a \in Attempts, OnCloseUnopened(a)
         PROVE  TypeOK'
    <2>1. /\ down' \in [Attempts -> Seq(DownMessages)]
          /\ readyState' \in [Attempts -> {"none", "connecting", "open",
                                           "closing", "closed"}]
      BY <1>20, QueueTypes, SendTypes
         DEF TypeOK, OnCloseUnopened, Event, Taken
    <2>2. CASE a = connectionAttemptId
      <3>1. AttemptFails(a)
        BY <1>20, <2>2 DEF OnCloseUnopened
      <3> HIDE DEF Attempts
      <3>2. /\ pc' \in [Attempts -> {"idle", "opening", "snapshot", "done"}]
            /\ answers' \in [Attempts -> [session : SUBSET Attempts,
                                          states : SUBSET [Pods -> States]]]
            /\ tries' \in [Attempts -> 0 .. Tries]
            /\ up' \in [Attempts -> Seq(UpMessages)]
            /\ socket' \in Ids
            /\ phase' \in {"idle", "connecting", "playing", "error"}
        BY <3>1, FailureTypes
      <3> QED
        BY <1>20, <2>1, <3>2 DEF TypeOK, OnCloseUnopened
    <2>3. CASE a # connectionAttemptId
      BY <1>20, <2>1, <2>3 DEF TypeOK, OnCloseUnopened
    <2> QED
      BY <2>2, <2>3
  <1>21. ASSUME NEW a \in Attempts, OnClose(a)
         PROVE  TypeOK'
    BY <1>21, QueueTypes, NoPodsType DEF TypeOK, OnClose, ResetStore, Event, Taken
  <1>22. ASSUME NEW a \in Attempts, AnswerSession(a)
         PROVE  TypeOK'
    <2>1. [answers[a] EXCEPT !.session = {active}]
              \in [session : SUBSET Attempts, states : SUBSET [Pods -> States]]
      <3>1. active \in Attempts
        BY <1>22 DEF TypeOK, AnswerSession
      <3>2. answers[a] \in [session : SUBSET Attempts,
                            states : SUBSET [Pods -> States]]
        BY DEF TypeOK
      <3> QED
        BY <3>1, <3>2
    <2> QED
      BY <1>22, <2>1 DEF TypeOK, AnswerSession
  <1>23. ASSUME NEW a \in Attempts, AnswerStates(a)
         PROVE  TypeOK'
    <2>1. [answers[a] EXCEPT !.states = {record}]
              \in [session : SUBSET Attempts, states : SUBSET [Pods -> States]]
      <3>1. record \in [Pods -> States]
        BY DEF TypeOK
      <3>2. answers[a] \in [session : SUBSET Attempts,
                            states : SUBSET [Pods -> States]]
        BY DEF TypeOK
      <3> QED
        BY <3>1, <3>2
    <2> QED
      BY <1>23, <2>1 DEF TypeOK, AnswerStates
  <1>24. ASSUME NEW a \in Attempts, RequestFails(a)
         PROVE  TypeOK'
    <2>1. CASE AttemptFails(a)
      <3>1. /\ pc' \in [Attempts -> {"idle", "opening", "snapshot", "done"}]
            /\ answers' \in [Attempts -> [session : SUBSET Attempts,
                                          states : SUBSET [Pods -> States]]]
            /\ tries' \in [Attempts -> 0 .. Tries]
            /\ up' \in [Attempts -> Seq(UpMessages)]
            /\ socket' \in Ids
            /\ phase' \in {"idle", "connecting", "playing", "error"}
        BY <2>1, FailureTypes
      <3>2. readyState' \in [Attempts -> {"none", "connecting", "open",
                                         "closing", "closed"}]
        <4>1. socket \in Ids /\ readyState \in [Attempts ->
                 {"none", "connecting", "open", "closing", "closed"}]
          BY DEF TypeOK
        <4>2. readyState' = readyState \/ readyState' = Closing(socket)
          BY <1>24 DEF RequestFails
        <4> QED
          BY <4>1, <4>2, SendTypes
      <3> QED
        BY <1>24, <3>1, <3>2 DEF TypeOK, RequestFails
    <2>2. CASE ~AttemptFails(a)
      <3>1. /\ tries[a] + 1 < Tries /\ tries' = [tries EXCEPT ![a] = @ + 1]
            /\ answers' = [answers EXCEPT ![a] = NoAnswer]
            /\ UNCHANGED <<pc, readyState, up, socket, phase>>
        BY <1>24, <2>2 DEF RequestFails
      <3>2. tries' \in [Attempts -> 0 .. Tries]
        BY <3>1 DEF TypeOK
      <3>3. answers' \in [Attempts -> [session : SUBSET Attempts,
                                      states : SUBSET [Pods -> States]]]
        BY <3>1 DEF TypeOK, NoAnswer
      <3> QED
        BY <1>24, <3>1, <3>2, <3>3 DEF TypeOK, RequestFails
    <2> QED
      BY <2>1, <2>2
  <1>25. ASSUME NEW a \in Attempts, SnapshotArrives(a)
         PROVE  TypeOK'
    <2>1. PICK s \in answers[a].session, states \in answers[a].states :
             IF a = connectionAttemptId
             THEN /\ phase' = "playing" /\ session' = s /\ podsById' = states
                  /\ xrEliminatedPodIds' = {}
             ELSE UNCHANGED store
      BY <1>25 DEF SnapshotArrives
    <2>2. s \in Attempts /\ states \in [Pods -> States]
      BY DEF TypeOK
    <2> QED
      BY <1>25, <2>1, <2>2, CallTypes DEF TypeOK, SnapshotArrives
  <1> QED
    BY <1>1, <1>2, <1>3, <1>4, <1>5, <1>6, <1>7, <1>8, <1>9, <1>10, <1>11,
       <1>12, <1>13, <1>14, <1>15, <1>16, <1>17, <1>18, <1>19, <1>20, <1>21,
       <1>22, <1>23, <1>24, <1>25
    DEF Next, Player, Service, Task, Answer

----------------------------------------------------------------------------
(* The sockets.                                                            *)

SocketInv(a) == Fresh(a) /\ AskedFirst(a) /\ OpenFirst(a) /\ Awaited(a)

(* A socket whose events stay as they are keeps its invariant. *)
LEMMA Untouched ==
    ASSUME TypeOK, TypeOK', NEW a \in Attempts, SocketInv(a),
           connectionAttemptId' >= connectionAttemptId,
           down'[a] = down[a],
           \/ handler'[a] = handler[a]
           \/ handler[a] \notin {"none", "asked"} /\ handler'[a] # "asked",
           readyState'[a] = "connecting" <=> readyState[a] = "connecting",
           readyState[a] = "none" => readyState'[a] = "none",
           pc[a] = "idle" => pc'[a] = "idle"
    PROVE  SocketInv(a)'
  <1>1. Fresh(a)'
    BY DEF SocketInv, Fresh, TypeOK
  <1>2. AskedFirst(a)' /\ OpenFirst(a)' /\ Awaited(a)'
    BY DEF SocketInv, AskedFirst, OpenFirst, Awaited
  <1> QED
    BY <1>1, <1>2 DEF SocketInv

(* So does one that is sent a message after its open event. *)
LEMMA Delivered ==
    ASSUME TypeOK, TypeOK', NEW a \in Attempts, SocketInv(a),
           UNCHANGED browser, handler[a] # "none", handler'[a] # "asked",
           NEW m \in DownMessages, m.type # "open",
           down'[a] = Append(down[a], m),
           handler[a] = "asked" => m.type = "close"
    PROVE  SocketInv(a)'
  <1> USE DEF browser
  <1>1. /\ Len(down'[a]) = Len(down[a]) + 1 /\ Len(down[a]) \in Nat
        /\ \A i \in 1 .. Len(down[a]) : down'[a][i] = down[a][i]
        /\ down'[a][Len(down[a]) + 1] = m /\ down'[a] # <<>>
    <2>1. down[a] \in Seq(DownMessages)
      BY DEF TypeOK
    <2> QED
      BY <2>1, Pushed
  <1>2. Fresh(a)' /\ AskedFirst(a)'
    BY DEF SocketInv, Fresh, AskedFirst
  <1>3. OpenFirst(a)'
    BY <1>1 DEF SocketInv, OpenFirst
  <1>4. Awaited(a)'
    <2>1. CASE down[a] = <<>>
      BY <1>1, <2>1 DEF SocketInv, Awaited
    <2>2. CASE down[a] # <<>>
      <3>1. 1 \in 1 .. Len(down[a])
        BY <2>2, Popped DEF TypeOK
      <3> QED
        BY <1>1, <2>2, <3>1 DEF SocketInv, Awaited, AskedFirst
    <2> QED
      BY <2>1, <2>2
  <1> QED
    BY <1>2, <1>3, <1>4 DEF SocketInv

(* And one whose first event is handled, which leaves it not connecting. *)
LEMMA Handled ==
    ASSUME TypeOK, NEW a \in Attempts, SocketInv(a),
           UNCHANGED <<connectionAttemptId, handler>>,
           down[a] # <<>>, down'[a] = Tail(down[a]),
           readyState'[a] # "connecting"
    PROVE  SocketInv(a)'
  <1>1. /\ Len(down'[a]) = Len(down[a]) - 1 /\ Len(down[a]) \in Nat
        /\ \A i \in 1 .. Len(down'[a]) : down'[a][i] = down[a][i + 1]
    BY Popped DEF TypeOK
  <1>2. Fresh(a)' /\ AskedFirst(a)' /\ Awaited(a)'
    BY DEF SocketInv, Fresh, AskedFirst, Awaited
  <1>3. OpenFirst(a)'
    BY <1>1 DEF SocketInv, OpenFirst
  <1> QED
    BY <1>2, <1>3 DEF SocketInv

(* A message is published to the sockets that joined. *)
LEMMA Published ==
    ASSUME TypeOK, TypeOK', Sockets, UNCHANGED <<browser, handler>>,
           NEW p \in Pods, NEW status \in {"LIVE", "GONE"},
           Publish(p, status)
    PROVE  Sockets'
  <1> DEFINE m == PodMsg(p, [status |-> status, seq |-> seq + 1])
  <1>1. m \in DownMessages /\ m.type = "pod"
    BY DEF TypeOK, Existing, DownMessages, PodMsg
  <1>3. /\ connectionAttemptId' >= connectionAttemptId
        /\ UNCHANGED <<handler, readyState, pc>>
    BY DEF TypeOK, browser, calls
  <1>2. ASSUME NEW a \in Attempts
        PROVE  SocketInv(a)'
    <2>1. SocketInv(a)
      BY DEF Sockets, SocketInv
    <2>2. CASE handler[a] = "joined"
      <3>1. down'[a] = Append(down[a], m)
        BY <2>2 DEF Publish, Broadcast
      <3> QED
        BY <1>1, <2>1, <2>2, <3>1, Delivered
    <2>3. CASE handler[a] # "joined"
      <3>1. down'[a] = down[a]
        BY <2>3 DEF Publish, Broadcast
      <3> QED
        BY <2>1, <3>1, <1>3, Untouched
    <2> QED
      BY <2>2, <2>3
  <1> QED
    BY <1>2 DEF Sockets, SocketInv

(* Closing leaves connecting sockets connecting. *)
LEMMA ClosingKeeps ==
    ASSUME TypeOK, NEW s \in Ids, NEW a \in Attempts
    PROVE  /\ Closing(s)[a] = "connecting" <=> readyState[a] = "connecting"
           /\ readyState[a] = "none" => Closing(s)[a] = "none"
           /\ Closing(s)[a] = "open" => readyState[a] = "open" /\ s # a
  BY DEF TypeOK, Closing, IsOpen

(* A step of the browser that handles no event of a socket and opens none. *)
LEMMA BrowserStep ==
    ASSUME TypeOK, TypeOK', Sockets, UNCHANGED <<down, handler>>,
           connectionAttemptId' >= connectionAttemptId,
           readyState' = readyState \/ readyState' = Closing(socket),
           \A a \in Attempts : pc[a] = "idle" => pc'[a] = "idle"
    PROVE  Sockets'
  <1>1. ASSUME NEW a \in Attempts
        PROVE  SocketInv(a)'
    <2>1. SocketInv(a)
      BY DEF Sockets, SocketInv
    <2>2. /\ readyState'[a] = "connecting" <=> readyState[a] = "connecting"
          /\ readyState[a] = "none" => readyState'[a] = "none"
      <3>1. socket \in Ids
        BY DEF TypeOK
      <3> QED
        BY <3>1, ClosingKeeps
    <2> QED
      BY <2>1, <2>2, Untouched
  <1> QED
    BY <1>1 DEF Sockets, SocketInv

(* A step of the server on one socket leaves the others alone. *)
LEMMA ServerStep ==
    ASSUME TypeOK, TypeOK', Sockets, UNCHANGED browser, NEW a \in Attempts,
           \A b \in Attempts \ {a} : down'[b] = down[b] /\ handler'[b] = handler[b],
           SocketInv(a)'
    PROVE  Sockets'
  <1>1. connectionAttemptId' >= connectionAttemptId /\ UNCHANGED <<readyState, pc>>
    BY DEF TypeOK, browser, calls
  <1>2. ASSUME NEW b \in Attempts \ {a}
        PROVE  SocketInv(b)'
    BY <1>1, Untouched DEF Sockets, SocketInv
  <1> QED
    BY <1>2 DEF Sockets, SocketInv

(* An event of a socket is handled: it is no longer connecting, and the    *)
(* others are connecting if they were.                                     *)
LEMMA EventStep ==
    ASSUME TypeOK, TypeOK', Sockets, NEW a \in Attempts,
           down[a] # <<>>, Taken(a),
           UNCHANGED <<connectionAttemptId, handler>>,
           readyState'[a] # "connecting",
           \A b \in Attempts \ {a} :
               /\ readyState'[b] = "connecting" <=> readyState[b] = "connecting"
               /\ readyState[b] = "none" => readyState'[b] = "none"
               /\ pc'[b] = pc[b]
    PROVE  Sockets'
  <1>1. connectionAttemptId' >= connectionAttemptId
    BY DEF TypeOK
  <1>2. ASSUME NEW b \in Attempts \ {a}
        PROVE  SocketInv(b)'
    <2>1. down'[b] = down[b]
      BY DEF Taken, TypeOK
    <2> QED
      BY <1>1, <2>1, Untouched DEF Sockets, SocketInv
  <1>3. SocketInv(a)'
    <2>1. down'[a] = Tail(down[a])
      BY DEF Taken, TypeOK
    <2> QED
      BY <2>1, Handled DEF Sockets, SocketInv
  <1> QED
    BY <1>2, <1>3 DEF Sockets, SocketInv

(* The first event of a socket. *)
LEMMA FirstEvent ==
    ASSUME TypeOK, Sockets, NEW a \in Attempts, down[a] # <<>>
    PROVE  /\ Head(down[a]).type = "open" => readyState[a] = "connecting"
           /\ Head(down[a]).type = "pod" => readyState[a] # "connecting"
           /\ a <= connectionAttemptId
  <1>1. /\ Head(down[a]) = down[a][1] /\ 1 \in 1 .. Len(down[a])
    BY Popped DEF TypeOK
  <1> QED
    BY <1>1 DEF Sockets, Fresh, AskedFirst, OpenFirst, Awaited, TypeOK

(* Every step keeps the invariant of the sockets. *)
LEMMA SocketStep == TypeOK /\ Sockets /\ [Next]_vars => Sockets'
  <1> SUFFICES ASSUME TypeOK, Sockets, [Next]_vars PROVE Sockets'
    OBVIOUS
  <1>0. TypeOK' /\ connectionAttemptId \in Nat
    <2>1. TypeOK'
      BY TypeStep
    <2>2. connectionAttemptId \in Nat
      BY DEF TypeOK
    <2> QED
      BY <2>1, <2>2
  <1> USE DEF calls, store, server
  <1>1. CASE UNCHANGED vars
    BY <1>0, <1>1, BrowserStep DEF vars, browser
  <1>2. CASE StartSession
    <2>1. PICK a \in Attempts : a = connectionAttemptId + 1
      BY <1>2 DEF TypeOK, StartSession
    <2>2. connectionAttemptId' = a /\ down' = down
      BY <1>2, <2>1 DEF StartSession
    <2>3. SocketInv(a)'
      <3>1. down'[a] = <<>> /\ Len(down'[a]) = 0
        BY <1>0, <2>1, <2>2 DEF Sockets, Fresh
      <3>2. readyState'[a] = "connecting" /\ handler'[a] = "asked"
        BY <1>2, <2>1 DEF TypeOK, StartSession
      <3> QED
        BY <1>0, <2>2, <3>1, <3>2
           DEF SocketInv, Fresh, AskedFirst, OpenFirst, Awaited
    <2>4. ASSUME NEW b \in Attempts, b # a
          PROVE  SocketInv(b)'
      <3>1. /\ readyState'[b] = readyState[b] /\ handler'[b] = handler[b]
            /\ pc'[b] = pc[b]
        BY <1>2, <2>1, <2>4 DEF TypeOK, StartSession
      <3> QED
        BY <1>0, <2>1, <2>2, <3>1, Untouched DEF Sockets, SocketInv
    <2> QED
      BY <2>3, <2>4 DEF Sockets, SocketInv
  <1>3. CASE DisconnectSession
    BY <1>0, <1>3, BrowserStep DEF DisconnectSession, FinishDisconnect
  <1>4. CASE EnterXR \/ XRAnswers \/ (\E p \in Pods : ReportPodGone(p))
    <2>1. UNCHANGED <<connectionAttemptId, pc, readyState, down, handler>>
      BY <1>4 DEF EnterXR, XRAnswers, ReportPodGone
    <2> QED
      BY <1>0, <2>1, BrowserStep
  <1>5. CASE XREnds
    BY <1>0, <1>5, BrowserStep DEF XREnds, FinishDisconnect
  <1>6. CASE GraceExpires
    BY <1>0, <1>6, BrowserStep DEF GraceExpires, browser
  <1>7. ASSUME NEW p \in Pods, PodChanges(p)
        PROVE  Sockets'
    BY <1>0, <1>7, Published DEF PodChanges
  <1>8. ASSUME NEW a \in Attempts, Upgrade(a)
        PROVE  Sockets'
    <2>1. /\ readyState[a] = "connecting" /\ down[a] = <<>>
          /\ a <= connectionAttemptId
      BY <1>0, <1>8 DEF Sockets, Fresh, AskedFirst, Upgrade
    <2>2. /\ down'[a] = <<Open>> /\ handler'[a] = "upgraded"
      BY <1>8, <2>1 DEF TypeOK, Upgrade
    <2>3. SocketInv(a)'
      BY <1>0, <1>8, <2>1, <2>2
         DEF SocketInv, Fresh, AskedFirst, OpenFirst, Awaited, Upgrade, browser,
             Open
    <2> QED
      BY <1>0, <1>8, <2>3, ServerStep DEF TypeOK, Upgrade
  <1>9. ASSUME NEW a \in Attempts, Refuse(a) \/ CreateFails(a)
        PROVE  Sockets'
    <2>1. /\ handler[a] \in {"asked", "upgraded"} /\ handler'[a] = "left"
          /\ down'[a] = Append(down[a], Close) /\ UNCHANGED browser
      BY <1>9 DEF TypeOK, Refuse, CreateFails
    <2>2. SocketInv(a)'
      BY <1>0, <2>1, Delivered, MessageTypes DEF Sockets, SocketInv, Close
    <2> QED
      BY <1>0, <1>9, <2>1, <2>2, ServerStep DEF TypeOK, Refuse, CreateFails
  <1>10. ASSUME NEW a \in Attempts, Join(a) \/ ServerNotices(a)
         PROVE  Sockets'
    <2>1. /\ handler[a] \in {"upgraded", "broken"}
          /\ handler'[a] \in {"joined", "left"}
          /\ down' = down /\ UNCHANGED browser
      BY <1>10 DEF TypeOK, Join, ServerNotices
    <2>2. SocketInv(a)'
      BY <1>0, <2>1, Untouched DEF Sockets, SocketInv, browser
    <2> QED
      BY <1>0, <1>10, <2>1, <2>2, ServerStep DEF TypeOK, Join, ServerNotices
  <1>11. ASSUME NEW a \in Attempts, ReadReport(a)
         PROVE  Sockets'
    <2>1. CASE down' = down
      BY <1>0, <1>11, <2>1, BrowserStep DEF ReadReport, browser
    <2>2. CASE down' # down
      <3>1. /\ Publish(Head(up[a]).pod, "GONE") /\ UNCHANGED <<browser, handler>>
        BY <1>11, <2>2 DEF ReadReport
      <3>2. Head(up[a]).pod \in Pods
        BY <1>11, QueueTypes, MessageTypes DEF ReadReport
      <3> QED
        BY <1>0, <3>1, <3>2, Published
    <2> QED
      BY <2>1, <2>2
  <1>12. ASSUME NEW a \in Attempts, ReadClose(a)
         PROVE  Sockets'
    <2>1. /\ handler[a] = "joined" /\ handler'[a] = "left"
          /\ down'[a] = Append(down[a], Close) /\ UNCHANGED browser
      BY <1>12 DEF TypeOK, ReadClose
    <2>2. SocketInv(a)'
      BY <1>0, <2>1, Delivered, MessageTypes DEF Sockets, SocketInv, Close
    <2> QED
      BY <1>0, <1>12, <2>1, <2>2, ServerStep DEF TypeOK, ReadClose
  <1>13. ASSUME NEW a \in Attempts, Break(a)
         PROVE  Sockets'
    <2>1. PICK n \in 0 .. Len(down[a]) :
             down' = [down EXCEPT ![a] = Append(SubSeq(@, 1, n), Close)]
      BY <1>13 DEF Break
    <2>2. /\ down[a] \in Seq(DownMessages) /\ Close \in DownMessages
          /\ Len(down[a]) \in Nat /\ n \in Nat
      BY MessageTypes, Popped DEF TypeOK
    <2>3. down'[a] = Append(SubSeq(down[a], 1, n), Close)
      BY <2>1 DEF TypeOK
    <2>4. /\ Len(down'[a]) = n + 1 /\ down'[a] # <<>>
          /\ \A i \in 1 .. n : down'[a][i] = down[a][i]
          /\ down'[a][n + 1] = Close
      <3> DEFINE q == down[a]
      <3>1. q \in Seq(DownMessages) /\ n \in 0 .. Len(q)
        BY <2>2
      <3>2. down'[a] = Append(SubSeq(q, 1, n), Close)
        BY <2>3
      <3> HIDE DEF q
      <3>3. /\ Len(Append(SubSeq(q, 1, n), Close)) = n + 1
            /\ Append(SubSeq(q, 1, n), Close) # <<>>
            /\ \A i \in 1 .. n : Append(SubSeq(q, 1, n), Close)[i] = q[i]
            /\ Append(SubSeq(q, 1, n), Close)[n + 1] = Close
        BY <2>2, <3>1, CutOff
      <3> QED
        BY <3>2, <3>3 DEF q
    <2>5. /\ handler[a] = "joined" /\ handler'[a] = "broken"
          /\ UNCHANGED <<connectionAttemptId, readyState, pc>>
      BY <1>13 DEF TypeOK, Break, browser
    <2>6. Fresh(a)' /\ AskedFirst(a)'
      BY <2>5 DEF Sockets, Fresh, AskedFirst
    <2>7. OpenFirst(a)'
      BY <2>2, <2>4, <2>5 DEF Sockets, OpenFirst, Close
    <2>8. Awaited(a)'
      <3>1. n = 0 \/ 1 \in 1 .. n
        BY <2>2
      <3> QED
        BY <2>4, <2>5, <3>1 DEF Sockets, Awaited, Close
    <2>9. SocketInv(a)'
      BY <2>6, <2>7, <2>8 DEF SocketInv
    <2> QED
      BY <1>0, <1>13, <2>9, ServerStep DEF TypeOK, Break
  <1>14. ASSUME NEW a \in Attempts, OnOpen(a)
         PROVE  Sockets'
    <2>1. /\ readyState'[a] # "connecting"
          /\ \A b \in Attempts \ {a} :
                 readyState'[b] = readyState[b] /\ pc'[b] = pc[b]
      BY <1>14 DEF TypeOK, OnOpen, Settled
    <2> QED
      BY <1>0, <1>14, <2>1, EventStep DEF OnOpen, Event
  <1>15. ASSUME NEW a \in Attempts, OnMessage(a)
         PROVE  Sockets'
    <2>1. readyState[a] # "connecting"
      BY <1>15, FirstEvent DEF OnMessage, Event
    <2> QED
      BY <1>0, <1>15, <2>1, EventStep DEF OnMessage, Event
  <1>16. ASSUME NEW a \in Attempts, OnCloseUnopened(a)
         PROVE  Sockets'
    <2>1. PICK s \in Ids : readyState' = [Closing(s) EXCEPT ![a] = "closed"]
      BY <1>16 DEF OnCloseUnopened, TypeOK
    <2>2. Closing(s) \in [Attempts -> {"none", "connecting", "open", "closing",
                                       "closed"}]
      BY SendTypes
    <2>3. /\ readyState'[a] = "closed"
          /\ \A b \in Attempts \ {a} : readyState'[b] = Closing(s)[b]
      BY <2>1, <2>2
    <2>4. \A b \in Attempts \ {a} : pc'[b] = pc[b]
      BY <1>16 DEF OnCloseUnopened, AttemptFails, Settled, TypeOK
    <2>5. \A b \in Attempts \ {a} :
              /\ readyState'[b] = "connecting" <=> readyState[b] = "connecting"
              /\ readyState[b] = "none" => readyState'[b] = "none"
      BY <2>3, ClosingKeeps
    <2> QED
      BY <1>0, <1>16, <2>3, <2>4, <2>5, EventStep DEF OnCloseUnopened, Event
  <1>17. ASSUME NEW a \in Attempts, OnClose(a)
         PROVE  Sockets'
    <2>1. /\ readyState'[a] = "closed"
          /\ \A b \in Attempts \ {a} : readyState'[b] = readyState[b]
      BY <1>17 DEF TypeOK, OnClose
    <2> QED
      BY <1>0, <1>17, <2>1, EventStep DEF OnClose, Event
  <1>18. ASSUME NEW a \in Attempts, AnswerSession(a) \/ AnswerStates(a)
         PROVE  Sockets'
    BY <1>0, <1>18, BrowserStep DEF AnswerSession, AnswerStates
  <1>19. ASSUME NEW a \in Attempts, RequestFails(a)
         PROVE  Sockets'
    <2>1. \A b \in Attempts : pc[b] = "idle" => pc'[b] = "idle"
      BY <1>19 DEF TypeOK, RequestFails, AttemptFails, Settled
    <2>2. /\ readyState' = readyState \/ readyState' = Closing(socket)
          /\ UNCHANGED <<connectionAttemptId, down, handler>>
      BY <1>19 DEF RequestFails
    <2> QED
      BY <1>0, <2>1, <2>2, BrowserStep
  <1>20. ASSUME NEW a \in Attempts, SnapshotArrives(a)
         PROVE  Sockets'
    <2>1. \A b \in Attempts : pc[b] = "idle" => pc'[b] = "idle"
      BY <1>20 DEF TypeOK, SnapshotArrives, Settled
    <2> QED
      BY <1>0, <1>20, <2>1, BrowserStep DEF SnapshotArrives
  <1> QED
    BY <1>1, <1>2, <1>3, <1>4, <1>5, <1>6, <1>7, <1>8, <1>9, <1>10, <1>11,
       <1>12, <1>13, <1>14, <1>15, <1>16, <1>17, <1>18, <1>19, <1>20
    DEF Next, Player, Service, Task, Answer

----------------------------------------------------------------------------
(* The client.                                                             *)

(* A step that changes neither attempts nor sockets, nor the phase. *)
LEMMA ClientKept ==
    ASSUME Client,
           UNCHANGED <<connectionAttemptId, socket, pc, phase, readyState>>,
           UNCHANGED <<leaving, xr>> \/ (xr # "ending" /\ leaving' = leaving)
    PROVE  Client'
  BY DEF Client, OneOpenSocket, Alone, Opening, UnderWay, LeavingEnds, IsOpen

(* When the socket in use is closed, no socket is open any more. *)
LEMMA NoneOpen ==
    ASSUME TypeOK, Client, NEW b \in Attempts
    PROVE  Closing(socket)[b] # "open"
  <1>1. socket \in Ids
    BY DEF TypeOK
  <1> QED
    BY <1>1, ClosingKeeps DEF Client, OneOpenSocket

(* The end of disconnectSession leaves an idle client. *)
LEMMA FinishedClient ==
    ASSUME TypeOK, TypeOK', Client, FinishDisconnect, leaving' => xr' = "ending",
           \/ UNCHANGED <<connectionAttemptId, pc>>
           \/ /\ connectionAttemptId' # None
              /\ readyState[connectionAttemptId'] = "none"
              /\ pc'[connectionAttemptId'] = "idle"
    PROVE  Client'
  <1>1. socket \in Ids /\ connectionAttemptId' \in Ids
    BY DEF TypeOK
  <1>2. /\ readyState' = Closing(socket) /\ socket' = None /\ phase' = "idle"
    BY DEF FinishDisconnect
  <1>3. OneOpenSocket'
    BY <1>2, NoneOpen DEF OneOpenSocket
  <1>4. Alone' /\ UnderWay' /\ LeavingEnds'
    BY <1>2 DEF Alone, UnderWay, LeavingEnds, IsOpen
  <1>5. Opening'
    <2>1. CASE UNCHANGED <<connectionAttemptId, pc>>
      BY <1>1, <1>2, <2>1, ClosingKeeps DEF Client, Opening
    <2>2. CASE pc'[connectionAttemptId'] = "idle"
      BY <2>2 DEF Opening
    <2> QED
      BY <2>1, <2>2
  <1> QED
    BY <1>3, <1>4, <1>5 DEF Client

(* An attempt fails and the socket in use, if the attempt is current, is   *)
(* closed; another socket may have closed.                                 *)
LEMMA FailedClient ==
    ASSUME TypeOK, TypeOK', Client, NEW a \in Attempts,
           UNCHANGED <<connectionAttemptId, leaving, xr>>,
           AttemptFails(a),
           \/ a = connectionAttemptId
           \/ a # connectionAttemptId /\ readyState' = readyState,
           \A b \in Attempts : readyState'[b] \in {Closing(socket)[b], "closed"}
                                \/ a # connectionAttemptId
    PROVE  Client'
  <1>1. /\ \A b \in Attempts \ {a} : pc'[b] = pc[b]
        /\ pc'[a] = "done"
    BY DEF AttemptFails, Settled, TypeOK
  <1>2. CASE a = connectionAttemptId
    <2>1. socket' = None /\ phase' = "error"
      BY <1>2 DEF AttemptFails
    <2>2. OneOpenSocket'
      BY <1>2, NoneOpen DEF OneOpenSocket
    <2> QED
      BY <1>1, <1>2, <2>1, <2>2
         DEF Client, Alone, Opening, UnderWay, LeavingEnds, IsOpen
  <1>3. CASE a # connectionAttemptId
    <2>1. UNCHANGED <<socket, phase, readyState>>
      BY <1>3 DEF AttemptFails
    <2>2. connectionAttemptId # None => connectionAttemptId \in Attempts \ {a}
      BY <1>3 DEF TypeOK
    <2> QED
      BY <1>1, <2>1, <2>2
         DEF Client, OneOpenSocket, Alone, Opening, UnderWay, LeavingEnds, IsOpen
  <1> QED
    BY <1>2, <1>3

(* Every step keeps the invariant of the client. *)
LEMMA ClientStep == TypeOK /\ Sockets /\ Client /\ [Next]_vars => Client'
  <1> SUFFICES ASSUME TypeOK, Sockets, Client, [Next]_vars PROVE Client'
    OBVIOUS
  <1>0. TypeOK'
    BY TypeStep
  <1> USE DEF calls, store, server
  <1>1. CASE UNCHANGED vars
    BY <1>1, ClientKept DEF vars, browser
  <1>2. CASE UNCHANGED browser
    BY <1>2, ClientKept DEF browser
  <1>3. CASE StartSession
    <2>1. PICK a \in Attempts : a = connectionAttemptId + 1
      BY <1>3 DEF TypeOK, StartSession
    <2>2. /\ connectionAttemptId' = a /\ socket' = socket /\ ~IsOpen(socket)
          /\ readyState' = [readyState EXCEPT ![a] = "connecting"]
          /\ pc' = [pc EXCEPT ![a] = "opening"]
          /\ UNCHANGED <<leaving, xr>>
      BY <1>3, <2>1 DEF StartSession
    <2>3. readyState'[a] = "connecting" /\ pc'[a] = "opening"
      BY <2>2 DEF TypeOK
    <2>4. \A b \in Attempts : readyState'[b] = "open" => readyState[b] = "open"
      BY <2>2 DEF TypeOK
    <2>5. OneOpenSocket'
      BY <2>2, <2>4 DEF Client, OneOpenSocket
    <2>6. ~IsOpen(socket)'
      BY <2>2, <2>4 DEF IsOpen, TypeOK
    <2> QED
      BY <2>2, <2>3, <2>5, <2>6
         DEF Client, Alone, Opening, UnderWay, LeavingEnds
  <1>4. CASE DisconnectSession
    <2>1. PICK a \in Attempts : a = connectionAttemptId + 1
      BY <1>4 DEF TypeOK, DisconnectSession
    <2>2. connectionAttemptId' = a /\ pc' = pc
      BY <1>4, <2>1 DEF DisconnectSession
    <2>3. readyState[a] = "none" /\ pc[a] = "idle"
      <3>1. a > connectionAttemptId
        BY <2>1 DEF TypeOK
      <3> QED
        BY <3>1 DEF Sockets, Fresh
    <2>4. CASE FinishDisconnect /\ UNCHANGED <<leaving, xr>>
      BY <1>0, <2>2, <2>3, <2>4, FinishedClient DEF Client, LeavingEnds
    <2>5. CASE /\ UNCHANGED <<readyState, socket, phase>>
               /\ \/ leaving' = TRUE /\ xr' = "ending"
                  \/ UNCHANGED <<leaving, xr>> /\ phase = "playing"
      BY <2>2, <2>3, <2>5
         DEF Client, OneOpenSocket, Alone, Opening, UnderWay, LeavingEnds
    <2> QED
      BY <1>4, <2>4, <2>5 DEF DisconnectSession
  <1>5. CASE EnterXR \/ XRAnswers
    BY <1>5, ClientKept DEF EnterXR, XRAnswers
  <1>6. ASSUME NEW p \in Pods, ReportPodGone(p)
        PROVE  Client'
    BY <1>6, ClientKept DEF ReportPodGone
  <1>7. CASE XREnds
    <2>1. CASE leaving
      BY <1>0, <1>7, <2>1, FinishedClient DEF XREnds
    <2>2. CASE ~leaving
      BY <1>7, <2>2
         DEF XREnds, Client, OneOpenSocket, Alone, Opening, UnderWay,
             LeavingEnds, IsOpen
    <2> QED
      BY <2>1, <2>2
  <1>8. ASSUME NEW a \in Attempts, OnOpen(a)
        PROVE  Client'
    <2>1. readyState[a] = "connecting" /\ connectionAttemptId # None
      BY <1>8, FirstEvent DEF OnOpen, Event, TypeOK
    <2>2. CASE a = connectionAttemptId
      <3>1. /\ socket' = a /\ UNCHANGED <<connectionAttemptId, phase, leaving, xr>>
            /\ readyState'[a] = "open" /\ pc'[a] = "snapshot"
            /\ \A b \in Attempts \ {a} : readyState'[b] = readyState[b]
        BY <1>8, <2>2 DEF OnOpen, TypeOK
      <3>2. \A b \in Attempts : readyState[b] # "open"
        BY <2>1, <2>2 DEF Client, OneOpenSocket, Alone, IsOpen
      <3>3. OneOpenSocket'
        BY <3>1, <3>2 DEF OneOpenSocket
      <3> QED
        BY <2>2, <3>1, <3>3 DEF Client, Alone, Opening, UnderWay, LeavingEnds
    <2>3. CASE a # connectionAttemptId
      <3>1. /\ UNCHANGED <<connectionAttemptId, socket, phase, leaving, xr>>
            /\ readyState'[a] = "closing" /\ pc'[a] = "done"
            /\ \A b \in Attempts \ {a} :
                   readyState'[b] = readyState[b] /\ pc'[b] = pc[b]
        BY <1>8, <2>3 DEF OnOpen, Settled, TypeOK
      <3>2. connectionAttemptId \in Attempts \ {a} /\ socket \in Ids
        BY <2>1, <2>3 DEF TypeOK
      <3> QED
        BY <3>1, <3>2
           DEF Client, OneOpenSocket, Alone, Opening, UnderWay, LeavingEnds,
               IsOpen
    <2> QED
      BY <2>2, <2>3
  <1>9. ASSUME NEW a \in Attempts, OnMessage(a)
         PROVE  Client'
    BY <1>9, ClientKept DEF OnMessage
  <1>10. ASSUME NEW a \in Attempts, OnCloseUnopened(a)
         PROVE  Client'
    <2>1. UNCHANGED <<connectionAttemptId, leaving, xr>>
      BY <1>10 DEF OnCloseUnopened
    <2>2. CASE a = connectionAttemptId
      <3>1. /\ AttemptFails(a)
            /\ readyState' = [Closing(socket) EXCEPT ![a] = "closed"]
        BY <1>10, <2>2 DEF OnCloseUnopened
      <3>2. Closing(socket) \in [Attempts -> {"none", "connecting", "open",
                                              "closing", "closed"}]
        BY SendTypes DEF TypeOK
      <3>3. \A b \in Attempts : readyState'[b] \in {Closing(socket)[b], "closed"}
        BY <3>1, <3>2
      <3> QED
        BY <1>0, <2>1, <2>2, <3>1, <3>3, FailedClient
    <2>3. CASE a # connectionAttemptId
      <3>1. /\ UNCHANGED <<pc, socket, phase>>
            /\ readyState' = [readyState EXCEPT ![a] = "closed"]
        BY <1>10, <2>3 DEF OnCloseUnopened, Closing, IsOpen
      <3>2. connectionAttemptId # None => connectionAttemptId \in Attempts \ {a}
        BY <2>3 DEF TypeOK
      <3>3. /\ readyState'[a] = "closed" /\ socket \in Ids
            /\ \A b \in Attempts \ {a} : readyState'[b] = readyState[b]
        BY <3>1 DEF TypeOK
      <3> QED
        BY <2>1, <3>1, <3>2, <3>3
           DEF Client, OneOpenSocket, Alone, Opening, UnderWay, LeavingEnds,
               IsOpen
    <2> QED
      BY <2>2, <2>3
  <1>11. ASSUME NEW a \in Attempts, OnClose(a)
         PROVE  Client'
    <2>1. /\ readyState[a] # "connecting" /\ readyState'[a] = "closed"
          /\ \A b \in Attempts \ {a} : readyState'[b] = readyState[b]
          /\ UNCHANGED <<connectionAttemptId, pc, leaving>>
      BY <1>11 DEF OnClose, TypeOK
    <2>2. a = connectionAttemptId => pc[a] # "opening"
      BY <2>1 DEF Client, Opening
    <2>3. (Opening /\ LeavingEnds)'
      <3>1. xr' = xr \/ xr = "on"
        BY <1>11 DEF OnClose
      <3>2. connectionAttemptId \in Ids
        BY DEF TypeOK
      <3> QED
        BY <2>1, <2>2, <3>1, <3>2 DEF Client, Opening, LeavingEnds
    <2>4. CASE a = connectionAttemptId /\ socket = a
      <3>1. socket' = None /\ phase' = "idle"
        BY <1>11, <2>4 DEF OnClose
      <3> QED
        BY <2>1, <2>3, <2>4, <3>1
           DEF Client, OneOpenSocket, Alone, UnderWay, IsOpen
    <2>5. CASE ~(a = connectionAttemptId /\ socket = a)
      <3>1. UNCHANGED <<socket, phase, xr>>
        BY <1>11, <2>5 DEF OnClose
      <3>2. connectionAttemptId \in Ids /\ socket \in Ids
        BY DEF TypeOK
      <3> QED
        BY <2>1, <2>3, <3>1, <3>2
           DEF Client, OneOpenSocket, Alone, UnderWay, IsOpen
    <2> QED
      BY <2>4, <2>5
  <1>12. ASSUME NEW a \in Attempts, AnswerSession(a) \/ AnswerStates(a)
         PROVE  Client'
    BY <1>12, ClientKept DEF AnswerSession, AnswerStates
  <1>13. ASSUME NEW a \in Attempts, RequestFails(a)
         PROVE  Client'
    <2>1. UNCHANGED <<connectionAttemptId, leaving, xr>>
      BY <1>13 DEF RequestFails
    <2>2. CASE AttemptFails(a) /\ readyState' = IF a = connectionAttemptId
                                               THEN Closing(socket)
                                               ELSE readyState
      BY <1>0, <2>1, <2>2, FailedClient
    <2>3. CASE UNCHANGED <<pc, readyState, socket, phase>>
      BY <2>1, <2>3, ClientKept
    <2> QED
      BY <1>13, <2>2, <2>3 DEF RequestFails
  <1>14. ASSUME NEW a \in Attempts, SnapshotArrives(a)
         PROVE  Client'
    <2>1. /\ UNCHANGED <<connectionAttemptId, socket, readyState, leaving, xr>>
          /\ pc'[a] = "done" /\ \A b \in Attempts \ {a} : pc'[b] = pc[b]
      BY <1>14 DEF SnapshotArrives, Settled, TypeOK
    <2>2. phase' = "playing" \/ (a # connectionAttemptId /\ phase' = phase)
      BY <1>14 DEF SnapshotArrives
    <2>3. connectionAttemptId \in Ids
      BY DEF TypeOK
    <2> QED
      BY <2>1, <2>2, <2>3
         DEF Client, OneOpenSocket, Alone, Opening, UnderWay, LeavingEnds, IsOpen
  <1>15. ASSUME \/ GraceExpires
                \/ \E p \in Pods : PodChanges(p)
                \/ \E a \in Attempts : Service(a) \/ Break(a)
         PROVE  Client'
    <2>1. UNCHANGED browser
      BY <1>15 DEF GraceExpires, PodChanges, Service, Break, Upgrade, Refuse, Join,
                   CreateFails, ReadReport, ReadClose, ServerNotices
    <2> QED
      BY <1>2, <2>1
  <1> QED
    BY <1>1, <1>3, <1>4, <1>5, <1>6, <1>7, <1>8, <1>9, <1>10, <1>11, <1>12,
       <1>13, <1>14, <1>15
    DEF Next, Player, Task, Answer

----------------------------------------------------------------------------
(* The initial states, and the theorems.                                   *)

(* In the beginning no socket is open.                                     *)
LEMMA InitInv == Init => IInv
  <1> SUFFICES ASSUME Init PROVE IInv
    OBVIOUS
  <1>1. TypeOK
    <2>1. <<>> \in Seq(DownMessages) /\ <<>> \in Seq(UpMessages)
      OBVIOUS
    <2>2. /\ down \in [Attempts -> Seq(DownMessages)]
          /\ up \in [Attempts -> Seq(UpMessages)]
      BY <2>1 DEF Init
    <2>3. /\ connectionAttemptId \in Ids /\ socket \in Ids /\ session \in Ids
          /\ client \in Ids /\ active \in Ids /\ seq \in Nat
          /\ leaving \in BOOLEAN /\ phase = "idle" /\ xr = "off"
          /\ xrEliminatedPodIds = {}
      BY DEF Init
    <2>4. /\ podsById \in [Pods -> States] /\ record \in [Pods -> States]
      BY NoPodsType DEF Init
    <2>5. /\ pc \in [Attempts -> {"idle", "opening", "snapshot", "done"}]
          /\ answers \in [Attempts -> [session : SUBSET Attempts,
                                       states : SUBSET [Pods -> States]]]
          /\ tries \in [Attempts -> 0 .. Tries]
          /\ readyState \in [Attempts -> {"none", "connecting", "open",
                                          "closing", "closed"}]
          /\ handler \in [Attempts -> {"none", "asked", "upgraded", "joined",
                                       "broken", "left"}]
      BY DEF Init, NoAnswer
    <2> QED
      BY <2>2, <2>3, <2>4, <2>5 DEF TypeOK
  <1>2. Sockets
    BY DEF Init, Sockets, Fresh, AskedFirst, OpenFirst, Awaited
  <1>3. Client
    BY DEF Init, Client, OneOpenSocket, Alone, Opening, UnderWay, LeavingEnds
  <1> QED
    BY <1>1, <1>2, <1>3 DEF IInv

(* The invariant holds throughout.                                         *)
LEMMA Invariance == Spec => []IInv
  <1>1. IInv /\ [Next]_vars => IInv'
    BY TypeStep, SocketStep, ClientStep DEF IInv
  <1> QED
    BY <1>1, InitInv, PTL DEF Spec

(* Type correctness. *)
THEOREM TypeCorrect == Spec => []TypeOK
  <1>1. IInv => TypeOK
    BY DEF IInv
  <1> QED
    BY <1>1, Invariance, PTL

(* The client keeps no open socket but the one it holds, in whatever order *)
(* opens, closes, clicks and failures come.                                *)
THEOREM OneOpenSocketHolds == Spec => []OneOpenSocket
  <1>1. IInv => OneOpenSocket
    BY DEF IInv, Client
  <1> QED
    BY <1>1, Invariance, PTL

(* A client that is connecting is never left waiting for nothing.          *)
THEOREM ConnectingHasEnderHolds == Spec => []ConnectingHasEnder
  <1>1. IInv => ConnectingHasEnder
    <2> SUFFICES ASSUME TypeOK, Sockets, Client, phase = "connecting", ~leaving
                 PROVE  \/ pc[connectionAttemptId] = "snapshot"
                        \/ /\ pc[connectionAttemptId] = "opening"
                           /\ \/ handler[connectionAttemptId] = "asked"
                              \/ down[connectionAttemptId] # <<>>
      BY DEF ConnectingHasEnder, IInv, Client, LeavingEnds
    <2>1. /\ connectionAttemptId \in Attempts
          /\ pc[connectionAttemptId] \in {"opening", "snapshot"}
      BY DEF Client, UnderWay, TypeOK
    <2>2. CASE pc[connectionAttemptId] = "opening"
      BY <2>1, <2>2 DEF Client, Opening, Sockets, Awaited
    <2> QED
      BY <2>1, <2>2
  <1> QED
    BY <1>1, Invariance, PTL

----------------------------------------------------------------------------
(* What the client plays and what the server has.                          *)

(* The handlers that hold the session slot, and those that are listened to. *)
Holding  == {"upgraded", "joined", "broken"}
Attached == {"upgraded", "joined"}

(* A handler that holds the slot is its owner. *)
Owners == \A a \in Attempts : handler[a] \in Holding => client = a

(* The session that is over has left no records. *)
Emptied == active = None => record = NoPods

(* A socket that was not answered has brought nothing about. *)
Unasked(a) ==
    handler[a] \in {"none", "asked"} =>
        /\ pc[a] \in {"idle", "opening"} /\ answers[a] = NoAnswer
        /\ down[a] = <<>> /\ socket # a

Begun(a) == readyState[a] = "connecting" => pc[a] = "opening"

(* What the calls and messages of an attached socket say of the server is  *)
(* of the session that is active still.                                    *)
Answered(a) ==
    handler[a] \in Attached =>
        /\ \A s \in answers[a].session : s = active /\ s # None
        /\ \A st \in answers[a].states, p \in Pods : st[p] # Absent => record[p] # Absent
        /\ \A i \in 1 .. Len(down[a]) :
               down[a][i].type = "pod" => record[down[a][i].pod] # Absent

Shown == /\ Owners /\ Emptied
         /\ \A a \in Attempts : Unasked(a) /\ Begun(a) /\ Answered(a)

(* The attempt that is current has not got its snapshot from another's     *)
(* socket, nor before it was open.                                         *)
Current ==
    connectionAttemptId # None =>
        /\ pc[connectionAttemptId] = "opening" => phase # "playing"
        /\ pc[connectionAttemptId] = "snapshot" => socket \in {None, connectionAttemptId}

Report(p) == [type |-> "gone", session |-> session, pod |-> p]

(* A pod off the board is gone on the server, or its report is under way.  *)
Reported(p) ==
    \/ record[p].status = "GONE"
    \/ \E i \in 1 .. Len(up[socket]) : up[socket][i] = Report(p)

(* What is played is the active session, as far as the server listens.     *)
Played ==
    (phase = "playing" /\ socket # None /\ handler[socket] \in Attached) =>
        /\ session = active /\ active # None
        /\ \A p \in Pods : podsById[p] # Absent => record[p] # Absent
        /\ IsOpen(socket) => \A p \in xrEliminatedPodIds : Reported(p)


(* The handler that owns the slot is the only one that holds it. *)
LEMMA OwnersStep == TypeOK /\ Owners /\ [Next]_vars => Owners'
  <1> SUFFICES ASSUME TypeOK, Owners, [Next]_vars,
                      NEW b \in Attempts, handler'[b] \in Holding
               PROVE  client' = b
    BY DEF Owners
  <1> USE DEF Owners, Holding, TypeOK
  <1>1. CASE UNCHANGED <<handler, client>>
    BY <1>1
  <1>2. CASE StartSession
    BY <1>2 DEF StartSession
  <1>3. ASSUME NEW a \in Attempts,
               Upgrade(a) \/ Refuse(a) \/ Join(a) \/ CreateFails(a) \/ ReadClose(a)
                   \/ ServerNotices(a) \/ Break(a)
        PROVE  client' = b
    <2>1. \A c \in Attempts \ {a} : handler'[c] = handler[c]
      BY <1>3 DEF Upgrade, Refuse, Join, CreateFails, ReadClose, ServerNotices, Break
    <2>2. CASE Upgrade(a)
      BY <2>1, <2>2 DEF Upgrade
    <2>3. CASE Join(a) \/ Break(a)
      BY <2>1, <2>3 DEF Join, Break
    <2>4. CASE Refuse(a)
      BY <2>1, <2>4 DEF Refuse
    <2>5. CASE CreateFails(a) \/ ReadClose(a) \/ ServerNotices(a)
      <3>1. client = a /\ handler'[a] = "left"
        BY <2>5 DEF CreateFails, ReadClose, ServerNotices
      <3> QED
        BY <2>1, <3>1
    <2> QED
      BY <1>3, <2>2, <2>3, <2>4, <2>5
  <1>4. CASE [Player \/ XRAnswers \/ XREnds \/ GraceExpires]_vars /\ ~StartSession
    BY <1>1, <1>4 DEF Player, DisconnectSession, EnterXR, ReportPodGone, XRAnswers,
                      XREnds, GraceExpires, server, vars
  <1>5. ASSUME NEW a \in Attempts, Task(a) \/ Answer(a) \/ ReadReport(a)
        PROVE  client' = b
    <2>1. UNCHANGED <<handler, client>>
      BY <1>5 DEF Task, Answer, OnOpen, OnMessage, OnCloseUnopened, OnClose,
                  SnapshotArrives, AnswerSession, AnswerStates, RequestFails,
                  ReadReport, server
    <2> QED
      BY <1>1, <2>1
  <1>6. ASSUME NEW p \in Pods, PodChanges(p)
        PROVE  client' = b
    BY <1>1, <1>6 DEF PodChanges
  <1> QED
    BY <1>2, <1>3, <1>4, <1>5, <1>6 DEF Next, Service

(* No record is kept or written when no session is active. *)
LEMMA EmptiedStep == TypeOK /\ Emptied /\ [Next]_vars => Emptied'
  <1> SUFFICES ASSUME TypeOK, Emptied, [Next]_vars PROVE Emptied'
    OBVIOUS
  <1> USE DEF Emptied
  <1>1. CASE UNCHANGED <<active, record>>
    BY <1>1
  <1>2. CASE EndSession
    BY <1>2 DEF EndSession
  <1>3. CASE [Player \/ XRAnswers \/ XREnds \/ GraceExpires]_vars
    BY <1>1, <1>2, <1>3 DEF Player, StartSession, DisconnectSession, EnterXR,
       ReportPodGone, XRAnswers, XREnds, GraceExpires, server, vars
  <1>4. ASSUME NEW p \in Pods, PodChanges(p)
        PROVE  Emptied'
    BY <1>4 DEF PodChanges
  <1>5. ASSUME NEW a \in Attempts, Task(a) \/ Answer(a)
        PROVE  Emptied'
    <2>1. UNCHANGED <<active, record>>
      BY <1>5 DEF Task, Answer, OnOpen, OnMessage, OnCloseUnopened, OnClose,
                  SnapshotArrives, AnswerSession, AnswerStates, RequestFails, server
    <2> QED
      BY <1>1, <2>1
  <1>6. ASSUME NEW a \in Attempts, Join(a)
        PROVE  Emptied'
    BY <1>6 DEF Join
  <1>7. ASSUME NEW a \in Attempts, ReadReport(a)
        PROVE  Emptied'
    <2>1. Head(up[a]).pod \in Pods
      BY <1>7, QueueTypes, MessageTypes DEF ReadReport
    <2>2. active = None => record[Head(up[a]).pod] = Absent
      BY <2>1 DEF NoPods
    <2> QED
      BY <1>1, <1>7, <2>2 DEF ReadReport
  <1>8. ASSUME NEW a \in Attempts,
               Upgrade(a) \/ Refuse(a) \/ CreateFails(a) \/ ReadClose(a)
                   \/ ServerNotices(a) \/ Break(a)
        PROVE  Emptied'
    BY <1>1, <1>2, <1>8 DEF Upgrade, Refuse, CreateFails, ReadClose, ServerNotices,
                            Break
  <1> QED
    BY <1>3, <1>4, <1>5, <1>6, <1>7, <1>8 DEF Next, Service

(* What a socket that was not answered, or is connecting, has not done. *)
LEMMA UnaskedStep ==
    ASSUME TypeOK, Sockets, [Next]_vars, NEW b \in Attempts, Unasked(b), Begun(b)
    PROVE  Unasked(b)' /\ Begun(b)'
  <1> DEFINE Same == /\ handler'[b] \in {"none", "asked"} =>
                            /\ handler[b] \in {"none", "asked"}
                            /\ answers'[b] \in {answers[b], NoAnswer}
                            /\ down'[b] = down[b]
                            /\ pc'[b] = pc[b] /\ socket' \in {socket, None}
                     /\ readyState'[b] = "connecting" =>
                            readyState[b] = "connecting" /\ pc'[b] = pc[b]
  <1>0. ASSUME Same PROVE Unasked(b)' /\ Begun(b)'
    BY <1>0 DEF Unasked, Begun
  <1> HIDE DEF Same
  <1>1. CASE UNCHANGED <<handler, answers, down, pc, socket, readyState>>
    BY <1>0, <1>1 DEF Same
  <1>2. CASE StartSession
    <2>1. PICK a \in Attempts : a = connectionAttemptId + 1
      BY <1>2 DEF TypeOK, StartSession
    <2>2. handler[a] = "none"
      <3>1. a > connectionAttemptId
        BY <2>1 DEF TypeOK
      <3> QED
        BY <3>1 DEF Sockets, Fresh
    <2>3. CASE a = b
      BY <1>2, <2>1, <2>2, <2>3 DEF TypeOK, StartSession, Unasked, Begun
    <2>4. CASE a # b
      BY <1>0, <1>2, <2>1, <2>4 DEF TypeOK, StartSession, Same
    <2> QED
      BY <2>3, <2>4
  <1>3. ASSUME FinishDisconnect, UNCHANGED <<handler, answers, down, pc>>
        PROVE  Unasked(b)' /\ Begun(b)'
    <2>1. readyState'[b] = "connecting" => readyState[b] = "connecting"
      BY <1>3, ClosingKeeps DEF FinishDisconnect, TypeOK
    <2> QED
      BY <1>0, <1>3, <2>1 DEF Same, FinishDisconnect
  <1>4. CASE DisconnectSession \/ XREnds
    BY <1>1, <1>3, <1>4 DEF DisconnectSession, XREnds, server, calls
  <1>5. CASE UNCHANGED vars \/ EnterXR \/ XRAnswers \/ GraceExpires
                \/ \E p \in Pods : ReportPodGone(p)
    BY <1>1, <1>5 DEF vars, browser, EnterXR, XRAnswers, GraceExpires, ReportPodGone,
                      server, calls
  <1>6. ASSUME NEW p, NEW status, Publish(p, status), UNCHANGED <<browser, handler>>
        PROVE  Unasked(b)' /\ Begun(b)'
    BY <1>0, <1>6 DEF Same, Publish, Broadcast, browser, calls
  <1>7. ASSUME NEW a \in Attempts, Service(a) \/ Break(a)
        PROVE  Unasked(b)' /\ Begun(b)'
    <2>1. CASE ReadReport(a)
      BY <1>1, <1>6, <2>1 DEF ReadReport, browser, calls
    <2>2. CASE ~ReadReport(a)
      <3>1. /\ UNCHANGED browser
            /\ b # a => handler'[b] = handler[b] /\ down'[b] = down[b]
            /\ handler'[a] \notin {"none", "asked"}
        BY <1>7, <2>2 DEF Service, Upgrade, Refuse, Join, CreateFails, ReadClose,
                          ServerNotices, Break, TypeOK
      <3> QED
        BY <1>0, <3>1 DEF Same, browser, calls
    <2> QED
      BY <2>1, <2>2
  <1>8. ASSUME NEW a \in Attempts, Task(a), ~SnapshotArrives(a)
        PROVE  Unasked(b)' /\ Begun(b)'
    <2>1. down[a] # <<>> /\ Taken(a)
      BY <1>8 DEF Task, OnOpen, OnMessage, OnCloseUnopened, OnClose, Event
    <2>2. UNCHANGED handler
      BY <1>8 DEF Task, OnOpen, OnMessage, OnCloseUnopened, OnClose, server
    <2>3. handler[a] \notin {"none", "asked"} \/ a # b
      BY <2>1 DEF Unasked
    <2>4. CASE OnOpen(a)
      <3>1. /\ b # a => UNCHANGED <<pc[b], answers[b], readyState[b], down[b]>>
            /\ socket' \in {socket, a} /\ readyState'[a] # "connecting"
        BY <2>1, <2>4 DEF OnOpen, Settled, Taken, TypeOK
      <3> QED
        BY <1>0, <2>2, <2>3, <3>1 DEF Same, Unasked, Begun
    <2>5. CASE OnMessage(a)
      <3>1. readyState[a] # "connecting"
        BY <2>5, FirstEvent DEF OnMessage, Event
      <3>2. /\ UNCHANGED <<pc, answers, readyState, socket>>
            /\ b # a => down'[b] = down[b]
        BY <2>1, <2>5 DEF OnMessage, Taken, TypeOK, calls
      <3> QED
        BY <1>0, <2>2, <2>3, <3>1, <3>2 DEF Same
    <2>6. CASE OnCloseUnopened(a)
      <3>1. PICK s \in Ids : readyState' = [Closing(s) EXCEPT ![a] = "closed"]
        BY <2>6 DEF OnCloseUnopened, TypeOK
      <3>2. /\ readyState'[a] = "closed"
            /\ b # a => readyState'[b] = Closing(s)[b]
        BY <3>1, SendTypes
      <3>3. /\ b # a => UNCHANGED <<pc[b], answers[b], down[b]>>
            /\ socket' \in {socket, None}
        BY <2>1, <2>6 DEF OnCloseUnopened, AttemptFails, Settled, Taken, TypeOK, calls
      <3> QED
        BY <1>0, <2>2, <2>3, <3>2, <3>3, ClosingKeeps DEF Same
    <2>7. CASE OnClose(a)
      <3>1. /\ readyState'[a] = "closed"
            /\ b # a => readyState'[b] = readyState[b] /\ down'[b] = down[b]
            /\ UNCHANGED <<pc, answers>> /\ socket' \in {socket, None}
        BY <2>1, <2>7 DEF OnClose, Taken, TypeOK, calls
      <3> QED
        BY <1>0, <2>2, <2>3, <3>1 DEF Same
    <2> QED
      BY <1>8, <2>4, <2>5, <2>6, <2>7 DEF Task
  <1>9. ASSUME NEW a \in Attempts, Answer(a) \/ SnapshotArrives(a)
        PROVE  Unasked(b)' /\ Begun(b)'
    <2>1. pc[a] = "snapshot" /\ UNCHANGED <<handler, down>>
      BY <1>9 DEF Answer, AnswerSession, AnswerStates, RequestFails, SnapshotArrives,
                  server
    <2>2. /\ b # a => UNCHANGED <<pc[b], answers[b]>>
          /\ socket' \in {socket, None}
          /\ readyState'[b] = "connecting" => readyState[b] = "connecting"
      <3>1. b # a => UNCHANGED <<pc[b], answers[b]>>
        BY <1>9 DEF Answer, AnswerSession, AnswerStates, RequestFails,
                    SnapshotArrives, AttemptFails, Settled, TypeOK
      <3>2. socket' \in {socket, None}
        BY <1>9 DEF Answer, AnswerSession, AnswerStates, RequestFails,
                    SnapshotArrives, AttemptFails
      <3>3. readyState' \in {readyState, Closing(socket)}
        BY <1>9 DEF Answer, AnswerSession, AnswerStates, RequestFails,
                    SnapshotArrives, AttemptFails
      <3>4. socket \in Ids
        BY DEF TypeOK
      <3> QED
        BY <3>1, <3>2, <3>3, <3>4, ClosingKeeps
    <2>3. a = b => handler[b] \notin {"none", "asked"}
                   /\ readyState[b] # "connecting"
      BY <2>1 DEF Unasked, Begun
    <2> QED
      BY <1>0, <2>1, <2>2, <2>3 DEF Same
  <1>10. ASSUME NEW p \in Pods, PodChanges(p)
         PROVE  Unasked(b)' /\ Begun(b)'
    BY <1>6, <1>10 DEF PodChanges
  <1> QED
    BY <1>2, <1>4, <1>5, <1>7, <1>8, <1>9, <1>10 DEF Next, Player

(* What a step may change of an attached socket without saying anything    *)
(* new of the server.                                                      *)
LEMMA AnsweredKept ==
    ASSUME TypeOK, NEW b \in Attempts, Answered(b),
           handler'[b] \in Attached => handler[b] \in Attached,
           answers'[b] \in {answers[b], NoAnswer},
           active # None => active' = active,
           \A p \in Pods : record[p] # Absent => record'[p] # Absent,
           handler'[b] \in Attached =>
               \A i \in 1 .. Len(down'[b]) :
                   \/ \E j \in 1 .. Len(down[b]) : down'[b][i] = down[b][j]
                   \/ down'[b][i].type = "pod" =>
                          record'[down'[b][i].pod] # Absent
    PROVE  Answered(b)'
  <1> SUFFICES ASSUME handler'[b] \in Attached PROVE Answered(b)'
    BY DEF Answered, Attached
  <1>1. \A s \in answers'[b].session : s = active' /\ s # None
    BY DEF Answered, NoAnswer
  <1>2. \A st \in answers'[b].states, p \in Pods : st[p] # Absent => record'[p] # Absent
    BY DEF Answered, NoAnswer
  <1>3. ASSUME NEW i \in 1 .. Len(down'[b]), down'[b][i].type = "pod"
        PROVE  record'[down'[b][i].pod] # Absent
    <2>1. CASE \E j \in 1 .. Len(down[b]) : down'[b][i] = down[b][j]
      <3>1. PICK j \in 1 .. Len(down[b]) : down'[b][i] = down[b][j]
        BY <2>1
      <3>2. down[b][j] \in DownMessages
        BY DEF TypeOK
      <3> QED
        BY <1>3, <3>1, <3>2, MessageTypes DEF Answered
    <2>2. CASE record'[down'[b][i].pod] # Absent
      BY <2>2
    <2> QED
      BY <1>3, <2>1, <2>2
  <1> QED
    BY <1>1, <1>2, <1>3 DEF Answered

(* A publication says of a pod what its record says. *)
LEMMA PublishedRecord ==
    ASSUME TypeOK, NEW p \in Pods, NEW status \in {"LIVE", "GONE"},
           Publish(p, status)
    PROVE  /\ \A q \in Pods : record[q] # Absent => record'[q] # Absent
           /\ record'[p].status = status /\ record'[p] # Absent
           /\ \A q \in Pods \ {p} : record'[q] = record[q]
           /\ \A b \in Attempts : \A i \in 1 .. Len(down'[b]) :
                  \/ \E j \in 1 .. Len(down[b]) : down'[b][i] = down[b][j]
                  \/ down'[b][i].type = "pod" => record'[down'[b][i].pod] # Absent
  <1> DEFINE r == [status |-> status, seq |-> seq + 1]
  <1>1. record' = [record EXCEPT ![p] = r] /\ Broadcast(PodMsg(p, r))
    BY DEF Publish
  <1>2. r # Absent /\ r.status = status
    BY DEF Absent
  <1>3. r \in Existing
    BY DEF TypeOK, Existing
  <1> HIDE DEF r
  <1>4. /\ \A q \in Pods : record[q] # Absent => record'[q] # Absent
        /\ record'[p] = r
        /\ \A q \in Pods \ {p} : record'[q] = record[q]
    BY <1>1, <1>2 DEF TypeOK
  <1>5. ASSUME NEW b \in Attempts, NEW i \in 1 .. Len(down'[b])
        PROVE  \/ \E j \in 1 .. Len(down[b]) : down'[b][i] = down[b][j]
               \/ down'[b][i].type = "pod" => record'[down'[b][i].pod] # Absent
    <2>1. CASE handler[b] # "joined"
      <3>1. down'[b] = down[b]
        BY <1>1, <2>1 DEF Broadcast
      <3> QED
        BY <1>5, <3>1
    <2>2. CASE handler[b] = "joined"
      <3>1. down'[b] = Append(down[b], PodMsg(p, r))
        BY <1>1, <2>2 DEF Broadcast
      <3>2. down[b] \in Seq(DownMessages) /\ PodMsg(p, r) \in DownMessages
        BY <1>3, MessageTypes DEF TypeOK
      <3>3. /\ Len(down'[b]) = Len(down[b]) + 1 /\ Len(down[b]) \in Nat
            /\ \A j \in 1 .. Len(down[b]) : down'[b][j] = down[b][j]
            /\ down'[b][Len(down[b]) + 1] = PodMsg(p, r)
        BY <3>1, <3>2, Pushed
      <3>4. PodMsg(p, r).pod = p
        BY DEF PodMsg
      <3>5. i \in 1 .. Len(down[b]) \/ i = Len(down[b]) + 1
        BY <3>3
      <3> QED
        BY <1>2, <1>4, <3>3, <3>4, <3>5
    <2> QED
      BY <2>1, <2>2
  <1> QED
    BY <1>2, <1>4, <1>5

(* Messages that are taken or lost, and closing ones, are no news. *)
LEMMA NoNews ==
    ASSUME TypeOK, NEW a \in Attempts, NEW b \in Attempts,
           \/ down' = down
           \/ down' = [down EXCEPT ![a] = Append(@, Close)]
           \/ down[a] # <<>> /\ Taken(a)
    PROVE  \A i \in 1 .. Len(down'[b]) :
               \/ \E j \in 1 .. Len(down[b]) : down'[b][i] = down[b][j]
               \/ down'[b][i].type = "pod" => record'[down'[b][i].pod] # Absent
  <1>1. CASE down'[b] = down[b]
    BY <1>1
  <1>2. CASE a = b /\ down'[b] = Append(down[b], Close)
    <2>1. down[b] \in Seq(DownMessages) /\ Close \in DownMessages
      BY MessageTypes DEF TypeOK
    <2>2. /\ Len(down'[b]) = Len(down[b]) + 1 /\ Len(down[b]) \in Nat
          /\ \A j \in 1 .. Len(down[b]) : down'[b][j] = down[b][j]
          /\ down'[b][Len(down[b]) + 1] = Close
      BY <1>2, <2>1, Pushed
    <2>3. \A i \in 1 .. Len(down'[b]) : i \in 1 .. Len(down[b]) \/ i = Len(down[b]) + 1
      BY <2>2
    <2>4. Close.type # "pod"
      BY DEF Close
    <2> QED
      BY <2>2, <2>3, <2>4
  <1>3. CASE a = b /\ down[b] # <<>> /\ down'[b] = Tail(down[b])
    <2>1. down[b] \in Seq(DownMessages)
      BY DEF TypeOK
    <2>2. /\ Len(down'[b]) = Len(down[b]) - 1 /\ Len(down[b]) \in Nat
          /\ \A i \in 1 .. Len(down'[b]) : down'[b][i] = down[b][i + 1]
      BY <1>3, <2>1, Popped
    <2>3. \A i \in 1 .. Len(down'[b]) : i + 1 \in 1 .. Len(down[b])
      BY <2>2
    <2> QED
      BY <2>2, <2>3
  <1>4. /\ \A m : [down EXCEPT ![a] = Append(@, m)][b]
                     = IF a = b THEN Append(down[b], m) ELSE down[b]
        /\ [down EXCEPT ![a] = Tail(@)][b]
               = IF a = b THEN Tail(down[b]) ELSE down[b]
    BY DEF TypeOK
  <1> QED
    BY <1>1, <1>2, <1>3, <1>4 DEF Taken

(* The rest of the server is not touched by the browser, and the messages  *)
(* it reads are no news.                                                   *)
LEMMA BrowserSays ==
    ASSUME TypeOK, [Next]_vars,
           \/ UNCHANGED vars
           \/ Player \/ XRAnswers \/ XREnds
           \/ \E a \in Attempts : Task(a) \/ RequestFails(a)
    PROVE  /\ UNCHANGED <<active, record, seq, client>>
           /\ \A b \in Attempts :
                  /\ handler'[b] = handler[b] \/ handler'[b] = "asked"
                  /\ answers'[b] \in {answers[b], NoAnswer}
                  /\ \A i \in 1 .. Len(down'[b]) :
                         \/ \E j \in 1 .. Len(down[b]) : down'[b][i] = down[b][j]
                         \/ down'[b][i].type = "pod" =>
                                record'[down'[b][i].pod] # Absent
  <1> DEFINE Mute == /\ UNCHANGED <<active, record, seq, client>>
                     /\ \A b \in Attempts :
                            /\ handler'[b] = handler[b] \/ handler'[b] = "asked"
                            /\ answers'[b] \in {answers[b], NoAnswer}
                     /\ \/ down' = down
                        \/ \E a \in Attempts : down[a] # <<>> /\ Taken(a)
  <1>0. CASE Mute
    BY <1>0, NoNews
  <1>1. CASE UNCHANGED vars \/ XRAnswers \/ XREnds
    BY <1>1 DEF vars, browser, XRAnswers, XREnds, FinishDisconnect, server, calls
  <1>2. CASE Player
    <2>1. CASE StartSession
      BY <2>1 DEF StartSession, TypeOK
    <2>2. CASE ~StartSession
      BY <1>2, <2>2 DEF Player, DisconnectSession, EnterXR, ReportPodGone, server, calls
    <2> QED
      BY <2>1, <2>2, <1>0
  <1>3. ASSUME NEW a \in Attempts, Task(a) \/ RequestFails(a) PROVE Mute
    BY <1>3 DEF Task, OnOpen, OnMessage, OnCloseUnopened, OnClose, SnapshotArrives,
                RequestFails, AttemptFails, Settled, Event, server, calls, TypeOK
  <1> QED
    BY <1>0, <1>1, <1>2, <1>3

(* What an attached socket is told stays true. *)
LEMMA AnsweredStep ==
    ASSUME TypeOK, Shown, [Next]_vars, NEW b \in Attempts
    PROVE  Answered(b)'
  <1>0. Answered(b) /\ Unasked(b) /\ Owners /\ Emptied
    BY DEF Shown
  <1>1. CASE \/ UNCHANGED vars
             \/ Player \/ XRAnswers \/ XREnds
             \/ \E a \in Attempts : Task(a) \/ RequestFails(a)
    BY <1>0, <1>1, BrowserSays, AnsweredKept DEF Attached
  <1>2. CASE GraceExpires
    <2>1. handler'[b] \notin Attached
      BY <1>0, <1>2 DEF GraceExpires, Owners, Holding, Attached
    <2> QED
      BY <2>1 DEF Answered, Attached
  <1>3. ASSUME NEW p \in Pods, PodChanges(p)
        PROVE  Answered(b)'
    BY <1>0, <1>3, PublishedRecord, AnsweredKept DEF PodChanges, browser, calls
  <1>4. ASSUME NEW a \in Attempts, ReadReport(a)
        PROVE  Answered(b)'
    <2>1. UNCHANGED <<handler, answers, active>> /\ Head(up[a]).pod \in Pods
      BY <1>4, QueueTypes, MessageTypes DEF ReadReport, browser, calls
    <2>2. CASE UNCHANGED <<record, down>>
      BY <1>0, <2>1, <2>2, AnsweredKept
    <2>3. CASE Publish(Head(up[a]).pod, "GONE")
      BY <1>0, <2>1, <2>3, PublishedRecord, AnsweredKept
    <2> QED
      BY <1>4, <2>2, <2>3 DEF ReadReport
  <1>5. ASSUME NEW a \in Attempts, AnswerSession(a) \/ AnswerStates(a)
        PROVE  Answered(b)'
    <2>1. UNCHANGED <<handler, active, record, down>>
      BY <1>5 DEF AnswerSession, AnswerStates, server
    <2>2. CASE a # b
      <3>1. answers'[b] = answers[b]
        BY <1>5, <2>2 DEF AnswerSession, AnswerStates, TypeOK
      <3> QED
        BY <1>0, <2>1, <3>1, AnsweredKept
    <2>3. CASE a = b /\ AnswerSession(a)
      <3>1. answers'[b].session = {active} /\ answers'[b].states = answers[b].states
            /\ active # None
        BY <2>3 DEF AnswerSession, TypeOK
      <3> QED
        BY <1>0, <2>1, <3>1 DEF Answered
    <2>4. CASE a = b /\ AnswerStates(a)
      <3>1. answers'[b].states = {record} /\ answers'[b].session = answers[b].session
        BY <2>4 DEF AnswerStates, TypeOK
      <3> QED
        BY <1>0, <2>1, <3>1 DEF Answered
    <2> QED
      BY <1>5, <2>2, <2>3, <2>4
  <1>6. ASSUME NEW a \in Attempts,
               \/ Refuse(a) \/ ServerNotices(a) \/ CreateFails(a)
               \/ ReadClose(a) \/ Break(a)
        PROVE  Answered(b)'
    <2>1. /\ handler'[a] \notin Attached
          /\ a # b => handler'[b] = handler[b] /\ down'[b] = down[b]
          /\ UNCHANGED answers
      BY <1>6 DEF Refuse, ServerNotices, CreateFails, ReadClose, Break, Attached,
                  browser, calls, TypeOK
    <2>2. CASE handler'[b] \notin Attached
      BY <2>2 DEF Answered, Attached
    <2>3. CASE UNCHANGED <<active, record>> /\ a # b
      BY <1>0, <2>1, <2>3, AnsweredKept
    <2>4. CASE ReadClose(a) /\ a # b
      BY <1>0, <2>1, <2>2, <2>4 DEF ReadClose, Owners, Holding, Attached
    <2> QED
      BY <1>6, <2>1, <2>2, <2>3, <2>4
         DEF Refuse, ServerNotices, CreateFails, Break
  <1>7. ASSUME NEW a \in Attempts, Upgrade(a)
        PROVE  Answered(b)'
    <2>1. handler[b] \notin Attached
      BY <1>0, <1>7 DEF Upgrade, Owners, Holding, Attached
    <2>2. CASE a # b
      BY <1>7, <2>1, <2>2 DEF Upgrade, Answered, Attached, TypeOK
    <2>3. CASE a = b
      <3>1. down'[b] = <<Open>>
        <4>1. down[b] = <<>>
          BY <1>0, <1>7, <2>3 DEF Upgrade, Unasked
        <4>2. down'[b] = Append(down[b], Open)
          BY <1>7, <2>3 DEF Upgrade, TypeOK
        <4> QED
          BY <4>1, <4>2
      <3>2. Len(down'[b]) = 1 /\ down'[b][1].type = "open"
        BY <3>1 DEF Open
      <3>3. answers'[b] = NoAnswer
        BY <1>0, <1>7, <2>3 DEF Upgrade, Unasked, browser, calls
      <3> QED
        BY <3>2, <3>3 DEF Answered, NoAnswer
    <2> QED
      BY <2>2, <2>3
  <1>8. ASSUME NEW a \in Attempts, Join(a)
        PROVE  Answered(b)'
    <2>1. UNCHANGED <<answers, record, down>> /\ (active # None => active' = active)
      BY <1>8 DEF Join, browser, calls
    <2>2. handler'[b] \in Attached => handler[b] \in Attached
      BY <1>8 DEF Join, Attached, TypeOK
    <2> QED
      BY <1>0, <2>1, <2>2, AnsweredKept
  <1> QED
    BY <1>1, <1>2, <1>3, <1>4, <1>5, <1>6, <1>7, <1>8 DEF Next, Service, Answer

(* Every step keeps what is shown.                                         *)
LEMMA ShownStep == TypeOK /\ Sockets /\ Shown /\ [Next]_vars => Shown'
  BY OwnersStep, EmptiedStep, UnaskedStep, AnsweredStep DEF Shown

(* The current attempt's snapshot follows its own opening. *)
LEMMA CurrentStep ==
    ASSUME TypeOK, Sockets, Shown, Current, [Next]_vars
    PROVE  Current'
  <1> USE DEF Current
  <1>0. connectionAttemptId \in Ids
    BY DEF TypeOK
  <1>1. CASE UNCHANGED <<connectionAttemptId, pc, phase, socket>>
    BY <1>1
  <1>2. CASE UNCHANGED <<connectionAttemptId, pc>> /\ socket' = None /\ phase' # "playing"
    BY <1>2
  <1>3. ASSUME connectionAttemptId' = connectionAttemptId + 1, pc' = pc
        PROVE  Current'
    <2>1. CASE connectionAttemptId' \in Attempts
      <3>1. pc[connectionAttemptId'] = "idle"
        BY <1>0, <1>3, <2>1 DEF Sockets, Fresh
      <3> QED
        BY <1>3, <3>1
    <2>2. CASE connectionAttemptId' \notin Attempts
      <3>1. connectionAttemptId' \in Ids
        BY TypeStep DEF TypeOK
      <3> QED
        BY <2>2, <3>1
    <2> QED
      BY <2>1, <2>2
  <1>4. CASE DisconnectSession
    BY <1>3, <1>4 DEF DisconnectSession, calls
  <1>5. CASE StartSession
    BY <1>0, <1>5 DEF StartSession, TypeOK
  <1>6. CASE XREnds
    BY <1>1, <1>2, <1>6 DEF XREnds, FinishDisconnect, calls, store
  <1>7. CASE UNCHANGED vars \/ EnterXR \/ XRAnswers \/ GraceExpires
    BY <1>1, <1>7 DEF vars, browser, EnterXR, XRAnswers, GraceExpires, calls, store
  <1>8. ASSUME NEW p \in Pods, ReportPodGone(p) \/ PodChanges(p)
        PROVE  Current'
    BY <1>1, <1>8 DEF ReportPodGone, PodChanges, browser, calls, store
  <1>9. ASSUME NEW a \in Attempts, Service(a) \/ Break(a)
        PROVE  Current'
    <2>1. UNCHANGED browser
      BY <1>9 DEF Service, Break, Upgrade, Refuse, Join, CreateFails, ReadReport,
                  ReadClose, ServerNotices
    <2> QED
      BY <1>1, <2>1 DEF browser, calls, store
  <1>10. ASSUME NEW a \in Attempts, OnOpen(a)
         PROVE  Current'
    BY <1>0, <1>10 DEF OnOpen, Settled, TypeOK, store
  <1>11. ASSUME NEW a \in Attempts,
                OnMessage(a) \/ AnswerSession(a) \/ AnswerStates(a)
         PROVE  Current'
    BY <1>1, <1>11 DEF OnMessage, AnswerSession, AnswerStates, calls, store
  <1>12. ASSUME NEW a \in Attempts, OnClose(a)
         PROVE  Current'
    BY <1>1, <1>2, <1>12 DEF OnClose, calls, store
  <1>13. ASSUME NEW a \in Attempts, AttemptFails(a), UNCHANGED connectionAttemptId
         PROVE  Current'
    BY <1>0, <1>13 DEF AttemptFails, Settled, TypeOK
  <1>14. ASSUME NEW a \in Attempts, OnCloseUnopened(a) \/ RequestFails(a)
         PROVE  Current'
    BY <1>1, <1>13, <1>14 DEF OnCloseUnopened, RequestFails, calls
  <1>15. ASSUME NEW a \in Attempts, SnapshotArrives(a)
         PROVE  Current'
    BY <1>0, <1>15 DEF SnapshotArrives, Settled, TypeOK, store
  <1> QED
    BY <1>4, <1>5, <1>6, <1>7, <1>8, <1>9, <1>10, <1>11, <1>12, <1>14, <1>15
    DEF Next, Player, Task, Answer

(* What keeps a game in accord with the server. *)
LEMMA PlayedKept ==
    ASSUME TypeOK, TypeOK', Played,
           (phase' = "playing" /\ socket' # None /\ handler'[socket'] \in Attached) =>
               /\ phase = "playing" /\ socket' = socket /\ session' = session
               /\ handler[socket] \in Attached
               /\ active # None => active' = active
               /\ \A p \in Pods :
                      /\ podsById'[p] # Absent =>
                             podsById[p] # Absent \/ record[p] # Absent
                      /\ record[p] # Absent => record'[p] # Absent
               /\ IsOpen(socket)' =>
                      /\ IsOpen(socket) /\ xrEliminatedPodIds' \subseteq xrEliminatedPodIds
                      /\ \A p \in xrEliminatedPodIds : Reported(p) => Reported(p)'
    PROVE  Played'
  <1> SUFFICES ASSUME phase' = "playing", socket' # None,
                      handler'[socket'] \in Attached
               PROVE  /\ session' = active' /\ active' # None
                      /\ \A p \in Pods : podsById'[p] # Absent => record'[p] # Absent
                      /\ IsOpen(socket)' => \A p \in xrEliminatedPodIds' : Reported(p)'
    BY DEF Played, Attached
  <1>1. /\ session = active /\ active # None
        /\ \A p \in Pods : podsById[p] # Absent => record[p] # Absent
        /\ IsOpen(socket) => \A p \in xrEliminatedPodIds : Reported(p)
    BY DEF Played
  <1> QED
    BY <1>1

(* What was reported stays reported. *)
LEMMA ReportedKept ==
    ASSUME NEW p \in Pods, Reported(p), UNCHANGED <<session, socket>>,
           record[p].status = "GONE" => record'[p].status = "GONE",
           \A i \in 1 .. Len(up[socket]) :
               up[socket][i] = Report(p) =>
                   \/ record'[p].status = "GONE"
                   \/ \E j \in 1 .. Len(up'[socket]) : up'[socket][j] = Report(p)
    PROVE  Reported(p)'
  BY DEF Reported, Report

(* What is sent comes after the reports that are under way. *)
LEMMA SentAfter ==
    ASSUME TypeOK, NEW a \in Attempts, NEW s \in Attempts, NEW m \in UpMessages,
           up' = up \/ up' = [up EXCEPT ![a] = Append(@, m)]
    PROVE  /\ \A i \in 1 .. Len(up[s]) :
                  i \in 1 .. Len(up'[s]) /\ up'[s][i] = up[s][i]
           /\ up' = [up EXCEPT ![s] = Append(@, m)] =>
                  \E i \in 1 .. Len(up'[s]) : up'[s][i] = m
  <1>1. up[s] \in Seq(UpMessages)
    BY DEF TypeOK
  <1>2. /\ Len(Append(up[s], m)) = Len(up[s]) + 1 /\ Len(up[s]) \in Nat
        /\ \A i \in 1 .. Len(up[s]) : Append(up[s], m)[i] = up[s][i]
        /\ Append(up[s], m)[Len(up[s]) + 1] = m
    BY <1>1, Pushed
  <1>3. up'[s] = up[s] \/ up'[s] = Append(up[s], m)
    BY DEF TypeOK
  <1>4. up' = [up EXCEPT ![s] = Append(@, m)] => up'[s] = Append(up[s], m)
    BY DEF TypeOK
  <1> QED
    BY <1>2, <1>3, <1>4

(* A step that changes no report under way, and no game.                   *)
LEMMA GameKept ==
    ASSUME TypeOK, TypeOK', Played, UNCHANGED <<socket, store>>,
           (socket # None /\ handler'[socket] \in Attached) =>
               /\ handler[socket] \in Attached
               /\ active # None => active' = active
               /\ \A p \in Pods :
                      /\ record[p] # Absent => record'[p] # Absent
                      /\ record[p].status = "GONE" => record'[p].status = "GONE"
               /\ readyState'[socket] = "open" => readyState[socket] = "open"
               /\ \A i \in 1 .. Len(up[socket]) :
                      i \in 1 .. Len(up'[socket]) /\ up'[socket][i] = up[socket][i]
    PROVE  Played'
  <1> USE DEF store
  <1>1. ASSUME socket # None, handler'[socket] \in Attached,
               NEW p \in xrEliminatedPodIds, Reported(p)
        PROVE  Reported(p)'
    <2>1. p \in Pods
      BY DEF TypeOK
    <2> QED
      BY <1>1, <2>1, ReportedKept
  <1>2. socket # None /\ handler'[socket] \in Attached =>
            (IsOpen(socket)' => IsOpen(socket))
    BY DEF IsOpen
  <1> QED
    BY <1>1, <1>2, PlayedKept

(* Every step keeps the game in accord with the server. *)
LEMMA PlayedStep ==
    ASSUME TypeOK, Sockets, Shown, Current, Played, [Next]_vars
    PROVE  Played'
  <1>0. TypeOK' /\ connectionAttemptId \in Ids /\ socket \in Ids /\ client \in Ids
    <2>1. TypeOK'
      BY TypeStep
    <2> QED
      BY <2>1 DEF TypeOK
  <1>1. CASE phase' # "playing" \/ socket' = None
    BY <1>1 DEF Played
  <1>2. CASE UNCHANGED <<socket, store, handler, active, record, readyState, up>>
    BY <1>0, <1>2, GameKept
  <1>3. CASE StartSession
    BY <1>1, <1>3 DEF StartSession
  <1>4. CASE DisconnectSession \/ XREnds
    BY <1>1, <1>2, <1>4 DEF DisconnectSession, XREnds, FinishDisconnect, server
  <1>5. CASE UNCHANGED vars \/ EnterXR \/ XRAnswers
    BY <1>2, <1>5 DEF vars, browser, EnterXR, XRAnswers, server
  <1>6. ASSUME NEW p \in Pods, ReportPodGone(p)
        PROVE  Played'
    <2>1. /\ UNCHANGED <<socket, session, phase, server, readyState>>
          /\ podsById[p] # Absent /\ socket \in Attempts
          /\ \A q \in Pods : podsById'[q] # Absent => podsById[q] # Absent
          /\ xrEliminatedPodIds' = xrEliminatedPodIds \cup {p}
          /\ up' = Send(socket, Report(p))
      <3>1. /\ UNCHANGED <<socket, session, phase, server, readyState>>
            /\ podsById[p].status = "LIVE" /\ socket # None
            /\ podsById' = [podsById EXCEPT ![p].status = "GONE"]
            /\ xrEliminatedPodIds' = xrEliminatedPodIds \cup {p}
            /\ up' = Send(socket, Report(p))
        BY <1>6 DEF ReportPodGone, Report
      <3>2. podsById[p] # Absent
        BY <3>1 DEF Absent
      <3>3. \A q \in Pods \ {p} : podsById'[q] = podsById[q]
        BY <3>1 DEF TypeOK
      <3> QED
        BY <1>0, <3>1, <3>2, <3>3
    <2>2. Report(p) \in UpMessages
      BY MessageTypes DEF Report, TypeOK
    <2>3. \A i \in 1 .. Len(up[socket]) :
              i \in 1 .. Len(up'[socket]) /\ up'[socket][i] = up[socket][i]
      BY <2>1, <2>2, SentAfter DEF Send
    <2>4. ASSUME NEW q \in Pods, Reported(q)
          PROVE  Reported(q)'
      BY <2>1, <2>3, <2>4, ReportedKept DEF server
    <2>5. ASSUME IsOpen(socket), handler[socket] \in Attached
          PROVE  Reported(p)'
      <3>1. up' = [up EXCEPT ![socket] = Append(@, Report(p))]
        BY <2>1, <2>5 DEF Send, Attached
      <3>2. \E i \in 1 .. Len(up'[socket]) : up'[socket][i] = Report(p)
        BY <2>1, <2>2, <3>1, SentAfter
      <3> QED
        BY <2>1, <3>2 DEF Reported, Report
    <2>6. xrEliminatedPodIds \subseteq Pods
      BY DEF TypeOK
    <2>7. IsOpen(socket)' => IsOpen(socket)
      BY <2>1 DEF IsOpen
    <2> QED
      BY <2>1, <2>4, <2>5, <2>6, <2>7 DEF Played, server
  <1>7. CASE GraceExpires
    <2>1. \A b \in Attempts : handler'[b] \notin Attached
      BY <1>7 DEF GraceExpires, Shown, Owners, Holding, Attached
    <2> QED
      BY <1>0, <2>1 DEF Played, TypeOK
  <1>8. ASSUME NEW p \in Pods, PodChanges(p)
        PROVE  Played'
    <2>1. PICK status \in {"LIVE", "GONE"} : Publish(p, status)
      BY <1>8 DEF PodChanges
    <2>2. \A q \in Pods : /\ record[q] # Absent => record'[q] # Absent
                          /\ record[q].status = "GONE" => record'[q].status = "GONE"
      BY <1>8, <2>1, PublishedRecord DEF PodChanges
    <2> QED
      BY <1>0, <1>8, <2>2, GameKept DEF PodChanges, browser
  <1>9. ASSUME NEW a \in Attempts,
               \/ Upgrade(a) \/ Refuse(a) \/ CreateFails(a) \/ Join(a)
               \/ ServerNotices(a) \/ Break(a)
        PROVE  Played'
    <2>1. UNCHANGED <<browser, record>> /\ (active # None => active' = active)
      BY <1>9 DEF Upgrade, Refuse, CreateFails, Join, ServerNotices, Break
    <2>2. socket # None /\ handler'[socket] \in Attached =>
              handler[socket] \in Attached /\ up'[socket] = up[socket]
      <3>1. CASE Upgrade(a)
        BY <1>0, <3>1 DEF Upgrade, Shown, Unasked, TypeOK
      <3>2. CASE Join(a)
        BY <1>0, <3>2 DEF Join, Attached, TypeOK
      <3>3. CASE Refuse(a) \/ CreateFails(a) \/ ServerNotices(a) \/ Break(a)
        <4>1. handler'[a] \notin Attached
          BY <3>3 DEF Refuse, CreateFails, ServerNotices, Break, Attached, TypeOK
        <4>2. \A b \in Attempts \ {a} : handler'[b] = handler[b] /\ up'[b] = up[b]
          BY <3>3 DEF Refuse, CreateFails, ServerNotices, Break, TypeOK
        <4> QED
          BY <1>0, <4>1, <4>2
      <3> QED
        BY <1>9, <3>1, <3>2, <3>3
    <2> QED
      BY <1>0, <2>1, <2>2, GameKept DEF browser
  <1>10. ASSUME NEW a \in Attempts, ReadClose(a)
         PROVE  Played'
    <2>1. \A b \in Attempts : handler'[b] \notin Attached
      BY <1>10 DEF ReadClose, Shown, Owners, Holding, Attached, TypeOK
    <2> QED
      BY <1>0, <2>1 DEF Played, TypeOK
  <1>11. ASSUME NEW a \in Attempts, ReadReport(a)
         PROVE  Played'
    <2> DEFINE m == Head(up[a])
    <2>1. /\ UNCHANGED <<browser, handler, client, active>>
          /\ up' = [up EXCEPT ![a] = Tail(@)] /\ up[a] # <<>> /\ m.pod \in Pods
      BY <1>11, QueueTypes, MessageTypes DEF ReadReport
    <2>2. \/ UNCHANGED record /\ ~(m.session = active /\ record[m.pod] # Absent)
          \/ Publish(m.pod, "GONE")
      BY <1>11 DEF ReadReport
    <2>3. \A q \in Pods : /\ record[q] # Absent => record'[q] # Absent
                          /\ record[q].status = "GONE" => record'[q].status = "GONE"
      BY <2>1, <2>2, PublishedRecord
    <2>4. Publish(m.pod, "GONE") => record'[m.pod].status = "GONE"
      BY <2>1, PublishedRecord
    <2>5. CASE a # socket
      <3>1. socket # None => up'[socket] = up[socket]
        BY <1>0, <2>1, <2>5 DEF TypeOK
      <3> QED
        BY <1>0, <2>1, <2>3, <3>1, GameKept DEF browser
    <2>6. CASE a = socket
      <3>1. up[a] \in Seq(UpMessages) /\ up'[a] = Tail(up[a])
        BY <2>1 DEF TypeOK
      <3>2. /\ Len(up'[a]) = Len(up[a]) - 1 /\ Len(up[a]) \in Nat \ {0}
            /\ m = up[a][1]
            /\ \A i \in 1 .. Len(up'[a]) : up'[a][i] = up[a][i + 1]
        <4> HIDE DEF m
        <4>1. /\ Len(Tail(up[a])) = Len(up[a]) - 1 /\ Len(up[a]) \in Nat \ {0}
              /\ Head(up[a]) = up[a][1]
              /\ \A i \in 1 .. Len(Tail(up[a])) : Tail(up[a])[i] = up[a][i + 1]
          BY <2>1, <3>1, Popped
        <4> QED
          BY <3>1, <4>1 DEF m
      <3> HIDE DEF m
      <3>3. ASSUME NEW p \in xrEliminatedPodIds, Reported(p),
                   session = active, record[p] # Absent
            PROVE  Reported(p)'
        <4>1. p \in Pods
          BY DEF TypeOK
        <4>2. ASSUME NEW i \in 1 .. Len(up[a]), up[a][i] = Report(p)
              PROVE  \/ record'[p].status = "GONE"
                     \/ \E j \in 1 .. Len(up'[a]) : up'[a][j] = Report(p)
          <5>1. CASE i = 1
            <6>1. m.session = active /\ m.pod = p
              BY <3>2, <3>3, <4>2, <5>1 DEF Report
            <6> QED
              BY <2>2, <2>4, <3>3, <6>1
          <5>2. CASE i # 1
            <6>1. i - 1 \in 1 .. Len(up'[a]) /\ up'[a][i - 1] = up[a][i]
              BY <3>2, <4>2, <5>2
            <6> QED
              BY <4>2, <6>1
          <5> QED
            BY <5>1, <5>2
        <4> QED
          BY <2>1, <2>3, <2>6, <3>3, <4>1, <4>2, ReportedKept DEF browser, store
      <3>4. ASSUME phase = "playing", socket # None, handler[socket] \in Attached,
                   NEW p \in xrEliminatedPodIds, Reported(p)
            PROVE  Reported(p)'
        <4>1. p \in Pods /\ podsById[p] # Absent
          BY DEF TypeOK
        <4>2. session = active /\ record[p] # Absent
          BY <3>4, <4>1 DEF Played
        <4> QED
          BY <3>3, <3>4, <4>2
      <3>5. IsOpen(socket)' => IsOpen(socket)
        BY <2>1 DEF browser, IsOpen
      <3> QED
        BY <1>0, <2>1, <2>3, <3>4, <3>5, PlayedKept DEF browser, store
    <2> QED
      BY <2>5, <2>6
  <1>12. ASSUME NEW a \in Attempts, OnOpen(a)
         PROVE  Played'
    <2>1. UNCHANGED <<store, server>>
      BY <1>12 DEF OnOpen
    <2>2. CASE a = connectionAttemptId
      <3>1. readyState[a] = "connecting"
        BY <1>12, FirstEvent DEF OnOpen, Event
      <3>2. phase # "playing"
        BY <2>2, <3>1 DEF Shown, Begun, Current
      <3> QED
        BY <1>1, <2>1, <3>2 DEF store
    <2>3. CASE a # connectionAttemptId
      <3>1. /\ socket' = socket /\ readyState'[a] = "closing"
            /\ \A b \in Attempts \ {a} : readyState'[b] = readyState[b]
            /\ up' = up \/ up' = [up EXCEPT ![a] = Append(@, Close)]
        BY <1>12, <2>3 DEF OnOpen, TypeOK
      <3>2. socket # None => \A i \in 1 .. Len(up[socket]) :
                i \in 1 .. Len(up'[socket]) /\ up'[socket][i] = up[socket][i]
        BY <1>0, <3>1, SentAfter, MessageTypes
      <3> QED
        BY <1>0, <2>1, <3>1, <3>2, GameKept DEF server
    <2> QED
      BY <2>2, <2>3
  <1>13. ASSUME NEW a \in Attempts, OnMessage(a)
         PROVE  Played'
    <2>1. UNCHANGED <<socket, phase, session, readyState, up, server>>
      BY <1>13 DEF OnMessage
    <2>2. CASE UNCHANGED <<podsById, xrEliminatedPodIds>>
      BY <1>2, <2>1, <2>2 DEF store, server
    <2>3. CASE /\ socket = a
               /\ UpsertPod(Head(down[a]).pod, Head(down[a]).state)
      <3> DEFINE p == Head(down[a]).pod
      <3>1. /\ down[a] # <<>> /\ Head(down[a]).type = "pod"
            /\ Head(down[a]) = down[a][1] /\ 1 \in 1 .. Len(down[a])
            /\ down[a][1] \in DownMessages
        BY <1>13, Popped DEF OnMessage, Event, TypeOK
      <3>2. p \in Pods
        BY <3>1, MessageTypes
      <3>3. handler[a] \in Attached => record[p] # Absent
        BY <3>1 DEF Shown, Answered
      <3>4. /\ \A q \in Pods : podsById'[q] # Absent => podsById[q] # Absent \/ q = p
            /\ xrEliminatedPodIds' \subseteq xrEliminatedPodIds
        BY <2>3, <3>2 DEF UpsertPod, TypeOK
      <3>5. \A q \in xrEliminatedPodIds : Reported(q) => Reported(q)'
        BY <2>1 DEF Reported, Report, server
      <3>6. IsOpen(socket)' => IsOpen(socket)
        BY <2>1 DEF IsOpen
      <3> HIDE DEF p
      <3> QED
        BY <1>0, <2>1, <2>3, <3>3, <3>4, <3>5, <3>6, PlayedKept DEF server
    <2> QED
      BY <1>13, <2>2, <2>3 DEF OnMessage
  <1>14. ASSUME NEW a \in Attempts, OnCloseUnopened(a)
         PROVE  Played'
    <2>1. CASE a = connectionAttemptId
      BY <1>1, <1>14, <2>1 DEF OnCloseUnopened, AttemptFails
    <2>2. CASE a # connectionAttemptId
      <3>1. /\ UNCHANGED <<socket, store, up, server>>
            /\ readyState' = [readyState EXCEPT ![a] = "closed"]
        BY <1>14, <2>2 DEF OnCloseUnopened, Closing, IsOpen, store
      <3>2. \A b \in Attempts : readyState'[b] = "open" => readyState[b] = "open"
        BY <3>1 DEF TypeOK
      <3> QED
        BY <1>0, <3>1, <3>2, GameKept DEF server
    <2> QED
      BY <2>1, <2>2
  <1>15. ASSUME NEW a \in Attempts, OnClose(a)
         PROVE  Played'
    <2>1. CASE UNCHANGED <<socket, store>>
      <3>1. /\ UNCHANGED <<up, server>>
            /\ readyState' = [readyState EXCEPT ![a] = "closed"]
        BY <1>15 DEF OnClose
      <3>2. \A b \in Attempts : readyState'[b] = "open" => readyState[b] = "open"
        BY <3>1 DEF TypeOK
      <3> QED
        BY <1>0, <2>1, <3>1, <3>2, GameKept DEF server
    <2> QED
      BY <1>1, <1>15, <2>1 DEF OnClose
  <1>16. ASSUME NEW a \in Attempts, AnswerSession(a) \/ AnswerStates(a)
         PROVE  Played'
    BY <1>2, <1>16 DEF AnswerSession, AnswerStates, server
  <1>17. ASSUME NEW a \in Attempts, RequestFails(a)
         PROVE  Played'
    BY <1>1, <1>2, <1>17 DEF RequestFails, AttemptFails, server, store
  <1>18. ASSUME NEW a \in Attempts, SnapshotArrives(a)
         PROVE  Played'
    <2>1. UNCHANGED <<socket, readyState, up, server>>
      BY <1>18 DEF SnapshotArrives
    <2>2. PICK s \in answers[a].session, states \in answers[a].states :
              IF a = connectionAttemptId
              THEN /\ phase' = "playing"
                   /\ session' = s
                   /\ podsById' = states
                   /\ xrEliminatedPodIds' = {}
              ELSE UNCHANGED <<store>>
      BY <1>18 DEF SnapshotArrives
    <2>3. CASE a # connectionAttemptId
      BY <1>2, <2>1, <2>2, <2>3 DEF server
    <2>4. CASE a = connectionAttemptId
      <3>1. socket \in {None, a}
        BY <1>18, <2>4 DEF SnapshotArrives, Current
      <3>2. handler[a] \in Attached =>
                /\ s = active /\ s # None
                /\ \A p \in Pods : states[p] # Absent => record[p] # Absent
        BY DEF Shown, Answered
      <3> QED
        BY <2>1, <2>2, <2>4, <3>1, <3>2 DEF Played, server
    <2> QED
      BY <2>3, <2>4
  <1> QED
    BY <1>3, <1>4, <1>5, <1>6, <1>7, <1>8, <1>9, <1>10, <1>11, <1>12, <1>13,
       <1>14, <1>15, <1>16, <1>17, <1>18
    DEF Next, Player, Service, Task, Answer

(* What the client plays is in accord with the server. *)
Accord == Shown /\ Current /\ Played

(* Both invariants hold throughout.                                        *)
LEMMA AccordInvariance == Spec => [](IInv /\ Accord)
  <1>1. Init => Accord
    BY DEF Init, Accord, Shown, Owners, Emptied, Unasked, Begun, Answered, Current,
           Played, Holding, Attached
  <1>2. IInv /\ Accord /\ [Next]_vars => Accord'
    BY ShownStep, CurrentStep, PlayedStep DEF IInv, Accord
  <1> QED
    BY <1>1, <1>2, Invariance, PTL DEF Spec

(* While the server serves the socket the client plays on, the client  *)
(* shows the session that is active: no report it sends is refused.        *)
THEOREM SessionIsServedHolds == Spec => []SessionIsServed
  <1>1. IInv /\ Accord => SessionIsServed
    BY DEF Accord, Played, Attached, SessionIsServed
  <1> QED
    BY <1>1, AccordInvariance, PTL

(* A pod taken off the board is gone on the server once every message of   *)
(* the socket in use is delivered.                                         *)
THEOREM EliminatedIsGoneHolds == Spec => []EliminatedIsGone
  <1>1. IInv /\ Accord => EliminatedIsGone
    <2> SUFFICES ASSUME IInv, Accord, phase = "playing", IsOpen(socket),
                        Quiet(socket), NEW p \in xrEliminatedPodIds
                 PROVE  record[p].status = "GONE"
      BY DEF EliminatedIsGone
    <2>1. socket # None /\ handler[socket] = "joined" /\ up[socket] = <<>>
      BY DEF IsOpen, Quiet
    <2>2. Reported(p)
      BY <2>1 DEF Accord, Played, Attached
    <2>3. Len(up[socket]) = 0
      BY <2>1
    <2> QED
      BY <2>2, <2>3 DEF Reported
  <1> QED
    BY <1>1, AccordInvariance, PTL

=============================================================================
