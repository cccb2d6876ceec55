------------------------------- MODULE Backend -------------------------------
(***************************************************************************)
(* The back end of one deployment: master service, controller service,     *)
(* slave processes, and Redis between them.                                *)
(*                                                                         *)
(* Slaves register with the controller; the master turns the browser's     *)
(* reports and the end of a session into GONE states; the controller runs  *)
(* events on slaves, stores what they answer, and shuts gone slaves down.  *)
(* A step is one request to Redis or one call of a slave; everything in    *)
(* between may be overtaken by the others.  An update of the metrics is    *)
(* one step, as SessionMetrics shows it may be seen.                       *)
(***************************************************************************)
EXTENDS MetricsFunctions, FiniteSets, Sequences

CONSTANTS
    Pods,
    NumIds,           \* bound: RegisterSlave requests, each with its slave_id
    NumSessions,      \* bound: sessions the master may open
    MaxReports,       \* bound: pod_state_update messages that find a record
    MaxEvents,        \* bound: events published
    Faults,           \* which faults may happen
    AnyTarget,        \* target_pod ""
    NoSession, NoMetrics, NoState

Ids == 1..NumIds
Sessions == 1..NumSessions

NoId == 0             \* slave_id "" of a process that is not registered

Statuses == {"LIVE", "TERMINATING", "GONE"}

SlaveStates == [session : Sessions, id : Ids \cup {NoId}, pod : Pods, status : Statuses]

ASSUME BackendAssumption ==
    /\ Pods # {} /\ IsFiniteSet(Pods) /\ AnyTarget \notin Pods
    /\ NumIds \in Nat /\ NumSessions \in Nat
    /\ MaxReports \in Nat /\ MaxEvents \in Nat
    /\ Faults \subseteq {"redis", "timeout", "unanswered", "loss", "crash"}
    /\ NoSession \notin Sessions /\ NoMetrics \notin Metrics /\ NoState \notin SlaveStates

VARIABLES
    active, metrics, slaves,    \* Redis: session:active, the metrics keys, the
                                \* slave keys (as the set of their records)
    states, events,             \* the controller's two subscriptions
    goneSeen,                   \* observedStates: the keys last seen GONE
    notify,                     \* the GONE state the subscriber is acting on
    calls,                      \* RegisterSlave requests
    loop,                       \* the controller's event loop
    master,                     \* the master's session, its reports and its end
    posting,                    \* a POST /events that has read session:active
    pods,                       \* the slave processes
    used, reports, published    \* how much of the bounds is used

redis == <<active, metrics, slaves>>
inboxes == <<states, events>>
bounds == <<used, reports, published>>
vars == <<redis, inboxes, goneSeen, notify, calls, loop, master, posting, pods, bounds>>

Life(p) == INSTANCE PodLifecycle WITH status <- pods[p].status, up <- pods[p].up

Key(r) == <<r.session, r.id>>
KeysOf(s) == {r.id : r \in {x \in slaves : x.session = s}}
Record(s, i) == CHOOSE r \in slaves : Key(r) = <<s, i>>
Least(ids) == CHOOSE i \in ids : \A j \in ids : i <= j

isTerminalState(status) == status \in {"TERMINATING", "GONE"}

FreshPod == [up |-> TRUE, stop |-> FALSE, status |-> "LIVE", id |-> NoId, call |-> 0]
Waiting == [pc |-> "wait", session |-> NoSession, target |-> AnyTarget,
            todo |-> {}, got |-> <<>>, prev |-> NoState, resp |-> NoState]
NoWork == [pc |-> "idle", session |-> NoSession, rec |-> NoState,
           todo |-> {}, got |-> <<>>, listed |-> 0]

Init ==
    /\ active = NoSession
    /\ metrics = [s \in Sessions |-> NoMetrics]
    /\ slaves = {}
    /\ states = <<>> /\ events = <<>>
    /\ goneSeen = {} /\ notify = NoState
    /\ calls = [c \in Ids |-> [pc |-> "unused"]]
    /\ loop = Waiting
    /\ master = NoWork
    /\ posting = NoSession
    /\ pods = [p \in Pods |-> FreshPod]
    /\ used = 0 /\ reports = 0 /\ published = 0

-----------------------------------------------------------------------------
(* Requests to Redis that several parts make *)

(* PublishSlaveState: SET, then PUBLISH, which reaches whoever listens. *)
SetState(r) == slaves' = {x \in slaves : Key(x) # Key(r)} \cup {r}

Publish(r) ==
    \/ states' = Append(states, r)
    \/ "loss" \in Faults /\ UNCHANGED states

(* UpdateSessionMetrics of a session that has its metrics. *)
Update(s, m) ==
    /\ metrics[s] # NoMetrics
    /\ metrics' = [metrics EXCEPT ![s] = m]

-----------------------------------------------------------------------------
(* Slave processes: registerWithController, exit and restart *)

Unused == {c \in Ids : calls[c].pc = "unused"}

(* The slave sends a registration request. *)
Ask(p) ==
    /\ pods[p].up /\ ~pods[p].stop
    /\ pods[p].id = NoId /\ pods[p].call = 0
    /\ \E c \in Unused :
        /\ calls' = [calls EXCEPT ![c] = [pc |-> "active", pod |-> p]]
        /\ pods' = [pods EXCEPT ![p].call = c]
    /\ UNCHANGED <<redis, inboxes, goneSeen, notify, loop, master, posting, bounds>>

(* It is answered: SetRegistration, or another try. *)
Answered(p) ==
    /\ pods[p].up /\ pods[p].call # 0
    /\ LET c == pods[p].call IN
        \/ /\ calls[c].pc = "ok"
           /\ pods' = [pods EXCEPT ![p].id = c, ![p].call = 0]
        \/ /\ calls[c].pc = "error"
           /\ pods' = [pods EXCEPT ![p].call = 0]
    /\ UNCHANGED <<redis, inboxes, goneSeen, notify, calls, loop, master, posting, bounds>>

(* After five seconds it stops waiting; the controller may not notice. *)
GivesUp(p) ==
    /\ "timeout" \in Faults
    /\ pods[p].up /\ pods[p].call # 0
    /\ pods' = [pods EXCEPT ![p].call = 0]
    /\ UNCHANGED <<redis, inboxes, goneSeen, notify, calls, loop, master, posting, bounds>>

(* The process ends after a shutdown request, or crashes. *)
Exit(p) ==
    /\ pods[p].up
    /\ pods[p].stop \/ "crash" \in Faults
    /\ pods' = [pods EXCEPT ![p].up = FALSE, ![p].call = 0, ![p].id = NoId]
    /\ UNCHANGED <<redis, inboxes, goneSeen, notify, calls, loop, master, posting, bounds>>

(* Kubernetes starts it again, in the same pod with the same address. *)
Start(p) ==
    /\ ~pods[p].up /\ Unused # {}
    /\ pods' = [pods EXCEPT ![p] = FreshPod]
    /\ UNCHANGED <<redis, inboxes, goneSeen, notify, calls, loop, master, posting, bounds>>

-----------------------------------------------------------------------------
(* Controller: RegisterSlave *)

Registration(c) == [session |-> calls[c].session, id |-> c, pod |-> calls[c].pod, status |-> "LIVE"]

(* Mutant: the state is published but not stored. *)
RegisterSet_Forgotten(c) ==
    /\ calls[c].pc = "set"
    /\ calls' = [calls EXCEPT ![c].pc = "publish"]
    /\ UNCHANGED <<redis, inboxes, goneSeen, notify, loop, master, posting, pods, bounds>>

RegisterActive(c) ==
    /\ calls[c].pc = "active"
    /\ calls' = [calls EXCEPT ![c] =
          IF active = NoSession THEN [@ EXCEPT !.pc = "error"]
          ELSE [pc |-> "set", pod |-> @.pod, session |-> active]]
    /\ UNCHANGED <<redis, inboxes, goneSeen, notify, loop, master, posting, pods, bounds>>

RegisterSet(c) ==
    /\ calls[c].pc = "set"
    /\ SetState(Registration(c))
    /\ calls' = [calls EXCEPT ![c].pc = "publish"]
    /\ UNCHANGED <<active, metrics, inboxes, goneSeen, notify, loop, master, posting, pods, bounds>>

RegisterPublish(c) ==
    /\ calls[c].pc = "publish"
    /\ Publish(Registration(c))
    /\ calls' = [calls EXCEPT ![c].pc = "count"]
    /\ UNCHANGED <<redis, events, goneSeen, notify, loop, master, posting, pods, bounds>>

RegisterCount(c) ==
    /\ calls[c].pc = "count"
    /\ LET s == calls[c].session IN
        \/ /\ Update(s, Registered(metrics[s]))
           /\ calls' = [calls EXCEPT ![c].pc = "ok"]
        \/ /\ metrics[s] = NoMetrics
           /\ calls' = [calls EXCEPT ![c].pc = "error"]
           /\ UNCHANGED metrics
    /\ UNCHANGED <<active, slaves, inboxes, goneSeen, notify, loop, master, posting, pods, bounds>>

(* A request of the call to Redis fails, or the slave has cancelled it by  *)
(* its timeout or its end.                                                 *)
RegisterFails(c) ==
    /\ calls[c].pc \in {"active", "set", "publish", "count"}
    /\ "redis" \in Faults \/ pods[calls[c].pod].call # c \/ pods[calls[c].pod].stop
    /\ calls' = [calls EXCEPT ![c].pc = "error"]
    /\ UNCHANGED <<redis, inboxes, goneSeen, notify, loop, master, posting, pods, bounds>>

RegisterSlave(c) ==
    RegisterActive(c) \/ RegisterSet(c) \/ RegisterPublish(c) \/ RegisterCount(c) \/ RegisterFails(c)

-----------------------------------------------------------------------------
(* Controller: the subscriber that shuts gone slaves down *)

(* Mutant: remember returns the state it has just stored. *)
Observe_Swapped ==
    /\ notify = NoState
    /\ states # <<>>
    /\ LET r == Head(states) IN
        goneSeen' = IF r.status = "GONE" THEN goneSeen \cup {Key(r)} ELSE goneSeen \ {Key(r)}
    /\ states' = Tail(states)
    /\ UNCHANGED <<redis, events, notify, calls, loop, master, posting, pods, bounds>>

(* observedStates.remember; a change to GONE has to be notified. *)
Observe ==
    /\ notify = NoState
    /\ states # <<>>
    /\ LET r == Head(states) IN
        /\ goneSeen' = IF r.status = "GONE" THEN goneSeen \cup {Key(r)} ELSE goneSeen \ {Key(r)}
        /\ notify' = IF r.status = "GONE" /\ Key(r) \notin goneSeen THEN r ELSE NoState
    /\ states' = Tail(states)
    /\ UNCHANGED <<redis, events, calls, loop, master, posting, pods, bounds>>

(* Shutdown goes to the pod's address; an error is logged and forgotten. *)
notifyGoneSlave ==
    /\ notify # NoState
    /\ \/ /\ pods[notify.pod].up
          /\ pods' = [pods EXCEPT ![notify.pod].stop = TRUE]
       \/ /\ ~pods[notify.pod].up \/ "unanswered" \in Faults
          /\ UNCHANGED pods
    /\ notify' = NoState
    /\ UNCHANGED <<redis, inboxes, goneSeen, calls, loop, master, posting, bounds>>

-----------------------------------------------------------------------------
(* Controller: the event loop *)

(* resolveTargetSlaveState, on what ListSlaveStates returned. *)
Matches(r, target) == target \in {r.id, r.pod}

resolveTargetSlaveState(got, target) ==
    LET fits == {k \in DOMAIN got : IF target = AnyTarget THEN got[k].status # "GONE"
                                                          ELSE Matches(got[k], target)}
    IN  IF fits # {} THEN got[Least(fits)]
        ELSE IF target = AnyTarget THEN Head(got)
        ELSE NoState

(* An event arrives; the keys of its session are listed. *)
LoopList ==
    /\ loop.pc = "wait"
    /\ events # <<>>
    /\ LET ev == Head(events) keys == KeysOf(ev.session) IN
        loop' = IF keys = {} THEN Waiting
                ELSE [Waiting EXCEPT !.pc = "get", !.session = ev.session,
                                     !.target = ev.target, !.todo = keys]
    /\ events' = Tail(events)
    /\ UNCHANGED <<redis, states, goneSeen, notify, calls, master, posting, pods, bounds>>

(* Each key is read; one that has been deleted since is an error. *)
LoopGet ==
    /\ loop.pc = "get"
    /\ LET i == Least(loop.todo)
           got == Append(loop.got, Record(loop.session, i))
           target == resolveTargetSlaveState(got, loop.target)
       IN loop' = IF i \notin KeysOf(loop.session) THEN Waiting
                  ELSE IF loop.todo # {i} THEN [loop EXCEPT !.todo = @ \ {i}, !.got = got]
                  ELSE IF target = NoState THEN Waiting
                  ELSE [loop EXCEPT !.pc = "execute", !.todo = {}, !.got = <<>>, !.prev = target]
    /\ UNCHANGED <<redis, inboxes, goneSeen, notify, calls, master, posting, pods, bounds>>

(* executeEventOnTarget: the slave at the address of the record takes the  *)
(* event if it is the target, and answers with its state.                  *)
Execute ==
    /\ loop.pc = "execute"
    /\ LET p == loop.prev.pod IN
        \/ /\ pods[p].up
           /\ loop.target \in {AnyTarget, p, pods[p].id}
           /\ \E st \in Life(p)!Outcomes(pods[p].status) :
                /\ pods' = [pods EXCEPT ![p].status = st]
                /\ loop' = [loop EXCEPT !.pc = "set",
                      !.resp = [session |-> loop.session, id |-> pods[p].id, pod |-> p, status |-> st]]
        \/ /\ pods[p].up
           /\ "unanswered" \in Faults
           /\ loop.target \in {AnyTarget, p, pods[p].id}
           /\ \E st \in Life(p)!Outcomes(pods[p].status) : pods' = [pods EXCEPT ![p].status = st]
           /\ loop' = Waiting
        \/ /\ ~pods[p].up \/ loop.target \notin {AnyTarget, p, pods[p].id}
           /\ loop' = Waiting
           /\ UNCHANGED pods
    /\ UNCHANGED <<redis, inboxes, goneSeen, notify, calls, master, posting, bounds>>

LoopSet ==
    /\ loop.pc = "set"
    /\ SetState(loop.resp)
    /\ loop' = [loop EXCEPT !.pc = "publish"]
    /\ UNCHANGED <<active, metrics, inboxes, goneSeen, notify, calls, master, posting, pods, bounds>>

LoopPublish ==
    /\ loop.pc = "publish"
    /\ Publish(loop.resp)
    /\ loop' = IF isTerminalState(loop.prev.status) \/ ~isTerminalState(loop.resp.status)
               THEN Waiting ELSE [loop EXCEPT !.pc = "count"]
    /\ UNCHANGED <<redis, events, goneSeen, notify, calls, master, posting, pods, bounds>>

LoopCount ==
    /\ loop.pc = "count"
    /\ \/ Update(loop.session, Died(metrics[loop.session]))
       \/ metrics[loop.session] = NoMetrics /\ UNCHANGED metrics
    /\ loop' = Waiting
    /\ UNCHANGED <<active, slaves, inboxes, goneSeen, notify, calls, master, posting, pods, bounds>>

LoopFails ==
    /\ "redis" \in Faults
    /\ loop.pc \in {"get", "set", "publish", "count"}
    /\ loop' = Waiting
    /\ UNCHANGED <<redis, inboxes, goneSeen, notify, calls, master, posting, pods, bounds>>

EventLoop == LoopList \/ LoopGet \/ Execute \/ LoopSet \/ LoopPublish \/ LoopCount \/ LoopFails

(* The controller starts again: what it was doing and had observed is gone, *)
(* and what was published meanwhile too.                                    *)
ControllerRestart ==
    /\ "crash" \in Faults
    /\ states' = <<>> /\ events' = <<>>
    /\ goneSeen' = {} /\ notify' = NoState
    /\ loop' = Waiting
    /\ calls' = [c \in Ids |-> IF calls[c].pc \in {"active", "set", "publish", "count"}
                               THEN [calls[c] EXCEPT !.pc = "error"] ELSE calls[c]]
    /\ UNCHANGED <<redis, master, posting, pods, bounds>>

-----------------------------------------------------------------------------
(* Master: opening a session; whether its client is there does not matter here *)

StartSession ==
    /\ master.pc = "idle"
    /\ used < NumSessions
    /\ master' = [master EXCEPT !.pc = "starting"]
    /\ UNCHANGED <<redis, inboxes, goneSeen, notify, calls, loop, posting, pods, bounds>>

CreateSession ==
    /\ master.pc = "starting"
    /\ used' = used + 1
    /\ \/ /\ active' = used'
          /\ metrics' = [metrics EXCEPT ![used'] = [live |-> 0, gone |-> 0]]
          /\ \/ master' = [NoWork EXCEPT !.pc = "open", !.session = used']
             \/ "redis" \in Faults /\ master' = NoWork
       \/ /\ "redis" \in Faults
          /\ master' = NoWork
          /\ UNCHANGED <<active, metrics>>
    /\ UNCHANGED <<slaves, inboxes, goneSeen, notify, calls, loop, posting, pods, reports, published>>

(* Master: handlePodStateUpdate *)

ReportGet ==
    /\ master.pc = "open"
    /\ reports < MaxReports
    /\ \E i \in KeysOf(master.session) \ {NoId} :
         master' = [master EXCEPT !.pc = "report_set", !.rec = Record(master.session, i)]
    /\ reports' = reports + 1
    /\ UNCHANGED <<redis, inboxes, goneSeen, notify, calls, loop, posting, pods, used, published>>

Gone(r) == [r EXCEPT !.status = "GONE"]

ReportSet ==
    /\ master.pc = "report_set"
    /\ SetState(Gone(master.rec))
    /\ master' = [master EXCEPT !.pc = "report_publish"]
    /\ UNCHANGED <<active, metrics, inboxes, goneSeen, notify, calls, loop, posting, pods, bounds>>

(* Mutant: it is not looked at whether the slave was gone already. *)
ReportPublish_Always ==
    /\ master.pc = "report_publish"
    /\ Publish(Gone(master.rec))
    /\ master' = [master EXCEPT !.pc = "report_count"]
    /\ UNCHANGED <<redis, events, goneSeen, notify, calls, loop, posting, pods, bounds>>

ReportPublish ==
    /\ master.pc = "report_publish"
    /\ Publish(Gone(master.rec))
    /\ master' = IF isTerminalState(master.rec.status)
                 THEN [master EXCEPT !.pc = "open", !.rec = NoState]
                 ELSE [master EXCEPT !.pc = "report_count"]
    /\ UNCHANGED <<redis, events, goneSeen, notify, calls, loop, posting, pods, bounds>>

ReportCount ==
    /\ master.pc = "report_count"
    /\ Update(master.session, Died(metrics[master.session]))
    /\ master' = [master EXCEPT !.pc = "open", !.rec = NoState]
    /\ UNCHANGED <<active, slaves, inboxes, goneSeen, notify, calls, loop, posting, pods, bounds>>

ReportFails ==
    /\ "redis" \in Faults
    /\ master.pc \in {"report_set", "report_publish", "report_count"}
    /\ master' = [master EXCEPT !.pc = "open", !.rec = NoState]
    /\ UNCHANGED <<redis, inboxes, goneSeen, notify, calls, loop, posting, pods, bounds>>

handlePodStateUpdate == ReportGet \/ ReportSet \/ ReportPublish \/ ReportCount \/ ReportFails

(* Master: endSession; the handler has left its read loop. *)

EndList ==
    /\ master.pc = "open"
    /\ LET keys == KeysOf(master.session) IN
        master' = [master EXCEPT !.pc = IF keys = {} THEN "end_count" ELSE "end_get", !.todo = keys]
    /\ UNCHANGED <<redis, inboxes, goneSeen, notify, calls, loop, posting, pods, bounds>>

EndGet ==
    /\ master.pc = "end_get"
    /\ LET i == Least(master.todo) IN
        master' = [master EXCEPT !.pc = IF @ = "end_get" /\ master.todo = {i} THEN "end_set" ELSE @,
                                 !.todo = @ \ {i},
                                 !.got = Append(@, Record(master.session, i)),
                                 !.listed = @ + 1]
    /\ UNCHANGED <<redis, inboxes, goneSeen, notify, calls, loop, posting, pods, bounds>>

EndSet ==
    /\ master.pc = "end_set"
    /\ SetState(Gone(Head(master.got)))
    /\ master' = [master EXCEPT !.pc = "end_publish"]
    /\ UNCHANGED <<active, metrics, inboxes, goneSeen, notify, calls, loop, posting, pods, bounds>>

EndPublish ==
    /\ master.pc = "end_publish"
    /\ Publish(Gone(Head(master.got)))
    /\ master' = [master EXCEPT !.pc = IF Len(master.got) = 1 THEN "end_count" ELSE "end_set",
                                !.got = Tail(@)]
    /\ UNCHANGED <<redis, events, goneSeen, notify, calls, loop, posting, pods, bounds>>

EndCount ==
    /\ master.pc = "end_count"
    /\ Update(master.session, AllGone(master.listed))
    /\ master' = [master EXCEPT !.pc = "end_keys", !.listed = 0]
    /\ UNCHANGED <<active, slaves, inboxes, goneSeen, notify, calls, loop, posting, pods, bounds>>

EndKeys ==
    /\ master.pc = "end_keys"
    /\ master' = [master EXCEPT !.pc = "end_delete", !.todo = KeysOf(master.session)]
    /\ UNCHANGED <<redis, inboxes, goneSeen, notify, calls, loop, posting, pods, bounds>>

(* DeleteSession's transaction, for the slave keys listed before. *)
EndDelete ==
    /\ master.pc = "end_delete"
    /\ active' = IF active = master.session THEN NoSession ELSE active
    /\ metrics' = [metrics EXCEPT ![master.session] = NoMetrics]
    /\ slaves' = {r \in slaves : ~(r.session = master.session /\ r.id \in master.todo)}
    /\ master' = NoWork
    /\ UNCHANGED <<inboxes, goneSeen, notify, calls, loop, posting, pods, bounds>>

(* A failed request ends it; the slot is freed all the same. *)
EndFails ==
    /\ "redis" \in Faults
    /\ master.pc \in {"end_get", "end_set", "end_publish", "end_count", "end_keys", "end_delete"}
    /\ master' = NoWork
    /\ UNCHANGED <<redis, inboxes, goneSeen, notify, calls, loop, posting, pods, bounds>>

endSession == EndList \/ EndGet \/ EndSet \/ EndPublish \/ EndCount \/ EndKeys \/ EndDelete \/ EndFails

(* Master: handlePublishEvent, in a request of its own *)

PostActive ==
    /\ posting = NoSession /\ active # NoSession
    /\ published < MaxEvents
    /\ posting' = active
    /\ UNCHANGED <<redis, inboxes, goneSeen, notify, calls, loop, master, pods, bounds>>

PublishEvent(target) ==
    /\ posting # NoSession
    /\ \/ events' = Append(events, [session |-> posting, target |-> target])
       \/ "loss" \in Faults /\ UNCHANGED events
    /\ posting' = NoSession
    /\ published' = published + 1
    /\ UNCHANGED <<redis, states, goneSeen, notify, calls, loop, master, pods, used, reports>>

-----------------------------------------------------------------------------
Slave(p) == Ask(p) \/ Answered(p) \/ GivesUp(p) \/ Exit(p) \/ Start(p)
Subscriber == Observe \/ notifyGoneSlave
Master == StartSession \/ CreateSession \/ handlePodStateUpdate \/ endSession
Post == PostActive \/ \E t \in {AnyTarget} \cup Pods \cup Ids : PublishEvent(t)

Next ==
    \/ \E p \in Pods : Slave(p)
    \/ \E c \in Ids : RegisterSlave(c)
    \/ Subscriber \/ EventLoop \/ ControllerRestart
    \/ Master \/ Post

Safe == Init /\ [][Next]_vars

(* The subscriber goes on, and a process told to stop stops.  Nothing else *)
(* need happen for a gone slave to be shut down.                           *)
Fairness == WF_vars(Subscriber) /\ \A p \in Pods : WF_vars(pods[p].stop /\ Exit(p))

Spec == Safe /\ Fairness

-----------------------------------------------------------------------------
(* Properties *)

TypeOK ==
    /\ active \in Sessions \cup {NoSession}
    /\ metrics \in [Sessions -> Metrics \cup {NoMetrics}]
    /\ slaves \subseteq SlaveStates
    /\ \A r1, r2 \in slaves : Key(r1) = Key(r2) => r1 = r2
    /\ states \in Seq(SlaveStates)
    /\ notify \in SlaveStates \cup {NoState}
    /\ \A p \in Pods : pods[p].status \in Statuses /\ pods[p].id \in Ids \cup {NoId}
    /\ master.session \in Sessions \cup {NoSession}

(* A slave that believes to be registered in the session the master has    *)
(* open is known there: its record is in Redis until the session's end     *)
(* deletes it, whatever else writes and whichever requests fail.           *)
RegisteredIsListed ==
    \A p \in Pods :
        pods[p].id # NoId /\ calls[pods[p].id].session = master.session =>
            pods[p].id \in KeysOf(master.session)

(* Registrations are never lost from the counters of an open session: they *)
(* move from live to gone but stay counted.                                *)
RegistrationsCounted ==
    master.pc \in {"open", "report_set", "report_publish", "report_count"} =>
        LET m == metrics[master.session]
        IN  Cardinality({c \in Ids : calls[c].pc = "ok" /\ calls[c].session = master.session})
              <= m.live + m.gone

(* As long as the browser's reports are the only deaths, the gone counter  *)
(* is the number of gone slaves; a slave reported twice is counted once.   *)
ReportsCounted ==
    published = 0 /\ "redis" \notin Faults /\ master.pc = "open" =>
        metrics[master.session].gone =
            Cardinality({r \in slaves : r.session = master.session /\ r.status = "GONE"})

(* While calls of slaves are answered: when the controller remembers a     *)
(* slave_id as GONE, the process that goes by it, or is still asking for   *)
(* it, has been told to stop, or is the one being told now.  Remembering   *)
(* suppresses every later notice, so a slave missed here runs on for good. *)
GoneIsStopped ==
    "unanswered" \notin Faults =>
        \A k \in goneSeen, p \in Pods :
            k[2] # NoId /\ k[2] \in {pods[p].id, pods[p].call} =>
                pods[p].stop \/ (notify # NoState /\ notify.id = k[2])

(* A slave whose state in Redis has become GONE does not go on under that  *)
(* identity: it is shut down.                                              *)
GoneIsShutDown ==
    \A i \in Ids, p \in Pods :
        (\E r \in {states[k] : k \in DOMAIN states} : r.id = i /\ r.pod = p /\ r.status = "GONE")
            ~> pods[p].id # i
=============================================================================
