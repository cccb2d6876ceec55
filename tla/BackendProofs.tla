---------------------------- MODULE BackendProofs ----------------------------
(***************************************************************************)
(* Proofs about the composed back end, for any number of pods, requests,   *)
(* sessions, reports and events and with every fault: a registered slave   *)
(* is listed in the open session, and stays counted in its metrics; types  *)
(* are kept; reports that are the only deaths are counted exactly; a slave *)
(* remembered as gone was told to stop; processes live as PodLifecycle.    *)
(***************************************************************************)
EXTENDS Backend, FiniteSetTheorems, WellFoundedInduction, TLAPS

Serving == {"set", "publish", "count", "ok"}    \* RegisterSlave has a session
Stored  == {"publish", "count", "ok"}           \* and has stored the record
Open    == {"open", "report_set", "report_publish", "report_count"}

Oks(s) == {c \in Ids : calls[c].pc = "ok" /\ calls[c].session = s}

(* A registration belongs to a session that was opened.                    *)
Registering ==
    /\ used \in 0 .. NumSessions
    /\ active = NoSession \/ active \in 1 .. used
    /\ DOMAIN calls = Ids
    /\ \A c \in Ids : "pc" \in DOMAIN calls[c]
    /\ \A c \in Ids : calls[c].pc \in Serving =>
           {"pod", "session"} \subseteq DOMAIN calls[c] /\ calls[c].session \in 1 .. used

(* A slave_id a process goes by is that of a registration that succeeded.  *)
Identified ==
    /\ DOMAIN pods = Pods
    /\ \A p \in Pods :
           /\ {"up", "stop", "status", "id", "call"} \subseteq DOMAIN pods[p]
           /\ pods[p].call \in Ids \cup {0}
           /\ pods[p].id # NoId => pods[p].id \in Ids /\ calls[pods[p].id].pc = "ok"

(* The session the master has open was opened by it.                       *)
Opened ==
    /\ {"pc", "session"} \subseteq DOMAIN master
    /\ master.session = NoSession \/ master.session \in 1 .. used
    /\ master.pc = "starting" => used < NumSessions
    /\ master.pc \in Open => master.session \in 1 .. used

(* The record of a registration in the open session stays until that ends. *)
Listed ==
    \A c \in Ids : calls[c].pc \in Stored /\ calls[c].session = master.session =>
        \E r \in slaves : r.session = master.session /\ r.id = c

(* The open session has its metrics, which count its registrations.        *)
Counted ==
    /\ DOMAIN metrics = Sessions
    /\ master.pc \in Open =>
           /\ metrics[master.session] \in Metrics
           /\ Cardinality(Oks(master.session))
                 <= metrics[master.session].live + metrics[master.session].gone

IInv == Registering /\ Identified /\ Opened /\ Listed /\ Counted

(* What SET does to the slave keys: no key is lost.                        *)
Grow == \A r \in slaves : \E q \in slaves' : q.session = r.session /\ q.id = r.id

(* SET loses no key, and its record is there.                              *)
LEMMA SetStateLemma ==
    ASSUME NEW r, SetState(r)
    PROVE  Grow /\ r \in slaves'
  BY DEF SetState, Grow, Key

(* Sets of registrations are finite.                                       *)
LEMMA OksFinite ==
    ASSUME NEW s
    PROVE  IsFiniteSet(Oks(s)) /\ Cardinality(Oks(s)) \in Nat
  <1>1. IsFiniteSet(Ids)
    BY FS_Interval, BackendAssumption DEF Ids
  <1> QED
    BY <1>1, FS_Subset, FS_CardinalityType DEF Oks

(* A death moves a slave from one counter to the other.                    *)
LEMMA DiedLemma ==
    ASSUME NEW m \in Metrics
    PROVE  /\ Died(m) \in Metrics
           /\ m.live \in Nat /\ m.gone \in Nat
           /\ Died(m).live \in Nat /\ Died(m).gone \in Nat
           /\ m.live + m.gone <= Died(m).live + Died(m).gone
  <1>1. m.live \in Nat /\ m.gone \in Nat
    BY DEF Metrics
  <1>2. CASE m.live > 0
    BY <1>1, <1>2 DEF Died, Metrics
  <1>3. CASE ~(m.live > 0)
    BY <1>1, <1>3 DEF Died, Metrics
  <1> QED
    BY <1>2, <1>3

(* In the beginning nothing is registered or open.                         *)
LEMMA InitInv == Init => IInv
  <1> SUFFICES ASSUME Init PROVE IInv
    OBVIOUS
  <1>1. Registering
    BY BackendAssumption DEF Init, Registering, Serving
  <1>2. Identified /\ Listed
    BY DEF Init, Identified, Listed, FreshPod, Stored
  <1>3. Opened /\ Counted
    BY DEF Init, Opened, Counted, NoWork, Open
  <1> QED
    BY <1>1, <1>2, <1>3 DEF IInv

-----------------------------------------------------------------------------
(* Kinds of steps.                                                         *)

(* The master goes on within its session.                                  *)
LEMMA MasterMoves ==
    ASSUME IInv, UNCHANGED <<active, metrics, calls, pods, used>>, Grow,
           {"pc", "session"} \subseteq DOMAIN master', master'.session = master.session,
           master'.pc \in Open => master.pc \in Open,
           master'.pc # "starting"
    PROVE  IInv'
  <1>1. Registering' /\ Identified' /\ Opened'
    BY DEF IInv, Registering, Identified, Opened
  <1>2. Listed'
    BY DEF IInv, Listed, Grow
  <1>3. Counted'
    BY DEF IInv, Counted, Oks
  <1> QED
    BY <1>1, <1>2, <1>3 DEF IInv

(* The session is over.                                                    *)
LEMMA MasterIsFree ==
    ASSUME IInv, UNCHANGED <<calls, pods, used>>, active' \in {active, NoSession},
           DOMAIN metrics' = Sessions, master' = NoWork
    PROVE  IInv'
  <1>1. Registering' /\ Identified'
    BY DEF IInv, Registering, Identified
  <1>2. Opened' /\ Counted'
    BY DEF IInv, Registering, Opened, Counted, NoWork, Open
  <1>3. Listed'
    <2>1. \A c \in Ids : calls[c].pc \in Stored => calls[c].session # NoSession
      BY BackendAssumption DEF IInv, Registering, Stored, Serving, Sessions
    <2> QED
      BY <2>1 DEF Listed, NoWork
  <1> QED
    BY <1>1, <1>2, <1>3 DEF IInv

(* A registration goes on, without being completed.                        *)
LEMMA CallsMove ==
    ASSUME IInv, UNCHANGED <<active, metrics, master, used>>, Grow,
           DOMAIN calls' = Ids,
           \A c \in Ids : "pc" \in DOMAIN calls'[c],
           \A c \in Ids : calls'[c].pc \in Serving =>
               {"pod", "session"} \subseteq DOMAIN calls'[c] /\ calls'[c].session \in 1 .. used,
           \A c \in Ids : calls'[c].pc \in Stored =>
               \/ calls[c].pc \in Stored /\ calls'[c].session = calls[c].session
               \/ \E r \in slaves' : r.session = calls'[c].session /\ r.id = c,
           \A c \in Ids : \/ calls[c].pc # "ok" /\ calls'[c].pc # "ok"
                          \/ calls'[c] = calls[c]
    PROVE  /\ Registering' /\ Opened' /\ Listed' /\ Counted'
           /\ UNCHANGED pods => Identified'
  <1>1. Registering' /\ Opened'
    BY DEF IInv, Registering, Opened
  <1>2. Listed'
    BY DEF IInv, Listed, Grow
  <1>3. Counted'
    <2>1. \A s : Oks(s)' = Oks(s)
      BY DEF Oks
    <2> QED
      BY <2>1 DEF IInv, Counted
  <1>4. UNCHANGED pods => Identified'
    BY DEF IInv, Identified
  <1> QED
    BY <1>1, <1>2, <1>3, <1>4

(* Only the processes change, and identities are given after a success.    *)
LEMMA PodsMove ==
    ASSUME IInv, UNCHANGED <<redis, calls, master, used>>, Identified'
    PROVE  IInv'
  BY DEF IInv, redis, Registering, Opened, Listed, Counted, Oks

-----------------------------------------------------------------------------
(* Slave processes and the controller.                                     *)

(* The slave processes keep the invariant.                                 *)
LEMMA SlaveLemma ==
    ASSUME IInv, NEW p \in Pods, Slave(p)
    PROVE  IInv'
  <1>1. CASE Ask(p)
    <2>1. PICK c \in Unused : /\ calls' = [calls EXCEPT ![c] = [pc |-> "active", pod |-> p]]
                              /\ pods' = [pods EXCEPT ![p].call = c]
      BY <1>1 DEF Ask
    <2>2. c \in Ids /\ calls[c].pc = "unused"
      BY DEF Unused
    <2>3. UNCHANGED <<active, metrics, slaves, master, used>>
      BY <1>1 DEF Ask, redis, bounds
    <2>4. Registering' /\ Opened' /\ Listed' /\ Counted'
      BY <2>1, <2>2, <2>3, CallsMove DEF IInv, Registering, Serving, Stored, Grow
    <2>5. Identified'
      BY <2>1, <2>2 DEF IInv, Identified, Registering
    <2> QED
      BY <2>4, <2>5 DEF IInv
  <1>2. CASE Answered(p)
    <2>1. pods[p].call \in Ids /\ UNCHANGED <<redis, calls, master, used>>
      BY <1>2 DEF Answered, IInv, Identified, bounds
    <2>2. CASE /\ calls[pods[p].call].pc = "ok"
               /\ pods' = [pods EXCEPT ![p].id = pods[p].call, ![p].call = 0]
      BY <2>1, <2>2, PodsMove DEF IInv, Identified
    <2>3. CASE pods' = [pods EXCEPT ![p].call = 0]
      BY <2>1, <2>3, PodsMove DEF IInv, Identified
    <2> QED
      BY <1>2, <2>2, <2>3 DEF Answered
  <1>3. CASE GivesUp(p)
    BY <1>3, PodsMove DEF GivesUp, IInv, Identified, bounds
  <1>4. CASE Exit(p)
    <2>1. pods' = [pods EXCEPT ![p].up = FALSE, ![p].call = 0, ![p].id = NoId]
      BY <1>4 DEF Exit
    <2>2. UNCHANGED <<redis, calls, master, used>>
      BY <1>4 DEF Exit, bounds
    <2> QED
      BY <2>1, <2>2, PodsMove DEF IInv, Identified
  <1>5. CASE Start(p)
    BY <1>5, PodsMove DEF Start, IInv, Identified, FreshPod, bounds
  <1> QED
    BY <1>1, <1>2, <1>3, <1>4, <1>5 DEF Slave

(* RegisterSlave keeps it.                                                 *)
LEMMA RegisterLemma ==
    ASSUME IInv, NEW c \in Ids, RegisterSlave(c)
    PROVE  IInv'
  <1>1. CASE RegisterActive(c)
    <2>1. UNCHANGED <<active, metrics, slaves, master, used, pods>>
      BY <1>1 DEF RegisterActive, redis, bounds
    <2>2. calls[c].pc = "active"
      BY <1>1 DEF RegisterActive
    <2>3. CASE active = NoSession
      <3>1. calls' = [calls EXCEPT ![c] = [@ EXCEPT !.pc = "error"]]
        BY <1>1, <2>3 DEF RegisterActive
      <3> QED
        BY <2>1, <2>2, <3>1, CallsMove DEF IInv, Registering, Serving, Stored, Grow
    <2>4. CASE active # NoSession
      <3>1. calls' = [calls EXCEPT ![c] = [pc |-> "set", pod |-> @.pod, session |-> active]]
        BY <1>1, <2>4 DEF RegisterActive
      <3> QED
        BY <2>1, <2>2, <2>4, <3>1, CallsMove DEF IInv, Registering, Serving, Stored, Grow
    <2> QED
      BY <2>3, <2>4
  <1>2. CASE RegisterSet(c)
    <2>1. /\ calls[c].pc = "set" /\ calls' = [calls EXCEPT ![c].pc = "publish"]
          /\ UNCHANGED <<active, metrics, master, used, pods>>
      BY <1>2 DEF RegisterSet, bounds
    <2>2. Grow /\ Registration(c) \in slaves'
      BY <1>2, SetStateLemma DEF RegisterSet
    <2>3. \E r \in slaves' : r.session = calls[c].session /\ r.id = c
      BY <2>2 DEF Registration
    <2> QED
      BY <2>1, <2>2, <2>3, CallsMove DEF IInv, Registering, Serving, Stored
  <1>3. CASE RegisterPublish(c)
    <2>1. /\ calls[c].pc = "publish" /\ calls' = [calls EXCEPT ![c].pc = "count"]
          /\ UNCHANGED <<active, metrics, slaves, master, used, pods>>
      BY <1>3 DEF RegisterPublish, redis, bounds
    <2> QED
      BY <2>1, CallsMove DEF IInv, Registering, Serving, Stored, Grow
  <1>4. CASE RegisterCount(c)
    <2>1. /\ calls[c].pc = "count"
          /\ UNCHANGED <<active, slaves, master, used, pods>>
      BY <1>4 DEF RegisterCount, bounds
    <2>2. CASE calls' = [calls EXCEPT ![c].pc = "error"] /\ UNCHANGED metrics
      BY <2>1, <2>2, CallsMove DEF IInv, Registering, Serving, Stored, Grow
    <2>3. CASE /\ Update(calls[c].session, Registered(metrics[calls[c].session]))
               /\ calls' = [calls EXCEPT ![c].pc = "ok"]
      <3> DEFINE s == calls[c].session
      <3>1. Registering' /\ Identified' /\ Opened' /\ Listed'
        BY <2>1, <2>3 DEF IInv, Registering, Identified, Opened, Listed, Serving, Stored
      <3>2. s \in Sessions /\ metrics' = [metrics EXCEPT ![s] = Registered(metrics[s])]
        BY <2>1, <2>3, BackendAssumption DEF IInv, Registering, Serving, Sessions, Update
      <3>3. /\ calls'[c].pc = "ok" /\ calls'[c].session = s
            /\ \A d \in Ids \ {c} : calls'[d] = calls[d]
        BY <2>1, <2>3 DEF IInv, Registering, Serving
      <3>4. c \notin Oks(s) /\ Oks(s)' = Oks(s) \cup {c}
        BY <2>1, <3>3 DEF Oks
      <3>5. \A t : t # s => Oks(t)' = Oks(t)
        BY <2>1, <3>3 DEF Oks
      <3>6. Cardinality(Oks(s)') = Cardinality(Oks(s)) + 1
        BY <3>4, OksFinite, FS_AddElement
      <3>7. Counted'
        <4>1. DOMAIN metrics' = Sessions
          BY <3>2 DEF IInv, Counted
        <4>2. ASSUME master.pc \in Open, master.session = s
              PROVE  /\ metrics'[s] \in Metrics
                     /\ Cardinality(Oks(s)') <= metrics'[s].live + metrics'[s].gone
          <5>1. /\ metrics[s] \in Metrics
                /\ Cardinality(Oks(s)) <= metrics[s].live + metrics[s].gone
            BY <4>2 DEF IInv, Counted
          <5>2. metrics'[s] = [metrics[s] EXCEPT !.live = @ + 1]
            BY <3>2 DEF IInv, Counted, Registered
          <5>3. /\ metrics'[s] \in Metrics
                /\ metrics'[s].live = metrics[s].live + 1 /\ metrics'[s].gone = metrics[s].gone
            BY <5>1, <5>2 DEF Metrics
          <5>4. Cardinality(Oks(s)) \in Nat /\ metrics[s].live \in Nat /\ metrics[s].gone \in Nat
            BY <5>1, OksFinite DEF Metrics
          <5> QED
            BY <3>6, <5>1, <5>3, <5>4
        <4>3. ASSUME master.pc \in Open, master.session # s
              PROVE  /\ metrics'[master.session] = metrics[master.session]
                     /\ Oks(master.session)' = Oks(master.session)
          BY <2>1, <3>2, <3>3, <4>3 DEF IInv, Counted, Opened, Registering, Sessions, Oks
        <4>4. CASE master.session = s
          BY <2>1, <3>3, <4>1, <4>2, <4>4 DEF Counted, Oks
        <4>5. CASE master.session # s
          BY <2>1, <4>1, <4>3, <4>5 DEF IInv, Counted
        <4> QED
          BY <4>4, <4>5
      <3> QED
        BY <3>1, <3>7 DEF IInv
    <2> QED
      BY <1>4, <2>2, <2>3 DEF RegisterCount
  <1>5. CASE RegisterFails(c)
    <2>1. /\ calls[c].pc \in {"active", "set", "publish", "count"}
          /\ calls' = [calls EXCEPT ![c].pc = "error"]
          /\ UNCHANGED <<active, metrics, slaves, master, used, pods>>
      BY <1>5 DEF RegisterFails, redis, bounds
    <2> QED
      BY <2>1, CallsMove DEF IInv, Registering, Serving, Stored, Grow
  <1> QED
    BY <1>1, <1>2, <1>3, <1>4, <1>5 DEF RegisterSlave

(* Nothing the invariant speaks of changes.                                *)
LEMMA Elsewhere ==
    ASSUME IInv, UNCHANGED <<redis, calls, master, used, pods>>
    PROVE  IInv'
  BY DEF IInv, redis, Registering, Identified, Opened, Listed, Counted, Oks

(* So does the subscriber of the controller.                               *)
LEMMA SubscriberLemma ==
    ASSUME IInv, Subscriber
    PROVE  IInv'
  <1>1. CASE Observe
    BY <1>1, Elsewhere DEF Observe, bounds
  <1>2. CASE notifyGoneSlave
    <2>1. UNCHANGED <<redis, calls, master, used>>
      BY <1>2 DEF notifyGoneSlave, bounds
    <2>2. CASE pods' = [pods EXCEPT ![notify.pod].stop = TRUE]
      BY <2>1, <2>2, PodsMove DEF IInv, Identified
    <2>3. CASE UNCHANGED pods
      BY <2>1, <2>3, Elsewhere
    <2> QED
      BY <1>2, <2>2, <2>3 DEF notifyGoneSlave
  <1> QED
    BY <1>1, <1>2 DEF Subscriber

(* The event loop writes the records of slaves, and may count a death.     *)
LEMMA EventLoopLemma ==
    ASSUME IInv, EventLoop
    PROVE  IInv'
  <1>1. CASE LoopList \/ LoopGet \/ LoopPublish \/ LoopFails
    BY <1>1, Elsewhere DEF LoopList, LoopGet, LoopPublish, LoopFails, bounds
  <1>2. CASE Execute
    <2>1. UNCHANGED <<redis, calls, master, used>>
      BY <1>2 DEF Execute, bounds
    <2>2. CASE UNCHANGED pods
      BY <2>1, <2>2, Elsewhere
    <2>3. CASE \E st \in Life(loop.prev.pod)!Outcomes(pods[loop.prev.pod].status) :
                   pods' = [pods EXCEPT ![loop.prev.pod].status = st]
      <3>1. PICK st : pods' = [pods EXCEPT ![loop.prev.pod].status = st]
        BY <2>3
      <3> QED
        BY <2>1, <3>1, PodsMove DEF IInv, Identified
    <2> QED
      BY <1>2, <2>2, <2>3 DEF Execute
  <1>3. CASE LoopSet
    <2>1. Grow /\ UNCHANGED <<active, metrics, calls, master, used, pods>>
      BY <1>3, SetStateLemma DEF LoopSet, bounds
    <2> QED
      BY <2>1, CallsMove DEF IInv, Registering
  <1>4. CASE LoopCount
    <2>1. UNCHANGED <<active, slaves, calls, master, used, pods>>
      BY <1>4 DEF LoopCount, bounds
    <2>2. CASE UNCHANGED metrics
      BY <2>1, <2>2, Elsewhere DEF redis
    <2>3. CASE metrics' = [metrics EXCEPT ![loop.session] = Died(metrics[loop.session])]
      <3>1. Registering' /\ Identified' /\ Opened' /\ Listed'
        BY <2>1 DEF IInv, Registering, Identified, Opened, Listed
      <3>2. Counted'
        <4>1. DOMAIN metrics' = Sessions
          BY <2>3 DEF IInv, Counted
        <4>2. ASSUME master.pc \in Open
              PROVE  /\ metrics'[master.session] \in Metrics
                     /\ Cardinality(Oks(master.session))
                           <= metrics'[master.session].live + metrics'[master.session].gone
          <5>1. CASE metrics'[master.session] = metrics[master.session]
            BY <4>2, <5>1 DEF IInv, Counted
          <5>2. CASE metrics'[master.session] = Died(metrics[master.session])
            BY <4>2, <5>2, DiedLemma, OksFinite DEF IInv, Counted
          <5> QED
            BY <2>3, <5>1, <5>2 DEF IInv, Counted
        <4>3. Oks(master.session)' = Oks(master.session)
          BY <2>1 DEF Oks
        <4> QED
          BY <2>1, <4>1, <4>2, <4>3 DEF Counted
      <3> QED
        BY <3>1, <3>2 DEF IInv
    <2> QED
      BY <1>4, <2>2, <2>3 DEF LoopCount, Update
  <1> QED
    BY <1>1, <1>2, <1>3, <1>4 DEF EventLoop

(* A restart gives up the registrations under way, not those completed.    *)
LEMMA RestartLemma ==
    ASSUME IInv, ControllerRestart
    PROVE  IInv'
  <1>1. /\ calls' = [c \in Ids |-> IF calls[c].pc \in {"active", "set", "publish", "count"}
                                   THEN [calls[c] EXCEPT !.pc = "error"] ELSE calls[c]]
        /\ UNCHANGED <<active, metrics, slaves, master, used, pods>>
    BY DEF ControllerRestart, redis, bounds
  <1>2. \A c \in Ids : calls'[c] = calls[c] \/ (calls[c].pc # "ok" /\ calls'[c].pc = "error"
                                                  /\ "pc" \in DOMAIN calls'[c])
    BY <1>1 DEF IInv, Registering
  <1> QED
    BY <1>1, <1>2, CallsMove DEF IInv, Registering, Serving, Stored, Grow

-----------------------------------------------------------------------------
(* The master.                                                             *)

(* A session that is opened has no registrations yet.                      *)
LEMMA SessionLemma ==
    ASSUME IInv, StartSession \/ CreateSession
    PROVE  IInv'
  <1>0. NumSessions \in Nat /\ NoSession \notin Sessions
    BY BackendAssumption
  <1>1. CASE StartSession
    <2>1. /\ used < NumSessions /\ master' = [master EXCEPT !.pc = "starting"]
          /\ UNCHANGED <<active, metrics, slaves, calls, used, pods>>
      BY <1>1 DEF StartSession, redis, bounds
    <2>2. /\ {"pc", "session"} \subseteq DOMAIN master' /\ master'.session = master.session
          /\ master'.pc = "starting"
      BY <2>1 DEF IInv, Opened
    <2>3. Registering' /\ Identified' /\ Opened'
      BY <2>1, <2>2 DEF IInv, Registering, Identified, Opened, Open
    <2>4. Listed' /\ Counted'
      BY <2>1, <2>2 DEF IInv, Listed, Counted, Open
    <2> QED
      BY <2>3, <2>4 DEF IInv
  <1>2. CASE CreateSession
    <2>1. /\ used < NumSessions /\ used' = used + 1
          /\ UNCHANGED <<slaves, calls, pods>>
      BY <1>2 DEF CreateSession, IInv, Opened
    <2>2. used' \in Sessions /\ used' \in 1 .. NumSessions /\ used \in Nat
      BY <1>0, <2>1 DEF IInv, Registering, Sessions
    <2>3. active' \in {active, used'}
      BY <1>2 DEF CreateSession
    <2>4. \A c \in Ids : calls[c].pc \in Serving =>
              calls[c].session # used' /\ calls[c].session # NoSession
      BY <1>0, <2>1, <2>2 DEF IInv, Registering, Sessions
    <2>5. Registering' /\ Identified'
      BY <1>0, <2>1, <2>2, <2>3 DEF IInv, Registering, Identified
    <2>6. CASE master' = NoWork
      <3>1. Opened' /\ Listed'
        BY <2>1, <2>4, <2>6 DEF Opened, Listed, NoWork, Open, Stored, Serving
      <3>2. Counted'
        <4>1. DOMAIN metrics' = Sessions
          BY <1>2 DEF CreateSession, IInv, Counted
        <4> QED
          BY <2>6, <4>1 DEF Counted, NoWork, Open
      <3> QED
        BY <2>5, <3>1, <3>2 DEF IInv
    <2>7. CASE /\ metrics' = [metrics EXCEPT ![used'] = [live |-> 0, gone |-> 0]]
               /\ master' = [NoWork EXCEPT !.pc = "open", !.session = used']
      <3>1. /\ master'.pc = "open" /\ master'.session = used'
            /\ {"pc", "session"} \subseteq DOMAIN master'
        BY <2>7 DEF NoWork
      <3>2. Opened' /\ Listed'
        BY <2>1, <2>2, <2>4, <3>1 DEF Opened, Listed, Stored, Serving
      <3>3. Oks(master.session)' = {}
        BY <2>1, <2>4, <3>1 DEF Oks, Serving
      <3>4. DOMAIN metrics' = Sessions /\ metrics'[used'] = [live |-> 0, gone |-> 0]
        BY <2>2, <2>7 DEF IInv, Counted
      <3>5. Cardinality(Oks(master.session)') = 0
        BY <3>3, FS_EmptySet
      <3>6. Counted'
        BY <3>1, <3>4, <3>5 DEF Counted, Metrics
      <3> QED
        BY <2>5, <3>2, <3>6 DEF IInv
    <2> QED
      BY <1>2, <2>6, <2>7 DEF CreateSession
  <1> QED
    BY <1>1, <1>2

(* Reports lose no key and move a slave between counters.                  *)
LEMMA ReportLemma ==
    ASSUME IInv, handlePodStateUpdate
    PROVE  IInv'
  <1>1. CASE ReportGet
    <2>1. UNCHANGED <<active, metrics, slaves, calls, pods, used>> /\ master.pc = "open"
      BY <1>1 DEF ReportGet, redis
    <2>2. PICK r : master' = [master EXCEPT !.pc = "report_set", !.rec = r]
      BY <1>1 DEF ReportGet
    <2> QED
      BY <2>1, <2>2, MasterMoves DEF IInv, Opened, Open, Grow
  <1>2. CASE ReportSet
    <2>1. Grow /\ UNCHANGED <<active, metrics, calls, pods, used>>
      BY <1>2, SetStateLemma DEF ReportSet, bounds
    <2> QED
      BY <1>2, <2>1, MasterMoves DEF ReportSet, IInv, Opened, Open
  <1>3. CASE ReportPublish
    <2>1. UNCHANGED <<active, metrics, slaves, calls, pods, used>>
      BY <1>3 DEF ReportPublish, redis, bounds
    <2> QED
      BY <1>3, <2>1, MasterMoves DEF ReportPublish, IInv, Opened, Open, Grow
  <1>4. CASE ReportCount
    <2>1. /\ master.pc \in Open
          /\ master' = [master EXCEPT !.pc = "open", !.rec = NoState]
          /\ metrics' = [metrics EXCEPT ![master.session] = Died(metrics[master.session])]
          /\ UNCHANGED <<active, slaves, calls, pods, used>>
      BY <1>4 DEF ReportCount, Update, Open, bounds
    <2>2. /\ {"pc", "session"} \subseteq DOMAIN master' /\ master'.session = master.session
          /\ master'.pc = "open"
      BY <2>1 DEF IInv, Opened
    <2>3. Registering' /\ Identified' /\ Opened' /\ Listed'
      BY <2>1, <2>2 DEF IInv, Registering, Identified, Opened, Listed
    <2>4. Counted'
      <3>1. master.session \in Sessions
        BY <2>1, BackendAssumption DEF IInv, Opened, Registering, Sessions
      <3>2. DOMAIN metrics' = Sessions
            /\ metrics'[master.session] = Died(metrics[master.session])
        BY <2>1, <3>1 DEF IInv, Counted
      <3>3. Oks(master.session)' = Oks(master.session)
        BY <2>1, <2>2 DEF Oks
      <3>4. /\ metrics'[master.session] \in Metrics
            /\ Cardinality(Oks(master.session))
                  <= metrics'[master.session].live + metrics'[master.session].gone
        BY <2>1, <3>2, DiedLemma, OksFinite DEF IInv, Counted
      <3> QED
        BY <2>2, <3>2, <3>3, <3>4 DEF Counted
    <2> QED
      BY <2>3, <2>4 DEF IInv
  <1>5. CASE ReportFails
    <2>1. UNCHANGED <<active, metrics, slaves, calls, pods, used>>
      BY <1>5 DEF ReportFails, redis, bounds
    <2> QED
      BY <1>5, <2>1, MasterMoves DEF ReportFails, IInv, Opened, Open, Grow
  <1> QED
    BY <1>1, <1>2, <1>3, <1>4, <1>5 DEF handlePodStateUpdate

(* The end of a session leaves the open state first.                       *)
LEMMA EndLemma ==
    ASSUME IInv, endSession
    PROVE  IInv'
  <1>1. CASE EndList \/ EndGet \/ EndKeys
    <2>1. UNCHANGED <<active, metrics, slaves, calls, pods, used>>
      BY <1>1 DEF EndList, EndGet, EndKeys, redis, bounds
    <2>2. /\ {"pc", "session"} \subseteq DOMAIN master' /\ master'.session = master.session
          /\ master'.pc \notin Open /\ master'.pc # "starting"
      BY <1>1 DEF EndList, EndGet, EndKeys, IInv, Opened, Open
    <2> QED
      BY <2>1, <2>2, MasterMoves DEF Grow
  <1>2. CASE EndSet
    <2>1. Grow /\ UNCHANGED <<active, metrics, calls, pods, used>>
      BY <1>2, SetStateLemma DEF EndSet, bounds
    <2> QED
      BY <1>2, <2>1, MasterMoves DEF EndSet, IInv, Opened, Open
  <1>3. CASE EndPublish
    <2>1. UNCHANGED <<active, metrics, slaves, calls, pods, used>>
      BY <1>3 DEF EndPublish, redis, bounds
    <2>2. /\ {"pc", "session"} \subseteq DOMAIN master' /\ master'.session = master.session
          /\ master'.pc \notin Open /\ master'.pc # "starting"
      BY <1>3 DEF EndPublish, IInv, Opened, Open
    <2> QED
      BY <2>1, <2>2, MasterMoves DEF Grow
  <1>4. CASE EndCount
    <2>1. /\ UNCHANGED <<active, slaves, calls, pods, used>>
          /\ master' = [master EXCEPT !.pc = "end_keys", !.listed = 0]
          /\ metrics' = [metrics EXCEPT ![master.session] = AllGone(master.listed)]
      BY <1>4 DEF EndCount, Update, bounds
    <2>2. /\ {"pc", "session"} \subseteq DOMAIN master' /\ master'.session = master.session
          /\ master'.pc = "end_keys"
      BY <2>1 DEF IInv, Opened
    <2>3. Registering' /\ Identified' /\ Opened' /\ Listed'
      BY <2>1, <2>2 DEF IInv, Registering, Identified, Opened, Listed, Open
    <2>4. Counted'
      BY <2>1, <2>2 DEF IInv, Counted, Open
    <2> QED
      BY <2>3, <2>4 DEF IInv
  <1>5. CASE EndDelete
    BY <1>5, MasterIsFree DEF EndDelete, bounds, IInv, Counted
  <1>6. CASE EndFails
    BY <1>6, MasterIsFree DEF EndFails, redis, bounds, IInv, Counted
  <1> QED
    BY <1>1, <1>2, <1>3, <1>4, <1>5, <1>6 DEF endSession

-----------------------------------------------------------------------------
(* Every step keeps the invariant.                                         *)
LEMMA StepLemma == IInv /\ [Next]_vars => IInv'
  <1> SUFFICES ASSUME IInv, [Next]_vars PROVE IInv'
    OBVIOUS
  <1>1. ASSUME NEW p \in Pods, Slave(p) PROVE IInv'
    BY <1>1, SlaveLemma
  <1>2. ASSUME NEW c \in Ids, RegisterSlave(c) PROVE IInv'
    BY <1>2, RegisterLemma
  <1>3. CASE Subscriber \/ EventLoop \/ ControllerRestart
    BY <1>3, SubscriberLemma, EventLoopLemma, RestartLemma
  <1>4. CASE Master
    BY <1>4, SessionLemma, ReportLemma, EndLemma DEF Master
  <1>5. CASE Post
    <2>1. CASE PostActive
      BY <2>1, Elsewhere DEF PostActive, bounds
    <2>2. CASE \E t \in {AnyTarget} \cup Pods \cup Ids : PublishEvent(t)
      BY <2>2, Elsewhere DEF PublishEvent
    <2> QED
      BY <1>5, <2>1, <2>2 DEF Post
  <1>6. CASE UNCHANGED vars
    BY <1>6, Elsewhere DEF vars, bounds
  <1> QED
    BY <1>1, <1>2, <1>3, <1>4, <1>5, <1>6 DEF Next

(* The invariant holds throughout.                                         *)
LEMMA Invariance == Safe => []IInv
  BY InitInv, StepLemma, PTL DEF Safe

(* A slave that believes to be registered in the open session has its      *)
(* record in Redis, whatever fails, restarts or is written meanwhile.      *)
THEOREM RegisteredAreListed == Safe => []RegisteredIsListed
  <1>1. IInv => RegisteredIsListed
    BY DEF IInv, Identified, Listed, Stored, RegisteredIsListed, KeysOf
  <1> QED
    BY Invariance, <1>1, PTL

(* The counters of the open session are never behind its registrations.    *)
THEOREM RegistrationsAreCounted == Safe => []RegistrationsCounted
  <1>1. IInv => RegistrationsCounted
    BY DEF IInv, Counted, Open, Oks, RegistrationsCounted
  <1> QED
    BY Invariance, <1>1, PTL

-----------------------------------------------------------------------------
Targets == {AnyTarget} \cup Pods \cup Ids
Ending  == {"end_get", "end_set", "end_publish", "end_count", "end_keys", "end_delete"}
Reporting == {"report_set", "report_publish", "report_count"}

PodRecords == [up : BOOLEAN, stop : BOOLEAN, status : Statuses,
               id : Ids \cup {NoId}, call : Ids \cup {NoId}]

LoopRecords == [pc : {"wait", "get", "execute", "set", "publish", "count"},
                session : Sessions \cup {NoSession}, target : Targets,
                todo : SUBSET (Ids \cup {NoId}), got : Seq(SlaveStates),
                prev : SlaveStates \cup {NoState}, resp : SlaveStates \cup {NoState}]

MasterRecords == [pc : {"idle", "starting", "open"} \cup Reporting \cup Ending,
                  session : Sessions \cup {NoSession}, rec : SlaveStates \cup {NoState},
                  todo : SUBSET (Ids \cup {NoId}), got : Seq(SlaveStates), listed : Nat]

-----------------------------------------------------------------------------
(* Types.  What the keys of Redis, the processes and the calls hold.       *)
Stores ==
    /\ metrics \in [Sessions -> Metrics \cup {NoMetrics}]
    /\ slaves \subseteq SlaveStates
    /\ \A r1, r2 \in slaves : Key(r1) = Key(r2) => r1 = r2
    /\ pods \in [Pods -> PodRecords]
    /\ \A c \in Ids : calls[c].pc # "unused" => "pod" \in DOMAIN calls[c] /\ calls[c].pod \in Pods

Messages ==
    /\ states \in Seq(SlaveStates)
    /\ notify \in SlaveStates \cup {NoState}
    /\ events \in Seq([session : Sessions, target : Targets])
    /\ posting \in Sessions \cup {NoSession}

Looping ==
    /\ loop \in LoopRecords
    /\ loop.pc # "wait" => loop.session \in Sessions
    /\ loop.pc \in {"execute", "set", "publish", "count"} => loop.prev \in SlaveStates
    /\ loop.pc \in {"set", "publish", "count"} => loop.resp \in SlaveStates

(* What the master works on, its list of slaves included.                  *)
Working ==
    /\ master \in MasterRecords
    /\ master.pc \in Open \cup Ending => master.session \in Sessions
    /\ master.pc \in Reporting => master.rec \in SlaveStates
    /\ master.pc \in {"end_set", "end_publish"} => master.got # <<>>
    /\ master.pc = "end_get" => master.todo # {} /\ master.todo \subseteq KeysOf(master.session)

(* Before the first event, records are written by registrations and        *)
(* reports only, and a registration writes a record of its own.            *)
Unwritten == {"unused", "active", "set"}    \* no record carries the slave_id yet

Recorded == {r \in SlaveStates : /\ r.session \in 1 .. used
                                 /\ r.status # "TERMINATING"
                                 /\ r.id \in Ids /\ calls[r.id].pc \notin Unwritten}

Quiet ==
    /\ published \in Nat
    /\ published = 0 =>
        /\ events = <<>> /\ loop = Waiting
        /\ IsFiniteSet(slaves) /\ slaves \subseteq Recorded
        /\ master.pc \in Reporting => master.rec \in Recorded
        /\ master.got \in Seq(Recorded)

(* The gone slaves are counted, but for the one being reported.            *)
GoneIn(s) == {r \in slaves : r.session = s /\ r.status = "GONE"}

Due == IF \/ master.pc = "report_count"
          \/ master.pc = "report_publish" /\ master.rec.status = "LIVE" THEN 1 ELSE 0

Gones ==
    published = 0 /\ "redis" \notin Faults /\ master.pc \in Open =>
        /\ metrics[master.session] \in Metrics
        /\ Cardinality(GoneIn(master.session)) = metrics[master.session].gone + Due
        /\ master.pc = "report_set" => master.rec \in slaves /\ master.rec.session = master.session

Typed == Stores /\ Messages /\ Looping /\ Working

-----------------------------------------------------------------------------
(* Least chooses a member.                                                 *)
LEMMA LeastLemma ==
    ASSUME NEW S \in SUBSET Nat, S # {}
    PROVE  Least(S) \in S
  <1>1. IsWellFoundedOn(OpToRel(<, Nat), Nat)
    BY NatLessThanWellFounded
  <1>2. PICK x \in S : \A y \in S : ~(<<y, x>> \in OpToRel(<, Nat))
    BY <1>1, WFMin
  <1>3. \A y \in S : <<y, x>> \in Nat \X Nat /\ ~(y < x)
    <2> SUFFICES ASSUME NEW y \in S PROVE <<y, x>> \in Nat \X Nat /\ ~(y < x)
      OBVIOUS
    <2>1. y \in Nat /\ x \in Nat
      OBVIOUS
    <2>2. <<y, x>> \in Nat \X Nat /\ <<y, x>>[1] = y /\ <<y, x>>[2] = x
      BY <2>1
    <2>3. ~(<<y, x>> \in OpToRel(<, Nat))
      BY <1>2
    <2>4. ~(<<y, x>>[1] < <<y, x>>[2])
      BY <2>2, <2>3, Zenon DEF OpToRel
    <2> QED
      BY <2>2, <2>4, Zenon
  <1>4. \A y \in S : x <= y
    <2> SUFFICES ASSUME NEW y \in S PROVE x <= y
      OBVIOUS
    <2>1. y \in Nat /\ x \in Nat /\ ~(y < x)
      BY <1>3, Zenon
    <2> QED
      BY <2>1
  <1> QED
    BY <1>4 DEF Least

(* A member is appended to a sequence.                                     *)
LEMMA AppendTyped ==
    ASSUME NEW S, NEW q \in Seq(S), NEW m \in S
    PROVE  /\ Append(q, m) \in Seq(S)
           /\ Len(Append(q, m)) = Len(q) + 1 /\ Len(q) \in Nat
           /\ Append(q, m) # <<>>
  OBVIOUS

(* The first member of a sequence is taken.                                *)
LEMMA TailTyped ==
    ASSUME NEW S, NEW q \in Seq(S), q # <<>>
    PROVE  /\ Tail(q) \in Seq(S)
           /\ Len(Tail(q)) = Len(q) - 1 /\ Len(q) \in Nat \ {0}
           /\ Head(q) = q[1] /\ q[1] \in S /\ 1 \in DOMAIN q
           /\ Len(q) # 1 => Tail(q) # <<>>
  <1>1. /\ Tail(q) \in Seq(S)
        /\ Len(Tail(q)) = Len(q) - 1 /\ Len(q) \in Nat \ {0}
        /\ Head(q) = q[1] /\ q[1] \in S /\ 1 \in DOMAIN q
    OBVIOUS
  <1>2. Len(<<>>) = 0
    OBVIOUS
  <1>3. Len(q) # 1 => Len(Tail(q)) # 0
    BY <1>1
  <1> QED
    BY <1>1, <1>2, <1>3

(* Gone changes nothing but the status.                                    *)
LEMMA GoneTyped ==
    ASSUME NEW r \in SlaveStates
    PROVE  /\ Gone(r) \in SlaveStates
           /\ Gone(r).session = r.session /\ Gone(r).id = r.id /\ Gone(r).pod = r.pod
           /\ Gone(r).status = "GONE" /\ Key(Gone(r)) = Key(r)
  BY DEF Gone, SlaveStates, Statuses, Key

(* A key that is listed has its record.                                    *)
LEMMA FoundLemma ==
    ASSUME NEW s, NEW i \in KeysOf(s)
    PROVE  Record(s, i) \in slaves /\ Record(s, i).session = s /\ Record(s, i).id = i
  <1>1. \E r \in slaves : Key(r) = <<s, i>>
    BY DEF KeysOf, Key
  <1> QED
    BY <1>1 DEF Record, Key

(* Slave keys are numbers.                                                 *)
LEMMA KeysTyped ==
    ASSUME slaves \subseteq SlaveStates, NEW s
    PROVE  KeysOf(s) \subseteq Ids \cup {NoId} /\ KeysOf(s) \subseteq Nat
  BY DEF KeysOf, SlaveStates, Ids, NoId

(* PUBLISH delivers records.                                               *)
LEMMA PublishTyped ==
    ASSUME states \in Seq(SlaveStates), NEW r \in SlaveStates, Publish(r)
    PROVE  states' \in Seq(SlaveStates)
  BY AppendTyped DEF Publish

(* SET keeps one record per key.                                           *)
LEMMA StoredTyped ==
    ASSUME Stores, NEW r \in SlaveStates, SetState(r), UNCHANGED <<metrics, pods>>,
           \A c \in Ids : calls'[c].pc # "unused" => "pod" \in DOMAIN calls'[c] /\ calls'[c].pod \in Pods
    PROVE  Stores'
  BY DEF Stores, SetState, Key

(* The functions of the metrics return metrics.                            *)
LEMMA MetricsTyped ==
    ASSUME NEW m \in Metrics, NEW n \in Nat
    PROVE  Registered(m) \in Metrics /\ Died(m) \in Metrics /\ AllGone(n) \in Metrics
  <1>1. Registered(m) \in Metrics /\ AllGone(n) \in Metrics
    BY DEF Registered, AllGone, Metrics
  <1> QED
    BY <1>1, DiedLemma

(* In the beginning all is typed.                                          *)
LEMMA InitTyped == Init => Typed
  <1> SUFFICES ASSUME Init PROVE Typed
    OBVIOUS
  <1>1. Stores
    BY DEF Init, Stores, FreshPod, PodRecords, Statuses, NoId
  <1>2. Messages
    BY DEF Init, Messages
  <1>3. Looping
    BY DEF Init, Looping, LoopRecords, Waiting, Targets
  <1>4. Working
    BY DEF Init, Working, MasterRecords, NoWork, Open, Ending, Reporting
  <1> QED
    BY <1>1, <1>2, <1>3, <1>4 DEF Typed

(* What a step leaves alone keeps its type.                                *)
LEMMA Kept ==
    ASSUME Typed
    PROVE  /\ UNCHANGED <<metrics, slaves, pods, calls>> => Stores'
           /\ UNCHANGED inboxes /\ UNCHANGED <<notify, posting>> => Messages'
           /\ UNCHANGED loop => Looping'
           /\ UNCHANGED master /\ Grow => Working'
           /\ UNCHANGED slaves => Grow
  <1>1. UNCHANGED <<metrics, slaves, pods, calls>> => Stores'
    BY DEF Typed, Stores
  <1>2. UNCHANGED inboxes /\ UNCHANGED <<notify, posting>> => Messages'
    BY DEF Typed, Messages, inboxes
  <1>3. UNCHANGED loop => Looping'
    BY DEF Typed, Looping, LoopRecords
  <1>4. UNCHANGED master /\ Grow => Working'
    BY DEF Typed, Working, MasterRecords, Grow, KeysOf
  <1>5. UNCHANGED slaves => Grow
    BY DEF Grow
  <1> QED
    BY <1>1, <1>2, <1>3, <1>4, <1>5

-----------------------------------------------------------------------------
(* The slave processes.                                                    *)
LEMMA SlaveTyped ==
    ASSUME Typed, IInv, NEW p \in Pods, Slave(p)
    PROVE  Typed'
  <1>0. Messages' /\ Looping' /\ Working'
    BY Kept DEF Slave, Ask, Answered, GivesUp, Exit, Start, redis
  <1>1. CASE Ask(p)
    <2>1. PICK c \in Unused : /\ calls' = [calls EXCEPT ![c] = [pc |-> "active", pod |-> p]]
                              /\ pods' = [pods EXCEPT ![p].call = c]
      BY <1>1 DEF Ask
    <2>2. c \in Ids /\ UNCHANGED redis
      BY <1>1 DEF Unused, Ask
    <2>3. pods' \in [Pods -> PodRecords]
      BY <2>1, <2>2 DEF Typed, Stores, PodRecords
    <2> QED
      BY <1>0, <2>1, <2>2, <2>3 DEF Typed, Stores, redis, IInv, Registering
  <1>2. CASE ~Ask(p)
    <2>1. UNCHANGED <<redis, calls>>
      BY <1>2 DEF Slave, Answered, GivesUp, Exit, Start
    <2>2. pods[p] \in PodRecords
      BY DEF Typed, Stores
    <2>3. \E q \in PodRecords : pods' = [pods EXCEPT ![p] = q]
      <3>1. CASE Answered(p)
        <4>1. CASE pods' = [pods EXCEPT ![p].id = pods[p].call, ![p].call = 0]
          <5>1. [pods[p] EXCEPT !.id = pods[p].call, !.call = 0] \in PodRecords
            BY <2>2 DEF PodRecords, NoId
          <5> QED
            BY <4>1, <5>1 DEF Typed, Stores
        <4>2. CASE pods' = [pods EXCEPT ![p].call = 0]
          <5>1. [pods[p] EXCEPT !.call = 0] \in PodRecords
            BY <2>2 DEF PodRecords, NoId
          <5> QED
            BY <4>2, <5>1 DEF Typed, Stores
        <4> QED
          BY <3>1, <4>1, <4>2 DEF Answered
      <3>2. CASE GivesUp(p)
        <4>1. [pods[p] EXCEPT !.call = 0] \in PodRecords
          BY <2>2 DEF PodRecords, NoId
        <4> QED
          BY <3>2, <4>1 DEF GivesUp, Typed, Stores
      <3>3. CASE Exit(p)
        <4>1. [pods[p] EXCEPT !.up = FALSE, !.call = 0, !.id = NoId] \in PodRecords
          BY <2>2 DEF PodRecords, NoId
        <4> QED
          BY <3>3, <4>1 DEF Exit, Typed, Stores
      <3>4. CASE Start(p)
        BY <3>4 DEF Start, FreshPod, PodRecords, Statuses, NoId
      <3> QED
        BY <1>2, <3>1, <3>2, <3>3, <3>4 DEF Slave
    <2> QED
      BY <1>0, <2>1, <2>3 DEF Typed, Stores, redis
  <1> QED
    BY <1>1, <1>2

(* RegisterSlave.                                                          *)
LEMMA RegisterTyped ==
    ASSUME Typed, IInv, NEW c \in Ids, RegisterSlave(c)
    PROVE  Typed'
  <1>0. /\ Looping' /\ UNCHANGED <<master, loop, pods, notify, posting, events>>
        /\ calls[c].pc \in {"active", "set", "publish", "count"}
        /\ "pod" \in DOMAIN calls[c] /\ calls[c].pod \in Pods
        /\ \A d \in Ids \ {c} : calls'[d] = calls[d]
    <2>1. UNCHANGED <<master, loop, pods, notify, posting, events>>
      BY DEF RegisterSlave, RegisterActive, RegisterSet, RegisterPublish, RegisterCount,
         RegisterFails, inboxes
    <2>2. calls[c].pc \in {"active", "set", "publish", "count"}
      BY DEF RegisterSlave, RegisterActive, RegisterSet, RegisterPublish, RegisterCount,
         RegisterFails
    <2>3. \A d \in Ids \ {c} : calls'[d] = calls[d]
      BY DEF RegisterSlave, RegisterActive, RegisterSet, RegisterPublish, RegisterCount,
         RegisterFails,
             IInv, Registering
    <2> QED
      BY <2>1, <2>2, <2>3, Kept DEF Typed, Stores
  <1>1. \A d \in Ids : calls'[d].pc # "unused" => "pod" \in DOMAIN calls'[d] /\ calls'[d].pod \in Pods
    <2>1. DOMAIN calls = Ids /\ "pc" \in DOMAIN calls[c]
      BY DEF IInv, Registering
    <2>2. \A st : LET r == [calls[c] EXCEPT !.pc = st]
                  IN  "pod" \in DOMAIN r /\ r.pod = calls[c].pod
      BY <1>0
    <2>3. "pod" \in DOMAIN calls'[c] /\ calls'[c].pod = calls[c].pod
      <3>1. CASE RegisterActive(c)
        BY <1>0, <2>1, <2>2, <3>1 DEF RegisterActive
      <3>2. CASE RegisterSet(c)
        BY <1>0, <2>1, <2>2, <3>2 DEF RegisterSet
      <3>3. CASE RegisterPublish(c)
        BY <1>0, <2>1, <2>2, <3>3 DEF RegisterPublish
      <3>4. CASE RegisterCount(c)
        BY <1>0, <2>1, <2>2, <3>4 DEF RegisterCount
      <3>5. CASE RegisterFails(c)
        BY <1>0, <2>1, <2>2, <3>5 DEF RegisterFails
      <3> QED
        BY <3>1, <3>2, <3>3, <3>4, <3>5 DEF RegisterSlave
    <2> QED
      BY <1>0, <2>3 DEF Typed, Stores
  <1>2. calls[c].pc \in {"set", "publish", "count"} => Registration(c) \in SlaveStates
    BY <1>0, BackendAssumption DEF IInv, Registering, Serving, Registration, SlaveStates,
       Statuses, Sessions
  <1>3. CASE RegisterActive(c) \/ RegisterFails(c)
    BY <1>0, <1>1, <1>3, Kept DEF RegisterActive, RegisterFails, redis, inboxes, Typed, Stores
  <1>4. CASE RegisterSet(c)
    <2>1. Registration(c) \in SlaveStates /\ SetState(Registration(c)) /\ UNCHANGED <<metrics,
                                                                                      inboxes>>
      BY <1>2, <1>4 DEF RegisterSet
    <2> QED
      BY <1>0, <1>1, <2>1, Kept, StoredTyped, SetStateLemma DEF Typed
  <1>5. CASE RegisterPublish(c)
    <2>1. Registration(c) \in SlaveStates /\ Publish(Registration(c)) /\ UNCHANGED redis
      BY <1>2, <1>5 DEF RegisterPublish
    <2>2. Messages'
      BY <1>0, <2>1, PublishTyped DEF Typed, Messages
    <2> QED
      BY <1>0, <1>1, <2>1, <2>2, Kept DEF Typed, Stores, redis
  <1>6. CASE RegisterCount(c)
    <2>1. UNCHANGED <<slaves, inboxes>>
      BY <1>6 DEF RegisterCount
    <2>2. metrics' \in [Sessions -> Metrics \cup {NoMetrics}]
      <3>1. calls[c].session \in Sessions
        BY <1>6, BackendAssumption DEF RegisterCount, IInv, Registering, Serving, Sessions
      <3>2. CASE UNCHANGED metrics
        BY <3>2 DEF Typed, Stores
      <3>3. CASE Update(calls[c].session, Registered(metrics[calls[c].session]))
        BY <3>1, <3>3, MetricsTyped DEF Update, Typed, Stores
      <3> QED
        BY <1>6, <3>2, <3>3 DEF RegisterCount
    <2> QED
      BY <1>0, <1>1, <2>1, <2>2, Kept DEF Typed, Stores
  <1> QED
    BY <1>3, <1>4, <1>5, <1>6 DEF RegisterSlave

(* The subscriber of the controller.                                       *)
LEMMA SubscriberTyped ==
    ASSUME Typed, IInv, Subscriber
    PROVE  Typed'
  <1>1. CASE Observe
    <2>1. states # <<>> /\ states' = Tail(states) /\ UNCHANGED <<redis, events, calls, loop,
                                                                 master, posting, pods>>
      BY <1>1 DEF Observe
    <2>2. Head(states) \in SlaveStates /\ states' \in Seq(SlaveStates)
      BY <2>1, TailTyped DEF Typed, Messages
    <2>3. notify' \in SlaveStates \cup {NoState}
      BY <1>1, <2>2 DEF Observe
    <2> QED
      BY <2>1, <2>2, <2>3, Kept DEF Typed, Messages, redis
  <1>2. CASE notifyGoneSlave
    <2>1. notify \in SlaveStates /\ notify' = NoState /\ UNCHANGED <<redis, inboxes, calls, loop,
                                                                     master, posting>>
      BY <1>2 DEF notifyGoneSlave, Typed, Messages
    <2>2. pods' \in [Pods -> PodRecords]
      <3>1. CASE UNCHANGED pods
        BY <3>1 DEF Typed, Stores
      <3>2. CASE pods' = [pods EXCEPT ![notify.pod].stop = TRUE]
        <4>1. notify.pod \in Pods
          BY <2>1 DEF SlaveStates
        <4>2. [pods[notify.pod] EXCEPT !.stop = TRUE] \in PodRecords
          <5>1. pods[notify.pod] \in PodRecords
            BY <4>1 DEF Typed, Stores
          <5> QED
            BY <5>1 DEF PodRecords
        <4> QED
          BY <3>2, <4>1, <4>2 DEF Typed, Stores
      <3> QED
        BY <1>2, <3>1, <3>2 DEF notifyGoneSlave
    <2> QED
      BY <2>1, <2>2, Kept DEF Typed, Stores, Messages, redis, inboxes
  <1> QED
    BY <1>1, <1>2 DEF Subscriber

(* The loop is idle again.                                                 *)
LEMMA WaitingTyped ==
    ASSUME loop' = Waiting
    PROVE  Looping'
  <1>1. Waiting \in LoopRecords
    BY DEF Waiting, Targets, LoopRecords
  <1> QED
    BY <1>1 DEF Looping, LoopRecords, Waiting

(* The event loop, which takes its target from the list it has read.       *)
LEMMA EventLoopTyped ==
    ASSUME Typed, IInv, EventLoop
    PROVE  Typed'
  <1>0. /\ UNCHANGED <<notify, posting, master, calls, active>> /\ Grow
        /\ loop' = Waiting => Looping'
    <2>1. UNCHANGED <<notify, posting, master, calls, active>>
      BY DEF EventLoop, LoopList, LoopGet, Execute, LoopSet, LoopPublish, LoopCount, LoopFails,
         redis
    <2>2. Grow
      BY Kept, SetStateLemma DEF EventLoop, LoopList, LoopGet, Execute, LoopSet, LoopPublish,
         LoopCount, LoopFails, redis
    <2> QED
      BY <2>1, <2>2, WaitingTyped
  <1>1. CASE LoopList
    <2> DEFINE ev == Head(events)
    <2>1. /\ loop.pc = "wait" /\ events # <<>> /\ events' = Tail(events)
          /\ loop' = IF KeysOf(ev.session) = {} THEN Waiting
                     ELSE [Waiting EXCEPT !.pc = "get", !.session = ev.session,
                                          !.target = ev.target, !.todo = KeysOf(ev.session)]
          /\ UNCHANGED <<redis, states, pods>>
      BY <1>1 DEF LoopList
    <2>2. ev \in [session : Sessions, target : Targets] /\ events' \in Seq([session : Sessions, target : Targets])
      <3> DEFINE T == [session : Sessions, target : Targets]
      <3>1. events \in Seq(T)
        BY DEF Typed, Messages
      <3> HIDE DEF T
      <3>2. Head(events) \in T /\ Tail(events) \in Seq(T)
        BY <2>1, <3>1, TailTyped
      <3> QED
        BY <2>1, <3>2 DEF T
    <2>3. Looping'
      <3>1. CASE loop' = Waiting
        BY <3>1, WaitingTyped
      <3>2. CASE loop' = [Waiting EXCEPT !.pc = "get", !.session = ev.session,
                                         !.target = ev.target, !.todo = KeysOf(ev.session)]
        <4>1. KeysOf(ev.session) \subseteq Ids \cup {NoId}
          BY KeysTyped DEF Typed, Stores
        <4>2. ev.session \in Sessions /\ ev.target \in Targets
          BY <2>2
        <4>3. loop' = [pc |-> "get", session |-> ev.session, target |-> ev.target,
                       todo |-> KeysOf(ev.session), got |-> <<>>, prev |-> NoState,
                                                              resp |-> NoState]
          BY <3>2 DEF Waiting
        <4> HIDE DEF ev
        <4> QED
          BY <4>1, <4>2, <4>3 DEF Looping, LoopRecords
      <3> QED
        BY <2>1, <3>1, <3>2
    <2> QED
      BY <1>0, <2>1, <2>2, <2>3, Kept DEF Typed, Messages, redis
  <1>2. CASE LoopGet
    <2> DEFINE i == Least(loop.todo)
               got == Append(loop.got, Record(loop.session, i))
               target == resolveTargetSlaveState(got, loop.target)
    <2>1. /\ loop.pc = "get" /\ UNCHANGED <<redis, inboxes, pods>>
          /\ loop' = IF i \notin KeysOf(loop.session) THEN Waiting
                     ELSE IF loop.todo # {i} THEN [loop EXCEPT !.todo = @ \ {i}, !.got = got]
                     ELSE IF target = NoState THEN Waiting
                     ELSE [loop EXCEPT !.pc = "execute", !.todo = {}, !.got = <<>>,
                                                                                !.prev = target]
      BY <1>2 DEF LoopGet
    <2>2. Looping'
      <3>1. CASE i \notin KeysOf(loop.session)
        BY <1>0, <2>1, <3>1
      <3>2. CASE i \in KeysOf(loop.session)
        <4>1. Record(loop.session, i) \in SlaveStates
          BY <3>2, FoundLemma DEF Typed, Stores
        <4>2. got \in Seq(SlaveStates) /\ got # <<>>
          BY <4>1, AppendTyped DEF Typed, Looping, LoopRecords
        <4> HIDE DEF i, got
        <4>3. CASE loop.todo # {i}
          BY <2>1, <3>2, <4>2, <4>3 DEF Typed, Looping, LoopRecords
        <4>4. CASE loop.todo = {i} /\ target = NoState
          BY <1>0, <2>1, <3>2, <4>4
        <4>5. CASE loop.todo = {i} /\ target # NoState
          <5>1. target \in SlaveStates
            <6> DEFINE fits == {k \in DOMAIN got : IF loop.target = AnyTarget THEN got[k].status # "GONE"
                                                   ELSE Matches(got[k], loop.target)}
            <6>1. fits \subseteq DOMAIN got /\ DOMAIN got \subseteq Nat
              BY <4>2
            <6>2. target = IF fits # {} THEN got[Least(fits)]
                           ELSE IF loop.target = AnyTarget THEN Head(got) ELSE NoState
              BY DEF resolveTargetSlaveState
            <6> HIDE DEF fits
            <6>3. CASE fits # {}
              <7>1. Least(fits) \in DOMAIN got
                BY <6>1, <6>3, LeastLemma
              <7> QED
                BY <4>2, <6>2, <6>3, <7>1
            <6>4. CASE fits = {}
              BY <4>2, <4>5, <6>2, <6>4, TailTyped
            <6> QED
              BY <6>3, <6>4
          <5> HIDE DEF target
          <5>2. loop' = [loop EXCEPT !.pc = "execute", !.todo = {}, !.got = <<>>, !.prev = target]
            BY <2>1, <3>2, <4>5
          <5>3. loop' = [pc |-> "execute", session |-> loop.session, target |-> loop.target, todo |-> {},
                         got |-> <<>>, prev |-> target, resp |-> loop.resp]
            BY <5>2 DEF Typed, Looping, LoopRecords
          <5>4. loop.session \in Sessions /\ loop.target \in Targets /\ loop.resp \in SlaveStates \cup {NoState}
            BY <2>1 DEF Typed, Looping, LoopRecords
          <5> QED
            BY <5>1, <5>3, <5>4 DEF Looping, LoopRecords
        <4> QED
          BY <4>3, <4>4, <4>5
      <3> QED
        BY <3>1, <3>2
    <2> QED
      BY <1>0, <2>1, <2>2, Kept DEF Typed, redis
  <1>3. CASE Execute
    <2> DEFINE p == loop.prev.pod
    <2>1. loop.pc = "execute" /\ UNCHANGED <<redis, inboxes>>
      BY <1>3 DEF Execute
    <2>2. loop.prev \in SlaveStates /\ p \in Pods /\ loop.session \in Sessions
      BY <2>1 DEF Typed, Looping, LoopRecords, SlaveStates
    <2>3. pods[p] \in PodRecords
      BY <2>2 DEF Typed, Stores
    <2>4. pods' \in [Pods -> PodRecords]
      <3>1. \A st \in Life(p)!Outcomes(pods[p].status) : [pods[p] EXCEPT !.status = st] \in PodRecords
        BY <2>3 DEF PodRecords, Statuses, Life!Outcomes
      <3>2. CASE UNCHANGED pods
        BY <3>2 DEF Typed, Stores
      <3>3. CASE \E st \in Life(p)!Outcomes(pods[p].status) : pods' = [pods EXCEPT ![p].status = st]
        BY <2>2, <3>1, <3>3 DEF Typed, Stores
      <3> QED
        BY <1>3, <3>2, <3>3 DEF Execute
    <2>5. Looping'
      <3>1. CASE loop' = Waiting
        BY <1>0, <3>1
      <3>2. CASE \E st \in Life(p)!Outcomes(pods[p].status) :
                   loop' = [loop EXCEPT !.pc = "set",
                      !.resp = [session |-> loop.session, id |-> pods[p].id, pod |-> p, status |-> st]]
        <4>1. PICK st \in Life(p)!Outcomes(pods[p].status) :
                   loop' = [loop EXCEPT !.pc = "set",
                      !.resp = [session |-> loop.session, id |-> pods[p].id, pod |-> p, status |-> st]]
          BY <3>2
        <4>2. st \in Statuses /\ pods[p].id \in Ids \cup {NoId}
          BY <2>3, <4>1 DEF PodRecords, Statuses, Life!Outcomes
        <4>3. [session |-> loop.session, id |-> pods[p].id, pod |-> p, status |-> st] \in SlaveStates
          BY <2>2, <4>2 DEF SlaveStates
        <4> DEFINE r == [session |-> loop.session, id |-> pods[p].id, pod |-> p, status |-> st]
        <4>4. loop' = [loop EXCEPT !.pc = "set", !.resp = r] /\ r \in SlaveStates
          BY <4>1, <4>3
        <4> HIDE DEF r
        <4> QED
          BY <2>1, <4>4 DEF Typed, Looping, LoopRecords
      <3> QED
        BY <1>3, <3>1, <3>2 DEF Execute
    <2> QED
      BY <1>0, <2>1, <2>4, <2>5, Kept DEF Typed, Stores, redis
  <1>4. CASE LoopSet
    <2>1. /\ loop.pc = "set" /\ loop.resp \in SlaveStates /\ SetState(loop.resp)
          /\ UNCHANGED <<metrics, inboxes, pods>> /\ loop' = [loop EXCEPT !.pc = "publish"]
      BY <1>4 DEF LoopSet, Typed, Looping, LoopRecords
    <2>2. Stores'
      BY <1>0, <2>1, StoredTyped DEF Typed, Stores
    <2>3. Looping'
      BY <2>1 DEF Typed, Looping, LoopRecords
    <2> QED
      BY <1>0, <2>1, <2>2, <2>3, Kept DEF Typed
  <1>5. CASE LoopPublish
    <2>1. /\ loop.pc = "publish" /\ loop.resp \in SlaveStates /\ Publish(loop.resp)
          /\ UNCHANGED <<redis, events, pods>> /\ loop' \in {Waiting,
                         [loop EXCEPT !.pc = "count"]}
      BY <1>5 DEF LoopPublish, Typed, Looping, LoopRecords
    <2>2. Messages'
      BY <1>0, <2>1, PublishTyped DEF Typed, Messages
    <2>3. Looping'
      <3>1. CASE loop' = [loop EXCEPT !.pc = "count"]
        BY <2>1, <3>1 DEF Typed, Looping, LoopRecords
      <3> QED
        BY <1>0, <2>1, <3>1
    <2> QED
      BY <1>0, <2>1, <2>2, <2>3, Kept DEF Typed, redis
  <1>6. CASE LoopCount
    <2>1. loop.pc = "count" /\ loop' = Waiting /\ loop.session \in Sessions /\ UNCHANGED <<slaves, inboxes, pods>>
      BY <1>6 DEF LoopCount, Typed, Looping, LoopRecords
    <2>2. metrics' \in [Sessions -> Metrics \cup {NoMetrics}]
      <3>1. CASE UNCHANGED metrics
        BY <3>1 DEF Typed, Stores
      <3>2. CASE Update(loop.session, Died(metrics[loop.session]))
        BY <2>1, <3>2, MetricsTyped DEF Update, Typed, Stores
      <3> QED
        BY <1>6, <3>1, <3>2 DEF LoopCount
    <2> QED
      BY <1>0, <2>1, <2>2, Kept DEF Typed, Stores
  <1>7. CASE LoopFails
    BY <1>0, <1>7, Kept DEF LoopFails, Typed, redis
  <1> QED
    BY <1>1, <1>2, <1>3, <1>4, <1>5, <1>6, <1>7 DEF EventLoop

(* The restart of the controller.                                          *)
LEMMA RestartTyped ==
    ASSUME Typed, IInv, ControllerRestart
    PROVE  Typed'
  <1>1. \A c \in Ids : /\ calls'[c].pc # "unused" => calls[c].pc # "unused"
                       /\ "pod" \in DOMAIN calls[c] => "pod" \in DOMAIN calls'[c] /\ calls'[c].pod = calls[c].pod
    BY DEF ControllerRestart, IInv, Registering
  <1>2. Stores'
    BY <1>1 DEF ControllerRestart, Typed, Stores, redis
  <1>3. Messages'
    BY DEF ControllerRestart, Typed, Messages
  <1>4. Looping' /\ Working'
    BY Kept, WaitingTyped DEF ControllerRestart, redis
  <1> QED
    BY <1>2, <1>3, <1>4 DEF Typed

(* POST /events.                                                           *)
LEMMA PostTyped ==
    ASSUME Typed, IInv, Post
    PROVE  Typed'
  <1>1. UNCHANGED <<redis, notify, calls, loop, master, pods, states>>
    BY DEF Post, PostActive, PublishEvent, inboxes
  <1>2. Messages'
    <2>1. CASE PostActive
      <3>1. posting' \in Sessions
        BY <2>1, BackendAssumption DEF PostActive, IInv, Registering, Sessions
      <3> QED
        BY <2>1, <3>1 DEF PostActive, Typed, Messages, inboxes
    <2>2. CASE \E t \in Targets : PublishEvent(t)
      <3> DEFINE T == [session : Sessions, target : Targets]
      <3>1. PICK t \in Targets : PublishEvent(t)
        BY <2>2
      <3>2. events \in Seq(T) /\ [session |-> posting, target |-> t] \in T /\ posting' = NoSession
        BY <3>1 DEF PublishEvent, Typed, Messages
      <3> HIDE DEF T
      <3>3. events' \in Seq(T)
        BY <3>1, <3>2, AppendTyped DEF PublishEvent
      <3> USE DEF T
      <3> QED
        BY <1>1, <3>2, <3>3 DEF Typed, Messages
    <2> QED
      BY <2>1, <2>2 DEF Post, Targets
  <1> QED
    BY <1>1, <1>2, Kept DEF Typed, redis

-----------------------------------------------------------------------------
(* The master's slot is free.                                              *)
LEMMA FreeTyped ==
    ASSUME master' = NoWork
    PROVE  Working'
  <1>1. master' = [pc |-> "idle", session |-> NoSession, rec |-> NoState,
                   todo |-> {}, got |-> <<>>, listed |-> 0]
    BY DEF NoWork
  <1> QED
    BY <1>1 DEF Working, MasterRecords, Open, Ending, Reporting

(* A session is opened.                                                    *)
LEMMA SessionTyped ==
    ASSUME Typed, IInv, StartSession \/ CreateSession
    PROVE  Typed'
  <1>1. CASE StartSession
    <2>1. master' = [master EXCEPT !.pc = "starting"] /\ UNCHANGED <<redis, inboxes, notify,
                                                                     calls, loop, posting, pods>>
      BY <1>1 DEF StartSession
    <2>2. Working'
      BY <2>1 DEF Typed, Working, MasterRecords, Open, Ending, Reporting
    <2> QED
      BY <2>1, <2>2, Kept DEF Typed, redis
  <1>2. CASE CreateSession
    <2>1. UNCHANGED <<slaves, inboxes, notify, calls, loop, posting,
                      pods>> /\ master.pc = "starting"
      BY <1>2 DEF CreateSession
    <2>2. used' \in Sessions
      BY <1>2, <2>1, BackendAssumption DEF CreateSession, IInv, Registering, Opened, Sessions
    <2>3. metrics' \in [Sessions -> Metrics \cup {NoMetrics}]
      <3>1. [live |-> 0, gone |-> 0] \in Metrics
        BY DEF Metrics
      <3>2. metrics' \in {metrics, [metrics EXCEPT ![used'] = [live |-> 0, gone |-> 0]]}
        BY <1>2 DEF CreateSession
      <3> QED
        BY <3>1, <3>2 DEF Typed, Stores
    <2>4. Working'
      <3>1. CASE master' = [NoWork EXCEPT !.pc = "open", !.session = used']
        <4>1. master' = [pc |-> "open", session |-> used', rec |-> NoState,
                         todo |-> {}, got |-> <<>>, listed |-> 0]
          BY <3>1 DEF NoWork
        <4> QED
          BY <2>2, <4>1 DEF Working, MasterRecords, Open, Ending, Reporting
      <3> QED
        BY <1>2, <3>1, FreeTyped DEF CreateSession
    <2> QED
      BY <2>1, <2>3, <2>4, Kept DEF Typed, Stores
  <1> QED
    BY <1>1, <1>2

(* handlePodStateUpdate.                                                   *)
LEMMA ReportTyped ==
    ASSUME Typed, IInv, handlePodStateUpdate
    PROVE  Typed'
  <1>0. /\ UNCHANGED <<notify, calls, loop, posting, pods, events>> /\ Grow
        /\ master.pc \in Open /\ master.session \in Sessions
        /\ master.pc \in Reporting => master.rec \in SlaveStates
    <2>1. UNCHANGED <<notify, calls, loop, posting, pods, events>> /\ master.pc \in Open
      BY DEF handlePodStateUpdate, ReportGet, ReportSet, ReportPublish, ReportCount, ReportFails,
         inboxes, Open
    <2>2. Grow
      BY SetStateLemma, Kept DEF handlePodStateUpdate, ReportGet, ReportSet, ReportPublish,
         ReportCount, ReportFails, redis
    <2> QED
      BY <2>1, <2>2 DEF Typed, Working, MasterRecords
  <1>1. CASE ReportGet
    <2>1. PICK i \in KeysOf(master.session) :
              master' = [master EXCEPT !.pc = "report_set", !.rec = Record(master.session, i)]
      BY <1>1 DEF ReportGet
    <2>2. Record(master.session, i) \in SlaveStates
      BY <2>1, FoundLemma DEF Typed, Stores
    <2>3. Working'
      BY <1>0, <2>1, <2>2 DEF Typed, Working, MasterRecords, Open, Ending, Reporting
    <2> QED
      BY <1>0, <1>1, <2>3, Kept DEF ReportGet, Typed, redis
  <1>2. CASE ReportSet
    <2>1. /\ master' = [master EXCEPT !.pc = "report_publish"] /\ master.rec \in SlaveStates
          /\ SetState(Gone(master.rec)) /\ UNCHANGED <<metrics, inboxes>>
      BY <1>0, <1>2 DEF ReportSet, Reporting
    <2>2. Stores'
      BY <1>0, <2>1, GoneTyped, StoredTyped DEF Typed, Stores
    <2>3. Working'
      BY <1>0, <2>1 DEF Typed, Working, MasterRecords, Open, Ending, Reporting
    <2> QED
      BY <1>0, <2>1, <2>2, <2>3, Kept DEF Typed
  <1>3. CASE ReportPublish
    <2>1. /\ master' \in {[master EXCEPT !.pc = "open", !.rec = NoState], [master EXCEPT !.pc = "report_count"]}
          /\ master.rec \in SlaveStates /\ Publish(Gone(master.rec)) /\ UNCHANGED redis
      BY <1>0, <1>3 DEF ReportPublish, Reporting
    <2>2. Messages'
      BY <1>0, <2>1, GoneTyped, PublishTyped DEF Typed, Messages
    <2>3. Working'
      BY <1>0, <2>1 DEF Typed, Working, MasterRecords, Open, Ending, Reporting
    <2> QED
      BY <1>0, <2>1, <2>2, <2>3, Kept DEF Typed, redis
  <1>4. CASE ReportCount \/ ReportFails
    <2>1. master' = [master EXCEPT !.pc = "open", !.rec = NoState] /\ UNCHANGED <<slaves,
                                                                                  inboxes>>
      BY <1>4 DEF ReportCount, ReportFails, redis
    <2>2. Working'
      BY <1>0, <2>1 DEF Typed, Working, MasterRecords, Open, Ending, Reporting
    <2>3. metrics' \in [Sessions -> Metrics \cup {NoMetrics}]
      <3>1. CASE UNCHANGED metrics
        BY <3>1 DEF Typed, Stores
      <3>2. CASE Update(master.session, Died(metrics[master.session]))
        BY <1>0, <3>2, MetricsTyped DEF Update, Typed, Stores
      <3> QED
        BY <1>4, <3>1, <3>2 DEF ReportCount, ReportFails, redis
    <2> QED
      BY <1>0, <2>1, <2>2, <2>3, Kept DEF Typed, Stores
  <1> QED
    BY <1>1, <1>2, <1>3, <1>4 DEF handlePodStateUpdate

(* endSession: every key it reads is there.                                *)
LEMMA EndTyped ==
    ASSUME Typed, IInv, endSession
    PROVE  Typed'
  <1>0. /\ UNCHANGED <<notify, calls, loop, posting, pods, events>>
        /\ master \in MasterRecords /\ master.session \in Sessions
        /\ KeysOf(master.session) \subseteq Ids \cup {NoId}
    <2>1. UNCHANGED <<notify, calls, loop, posting, pods,
                      events>> /\ master.pc \in Open \cup Ending
      BY DEF endSession, EndList, EndGet, EndSet, EndPublish, EndCount, EndKeys, EndDelete,
         EndFails, inboxes, Open, Ending
    <2> QED
      BY <2>1, KeysTyped DEF Typed, Working, Stores, MasterRecords
  <1>1. CASE EndList
    <2>1. /\ UNCHANGED <<redis, inboxes>>
          /\ master' = [master EXCEPT !.pc = IF KeysOf(master.session) = {} THEN "end_count" ELSE "end_get",
                                      !.todo = KeysOf(master.session)]
      BY <1>1 DEF EndList
    <2>2. Working'
      <3>1. KeysOf(master.session)' = KeysOf(master.session)' /\ UNCHANGED slaves
        BY <2>1 DEF redis
      <3>2. /\ master' \in MasterRecords /\ master'.session = master.session
            /\ master'.todo = KeysOf(master.session)
            /\ master'.pc = IF KeysOf(master.session) = {} THEN "end_count" ELSE "end_get"
        BY <1>0, <2>1 DEF MasterRecords, Ending
      <3> QED
        BY <1>0, <3>1, <3>2 DEF Working, MasterRecords, Open, Ending, Reporting, KeysOf
    <2> QED
      BY <1>0, <2>1, <2>2, Kept DEF Typed, redis
  <1>2. CASE EndGet
    <2> DEFINE i == Least(master.todo)
    <2>1. /\ UNCHANGED <<redis, inboxes>> /\ master.pc = "end_get"
          /\ master' = [master EXCEPT !.pc = IF master.todo = {i} THEN "end_set" ELSE @,
                                 !.todo = @ \ {i},
                                 !.got = Append(@, Record(master.session, i)),
                                 !.listed = @ + 1]
      BY <1>2 DEF EndGet
    <2>2. i \in master.todo /\ master.todo \subseteq KeysOf(master.session)
      <3>1. master.todo # {} /\ master.todo \subseteq KeysOf(master.session)
        BY <2>1 DEF Typed, Working, MasterRecords
      <3>2. master.todo \in SUBSET Nat
        BY <3>1, KeysTyped DEF Typed, Stores
      <3> QED
        BY <3>1, <3>2, LeastLemma
    <2>3. Record(master.session, i) \in SlaveStates
      BY <2>2, FoundLemma DEF Typed, Stores
    <2> DEFINE got == Append(master.got, Record(master.session, i))
    <2>4. got \in Seq(SlaveStates) /\ got # <<>>
      BY <1>0, <2>3, AppendTyped DEF MasterRecords
    <2>5. master' = [master EXCEPT !.pc = IF master.todo = {i} THEN "end_set" ELSE @,
                                 !.todo = @ \ {i}, !.got = got, !.listed = @ + 1]
      BY <1>0, <2>1 DEF MasterRecords
    <2> HIDE DEF i, got
    <2>6. /\ master' \in MasterRecords /\ master'.session = master.session
          /\ master'.todo = master.todo \ {i} /\ master'.got = got
          /\ master'.pc = IF master.todo = {i} THEN "end_set" ELSE "end_get"
      <3>1. master' = [pc |-> IF master.todo = {i} THEN "end_set" ELSE "end_get", session |-> master.session,
                       rec |-> master.rec, todo |-> master.todo \ {i}, got |-> got, listed |-> master.listed + 1]
        BY <1>0, <2>1, <2>5 DEF MasterRecords
      <3>2. /\ master.session \in Sessions /\ master.rec \in SlaveStates \cup {NoState}
            /\ master.todo \ {i} \in SUBSET (Ids \cup {NoId}) /\ master.listed + 1 \in Nat
        BY <1>0 DEF MasterRecords
      <3> QED
        BY <2>4, <3>1, <3>2 DEF MasterRecords, Ending
    <2>7. Working'
      <3>1. KeysOf(master.session)' = KeysOf(master.session)
        BY <2>1, <2>6 DEF KeysOf, redis
      <3> QED
        BY <1>0, <2>2, <2>4, <2>6, <3>1 DEF Working, MasterRecords, Open, Ending, Reporting
    <2> QED
      BY <1>0, <2>1, <2>7, Kept DEF Typed, redis
  <1>3. CASE EndSet
    <2>1. /\ master' = [master EXCEPT !.pc = "end_publish"] /\ master.pc = "end_set" /\ master.got # <<>>
          /\ SetState(Gone(Head(master.got))) /\ UNCHANGED <<metrics, inboxes>>
      BY <1>3 DEF EndSet, Typed, Working, MasterRecords
    <2>2. Head(master.got) \in SlaveStates
      BY <1>0, <2>1, TailTyped DEF MasterRecords
    <2>3. Stores'
      BY <1>0, <2>1, <2>2, GoneTyped, StoredTyped DEF Typed, Stores
    <2>4. Working'
      BY <1>0, <2>1 DEF Working, MasterRecords, Open, Ending, Reporting
    <2> QED
      BY <1>0, <2>1, <2>3, <2>4, Kept DEF Typed
  <1>4. CASE EndPublish
    <2>1. /\ master.pc = "end_publish" /\ master.got # <<>>
          /\ master' = [master EXCEPT !.pc = IF Len(master.got) = 1 THEN "end_count" ELSE "end_set",
                                      !.got = Tail(@)]
          /\ Publish(Gone(Head(master.got))) /\ UNCHANGED redis
      BY <1>4 DEF EndPublish, Typed, Working, MasterRecords
    <2> DEFINE rest == Tail(master.got)
    <2>2. /\ Head(master.got) \in SlaveStates /\ rest \in Seq(SlaveStates)
          /\ Len(master.got) # 1 => rest # <<>>
      BY <1>0, <2>1, TailTyped DEF MasterRecords
    <2>3. Messages'
      BY <1>0, <2>1, <2>2, GoneTyped, PublishTyped DEF Typed, Messages
    <2>4. Working'
      <3>1. master' = [master EXCEPT !.pc = IF Len(master.got) = 1 THEN "end_count" ELSE "end_set", !.got = rest]
        BY <1>0, <2>1 DEF MasterRecords
      <3> HIDE DEF rest
      <3>2. /\ master' \in MasterRecords /\ master'.session = master.session /\ master'.got = rest
            /\ master'.pc = IF Len(master.got) = 1 THEN "end_count" ELSE "end_set"
        BY <1>0, <2>2, <3>1 DEF MasterRecords, Ending
      <3> QED
        BY <1>0, <2>2, <3>2 DEF Working, MasterRecords, Open, Ending, Reporting
    <2> QED
      BY <1>0, <2>1, <2>3, <2>4, Kept DEF Typed, redis
  <1>5. CASE EndCount
    <2>1. /\ master' = [master EXCEPT !.pc = "end_keys", !.listed = 0]
          /\ Update(master.session, AllGone(master.listed)) /\ UNCHANGED <<slaves, inboxes>>
      BY <1>5 DEF EndCount
    <2>2. metrics' \in [Sessions -> Metrics \cup {NoMetrics}]
      <3>1. AllGone(master.listed) \in Metrics
        BY <1>0 DEF AllGone, Metrics, MasterRecords
      <3> QED
        BY <2>1, <3>1 DEF Update, Typed, Stores
    <2>3. Working'
      BY <1>0, <2>1 DEF Working, MasterRecords, Open, Ending, Reporting
    <2> QED
      BY <1>0, <2>1, <2>2, <2>3, Kept DEF Typed, Stores
  <1>6. CASE EndKeys
    <2>1. master' = [master EXCEPT !.pc = "end_delete", !.todo = KeysOf(master.session)] /\ UNCHANGED <<redis, inboxes>>
      BY <1>6 DEF EndKeys
    <2>2. Working'
      BY <1>0, <2>1 DEF Working, MasterRecords, Open, Ending, Reporting
    <2> QED
      BY <1>0, <2>1, <2>2, Kept DEF Typed, redis
  <1>7. CASE EndDelete
    <2>1. /\ metrics' = [metrics EXCEPT ![master.session] = NoMetrics] /\ slaves' \subseteq slaves
          /\ master' = NoWork /\ UNCHANGED inboxes
      BY <1>7 DEF EndDelete
    <2>2. Stores'
      BY <1>0, <2>1 DEF Typed, Stores
    <2> QED
      BY <1>0, <2>1, <2>2, Kept, FreeTyped DEF Typed
  <1>8. CASE EndFails
    BY <1>0, <1>8, Kept, FreeTyped DEF EndFails, Typed, redis
  <1> QED
    BY <1>1, <1>2, <1>3, <1>4, <1>5, <1>6, <1>7, <1>8 DEF endSession

-----------------------------------------------------------------------------
(* What has been recorded stays so.                                        *)
LEMMA RecordedGrows ==
    ASSUME IInv, used' \in {used, used + 1},
           \A c \in Ids : calls[c].pc \notin Unwritten => calls'[c].pc \notin Unwritten
    PROVE  /\ Recorded \subseteq Recorded'
           /\ \A q \in Seq(Recorded) : q \in Seq(Recorded')
  <1>1. used \in Nat /\ 1 .. used \subseteq 1 .. used'
    BY BackendAssumption DEF IInv, Registering
  <1>2. Recorded \subseteq Recorded'
    BY <1>1 DEF Recorded
  <1> QED
    BY <1>2

(* A step before the first event that writes no record.                    *)
LEMMA QuietKept ==
    ASSUME IInv, Quiet, published' = published, used' \in {used, used + 1},
           \A c \in Ids : calls[c].pc \notin Unwritten => calls'[c].pc \notin Unwritten,
           published = 0 => /\ events' = <<>> /\ loop' = Waiting
                            /\ IsFiniteSet(slaves') /\ slaves' \subseteq Recorded'
                            /\ \/ UNCHANGED master
                               \/ /\ master'.pc \in Reporting => master'.rec \in Recorded
                                  /\ master'.got \in Seq(Recorded)
    PROVE  Quiet'
  <1>1. CASE published = 0
    <2>1. /\ Recorded \subseteq Recorded'
          /\ \A q \in Seq(Recorded) : q \in Seq(Recorded')
      BY RecordedGrows
    <2>2. /\ master'.pc \in Reporting => master'.rec \in Recorded
          /\ master'.got \in Seq(Recorded)
      BY <1>1 DEF Quiet
    <2> QED
      BY <1>1, <2>1, <2>2 DEF Quiet
  <1>2. CASE published # 0
    BY <1>2 DEF Quiet
  <1> QED
    BY <1>1, <1>2

(* A step that writes no record and no gone counter.                       *)
LEMMA Unwriting ==
    ASSUME IInv, Quiet, Gones, UNCHANGED <<slaves, master>>, used' \in {used, used + 1},
                                           published' = published,
           \A c \in Ids : calls[c].pc \notin Unwritten => calls'[c].pc \notin Unwritten,
           published = 0 => events' = <<>> /\ loop' = Waiting,
           master.pc \in Open => metrics'[master.session] \in Metrics
                                 /\ metrics'[master.session].gone = metrics[master.session].gone
    PROVE  Quiet' /\ Gones'
  <1>1. Recorded \subseteq Recorded'
    BY RecordedGrows
  <1>2. published = 0 => IsFiniteSet(slaves') /\ slaves' \subseteq Recorded'
    BY <1>1 DEF Quiet
  <1>3. Quiet'
    BY <1>2, QuietKept
  <1>4. GoneIn(master.session)' = GoneIn(master.session) /\ Due' = Due
    BY DEF GoneIn, Due
  <1>5. Gones'
    BY <1>4 DEF Gones
  <1> QED
    BY <1>3, <1>5

(* After the first event nothing is claimed.                               *)
LEMMA Loud ==
    ASSUME Quiet, published' \in {published, published + 1}, published' # 0
    PROVE  Quiet' /\ Gones'
  BY DEF Quiet, Gones

(* An open session has metrics.                                            *)
LEMMA OpenMetrics ==
    ASSUME IInv, master.pc \in Open
    PROVE  metrics[master.session] \in Metrics /\ master.session \in Sessions
  BY BackendAssumption DEF IInv, Counted, Opened, Registering, Sessions

(* The slave processes.                                                    *)
LEMMA SlaveQuiet ==
    ASSUME Typed, IInv, Quiet, Gones, NEW p \in Pods, Slave(p)
    PROVE  Quiet' /\ Gones'
  <1>1. UNCHANGED <<slaves, master, metrics, used, published, events, loop>>
    BY DEF Slave, Ask, Answered, GivesUp, Exit, Start, redis, inboxes, bounds
  <1>2. \A c \in Ids : calls[c].pc \notin Unwritten => calls'[c].pc \notin Unwritten
    <2>1. CASE Ask(p)
      <3>1. PICK c \in Unused : calls' = [calls EXCEPT ![c] = [pc |-> "active", pod |-> p]]
        BY <2>1 DEF Ask
      <3>2. c \in Ids /\ calls[c].pc = "unused"
        BY DEF Unused
      <3> QED
        BY <3>1, <3>2 DEF Unwritten, IInv, Registering
    <2>2. CASE Answered(p) \/ GivesUp(p) \/ Exit(p) \/ Start(p)
      BY <2>2 DEF Answered, GivesUp, Exit, Start
    <2> QED
      BY <2>1, <2>2 DEF Slave
  <1> QED
    BY <1>1, <1>2, Unwriting, OpenMetrics DEF Quiet

(* RegisterSlave: its record is new, live and changes no count of gone ones.*)
LEMMA RegisterQuiet ==
    ASSUME Typed, IInv, Quiet, Gones, NEW c \in Ids, RegisterSlave(c)
    PROVE  Quiet' /\ Gones'
  <1>0. /\ UNCHANGED <<master, used, published, events, loop>>
        /\ DOMAIN calls = Ids /\ "pc" \in DOMAIN calls[c]
    BY DEF RegisterSlave, RegisterActive, RegisterSet, RegisterPublish, RegisterCount,
       RegisterFails,
           inboxes, bounds, IInv, Registering
  <1>1. \A d \in Ids : calls[d].pc \notin Unwritten => calls'[d].pc \notin Unwritten
    BY <1>0 DEF RegisterSlave, RegisterActive, RegisterSet, RegisterPublish, RegisterCount,
       RegisterFails, Unwritten
  <1>2. CASE RegisterActive(c) \/ RegisterPublish(c) \/ RegisterFails(c)
    <2>1. UNCHANGED <<slaves, metrics>>
      BY <1>2 DEF RegisterActive, RegisterPublish, RegisterFails, redis
    <2> QED
      BY <1>0, <1>1, <2>1, Unwriting, OpenMetrics DEF Quiet
  <1>3. CASE RegisterCount(c)
    <2>1. UNCHANGED slaves
      BY <1>3 DEF RegisterCount
    <2>2. master.pc \in Open => metrics'[master.session] \in Metrics
                                 /\ metrics'[master.session].gone = metrics[master.session].gone
      <3>1. SUFFICES ASSUME master.pc \in Open
                     PROVE  metrics'[master.session] \in Metrics
                            /\ metrics'[master.session].gone = metrics[master.session].gone
        OBVIOUS
      <3>2. metrics[master.session] \in Metrics
        BY <3>1, OpenMetrics
      <3>3. metrics'[master.session] \in {metrics[master.session], Registered(metrics[master.session])}
        <4>1. CASE UNCHANGED metrics
          BY <4>1
        <4>2. CASE Update(calls[c].session, Registered(metrics[calls[c].session]))
          BY <3>1, <4>2, OpenMetrics DEF Update, Typed, Stores
        <4> QED
          BY <1>3, <4>1, <4>2 DEF RegisterCount
      <3> QED
        BY <3>2, <3>3 DEF Registered, Metrics
    <2> QED
      BY <1>0, <1>1, <2>1, <2>2, Unwriting DEF Quiet
  <1>4. CASE RegisterSet(c)
    <2> DEFINE R == Registration(c)
    <2>1. /\ calls[c].pc = "set" /\ SetState(R) /\ UNCHANGED <<metrics, pods>>
          /\ calls' = [calls EXCEPT ![c].pc = "publish"]
      BY <1>4 DEF RegisterSet
    <2>2. R.id = c /\ R.status = "LIVE" /\ R.session \in 1 .. used /\ R \in SlaveStates
      BY <2>1, BackendAssumption DEF Registration, IInv, Registering, Serving, Typed, Stores,
         SlaveStates, Statuses, Sessions
    <2>3. CASE published # 0
      BY <1>0, <2>3, Loud
    <2>4. CASE published = 0
      <3>1. \A x \in slaves : x.id # c
        BY <2>1, <2>4 DEF Quiet, Recorded, Unwritten
      <3>2. slaves' = slaves \cup {R}
        BY <2>1, <2>2, <3>1 DEF SetState, Key
      <3>3. R \in Recorded'
        BY <1>0, <2>1, <2>2 DEF Recorded, Unwritten
      <3>4. IsFiniteSet(slaves')
        BY <2>4, <3>2, FS_AddElement DEF Quiet
      <3>5. Recorded \subseteq Recorded'
        BY <1>0, <1>1, RecordedGrows
      <3>6. slaves' \subseteq Recorded'
        BY <2>4, <3>2, <3>3, <3>5 DEF Quiet
      <3>7. events' = <<>> /\ loop' = Waiting
        BY <1>0, <2>4 DEF Quiet
      <3>8. Quiet'
        BY <1>0, <1>1, <3>4, <3>6, <3>7, QuietKept
      <3>9. Gones'
        <4>1. GoneIn(master.session)' = GoneIn(master.session) /\ Due' = Due
          BY <1>0, <2>2, <3>2 DEF GoneIn, Due
        <4> QED
          BY <1>0, <2>1, <3>2, <4>1 DEF Gones
      <3> QED
        BY <3>8, <3>9
    <2> QED
      BY <2>3, <2>4
  <1> QED
    BY <1>2, <1>3, <1>4 DEF RegisterSlave

(* The rest of the controller does nothing before the first event.         *)
LEMMA OthersQuiet ==
    ASSUME Typed, IInv, Quiet, Gones, Subscriber \/ EventLoop \/ ControllerRestart \/ Post
    PROVE  Quiet' /\ Gones'
  <1>1. CASE Subscriber
    <2>1. UNCHANGED <<slaves, master, metrics, used, published, events, loop, calls>>
      BY <1>1 DEF Subscriber, Observe, notifyGoneSlave, redis, inboxes, bounds
    <2> QED
      BY <2>1, Unwriting, OpenMetrics DEF Quiet
  <1>2. CASE EventLoop
    <2>1. ~(events = <<>> /\ loop = Waiting) /\ published' = published
      <3>1. loop = Waiting => loop.pc = "wait"
        BY DEF Waiting
      <3>2. loop.pc # "wait" \/ events # <<>>
        BY <1>2 DEF EventLoop, LoopList, LoopGet, Execute, LoopSet, LoopPublish, LoopCount,
           LoopFails
      <3>3. published' = published
        BY <1>2 DEF EventLoop, LoopList, LoopGet, Execute, LoopSet, LoopPublish, LoopCount,
           LoopFails, bounds
      <3> QED
        BY <3>1, <3>2, <3>3
    <2> QED
      BY <2>1, Loud DEF Quiet
  <1>3. CASE ControllerRestart
    <2>1. /\ UNCHANGED <<slaves, master, metrics, used,
                         published>> /\ events' = <<>> /\ loop' = Waiting
          /\ \A c \in Ids : calls[c].pc \notin Unwritten => calls'[c].pc \notin Unwritten
      BY <1>3 DEF ControllerRestart, redis, bounds, Unwritten, IInv, Registering
    <2> QED
      BY <2>1, Unwriting, OpenMetrics
  <1>4. CASE PostActive
    <2>1. UNCHANGED <<slaves, master, metrics, used, published, events, loop, calls>>
      BY <1>4 DEF PostActive, redis, inboxes, bounds
    <2> QED
      BY <2>1, Unwriting, OpenMetrics DEF Quiet
  <1>5. CASE \E t \in {AnyTarget} \cup Pods \cup Ids : PublishEvent(t)
    BY <1>5, Loud DEF PublishEvent, Quiet
  <1> QED
    BY <1>1, <1>2, <1>3, <1>4, <1>5 DEF Post

(* A session that is opened has no records.                                *)
LEMMA SessionQuiet ==
    ASSUME Typed, IInv, Quiet, Gones, StartSession \/ CreateSession
    PROVE  Quiet' /\ Gones'
  <1>0. /\ UNCHANGED <<slaves, calls, events, loop, published>>
        /\ used' \in {used, used + 1}
    BY DEF StartSession, CreateSession, redis, inboxes, bounds
  <1>1. /\ master'.got \in Seq(Recorded) \/ master'.got = master.got
        /\ master'.pc \notin Reporting /\ (master'.pc \in Open => master'.pc = "open")
    <2>1. CASE StartSession
      <3>1. master' = [master EXCEPT !.pc = "starting"]
        BY <2>1 DEF StartSession
      <3>2. master'.pc = "starting" /\ master'.got = master.got
        BY <3>1 DEF Typed, Working, MasterRecords
      <3> QED
        BY <3>2 DEF Reporting, Open
    <2>2. CASE CreateSession
      <3>1. master' \in {NoWork, [NoWork EXCEPT !.pc = "open", !.session = used']}
        BY <2>2 DEF CreateSession
      <3>2. master'.pc \in {"idle", "open"} /\ master'.got = <<>>
        <4>1. NoWork.pc = "idle" /\ NoWork.got = <<>>
          BY DEF NoWork
        <4>2. CASE master' = NoWork
          BY <4>1, <4>2
        <4>3. CASE master' = [NoWork EXCEPT !.pc = "open", !.session = used']
          BY <4>3 DEF NoWork
        <4> QED
          BY <3>1, <4>2, <4>3
      <3>3. master'.got \in Seq(Recorded)
        BY <3>2
      <3> QED
        BY <3>2, <3>3 DEF Reporting, Open
    <2> QED
      BY <2>1, <2>2
  <1>2. Quiet'
    <2>1. Recorded \subseteq Recorded'
      BY <1>0, RecordedGrows
    <2>2. published = 0 => /\ IsFiniteSet(slaves') /\ slaves' \subseteq Recorded'
                           /\ master'.got \in Seq(Recorded)
                           /\ events' = <<>> /\ loop' = Waiting
      BY <1>0, <1>1, <2>1 DEF Quiet
    <2> QED
      BY <1>0, <1>1, <2>2, QuietKept
  <1>3. Gones'
    <2>1. ASSUME published = 0, master'.pc \in Open
          PROVE  /\ metrics'[master'.session] = [live |-> 0, gone |-> 0]
                 /\ GoneIn(master.session)' = {}
                 /\ master'.pc = "open"
      <3>1. CreateSession
        BY <2>1 DEF StartSession, Typed, Working, MasterRecords, Open
      <3>2. used' = used + 1 /\ master.pc = "starting"
        BY <3>1 DEF CreateSession
      <3>3. /\ metrics' = [metrics EXCEPT ![used'] = [live |-> 0, gone |-> 0]]
            /\ master' = [NoWork EXCEPT !.pc = "open", !.session = used']
        BY <2>1, <3>1 DEF CreateSession, NoWork, Open
      <3>4. master'.session = used' /\ master'.pc = "open"
        BY <3>3 DEF NoWork
      <3>5. used' \in Sessions /\ used \in Nat
        BY <3>2, BackendAssumption DEF IInv, Registering, Opened, Sessions
      <3>6. metrics'[used'] = [live |-> 0, gone |-> 0]
        BY <3>3, <3>5 DEF Typed, Stores
      <3>7. \A r \in slaves : r.session # used'
        BY <2>1, <3>2, <3>5 DEF Quiet, Recorded
      <3>8. GoneIn(master.session)' = {}
        BY <1>0, <3>4, <3>7 DEF GoneIn
      <3> QED
        BY <3>4, <3>6, <3>8
    <2>2. Cardinality({}) = 0
      BY FS_EmptySet
    <2>3. [live |-> 0, gone |-> 0] \in Metrics
      BY DEF Metrics
    <2> QED
      BY <1>0, <2>1, <2>2, <2>3 DEF Gones, Due
  <1> QED
    BY <1>2, <1>3

(* What writing a GONE state over a record does.                           *)
LEMMA GoneStored ==
    ASSUME Typed, IInv, Quiet, published = 0, NEW r \in Recorded, SetState(Gone(r))
    PROVE  /\ IsFiniteSet(slaves') /\ slaves' \subseteq Recorded
           /\ \A s : IsFiniteSet(GoneIn(s))
           /\ r \in slaves => \A s : GoneIn(s)' =
                  IF s = r.session THEN GoneIn(s) \cup {Gone(r)} ELSE GoneIn(s)
           /\ r \in slaves /\ r.status = "LIVE" => Gone(r) \notin GoneIn(r.session)
           /\ r \in slaves /\ r.status # "LIVE" => Gone(r) \in GoneIn(r.session)
  <1>1. r \in SlaveStates /\ slaves \subseteq SlaveStates
    BY DEF Recorded, Typed, Stores
  <1>2. /\ Gone(r) \in SlaveStates /\ Key(Gone(r)) = Key(r) /\ Gone(r).status = "GONE"
        /\ Gone(r).session = r.session /\ Gone(r).id = r.id
    BY <1>1, GoneTyped
  <1>3. Gone(r) \in Recorded
    BY <1>2 DEF Recorded
  <1>4. slaves' = {x \in slaves : Key(x) # Key(r)} \cup {Gone(r)}
    BY <1>2 DEF SetState
  <1>5. IsFiniteSet(slaves') /\ slaves' \subseteq Recorded
    <2>1. IsFiniteSet(slaves) /\ slaves \subseteq Recorded
      BY DEF Quiet
    <2>2. IsFiniteSet({x \in slaves : Key(x) # Key(r)})
      BY <2>1, FS_Subset
    <2> QED
      BY <1>3, <1>4, <2>1, <2>2, FS_AddElement
  <1>6. \A s : IsFiniteSet(GoneIn(s))
    BY FS_Subset DEF Quiet, GoneIn
  <1>7. ASSUME r \in slaves
        PROVE  slaves' = (slaves \ {r}) \cup {Gone(r)}
    BY <1>4, <1>7 DEF Typed, Stores
  <1>8. r.status = "LIVE" \/ Gone(r) = r
    <2>1. r.status \in {"LIVE", "GONE"}
      BY DEF Recorded, SlaveStates, Statuses
    <2>2. r.status = "GONE" => Gone(r) = r
      BY <1>1 DEF Gone, SlaveStates
    <2> QED
      BY <2>1, <2>2
  <1>9. ASSUME r \in slaves, NEW s
        PROVE  GoneIn(s)' = IF s = r.session THEN GoneIn(s) \cup {Gone(r)} ELSE GoneIn(s)
    <2>1. GoneIn(s)' = {x \in slaves' : x.session = s /\ x.status = "GONE"}
      BY DEF GoneIn
    <2> QED
      BY <1>2, <1>7, <1>8, <1>9, <2>1 DEF GoneIn
  <1>10. r \in slaves /\ r.status = "LIVE" => Gone(r) \notin GoneIn(r.session)
    BY <1>2 DEF GoneIn, Typed, Stores
  <1>11. r \in slaves /\ r.status # "LIVE" => Gone(r) \in GoneIn(r.session)
    BY <1>2, <1>8 DEF GoneIn
  <1> QED
    BY <1>5, <1>6, <1>9, <1>10, <1>11

(* handlePodStateUpdate: a live slave is gone first and counted afterwards.*)
LEMMA ReportQuiet ==
    ASSUME Typed, IInv, Quiet, Gones, handlePodStateUpdate
    PROVE  Quiet' /\ Gones'
  <1>0. /\ UNCHANGED <<calls, events, loop, used, published>>
        /\ master.pc \in Open
    BY DEF handlePodStateUpdate, ReportGet, ReportSet, ReportPublish, ReportCount, ReportFails,
           redis, inboxes, bounds, Open
  <1>1. CASE published # 0
    BY <1>0, <1>1, Loud
  <1>2. CASE published = 0
    <2>1. /\ Recorded' = Recorded /\ slaves \subseteq Recorded /\ IsFiniteSet(slaves)
          /\ master.got \in Seq(Recorded) /\ events' = <<>> /\ loop' = Waiting
          /\ master.pc \in Reporting => master.rec \in Recorded
          /\ master \in MasterRecords
      BY <1>0, <1>2 DEF Quiet, Recorded, Typed, Working, MasterRecords
    <2>2. CASE ReportGet
      <3>1. PICK i \in KeysOf(master.session) :
                master' = [master EXCEPT !.pc = "report_set", !.rec = Record(master.session, i)]
        BY <2>2 DEF ReportGet
      <3> DEFINE r == Record(master.session, i)
      <3>2. r \in slaves /\ r.session = master.session
        BY <3>1, FoundLemma
      <3>3. master' = [master EXCEPT !.pc = "report_set", !.rec = r] /\ UNCHANGED redis /\ master.pc = "open"
        BY <2>2, <3>1 DEF ReportGet
      <3> HIDE DEF r
      <3>4. master'.pc = "report_set" /\ master'.rec = r /\ master'.got = master.got /\ master'.session = master.session
        BY <2>1, <3>3 DEF MasterRecords
      <3>5. Quiet'
        BY <1>0, <2>1, <3>2, <3>3, <3>4, QuietKept DEF redis
      <3>6. GoneIn(master.session)' = GoneIn(master.session) /\ Due' = 0 /\ Due = 0
        BY <3>3, <3>4 DEF GoneIn, Due, redis
      <3>7. Gones'
        BY <1>0, <1>2, <3>2, <3>3, <3>4, <3>6 DEF Gones, redis
      <3> QED
        BY <3>5, <3>7
    <2>3. CASE ReportSet
      <3> DEFINE r == master.rec
      <3>1. /\ master' = [master EXCEPT !.pc = "report_publish"] /\ SetState(Gone(r))
            /\ UNCHANGED metrics /\ master.pc = "report_set"
        BY <2>3 DEF ReportSet
      <3>2. r \in Recorded
        BY <2>1, <3>1 DEF Reporting
      <3>3. master'.pc = "report_publish" /\ master'.rec = r /\ master'.got = master.got /\ master'.session = master.session
        BY <2>1, <3>1 DEF MasterRecords
      <3>4. Quiet'
        BY <1>0, <1>2, <2>1, <3>1, <3>2, <3>3, GoneStored, QuietKept
      <3>5. ASSUME "redis" \notin Faults
            PROVE  Cardinality(GoneIn(master.session)') = metrics[master.session].gone + Due'
        <4>1. r \in slaves /\ r.session = master.session /\ Due = 0
              /\ metrics[master.session] \in Metrics
              /\ Cardinality(GoneIn(master.session)) = metrics[master.session].gone + Due
          BY <1>0, <1>2, <3>1, <3>5 DEF Gones, Due
        <4>2. /\ IsFiniteSet(GoneIn(r.session))
              /\ GoneIn(r.session)' = GoneIn(r.session) \cup {Gone(r)}
              /\ r.status = "LIVE" => Gone(r) \notin GoneIn(r.session)
              /\ r.status # "LIVE" => Gone(r) \in GoneIn(r.session)
          BY <1>2, <3>1, <3>2, <4>1, GoneStored
        <4>3. Cardinality(GoneIn(r.session) \cup {Gone(r)}) =
                 IF Gone(r) \in GoneIn(r.session) THEN Cardinality(GoneIn(r.session))
                                                  ELSE Cardinality(GoneIn(r.session)) + 1
          BY <4>2, FS_AddElement
        <4>4. Due' = IF r.status = "LIVE" THEN 1 ELSE 0
          BY <3>3 DEF Due
        <4>5. metrics[master.session].gone \in Nat
          BY <4>1 DEF Metrics
        <4>6. GoneIn(master.session)' = GoneIn(r.session)'
          BY <3>3, <4>1 DEF GoneIn
        <4> QED
          BY <4>1, <4>2, <4>3, <4>4, <4>5, <4>6
      <3>6. Gones'
        BY <1>0, <3>1, <3>3, <3>5, OpenMetrics DEF Gones
      <3> QED
        BY <3>4, <3>6
    <2>4. CASE ReportPublish
      <3>1. /\ UNCHANGED redis /\ master.pc = "report_publish"
            /\ master' = IF isTerminalState(master.rec.status)
                         THEN [master EXCEPT !.pc = "open", !.rec = NoState]
                         ELSE [master EXCEPT !.pc = "report_count"]
        BY <2>4 DEF ReportPublish
      <3>2. master.rec \in Recorded
        BY <2>1, <3>1 DEF Reporting
      <3>3. isTerminalState(master.rec.status) <=> master.rec.status # "LIVE"
        BY <3>2 DEF isTerminalState, Recorded, SlaveStates, Statuses
      <3>4. /\ master'.got = master.got /\ master'.session = master.session
            /\ master.rec.status # "LIVE" => master'.pc = "open"
            /\ master.rec.status = "LIVE" => master'.pc = "report_count" /\ master'.rec = master.rec
        BY <2>1, <3>1, <3>3 DEF MasterRecords
      <3>5. Quiet'
        BY <1>0, <2>1, <3>1, <3>2, <3>4, QuietKept DEF redis, Reporting
      <3>6. GoneIn(master.session)' = GoneIn(master.session) /\ Due' = Due
        BY <3>1, <3>4 DEF GoneIn, Due, redis
      <3>7. Gones'
        BY <1>0, <3>1, <3>4, <3>6 DEF Gones, redis, Open
      <3> QED
        BY <3>5, <3>7
    <2>5. CASE ReportCount \/ ReportFails
      <3>1. /\ UNCHANGED slaves
            /\ master' = [master EXCEPT !.pc = "open", !.rec = NoState]
        BY <2>5 DEF ReportCount, ReportFails, redis
      <3>2. master'.pc = "open" /\ master'.got = master.got /\ master'.session = master.session
        BY <2>1, <3>1 DEF MasterRecords
      <3>3. Quiet'
        BY <1>0, <2>1, <3>1, <3>2, QuietKept DEF Reporting
      <3>4. ASSUME "redis" \notin Faults
            PROVE  /\ metrics'[master.session] \in Metrics
                   /\ Cardinality(GoneIn(master.session)) = metrics'[master.session].gone
        <4>1. ReportCount
          BY <2>5, <3>4 DEF ReportFails
        <4>2. master.pc = "report_count" /\ Due = 1
              /\ metrics' = [metrics EXCEPT ![master.session] = Died(metrics[master.session])]
          BY <4>1 DEF ReportCount, Update, Due
        <4>3. metrics[master.session] \in Metrics /\ master.session \in Sessions
          BY <1>0, OpenMetrics
        <4>4. metrics'[master.session] = Died(metrics[master.session])
          BY <4>2, <4>3 DEF Typed, Stores
        <4>5. /\ Died(metrics[master.session]) \in Metrics
              /\ Died(metrics[master.session]).gone = metrics[master.session].gone + 1
          BY <4>3, MetricsTyped DEF Died
        <4>6. Cardinality(GoneIn(master.session)) = metrics[master.session].gone + 1
          BY <1>0, <1>2, <3>4, <4>2 DEF Gones
        <4> QED
          BY <4>4, <4>5, <4>6
      <3>5. GoneIn(master.session)' = GoneIn(master.session) /\ Due' = 0
        BY <3>1, <3>2 DEF GoneIn, Due
      <3>6. Gones'
        <4>1. ASSUME "redis" \notin Faults
              PROVE  metrics'[master.session].gone \in Nat
          BY <3>4, <4>1 DEF Metrics
        <4> QED
          BY <3>2, <3>4, <3>5, <4>1 DEF Gones
      <3> QED
        BY <3>3, <3>6
    <2> QED
      BY <2>2, <2>3, <2>4, <2>5 DEF handlePodStateUpdate
  <1> QED
    BY <1>1, <1>2

(* endSession.                                                             *)
LEMMA EndQuiet ==
    ASSUME Typed, IInv, Quiet, Gones, endSession, Working'
    PROVE  Quiet' /\ Gones'
  <1>0. UNCHANGED <<calls, events, loop, used, published>>
    BY DEF endSession, EndList, EndGet, EndSet, EndPublish, EndCount, EndKeys, EndDelete,
       EndFails,
           redis, inboxes, bounds
  <1>1. CASE published # 0
    BY <1>0, <1>1, Loud
  <1>2. CASE published = 0
    <2>1. /\ slaves \subseteq Recorded /\ IsFiniteSet(slaves) /\ Recorded' = Recorded
          /\ master.got \in Seq(Recorded) /\ events' = <<>> /\ loop' = Waiting
          /\ master \in MasterRecords
      BY <1>0, <1>2 DEF Quiet, Recorded, Typed, Working, MasterRecords
    <2>2. /\ master'.pc \notin Open /\ master'.pc \notin Reporting
          /\ master'.got \in Seq(Recorded)
          /\ \/ slaves' \subseteq slaves
             \/ IsFiniteSet(slaves') /\ slaves' \subseteq Recorded
      <3>1. CASE EndList \/ EndKeys \/ EndCount
        <4>1. /\ UNCHANGED slaves /\ master'.got = master.got
              /\ master'.pc \in {"end_count", "end_get", "end_keys", "end_delete"}
          BY <2>1, <3>1 DEF EndList, EndKeys, EndCount, MasterRecords, redis
        <4> QED
          BY <2>1, <4>1 DEF Open, Reporting
      <3>2. CASE EndGet
        <4> DEFINE i == Least(master.todo)
                   r == Record(master.session, i)
        <4>1. /\ UNCHANGED redis /\ master.pc = "end_get"
              /\ master' = [master EXCEPT !.pc = IF @ = "end_get" /\ master.todo = {i} THEN "end_set" ELSE @,
                                 !.todo = @ \ {i}, !.got = Append(@, r), !.listed = @ + 1]
          BY <3>2 DEF EndGet
        <4>2. i \in KeysOf(master.session)
          <5>1. master.todo # {} /\ master.todo \subseteq KeysOf(master.session)
            BY <4>1 DEF Typed, Working, MasterRecords
          <5>2. master.todo \in SUBSET Nat
            BY <5>1, KeysTyped DEF Typed, Stores
          <5> QED
            BY <5>1, <5>2, LeastLemma
        <4>3. r \in Recorded
          BY <2>1, <4>2, FoundLemma
        <4> HIDE DEF r, i
        <4>4. Append(master.got, r) \in Seq(Recorded)
          BY <2>1, <4>3, AppendTyped
        <4>5. master'.got = Append(master.got, r) /\ master'.pc \in {"end_get", "end_set"}
          BY <2>1, <4>1 DEF MasterRecords
        <4> QED
          BY <4>1, <4>4, <4>5 DEF Open, Reporting, redis
      <3>3. CASE EndSet
        <4>1. /\ SetState(Gone(Head(master.got))) /\ master.got # <<>>
              /\ master' = [master EXCEPT !.pc = "end_publish"]
          BY <3>3 DEF EndSet, Typed, Working, MasterRecords
        <4>2. Head(master.got) \in Recorded
          BY <2>1, <4>1, TailTyped
        <4>3. IsFiniteSet(slaves') /\ slaves' \subseteq Recorded
          BY <1>2, <4>1, <4>2, GoneStored
        <4>4. master'.pc = "end_publish" /\ master'.got = master.got
          BY <2>1, <4>1 DEF MasterRecords
        <4> QED
          BY <2>1, <4>3, <4>4 DEF Open, Reporting
      <3>4. CASE EndPublish
        <4>1. /\ UNCHANGED slaves /\ master.got # <<>>
              /\ master'.got = Tail(master.got) /\ master'.pc \in {"end_count", "end_set"}
          BY <2>1, <3>4 DEF EndPublish, Typed, Working, MasterRecords, redis
        <4>2. Tail(master.got) \in Seq(Recorded)
          BY <2>1, <4>1, TailTyped
        <4> QED
          BY <4>1, <4>2 DEF Open, Reporting
      <3>5. CASE EndDelete \/ EndFails
        <4>1. slaves' \subseteq slaves /\ master' = NoWork
          BY <3>5 DEF EndDelete, EndFails, redis
        <4>2. master'.pc = "idle" /\ master'.got = <<>>
          BY <4>1 DEF NoWork
        <4>3. master'.got \in Seq(Recorded)
          BY <4>2
        <4> QED
          BY <4>1, <4>2, <4>3 DEF Open, Reporting
      <3> QED
        BY <3>1, <3>2, <3>3, <3>4, <3>5 DEF endSession
    <2>3. IsFiniteSet(slaves') /\ slaves' \subseteq Recorded'
      BY <2>1, <2>2, FS_Subset
    <2>4. Quiet'
      BY <1>0, <2>1, <2>2, <2>3, QuietKept
    <2>5. Gones'
      BY <2>2 DEF Gones
    <2> QED
      BY <2>4, <2>5
  <1> QED
    BY <1>1, <1>2

-----------------------------------------------------------------------------
(* Types, and what the reports have counted.                               *)
Counts == Typed /\ Quiet /\ Gones

(* In the beginning nothing is counted.                                    *)
LEMMA InitCounts == Init => Counts
  <1> SUFFICES ASSUME Init PROVE Counts
    OBVIOUS
  <1>1. Quiet
    BY FS_EmptySet DEF Init, Quiet, NoWork, Reporting
  <1>2. Gones
    BY DEF Init, Gones, NoWork, Open
  <1> QED
    BY <1>1, <1>2, InitTyped DEF Counts

(* Every step keeps the counts.                                            *)
LEMMA CountsStep == IInv /\ Counts /\ [Next]_vars => Counts'
  <1> SUFFICES ASSUME IInv, Typed, Quiet, Gones, [Next]_vars
               PROVE  Typed' /\ Quiet' /\ Gones'
    BY DEF Counts
  <1>1. CASE \E p \in Pods : Slave(p)
    BY <1>1, SlaveTyped, SlaveQuiet
  <1>2. CASE \E c \in Ids : RegisterSlave(c)
    BY <1>2, RegisterTyped, RegisterQuiet
  <1>3. CASE Subscriber \/ EventLoop \/ ControllerRestart \/ Post
    BY <1>3, SubscriberTyped, EventLoopTyped, RestartTyped, PostTyped, OthersQuiet
  <1>4. CASE StartSession \/ CreateSession
    BY <1>4, SessionTyped, SessionQuiet
  <1>5. CASE handlePodStateUpdate
    BY <1>5, ReportTyped, ReportQuiet
  <1>6. CASE endSession
    <2>1. Typed' /\ Working'
      BY <1>6, EndTyped DEF Typed
    <2> QED
      BY <1>6, <2>1, EndQuiet
  <1>7. CASE UNCHANGED vars
    <2>1. UNCHANGED <<redis, inboxes, notify, calls, loop, master, posting, pods, used,
                      published>>
      BY <1>7 DEF vars, bounds
    <2>2. Typed'
      BY <2>1, Kept DEF Typed, redis
    <2>3. UNCHANGED <<slaves, master, metrics, used, published, events, loop, calls>>
      BY <2>1 DEF redis, inboxes
    <2> QED
      BY <2>2, <2>3, Unwriting, OpenMetrics DEF Quiet
  <1> QED
    BY <1>1, <1>2, <1>3, <1>4, <1>5, <1>6, <1>7 DEF Next, Master

(* Types and counts hold throughout.                                       *)
LEMMA CountsInvariant == Safe => []Counts
  BY InitCounts, Invariance, CountsStep, PTL DEF Safe

(* TypeOK: every key, message, process and work in progress keeps its      *)
(* type, each key has one record, and nothing is read that is not there.   *)
THEOREM TypesAreKept == Safe => []TypeOK
  <1>1. IInv /\ Counts => TypeOK
    <2> SUFFICES ASSUME IInv, Typed PROVE TypeOK
      BY DEF Counts
    <2>1. active \in Sessions \cup {NoSession}
      BY BackendAssumption DEF IInv, Registering, Sessions
    <2>2. \A p \in Pods : pods[p].status \in Statuses /\ pods[p].id \in Ids \cup {NoId}
      BY DEF Typed, Stores, PodRecords
    <2> QED
      BY <2>1, <2>2 DEF TypeOK, Typed, Stores, Messages, Working, MasterRecords
  <1> QED
    BY <1>1, Invariance, CountsInvariant, PTL

(* As long as the browser's reports are the only deaths, the gone counter  *)
(* is the number of gone records.                                          *)
THEOREM ReportsAreCounted == Safe => []ReportsCounted
  <1>1. Counts => ReportsCounted
    BY DEF Counts, Gones, ReportsCounted, GoneIn, Due, Open, Metrics
  <1> QED
    BY <1>1, CountsInvariant, PTL

-----------------------------------------------------------------------------
(* Whom a state is about: the process that asked for its slave_id.         *)

Own == {r \in SlaveStates : r.id # NoId => calls[r.id].pc # "unused" /\ calls[r.id].pod = r.pod}

(* A process goes by, and asks for, slave_ids that were minted for it; one *)
(* that does not run has none.                                             *)
OwnIds ==
    \A p \in Pods :
        /\ ~pods[p].up => pods[p].id = NoId /\ pods[p].call = NoId
        /\ pods[p].call # NoId => calls[pods[p].call].pc # "unused" /\ calls[pods[p].call].pod = p
        /\ pods[p].id # NoId => calls[pods[p].id].pc # "unused" /\ calls[pods[p].id].pod = p

(* Every state that is stored, sent or worked on is a process's own.       *)
OwnStates ==
    /\ slaves \subseteq Own
    /\ states \in Seq(Own)
    /\ notify # NoState => notify \in Own

OwnWork ==
    /\ loop.pc \in {"set", "publish"} => loop.resp \in Own
    /\ master.pc \in Reporting => master.rec \in Own
    /\ master.got \in Seq(Own)

(* What is remembered as GONE was minted.                                  *)
Remembered ==
    \A k \in goneSeen : k[2] # NoId => k[2] \in Ids /\ calls[k[2]].pc # "unused"

Minted == OwnIds /\ OwnStates /\ OwnWork /\ Remembered

(* Requests stay those of the process that made them.                      *)
CallsStay ==
    \A c \in Ids : calls[c].pc # "unused" => calls'[c].pc # "unused" /\ calls'[c].pod = calls[c].pod

(* What is a process's own stays so.                                       *)
LEMMA OwnGrows ==
    ASSUME CallsStay
    PROVE  /\ Own \subseteq Own'
           /\ \A q \in Seq(Own) : q \in Seq(Own')
  <1>1. Own \subseteq Own'
    <2> SUFFICES ASSUME NEW r \in Own PROVE r \in Own'
      OBVIOUS
    <2>1. r \in SlaveStates /\ r.id \in Ids \cup {NoId}
      BY DEF Own, SlaveStates
    <2> QED
      BY <2>1 DEF Own, CallsStay
  <1> QED
    BY <1>1

(* What a step leaves alone stays a process's own.                         *)
LEMMA OwnKept ==
    ASSUME Minted, Typed, CallsStay
    PROVE  /\ UNCHANGED pods => OwnIds'
           /\ UNCHANGED <<slaves, states, notify>> => OwnStates'
           /\ UNCHANGED <<loop, master>> => OwnWork'
           /\ UNCHANGED goneSeen => Remembered'
  <1>1. /\ Own \subseteq Own'
        /\ \A q \in Seq(Own) : q \in Seq(Own')
    BY OwnGrows
  <1>2. UNCHANGED pods => OwnIds'
    <2>1. \A p \in Pods : pods[p].id \in Ids \cup {NoId} /\ pods[p].call \in Ids \cup {NoId}
      BY DEF Typed, Stores, PodRecords
    <2> QED
      BY <2>1 DEF Minted, OwnIds, CallsStay
  <1>3. UNCHANGED <<slaves, states, notify>> => OwnStates'
    BY <1>1 DEF Minted, OwnStates
  <1>4. UNCHANGED <<loop, master>> => OwnWork'
    BY <1>1 DEF Minted, OwnWork
  <1>5. UNCHANGED goneSeen => Remembered'
    BY DEF Minted, Remembered, CallsStay
  <1> QED
    BY <1>2, <1>3, <1>4, <1>5

(* A process's own state, stored or published.                             *)
LEMMA OwnSent ==
    ASSUME Minted, CallsStay, NEW r \in Own
    PROVE  /\ SetState(r) => slaves' \subseteq Own'
           /\ Publish(r) => states' \in Seq(Own')
           /\ Gone(r) \in Own
  <1>1. /\ Own \subseteq Own'
        /\ \A q \in Seq(Own) : q \in Seq(Own')
    BY OwnGrows
  <1>2. SetState(r) => slaves' \subseteq Own'
    BY <1>1 DEF SetState, Minted, OwnStates
  <1>3. Publish(r) => states' \in Seq(Own')
    <2>1. Append(states, r) \in Seq(Own) /\ states \in Seq(Own)
      BY AppendTyped DEF Minted, OwnStates
    <2> QED
      BY <1>1, <2>1 DEF Publish
  <1>4. Gone(r) \in Own
    <2>1. r \in SlaveStates
      BY DEF Own
    <2> QED
      BY <2>1, GoneTyped DEF Own
  <1> QED
    BY <1>2, <1>3, <1>4

(* No step takes a request from its process.                               *)
LEMMA CallsStayLemma ==
    ASSUME Typed, IInv, [Next]_vars
    PROVE  CallsStay
  <1>0. /\ DOMAIN calls = Ids
        /\ \A c \in Ids : "pc" \in DOMAIN calls[c]
        /\ \A c \in Ids : calls[c].pc # "unused" => "pod" \in DOMAIN calls[c]
    BY DEF IInv, Registering, Typed, Stores
  <1>1. ASSUME NEW p \in Pods, Ask(p) PROVE CallsStay
    <2>1. PICK c \in Unused : calls' = [calls EXCEPT ![c] = [pc |-> "active", pod |-> p]]
      BY <1>1 DEF Ask
    <2>2. c \in Ids /\ calls[c].pc = "unused"
      BY DEF Unused
    <2> QED
      BY <1>0, <2>1, <2>2 DEF CallsStay
  <1>2. ASSUME NEW c \in Ids, RegisterSlave(c) PROVE CallsStay
    <2>1. calls[c].pc # "unused"
      BY <1>2 DEF RegisterSlave, RegisterActive, RegisterSet, RegisterPublish, RegisterCount,
         RegisterFails
    <2>2. \A st : LET r == [calls[c] EXCEPT !.pc = st] IN r.pc = st /\ r.pod = calls[c].pod
      BY <1>0, <2>1
    <2>3. CASE \E st \in {"error", "publish", "count", "ok"} : calls' = [calls EXCEPT ![c].pc = st]
      <3>1. PICK st \in {"error", "publish", "count", "ok"} : calls' = [calls EXCEPT ![c] = [calls[c] EXCEPT !.pc = st]]
        BY <2>3
      <3> QED
        BY <1>0, <2>2, <3>1 DEF CallsStay
    <2>4. CASE RegisterActive(c)
      <3>1. CASE active = NoSession
        BY <1>0, <2>2, <2>4, <3>1 DEF RegisterActive, CallsStay
      <3>2. CASE active # NoSession
        BY <1>0, <2>4, <3>2 DEF RegisterActive, CallsStay
      <3> QED
        BY <3>1, <3>2
    <2> QED
      BY <1>2, <2>3, <2>4 DEF RegisterSlave, RegisterSet, RegisterPublish, RegisterCount,
         RegisterFails
  <1>3. CASE ControllerRestart
    BY <1>0, <1>3 DEF ControllerRestart, CallsStay
  <1>4. CASE UNCHANGED calls
    BY <1>4 DEF CallsStay
  <1>5. ASSUME NEW p \in Pods, Slave(p), ~Ask(p) PROVE UNCHANGED calls
    BY <1>5 DEF Slave, Answered, GivesUp, Exit, Start
  <1>6. Subscriber \/ EventLoop => UNCHANGED calls
    BY DEF Subscriber, Observe, notifyGoneSlave, EventLoop, LoopList, LoopGet, Execute, LoopSet,
       LoopPublish, LoopCount, LoopFails
  <1>7. Master \/ Post => UNCHANGED calls
    BY DEF Master, StartSession, CreateSession, handlePodStateUpdate, ReportGet, ReportSet,
       ReportPublish, ReportCount, ReportFails, endSession, EndList, EndGet, EndSet, EndPublish,
       EndCount, EndKeys, EndDelete, EndFails, Post, PostActive, PublishEvent
  <1> QED
    BY <1>1, <1>2, <1>3, <1>4, <1>5, <1>6, <1>7 DEF Next, vars

-----------------------------------------------------------------------------
(* The slave processes take unused numbers.                                *)
LEMMA SlaveOwn ==
    ASSUME Minted, Typed, IInv, CallsStay, NEW p \in Pods, Slave(p)
    PROVE  Minted'
  <1>0. OwnStates' /\ OwnWork' /\ Remembered'
    BY OwnKept DEF Slave, Ask, Answered, GivesUp, Exit, Start, redis, inboxes
  <1>1. /\ pods \in [Pods -> PodRecords] /\ DOMAIN calls = Ids
        /\ \A c \in Ids : c # NoId
    BY DEF Typed, Stores, IInv, Registering, Ids, NoId
  <1>2. \A q \in Pods \ {p} : pods'[q] = pods[q]
    BY <1>1 DEF Slave, Ask, Answered, GivesUp, Exit, Start
  <1>3. /\ ~pods'[p].up => pods'[p].id = NoId /\ pods'[p].call = NoId
        /\ pods'[p].call # NoId =>
              /\ pods'[p].call \in Ids
              /\ calls'[pods'[p].call].pc # "unused" /\ calls'[pods'[p].call].pod = p
        /\ pods'[p].id # NoId =>
              /\ pods'[p].id \in Ids
              /\ calls'[pods'[p].id].pc # "unused" /\ calls'[pods'[p].id].pod = p
    <2>0. /\ pods[p] \in PodRecords
          /\ pods[p].call # NoId => pods[p].call \in Ids /\ calls[pods[p].call].pc # "unused" /\ calls[pods[p].call].pod = p
          /\ pods[p].id # NoId => pods[p].id \in Ids /\ calls[pods[p].id].pc # "unused" /\ calls[pods[p].id].pod = p
          /\ ~pods[p].up => pods[p].id = NoId /\ pods[p].call = NoId
      BY <1>1 DEF PodRecords, Minted, OwnIds
    <2>1. CASE Ask(p)
      <3>1. PICK c \in Unused : /\ calls' = [calls EXCEPT ![c] = [pc |-> "active", pod |-> p]]
                                /\ pods' = [pods EXCEPT ![p].call = c]
        BY <2>1 DEF Ask
      <3>2. c \in Ids /\ pods[p].id = NoId /\ pods[p].up
        BY <2>1 DEF Unused, Ask
      <3>3. pods'[p].call = c /\ pods'[p].id = NoId /\ pods'[p].up
        BY <1>1, <2>0, <3>1, <3>2 DEF PodRecords
      <3>4. calls'[c] = [pc |-> "active", pod |-> p]
        BY <1>1, <3>1, <3>2
      <3> QED
        BY <3>2, <3>3, <3>4
    <2>2. CASE Answered(p)
      <3>1. UNCHANGED calls /\ pods[p].up /\ pods[p].call # NoId
        BY <2>2 DEF Answered, NoId
      <3>2. CASE pods' = [pods EXCEPT ![p].id = pods[p].call, ![p].call = 0]
        <4>1. pods'[p].call = NoId /\ pods'[p].id = pods[p].call /\ pods'[p].up
          BY <1>1, <2>0, <3>1, <3>2 DEF PodRecords, NoId
        <4> QED
          BY <2>0, <3>1, <4>1
      <3>3. CASE pods' = [pods EXCEPT ![p].call = 0]
        <4>1. pods'[p].call = NoId /\ pods'[p].id = pods[p].id /\ pods'[p].up
          BY <1>1, <2>0, <3>1, <3>3 DEF PodRecords, NoId
        <4> QED
          BY <2>0, <3>1, <4>1
      <3> QED
        BY <2>2, <3>2, <3>3 DEF Answered
    <2>3. CASE GivesUp(p)
      <3>1. pods'[p].call = NoId /\ pods'[p].id = pods[p].id /\ pods'[p].up /\ UNCHANGED calls
        BY <1>1, <2>0, <2>3 DEF GivesUp, PodRecords, NoId
      <3> QED
        BY <2>0, <3>1
    <2>4. CASE Exit(p)
      <3>1. pods'[p].call = NoId /\ pods'[p].id = NoId
        BY <1>1, <2>0, <2>4 DEF Exit, PodRecords, NoId
      <3> QED
        BY <3>1
    <2>5. CASE Start(p)
      <3>1. pods'[p] = FreshPod
        BY <1>1, <2>5 DEF Start
      <3> QED
        BY <3>1 DEF FreshPod, NoId
    <2> QED
      BY <2>1, <2>2, <2>3, <2>4, <2>5 DEF Slave
  <1>4. OwnIds'
    <2>1. \A q \in Pods \ {p} : pods[q].id \in Ids \cup {NoId} /\ pods[q].call \in Ids \cup {NoId}
      BY <1>1 DEF PodRecords
    <2> QED
      BY <1>2, <1>3, <2>1 DEF Minted, OwnIds, CallsStay
  <1> QED
    BY <1>0, <1>4 DEF Minted

(* RegisterSlave writes the state of the process that asked.               *)
LEMMA RegisterOwn ==
    ASSUME Minted, Typed, IInv, CallsStay, NEW c \in Ids, RegisterSlave(c)
    PROVE  Minted'
  <1>0. OwnIds' /\ OwnWork' /\ Remembered'
    BY OwnKept DEF RegisterSlave, RegisterActive, RegisterSet, RegisterPublish, RegisterCount,
       RegisterFails
  <1>1. calls[c].pc \in {"set", "publish"} => Registration(c) \in Own
    <2> SUFFICES ASSUME calls[c].pc \in {"set", "publish"} PROVE Registration(c) \in Own
      OBVIOUS
    <2>1. Registration(c) \in SlaveStates
      BY BackendAssumption DEF Registration, IInv, Registering, Serving, Typed, Stores,
         SlaveStates, Statuses, Sessions
    <2>2. Registration(c).id = c /\ Registration(c).pod = calls[c].pod
      BY DEF Registration
    <2> QED
      BY <2>1, <2>2 DEF Own
  <1>2. \A q \in Seq(Own) : q \in Seq(Own')
    BY OwnGrows
  <1>3. Own \subseteq Own'
    BY OwnGrows
  <1>4. CASE RegisterSet(c)
    BY <1>0, <1>1, <1>2, <1>3, <1>4, OwnSent DEF RegisterSet, Minted, OwnStates, inboxes
  <1>5. CASE RegisterPublish(c)
    BY <1>0, <1>1, <1>2, <1>3, <1>5, OwnSent DEF RegisterPublish, Minted, OwnStates, redis
  <1>6. CASE RegisterActive(c) \/ RegisterCount(c) \/ RegisterFails(c)
    BY <1>0, <1>6, OwnKept DEF RegisterActive, RegisterCount, RegisterFails, Minted, redis, inboxes
  <1> QED
    BY <1>4, <1>5, <1>6 DEF RegisterSlave

(* The subscriber remembers what was published.                            *)
LEMMA SubscriberOwn ==
    ASSUME Minted, Typed, IInv, CallsStay, Subscriber
    PROVE  Minted'
  <1>0. OwnWork'
    BY OwnKept DEF Subscriber, Observe, notifyGoneSlave
  <1>1. CASE Observe
    <2>1. /\ states # <<>> /\ states' = Tail(states) /\ UNCHANGED <<slaves, calls, pods>>
          /\ notify' \in {Head(states), NoState}
          /\ goneSeen' \subseteq goneSeen \cup {Key(Head(states))}
      BY <1>1 DEF Observe, redis
    <2>2. Head(states) \in Own /\ Tail(states) \in Seq(Own)
      BY <2>1, TailTyped DEF Minted, OwnStates
    <2>3. Own' = Own
      BY <2>1 DEF Own
    <2>4. OwnStates'
      BY <2>1, <2>2, <2>3 DEF Minted, OwnStates
    <2>5. Remembered'
      <3>1. Key(Head(states))[2] = Head(states).id
        BY DEF Key
      <3>2. Head(states).id # NoId => Head(states).id \in Ids /\ calls[Head(states).id].pc # "unused"
        BY <2>2 DEF Own, SlaveStates
      <3> QED
        BY <2>1, <3>1, <3>2 DEF Minted, Remembered
    <2> QED
      BY <1>0, <2>1, <2>4, <2>5, OwnKept DEF Minted
  <1>2. CASE notifyGoneSlave
    <2>1. UNCHANGED <<slaves, states, calls, goneSeen>> /\ notify' = NoState
      BY <1>2 DEF notifyGoneSlave, redis, inboxes
    <2>2. OwnStates'
      <3>1. Own' = Own
        BY <2>1 DEF Own
      <3> QED
        BY <2>1, <3>1 DEF Minted, OwnStates
    <2>3. \A p \in Pods : pods'[p].id = pods[p].id /\ pods'[p].call = pods[p].call /\ pods'[p].up = pods[p].up
      BY <1>2 DEF notifyGoneSlave, Typed, Stores, PodRecords
    <2>4. OwnIds'
      BY <2>1, <2>3 DEF Minted, OwnIds
    <2> QED
      BY <1>0, <2>1, <2>2, <2>4, OwnKept DEF Minted
  <1> QED
    BY <1>1, <1>2 DEF Subscriber

(* An answered event carries the slave_id the process goes by.             *)
LEMMA EventLoopOwn ==
    ASSUME Minted, Typed, IInv, CallsStay, EventLoop, Typed'
    PROVE  Minted'
  <1>0. Remembered' /\ UNCHANGED <<notify, master, calls>>
    BY OwnKept DEF EventLoop, LoopList, LoopGet, Execute, LoopSet, LoopPublish, LoopCount,
       LoopFails
  <1>1. Own' = Own
    BY <1>0 DEF Own
  <1>2. CASE Execute
    <2> DEFINE p == loop.prev.pod
    <2>1. UNCHANGED <<slaves, states>> /\ loop.pc = "execute"
      BY <1>2 DEF Execute, redis, inboxes
    <2>2. p \in Pods /\ loop \in LoopRecords /\ loop.session \in Sessions /\ pods \in [Pods -> PodRecords]
      BY <2>1 DEF Typed, Looping, Stores, SlaveStates
    <2>3. OwnIds'
      <3>1. \A q \in Pods : pods'[q].id = pods[q].id /\ pods'[q].call = pods[q].call /\ pods'[q].up = pods[q].up
        <4>1. UNCHANGED pods \/ \E st : pods' = [pods EXCEPT ![p].status = st]
          BY <1>2 DEF Execute
        <4> HIDE DEF p
        <4> QED
          BY <2>2, <4>1 DEF PodRecords
      <3> QED
        BY <1>0, <3>1 DEF Minted, OwnIds
    <2>4. loop'.pc \in {"set", "publish"} => loop'.resp \in Own
      <3>1. CASE loop' = Waiting
        BY <3>1 DEF Waiting
      <3>2. ASSUME NEW st \in Life(p)!Outcomes(pods[p].status),
                   loop' = [loop EXCEPT !.pc = "set",
                      !.resp = [session |-> loop.session, id |-> pods[p].id, pod |-> p, status |-> st]]
            PROVE  loop'.resp \in Own
        <4>1. loop'.resp = [session |-> loop.session, id |-> pods[p].id, pod |-> p, status |-> st] /\ loop'.pc = "set"
          BY <2>2, <3>2 DEF LoopRecords
        <4>2. loop'.resp \in SlaveStates
          BY <4>1 DEF Typed, Looping
        <4>3. loop'.resp.id = pods[p].id /\ loop'.resp.pod = p
          BY <4>1
        <4> QED
          BY <2>2, <4>2, <4>3 DEF Own, Minted, OwnIds
      <3> QED
        BY <1>2, <3>1, <3>2 DEF Execute
    <2> QED
      BY <1>0, <1>1, <2>1, <2>3, <2>4 DEF Minted, OwnStates, OwnWork
  <1>3. CASE LoopSet \/ LoopPublish
    <2>1. loop.pc \in {"set", "publish"} /\ loop.resp \in Own /\ UNCHANGED pods
      BY <1>3 DEF LoopSet, LoopPublish, Minted, OwnWork
    <2>2. slaves' \subseteq Own /\ states' \in Seq(Own)
      BY <1>1, <1>3, <2>1, OwnSent DEF LoopSet, LoopPublish, Minted, OwnStates, redis, inboxes
    <2>3. loop'.pc \in {"set", "publish"} => loop'.resp = loop.resp
      BY <1>3 DEF LoopSet, LoopPublish, Typed, Looping, LoopRecords, Waiting
    <2> QED
      BY <1>0, <1>1, <2>1, <2>2, <2>3, OwnKept DEF Minted, OwnStates, OwnWork
  <1>4. CASE LoopList \/ LoopGet \/ LoopCount \/ LoopFails
    <2>1. UNCHANGED <<slaves, states, pods>>
      BY <1>4 DEF LoopList, LoopGet, LoopCount, LoopFails, redis, inboxes
    <2>2. loop'.pc \notin {"set", "publish"}
      <3>1. Waiting.pc = "wait"
        BY DEF Waiting
      <3>2. CASE LoopList
        <4>1. \A s, t, k : [Waiting EXCEPT !.pc = "get", !.session = s, !.target = t, !.todo = k].pc = "get"
          BY DEF Waiting
        <4> QED
          BY <3>1, <3>2, <4>1 DEF LoopList
      <3>3. CASE LoopGet
        <4>1. \A k, g : [loop EXCEPT !.todo = k, !.got = g].pc = loop.pc
          BY DEF Typed, Looping, LoopRecords
        <4>2. \A t : [loop EXCEPT !.pc = "execute", !.todo = {}, !.got = <<>>, !.prev = t].pc = "execute"
          BY DEF Typed, Looping, LoopRecords
        <4> QED
          BY <3>1, <3>3, <4>1, <4>2 DEF LoopGet, Typed, Looping, LoopRecords
      <3>4. CASE LoopCount \/ LoopFails
        BY <3>1, <3>4 DEF LoopCount, LoopFails
      <3> QED
        BY <1>4, <3>2, <3>3, <3>4
    <2> QED
      BY <1>0, <1>1, <2>1, <2>2, OwnKept DEF Minted, OwnWork
  <1> QED
    BY <1>2, <1>3, <1>4 DEF EventLoop

(* What is lost in a restart need not be a process's own.                  *)
LEMMA RestartOwn ==
    ASSUME Minted, Typed, IInv, CallsStay, ControllerRestart
    PROVE  Minted'
  <1>1. /\ states' = <<>> /\ goneSeen' = {} /\ notify' = NoState /\ loop' = Waiting
        /\ UNCHANGED <<slaves, master, pods>>
    BY DEF ControllerRestart, redis
  <1>2. /\ Own \subseteq Own' /\ \A q \in Seq(Own) : q \in Seq(Own')
    BY OwnGrows
  <1>3. OwnStates'
    BY <1>1, <1>2 DEF Minted, OwnStates
  <1>4. OwnWork'
    BY <1>1, <1>2 DEF Minted, OwnWork, Waiting
  <1> QED
    BY <1>1, <1>3, <1>4, OwnKept DEF Minted, Remembered

(* The master works on states it has read.                                 *)
LEMMA MasterOwn ==
    ASSUME Minted, Typed, IInv, CallsStay, Master
    PROVE  Minted'
  <1>0. UNCHANGED <<notify, loop, calls, pods, goneSeen>>
    BY DEF Master, StartSession, CreateSession, handlePodStateUpdate, ReportGet, ReportSet,
       ReportPublish, ReportCount, ReportFails, endSession, EndList, EndGet, EndSet, EndPublish,
       EndCount, EndKeys, EndDelete, EndFails
  <1>1. Own' = Own /\ OwnIds' /\ Remembered' /\ master \in MasterRecords
    BY <1>0, OwnKept DEF Own, Typed, Working
  <1>2. SUFFICES /\ slaves' \subseteq Own /\ states' \in Seq(Own)
                 /\ master'.pc \in Reporting => master'.rec \in Own
                 /\ master'.got \in Seq(Own)
    BY <1>0, <1>1 DEF Minted, OwnStates, OwnWork
  <1>3. /\ slaves \subseteq Own /\ states \in Seq(Own) /\ master.got \in Seq(Own)
        /\ master.pc \in Reporting => master.rec \in Own
    BY DEF Minted, OwnStates, OwnWork
  <1>4. ASSUME NEW r \in Own
        PROVE  /\ SetState(Gone(r)) => slaves' \subseteq Own
               /\ Publish(Gone(r)) => states' \in Seq(Own)
    BY <1>1, <1>4, OwnSent
  <1>5. CASE StartSession \/ CreateSession \/ EndDelete \/ EndFails
    <2>1. slaves' \subseteq slaves /\ UNCHANGED states
      BY <1>5 DEF StartSession, CreateSession, EndDelete, EndFails, redis, inboxes
    <2>2. master'.pc \in {"starting", "open", "idle"} /\ master'.got \in {<<>>, master.got}
      <3>1. NoWork.pc = "idle" /\ NoWork.got = <<>>
        BY DEF NoWork
      <3>2. ASSUME NEW s, master' = [NoWork EXCEPT !.pc = "open", !.session = s]
            PROVE  master'.pc = "open" /\ master'.got = <<>>
        BY <3>2 DEF NoWork
      <3> QED
        BY <1>1, <1>5, <3>1, <3>2 DEF StartSession, CreateSession, EndDelete, EndFails, MasterRecords
    <2>3. <<>> \in Seq(Own)
      OBVIOUS
    <2>4. master'.pc \notin Reporting /\ master'.got \in Seq(Own)
      BY <1>3, <2>2, <2>3 DEF Reporting
    <2> QED
      BY <1>3, <2>1, <2>4
  <1>6. CASE ReportGet
    <2>1. PICK i \in KeysOf(master.session) :
              master' = [master EXCEPT !.pc = "report_set", !.rec = Record(master.session, i)]
      BY <1>6 DEF ReportGet
    <2>2. Record(master.session, i) \in Own
      BY <1>3, <2>1, FoundLemma
    <2>3. master'.rec = Record(master.session, i) /\ master'.got = master.got
      BY <1>1, <2>1 DEF MasterRecords
    <2> QED
      BY <1>3, <1>6, <2>2, <2>3 DEF ReportGet, redis, inboxes
  <1>7. CASE ReportSet \/ ReportPublish
    <2>1. master.rec \in Own
      BY <1>3, <1>7 DEF ReportSet, ReportPublish, Reporting
    <2>2. master'.got = master.got /\ (master'.pc \in Reporting => master'.rec = master.rec)
      BY <1>1, <1>7 DEF ReportSet, ReportPublish, MasterRecords, Reporting
    <2> QED
      BY <1>3, <1>4, <1>7, <2>1, <2>2 DEF ReportSet, ReportPublish, redis, inboxes
  <1>8. CASE ReportCount \/ ReportFails \/ EndList \/ EndCount \/ EndKeys
    <2>1. UNCHANGED <<slaves, states>>
      BY <1>8 DEF ReportCount, ReportFails, EndList, EndCount, EndKeys, redis, inboxes
    <2>2. master'.got = master.got /\ master'.pc \in {"open"} \cup Ending
      BY <1>1, <1>8 DEF ReportCount, ReportFails, EndList, EndCount, EndKeys, MasterRecords, Ending
    <2> QED
      BY <1>3, <2>1, <2>2 DEF Reporting, Ending
  <1>9. CASE EndGet
    <2> DEFINE i == Least(master.todo)
               r == Record(master.session, i)
    <2>1. /\ UNCHANGED <<slaves, states>> /\ master.pc = "end_get"
          /\ master' = [master EXCEPT !.pc = IF @ = "end_get" /\ master.todo = {i} THEN "end_set" ELSE @,
                             !.todo = @ \ {i}, !.got = Append(@, r), !.listed = @ + 1]
      BY <1>9 DEF EndGet, redis, inboxes
    <2>2. i \in KeysOf(master.session)
      <3>1. master.todo # {} /\ master.todo \subseteq KeysOf(master.session)
        BY <2>1 DEF Typed, Working, MasterRecords
      <3>2. master.todo \in SUBSET Nat
        BY <3>1, KeysTyped DEF Typed, Stores
      <3> QED
        BY <3>1, <3>2, LeastLemma
    <2>3. r \in Own
      BY <1>3, <2>2, FoundLemma
    <2> HIDE DEF r, i
    <2>4. Append(master.got, r) \in Seq(Own)
      BY <1>3, <2>3, AppendTyped
    <2>5. master'.got = Append(master.got, r) /\ master'.pc \in {"end_get", "end_set"}
      BY <1>1, <2>1 DEF MasterRecords
    <2> QED
      BY <1>3, <2>1, <2>4, <2>5 DEF Reporting
  <1>10. CASE EndSet \/ EndPublish
    <2>1. master.got # <<>> /\ master.pc \in {"end_set", "end_publish"}
      BY <1>10 DEF EndSet, EndPublish, Typed, Working
    <2>2. Head(master.got) \in Own /\ Tail(master.got) \in Seq(Own)
      BY <1>3, <2>1, TailTyped
    <2>3. master'.got \in {master.got, Tail(master.got)} /\ master'.pc \in Ending
      BY <1>1, <1>10 DEF EndSet, EndPublish, MasterRecords, Ending
    <2> QED
      BY <1>3, <1>4, <1>10, <2>2, <2>3 DEF EndSet, EndPublish, Reporting, Ending, redis, inboxes
  <1> QED
    BY <1>5, <1>6, <1>7, <1>8, <1>9, <1>10 DEF Master, handlePodStateUpdate, endSession

-----------------------------------------------------------------------------
(* In the beginning nothing was minted.                                    *)
LEMMA InitMinted == Init => Minted
  BY DEF Init, Minted, OwnIds, OwnStates, OwnWork, Remembered, FreshPod, Waiting, NoWork, NoId,
     Reporting

(* Every step keeps this.                                                  *)
LEMMA MintedStep == IInv /\ Typed /\ Typed' /\ Minted /\ [Next]_vars => Minted'
  <1> SUFFICES ASSUME IInv, Typed, Typed', Minted, [Next]_vars PROVE Minted'
    OBVIOUS
  <1>0. CallsStay
    BY CallsStayLemma
  <1>1. CASE Post \/ UNCHANGED vars
    <2>1. UNCHANGED <<slaves, states, notify, loop, master, pods, goneSeen>>
      BY <1>1 DEF Post, PostActive, PublishEvent, vars, redis, inboxes
    <2> QED
      BY <1>0, <2>1, OwnKept DEF Minted
  <1> QED
    BY <1>0, <1>1, SlaveOwn, RegisterOwn, SubscriberOwn, EventLoopOwn, RestartOwn, MasterOwn
       DEF Next

-----------------------------------------------------------------------------
(* Nobody is told anything, and the identities stay.                       *)
LEMMA StoppedKept ==
    ASSUME GoneIsStopped, UNCHANGED <<goneSeen, notify>>,
           \A p \in Pods : \A i \in {pods'[p].id, pods'[p].call} :
               /\ i # NoId
               /\ \E k \in goneSeen : k[2] = i
               => i \in {pods[p].id, pods[p].call} /\ (pods[p].stop => pods'[p].stop)
    PROVE  GoneIsStopped'
  BY DEF GoneIsStopped

(* A process takes no slave_id that was ever used.                         *)
LEMMA SlaveStopped ==
    ASSUME Minted, Typed, IInv, GoneIsStopped, NEW p \in Pods, Slave(p)
    PROVE  GoneIsStopped'
  <1>1. UNCHANGED <<goneSeen, notify>> /\ pods \in [Pods -> PodRecords]
    BY DEF Slave, Ask, Answered, GivesUp, Exit, Start, Typed, Stores
  <1>2. \A q \in Pods \ {p} : pods'[q] = pods[q]
    BY <1>1 DEF Slave, Ask, Answered, GivesUp, Exit, Start
  <1>3. ASSUME NEW i \in {pods'[p].id, pods'[p].call}, i # NoId, NEW k \in goneSeen, k[2] = i
        PROVE  i \in {pods[p].id, pods[p].call} /\ (pods[p].stop => pods'[p].stop)
    <2>0. pods[p] \in PodRecords /\ calls[i].pc # "unused"
      BY <1>1, <1>3 DEF Minted, Remembered
    <2>1. CASE Ask(p)
      <3>1. PICK c \in Unused : pods' = [pods EXCEPT ![p].call = c]
        BY <2>1 DEF Ask
      <3>2. /\ pods'[p].call = c /\ pods'[p].id = pods[p].id /\ pods'[p].stop = pods[p].stop
            /\ calls[c].pc = "unused"
        BY <1>1, <2>0, <3>1 DEF PodRecords, Unused
      <3> QED
        BY <1>3, <2>0, <3>2
    <2>2. CASE Answered(p)
      <3>1. \/ pods' = [pods EXCEPT ![p].id = pods[p].call, ![p].call = 0]
            \/ pods' = [pods EXCEPT ![p].call = 0]
        BY <2>2 DEF Answered
      <3>2. /\ pods'[p].call = NoId /\ pods'[p].id \in {pods[p].id, pods[p].call}
            /\ pods'[p].stop = pods[p].stop
        BY <1>1, <2>0, <3>1 DEF PodRecords, NoId
      <3> QED
        BY <1>3, <3>2
    <2>3. CASE GivesUp(p) \/ Exit(p)
      <3>1. /\ pods'[p].call = NoId /\ pods'[p].id \in {pods[p].id, NoId}
            /\ pods'[p].stop = pods[p].stop
        BY <1>1, <2>0, <2>3 DEF GivesUp, Exit, PodRecords, NoId
      <3> QED
        BY <1>3, <3>1
    <2>4. CASE Start(p)
      <3>1. pods'[p] = FreshPod
        BY <1>1, <2>4 DEF Start
      <3> QED
        BY <1>3, <3>1 DEF FreshPod, NoId
    <2> QED
      BY <2>1, <2>2, <2>3, <2>4 DEF Slave
  <1>4. \A q \in Pods : \A i \in {pods'[q].id, pods'[q].call} :
            i # NoId /\ (\E k \in goneSeen : k[2] = i)
               => i \in {pods[q].id, pods[q].call} /\ (pods[q].stop => pods'[q].stop)
    <2> SUFFICES ASSUME NEW q \in Pods, NEW i \in {pods'[q].id, pods'[q].call}, i # NoId,
                        NEW k \in goneSeen, k[2] = i
                 PROVE  i \in {pods[q].id, pods[q].call} /\ (pods[q].stop => pods'[q].stop)
      OBVIOUS
    <2>1. CASE q = p
      BY <1>3, <2>1
    <2>2. CASE q # p
      BY <1>2, <2>2
    <2> QED
      BY <2>1, <2>2
  <1> QED
    BY <1>1, <1>4, StoppedKept

(* A change to GONE is notified, and the one it is about is told.          *)
LEMMA SubscriberStopped ==
    ASSUME Minted, Typed, IInv, GoneIsStopped, Subscriber
    PROVE  GoneIsStopped'
  <1>1. CASE Observe
    <2> DEFINE r == Head(states)
    <2>1. /\ notify = NoState /\ UNCHANGED pods
          /\ goneSeen' = IF r.status = "GONE" THEN goneSeen \cup {Key(r)} ELSE goneSeen \ {Key(r)}
          /\ notify' = IF r.status = "GONE" /\ Key(r) \notin goneSeen THEN r ELSE NoState
      BY <1>1 DEF Observe
    <2> HIDE DEF r
    <2>2. SUFFICES ASSUME "unanswered" \notin Faults, NEW k \in goneSeen', NEW p \in Pods,
                          k[2] # NoId, k[2] \in {pods[p].id, pods[p].call}, ~pods[p].stop
                   PROVE  notify' # NoState /\ notify'.id = k[2]
      BY <2>1 DEF GoneIsStopped
    <2>3. k \notin goneSeen
      BY <2>1, <2>2 DEF GoneIsStopped
    <2>4. k = Key(r) /\ r.status = "GONE"
      BY <2>1, <2>3
    <2>5. k[2] = r.id
      BY <2>4 DEF Key
    <2>6. r # NoState
      <3>1. states # <<>>
        BY <1>1 DEF Observe
      <3>2. r \in SlaveStates
        BY <3>1, TailTyped DEF r, Typed, Messages
      <3> QED
        BY <3>2, BackendAssumption
    <2> QED
      BY <2>1, <2>3, <2>4, <2>5, <2>6
  <1>2. CASE notifyGoneSlave
    <2>1. /\ notify # NoState /\ notify' = NoState /\ UNCHANGED <<goneSeen, calls>>
          /\ notify \in Own /\ notify.pod \in Pods /\ pods \in [Pods -> PodRecords]
      BY <1>2 DEF notifyGoneSlave, Minted, OwnStates, Own, SlaveStates, Typed, Stores
    <2>2. \A p \in Pods : /\ pods'[p].id = pods[p].id /\ pods'[p].call = pods[p].call
                          /\ pods[p].stop => pods'[p].stop
      BY <1>2, <2>1 DEF notifyGoneSlave, PodRecords
    <2>3. SUFFICES ASSUME "unanswered" \notin Faults, NEW k \in goneSeen, NEW p \in Pods,
                          k[2] # NoId, k[2] \in {pods[p].id, pods[p].call}
                   PROVE  pods'[p].stop
      BY <2>1, <2>2 DEF GoneIsStopped
    <2>4. CASE k[2] # notify.id
      <3>1. pods[p].stop
        BY <2>3, <2>4 DEF GoneIsStopped
      <3> QED
        BY <2>2, <3>1
    <2>5. CASE k[2] = notify.id
      <3>1. calls[k[2]].pod = p /\ pods[p].up
        BY <2>1, <2>3 DEF Minted, OwnIds, Typed, Stores, PodRecords
      <3>2. calls[k[2]].pod = notify.pod
        BY <2>1, <2>3, <2>5 DEF Own
      <3>3. pods' = [pods EXCEPT ![p].stop = TRUE]
        BY <1>2, <2>3, <3>1, <3>2 DEF notifyGoneSlave
      <3> QED
        BY <2>1, <3>3 DEF PodRecords
    <2> QED
      BY <2>4, <2>5
  <1> QED
    BY <1>1, <1>2 DEF Subscriber

(* The event loop changes nothing but statuses.                            *)
LEMMA EventLoopStopped ==
    ASSUME Typed, GoneIsStopped, EventLoop
    PROVE  GoneIsStopped'
  <1>1. UNCHANGED <<goneSeen, notify>>
    BY DEF EventLoop, LoopList, LoopGet, Execute, LoopSet, LoopPublish, LoopCount, LoopFails
  <1>2. \/ UNCHANGED pods
        \/ \E p \in Pods : \E st : pods' = [pods EXCEPT ![p].status = st]
    <2>1. CASE Execute
      <3>1. loop.prev.pod \in Pods
        BY <2>1 DEF Execute, Typed, Looping, SlaveStates
      <3> QED
        BY <2>1, <3>1 DEF Execute
    <2>2. CASE ~Execute
      BY <2>2 DEF EventLoop, LoopList, LoopGet, LoopSet, LoopPublish, LoopCount, LoopFails
    <2> QED
      BY <2>1, <2>2
  <1>3. \A p \in Pods : pods'[p].id = pods[p].id /\ pods'[p].call = pods[p].call /\ pods'[p].stop = pods[p].stop
    BY <1>2 DEF Typed, Stores, PodRecords
  <1> QED
    BY <1>1, <1>3, StoppedKept

(* Every step keeps GoneIsStopped.                                         *)
LEMMA StoppedStep == IInv /\ Typed /\ Minted /\ GoneIsStopped /\ [Next]_vars => GoneIsStopped'
  <1> SUFFICES ASSUME IInv, Typed, Minted, GoneIsStopped, [Next]_vars PROVE GoneIsStopped'
    OBVIOUS
  <1>1. CASE ControllerRestart
    BY <1>1 DEF ControllerRestart, GoneIsStopped
  <1>2. CASE (\E c \in Ids : RegisterSlave(c)) \/ Master \/ Post \/ UNCHANGED vars
    <2>1. UNCHANGED <<goneSeen, notify, pods>>
      BY <1>2 DEF RegisterSlave, RegisterActive, RegisterSet, RegisterPublish, RegisterCount,
         RegisterFails, Master, StartSession, CreateSession, handlePodStateUpdate, ReportGet,
         ReportSet, ReportPublish, ReportCount, ReportFails, endSession, EndList, EndGet, EndSet,
         EndPublish, EndCount, EndKeys, EndDelete, EndFails, Post, PostActive, PublishEvent, vars
    <2> QED
      BY <2>1, StoppedKept
  <1> QED
    BY <1>1, <1>2, SlaveStopped, SubscriberStopped, EventLoopStopped DEF Next

(* A process whose slave_id the controller remembers as GONE has been told *)
(* to stop, or is being told: the notice that is given once is enough.     *)
THEOREM GoneAreStopped == Safe => []GoneIsStopped
  <1>1. Init => GoneIsStopped
    BY DEF Init, GoneIsStopped
  <1>2. Counts => Typed
    BY DEF Counts
  <1> QED
    BY <1>1, <1>2, Invariance, CountsInvariant, InitMinted, MintedStep, StoppedStep, PTL DEF Safe

(* Every slave process of the composition lives as PodLifecycle says.      *)
THEOREM ProcessesLive == \A p \in Pods : Safe => Life(p)!Spec
  <1> SUFFICES ASSUME NEW p \in Pods PROVE Safe => Life(p)!Spec
    OBVIOUS
  <1>1. Init => Life(p)!Init
    BY DEF Init, FreshPod, Life!Init
  <1>2. Typed /\ [Next]_vars => [Life(p)!Next]_(Life(p)!vars)
    <2> SUFFICES ASSUME Typed, [Next]_vars
                 PROVE  Life(p)!Next \/ UNCHANGED Life(p)!vars
      OBVIOUS
    <2>1. pods \in [Pods -> PodRecords]
      BY DEF Typed, Stores
    <2>2. CASE \E q \in Pods : Slave(q)
      <3>1. PICK q \in Pods : Slave(q)
        BY <2>2
      <3>2. CASE Ask(q) \/ Answered(q) \/ GivesUp(q)
        BY <2>1, <3>2 DEF Ask, Answered, GivesUp, PodRecords, Life!vars
      <3>3. CASE Exit(q)
        <4>1. q = p => Life(p)!Stop
          BY <2>1, <3>3 DEF Exit, PodRecords, Life!Stop
        <4>2. q # p => UNCHANGED Life(p)!vars
          BY <2>1, <3>3 DEF Exit, Life!vars
        <4> QED
          BY <4>1, <4>2 DEF Life!Next
      <3>4. CASE Start(q)
        <4>1. q = p => Life(p)!Start
          BY <2>1, <3>4 DEF Start, FreshPod, PodRecords, Life!Start
        <4>2. q # p => UNCHANGED Life(p)!vars
          BY <2>1, <3>4 DEF Start, Life!vars
        <4> QED
          BY <4>1, <4>2 DEF Life!Next
      <3> QED
        BY <3>1, <3>2, <3>3, <3>4 DEF Slave
    <2>3. CASE Execute
      <3> DEFINE q == loop.prev.pod
      <3>1. \/ UNCHANGED pods
            \/ /\ pods[q].up
               /\ \E st \in Life(q)!Outcomes(pods[q].status) : pods' = [pods EXCEPT ![q].status = st]
        BY <2>3 DEF Execute
      <3> HIDE DEF q
      <3>2. ASSUME pods[q].up, NEW st \in Life(q)!Outcomes(pods[q].status),
                   pods' = [pods EXCEPT ![q].status = st]
            PROVE  Life(p)!Next \/ UNCHANGED Life(p)!vars
        <4>1. q = p => Life(p)!Event
          BY <2>1, <3>2 DEF PodRecords, Life!Event, Life!Outcomes
        <4>2. q # p => UNCHANGED Life(p)!vars
          BY <2>1, <3>2 DEF Life!vars
        <4> QED
          BY <4>1, <4>2 DEF Life!Next
      <3>3. UNCHANGED pods => UNCHANGED Life(p)!vars
        BY DEF Life!vars
      <3> QED
        BY <3>1, <3>2, <3>3
    <2>4. CASE notifyGoneSlave
      BY <2>1, <2>4 DEF notifyGoneSlave, PodRecords, Life!vars
    <2>5. CASE UNCHANGED pods
      BY <2>5 DEF Life!vars
    <2>6. ~((\E q \in Pods : Slave(q)) \/ Execute \/ notifyGoneSlave) => UNCHANGED pods
      BY DEF Next, RegisterSlave, RegisterActive, RegisterSet, RegisterPublish, RegisterCount,
         RegisterFails, Subscriber, Observe, EventLoop, LoopList, LoopGet, LoopSet, LoopPublish,
         LoopCount, LoopFails, ControllerRestart, Master, StartSession, CreateSession,
         handlePodStateUpdate, ReportGet, ReportSet, ReportPublish, ReportCount, ReportFails,
         endSession, EndList, EndGet, EndSet, EndPublish, EndCount, EndKeys, EndDelete, EndFails,
         Post, PostActive, PublishEvent, vars
    <2> QED
      BY <2>2, <2>3, <2>4, <2>5, <2>6
  <1>3. Counts => Typed
    BY DEF Counts
  <1> QED
    BY <1>1, <1>2, <1>3, CountsInvariant, PTL DEF Safe, Life!Spec

-----------------------------------------------------------------------------
(* The master's session as the slot of SessionLifecycle, which the mutex   *)
(* of the master implements: here its client is always there.              *)
Phase ==
    IF master.pc \in {"idle", "starting"} THEN master.pc
    ELSE IF master.pc \in Open THEN "active" ELSE "closing"

Slot == INSTANCE SessionLifecycle WITH
    phase <- Phase, session <- master.session, used <- 1 .. used

(* A slot that is free names no session.                                   *)
Slotted == master.pc \in {"idle", "starting"} => master.session = NoSession

(* A step within the session is none of the slot's.                        *)
LEMMA SlotKept ==
    ASSUME master'.session = master.session, used' = used,
           \/ master.pc \in Open /\ master'.pc \in Open
           \/ master.pc \in Ending /\ master'.pc \in Ending
           \/ master'.pc = master.pc
    PROVE  UNCHANGED Slot!vars /\ (Slotted => Slotted')
  BY DEF Slot!vars, Phase, Open, Ending, Slotted

(* A session that is closed leaves the slot free.                          *)
LEMMA SlotClosed ==
    ASSUME master.pc \in Ending, master' = NoWork, used' = used
    PROVE  Slot!Closed /\ Slotted'
  BY DEF Slot!Closed, Phase, Open, Ending, NoWork, Slotted

(* Every step of the back end is one of the slot's, or none.               *)
LEMMA SlotStep ==
    ASSUME Typed, IInv, Slotted, [Next]_vars
    PROVE  (Slot!Next \/ UNCHANGED Slot!vars) /\ Slotted'
  <1>0. master \in MasterRecords
    BY DEF Typed, Working
  <1>1. CASE StartSession
    <2>1. master.pc = "idle" /\ master'.pc = "starting" /\ master'.session = master.session /\ used' = used
      BY <1>0, <1>1 DEF StartSession, MasterRecords, bounds
    <2>2. Slot!Reserve
      BY <2>1 DEF Slot!Reserve, Phase
    <2> QED
      BY <2>1, <2>2 DEF Slot!Next, Slotted
  <1>2. CASE CreateSession
    <2>1. /\ master.pc = "starting" /\ used' = used + 1 /\ used \in 0 .. NumSessions
          /\ used < NumSessions /\ NumSessions \in Nat
      BY <1>2, BackendAssumption DEF CreateSession, IInv, Registering, Opened
    <2>2. /\ used' \in Sessions /\ used' \notin 1 .. used /\ 1 .. used' = (1 .. used) \cup {used'}
          /\ 1 .. used' \subseteq Sessions
      BY <2>1 DEF Sessions
    <2>3. CASE master' = NoWork
      <3>1. Slot!Restart
        BY <2>2, <2>3 DEF Slot!Restart, Phase, NoWork
      <3> QED
        BY <2>3, <3>1 DEF Slot!Next, Slotted, NoWork
    <2>4. CASE master' = [NoWork EXCEPT !.pc = "open", !.session = used']
      <3>1. master'.pc = "open" /\ master'.session = used'
        BY <2>4 DEF NoWork
      <3>2. Slot!Open(used')
        BY <2>1, <2>2, <3>1 DEF Slot!Open, Phase, Open
      <3> QED
        BY <2>2, <3>1, <3>2 DEF Slot!Next, Slotted
    <2> QED
      BY <1>2, <2>3, <2>4 DEF CreateSession
  <1>3. CASE handlePodStateUpdate
    <2>1. master.pc \in Open /\ master'.pc \in Open /\ master'.session = master.session /\ used' = used
      BY <1>0, <1>3 DEF handlePodStateUpdate, ReportGet, ReportSet, ReportPublish, ReportCount,
         ReportFails, MasterRecords, Open, bounds
    <2> QED
      BY <2>1, SlotKept
  <1>4. CASE EndList
    <2>1. master.pc = "open" /\ master'.pc \in {"end_count", "end_get"} /\ master'.session = master.session /\ used' = used
      BY <1>0, <1>4 DEF EndList, MasterRecords, bounds
    <2>2. Slot!End
      BY <2>1 DEF Slot!End, Phase, Open
    <2> QED
      BY <2>1, <2>2 DEF Slot!Next, Slotted
  <1>5. CASE EndGet \/ EndSet \/ EndPublish \/ EndCount \/ EndKeys
    <2>1. master.pc \in Ending /\ master'.pc \in Ending /\ master'.session = master.session /\ used' = used
      BY <1>0, <1>5 DEF EndGet, EndSet, EndPublish, EndCount, EndKeys, MasterRecords, Ending, bounds
    <2> QED
      BY <2>1, SlotKept
  <1>6. CASE EndDelete \/ EndFails
    <2>1. master.pc \in Ending /\ master' = NoWork /\ used' = used
      BY <1>6 DEF EndDelete, EndFails, Ending, bounds
    <2> QED
      BY <2>1, SlotClosed DEF Slot!Next
  <1>7. CASE ~Master
    <2>1. UNCHANGED <<master, used>>
      BY <1>7 DEF Next, Slave, Ask, Answered, GivesUp, Exit, Start, RegisterSlave, RegisterActive,
         RegisterSet, RegisterPublish, RegisterCount, RegisterFails, Subscriber, Observe,
         notifyGoneSlave, EventLoop, LoopList, LoopGet, Execute, LoopSet, LoopPublish, LoopCount,
         LoopFails, ControllerRestart, Post, PostActive, PublishEvent, vars, bounds
    <2> QED
      BY <2>1, SlotKept, Zenon
  <1> QED
    BY <1>1, <1>2, <1>3, <1>4, <1>5, <1>6, <1>7 DEF Master, endSession

(* Whatever the rest of the back end does, the master opens one session at *)
(* a time under an identifier never used before, and closes it entirely    *)
(* before the next: the promise SessionLifecycle makes and MasterSession   *)
(* implements with its mutex.  A creation that fails spends its identifier *)
(* and frees the slot at once, as a restart does there.                    *)
THEOREM OneSessionAtATime == Safe => Slot!Safe
  <1>1. Init => Slot!Init /\ Slotted
    BY DEF Init, Slot!Init, Phase, NoWork, Slotted
  <1>2. Typed /\ IInv /\ Slotted /\ [Next]_vars => Slotted' /\ [Slot!Next]_(Slot!vars)
    BY SlotStep
  <1>3. Counts => Typed
    BY DEF Counts
  <1> QED
    BY <1>1, <1>2, <1>3, Invariance, CountsInvariant, PTL DEF Safe, Slot!Safe
=============================================================================
