--------------------------- MODULE PodSceneProofs ---------------------------
(***************************************************************************)
(* The pods on the board and the hands, for any number of pods and any     *)
(* length of a crush.                                                      *)
(*                                                                         *)
(* The actions of PodScene move pods and hands only through a few of the   *)
(* scene's methods (releaseGrab, startPodCrush, update, reset, the grab of *)
(* a candidate).  The lemmas show of each method that it keeps "Core" and  *)
(* does no more than "Orderly" allows; the theorems put them together.     *)
(***************************************************************************)
EXTENDS PodScene, TLAPS

USE PodSceneAssumption

core == <<shown, world, body, crush, fallReported, activePalmContacts,
          podGrabOwnerById, grabbedPodId>>

Core ==
    /\ shown \subseteq Pods /\ world \in BOOLEAN
    /\ body \in [Pods -> {"none", "dynamic", "kinematic"}]
    /\ crush \in [Pods -> 0 .. CrushFrames]
    /\ fallReported \subseteq shown
    /\ activePalmContacts \subseteq Hands \X Pods
    /\ podGrabOwnerById \in [Pods -> Hands \cup {NoHand}]
    /\ grabbedPodId \in [Hands -> Pods \cup {NoPod}]
    /\ \A p \in Pods : body[p] # "none" <=> (p \in shown /\ world)
    /\ \A p \in Pods : crush[p] > 0 => body[p] # "none"
    /\ OneHandPerPod /\ FrozenForAReason /\ HeldIsWhole /\ TouchedIsCrushed

(* What any step may do to the pods: a new pod is whole and free; a crush  *)
(* is begun or goes on; a pod is taken from no hand by the other one.      *)
Orderly ==
    /\ \A p \in shown' \ shown : crush'[p] = 0 /\ podGrabOwnerById'[p] = NoHand
    /\ \A p \in shown :
           /\ p \in shown' /\ crush[p] > 0 => crush'[p] >= crush[p]
           /\ crush[p] = 0 => crush'[p] \in {0, 1}
           /\ podGrabOwnerById'[p] \in {podGrabOwnerById[p], NoHand}
                  \/ podGrabOwnerById[p] = NoHand

(* Hands may only lose what they hold.                                     *)
Loosens == \A h \in Hands : grabbedPodId'[h] \in {grabbedPodId[h], NoPod}

----------------------------------------------------------------------------
(* The methods.                                                            *)

(* What leaves the hands and the board alone keeps their invariant.        *)
LEMMA StutterLemma ==
    ASSUME Core, UNCHANGED core
    PROVE  Core' /\ Orderly /\ Loosens
  BY SMT DEF Core, core, Orderly, Loosens, OneHandPerPod, FrozenForAReason,
             HeldIsWhole, TouchedIsCrushed

(* releaseGrab of any hands, whose contacts may be forgotten.              *)
LEMMA ReleaseLemma ==
    ASSUME Core, NEW hs \in SUBSET Hands, ReleaseGrab(hs),
           UNCHANGED <<shown, world, crush, fallReported>>,
           activePalmContacts' \subseteq activePalmContacts
    PROVE  /\ Core' /\ Orderly /\ Loosens
           /\ \A h \in hs : grabbedPodId'[h] = NoPod
  <1> USE DEF ReleaseGrab, LetGo, Freed, HeldBy
  <1>1. /\ body' \in [Pods -> {"none", "dynamic", "kinematic"}]
        /\ podGrabOwnerById' \in [Pods -> Hands \cup {NoHand}]
        /\ grabbedPodId' \in [Hands -> Pods \cup {NoPod}]
    BY DEF Core
  <1>2. OneHandPerPod'
    BY DEF Core, OneHandPerPod, Hands, NoHand
  <1>3. HeldIsWhole'
    BY DEF Core, HeldIsWhole
  <1>3a. FrozenForAReason'
    <2> SUFFICES ASSUME NEW p \in Pods
                 PROVE (body'[p] = "kinematic") <=>
                            (podGrabOwnerById'[p] # NoHand \/ crush'[p] > 0)
      BY DEF FrozenForAReason
    <2>1. CASE p \in HeldBy(hs)
      <3>1. podGrabOwnerById[p] # NoHand
        BY <2>1 DEF Core, OneHandPerPod, Hands, NoHand
      <3>2. body[p] = "kinematic" /\ crush[p] = 0
        BY <3>1 DEF Core, FrozenForAReason, HeldIsWhole
      <3>3. body'[p] = "dynamic" /\ podGrabOwnerById'[p] = NoHand
        BY <2>1, <3>2
      <3> QED
        BY <3>2, <3>3
    <2>2. CASE p \notin HeldBy(hs)
      BY <2>2 DEF Core, FrozenForAReason
    <2> QED
      BY <2>1, <2>2
  <1>4. TouchedIsCrushed'
    BY DEF Core, TouchedIsCrushed
  <1>5. \A p \in Pods : body'[p] = "none" <=> body[p] = "none"
    BY DEF Core
  <1>6. Core'
    BY <1>1, <1>2, <1>3, <1>3a, <1>4, <1>5 DEF Core
  <1>7. Orderly
    BY DEF Core, Orderly
  <1>8. Loosens /\ \A h \in hs : grabbedPodId'[h] = NoPod
    BY DEF Core, Loosens
  <1> QED
    BY <1>6, <1>7, <1>8

(* clearHandState of any hands.                                            *)
LEMMA ClearLemma ==
    ASSUME Core, NEW hs \in SUBSET Hands, NEW c \in BOOLEAN,
           ClearHandState(hs, c), UNCHANGED <<shown, world, crush, fallReported>>
    PROVE  /\ Core' /\ Orderly /\ Loosens
           /\ \A h \in hs : grabbedPodId'[h] = NoPod
  BY ReleaseLemma DEF ClearHandState

(* startPodCrush of whole pods that have bodies.                           *)
LEMMA CrushLemma ==
    ASSUME Core, NEW ps \in SUBSET Interactable,
           \A p \in ps : body[p] # "none",
           StartPodCrush(ps), UNCHANGED <<shown, world, fallReported>>,
           activePalmContacts' \subseteq Hands \X Pods,
           \A c \in activePalmContacts' : crush[c[2]] > 0 \/ c[2] \in ps
    PROVE  Core' /\ Orderly /\ Loosens
  <1> DEFINE hs == OwnersOf(ps)
  <1> USE DEF StartPodCrush, LetGo, Freed, HeldBy, Interactable
  <1>0. hs \subseteq Hands /\ ps \subseteq Pods /\ ps \subseteq shown
    BY DEF OwnersOf, Core
  <1>1. /\ body' \in [Pods -> {"none", "dynamic", "kinematic"}]
        /\ podGrabOwnerById' \in [Pods -> Hands \cup {NoHand}]
        /\ grabbedPodId' \in [Hands -> Pods \cup {NoPod}]
    BY DEF Core
  <1>2. crush' \in [Pods -> 0 .. CrushFrames]
    BY DEF Core
  <1>3. OneHandPerPod'
    BY <1>0 DEF Core, OneHandPerPod, Hands, NoHand
  <1>4. \A p \in ps : podGrabOwnerById'[p] = NoHand
    BY <1>0 DEF Core, OneHandPerPod, OwnersOf
  <1>5. \A p \in Pods : podGrabOwnerById'[p] \in {podGrabOwnerById[p], NoHand}
    BY DEF Core
  <1>6. HeldIsWhole'
    BY <1>0, <1>4, <1>5 DEF Core, HeldIsWhole
  <1>7. FrozenForAReason'
    <2> SUFFICES ASSUME NEW p \in Pods
                 PROVE (body'[p] = "kinematic") <=>
                            (podGrabOwnerById'[p] # NoHand \/ crush'[p] > 0)
      BY DEF FrozenForAReason
    <2>1. CASE p \in ps
      BY <2>1
    <2>2. CASE p \notin ps
      <3>1. CASE p \in HeldBy(hs)
        <4>1. podGrabOwnerById[p] # NoHand
          BY <1>0, <3>1 DEF Core, OneHandPerPod, Hands, NoHand
        <4>2. body[p] = "kinematic" /\ crush[p] = 0
          BY <4>1 DEF Core, FrozenForAReason, HeldIsWhole
        <4> QED
          BY <2>2, <3>1, <4>2 DEF Core
      <3>2. CASE p \notin HeldBy(hs)
        BY <2>2, <3>2 DEF Core, FrozenForAReason
      <3> QED
        BY <3>1, <3>2
    <2> QED
      BY <2>1, <2>2
  <1>8. TouchedIsCrushed'
    BY <1>0 DEF Core, TouchedIsCrushed
  <1>9. /\ \A p \in Pods : body'[p] = "none" <=> body[p] = "none"
        /\ \A p \in Pods : crush'[p] > 0 => crush[p] > 0 \/ p \in ps
    BY <1>0 DEF Core
  <1>10. Core'
    BY <1>0, <1>1, <1>2, <1>3, <1>6, <1>7, <1>8, <1>9 DEF Core
  <1>11. Orderly /\ Loosens
    BY <1>0, <1>5 DEF Core, Orderly, Loosens
  <1> QED
    BY <1>10, <1>11

(* update() with any pods.                                                 *)
LEMMA UpdateLemma ==
    ASSUME Core, NEW new \in SUBSET Pods, Update(new), UNCHANGED world
    PROVE  /\ Core' /\ Orderly /\ Loosens
           /\ shown' = new /\ fallReported' \subseteq fallReported
           /\ \A p \in Pods : crush'[p] \in {0, crush[p]}
  <1> DEFINE gone == shown \ new
  <1> USE DEF Update, RemovePodEntries, Spawned, LetGo, HeldBy, OwnersOf
  <1>1. /\ body' \in [Pods -> {"none", "dynamic", "kinematic"}]
        /\ podGrabOwnerById' \in [Pods -> Hands \cup {NoHand}]
        /\ grabbedPodId' \in [Hands -> Pods \cup {NoPod}]
        /\ crush' \in [Pods -> 0 .. CrushFrames]
    BY DEF Core
  <1>2. OneHandPerPod'
    BY DEF Core, OneHandPerPod, Hands, NoHand
  <1>3. \A p \in gone : podGrabOwnerById'[p] = NoHand
    BY DEF Core, OneHandPerPod
  <1>4. \A p \in Pods \ gone : podGrabOwnerById'[p] = podGrabOwnerById[p]
    <2> SUFFICES ASSUME NEW p \in Pods \ gone, p \in HeldBy(OwnersOf(gone))
                 PROVE FALSE
      OBVIOUS
    <2>1. PICK h \in OwnersOf(gone) : grabbedPodId[h] = p
      OBVIOUS
    <2>2. PICK q \in gone : podGrabOwnerById[q] = h
      OBVIOUS
    <2>3. grabbedPodId[h] = q
      BY <2>1, <2>2 DEF Core, OneHandPerPod
    <2> QED
      BY <2>1, <2>3
  <1>5. HeldIsWhole'
    BY <1>3, <1>4 DEF Core, HeldIsWhole
  <1>6. FrozenForAReason'
    <2> SUFFICES ASSUME NEW p \in Pods
                 PROVE (body'[p] = "kinematic") <=>
                            (podGrabOwnerById'[p] # NoHand \/ crush'[p] > 0)
      BY DEF FrozenForAReason
    <2>1. CASE p \in gone
      <3>1. body'[p] = "none" /\ crush'[p] = 0
        BY <2>1
      <3>2. podGrabOwnerById'[p] = NoHand
        BY <2>1, <1>3
      <3> HIDE DEF Update, RemovePodEntries, Spawned, LetGo
      <3> QED
        BY <3>1, <3>2
    <2>2. CASE p \notin gone
      BY <2>2, <1>4 DEF Core, FrozenForAReason
    <2> QED
      BY <2>1, <2>2
  <1>7. TouchedIsCrushed' /\ activePalmContacts' \subseteq Hands \X Pods
    BY DEF Core, TouchedIsCrushed
  <1>8. /\ \A p \in Pods : body'[p] # "none" <=> (p \in shown' /\ world')
        /\ \A p \in Pods : crush'[p] > 0 => body'[p] # "none"
    BY DEF Core
  <1>9. Core'
    BY <1>1, <1>2, <1>5, <1>6, <1>7, <1>8 DEF Core
  <1>10. \A p \in Pods \ shown : crush[p] = 0 /\ podGrabOwnerById[p] = NoHand
    BY DEF Core, FrozenForAReason
  <1>11. Orderly
    BY <1>3, <1>4, <1>10 DEF Core, Orderly
  <1>12. Loosens
    BY DEF Core, Loosens
  <1>13. \A p \in Pods : crush'[p] \in {0, crush[p]}
    BY DEF Core
  <1> QED
    BY <1>9, <1>11, <1>12, <1>13

(* reset().                                                                *)
LEMMA ResetLemma ==
    ASSUME Core, Reset, UNCHANGED world
    PROVE  Core' /\ Orderly /\ Loosens /\ shown' = {} /\ hudSliderActiveHand' = NoHand
  BY DEF Reset, StopTableControls, Core, Orderly, Loosens, OneHandPerPod,
         FrozenForAReason, HeldIsWhole, TouchedIsCrushed, Hands, NoHand

(* A hand takes its candidate.                                             *)
LEMMA GrabLemma ==
    ASSUME Core, NEW h \in Hands, Grab(h),
           pinchCandidateId[h] \in Pods, crush[pinchCandidateId[h]] = 0,
           UNCHANGED <<shown, world, crush, fallReported, activePalmContacts>>
    PROVE  /\ Core' /\ Orderly
           /\ \A g \in Hands \ {h} : grabbedPodId'[g] = grabbedPodId[g]
  <1> DEFINE p == pinchCandidateId[h]
  <1> USE DEF Grab
  <1>1. /\ body' \in [Pods -> {"none", "dynamic", "kinematic"}]
        /\ podGrabOwnerById' \in [Pods -> Hands \cup {NoHand}]
        /\ grabbedPodId' \in [Hands -> Pods \cup {NoPod}]
    BY DEF Core
  <1>2. OneHandPerPod'
    BY DEF Core, OneHandPerPod, Hands, NoHand
  <1>3. HeldIsWhole' /\ FrozenForAReason'
    BY DEF Core, HeldIsWhole, FrozenForAReason, Hands, NoHand
  <1>4. TouchedIsCrushed'
    BY DEF Core, TouchedIsCrushed
  <1>5. \A q \in Pods : body'[q] = "none" <=> body[q] = "none"
    BY DEF Core
  <1>6. Core'
    BY <1>1, <1>2, <1>3, <1>4, <1>5 DEF Core
  <1>7. Orderly
    BY DEF Core, Orderly, NoHand
  <1> QED
    BY <1>6, <1>7 DEF Core

----------------------------------------------------------------------------
(* The inductive invariant.  Besides Core it knows that candidates are     *)
(* whole while hands may grab, that completed crushes are heard of in the  *)
(* frame that completes them, and that the left hand has let go for the    *)
(* slider before the right hand's turn.                                    *)

Rest ==
    /\ playing \in {"no", "offline", "online"}
    /\ pinchCandidateId \in [Hands -> Pods \cup {NoPod}]
    /\ pose \in [Hands -> Poses] /\ posed \subseteq Hands
    /\ hudSliderActiveHand \in Hands \cup {NoHand}
    /\ tableMoveMode \in BOOLEAN /\ tableMoveAwaitingConfirmRelease \in BOOLEAN
    /\ pinchLatch \in BOOLEAN /\ leaving \in BOOLEAN
    /\ xr \in {"off", "on", "ending", "ended"}
    /\ step \in Steps /\ completedCrushes \subseteq Pods

Chosen ==
    step \in {"slider", "table", "left", "right"} =>
        \A h \in Hands : pinchCandidateId[h] # NoPod =>
                              crush[pinchCandidateId[h]] = 0

Settled == step \notin {"falls", "hits"} => completedCrushes = {}

LeftDone == step = "right" /\ hudSliderActiveHand = "left" =>
                grabbedPodId["left"] = NoPod

Busy == OneThingPerHand /\ LeftDone

IInv == Core /\ Rest /\ Chosen /\ Settled /\ Busy

(* In the beginning nothing is held.                                       *)
LEMMA InitInv == Init => IInv
  <1> SUFFICES ASSUME Init PROVE IInv
    OBVIOUS
  <1> USE DEF Init
  <1>0. /\ body \in [Pods -> {"none", "dynamic", "kinematic"}]
        /\ crush \in [Pods -> 0 .. CrushFrames]
        /\ podGrabOwnerById \in [Pods -> Hands \cup {NoHand}]
        /\ grabbedPodId \in [Hands -> Pods \cup {NoPod}]
    OBVIOUS
  <1>0a. OneHandPerPod
    BY DEF OneHandPerPod, Hands, NoHand
  <1>0b. FrozenForAReason /\ HeldIsWhole /\ TouchedIsCrushed
    BY DEF FrozenForAReason, HeldIsWhole, TouchedIsCrushed
  <1>0c. /\ \A p \in Pods : body[p] # "none" <=> (p \in shown /\ world)
         /\ \A p \in Pods : crush[p] > 0 => body[p] # "none"
    OBVIOUS
  <1>0d. /\ shown \subseteq Pods /\ world \in BOOLEAN
         /\ fallReported \subseteq shown
         /\ activePalmContacts \subseteq Hands \X Pods
    BY Zenon
  <1>1. Core
    BY <1>0, <1>0a, <1>0b, <1>0c, <1>0d, Zenon DEF Core
  <1>2. {} \in Poses
    BY DEF Poses
  <1>3. Rest
    BY <1>2 DEF Init, Rest, Hands, NoHand, Steps
  <1>4. Chosen /\ Settled /\ Busy
    BY DEF Init, Chosen, Settled, Busy, LeftDone, OneThingPerHand, Hands, NoHand
  <1> QED
    BY <1>1, <1>3, <1>4 DEF IInv

(* A task between frames, and a step that only loosens grips and leaves    *)
(* the controls as they are or stops them.                                 *)
LEMMA BusyLemma ==
    ASSUME IInv, Loosens,
           step' = "idle" => (step = "idle" \/ hudSliderActiveHand' = NoHand
                              \/ step \in {"leftPalm", "rightPalm", "buttons"}),
           step' \notin {"leftPalm", "rightPalm", "buttons", "right"}
               \/ step \in {"leftPalm", "rightPalm", "buttons"},
           tableMoveMode' => tableMoveMode /\ hudSliderActiveHand' = NoHand,
           hudSliderActiveHand' \in {hudSliderActiveHand, NoHand}
    PROVE  Busy'
  BY DEF IInv, Core, Rest, Loosens, Busy, LeftDone, OneThingPerHand, Hands, NoHand

(* The tasks between frames.                                               *)
LEMMA TaskLemma ==
    ASSUME IInv, Task
    PROVE  Core' /\ Orderly /\ Loosens /\ step = "idle" /\ step' = "idle"
  <1> USE DEF IInv
  <1>1. CASE InitializePhysics
    <2>1. \A p \in Pods : body[p] = "none" /\ crush[p] = 0
                              /\ podGrabOwnerById[p] = NoHand
      BY <1>1 DEF InitializePhysics, Core, FrozenForAReason
    <2> QED
      BY <1>1, <2>1 DEF InitializePhysics, Core, Orderly, Loosens, grips,
         OneHandPerPod, FrozenForAReason, HeldIsWhole, TouchedIsCrushed
  <1>2. CASE StoreChanges
    <2>1. PICK p \in Pods : Update(IF p \in shown THEN shown \ {p}
                                   ELSE shown \cup {p})
      BY <1>2 DEF StoreChanges
    <2>2. (IF p \in shown THEN shown \ {p} ELSE shown \cup {p}) \in SUBSET Pods
      BY DEF Core
    <2> QED
      BY <1>2, <2>1, <2>2, UpdateLemma DEF StoreChanges
  <1>3. CASE Hydrate
    BY <1>3, UpdateLemma DEF Hydrate
  <1>4. CASE ConnectionEnds
    BY <1>4, ResetLemma DEF ConnectionEnds
  <1>5. CASE DisconnectClicked
    BY <1>5, ResetLemma, StutterLemma DEF DisconnectClicked, core, pods, grips
  <1>6. CASE EnterXR
    BY <1>6, StutterLemma DEF EnterXR, core, pods, grips
  <1>7. CASE HandleXREnd
    BY <1>7, ClearLemma DEF HandleXREnd
  <1>8. CASE SessionEnds
    BY <1>8, StutterLemma DEF SessionEnds, core, pods, grips
  <1>9. CASE ExitXR
    BY <1>9, ResetLemma, StutterLemma DEF ExitXR, core, pods, grips
  <1>10. CASE DesktopClick
    <2>1. PICK p \in Interactable : body[p] # "none" /\ StartPodCrush({p})
      BY <1>10 DEF DesktopClick
    <2>2. /\ activePalmContacts' \subseteq Hands \X Pods
          /\ \A c \in activePalmContacts' : crush[c[2]] > 0
      BY <1>10 DEF DesktopClick, Core, TouchedIsCrushed
    <2> QED
      BY <1>10, <2>1, <2>2, CrushLemma DEF DesktopClick
  <1> QED
    BY <1>1, <1>2, <1>3, <1>4, <1>5, <1>6, <1>7, <1>8, <1>9, <1>10 DEF Task

(* A callback of the client keeps the invariant.                           *)
LEMMA TaskInv ==
    ASSUME IInv, Task
    PROVE  IInv'
  <1>1. Core' /\ Loosens /\ step = "idle" /\ step' = "idle"
    BY TaskLemma
  <1>2. UNCHANGED <<inputs, completedCrushes>>
    BY DEF Task, InitializePhysics, StoreChanges, Hydrate, ConnectionEnds,
           DisconnectClicked, EnterXR, HandleXREnd, SessionEnds, ExitXR, DesktopClick
  <1>3. /\ hudSliderActiveHand' \in {hudSliderActiveHand, NoHand}
        /\ tableMoveMode' \in {tableMoveMode, FALSE}
        /\ tableMoveAwaitingConfirmRelease' \in {tableMoveAwaitingConfirmRelease, FALSE}
        /\ pinchLatch' \in {pinchLatch, FALSE}
    BY DEF Task, InitializePhysics, StoreChanges, Hydrate, ConnectionEnds,
           DisconnectClicked, EnterXR, HandleXREnd, SessionEnds, ExitXR, DesktopClick,
           Reset, StopTableControls, wrist, table
  <1>4. /\ playing' \in {"no", "offline", "online", playing}
        /\ xr' \in {"off", "on", "ending", "ended", xr}
        /\ leaving' \in {TRUE, FALSE, leaving}
    BY DEF Task, InitializePhysics, StoreChanges, Hydrate, ConnectionEnds,
           DisconnectClicked, EnterXR, HandleXREnd, SessionEnds, ExitXR, DesktopClick,
           client
  <1>5. tableMoveMode' => tableMoveMode /\ hudSliderActiveHand' = NoHand
    BY <1>3, Zenon DEF IInv, Busy, OneThingPerHand
  <1>6. Busy'
    BY <1>1, <1>3, <1>5, BusyLemma
  <1>7. Chosen' /\ Settled'
    BY <1>1, <1>2 DEF IInv, Chosen, Settled
  <1>8. /\ pinchCandidateId' \in [Hands -> Pods \cup {NoPod}]
        /\ pose' \in [Hands -> Poses] /\ posed' \subseteq Hands
        /\ hudSliderActiveHand' \in Hands \cup {NoHand}
        /\ step' \in Steps /\ completedCrushes' \subseteq Pods
    BY <1>1, <1>2, <1>3 DEF IInv, Rest, inputs
  <1>9. /\ tableMoveMode' \in BOOLEAN /\ tableMoveAwaitingConfirmRelease' \in BOOLEAN
        /\ pinchLatch' \in BOOLEAN /\ leaving' \in BOOLEAN
    BY <1>3, <1>4, Zenon DEF IInv, Rest
  <1>10. /\ playing' \in {"no", "offline", "online"}
         /\ xr' \in {"off", "on", "ending", "ended"}
    BY <1>4 DEF IInv, Rest
  <1>11. Rest'
    BY <1>8, <1>9, <1>10 DEF Rest
  <1> QED
    BY <1>1, <1>6, <1>7, <1>11 DEF IInv

(* The frame, one lemma for each step.                                     *)
LEMMA AdvanceInv ==
    ASSUME IInv, AdvanceCrushes
    PROVE  IInv' /\ Orderly
  <1> USE DEF IInv, AdvanceCrushes, grips, wrist, table, inputs, client
  <1>1. /\ crush' \in [Pods -> 0 .. CrushFrames]
        /\ \A p \in Pods : crush[p] = 0 <=> crush'[p] = 0
        /\ \A p \in Pods : crush'[p] >= crush[p]
    BY DEF Core
  <1>2. OneHandPerPod' /\ FrozenForAReason' /\ HeldIsWhole'
    BY <1>1 DEF Core, OneHandPerPod, FrozenForAReason, HeldIsWhole
  <1>3. TouchedIsCrushed'
    BY <1>1 DEF Core, TouchedIsCrushed
  <1>4. Core'
    BY <1>1, <1>2, <1>3 DEF Core
  <1>5. Orderly
    BY <1>1 DEF Core, Orderly
  <1>6. completedCrushes' \subseteq Pods /\ step' \in Steps
    BY DEF Core, Steps
  <1>7. Rest'
    BY <1>6 DEF Rest
  <1>8. Chosen' /\ Settled' /\ Busy'
    BY DEF Chosen, Settled, Busy, LeftDone, OneThingPerHand
  <1> QED
    BY <1>4, <1>5, <1>7, <1>8

(* So does a skipped phase of the frame.                                   *)
LEMMA SkipInv ==
    ASSUME IInv, SkipSimulation
    PROVE  IInv' /\ Orderly
  <1> USE DEF IInv, SkipSimulation, pods, grips, wrist, table, inputs, client
  <1>1. step' \in {"hands", "flat"} /\ step' \in Steps
    BY DEF AfterSimulation, Steps
  <1>2. Core' /\ Orderly
    BY StutterLemma DEF core
  <1>3. Rest'
    BY <1>1 DEF Rest
  <1>4. Chosen' /\ Settled' /\ Busy'
    BY <1>1 DEF Chosen, Settled, Busy, LeftDone, OneThingPerHand
  <1> QED
    BY <1>2, <1>3, <1>4

(* So does the test for falls.                                             *)
LEMMA FallsInv ==
    ASSUME IInv, ReportFalls
    PROVE  IInv' /\ Orderly
  <1> USE DEF IInv, ReportFalls, grips, wrist, table, inputs, client
  <1>1. PICK below \in SUBSET {p \in shown \ fallReported : body[p] # "none"} :
            IF playing = "online"
            THEN Update(shown \ below)
            ELSE /\ fallReported' = fallReported \cup below
                 /\ UNCHANGED <<shown, body, crush, activePalmContacts, grips>>
    OBVIOUS
  <1>2. step' = "hits" /\ step' \in Steps
    BY DEF Steps
  <1>3. Core' /\ Orderly /\ Loosens
    <2>1. CASE playing = "online"
      BY <1>1, <2>1, UpdateLemma DEF Core
    <2>2. CASE playing # "online"
      BY <1>1, <2>2 DEF Core, Orderly, Loosens, OneHandPerPod, FrozenForAReason,
         HeldIsWhole, TouchedIsCrushed
    <2> QED
      BY <2>1, <2>2
  <1>4. Rest'
    BY <1>2 DEF Rest
  <1>5. Chosen' /\ Settled'
    BY <1>2 DEF Chosen, Settled
  <1>6. Busy'
    BY <1>2, <1>3 DEF Busy, LeftDone, OneThingPerHand, Loosens, Hands
  <1> QED
    BY <1>3, <1>4, <1>5, <1>6

(* So do the hits.                                                         *)
LEMMA HitsInv ==
    ASSUME IInv, ReportHits
    PROVE  IInv' /\ Orderly
  <1> USE DEF IInv, ReportHits, pods, grips, wrist, table, inputs, client
  <1>1. step' \in {"hands", "flat"} /\ step' \in Steps
    BY DEF AfterSimulation, Steps
  <1>2. Core' /\ Orderly /\ Loosens
    <2>1. CASE playing = "online"
      BY <2>1, UpdateLemma DEF Core
    <2>2. CASE playing # "online"
      BY <2>2, StutterLemma DEF core
    <2> QED
      BY <2>1, <2>2
  <1>3. Rest'
    BY <1>1 DEF Rest
  <1>4. Chosen' /\ Settled'
    BY <1>1 DEF Chosen, Settled
  <1>5. Busy'
    BY <1>1, <1>2 DEF Busy, LeftDone, OneThingPerHand, Loosens, Hands
  <1> QED
    BY <1>2, <1>3, <1>4, <1>5

(* So does a frame without a headset.                                      *)
LEMMA FlatInv ==
    ASSUME IInv, FlatFrame
    PROVE  IInv' /\ Orderly
  <1> USE DEF IInv, FlatFrame, inputs, client
  <1>1. Core' /\ Orderly /\ \A h \in Hands : grabbedPodId'[h] = NoPod
    BY ClearLemma
  <1>2. step' = "idle" /\ step' \in Steps
    BY DEF Steps
  <1>3. Rest'
    BY <1>2 DEF Rest
  <1>4. Chosen' /\ Settled'
    BY <1>2 DEF Chosen, Settled
  <1>5. Busy'
    BY <1>1, <1>2 DEF Busy, LeftDone, OneThingPerHand, Hands, Rest, NoHand
  <1> QED
    BY <1>1, <1>3, <1>4, <1>5

(* So do hands without joints.                                             *)
LEMMA NoJointsInv ==
    ASSUME IInv, NoJoints
    PROVE  IInv' /\ Orderly
  <1> USE DEF IInv, NoJoints, inputs, wrist, table, client
  <1>1. Core' /\ Orderly /\ \A h \in Hands : grabbedPodId'[h] = NoPod
    BY ClearLemma
  <1>2. step' = "idle" /\ step' \in Steps
    BY DEF Steps
  <1>3. Rest'
    BY <1>2 DEF Rest
  <1>4. Chosen' /\ Settled'
    BY <1>2 DEF Chosen, Settled
  <1>5. Busy'
    BY <1>1, <1>2 DEF Busy, LeftDone, OneThingPerHand, Hands, Rest, NoHand
  <1> QED
    BY <1>1, <1>3, <1>4, <1>5

(* So does tracking a hand.                                                *)
LEMMA TrackInv ==
    ASSUME IInv, TrackHands
    PROVE  IInv' /\ Orderly
  <1> USE DEF IInv, TrackHands, table, client
  <1>1. PICK seen \in SUBSET Hands, poses \in [Hands -> Poses] :
           /\ posed' = seen /\ pose' = poses
           /\ pinchCandidateId' \in
                  {c \in [Hands -> {NoPod} \cup Pods] :
                       \A h \in Hands : c[h] \in PinchCandidates(poses, h)}
           /\ ClearHandState(Hands \ seen, TRUE)
           /\ hudSliderActiveHand' \in {hudSliderActiveHand, NoHand}
    OBVIOUS
  <1>2. step' = "slider" /\ step' \in Steps
    BY DEF Steps
  <1>3. Core' /\ Orderly /\ Loosens
    BY <1>1, ClearLemma
  <1>4. \A h \in Hands : pinchCandidateId'[h] # NoPod => crush[pinchCandidateId'[h]] = 0
    BY <1>1 DEF PinchCandidates, Interactable
  <1>5. pinchCandidateId' \in [Hands -> Pods \cup {NoPod}]
    BY <1>1
  <1>6. Rest'
    BY <1>1, <1>2, <1>5 DEF Rest
  <1>7. Chosen' /\ Settled'
    BY <1>2, <1>4 DEF Chosen, Settled
  <1>8. Busy'
    BY <1>1, <1>2, <1>3 DEF Busy, LeftDone, OneThingPerHand, Loosens, Hands, NoHand
  <1> QED
    BY <1>3, <1>6, <1>7, <1>8

(* So does the slider.                                                     *)
LEMMA SliderInv ==
    ASSUME IInv, TableHeightSlider
    PROVE  IInv' /\ Orderly
  <1> USE DEF IInv, TableHeightSlider, pods, grips, table, client
  <1>1. Core' /\ Orderly
    BY StutterLemma DEF core
  <1>2. step' = "table" /\ step' \in Steps
    BY DEF Steps
  <1>3. /\ pinchCandidateId' \in [Hands -> Pods \cup {NoPod}]
        /\ \A h \in Hands : pinchCandidateId'[h] \in {NoPod, pinchCandidateId[h]}
        /\ hudSliderActiveHand' \in Hands \cup {NoHand}
        /\ hudSliderActiveHand' # NoHand => ~tableMoveMode
    BY DEF Rest
  <1>4. Rest'
    BY <1>2, <1>3 DEF Rest
  <1>5. Chosen' /\ Settled'
    BY <1>2, <1>3 DEF Chosen, Settled
  <1>6. Busy'
    BY <1>2, <1>3 DEF Busy, LeftDone, OneThingPerHand
  <1> QED
    BY <1>1, <1>4, <1>5, <1>6

(* So does moving what is held.                                            *)
LEMMA MoveInv ==
    ASSUME IInv, MoveTable
    PROVE  IInv' /\ Orderly
  <1> USE DEF IInv, MoveTable, pods, grips, table, client
  <1>1. Core' /\ Orderly
    BY StutterLemma DEF core
  <1>2. step' = "left" /\ step' \in Steps
    BY DEF Steps
  <1>3. /\ pinchCandidateId' \in [Hands -> Pods \cup {NoPod}]
        /\ \A h \in Hands : pinchCandidateId'[h] \in {NoPod, pinchCandidateId[h]}
    BY DEF Rest, Hands
  <1>4. tableMoveMode' => tableMoveMode
    BY Zenon
  <1>5. tableMoveMode' \in BOOLEAN /\ tableMoveAwaitingConfirmRelease' \in BOOLEAN
    BY Zenon DEF Rest
  <1>6. Rest'
    BY <1>2, <1>3, <1>5, Zenon DEF Rest
  <1>7. Chosen' /\ Settled'
    BY <1>2, <1>3 DEF Chosen, Settled
  <1>8. Busy'
    BY <1>2, <1>4 DEF Busy, LeftDone, OneThingPerHand
  <1> QED
    BY <1>1, <1>6, <1>7, <1>8

(* The turn of one hand.                                                   *)
LEMMA UpdateGrabLemma ==
    ASSUME IInv, NEW h \in Hands, UpdateGrab(h), step \in {"left", "right"},
           UNCHANGED <<shown, world, crush, fallReported, activePalmContacts>>
    PROVE  /\ Core' /\ Orderly
           /\ \A g \in Hands \ {h} : grabbedPodId'[g] = grabbedPodId[g]
           /\ hudSliderActiveHand = h => grabbedPodId'[h] = NoPod
  <1> USE DEF IInv
  <1>1. CASE hudSliderActiveHand # h /\ Grab(h)
    <2>1. pinchCandidateId[h] \in Pods /\ crush[pinchCandidateId[h]] = 0
      BY <1>1 DEF Grab, Chosen, Rest
    <2> QED
      BY <1>1, <2>1, GrabLemma
  <1>2. CASE Release(h)
    <2>1. ReleaseGrab({h})
      BY <1>2 DEF Release
    <2>2. Core' /\ Orderly /\ grabbedPodId'[h] = NoPod
      BY <2>1, ReleaseLemma
    <2>3. \A g \in Hands \ {h} : grabbedPodId'[g] = grabbedPodId[g]
      BY <2>1 DEF ReleaseGrab, LetGo, Core
    <2> QED
      BY <2>2, <2>3
  <1>3. CASE Keep(h)
    BY <1>3, StutterLemma DEF Keep, core, grips
  <1> QED
    BY <1>1, <1>2, <1>3 DEF UpdateGrab

(* So does the left hand.                                                  *)
LEMMA LeftInv ==
    ASSUME IInv, UpdateGrabLeft
    PROVE  IInv' /\ Orderly
  <1> USE DEF UpdateGrabLeft, inputs, wrist, table, client
  <1>1. /\ Core' /\ Orderly
        /\ grabbedPodId'["right"] = grabbedPodId["right"]
        /\ hudSliderActiveHand = "left" => grabbedPodId'["left"] = NoPod
    BY UpdateGrabLemma DEF Hands
  <1>2. step' = "right" /\ step' \in Steps
    BY DEF Steps
  <1>3. Rest'
    BY <1>2 DEF IInv, Rest
  <1>4. Chosen' /\ Settled'
    BY <1>2 DEF IInv, Chosen, Settled
  <1>5. Busy'
    BY <1>1, <1>2 DEF IInv, Busy, LeftDone, OneThingPerHand
  <1> QED
    BY <1>1, <1>3, <1>4, <1>5 DEF IInv

(* So does the right hand.                                                 *)
LEMMA RightInv ==
    ASSUME IInv, UpdateGrabRight
    PROVE  IInv' /\ Orderly
  <1> USE DEF UpdateGrabRight, inputs, wrist, table, client
  <1>1. /\ Core' /\ Orderly
        /\ grabbedPodId'["left"] = grabbedPodId["left"]
        /\ ~tableMoveMode /\ hudSliderActiveHand = "right" =>
               grabbedPodId'["right"] = NoPod
        /\ tableMoveMode => grabbedPodId'["right"] = NoPod
    <2>1. CASE tableMoveMode
      BY <2>1, StutterLemma DEF IInv, core, grips, Busy, OneThingPerHand
    <2>2. CASE ~tableMoveMode
      BY <2>2, UpdateGrabLemma DEF Hands
    <2> QED
      BY <2>1, <2>2
  <1>2. step' = "leftPalm" /\ step' \in Steps
    BY DEF Steps
  <1>3. Rest'
    BY <1>2 DEF IInv, Rest
  <1>4. Chosen' /\ Settled'
    BY <1>2 DEF IInv, Chosen, Settled
  <1>5. Busy'
    BY <1>1, <1>2 DEF IInv, Rest, Busy, LeftDone, OneThingPerHand, Hands, NoHand
  <1> QED
    BY <1>1, <1>3, <1>4, <1>5 DEF IInv

(* A palm starts to crush the pods it newly touches.                       *)
LEMMA PalmLemma ==
    ASSUME IInv, NEW h \in Hands, PalmContacts(h)
    PROVE  Core' /\ Orderly /\ Loosens
  <1> USE DEF IInv, PalmContacts
  <1>1. PICK touched \in SUBSET {<<h, p>> : p \in {q \in shown : body[q] # "none"}} :
           /\ activePalmContacts' = (activePalmContacts \ Contacts({h})) \cup touched
           /\ StartPodCrush({p \in Interactable :
                                <<h, p>> \in touched \ activePalmContacts})
    OBVIOUS
  <1> DEFINE ps == {p \in Interactable : <<h, p>> \in touched \ activePalmContacts}
  <1>2. ps \in SUBSET Interactable /\ \A p \in ps : body[p] # "none"
    OBVIOUS
  <1>3. activePalmContacts' \subseteq Hands \X Pods
    BY <1>1 DEF Core
  <1>4. \A c \in activePalmContacts' : crush[c[2]] > 0 \/ c[2] \in ps
    <2> SUFFICES ASSUME NEW c \in activePalmContacts'
                 PROVE crush[c[2]] > 0 \/ c[2] \in ps
      OBVIOUS
    <2>1. CASE c \in activePalmContacts
      BY <2>1 DEF Core, TouchedIsCrushed
    <2>2. CASE c \notin activePalmContacts
      <3>1. PICK p \in shown : c = <<h, p>> /\ c \in touched
        BY <1>1, <2>2
      <3>2. crush[p] \in Nat /\ c[2] = p
        BY <3>1 DEF Core
      <3> QED
        BY <2>2, <3>1, <3>2 DEF Interactable
    <2> QED
      BY <2>1, <2>2
  <1> QED
    BY <1>1, <1>2, <1>3, <1>4, CrushLemma

(* The palms keep the invariant.                                           *)
LEMMA PalmsInv ==
    ASSUME IInv, LeftPalm \/ RightPalm
    PROVE  IInv' /\ Orderly
  <1>1. Core' /\ Orderly /\ Loosens
    BY PalmLemma DEF LeftPalm, RightPalm, Hands
  <1>2. UNCHANGED <<inputs, wrist, client, completedCrushes>>
    BY DEF LeftPalm, RightPalm, PalmContacts
  <1>3. /\ step \in {"leftPalm", "rightPalm"} /\ step' \in {"rightPalm", "buttons"}
        /\ step' \in Steps
    BY DEF LeftPalm, RightPalm, Steps
  <1>4. Rest'
    BY <1>2, <1>3 DEF IInv, Rest, inputs, wrist, table, client
  <1>5. Chosen' /\ Settled'
    BY <1>2, <1>3 DEF IInv, Chosen, Settled
  <1>6. Busy'
    BY <1>1, <1>2, <1>3 DEF IInv, Rest, Busy, LeftDone, OneThingPerHand, Loosens,
       Hands, NoHand, wrist, table
  <1> QED
    BY <1>1, <1>4, <1>5, <1>6 DEF IInv

(* So do the wrist buttons.                                                *)
LEMMA ButtonsInv ==
    ASSUME IInv, Buttons
    PROVE  IInv' /\ Orderly
  <1> USE DEF Buttons, ForgetInputs
  <1>1. \/ StartTableMoveMode /\ UNCHANGED <<xr, leaving>>
        \/ /\ UNCHANGED <<grips, body, hudSliderActiveHand, table>>
           /\ xr' \in {"ending", xr} /\ leaving' \in {TRUE, leaving}
    OBVIOUS
  <1>2. pinchLatch' \in BOOLEAN
    BY Zenon
  <1>3. step = "buttons" /\ step' = "idle" /\ step' \in Steps
    BY DEF Steps
  <1>4. Core' /\ Orderly /\ Busy'
    <2>1. CASE StartTableMoveMode
      <3>1. /\ Core' /\ Orderly /\ grabbedPodId'["right"] = NoPod
            /\ hudSliderActiveHand' = NoHand
        BY <2>1, ReleaseLemma DEF IInv, StartTableMoveMode, Hands
      <3> QED
        BY <1>3, <3>1 DEF Busy, LeftDone, OneThingPerHand
    <2>2. CASE UNCHANGED <<grips, body, hudSliderActiveHand, table>>
      <3>1. Core' /\ Orderly
        BY <2>2, StutterLemma DEF IInv, core, grips
      <3> QED
        BY <2>2, <1>3, <3>1 DEF IInv, Busy, LeftDone, OneThingPerHand, grips, table
    <2> QED
      BY <1>1, <2>1, <2>2
  <1>5. /\ pinchCandidateId' \in [Hands -> Pods \cup {NoPod}]
        /\ posed' \subseteq Hands /\ pose' \in [Hands -> Poses]
    BY DEF Poses
  <1>6. /\ hudSliderActiveHand' \in Hands \cup {NoHand}
        /\ tableMoveMode' \in BOOLEAN /\ tableMoveAwaitingConfirmRelease' \in BOOLEAN
    BY <1>1 DEF IInv, Rest, StartTableMoveMode, table
  <1>7. xr' \in {"off", "on", "ending", "ended"} /\ leaving' \in BOOLEAN
    BY <1>1 DEF IInv, Rest
  <1>8. Rest'
    BY <1>2, <1>3, <1>5, <1>6, <1>7 DEF IInv, Rest
  <1>9. Chosen' /\ Settled'
    BY <1>3 DEF IInv, Chosen, Settled
  <1> QED
    BY <1>4, <1>8, <1>9 DEF IInv

(* So does every phase of a frame.                                         *)
LEMMA StepInv ==
    ASSUME IInv, Next
    PROVE  IInv' /\ Orderly
  BY TaskLemma, TaskInv, AdvanceInv, SkipInv, FallsInv, HitsInv, FlatInv, NoJointsInv,
     TrackInv, SliderInv, MoveInv, LeftInv, RightInv, PalmsInv, ButtonsInv
     DEF Next, RenderFrame

(* Every step keeps the invariant.                                         *)
LEMMA Inductive ==
    ASSUME IInv, [Next]_vars
    PROVE  IInv' /\ Orderly
  <1>1. CASE Next
    BY <1>1, StepInv
  <1>2. CASE UNCHANGED vars
    <2> USE <1>2 DEF vars, pods, grips, inputs, wrist, table, client
    <2>1. Core' /\ Orderly
      BY StutterLemma DEF IInv, core
    <2>2. Rest'
      BY DEF IInv, Rest
    <2>3. Chosen' /\ Settled' /\ Busy'
      BY DEF IInv, Chosen, Settled, Busy, LeftDone, OneThingPerHand
    <2> QED
      BY <2>1, <2>2, <2>3 DEF IInv
  <1> QED
    BY <1>1, <1>2

(* It holds throughout.                                                    *)
LEMMA Invariance == Spec => []IInv
  BY InitInv, Inductive, PTL DEF Spec

----------------------------------------------------------------------------
(* The theorems.                                                           *)

(* Every variable keeps its type, and only pods on the board have bodies.  *)
THEOREM TypeCorrect == Spec => []TypeOK
  <1>1. IInv => TypeOK
    BY DEF IInv, Core, Rest, TypeOK
  <1> QED
    BY <1>1, Invariance, PTL

(* A hand holds the pod it owns; no pod follows two hands.                 *)
THEOREM OneHand == Spec => []OneHandPerPod
  <1>1. IInv => OneHandPerPod
    BY DEF IInv, Core
  <1> QED
    BY <1>1, Invariance, PTL

(* A pod the physics does not move is held or being crushed.               *)
THEOREM Frozen == Spec => []FrozenForAReason
  <1>1. IInv => FrozenForAReason
    BY DEF IInv, Core
  <1> QED
    BY <1>1, Invariance, PTL

(* No hand holds a pod that is being crushed.                              *)
THEOREM HeldWhole == Spec => []HeldIsWhole
  <1>1. IInv => HeldIsWhole
    BY DEF IInv, Core
  <1> QED
    BY <1>1, Invariance, PTL

(* A palm in contact with a pod has crushed it.                            *)
THEOREM TouchedCrushed == Spec => []TouchedIsCrushed
  <1>1. IInv => TouchedIsCrushed
    BY DEF IInv, Core
  <1> QED
    BY <1>1, Invariance, PTL

(* Moving the table, the slider and the pods exclude each other.           *)
THEOREM OneThing == Spec => []OneThingPerHand
  <1>1. IInv => OneThingPerHand
    BY DEF IInv, Busy
  <1> QED
    BY <1>1, Invariance, PTL

(* update() leaves no death unheard that was not before.                   *)
LEMMA UpdateHears ==
    ASSUME Core, NEW new \in SUBSET Pods, Update(new), UNCHANGED world,
           completedCrushes' \subseteq completedCrushes,
           \A p \in completedCrushes \ completedCrushes' : p \notin new
    PROVE  Unheard' \subseteq Unheard
  <1> SUFFICES ASSUME NEW p \in Unheard'
               PROVE p \in Unheard
    OBVIOUS
  <1>1. /\ shown' = new /\ fallReported' \subseteq fallReported
        /\ \A q \in Pods : crush'[q] \in {0, crush[q]}
    BY UpdateLemma
  <1>2. p \in new /\ p \in Pods
    BY <1>1 DEF Unheard
  <1>3. CASE p \in fallReported'
    BY <1>1, <1>3 DEF Unheard, Core
  <1>4. CASE crush'[p] = CrushFrames /\ p \notin completedCrushes'
    <2>1. crush[p] = CrushFrames
      BY <1>1, <1>2, <1>4
    <2>2. p \in shown
      BY <2>1, <1>2 DEF Core
    <2> QED
      BY <2>1, <2>2, <1>2, <1>4 DEF Unheard
  <1> QED
    BY <1>3, <1>4 DEF Unheard

(* A step that neither shows pods nor completes crushes nor reports falls. *)
LEMMA NothingAnnounced ==
    ASSUME shown' \subseteq shown,
           \A p \in shown' : crush'[p] = crush[p] \/ crush'[p] # CrushFrames,
           fallReported' \subseteq fallReported,
           completedCrushes \subseteq completedCrushes'
    PROVE  Unheard' \subseteq Unheard
  BY DEF Unheard

(* Crushes begin in the first frame.                                       *)
LEMMA CrushBegins ==
    ASSUME Core, NEW ps \in SUBSET Pods, StartPodCrush(ps)
    PROVE  \A p \in Pods : crush'[p] = crush[p] \/ crush'[p] # CrushFrames
  BY DEF Core, StartPodCrush

(* With a socket, every announced fall and crush takes its pod off.        *)
LEMMA StepHears ==
    ASSUME IInv, Next, playing = "online"
    PROVE  Unheard' \subseteq Unheard
  <1> USE DEF IInv
  <1>1. CASE StoreChanges
    <2>1. PICK p \in Pods : Update(IF p \in shown THEN shown \ {p}
                                   ELSE shown \cup {p})
      BY <1>1 DEF StoreChanges
    <2>2. (IF p \in shown THEN shown \ {p} ELSE shown \cup {p}) \in SUBSET Pods
      BY DEF Core
    <2> QED
      BY <1>1, <2>1, <2>2, UpdateHears DEF StoreChanges
  <1>2. CASE Hydrate
    BY <1>2 DEF Hydrate
  <1>3. CASE ConnectionEnds \/ DisconnectClicked \/ ExitXR
    <2>1. completedCrushes' = completedCrushes
      BY <1>3 DEF ConnectionEnds, DisconnectClicked, ExitXR
    <2>2. CASE Reset
      <3>1. shown' = {}
        BY <2>2 DEF Reset
      <3> QED
        BY <3>1 DEF Unheard
    <2>3. CASE UNCHANGED pods
      BY <2>1, <2>3, NothingAnnounced DEF pods
    <2> QED
      BY <1>3, <2>2, <2>3 DEF ConnectionEnds, DisconnectClicked, ExitXR
  <1>4. CASE EnterXR \/ SessionEnds \/ SkipSimulation \/ TableHeightSlider \/ MoveTable
    BY <1>4, NothingAnnounced DEF EnterXR, SessionEnds, SkipSimulation,
       TableHeightSlider, MoveTable, pods
  <1>5. CASE InitializePhysics \/ HandleXREnd \/ FlatFrame \/ NoJoints \/ TrackHands
             \/ UpdateGrabLeft \/ UpdateGrabRight \/ Buttons
    BY <1>5, NothingAnnounced DEF InitializePhysics, HandleXREnd, FlatFrame, NoJoints,
       TrackHands, UpdateGrabLeft, UpdateGrabRight, Buttons
  <1>6. CASE DesktopClick
    <2>1. PICK p \in Interactable : StartPodCrush({p})
      BY <1>6 DEF DesktopClick
    <2>2. {p} \in SUBSET Pods
      BY DEF Core, Interactable
    <2> QED
      BY <1>6, <2>1, <2>2, CrushBegins, NothingAnnounced DEF DesktopClick, Core
  <1>7. CASE LeftPalm \/ RightPalm
    <2>1. PICK h \in Hands : PalmContacts(h)
      BY <1>7 DEF LeftPalm, RightPalm, Hands
    <2>2. PICK ps \in SUBSET Interactable : StartPodCrush(ps)
      <3>1. PICK touched : StartPodCrush({p \in Interactable :
                                <<h, p>> \in touched \ activePalmContacts})
        BY <2>1 DEF PalmContacts
      <3> QED
        BY <3>1
    <2>3. ps \in SUBSET Pods
      BY DEF Core, Interactable
    <2> QED
      BY <2>1, <2>2, <2>3, CrushBegins, NothingAnnounced DEF PalmContacts, Core
  <1>8. CASE AdvanceCrushes
    <2>1. completedCrushes = {}
      BY <1>8 DEF AdvanceCrushes, Settled
    <2> SUFFICES ASSUME NEW p \in Unheard'
                 PROVE p \in Unheard
      OBVIOUS
    <2>2. p \in shown /\ p \in Pods
      BY <1>8 DEF AdvanceCrushes, Unheard, Core
    <2>3. CASE p \in fallReported
      BY <2>2, <2>3 DEF Unheard
    <2>4. CASE crush'[p] = CrushFrames /\ p \notin completedCrushes'
      <3>1. crush[p] = CrushFrames
        BY <1>8, <2>2, <2>4 DEF AdvanceCrushes, Core
      <3> QED
        BY <2>1, <2>2, <3>1 DEF Unheard
    <2> QED
      BY <1>8, <2>3, <2>4 DEF Unheard, AdvanceCrushes
  <1>9. CASE ReportFalls
    <2>1. PICK below \in SUBSET shown : Update(shown \ below)
      BY <1>9 DEF ReportFalls
    <2> QED
      BY <1>9, <2>1, UpdateHears DEF ReportFalls, Core
  <1>10. CASE ReportHits
    <2>1. Update(shown \ completedCrushes) /\ completedCrushes' = {}
      BY <1>10 DEF ReportHits
    <2> QED
      BY <1>10, <2>1, UpdateHears DEF ReportHits, Core
  <1> QED
    BY <1>1, <1>2, <1>3, <1>4, <1>5, <1>6, <1>7, <1>8, <1>9, <1>10
       DEF Next, Task, RenderFrame

(* Nothing announced while the client plays with a socket is lost.         *)
THEOREM ReportsArrive == Spec => NoReportLost
  <1>1. IInv /\ [Next]_vars => [playing = "online" => Unheard' \subseteq Unheard]_vars
    BY StepHears
  <1> QED
    BY <1>1, Invariance, PTL DEF Spec, NoReportLost

(* Where is a place, and a pod is at a hand iff that hand holds it.        *)
LEMMA Placed ==
    ASSUME Core
    PROVE  /\ Where \in [Pods -> Board!Places]
           /\ \A p \in Pods, h \in Hands : Where[p] = h =>
                  podGrabOwnerById[p] = h
  BY DEF Core, Where, Board!Places, Hands, NoHand

(* Every step of the scene is one of the board.                            *)
LEMMA MovesInOrder ==
    ASSUME Core, Core', Orderly, NEW p \in Pods
    PROVE  <<Where[p], Where'[p]>> \in Board!Moves
  <1> USE DEF Board!Moves, Board!Places
  <1>1. /\ Where[p] \in Board!Places /\ Where'[p] \in Board!Places
    BY Placed DEF Core, Where, Hands, NoHand
  <1>2. CASE p \notin shown'
    <2>1. Where'[p] = "off"
      BY <1>2 DEF Where
    <2> QED
      BY <1>1, <2>1
  <1>3. CASE p \in shown' \ shown
    <2>1. Where[p] = "off" /\ Where'[p] = "free"
      BY <1>3 DEF Where, Orderly
    <2> QED
      BY <2>1
  <1>4. CASE p \in shown /\ p \in shown' /\ crush[p] > 0
    <2>1. /\ crush[p] \in 1 .. CrushFrames /\ crush'[p] \in 1 .. CrushFrames
          /\ crush'[p] >= crush[p]
      BY <1>4 DEF Core, Orderly
    <2>2. /\ Where[p] = IF crush[p] = CrushFrames THEN "crushed" ELSE "crushing"
          /\ Where'[p] = IF crush'[p] = CrushFrames THEN "crushed" ELSE "crushing"
      BY <1>4, <2>1 DEF Where
    <2> QED
      BY <2>1, <2>2, <1>1
  <1>5. CASE p \in shown /\ p \in shown' /\ crush[p] = 0
    <2>1. Where[p] = IF podGrabOwnerById[p] # NoHand THEN podGrabOwnerById[p]
                     ELSE "free"
      BY <1>5 DEF Where
    <2>2. Where[p] \in Hands \cup {"free"}
      BY <2>1 DEF Core
    <2>3. CASE crush'[p] = 1
      <3>1. Where'[p] = "crushing"
        BY <1>5, <2>3 DEF Where
      <3> QED
        BY <2>2, <3>1
    <2>4. CASE crush'[p] = 0
      <3>1. Where'[p] = IF podGrabOwnerById'[p] # NoHand THEN podGrabOwnerById'[p]
                        ELSE "free"
        BY <1>5, <2>4 DEF Where
      <3>2. podGrabOwnerById'[p] \in {podGrabOwnerById[p], NoHand}
                \/ podGrabOwnerById[p] = NoHand
        BY <1>5 DEF Orderly
      <3>3. podGrabOwnerById'[p] \in Hands \cup {NoHand}
        BY DEF Core
      <3>4. Where'[p] = Where[p] \/ Where'[p] = "free" \/ Where[p] = "free"
        BY <2>1, <3>1, <3>2
      <3>5. Where'[p] \in Hands \cup {"free"}
        BY <3>1, <3>3
      <3> QED
        BY <1>1, <2>2, <3>4, <3>5
    <2> QED
      BY <1>5, <2>3, <2>4 DEF Orderly
  <1> QED
    BY <1>2, <1>3, <1>4, <1>5 DEF Core

(* The scene implements the abstract board.                                *)
THEOREM Refinement == Spec => ImplementsBoard
  <1>1. Init => Board!Init
    BY DEF Init, Board!Init, Where
  <1>2. ASSUME IInv, [Next]_vars
        PROVE  Board!Next
    <2>1. Core /\ Core' /\ Orderly
      BY <1>2, Inductive DEF IInv
    <2>2. Where' \in [Pods -> Board!Places]
      BY <2>1, Placed DEF Where, Core, Board!Places, Hands, NoHand
    <2>3. \A p \in Pods : <<Where[p], Where'[p]>> \in Board!Moves
      BY <2>1, MovesInOrder
    <2>4. \A p, q \in Pods : Where'[p] = Where'[q] /\ Where'[p] \in Hands => p = q
      <3> SUFFICES ASSUME NEW p \in Pods, NEW q \in Pods,
                          Where'[p] = Where'[q], Where'[p] \in Hands
                   PROVE p = q
        OBVIOUS
      <3>1. podGrabOwnerById'[p] = Where'[p] /\ podGrabOwnerById'[q] = Where'[p]
        BY DEF Where, Hands
      <3> QED
        BY <2>1, <3>1 DEF Core, OneHandPerPod
    <2> QED
      BY <2>2, <2>3, <2>4 DEF Board!Next
  <1> QED
    BY <1>1, <1>2, Invariance, PTL DEF Spec, ImplementsBoard, Board!Spec
=============================================================================
