------------------------------ MODULE PodScene ------------------------------
(***************************************************************************)
(* The pods on the board, the hands that grab and crush them and the       *)
(* controls on the wrist (apps/frontend-webxr/src/scene.ts), with the      *)
(* reports the scene makes to the client (main.ts).                        *)
(*                                                                         *)
(* The browser runs one task at a time.  A frame (renderFrame) is one task *)
(* and calls back into the client, which calls back into the scene; here   *)
(* it is a sequence of steps, one for each method, and "step" names the    *)
(* next one.  Every other task happens between frames ("idle").            *)
(*                                                                         *)
(* What the physics and the joints of a hand come to is an input: which    *)
(* pods lie below the table, which colliders touch, which pose a hand has. *)
(* Times are inputs too: whether the 180 ms of grace of a lost pinch, or   *)
(* the 1200 ms between two disconnects, are over.  The pose of a hand and  *)
(* its candidate are written by each WebXR frame before it reads them, and *)
(* are forgotten at its end.                                               *)
(*                                                                         *)
(* Meshes are kept by update() in step with the pods the store shows, so   *)
(* "shown" stands for both.  CrushFrames is the number of frames a crush   *)
(* takes (POD_CRUSH_DURATION).                                             *)
(***************************************************************************)
EXTENDS Naturals, FiniteSets

CONSTANTS Pods, NoPod, CrushFrames

ASSUME PodSceneAssumption ==
    /\ NoPod \notin Pods
    /\ CrushFrames \in Nat /\ CrushFrames > 1

Hands  == {"left", "right"}
NoHand == "neither"

VARIABLES
    playing,        \* the game: not begun, with or without a socket
    shown,          \* pods of the store neither GONE nor eliminated; meshById
    world,          \* physicsWorld exists
    body,           \* podPhysicsById: the type of the pod's rigid body
    crush,          \* crushProgress in frames; CrushFrames is crushReported
    fallReported, podGrabOwnerById, activePalmContacts,
    grabbedPodId, pinchCandidateId,
    pose,           \* openPalm, pinchActive, gustPoseActive of each hand
    posed,          \* hands whose joints are all known in this frame
    hudSliderActiveHand, tableMoveMode, tableMoveAwaitingConfirmRelease,
    pinchLatch,
    xr,             \* the WebXR session; it presents while "on" or "ending"
    leaving,        \* disconnectSession awaits its end
    step,           \* the next step of the frame
    completedCrushes

pods   == <<shown, body, crush, fallReported, activePalmContacts>>
grips  == <<podGrabOwnerById, grabbedPodId>>
inputs == <<pinchCandidateId, pose, posed>>
table  == <<tableMoveMode, tableMoveAwaitingConfirmRelease>>
wrist  == <<hudSliderActiveHand, table, pinchLatch>>
client == <<playing, xr, leaving>>
vars   == <<pods, grips, inputs, wrist, client, world, step, completedCrushes>>

Init ==
    /\ playing = "no" /\ xr = "off" /\ leaving = FALSE
    /\ shown = {} /\ world = FALSE
    /\ body = [p \in Pods |-> "none"] /\ crush = [p \in Pods |-> 0]
    /\ fallReported = {} /\ activePalmContacts = {}
    /\ podGrabOwnerById = [p \in Pods |-> NoHand]
    /\ grabbedPodId = [h \in Hands |-> NoPod]
    /\ pose = [h \in Hands |-> {}] /\ posed = {}
    /\ pinchCandidateId = [h \in Hands |-> NoPod]
    /\ hudSliderActiveHand = NoHand /\ pinchLatch = FALSE
    /\ tableMoveMode = FALSE /\ tableMoveAwaitingConfirmRelease = FALSE
    /\ step = "idle" /\ completedCrushes = {}

----------------------------------------------------------------------------
(* Parts of the steps.                                                     *)

IsPresenting  == xr \in {"on", "ending"}
Interactable  == {p \in shown : crush[p] = 0}
HeldBy(hs)    == {p \in Pods : \E h \in hs : grabbedPodId[h] = p}
OwnersOf(ps)  == {h \in Hands : \E p \in ps : podGrabOwnerById[p] = h}
Contacts(hs)  == {c \in activePalmContacts : c[1] \in hs}

(* releaseGrab, but for the bodies.                                        *)
LetGo(hs) ==
    /\ grabbedPodId' = [h \in Hands |-> IF h \in hs THEN NoPod
                                        ELSE grabbedPodId[h]]
    /\ podGrabOwnerById' = [p \in Pods |-> IF p \in HeldBy(hs) THEN NoHand
                                           ELSE podGrabOwnerById[p]]

(* Mutant: the body keeps its type.                                        *)
Freed_AsIs(hs) == body

(* The bodies after releaseGrab: pods let go are dynamic again.            *)
Freed(hs) == [p \in Pods |-> IF p \in HeldBy(hs) /\ body[p] # "none"
                             THEN "dynamic" ELSE body[p]]

ReleaseGrab(hs) == LetGo(hs) /\ body' = Freed(hs)

(* startPodCrush of pods with a body, not being crushed already: a hand    *)
(* that holds one lets it go, and it no longer moves.                      *)
StartPodCrush(ps) ==
    /\ LetGo(OwnersOf(ps))
    /\ body' = [p \in Pods |-> IF p \in ps THEN "kinematic"
                               ELSE Freed(OwnersOf(ps))[p]]
    /\ crush' = [p \in Pods |-> IF p \in ps THEN 1 ELSE crush[p]]

(* createPodPhysics of pod p, which may have a body already, or no world.  *)
Spawned(p) == IF world /\ body[p] = "none" THEN "dynamic" ELSE body[p]

(* Mutant: the palms' contacts with the pods are not forgotten.            *)
RemovePodEntries_KeepContacts(gone) ==
    /\ LetGo(OwnersOf(gone))
    /\ crush' = [p \in Pods |-> IF p \in gone THEN 0 ELSE crush[p]]
    /\ fallReported' = fallReported \ gone
    /\ UNCHANGED activePalmContacts

(* removePodEntry of each of these pods.                                   *)
RemovePodEntries(gone) ==
    /\ LetGo(OwnersOf(gone))
    /\ crush' = [p \in Pods |-> IF p \in gone THEN 0 ELSE crush[p]]
    /\ fallReported' = fallReported \ gone
    /\ activePalmContacts' = {c \in activePalmContacts : c[2] \notin gone}

(* update() with the pods of the store that are on the board now: the      *)
(* others are removed, new ones are spawned.                               *)
Update(new) ==
    /\ shown' = new
    /\ RemovePodEntries(shown \ new)
    /\ body' = [p \in Pods |-> IF p \in new THEN Spawned(p)
                               ELSE IF p \in shown THEN "none" ELSE body[p]]

(* clearHandState, with the hands' contacts if "contacts".                 *)
ClearHandState(hs, contacts) ==
    /\ ReleaseGrab(hs)
    /\ activePalmContacts' = IF contacts
                             THEN activePalmContacts \ Contacts(hs)
                             ELSE activePalmContacts

StopTableControls ==
    /\ hudSliderActiveHand' = NoHand
    /\ tableMoveMode' = FALSE
    /\ tableMoveAwaitingConfirmRelease' = FALSE

ForgetInputs ==
    /\ pose' = [h \in Hands |-> {}]
    /\ posed' = {}
    /\ pinchCandidateId' = [h \in Hands |-> NoPod]

(* scene.reset().                                                          *)
Reset ==
    /\ shown' = {}
    /\ body' = [p \in Pods |-> "none"] /\ crush' = [p \in Pods |-> 0]
    /\ fallReported' = {} /\ activePalmContacts' = {}
    /\ podGrabOwnerById' = [p \in Pods |-> NoHand]
    /\ grabbedPodId' = [h \in Hands |-> NoPod]
    /\ pinchLatch' = FALSE
    /\ StopTableControls

----------------------------------------------------------------------------
(* Tasks between frames.                                                   *)

(* initializePhysics: pods that are shown already get their bodies.        *)
InitializePhysics ==
    /\ step = "idle" /\ ~world
    /\ world' = TRUE
    /\ body' = [p \in Pods |-> IF p \in shown THEN "dynamic" ELSE body[p]]
    /\ UNCHANGED <<shown, crush, fallReported, activePalmContacts, grips,
                   inputs, wrist, client, step, completedCrushes>>

(* A pod of the store appears on the board, or somebody else made it GONE; *)
(* pods arrive by the socket before the session is known, too.  While the  *)
(* client leaves, both may come from a new attempt to play.                *)
StoreChanges ==
    /\ step = "idle" /\ playing # "offline"
    /\ \E p \in Pods : Update(IF p \in shown THEN shown \ {p}
                              ELSE shown \cup {p})
    /\ UNCHANGED <<inputs, wrist, client, world, step, completedCrushes>>

(* hydrateSnapshot: the session is known, its pods replace what is shown.  *)
(* The socket may have closed by then (Frontend's PlayingIsConnected).     *)
Hydrate ==
    /\ step = "idle" /\ playing = "no"
    /\ playing' \in {"online", "offline"}
    /\ \E new \in SUBSET Pods : Update(new)
    /\ UNCHANGED <<inputs, wrist, xr, leaving, world, step,
                   completedCrushes>>

(* The socket closed, or a new attempt begins: the scene is reset.  The    *)
(* handler of the former asks WebXR to end and does not wait for it.       *)
ConnectionEnds ==
    /\ step = "idle"
    /\ playing' = "no"
    /\ Reset
    /\ xr' \in {xr, IF xr = "on" THEN "ending" ELSE xr}
    /\ UNCHANGED <<inputs, leaving, world, step, completedCrushes>>

(* disconnectSession by the button of the page: WebXR is ended first.      *)
DisconnectClicked ==
    /\ step = "idle" /\ playing # "no"
    /\ \/ /\ xr \in {"off", "ended"}
          /\ playing' = "no"
          /\ Reset
          /\ UNCHANGED <<xr, leaving>>
       \/ /\ xr = "on"
          /\ xr' = "ending" /\ leaving' = TRUE
          /\ UNCHANGED <<playing, pods, grips, wrist>>
    /\ UNCHANGED <<inputs, world, step, completedCrushes>>

(* enterXR once the headset has granted the session, whatever the client   *)
(* does by then.                                                           *)
EnterXR ==
    /\ step = "idle" /\ xr = "off"
    /\ xr' = "on"
    /\ UNCHANGED <<pods, grips, inputs, wrist, playing, leaving, world, step,
                   completedCrushes>>

(* handleXREnd: the headset ended the session.                             *)
HandleXREnd ==
    /\ step = "idle" /\ xr = "on"
    /\ xr' = "off"
    /\ pinchLatch' = FALSE
    /\ StopTableControls
    /\ ClearHandState(Hands, TRUE)
    /\ UNCHANGED <<shown, crush, fallReported, inputs, playing, leaving,
                   world, step, completedCrushes>>

(* A session that exitXR ends (it has removed handleXREnd) presents no     *)
(* more ...                                                                *)
SessionEnds ==
    /\ step = "idle" /\ xr = "ending"
    /\ xr' = "ended"
    /\ UNCHANGED <<pods, grips, inputs, wrist, playing, leaving, world, step,
                   completedCrushes>>

(* ... and exitXR goes on, and disconnectSession if it waits for it.       *)
ExitXR ==
    /\ step = "idle" /\ xr = "ended"
    /\ xr' = "off" /\ leaving' = FALSE
    /\ IF leaving
       THEN Reset /\ playing' = "no"
       ELSE StopTableControls /\ UNCHANGED <<pods, grips, pinchLatch, playing>>
    /\ UNCHANGED <<inputs, world, step, completedCrushes>>

(* handleDesktopPointerDown on the pod under the reticle.                  *)
DesktopClick ==
    /\ step = "idle" /\ playing # "no" /\ xr = "off"
    /\ \E p \in Interactable :
           /\ body[p] # "none"
           /\ StartPodCrush({p})
    /\ UNCHANGED <<shown, fallReported, activePalmContacts, inputs, wrist,
                   client, world, step, completedCrushes>>

----------------------------------------------------------------------------
(* The frame.                                                              *)

AfterSimulation == IF IsPresenting THEN "hands" ELSE "flat"

(* updateSimulation, first loop: crushes advance.                          *)
AdvanceCrushes ==
    /\ step = "idle" /\ world
    /\ LET running == {p \in shown : crush[p] \in 1 .. CrushFrames - 1} IN
       /\ crush' = [p \in Pods |-> IF p \in running THEN crush[p] + 1
                                   ELSE crush[p]]
       /\ completedCrushes' = {p \in running : crush[p] + 1 = CrushFrames}
    /\ step' = "falls"
    /\ UNCHANGED <<shown, body, fallReported, activePalmContacts, grips,
                   inputs, wrist, client, world>>

(* updateSimulation without a world.                                       *)
SkipSimulation ==
    /\ step = "idle" /\ ~world
    /\ step' = AfterSimulation
    /\ UNCHANGED <<pods, grips, inputs, wrist, client, world,
                   completedCrushes>>

(* Second loop: each pod found below the table calls onPodFall, once; held *)
(* pods may be there as well.  reportPodGone takes it off the board, but   *)
(* only if there are a session and a socket.                               *)
ReportFalls ==
    /\ step = "falls"
    /\ \E below \in SUBSET {p \in shown \ fallReported : body[p] # "none"} :
           IF playing = "online"
           THEN Update(shown \ below)
           ELSE /\ fallReported' = fallReported \cup below
                /\ UNCHANGED <<shown, body, crush, activePalmContacts, grips>>
    /\ step' = "hits"
    /\ UNCHANGED <<inputs, wrist, client, world, completedCrushes>>

(* Mutant: hits are only reported from WebXR, not those of the mouse.       *)
ReportHits_InWebXR ==
    /\ step = "hits"
    /\ IF playing = "online" /\ IsPresenting
       THEN Update(shown \ completedCrushes)
       ELSE UNCHANGED <<pods, grips>>
    /\ completedCrushes' = {}
    /\ step' = AfterSimulation
    /\ UNCHANGED <<inputs, wrist, client, world>>

(* The completed crushes call onHit; their pods may have fallen before.    *)
ReportHits ==
    /\ step = "hits"
    /\ IF playing = "online"
       THEN Update(shown \ completedCrushes)
       ELSE UNCHANGED <<pods, grips>>
    /\ completedCrushes' = {}
    /\ step' = AfterSimulation
    /\ UNCHANGED <<inputs, wrist, client, world>>

(* The rest of a frame outside WebXR.                                      *)
FlatFrame ==
    /\ step = "flat"
    /\ ClearHandState(Hands, TRUE)
    /\ tableMoveMode' = FALSE /\ tableMoveAwaitingConfirmRelease' = FALSE
    /\ pinchLatch' = FALSE
    /\ step' = "idle"
    /\ UNCHANGED <<shown, crush, fallReported, hudSliderActiveHand, inputs,
                   client, world, completedCrushes>>

(* updateWristHud when the device gives no joints.                         *)
NoJoints ==
    /\ step = "hands"
    /\ ClearHandState(Hands, TRUE)
    /\ step' = "idle"
    /\ UNCHANGED <<shown, crush, fallReported, wrist, inputs, client, world,
                   completedCrushes>>

(* updateHandPhysicsFromJoints: an open palm may be a gust pose, and the   *)
(* tips may touch with all fingers stretched.                              *)
Poses == {{}, {"pinch"}, {"open"}, {"open", "pinch"}, {"open", "gust"},
          {"open", "gust", "pinch"}}
Pinches(h) == "pinch" \in pose[h]

(* findPinchCandidate.                                                     *)
PinchCandidates(poses, h) ==
    IF "pinch" \in poses[h]
    THEN {NoPod} \cup {p \in Interactable : body[p] # "none"}
    ELSE {NoPod}

(* updateWristHud up to the candidates.  A hand without all its joints, or *)
(* not there at all, is cleared; a slider dragged by a hand that is not    *)
(* there is let go.                                                        *)
TrackHands ==
    /\ step = "hands"
    /\ \E seen \in SUBSET Hands :
       \E poses \in [Hands -> Poses] :
           /\ \A h \in Hands \ seen : poses[h] = {}
           /\ posed' = seen
           /\ pose' = poses
           /\ pinchCandidateId' \in
                  {c \in [Hands -> {NoPod} \cup Pods] :
                       \A h \in Hands : c[h] \in PinchCandidates(poses, h)}
           /\ ClearHandState(Hands \ seen, TRUE)
           /\ hudSliderActiveHand' \in IF "left" \in seen
                    THEN {hudSliderActiveHand}
                         \cup (IF hudSliderActiveHand \in seen THEN {} ELSE {NoHand})
                    ELSE {NoHand}
    /\ step' = "slider"
    /\ UNCHANGED <<shown, crush, fallReported, table, pinchLatch, client,
                   world, completedCrushes>>

(* updateTableHeightSliderInteraction: a hand that pinches the slider, and *)
(* no other once it is dragged, adjusts the height.                        *)
TableHeightSlider ==
    /\ step = "slider"
    /\ \/ /\ hudSliderActiveHand' = NoHand
          /\ UNCHANGED pinchCandidateId
       \/ \E h \in posed :
              /\ ~tableMoveMode /\ "left" \in posed /\ world
              /\ hudSliderActiveHand \in {NoHand, h} /\ Pinches(h)
              /\ hudSliderActiveHand' = h
              /\ pinchCandidateId' = [pinchCandidateId EXCEPT ![h] = NoPod]
    /\ step' = "table"
    /\ UNCHANGED <<pods, grips, pose, posed, table, pinchLatch, client, world,
                   completedCrushes>>

(* updateTableMoveInteraction: the board follows the right hand; a pinch   *)
(* that is not the one that began it confirms.                             *)
MoveTable ==
    /\ step = "table"
    /\ IF tableMoveMode /\ world /\ "right" \in posed
       THEN /\ pinchCandidateId' = [pinchCandidateId EXCEPT !["right"] = NoPod]
            /\ tableMoveAwaitingConfirmRelease' =
                   (tableMoveAwaitingConfirmRelease /\ Pinches("right"))
            /\ tableMoveMode' =
                   (Pinches("right") => tableMoveAwaitingConfirmRelease)
       ELSE UNCHANGED <<pinchCandidateId, table>>
    /\ step' = "left"
    /\ UNCHANGED <<pods, grips, pose, posed, hudSliderActiveHand, pinchLatch,
                   client, world, completedCrushes>>

(* Mutant: a hand takes the pod the other one holds.                       *)
Grab_Any(h) ==
    LET p == pinchCandidateId[h] IN
    /\ grabbedPodId[h] = NoPod /\ Pinches(h) /\ p # NoPod
    /\ body[p] # "none"
    /\ grabbedPodId' = [grabbedPodId EXCEPT ![h] = p]
    /\ podGrabOwnerById' = [podGrabOwnerById EXCEPT ![p] = h]
    /\ body' = [body EXCEPT ![p] = "kinematic"]

(* updateGrabInteraction: the hand takes its candidate if no other hand    *)
(* holds it.                                                               *)
Grab(h) ==
    LET p == pinchCandidateId[h] IN
    /\ grabbedPodId[h] = NoPod /\ Pinches(h) /\ p # NoPod
    /\ podGrabOwnerById[p] \in {NoHand, h} /\ body[p] # "none"
    /\ grabbedPodId' = [grabbedPodId EXCEPT ![h] = p]
    /\ podGrabOwnerById' = [podGrabOwnerById EXCEPT ![p] = h]
    /\ body' = [body EXCEPT ![p] = "kinematic"]

(* It lets go of its pod for the slider, or when the pinch is lost and the *)
(* grace is over.                                                          *)
Release(h) ==
    /\ grabbedPodId[h] # NoPod
    /\ \/ hudSliderActiveHand = h \/ ~Pinches(h)
       \/ body[grabbedPodId[h]] = "none"
    /\ ReleaseGrab({h})

Keep(h) ==
    /\ IF grabbedPodId[h] # NoPod
       THEN hudSliderActiveHand # h /\ body[grabbedPodId[h]] # "none"
       ELSE hudSliderActiveHand = h \/ ~Pinches(h)
                \/ pinchCandidateId[h] \notin
                       {p \in Pods : podGrabOwnerById[p] \in {NoHand, h}}
    /\ UNCHANGED <<grips, body>>

UpdateGrab(h) ==
    \/ hudSliderActiveHand # h /\ Grab(h)
    \/ Release(h)
    \/ Keep(h)

UpdateGrabLeft ==
    /\ step = "left"
    /\ UpdateGrab("left")
    /\ step' = "right"
    /\ UNCHANGED <<shown, crush, fallReported, activePalmContacts, inputs,
                   wrist, client, world, completedCrushes>>

(* The right hand is busy while the table is moved.                        *)
UpdateGrabRight ==
    /\ step = "right"
    /\ IF tableMoveMode THEN UNCHANGED <<grips, body>> ELSE UpdateGrab("right")
    /\ step' = "leftPalm"
    /\ UNCHANGED <<shown, crush, fallReported, activePalmContacts, inputs,
                   wrist, client, world, completedCrushes>>

CanCrush(h) ==
    /\ "open" \in pose[h] /\ "gust" \notin pose[h] /\ grabbedPodId[h] = NoPod
    /\ h = "right" => ~tableMoveMode

(* Mutant: a pod that is being crushed is crushed again.                   *)
PalmContacts_Again(h) ==
    /\ \E touched \in SUBSET {<<h, p>> : p \in {q \in shown : body[q] # "none"}} :
           /\ touched # {} => CanCrush(h)
           /\ activePalmContacts' =
                  (activePalmContacts \ Contacts({h})) \cup touched
           /\ StartPodCrush({p \in shown :
                                <<h, p>> \in touched \ activePalmContacts})
    /\ UNCHANGED <<shown, fallReported, inputs, wrist, client, world,
                   completedCrushes>>

(* processOpenPalmContacts.  A palm crushes the pods it has begun to       *)
(* touch; a hand that holds, waves or is closed touches nothing.           *)
PalmContacts(h) ==
    /\ \E touched \in SUBSET {<<h, p>> : p \in {q \in shown : body[q] # "none"}} :
           /\ touched # {} => CanCrush(h)
           /\ activePalmContacts' =
                  (activePalmContacts \ Contacts({h})) \cup touched
           /\ StartPodCrush({p \in Interactable :
                                <<h, p>> \in touched \ activePalmContacts})
    /\ UNCHANGED <<shown, fallReported, inputs, wrist, client, world,
                   completedCrushes>>

LeftPalm  == step = "leftPalm" /\ PalmContacts("left") /\ step' = "rightPalm"
RightPalm == step = "rightPalm" /\ PalmContacts("right") /\ step' = "buttons"

(* Mutant: the right hand keeps what it holds.                             *)
StartTableMoveMode_Holding ==
    /\ tableMoveMode' = TRUE /\ tableMoveAwaitingConfirmRelease' = TRUE
    /\ hudSliderActiveHand' = NoHand
    /\ UNCHANGED <<grips, body>>

StartTableMoveMode ==
    /\ tableMoveMode' = TRUE /\ tableMoveAwaitingConfirmRelease' = TRUE
    /\ hudSliderActiveHand' = NoHand
    /\ ReleaseGrab({"right"})

(* The buttons of the wrist.  A pinch works once: a hand has to leave the  *)
(* buttons or to open before another does.  Disconnecting a session that   *)
(* ends already rejects.                                                   *)
Buttons ==
    /\ step = "buttons"
    /\ \E move, disconnect \in BOOLEAN :
       LET pinched == \E h \in posed : Pinches(h)
           pressed == pinched /\ ~pinchLatch IN
       /\ (move \/ disconnect) => posed # {}
       /\ pinchLatch' = ((move \/ disconnect) /\ pinched)
       /\ \/ /\ move /\ pressed
             /\ StartTableMoveMode
             /\ UNCHANGED <<xr, leaving>>
          \/ /\ ~move /\ disconnect /\ pressed /\ xr = "on"
             /\ xr' = "ending" /\ leaving' = TRUE
             /\ UNCHANGED <<grips, body, hudSliderActiveHand, table>>
          \/ /\ ~(move /\ pressed)
             /\ UNCHANGED <<grips, body, hudSliderActiveHand, table, xr,
                            leaving>>
    /\ ForgetInputs
    /\ step' = "idle"
    /\ UNCHANGED <<shown, crush, fallReported, activePalmContacts, playing,
                   world, completedCrushes>>

----------------------------------------------------------------------------
Task == \/ InitializePhysics \/ StoreChanges \/ Hydrate \/ ConnectionEnds
        \/ DisconnectClicked \/ EnterXR \/ HandleXREnd \/ SessionEnds
        \/ ExitXR \/ DesktopClick

RenderFrame == \/ AdvanceCrushes \/ SkipSimulation \/ ReportFalls
               \/ ReportHits \/ FlatFrame \/ NoJoints \/ TrackHands
               \/ TableHeightSlider \/ MoveTable \/ UpdateGrabLeft
               \/ UpdateGrabRight \/ LeftPalm \/ RightPalm \/ Buttons

Next == Task \/ RenderFrame

Spec == Init /\ [][Next]_vars

----------------------------------------------------------------------------
(* Properties.                                                             *)

Steps == {"idle", "falls", "hits", "flat", "hands", "slider", "table", "left",
          "right", "leftPalm", "rightPalm", "buttons"}

(* Every variable has its type, and nothing but the pods on the board has  *)
(* a body, is crushed or counts as fallen.                                 *)
TypeOK ==
    /\ playing \in {"no", "offline", "online"}
    /\ shown \subseteq Pods /\ world \in BOOLEAN
    /\ body \in [Pods -> {"none", "dynamic", "kinematic"}]
    /\ crush \in [Pods -> 0 .. CrushFrames]
    /\ fallReported \subseteq shown
    /\ \A p \in Pods : body[p] # "none" <=> (p \in shown /\ world)
    /\ \A p \in Pods : crush[p] > 0 => body[p] # "none"
    /\ activePalmContacts \subseteq Hands \X Pods
    /\ podGrabOwnerById \in [Pods -> Hands \cup {NoHand}]
    /\ grabbedPodId \in [Hands -> Pods \cup {NoPod}]
    /\ pinchCandidateId \in [Hands -> Pods \cup {NoPod}]
    /\ pose \in [Hands -> Poses] /\ posed \subseteq Hands
    /\ hudSliderActiveHand \in Hands \cup {NoHand}
    /\ tableMoveMode \in BOOLEAN /\ tableMoveAwaitingConfirmRelease \in BOOLEAN
    /\ pinchLatch \in BOOLEAN /\ leaving \in BOOLEAN
    /\ xr \in {"off", "on", "ending", "ended"}
    /\ step \in Steps /\ completedCrushes \subseteq Pods

(* The two maps of grabs agree: a hand holds the pod it owns and no other, *)
(* and no pod follows two hands (scene.ts:3416).  They are changed apart,  *)
(* by grabbing, lost tracking, crushing, removal and resets.               *)
OneHandPerPod ==
    \A h \in Hands, p \in Pods :
        grabbedPodId[h] = p <=> podGrabOwnerById[p] = h

(* A body the physics does not move is held or being crushed: no path      *)
(* leaves a pod frozen on the board, or lets a crushed one fall on         *)
(* (scene.ts:3313, 3440 and 3486).                                         *)
FrozenForAReason ==
    \A p \in Pods :
        body[p] = "kinematic" <=> (podGrabOwnerById[p] # NoHand \/ crush[p] > 0)

(* A pod that is being crushed is in no hand: letting go of it would make  *)
(* its body fall while it is squashed, and it would be reported twice.     *)
HeldIsWhole == \A p \in Pods : podGrabOwnerById[p] # NoHand => crush[p] = 0

(* A palm that is in contact with a pod has crushed it: a new pod is not   *)
(* spared because an older one of its name was touched (scene.ts:1516).    *)
TouchedIsCrushed == \A c \in activePalmContacts : crush[c[2]] > 0

(* The hand that moves the table moves neither a pod nor the slider, and a *)
(* hand on the slider holds no pod once the grabs are updated              *)
(* (scene.ts:1930, 3228 and 3356).                                         *)
OneThingPerHand ==
    /\ tableMoveMode => /\ grabbedPodId["right"] = NoPod
                        /\ hudSliderActiveHand = NoHand
    /\ (step \in {"leftPalm", "rightPalm", "buttons", "idle"}
            /\ hudSliderActiveHand # NoHand)
         => grabbedPodId[hudSliderActiveHand] = NoPod

(* Pods whose fall or crush was announced but that are still there; they   *)
(* are never announced again, and nothing can be done with a crushed one.  *)
Unheard ==
    {p \in shown : p \in fallReported
                      \/ (crush[p] = CrushFrames /\ p \notin completedCrushes)}

(* While the client plays with a socket no announced death is lost, though *)
(* one frame may announce a fall and a crush of the same pod, and removals *)
(* happen while the bodies are iterated (scene.ts:2357 and 2364).          *)
NoReportLost == [][playing = "online" => Unheard' \subseteq Unheard]_vars

(* Where each pod is, for the abstract board.                              *)
Where == [p \in Pods |->
    IF p \notin shown THEN "off"
    ELSE IF crush[p] = CrushFrames THEN "crushed"
    ELSE IF crush[p] > 0 THEN "crushing"
    ELSE IF podGrabOwnerById[p] # NoHand THEN podGrabOwnerById[p] ELSE "free"]

Board == INSTANCE BoardPod WITH where <- Where

(* The scene keeps the board's promise: crushes are never called off, held *)
(* pods are let go or crushed, one hand holds one pod.                     *)
ImplementsBoard == Board!Spec
=============================================================================
