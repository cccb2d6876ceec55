----------------------------- MODULE SceneModes -----------------------------
(***************************************************************************)
(* The modes of the browser client (apps/frontend-webxr/src/scene.ts and   *)
(* main.ts): the mouse and keyboard of the desktop scene, the pointer      *)
(* lock, the start and the end of a WebXR session, the outline of the pod  *)
(* that is aimed at, the frame statistics and the wrist HUD.               *)
(*                                                                         *)
(* One task of the browser is one step.  Every change of the store calls   *)
(* the subscriber of main.ts, which tells the scene whether the desktop    *)
(* scene is active and redraws the HUD; so "Emit" is part of the steps.    *)
(* Requests (WebXR, pointer lock) and the end of a WebXR session are       *)
(* answered later, in a step of their own.                                 *)
(*                                                                         *)
(* Which pod the ray of the reticle or a fingertip meets is an input.  The *)
(* physics world exists.  There are at most MaxRuns WebXR sessions, a      *)
(* bound; HudInterval is HUD_REDRAW_INTERVAL_MS in frames.                 *)
(***************************************************************************)
EXTENDS Naturals

CONSTANTS Pods, NoPod, Keys, MaxRuns, HudInterval

ASSUME SceneModesAssumption ==
    /\ NoPod \notin Pods
    /\ MaxRuns \in Nat /\ HudInterval \in Nat \ {0}

Runs == 1 .. MaxRuns

VARIABLES
    playing, xrActive,             \* of the store
    shown, crushing,               \* meshById, and those being crushed
    desktopInputActive, desktopPressedKeys, desktopLookActive,
    desktopTargetPodId, fingertipTargetId,
    outlined,                      \* the pod whose outline is visible
    down, rightDown,               \* keys and right button that are held
    swallowed,                     \* history: releases that were ignored
    lock,                          \* pointer lock: free, asked, locked, leaving
    lateLock,                      \* history: granted to an inactive scene?
    xr,                            \* off, asked, on, ending, ended
    leaving,                       \* disconnectSession awaits exitXR
    run,                           \* history: number of the WebXR session
    pendingGpuTimerQueries,        \* the sessions whose queries wait
    statsFrom,                     \* sessions averaged in the frame statistics
    hudBehind, hudWait             \* HUD not redrawn; frames until it may be

store   == <<playing, xrActive>>
board   == <<shown, crushing>>
desktop == <<desktopInputActive, desktopPressedKeys, desktopLookActive,
             desktopTargetPodId>>
marks   == <<fingertipTargetId, outlined>>
player  == <<down, rightDown, swallowed>>
locks   == <<lock, lateLock>>
webxr   == <<xr, leaving, run>>
stats   == <<pendingGpuTimerQueries, statsFrom>>
hud     == <<hudBehind, hudWait>>
vars    == <<store, board, desktop, marks, player, locks, webxr, stats, hud>>

IsXRPresenting       == xr \in {"on", "ending"}
IsDesktopSceneActive == desktopInputActive /\ ~IsXRPresenting
IsPointerLocked      == lock \in {"locked", "leaving"}

Init ==
    /\ playing = FALSE /\ xrActive = FALSE
    /\ shown = {} /\ crushing = {}
    /\ desktopInputActive = FALSE /\ desktopPressedKeys = {}
    /\ desktopLookActive = FALSE /\ desktopTargetPodId = NoPod
    /\ fingertipTargetId = NoPod /\ outlined = NoPod
    /\ down = {} /\ rightDown = FALSE /\ swallowed = {}
    /\ lock = "free" /\ lateLock = FALSE
    /\ xr = "off" /\ leaving = FALSE /\ run = 0
    /\ pendingGpuTimerQueries = {} /\ statsFrom = {}
    /\ hudBehind = FALSE /\ hudWait = 0

----------------------------------------------------------------------------
(* Parts of the steps.                                                     *)

(* updatePointingHighlights when "aim" is aimed at.                        *)
Outline(aim) ==
    outlined' = IF aim \in shown' \ crushing' THEN aim ELSE NoPod

(* Mutant: a lock that is held is kept.                                    *)
ExitPointerLock_Not == UNCHANGED lock

ExitPointerLock == lock' = IF lock = "locked" THEN "leaving" ELSE lock

(* The scene forgets the keys, the look and the target.                    *)
ForgetInput ==
    /\ desktopPressedKeys' = {}
    /\ desktopLookActive' = FALSE
    /\ desktopTargetPodId' = NoPod

(* removePodEntry of pods "gone": they are no longer the target.           *)
KeptTarget(gone) == IF desktopTargetPodId \in gone THEN NoPod
                    ELSE desktopTargetPodId

(* Mutant: the scene does not know that WebXR is active.                   *)
DesktopSceneActive_NoXR(nowPlaying, nowXR) == nowPlaying

(* What the subscriber passes to setDesktopActive.                         *)
DesktopSceneActive(nowPlaying, nowXR) == nowPlaying /\ ~nowXR

(* refreshHud(true): the HUD is redrawn if its data have changed.          *)
RefreshHudNow ==
    /\ hudBehind' = FALSE
    /\ hudWait' \in {HudInterval} \cup (IF hudBehind THEN {} ELSE {hudWait})

(* The store changes and calls its subscriber: setDesktopActive, update()  *)
(* with pods "on", and setHudData.  The scene forgets the desktop input if *)
(* it becomes inactive, or if "forget".                                    *)
Emit(nowPlaying, nowXR, on, forget) ==
    /\ playing' = nowPlaying /\ xrActive' = nowXR
    /\ shown' = on /\ crushing' = crushing \cap on
    /\ desktopInputActive' = DesktopSceneActive(nowPlaying, nowXR)
    /\ IF desktopInputActive /\ ~desktopInputActive' THEN ExitPointerLock
       ELSE UNCHANGED lock
    /\ IF forget \/ (desktopInputActive /\ ~desktopInputActive')
       THEN ForgetInput
       ELSE /\ desktopTargetPodId' = KeptTarget(shown \ on)
            /\ UNCHANGED <<desktopPressedKeys, desktopLookActive>>
    /\ RefreshHudNow

ResetFrameStats == pendingGpuTimerQueries' = {} /\ statsFrom' = {}

(* scene.reset() with the change of the store that goes with it.           *)
ResetScene ==
    /\ playing' = FALSE /\ xrActive' = FALSE
    /\ shown' = {} /\ crushing' = {}
    /\ desktopInputActive' = FALSE
    /\ ForgetInput /\ ExitPointerLock
    /\ fingertipTargetId' = NoPod /\ outlined' = NoPod
    /\ ResetFrameStats
    /\ RefreshHudNow

----------------------------------------------------------------------------
(* The client.                                                             *)

(* hydrateSnapshot, or a pod that is pushed, reported or taken off.        *)
Hydrate ==
    /\ ~playing
    /\ \E on \in SUBSET Pods : Emit(TRUE, xrActive, on, FALSE)
    /\ Outline(IF IsXRPresenting THEN fingertipTargetId ELSE desktopTargetPodId')
    /\ UNCHANGED <<fingertipTargetId, player, lateLock, webxr, stats>>

StoreChanges ==
    /\ \E p \in Pods : Emit(playing, xrActive,
                            IF p \in shown THEN shown \ {p} ELSE shown \cup {p},
                            FALSE)
    /\ Outline(IF IsXRPresenting THEN fingertipTargetId ELSE desktopTargetPodId')
    /\ UNCHANGED <<fingertipTargetId, player, lateLock, webxr, stats>>

(* prepareSessionInitialization of a new attempt.                          *)
PrepareSession ==
    /\ ~playing
    /\ ResetScene
    /\ UNCHANGED <<player, lateLock, webxr>>

(* The socket closes, in a game or before it: the scene is reset, and      *)
(* exitXR is not waited for.                                               *)
OnClose ==
    /\ ResetScene
    /\ xr' = IF xr = "on" THEN "ending" ELSE xr
    /\ UNCHANGED <<player, lateLock, leaving, run>>

(* disconnectSession, by the page's button or, in WebXR, the wrist's.      *)
DisconnectSession ==
    /\ playing \/ xr = "on"
    /\ \/ ~IsXRPresenting /\ ResetScene /\ UNCHANGED webxr
       \/ /\ xr = "on"
          /\ xr' = "ending" /\ leaving' = TRUE
          /\ UNCHANGED <<store, board, desktop, marks, lock, stats, hud, run>>
    /\ UNCHANGED <<player, lateLock>>

----------------------------------------------------------------------------
(* WebXR.                                                                  *)

(* enterXR: the desktop input ends before the session is asked for.  A     *)
(* second request changes nothing else.                                    *)
EnterXR ==
    /\ playing /\ ~xrActive /\ xr \in {"off", "asked"}
    /\ run < MaxRuns
    /\ ForgetInput /\ ExitPointerLock
    /\ outlined' = IF desktopTargetPodId = NoPod THEN outlined ELSE NoPod
    /\ xr' = "asked"
    /\ UNCHANGED <<store, board, desktopInputActive, fingertipTargetId, player,
                   lateLock, leaving, run, stats, hud>>

(* The headset grants the session, whatever the client does by then ...    *)
SessionGranted ==
    /\ xr = "asked"
    /\ xr' = "on" /\ run' = run + 1
    /\ Emit(playing, TRUE, shown, FALSE)
    /\ Outline(fingertipTargetId)
    /\ UNCHANGED <<fingertipTargetId, player, lateLock, leaving, stats>>

(* ... or refuses it.                                                      *)
SessionRefused ==
    /\ xr = "asked"
    /\ xr' = "off"
    /\ UNCHANGED <<store, board, desktop, marks, player, locks, leaving, run,
                   stats, hud>>

(* Mutant: the statistics are kept.                                        *)
HandleXREnd_KeepsStats ==
    /\ xr = "on"
    /\ xr' = "off"
    /\ Emit(playing, FALSE, shown, TRUE)
    /\ fingertipTargetId' = NoPod
    /\ Outline(fingertipTargetId)
    /\ UNCHANGED <<player, lateLock, leaving, run, stats>>

(* handleXREnd, when the headset ends the session.  It still presents when *)
(* the store is changed; the fingertips are cleared after the outlines.    *)
HandleXREnd ==
    /\ xr = "on"
    /\ xr' = "off"
    /\ Emit(playing, FALSE, shown, TRUE)
    /\ Outline(fingertipTargetId)
    /\ fingertipTargetId' = NoPod
    /\ ResetFrameStats
    /\ UNCHANGED <<player, lateLock, leaving, run>>

(* The session that exitXR ends presents no more, and exitXR goes on; so   *)
(* does disconnectSession if it waits for it.                              *)
SessionEnds ==
    /\ xr = "ending"
    /\ xr' = "ended"
    /\ UNCHANGED <<store, board, desktop, marks, player, locks, leaving, run,
                   stats, hud>>

(* Mutant: the game goes on after WebXR has ended.                         *)
ExitXR_Only ==
    /\ xr = "ended"
    /\ xr' = "off" /\ leaving' = FALSE
    /\ Emit(playing, FALSE, shown, FALSE)
    /\ Outline(desktopTargetPodId')
    /\ ResetFrameStats
    /\ UNCHANGED <<fingertipTargetId, player, lateLock, run>>

ExitXR ==
    /\ xr = "ended"
    /\ xr' = "off" /\ leaving' = FALSE
    /\ \/ leaving /\ ResetScene
       \/ /\ ~leaving
          /\ Emit(playing, FALSE, shown, FALSE)
          /\ Outline(desktopTargetPodId')
          /\ ResetFrameStats
          /\ UNCHANGED fingertipTargetId
    /\ UNCHANGED <<player, lateLock, run>>

----------------------------------------------------------------------------
(* Frames.                                                                 *)

(* setDesktopTargetPod to pod t.                                           *)
SetDesktopTargetPod(t) ==
    /\ desktopTargetPodId' = t
    /\ IF t = desktopTargetPodId THEN UNCHANGED outlined ELSE Outline(t)

NextWait == IF hudWait = 0 THEN 0 ELSE hudWait - 1

(* A frame outside WebXR: the fingertips are cleared (clearHandState), and *)
(* the pod under the reticle becomes the target (updateDesktopTargeting).  *)
DesktopFrame ==
    /\ ~IsXRPresenting
    /\ fingertipTargetId' = NoPod
    /\ ResetFrameStats
    /\ UNCHANGED <<board, store, player, locks, webxr>>
    /\ \E t \in IF IsDesktopSceneActive THEN (shown \ crushing) \cup {NoPod}
                ELSE {NoPod} : SetDesktopTargetPod(t)
    /\ UNCHANGED <<desktopInputActive, desktopPressedKeys, desktopLookActive>>
    /\ IF desktopTargetPodId' # desktopTargetPodId THEN RefreshHudNow
       ELSE hudWait' = NextWait /\ UNCHANGED hudBehind

(* The frame is averaged in, its query is begun and ended, and queries     *)
(* that are answered are, too (pollGpuTimerQueries), unless thrown away.   *)
RecordFrameStats ==
    LET queries == pendingGpuTimerQueries \cup {run} IN
    /\ pendingGpuTimerQueries' \in SUBSET queries
    /\ \E answered \in SUBSET queries :
           statsFrom' = statsFrom \cup {run} \cup answered

(* Mutant: each attempt to redraw restarts the interval.                   *)
RefreshHud_Restarts(changed) ==
    /\ hudBehind' = (changed /\ NextWait > 0)
    /\ hudWait' = IF changed THEN HudInterval ELSE NextWait

(* refreshHud in a frame, when the HUD's data differ from what is drawn.   *)
RefreshHud(changed) ==
    /\ hudBehind' = (changed /\ NextWait > 0)
    /\ hudWait' = IF changed /\ NextWait = 0 THEN HudInterval ELSE NextWait

(* A frame in WebXR.                                                       *)
XRFrame ==
    /\ IsXRPresenting
    /\ RecordFrameStats
    /\ fingertipTargetId' \in (shown \ crushing) \cup {NoPod}
    /\ UNCHANGED <<board, store, desktop, player, locks, webxr>>
    /\ Outline(fingertipTargetId')
    /\ \E changed \in BOOLEAN : RefreshHud(changed)

Frame == DesktopFrame \/ XRFrame

----------------------------------------------------------------------------
(* Mouse, keyboard and pointer lock.                                       *)

(* handleDesktopPointerDown with the right button: the player looks.       *)
RightButtonDown ==
    /\ ~rightDown
    /\ rightDown' = TRUE
    /\ desktopLookActive' = \/ desktopLookActive
                            \/ IsDesktopSceneActive /\ ~IsPointerLocked
    /\ UNCHANGED <<store, board, desktopInputActive, desktopPressedKeys,
                   desktopTargetPodId, marks, down, swallowed, locks, webxr,
                   stats, hud>>

RightButtonUp ==
    /\ rightDown
    /\ rightDown' = FALSE
    /\ desktopLookActive' = (desktopLookActive /\ IsPointerLocked)
    /\ UNCHANGED <<store, board, desktopInputActive, desktopPressedKeys,
                   desktopTargetPodId, marks, down, swallowed, locks, webxr,
                   stats, hud>>

(* handleDesktopPointerDown with the left button: the target is selected   *)
(* in the store and crushed.                                               *)
LeftClick ==
    /\ IsDesktopSceneActive
    /\ desktopLookActive => IsPointerLocked
    /\ desktopTargetPodId \in shown \ crushing
    /\ crushing' = crushing \cup {desktopTargetPodId}
    /\ outlined' = desktopTargetPodId
    /\ RefreshHudNow
    /\ UNCHANGED <<store, shown, desktop, fingertipTargetId, player, locks,
                   webxr, stats>>

(* A key is pressed, or repeats while it is held.  With a modifier, or in  *)
(* an inactive scene, the handler ignores it.                              *)
KeyDown ==
    /\ \E k \in Keys :
           /\ down' = down \cup {k}
           /\ \/ /\ IsDesktopSceneActive
                 /\ desktopPressedKeys' = desktopPressedKeys \cup {k}
                 /\ swallowed' = swallowed \ {k}
              \/ UNCHANGED <<desktopPressedKeys, swallowed>>
    /\ UNCHANGED <<store, board, desktopInputActive, desktopLookActive,
                   desktopTargetPodId, marks, rightDown, locks, webxr, stats,
                   hud>>

(* A key is released; with a modifier the handler ignores it.              *)
KeyUp ==
    /\ \E k \in down :
           /\ down' = down \ {k}
           /\ \/ /\ desktopPressedKeys' = IF IsDesktopSceneActive
                                           THEN desktopPressedKeys \ {k}
                                           ELSE desktopPressedKeys
                 /\ UNCHANGED swallowed
              \/ /\ swallowed' = swallowed \cup {k}
                 /\ UNCHANGED desktopPressedKeys
    /\ UNCHANGED <<store, board, desktopInputActive, desktopLookActive,
                   desktopTargetPodId, marks, rightDown, locks, webxr, stats,
                   hud>>

(* Mutant: the keys stay pressed.                                          *)
WindowBlur_KeepsKeys ==
    /\ down' = {}
    /\ desktopLookActive' = FALSE
    /\ ExitPointerLock
    /\ UNCHANGED <<store, board, desktopInputActive, desktopPressedKeys,
                   desktopTargetPodId, marks, rightDown, swallowed, lateLock,
                   webxr, stats, hud>>

(* handleDesktopWindowBlur: the page sees no release of the keys any more. *)
WindowBlur ==
    /\ down' = {}
    /\ desktopPressedKeys' = {} /\ desktopLookActive' = FALSE
    /\ ExitPointerLock
    /\ UNCHANGED <<store, board, desktopInputActive, desktopTargetPodId, marks,
                   rightDown, swallowed, lateLock, webxr, stats, hud>>

(* handleDesktopKeyDown with Escape.                                       *)
Escape ==
    /\ IsDesktopSceneActive
    /\ IF IsPointerLocked THEN ExitPointerLock /\ UNCHANGED desktopLookActive
       ELSE desktopLookActive' = FALSE /\ UNCHANGED lock
    /\ UNCHANGED <<store, board, desktopInputActive, desktopPressedKeys,
                   desktopTargetPodId, marks, player, lateLock, webxr, stats,
                   hud>>

(* requestPointerLock by a double click.                                   *)
DoubleClick ==
    /\ IsDesktopSceneActive /\ lock = "free"
    /\ lock' = "asked"
    /\ UNCHANGED <<store, board, desktop, marks, player, lateLock, webxr, stats,
                   hud>>

(* The browser answers; handlePointerLockChange ends the look.             *)
LockGranted ==
    /\ lock = "asked"
    /\ lock' = "locked"
    /\ lateLock' = ~IsDesktopSceneActive
    /\ desktopLookActive' = FALSE
    /\ UNCHANGED <<store, board, desktopInputActive, desktopPressedKeys,
                   desktopTargetPodId, marks, player, webxr, stats, hud>>

LockRefused ==
    /\ lock = "asked"
    /\ lock' = "free"
    /\ UNCHANGED <<store, board, desktop, marks, player, lateLock, webxr, stats,
                   hud>>

(* The lock ends, as asked by the scene or by the player.                  *)
LockEnds ==
    /\ IsPointerLocked
    /\ lock' = "free" /\ lateLock' = FALSE
    /\ desktopLookActive' = FALSE /\ desktopPressedKeys' = {}
    /\ UNCHANGED <<store, board, desktopInputActive, desktopTargetPodId, marks,
                   player, webxr, stats, hud>>

----------------------------------------------------------------------------
Client == Hydrate \/ StoreChanges \/ PrepareSession \/ OnClose
          \/ DisconnectSession

WebXR == EnterXR \/ SessionGranted \/ SessionRefused \/ HandleXREnd
         \/ SessionEnds \/ ExitXR

Desktop == RightButtonDown \/ RightButtonUp \/ LeftClick \/ KeyDown \/ KeyUp
           \/ WindowBlur \/ Escape \/ DoubleClick \/ LockGranted
           \/ LockRefused \/ LockEnds

Next == Client \/ WebXR \/ Frame \/ Desktop

(* Frames go on; a WebXR session that is told to end does, and the promise *)
(* that exitXR waits for is resolved then.                                 *)
Spec == /\ Init /\ [][Next]_vars
        /\ WF_vars(Frame) /\ WF_vars(SessionEnds) /\ WF_vars(ExitXR)

----------------------------------------------------------------------------
(* Properties.                                                             *)

(* Every variable has its type.                                            *)
TypeOK ==
    /\ playing \in BOOLEAN /\ xrActive \in BOOLEAN
    /\ crushing \subseteq shown /\ shown \subseteq Pods
    /\ desktopInputActive \in BOOLEAN /\ desktopPressedKeys \subseteq Keys
    /\ desktopLookActive \in BOOLEAN
    /\ desktopTargetPodId \in shown \cup {NoPod}
    /\ fingertipTargetId \in Pods \cup {NoPod}
    /\ outlined \in shown \cup {NoPod}
    /\ down \subseteq Keys /\ rightDown \in BOOLEAN /\ swallowed \subseteq Keys
    /\ lock \in {"free", "asked", "locked", "leaving"} /\ lateLock \in BOOLEAN
    /\ xr \in {"off", "asked", "on", "ending", "ended"} /\ leaving \in BOOLEAN
    /\ run \in 0 .. MaxRuns
    /\ pendingGpuTimerQueries \subseteq Runs /\ statsFrom \subseteq Runs
    /\ hudBehind \in BOOLEAN /\ hudWait \in 0 .. HudInterval

(* While WebXR presents or no game is shown the desktop input has no       *)
(* effect: nothing pressed, looked at or aimed at survives the change,     *)
(* also what was begun while the headset was asked (scene.ts:667).         *)
QuietWhenInactive ==
    ~IsDesktopSceneActive =>
        /\ desktopPressedKeys = {} /\ ~desktopLookActive
        /\ desktopTargetPodId = NoPod

(* A key that moves the camera is held, or its release was ignored because *)
(* of a modifier (scene.ts:4002); the camera turns only while the right    *)
(* button is held, and not twice when the pointer is locked.               *)
NoPhantomInput ==
    /\ desktopPressedKeys \subseteq down \cup swallowed
    /\ desktopLookActive => rightDown /\ ~IsPointerLocked

(* The pointer is locked to an inactive scene only if the lock was granted *)
(* after the scene had been left (scene.ts:899): every way out of the      *)
(* desktop scene releases a lock that is held.                             *)
LockedOnlyLate == lock = "locked" /\ ~IsDesktopSceneActive => lateLock

(* The frame statistics are those of the WebXR session that is shown:      *)
(* GPU queries answered late are not taken for the next one's.             *)
StatsOfThisSession ==
    /\ statsFrom \cup pendingGpuTimerQueries \subseteq {run}
    /\ xr \in {"off", "asked"} => statsFrom = {} /\ pendingGpuTimerQueries = {}

(* In WebXR the outlined pod is the one that is touched now.  An outline   *)
(* that was left over when the headset ended the session, on the pod last  *)
(* touched, stays until the store or the reticle's target changes          *)
(* (scene.ts:2095), but not into the next session.                         *)
OutlineIsTouched ==
    IsXRPresenting => outlined \in {fingertipTargetId, NoPod}

(* What the HUD shows is redrawn in the end, although redraws within the   *)
(* interval are dropped and not scheduled (scene.ts:3822).                 *)
HudCatchesUp == hudBehind ~> ~hudBehind

(* disconnectSession ends both the game and WebXR, whatever comes while it *)
(* waits, a new attempt to play included.                                  *)
DisconnectCompletes == leaving ~> ~playing /\ xr = "off"
=============================================================================
