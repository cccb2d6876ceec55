-------------------------- MODULE SceneModesProofs --------------------------
(***************************************************************************)
(* The modes of the browser client, for any pods, keys and number of WebXR *)
(* sessions.                                                               *)
(*                                                                         *)
(* What the properties say is kept together by one invariant.  It adds     *)
(* that a session is numbered when it is asked for (so that its number is  *)
(* one of Runs); the rest are the properties themselves, which need each   *)
(* other: a lock is released because the scene was active, and what the    *)
(* scene forgets when it becomes inactive is what is not pressed then.     *)
(***************************************************************************)
EXTENDS SceneModes, TLAPS

USE SceneModesAssumption

Numbered ==
    /\ xr = "asked" => run < MaxRuns
    /\ xr \in {"on", "ending", "ended"} => run > 0

(* What concerns the desktop's input, and what concerns WebXR.             *)
Input == QuietWhenInactive /\ NoPhantomInput /\ LockedOnlyLate
Shown == StatsOfThisSession /\ OutlineIsTouched /\ Numbered

IInv == TypeOK /\ Input /\ Shown

(* In the beginning the invariant holds.                                   *)
THEOREM Initially == Init => IInv
  <1> SUFFICES ASSUME Init PROVE IInv
    OBVIOUS
  <1>1. run \in 0 .. MaxRuns /\ hudWait \in 0 .. HudInterval
    BY DEF Init
  <1>2. TypeOK
    BY <1>1 DEF Init, TypeOK
  <1>3. Input /\ Shown
    BY DEF Init, Input, Shown, QuietWhenInactive, NoPhantomInput, LockedOnlyLate,
           StatsOfThisSession, OutlineIsTouched, Numbered, IsDesktopSceneActive,
           IsXRPresenting, IsPointerLocked
  <1> QED
    BY <1>2, <1>3 DEF IInv

----------------------------------------------------------------------------
(* The parts of the steps keep the types of what they write.               *)

(* What drawing the HUD at once does.                                      *)
LEMMA HudLemma ==
    ASSUME TypeOK, RefreshHudNow
    PROVE  hudBehind' \in BOOLEAN /\ hudWait' \in 0 .. HudInterval
  <1>1. hudBehind' = FALSE /\ (hudWait' = HudInterval \/ hudWait' = hudWait)
    BY DEF RefreshHudNow
  <1>2. HudInterval \in 0 .. HudInterval /\ hudWait \in 0 .. HudInterval
    BY DEF TypeOK
  <1> QED
    BY <1>1, <1>2

(* What a change of the store does in the scene.                           *)
LEMMA EmitLemma ==
    ASSUME TypeOK, NEW np \in BOOLEAN, NEW nx \in BOOLEAN, NEW on \in SUBSET Pods,
           NEW f \in BOOLEAN, Emit(np, nx, on, f)
    PROVE  /\ playing' \in BOOLEAN /\ xrActive' \in BOOLEAN
           /\ crushing' \subseteq shown' /\ shown' \subseteq Pods
           /\ desktopInputActive' \in BOOLEAN /\ desktopPressedKeys' \subseteq Keys
           /\ desktopLookActive' \in BOOLEAN
           /\ desktopTargetPodId' \in shown' \cup {NoPod}
           /\ lock' \in {"free", "asked", "locked", "leaving"}
           /\ hudBehind' \in BOOLEAN /\ hudWait' \in 0 .. HudInterval
  <1>1. /\ playing' \in BOOLEAN /\ xrActive' \in BOOLEAN
        /\ crushing' \subseteq shown' /\ shown' \subseteq Pods
        /\ lock' \in {"free", "asked", "locked", "leaving"}
    BY DEF Emit, TypeOK, ExitPointerLock
  <1>2. desktopInputActive' \in BOOLEAN
    BY DEF Emit, DesktopSceneActive
  <1>3. /\ desktopPressedKeys' \subseteq Keys /\ desktopLookActive' \in BOOLEAN
        /\ desktopTargetPodId' \in shown' \cup {NoPod}
    BY DEF Emit, ForgetInput, KeptTarget, TypeOK
  <1>4. hudBehind' \in BOOLEAN /\ hudWait' \in 0 .. HudInterval
    BY HudLemma DEF Emit
  <1> QED
    BY <1>1, <1>2, <1>3, <1>4

(* A change of the store leaves an inactive scene quiet, and releases a    *)
(* lock when the scene ceases to be active.                                *)
LEMMA EmitInput ==
    ASSUME TypeOK, Input, NEW np \in BOOLEAN, NEW nx \in BOOLEAN,
           NEW on \in SUBSET Pods, NEW f \in BOOLEAN, Emit(np, nx, on, f),
           UNCHANGED <<player, lateLock>>,
           xr' = xr \/ ~IsXRPresenting' \/ (nx /\ ~IsXRPresenting)
    PROVE  Input'
  <1> USE DEF TypeOK, Input, QuietWhenInactive, NoPhantomInput, LockedOnlyLate,
              IsDesktopSceneActive, IsXRPresenting, IsPointerLocked, player,
              Emit, DesktopSceneActive, ForgetInput, ExitPointerLock, KeptTarget
  <1>1. QuietWhenInactive'
    OBVIOUS
  <1>2. NoPhantomInput'
    OBVIOUS
  <1>3. LockedOnlyLate'
    OBVIOUS
  <1> QED
    BY <1>1, <1>2, <1>3

(* A reset of the scene keeps the invariant.                               *)
LEMMA ResetLemma ==
    ASSUME IInv, ResetScene, UNCHANGED <<player, lateLock, leaving, run>>,
           xr' = xr \/ (xr = "on" /\ xr' = "ending") \/ xr' = "off"
    PROVE  IInv'
  <1> USE DEF IInv, ResetScene, ForgetInput, ExitPointerLock, ResetFrameStats,
              player
  <1>1. hudBehind' \in BOOLEAN /\ hudWait' \in 0 .. HudInterval
    BY HudLemma
  <1>2. TypeOK'
    BY <1>1 DEF TypeOK
  <1>3. Input'
    BY DEF TypeOK, Input, QuietWhenInactive, NoPhantomInput, LockedOnlyLate,
           IsDesktopSceneActive, IsPointerLocked
  <1>4. Shown'
    BY DEF TypeOK, Shown, StatsOfThisSession, OutlineIsTouched, Numbered,
           IsXRPresenting
  <1> QED
    BY <1>2, <1>3, <1>4

----------------------------------------------------------------------------
(* One lemma for each group of actions.                                    *)

(* The client keeps the invariant.                                         *)
LEMMA ClientStep == ASSUME IInv, Client PROVE IInv'
  <1>1. CASE PrepareSession \/ OnClose
    BY <1>1, ResetLemma DEF PrepareSession, OnClose, webxr, player
  <1>2. CASE DisconnectSession
    <2>1. CASE ~IsXRPresenting /\ ResetScene /\ UNCHANGED webxr
      BY <1>2, <2>1, ResetLemma DEF DisconnectSession, webxr, player
    <2>2. CASE /\ xr = "on" /\ xr' = "ending" /\ leaving' = TRUE
               /\ UNCHANGED <<store, board, desktop, marks, lock, stats, hud, run>>
      BY <1>2, <2>2 DEF DisconnectSession, IInv, TypeOK, Input, Shown, Numbered,
           QuietWhenInactive, NoPhantomInput, LockedOnlyLate, StatsOfThisSession,
           OutlineIsTouched, IsDesktopSceneActive, IsXRPresenting,
           IsPointerLocked, store, board, desktop, marks, player, stats, hud
    <2> QED
      BY <1>2, <2>1, <2>2 DEF DisconnectSession
  <1>3. CASE Hydrate \/ StoreChanges
    <2>1. PICK np \in BOOLEAN, on \in SUBSET Pods : Emit(np, xrActive, on, FALSE)
      <3>1. CASE Hydrate
        BY <3>1 DEF Hydrate
      <3>2. CASE StoreChanges
        BY <3>2 DEF StoreChanges, IInv, TypeOK
      <3> QED
        BY <1>3, <3>1, <3>2
    <2>2. /\ Outline(IF IsXRPresenting THEN fingertipTargetId
                     ELSE desktopTargetPodId')
          /\ UNCHANGED <<fingertipTargetId, player, lateLock, webxr, stats>>
      BY <1>3 DEF Hydrate, StoreChanges
    <2>3. TypeOK'
      BY <2>1, <2>2, EmitLemma DEF IInv, TypeOK, Outline, player, webxr, stats
    <2>4. Input'
      BY <2>1, <2>2, EmitInput DEF IInv, TypeOK, webxr
    <2>5. Shown'
      BY <2>2 DEF IInv, Shown, StatsOfThisSession, OutlineIsTouched, Numbered,
                  IsXRPresenting, Outline, webxr, stats
    <2> QED
      BY <2>3, <2>4, <2>5 DEF IInv
  <1> QED
    BY <1>1, <1>2, <1>3 DEF Client

(* So does the WebXR session.                                              *)
LEMMA WebXRStep == ASSUME IInv, WebXR PROVE IInv'
  <1> USE DEF IInv
  <1>1. CASE EnterXR
    BY <1>1 DEF EnterXR, ForgetInput, ExitPointerLock, TypeOK, Input, Shown,
         Numbered, QuietWhenInactive, NoPhantomInput, LockedOnlyLate,
         StatsOfThisSession, OutlineIsTouched, IsDesktopSceneActive,
         IsXRPresenting, IsPointerLocked, store, board, player, stats, hud
  <1>2. CASE SessionGranted
    <2>1. Emit(playing, TRUE, shown, FALSE)
      BY <1>2 DEF SessionGranted
    <2>2. TypeOK'
      <3>1. run' \in 0 .. MaxRuns /\ xr' = "on"
        BY <1>2 DEF SessionGranted, TypeOK, Shown, Numbered
      <3>2. outlined' \in shown' \cup {NoPod}
        BY <1>2 DEF SessionGranted, Outline
      <3> QED
        BY <1>2, <2>1, <3>1, <3>2, EmitLemma DEF SessionGranted, TypeOK, player,
                                                 stats
    <2>3. Input'
      BY <1>2, <2>1, EmitInput DEF SessionGranted, TypeOK, IsXRPresenting
    <2>4. Shown'
      BY <1>2 DEF SessionGranted, TypeOK, Shown, Numbered, StatsOfThisSession,
                  OutlineIsTouched, IsXRPresenting, Outline, stats
    <2> QED
      BY <2>2, <2>3, <2>4
  <1>3. CASE SessionRefused \/ SessionEnds
    BY <1>3 DEF SessionRefused, SessionEnds, TypeOK, Input, Shown, Numbered,
         QuietWhenInactive, NoPhantomInput, LockedOnlyLate, StatsOfThisSession,
         OutlineIsTouched, IsDesktopSceneActive, IsXRPresenting, IsPointerLocked,
         store, board, desktop, marks, player, locks, stats, hud
  <1>4. CASE HandleXREnd
    <2>1. Emit(playing, FALSE, shown, TRUE)
      BY <1>4 DEF HandleXREnd
    <2>2. TypeOK'
      BY <1>4, <2>1, EmitLemma DEF HandleXREnd, TypeOK, Outline, player,
                                   ResetFrameStats
    <2>3. Input'
      BY <1>4, <2>1, EmitInput DEF HandleXREnd, TypeOK, IsXRPresenting
    <2>4. Shown'
      BY <1>4 DEF HandleXREnd, TypeOK, Shown, Numbered, StatsOfThisSession,
                  OutlineIsTouched, IsXRPresenting, ResetFrameStats
    <2> QED
      BY <2>2, <2>3, <2>4
  <1>5. CASE ExitXR
    <2>1. CASE leaving /\ ResetScene
      <3>1. TypeOK'
        <4>1. hudBehind' \in BOOLEAN /\ hudWait' \in 0 .. HudInterval
          BY <2>1, HudLemma DEF ResetScene
        <4> QED
          BY <1>5, <2>1, <4>1 DEF ExitXR, ResetScene, ForgetInput,
               ExitPointerLock, ResetFrameStats, TypeOK, player
      <3>2. Input'
        BY <1>5, <2>1 DEF ExitXR, ResetScene, ForgetInput, ExitPointerLock, TypeOK,
             Input, QuietWhenInactive, NoPhantomInput, LockedOnlyLate,
             IsDesktopSceneActive, IsPointerLocked, player
      <3>3. Shown'
        BY <1>5, <2>1 DEF ExitXR, ResetScene, ResetFrameStats, Shown, Numbered,
             StatsOfThisSession, OutlineIsTouched, IsXRPresenting
      <3> QED
        BY <3>1, <3>2, <3>3
    <2>2. CASE ~leaving
      <3>1. Emit(playing, FALSE, shown, FALSE)
        BY <1>5, <2>2 DEF ExitXR
      <3>2. TypeOK'
        BY <1>5, <2>2, <3>1, EmitLemma DEF ExitXR, TypeOK, Outline, player,
                                           ResetFrameStats
      <3>3. Input'
        BY <1>5, <3>1, EmitInput DEF ExitXR, TypeOK, IsXRPresenting
      <3>4. Shown'
        BY <1>5, <2>2 DEF ExitXR, Shown, Numbered, StatsOfThisSession,
             OutlineIsTouched, IsXRPresenting, ResetFrameStats
      <3> QED
        BY <3>2, <3>3, <3>4
    <2> QED
      BY <1>5, <2>1, <2>2 DEF ExitXR
  <1> QED
    BY <1>1, <1>2, <1>3, <1>4, <1>5 DEF WebXR

(* So does a frame.                                                        *)
LEMMA FrameStep == ASSUME IInv, Frame PROVE IInv'
  <1> USE DEF IInv
  <1>1. CASE DesktopFrame
    <2>1. PICK t \in shown \cup {NoPod} :
              /\ SetDesktopTargetPod(t)
              /\ ~IsDesktopSceneActive => t = NoPod
      BY <1>1 DEF DesktopFrame
    <2>2. hudBehind' \in BOOLEAN /\ hudWait' \in 0 .. HudInterval
      <3>1. CASE RefreshHudNow
        BY <3>1, HudLemma
      <3>2. CASE hudWait' = NextWait /\ UNCHANGED hudBehind
        BY <3>2 DEF NextWait, TypeOK
      <3> QED
        BY <1>1, <3>1, <3>2 DEF DesktopFrame
    <2>3. TypeOK'
      BY <1>1, <2>1, <2>2 DEF DesktopFrame, SetDesktopTargetPod, Outline, TypeOK,
           ResetFrameStats, store, board, player, locks, webxr
    <2>4. Input'
      BY <1>1, <2>1 DEF DesktopFrame, SetDesktopTargetPod, TypeOK, Input,
           QuietWhenInactive, NoPhantomInput, LockedOnlyLate,
           IsDesktopSceneActive, IsXRPresenting, IsPointerLocked, player, locks,
           webxr
    <2>5. Shown'
      BY <1>1 DEF DesktopFrame, ResetFrameStats, Shown, Numbered,
           StatsOfThisSession, OutlineIsTouched, IsXRPresenting, webxr
    <2> QED
      BY <2>3, <2>4, <2>5
  <1>2. CASE XRFrame
    <2>1. hudBehind' \in BOOLEAN /\ hudWait' \in 0 .. HudInterval
      BY <1>2 DEF XRFrame, RefreshHud, NextWait, TypeOK
    <2>2. /\ statsFrom' \subseteq {run} /\ pendingGpuTimerQueries' \subseteq {run}
          /\ run \in Runs
      BY <1>2 DEF XRFrame, RecordFrameStats, IsXRPresenting, Shown, Numbered,
                  StatsOfThisSession, TypeOK, Runs
    <2>3. TypeOK'
      BY <1>2, <2>1, <2>2 DEF XRFrame, Outline, TypeOK, store, board, desktop,
           player, locks, webxr
    <2>4. Input'
      BY <1>2 DEF XRFrame, Input, QuietWhenInactive, NoPhantomInput,
           LockedOnlyLate, IsDesktopSceneActive, IsXRPresenting, IsPointerLocked,
           desktop, player, locks, webxr
    <2>5. Shown'
      BY <1>2, <2>2 DEF XRFrame, Outline, Shown, Numbered, StatsOfThisSession,
           OutlineIsTouched, IsXRPresenting, webxr
    <2> QED
      BY <2>3, <2>4, <2>5
  <1> QED
    BY <1>1, <1>2 DEF Frame

(* So does the desktop input.                                              *)
LEMMA DesktopStep == ASSUME IInv, Desktop PROVE IInv'
  <1> USE DEF IInv, store, board, desktop, marks, player, locks, webxr, stats,
              hud, IsDesktopSceneActive, IsXRPresenting, IsPointerLocked
  <1>1. CASE RightButtonDown
    <2> USE <1>1 DEF RightButtonDown
    <2>1. TypeOK'
      BY DEF TypeOK
    <2>2. Input'
      BY DEF TypeOK, Input, QuietWhenInactive, NoPhantomInput, LockedOnlyLate
    <2>3. Shown'
      BY DEF Shown, Numbered, StatsOfThisSession, OutlineIsTouched
    <2> QED
      BY <2>1, <2>2, <2>3
  <1>2. CASE RightButtonUp
    <2>1. TypeOK'
      <3>1. desktopLookActive' \in BOOLEAN
        BY <1>2 DEF RightButtonUp, TypeOK
      <3>2. /\ rightDown' = FALSE
            /\ UNCHANGED <<store, board, desktopInputActive, desktopPressedKeys,
                            desktopTargetPodId, marks, down, swallowed, locks,
                            webxr, stats, hud>>
        BY <1>2 DEF RightButtonUp
      <3>3. /\ playing' \in BOOLEAN /\ xrActive' \in BOOLEAN
            /\ desktopInputActive' \in BOOLEAN /\ desktopPressedKeys' \subseteq Keys
            /\ rightDown' \in BOOLEAN /\ lateLock' \in BOOLEAN
            /\ leaving' \in BOOLEAN /\ hudBehind' \in BOOLEAN
        BY <3>2 DEF TypeOK
      <3> QED
        BY <3>1, <3>2, <3>3 DEF TypeOK
    <2>2. Input'
      BY <1>2 DEF RightButtonUp, TypeOK, Input, QuietWhenInactive,
                  NoPhantomInput, LockedOnlyLate
    <2>3. Shown'
      BY <1>2 DEF RightButtonUp, Shown, Numbered, StatsOfThisSession,
                  OutlineIsTouched
    <2> QED
      BY <2>1, <2>2, <2>3
  <1>3. CASE LeftClick
    <2> USE <1>3 DEF LeftClick
    <2>1. TypeOK'
      <3>1. hudBehind' \in BOOLEAN /\ hudWait' \in 0 .. HudInterval
        BY HudLemma
      <3> QED
        BY <3>1 DEF TypeOK
    <2>2. Input'
      BY DEF TypeOK, Input, QuietWhenInactive, NoPhantomInput, LockedOnlyLate
    <2>3. Shown'
      BY DEF Shown, Numbered, StatsOfThisSession, OutlineIsTouched
    <2> QED
      BY <2>1, <2>2, <2>3
  <1>4. CASE KeyDown
    <2> USE <1>4 DEF KeyDown
    <2>1. TypeOK'
      BY DEF TypeOK
    <2>2. Input'
      BY DEF TypeOK, Input, QuietWhenInactive, NoPhantomInput, LockedOnlyLate
    <2>3. Shown'
      BY DEF Shown, Numbered, StatsOfThisSession, OutlineIsTouched
    <2> QED
      BY <2>1, <2>2, <2>3
  <1>5. CASE KeyUp
    <2> USE <1>5 DEF KeyUp
    <2>1. TypeOK'
      BY DEF TypeOK
    <2>2. Input'
      BY DEF TypeOK, Input, QuietWhenInactive, NoPhantomInput, LockedOnlyLate
    <2>3. Shown'
      BY DEF Shown, Numbered, StatsOfThisSession, OutlineIsTouched
    <2> QED
      BY <2>1, <2>2, <2>3
  <1>6. CASE WindowBlur
    <2> USE <1>6 DEF WindowBlur
    <2>1. TypeOK'
      <3>1. /\ lock' \in {"free", "asked", "locked", "leaving"}
            /\ desktopLookActive' \in BOOLEAN
        BY DEF TypeOK, ExitPointerLock
      <3> QED
        BY <3>1 DEF TypeOK
    <2>2. Input'
      BY DEF TypeOK, ExitPointerLock, Input, QuietWhenInactive, NoPhantomInput,
             LockedOnlyLate
    <2>3. Shown'
      BY DEF Shown, Numbered, StatsOfThisSession, OutlineIsTouched
    <2> QED
      BY <2>1, <2>2, <2>3
  <1>7. CASE Escape
    <2> USE <1>7 DEF Escape
    <2>1. TypeOK'
      <3>1. /\ lock' \in {"free", "asked", "locked", "leaving"}
            /\ desktopLookActive' \in BOOLEAN
        BY DEF TypeOK, ExitPointerLock
      <3> QED
        BY <3>1 DEF TypeOK
    <2>2. Input'
      BY DEF TypeOK, ExitPointerLock, Input, QuietWhenInactive, NoPhantomInput,
             LockedOnlyLate
    <2>3. Shown'
      BY DEF Shown, Numbered, StatsOfThisSession, OutlineIsTouched
    <2> QED
      BY <2>1, <2>2, <2>3
  <1>8. CASE DoubleClick
    <2> USE <1>8 DEF DoubleClick
    <2>1. TypeOK'
      BY DEF TypeOK
    <2>2. Input'
      BY DEF TypeOK, Input, QuietWhenInactive, NoPhantomInput, LockedOnlyLate
    <2>3. Shown'
      BY DEF Shown, Numbered, StatsOfThisSession, OutlineIsTouched
    <2> QED
      BY <2>1, <2>2, <2>3
  <1>9. CASE LockGranted
    <2> USE <1>9 DEF LockGranted
    <2>1. TypeOK'
      BY DEF TypeOK
    <2>2. Input'
      BY DEF TypeOK, Input, QuietWhenInactive, NoPhantomInput, LockedOnlyLate
    <2>3. Shown'
      BY DEF Shown, Numbered, StatsOfThisSession, OutlineIsTouched
    <2> QED
      BY <2>1, <2>2, <2>3
  <1>10. CASE LockRefused
    <2> USE <1>10 DEF LockRefused
    <2>1. TypeOK'
      BY DEF TypeOK
    <2>2. Input'
      BY DEF TypeOK, Input, QuietWhenInactive, NoPhantomInput, LockedOnlyLate
    <2>3. Shown'
      BY DEF Shown, Numbered, StatsOfThisSession, OutlineIsTouched
    <2> QED
      BY <2>1, <2>2, <2>3
  <1>11. CASE LockEnds
    <2> USE <1>11 DEF LockEnds
    <2>1. TypeOK'
      BY DEF TypeOK
    <2>2. Input'
      BY DEF TypeOK, Input, QuietWhenInactive, NoPhantomInput, LockedOnlyLate
    <2>3. Shown'
      BY DEF Shown, Numbered, StatsOfThisSession, OutlineIsTouched
    <2> QED
      BY <2>1, <2>2, <2>3
  <1> QED
    BY <1>1, <1>2, <1>3, <1>4, <1>5, <1>6, <1>7, <1>8, <1>9, <1>10, <1>11
    DEF Desktop

(* The invariant holds in every state.                                     *)
THEOREM Invariance == Spec => []IInv
  <1>1. IInv /\ UNCHANGED vars => IInv'
    BY DEF IInv, vars, store, board, desktop, marks, player, locks, webxr, stats,
           hud, TypeOK, Input, Shown, Numbered, QuietWhenInactive,
           NoPhantomInput, LockedOnlyLate, StatsOfThisSession, OutlineIsTouched,
           IsDesktopSceneActive, IsXRPresenting, IsPointerLocked
  <1>2. IInv /\ [Next]_vars => IInv'
    BY <1>1, ClientStep, WebXRStep, FrameStep, DesktopStep DEF Next
  <1> QED
    BY Initially, <1>2, PTL DEF Spec

(* Every variable has its type; in particular the pod that is aimed at and *)
(* the pod that is outlined are on the board whenever a task ends.         *)
THEOREM TypeCorrect == Spec => []TypeOK
  <1>1. IInv => TypeOK
    BY DEF IInv
  <1> QED
    BY Invariance, <1>1, PTL

(* No input of the desktop survives the change to WebXR or the end of the  *)
(* game (setDesktopActive, enterXR, reset).                                *)
THEOREM Quiet == Spec => []QuietWhenInactive
  <1>1. IInv => QuietWhenInactive
    BY DEF IInv, Input
  <1> QED
    BY Invariance, <1>1, PTL

(* A key or the right button that has been let go moves nothing, but for   *)
(* the releases that handleDesktopKeyUp ignores.                           *)
THEOREM NoPhantom == Spec => []NoPhantomInput
  <1>1. IInv => NoPhantomInput
    BY DEF IInv, Input
  <1> QED
    BY Invariance, <1>1, PTL

(* Every way out of the desktop scene releases the pointer lock, if it is  *)
(* held by then.                                                           *)
THEOREM LockReleased == Spec => []LockedOnlyLate
  <1>1. IInv => LockedOnlyLate
    BY DEF IInv, Input
  <1> QED
    BY Invariance, <1>1, PTL

(* The frame statistics never average two WebXR sessions.                  *)
THEOREM OwnStats == Spec => []StatsOfThisSession
  <1>1. IInv => StatsOfThisSession
    BY DEF IInv, Shown
  <1> QED
    BY Invariance, <1>1, PTL

(* In WebXR no pod is outlined but the one that is touched.                *)
THEOREM OwnOutline == Spec => []OutlineIsTouched
  <1>1. IInv => OutlineIsTouched
    BY DEF IInv, Shown
  <1> QED
    BY Invariance, <1>1, PTL
=============================================================================
