----------------------------- MODULE SceneGusts -----------------------------
(***************************************************************************)
(* The gusts of wind that push pods (apps/frontend-webxr/src/scene.ts):    *)
(* launched by the key E or by a sweep of an open hand, moved by each      *)
(* frame, and kept in a pool to be used again.                             *)
(*                                                                         *)
(* A frame takes d units of time, but the simulation advances by no more   *)
(* than MaxDelta of them (renderFrame), and a gust lives for Lifetime      *)
(* units of the simulation.  The cooldown of a source counts real time.    *)
(* Frames of 1 .. MaxFrame units and MaxGusts entries are bounds of the    *)
(* model; what a gust touches, and which pods are loose (whole, dynamic,   *)
(* in no hand), are inputs.                                                *)
(***************************************************************************)
EXTENDS Naturals, Sequences, FiniteSets, SequencesExt

CONSTANTS Pods, MaxGusts, MaxFrame, MaxDelta, Lifetime, Cooldown

ASSUME GustAssumption ==
    /\ {MaxGusts, MaxFrame, MaxDelta, Lifetime, Cooldown} \subseteq Nat \ {0}
    /\ Lifetime <= Cooldown

Hands   == {"left", "right"}
Sources == Hands \cup {"desktop"}
Entries == 1 .. MaxGusts

VARIABLES
    world,             \* physicsWorld exists
    presenting,        \* WebXR presents
    step,              \* "idle", or the hand whose turn it is in a frame
    gusts, gustPool,   \* the arrays of entries
    remaining, hitPodIds, source,    \* of each entry
    cooldown,          \* time left until gustCooldownUntil of each source
    gustMotionLatch,
    sampled,           \* lastPalmSampleAt > 0: a speed can be measured
    sinceLaunch,       \* history: time since the last launch, up to Cooldown
    cleared,           \* history: was the source reset since then?
    irregular,         \* history: ... or a frame too long, since e's launch?
    swept,             \* history: has the hand moved on since its launch?
    pushes             \* history: pushes of each pod since e's launch

entries  == <<gusts, gustPool, remaining, hitPodIds, source, pushes>>
sources  == <<cooldown, sinceLaunch, cleared>>
hands    == <<gustMotionLatch, sampled, swept>>
vars     == <<world, presenting, step, entries, sources, hands, irregular>>

Active == ToSet(gusts)

Init ==
    /\ world = FALSE /\ presenting = FALSE /\ step = "idle"
    /\ gusts = <<>> /\ gustPool = <<>>
    /\ remaining = [e \in Entries |-> 0]
    /\ hitPodIds = [e \in Entries |-> {}]
    /\ source = [e \in Entries |-> "desktop"]
    /\ cooldown = [s \in Sources |-> 0]
    /\ gustMotionLatch = [h \in Hands |-> FALSE]
    /\ sampled = [h \in Hands |-> FALSE]
    /\ sinceLaunch = [s \in Sources |-> Cooldown]
    /\ cleared = [s \in Sources |-> FALSE]
    /\ irregular = [e \in Entries |-> FALSE]
    /\ swept = [h \in Hands |-> FALSE]
    /\ pushes = [e \in Entries |-> [p \in Pods |-> 0]]

----------------------------------------------------------------------------
(* Parts of the steps.                                                     *)

Lesser(a, b) == IF a < b THEN a ELSE b
Left(t, d)   == IF t > d THEN t - d ELSE 0

(* Mutant: the cooldown is not started.                                    *)
StartCooldown_Not(s) ==
    /\ UNCHANGED cooldown
    /\ sinceLaunch' = [sinceLaunch EXCEPT ![s] = 0]
    /\ cleared' = [cleared EXCEPT ![s] = FALSE]

StartCooldown(s) ==
    /\ cooldown' = [cooldown EXCEPT ![s] = Cooldown]
    /\ sinceLaunch' = [sinceLaunch EXCEPT ![s] = 0]
    /\ cleared' = [cleared EXCEPT ![s] = FALSE]

(* Mutant: a pooled entry stays in the pool.                               *)
AcquireGust_KeepsPooled(e) ==
    IF gustPool # <<>>
    THEN e = Last(gustPool) /\ UNCHANGED gustPool
    ELSE e = Len(gusts) + 1 /\ UNCHANGED gustPool

(* acquireGust: the entry last put into the pool, or else a new one.       *)
AcquireGust(e) ==
    IF gustPool # <<>>
    THEN e = Last(gustPool) /\ gustPool' = Front(gustPool)
    ELSE e = Len(gusts) + 1 /\ UNCHANGED gustPool

(* launchGust by source s, which must not need an entry beyond the bound.  *)
LaunchGust(s) ==
    /\ world
    /\ \E e \in Entries :
           /\ AcquireGust(e)
           /\ gusts' = Append(gusts, e)
           /\ remaining' = [remaining EXCEPT ![e] = Lifetime]
           /\ hitPodIds' = [hitPodIds EXCEPT ![e] = {}]
           /\ source' = [source EXCEPT ![e] = s]
           /\ pushes' = [pushes EXCEPT ![e] = [p \in Pods |-> 0]]
           /\ irregular' = [irregular EXCEPT ![e] = FALSE]
    /\ StartCooldown(s)

(* clearHandState, as far as gusts are concerned.                          *)
ClearHands(hs) ==
    /\ gustMotionLatch' = [h \in Hands |-> h \notin hs /\ gustMotionLatch[h]]
    /\ sampled' = [h \in Hands |-> h \notin hs /\ sampled[h]]
    /\ swept' = [h \in Hands |-> h \notin hs /\ swept[h]]

(* The cooldowns of sources ss are forgotten after d units of time.        *)
Cooled(d, ss) ==
    /\ cooldown' = [s \in Sources |-> IF s \in ss THEN 0
                                      ELSE Left(cooldown[s], d)]
    /\ sinceLaunch' = [s \in Sources |-> Lesser(Cooldown, sinceLaunch[s] + d)]
    /\ cleared' = [s \in Sources |-> s \in ss \/ cleared[s]]
    /\ irregular' = [e \in Entries |-> d > MaxDelta \/ source[e] \in ss
                                          \/ irregular[e]]

(* The members of q that are in S, in the order of q.                      *)
Among(q, S) ==
    LET kept[n \in 0 .. Len(q)] ==
            IF n = 0 THEN <<>>
            ELSE IF q[n] \in S THEN Append(kept[n - 1], q[n]) ELSE kept[n - 1]
    IN  kept[Len(q)]

(* removeGust of the entries "ended", in the order of that sequence.       *)
Removed(ended) ==
    /\ gusts' = Among(gusts, Active \ ToSet(ended))
    /\ gustPool' = gustPool \o ended

(* Mutant: a pod that was in a hand, or is touched again, is pushed again. *)
ApplyGusts_Again(live, touched, loose) ==
    /\ hitPodIds' = [e \in Entries |-> IF e \in live
                                       THEN hitPodIds[e] \cup (touched[e] \cap loose)
                                       ELSE IF e \in Active THEN {}
                                       ELSE hitPodIds[e]]
    /\ pushes' = [e \in Entries |-> [p \in Pods |->
           IF e \in live /\ p \in touched[e] \cap loose THEN pushes[e][p] + 1
           ELSE pushes[e][p]]]

(* Gusts hit what they touch, once, and push it if it is loose.            *)
ApplyGusts(live, touched, loose) ==
    /\ hitPodIds' = [e \in Entries |-> IF e \in live
                                       THEN hitPodIds[e] \cup touched[e]
                                       ELSE IF e \in Active THEN {}
                                       ELSE hitPodIds[e]]
    /\ pushes' = [e \in Entries |-> [p \in Pods |->
           IF e \in live /\ p \in (touched[e] \ hitPodIds[e]) \cap loose
           THEN pushes[e][p] + 1 ELSE pushes[e][p]]]

(* Mutant: gusts count the frames the simulation has caught up with only.  *)
Aged_OnlyShort(e, d) == IF d > MaxDelta THEN remaining[e] ELSE Left(remaining[e], d)

(* What remains of gust e after a frame of d units.                        *)
Aged(e, d) == Left(remaining[e], Lesser(d, MaxDelta))

AdvanceGusts(d) ==
    LET live == {e \in Active : Aged(e, d) > 0} IN
    /\ remaining' = [e \in Entries |-> IF e \in Active THEN Aged(e, d)
                                       ELSE remaining[e]]
    /\ \E touched \in [live -> SUBSET Pods], loose \in SUBSET Pods :
           ApplyGusts(live, touched, loose)
    /\ Removed(Among(gusts, Active \ live))
    /\ UNCHANGED source

----------------------------------------------------------------------------
(* Tasks between frames.                                                   *)

InitializePhysics ==
    /\ step = "idle" /\ ~world
    /\ world' = TRUE
    /\ UNCHANGED <<presenting, step, entries, sources, hands, irregular>>

EnterXR ==
    /\ step = "idle" /\ ~presenting
    /\ presenting' = TRUE
    /\ UNCHANGED <<world, step, entries, sources, hands, irregular>>

(* handleXREnd clears the hands; exitXR leaves them to the next frame.     *)
LeaveXR ==
    /\ step = "idle" /\ presenting
    /\ presenting' = FALSE
    /\ \/ ClearHands(Hands) /\ Cooled(0, Hands)
       \/ UNCHANGED <<hands, sources, irregular>>
    /\ UNCHANGED <<world, step, entries>>

(* triggerDesktopGust: the key E outside WebXR.                            *)
TriggerDesktopGust ==
    /\ step = "idle" /\ ~presenting
    /\ cooldown["desktop"] = 0
    /\ LaunchGust("desktop")
    /\ UNCHANGED <<world, presenting, step, hands>>

(* reset(): every gust goes to the pool (clearGusts).                      *)
ResetScene ==
    /\ step = "idle"
    /\ Removed(Reverse(gusts))
    /\ remaining' = [e \in Entries |-> IF e \in Active THEN 0 ELSE remaining[e]]
    /\ hitPodIds' = [e \in Entries |-> IF e \in Active THEN {} ELSE hitPodIds[e]]
    /\ ClearHands(Hands)
    /\ Cooled(0, Sources)
    /\ UNCHANGED <<world, presenting, step, source, pushes>>

----------------------------------------------------------------------------
(* The frame.                                                              *)

(* updateSimulation; outside WebXR the hands are cleared then.             *)
RenderFrame ==
    /\ step = "idle"
    /\ \E d \in 1 .. MaxFrame :
           /\ IF world THEN AdvanceGusts(d) ELSE UNCHANGED entries
           /\ Cooled(d, IF presenting THEN {} ELSE Hands)
    /\ IF presenting THEN step' = "left" /\ UNCHANGED hands
       ELSE step' = "idle" /\ ClearHands(Hands)
    /\ UNCHANGED <<world, presenting>>

NextStep == IF step = "left" THEN "right" ELSE "idle"

(* A hand some joint of which is not known is cleared.                     *)
HandLost ==
    /\ step \in Hands
    /\ ClearHands({step})
    /\ Cooled(0, {step})
    /\ step' = NextStep
    /\ UNCHANGED <<world, presenting, entries>>

(* A tracked hand that is not in the pose of a gust, holds or pinches; or  *)
(* the table is moved by the right hand, which keeps its latch.            *)
HandBusy ==
    /\ step \in Hands
    /\ sampled' = [sampled EXCEPT ![step] = world]
    /\ \/ /\ gustMotionLatch' = [gustMotionLatch EXCEPT ![step] = FALSE]
          /\ swept' = [swept EXCEPT ![step] = FALSE]
       \/ step = "right" /\ UNCHANGED <<gustMotionLatch, swept>>
    /\ step' = NextStep
    /\ UNCHANGED <<world, presenting, entries, sources, irregular>>

(* Mutant: the latch is ignored.                                           *)
MayLaunch_Unlatched(h, speed) == cooldown[h] = 0 /\ speed = "fast"

MayLaunch(h, speed) ==
    /\ cooldown[h] = 0 /\ speed = "fast"
    /\ ~gustMotionLatch[h]

(* tryTriggerHandGust in the pose of a gust, at a speed below the one that *)
(* resets the latch ("slow"), above the one that launches ("fast"), or     *)
(* between.  The first sample of a hand has no speed.                      *)
TryTriggerHandGust ==
    /\ step \in Hands /\ world
    /\ \E speed \in IF sampled[step] THEN {"slow", "between", "fast"}
                    ELSE {"slow"} :
           IF MayLaunch(step, speed)
           THEN /\ LaunchGust(step)
                /\ gustMotionLatch' = [gustMotionLatch EXCEPT ![step] = TRUE]
                /\ swept' = [swept EXCEPT ![step] = TRUE]
           ELSE /\ gustMotionLatch' = [gustMotionLatch EXCEPT
                                          ![step] = @ /\ speed # "slow"]
                /\ swept' = [swept EXCEPT ![step] = @ /\ speed # "slow"]
                /\ UNCHANGED <<entries, sources, irregular>>
    /\ sampled' = [sampled EXCEPT ![step] = TRUE]
    /\ step' = NextStep
    /\ UNCHANGED <<world, presenting>>

----------------------------------------------------------------------------
Frame == RenderFrame \/ HandLost \/ HandBusy \/ TryTriggerHandGust

Next == \/ InitializePhysics \/ EnterXR \/ LeaveXR \/ TriggerDesktopGust
        \/ ResetScene \/ Frame

(* The animation loop renders frame after frame.                           *)
Spec == Init /\ [][Next]_vars /\ WF_vars(Frame)

----------------------------------------------------------------------------
(* Properties.                                                             *)

(* Every variable has its type.                                            *)
TypeOK ==
    /\ world \in BOOLEAN /\ presenting \in BOOLEAN
    /\ step \in {"idle"} \cup Hands
    /\ gusts \in BoundedSeq(Entries, MaxGusts)
    /\ gustPool \in BoundedSeq(Entries, MaxGusts)
    /\ remaining \in [Entries -> 0 .. Lifetime]
    /\ hitPodIds \in [Entries -> SUBSET Pods]
    /\ source \in [Entries -> Sources]
    /\ cooldown \in [Sources -> 0 .. Cooldown]
    /\ gustMotionLatch \in [Hands -> BOOLEAN] /\ sampled \in [Hands -> BOOLEAN]

(* An entry, of the type above, is in one place: active with time left, in *)
(* the pool without time or hits, or not made yet (scene.ts:2734, 2756).   *)
EntriesAccounted ==
    LET all == gusts \o gustPool IN
    /\ TypeOK
    /\ IsInjective(all)
    /\ ToSet(all) = 1 .. Len(all)
    /\ \A e \in Entries : remaining[e] > 0 <=> e \in Active
    /\ \A e \in ToSet(gustPool) : hitPodIds[e] = {}

(* One gust pushes a pod at most once, although it is touched for many     *)
(* frames, may be in a hand then, and the entry has served before.         *)
PushedOnce == \A e \in Entries, p \in Pods : pushes[e][p] <= 1

(* Two gusts of one source are there at the same time only if the source   *)
(* was reset, or a frame took longer than the simulation advances: then    *)
(* gusts outlive their cooldown (scene.ts:2118).                           *)
NoStacking ==
    \A e, f \in Active :
        e # f /\ source[e] = source[f] => irregular[e] \/ irregular[f]

Launched(s) ==
    \E e \in Entries : remaining[e] = 0 /\ remaining'[e] > 0 /\ source'[e] = s

(* A source that was not reset launches no gust before its cooldown is     *)
(* over, and a hand none before it has paused since the last one.  A hand  *)
(* whose tracking is lost for a frame is reset (scene.ts:3529): it may     *)
(* launch the next gust at once, in the same sweep.                        *)
SpamIsLimited ==
    [][\A s \in Sources : Launched(s) =>
           /\ sinceLaunch[s] = Cooldown \/ cleared[s]
           /\ s \in Hands => ~swept[s]]_vars

(* Every gust ends, however long the frames are.                           *)
GustsEnd == \A e \in Entries : e \in Active ~> e \notin Active
=============================================================================
