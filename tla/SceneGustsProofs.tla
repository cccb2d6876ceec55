-------------------------- MODULE SceneGustsProofs --------------------------
(***************************************************************************)
(* Proofs about the gusts of the scene, for any number of entries, lengths *)
(* of frames, lifetime and cooldown: one gust pushes a pod at most once,   *)
(* a source is limited by its cooldown and its latch, every entry is in    *)
(* one place, gusts of one source do not pile up, and none is given more   *)
(* time than it had.                                                       *)
(***************************************************************************)
EXTENDS SceneGusts, WellFoundedInduction, TLAPS

(* What a gust has pushed it has hit, as long as it lives: a pod that was  *)
(* hit is not pushed again, and an entry is emptied before it is used      *)
(* again.                                                                  *)
Pushes ==
    /\ remaining \in [Entries -> Nat]
    /\ hitPodIds \in [Entries -> SUBSET Pods]
    /\ pushes \in [Entries -> [Pods -> 0 .. 1]]
    /\ \A e \in Entries, p \in Pods :
           remaining[e] > 0 /\ pushes[e][p] = 1 => p \in hitPodIds[e]

(* A source that was not reset still waits for what its last launch has    *)
(* not seen of the cooldown.                                               *)
Limited ==
    /\ cooldown \in [Sources -> Nat]
    /\ sinceLaunch \in [Sources -> 0 .. Cooldown]
    /\ cleared \in [Sources -> BOOLEAN]
    /\ \A s \in Sources : ~cleared[s] => cooldown[s] + sinceLaunch[s] >= Cooldown

(* A hand that has not paused since its launch is latched.                 *)
Latched ==
    /\ gustMotionLatch \in [Hands -> BOOLEAN]
    /\ swept \in [Hands -> BOOLEAN]
    /\ \A h \in Hands : swept[h] => gustMotionLatch[h]

Stepping == step \in {"idle"} \cup Hands

IInv == Pushes /\ Limited /\ Latched /\ Stepping /\ source \in [Entries -> Sources]

(* The scene begins without gusts. *)
LEMMA InitInv == Init => IInv
  <1> SUFFICES ASSUME Init PROVE IInv
    OBVIOUS
  <1>0. MaxGusts \in Nat /\ Cooldown \in Nat
    BY GustAssumption
  <1>1. Pushes
    BY <1>0 DEF Init, Pushes, Entries
  <1>2. Limited
    BY <1>0 DEF Init, Limited
  <1>3. Latched /\ Stepping /\ source \in [Entries -> Sources]
    BY DEF Init, Latched, Stepping, Sources
  <1> QED
    BY <1>1, <1>2, <1>3 DEF IInv

-----------------------------------------------------------------------------
(* Parts of the steps.                                                     *)

(* What is left of a time.                                                 *)
LEMMA LeftLemma ==
    ASSUME NEW t \in Nat, NEW d \in Nat
    PROVE  /\ Left(t, d) \in Nat /\ Left(t, d) <= t
           /\ Left(t, d) + d >= t
  BY DEF Left

(* The lesser of two numbers.                                              *)
LEMMA LesserLemma ==
    ASSUME NEW a \in Nat, NEW b \in Nat
    PROVE  Lesser(a, b) \in Nat /\ Lesser(a, b) <= a /\ Lesser(a, b) \in {a, b}
  BY DEF Lesser

(* Time that passes, with or without a reset, keeps the limit. *)
LEMMA CooledLemma ==
    ASSUME Limited, NEW d \in Nat, NEW ss \in SUBSET Sources, Cooled(d, ss)
    PROVE  Limited'
  <1>0. Cooldown \in Nat
    BY GustAssumption
  <1>1. /\ cooldown' \in [Sources -> Nat]
        /\ \A s \in Sources : cooldown'[s] = IF s \in ss THEN 0 ELSE Left(cooldown[s], d)
    BY LeftLemma DEF Limited, Cooled
  <1>2. /\ sinceLaunch' \in [Sources -> 0 .. Cooldown]
        /\ \A s \in Sources : sinceLaunch'[s] = Lesser(Cooldown, sinceLaunch[s] + d)
    <2>1. \A s \in Sources : sinceLaunch[s] + d \in Nat
      BY <1>0 DEF Limited
    <2>2. \A s \in Sources : Lesser(Cooldown, sinceLaunch[s] + d) \in 0 .. Cooldown
      BY <1>0, <2>1 DEF Lesser
    <2> QED
      BY <2>2 DEF Cooled
  <1>3. /\ cleared' \in [Sources -> BOOLEAN]
        /\ \A s \in Sources : cleared'[s] <=> s \in ss \/ cleared[s]
    BY Zenon DEF Limited, Cooled
  <1>4. ASSUME NEW s \in Sources, ~cleared'[s]
        PROVE  cooldown'[s] + sinceLaunch'[s] >= Cooldown
    <2>1. s \notin ss /\ ~cleared[s]
      BY <1>3, <1>4
    <2>2. /\ cooldown[s] \in Nat /\ sinceLaunch[s] \in Nat
          /\ cooldown[s] + sinceLaunch[s] >= Cooldown
      BY <1>0, <2>1 DEF Limited
    <2>3. cooldown'[s] = Left(cooldown[s], d)
      BY <1>1, <2>1
    <2>4. sinceLaunch'[s] = Lesser(Cooldown, sinceLaunch[s] + d)
      BY <1>2
    <2> QED
      BY <1>0, <2>2, <2>3, <2>4 DEF Left, Lesser
  <1> QED
    BY <1>1, <1>2, <1>3, <1>4 DEF Limited

(* Clearing hands clears the latch together with the sweep. *)
LEMMA ClearLemma ==
    ASSUME Latched, NEW hs, ClearHands(hs)
    PROVE  Latched'
  <1>1. /\ gustMotionLatch' \in [Hands -> BOOLEAN]
        /\ swept' \in [Hands -> BOOLEAN]
    BY Zenon DEF ClearHands
  <1>2. ASSUME NEW h \in Hands, swept'[h] PROVE gustMotionLatch'[h]
    BY <1>2, Zenon DEF ClearHands, Latched
  <1> QED
    BY <1>1, <1>2 DEF Latched

(* A launch gives an entry a new life without pushes, and starts the       *)
(* cooldown.                                                               *)
LEMMA LaunchLemma ==
    ASSUME IInv, NEW s \in Sources, LaunchGust(s)
    PROVE  /\ Pushes' /\ Limited' /\ source' \in [Entries -> Sources]
           /\ \A e \in Entries :
                  remaining[e] = 0 /\ remaining'[e] > 0 => source'[e] = s
  <1>0. Cooldown \in Nat /\ Lifetime \in Nat
    BY GustAssumption
  <1>1. PICK e \in Entries :
            /\ remaining' = [remaining EXCEPT ![e] = Lifetime]
            /\ hitPodIds' = [hitPodIds EXCEPT ![e] = {}]
            /\ source' = [source EXCEPT ![e] = s]
            /\ pushes' = [pushes EXCEPT ![e] = [p \in Pods |-> 0]]
    BY DEF LaunchGust
  <1>2. Pushes'
    <2>1. remaining' \in [Entries -> Nat] /\ hitPodIds' \in [Entries -> SUBSET Pods]
      BY <1>0, <1>1 DEF IInv, Pushes
    <2>2. pushes' \in [Entries -> [Pods -> 0 .. 1]]
      <3>1. [p \in Pods |-> 0] \in [Pods -> 0 .. 1]
        OBVIOUS
      <3> QED
        BY <1>1, <3>1 DEF IInv, Pushes
    <2>3. ASSUME NEW f \in Entries, NEW p \in Pods, remaining'[f] > 0, pushes'[f][p] = 1
          PROVE  p \in hitPodIds'[f]
      <3>1. f # e
        BY <1>1, <2>3 DEF IInv, Pushes
      <3> QED
        BY <1>1, <2>3, <3>1 DEF IInv, Pushes
    <2> QED
      BY <2>1, <2>2, <2>3 DEF Pushes
  <1>3. Limited'
    <2>1. /\ cooldown' = [cooldown EXCEPT ![s] = Cooldown]
          /\ sinceLaunch' = [sinceLaunch EXCEPT ![s] = 0]
          /\ cleared' = [cleared EXCEPT ![s] = FALSE]
      BY DEF LaunchGust, StartCooldown
    <2>2. cooldown' \in [Sources -> Nat] /\ sinceLaunch' \in [Sources -> 0 .. Cooldown]
      BY <1>0, <2>1 DEF IInv, Limited
    <2>3. cleared' \in [Sources -> BOOLEAN]
      BY <2>1, Zenon DEF IInv, Limited
    <2>4. ASSUME NEW r \in Sources, ~cleared'[r]
          PROVE  cooldown'[r] + sinceLaunch'[r] >= Cooldown
      <3>1. CASE r = s
        BY <1>0, <2>1, <3>1 DEF IInv, Limited
      <3>2. CASE r # s
        <4>1. ~cleared[r]
          BY <2>1, <2>4, <3>2, Zenon DEF IInv, Limited
        <4> QED
          BY <2>1, <3>2, <4>1 DEF IInv, Limited
      <3> QED
        BY <3>1, <3>2
    <2> QED
      BY <2>2, <2>3, <2>4 DEF Limited
  <1>4. source' \in [Entries -> Sources]
    BY <1>1 DEF IInv
  <1>5. ASSUME NEW f \in Entries, remaining[f] = 0, remaining'[f] > 0
        PROVE  source'[f] = s
    <2>1. f = e
      BY <1>1, <1>5 DEF IInv, Pushes
    <2> QED
      BY <1>1, <2>1 DEF IInv
  <1> QED
    BY <1>2, <1>3, <1>4, <1>5

(* A frame ages the gusts, and each pushes only what it had not hit.       *)
LEMMA AdvanceLemma ==
    ASSUME IInv, NEW d \in Nat, AdvanceGusts(d)
    PROVE  /\ Pushes'
           /\ \A e \in Entries : remaining'[e] <= remaining[e]
  <1> DEFINE live == {e \in Active : Aged(e, d) > 0}
  <1>1. PICK touched \in [live -> SUBSET Pods], loose \in SUBSET Pods :
            ApplyGusts(live, touched, loose)
    BY Zenon DEF AdvanceGusts
  <1>2. MaxDelta \in Nat
    BY GustAssumption
  <1>3. \A e \in Entries : /\ Aged(e, d) \in Nat /\ Aged(e, d) <= remaining[e]
    <2>1. Lesser(d, MaxDelta) \in Nat
      BY <1>2, LesserLemma
    <2> QED
      BY <2>1, LeftLemma DEF Aged, IInv, Pushes
  <1>4. /\ remaining' \in [Entries -> Nat]
        /\ \A e \in Entries :
               remaining'[e] = IF e \in Active THEN Aged(e, d) ELSE remaining[e]
    BY <1>3 DEF AdvanceGusts, IInv, Pushes
  <1>5. \A e \in Entries : remaining'[e] <= remaining[e]
    BY <1>3, <1>4 DEF IInv, Pushes
  <1>6. /\ hitPodIds' \in [Entries -> SUBSET Pods]
        /\ \A e \in Entries :
               hitPodIds'[e] = IF e \in live THEN hitPodIds[e] \cup touched[e]
                               ELSE IF e \in Active THEN {} ELSE hitPodIds[e]
    BY <1>1 DEF ApplyGusts, IInv, Pushes
  <1>7. \A e \in Entries, p \in Pods :
            pushes'[e][p] = IF e \in live /\ p \in (touched[e] \ hitPodIds[e]) \cap loose
                            THEN pushes[e][p] + 1 ELSE pushes[e][p]
    BY <1>1 DEF ApplyGusts
  <1>8. \A e \in Entries, p \in Pods : pushes[e][p] \in 0 .. 1
    BY DEF IInv, Pushes
  <1>9. \A e \in live \cap Entries, p \in Pods :
            p \notin hitPodIds[e] => pushes[e][p] = 0
    <2>1. \A e \in live \cap Entries : remaining[e] > 0
      BY <1>3 DEF IInv, Pushes
    <2> QED
      BY <2>1, <1>8 DEF IInv, Pushes
  <1>10. \A e \in Entries, p \in Pods : pushes'[e][p] \in 0 .. 1
    BY <1>7, <1>8, <1>9
  <1>11. pushes' \in [Entries -> [Pods -> 0 .. 1]]
    <2>1. pushes' = [e \in Entries |-> [p \in Pods |-> pushes'[e][p]]]
      BY <1>1, <1>7, Zenon DEF ApplyGusts
    <2>2. \A e \in Entries : [p \in Pods |-> pushes'[e][p]] \in [Pods -> 0 .. 1]
      BY <1>10
    <2> QED
      BY <2>1, <2>2, Zenon
  <1>12. ASSUME NEW e \in Entries, NEW p \in Pods, remaining'[e] > 0, pushes'[e][p] = 1
         PROVE  p \in hitPodIds'[e]
    <2>1. CASE e \in live
      <3>1. CASE p \in touched[e] \/ p \in hitPodIds[e]
        BY <1>6, <2>1, <3>1
      <3>2. CASE p \notin touched[e] /\ p \notin hitPodIds[e]
        <4>1. pushes'[e][p] = 0
          BY <1>7, <1>9, <2>1, <3>2
        <4> QED
          BY <1>12, <4>1
      <3> QED
        BY <3>1, <3>2
    <2>2. CASE e \in Active /\ e \notin live
      BY <1>12, <1>3, <1>4, <2>2
    <2>3. CASE e \notin Active
      <3>1. e \notin live
        BY <2>3
      <3> HIDE DEF live
      <3> QED
        BY <1>12, <1>4, <1>6, <1>7, <2>3, <3>1 DEF IInv, Pushes
    <2> QED
      BY <2>1, <2>2, <2>3
  <1> HIDE DEF live
  <1> QED
    BY <1>4, <1>5, <1>6, <1>11, <1>12 DEF Pushes

-----------------------------------------------------------------------------
(* The steps.                                                              *)

(* A frame and a reset leave the sources and hands limited.                *)
LEMMA RenderLemma ==
    ASSUME IInv, RenderFrame
    PROVE  IInv' /\ \A e \in Entries : remaining'[e] <= remaining[e]
  <1>1. PICK d \in 1 .. MaxFrame :
            /\ IF world THEN AdvanceGusts(d) ELSE UNCHANGED entries
            /\ Cooled(d, IF presenting THEN {} ELSE Hands)
    BY DEF RenderFrame
  <1>2. d \in Nat
    OBVIOUS
  <1>3. Pushes' /\ (\A e \in Entries : remaining'[e] <= remaining[e]) /\ source' = source
    <2>1. CASE world
      BY <1>1, <1>2, <2>1, AdvanceLemma DEF AdvanceGusts
    <2>2. CASE ~world
      BY <1>1, <2>2 DEF entries, IInv, Pushes
    <2> QED
      BY <2>1, <2>2
  <1>4. Limited'
    <2>1. (IF presenting THEN {} ELSE Hands) \in SUBSET Sources
      BY DEF Sources
    <2> QED
      BY <1>1, <1>2, <2>1, CooledLemma DEF IInv
  <1>5. Latched' /\ Stepping'
    <2>1. CASE presenting
      BY <2>1 DEF RenderFrame, hands, IInv, Latched, Stepping, Hands
    <2>2. CASE ~presenting
      BY <2>2, ClearLemma DEF RenderFrame, IInv, Stepping
    <2> QED
      BY <2>1, <2>2
  <1> QED
    BY <1>3, <1>4, <1>5 DEF IInv

(* A reset ends the active gusts and keeps the invariant.                  *)
LEMMA ResetLemma ==
    ASSUME IInv, ResetScene
    PROVE  IInv' /\ \A e \in Entries : remaining'[e] <= remaining[e]
  <1>1. /\ remaining' = [e \in Entries |-> IF e \in Active THEN 0 ELSE remaining[e]]
        /\ hitPodIds' = [e \in Entries |-> IF e \in Active THEN {} ELSE hitPodIds[e]]
        /\ pushes' = pushes /\ source' = source
    BY DEF ResetScene
  <1>2. Pushes' /\ \A e \in Entries : remaining'[e] <= remaining[e]
    BY <1>1 DEF IInv, Pushes
  <1>3. Limited'
    BY CooledLemma DEF ResetScene, IInv
  <1>4. Latched' /\ Stepping'
    BY ClearLemma DEF ResetScene, IInv, Stepping
  <1> QED
    BY <1>1, <1>2, <1>3, <1>4 DEF IInv

(* A sweep of a hand whose turn it is. *)
LEMMA SweepLemma ==
    ASSUME IInv, TryTriggerHandGust
    PROVE  /\ IInv'
           /\ \A e \in Entries :
                  remaining[e] = 0 /\ remaining'[e] > 0 =>
                      source'[e] = step /\ cooldown[step] = 0 /\ ~swept[step]
  <1>0. step \in Hands /\ step \in Sources /\ Stepping'
    BY DEF TryTriggerHandGust, NextStep, Stepping, Hands, Sources
  <1>1. PICK speed \in {"slow", "between", "fast"} :
           IF MayLaunch(step, speed)
           THEN /\ LaunchGust(step)
                /\ gustMotionLatch' = [gustMotionLatch EXCEPT ![step] = TRUE]
                /\ swept' = [swept EXCEPT ![step] = TRUE]
           ELSE /\ gustMotionLatch' = [gustMotionLatch EXCEPT
                                          ![step] = @ /\ speed # "slow"]
                /\ swept' = [swept EXCEPT ![step] = @ /\ speed # "slow"]
                /\ UNCHANGED <<entries, sources, irregular>>
    BY DEF TryTriggerHandGust
  <1>2. CASE MayLaunch(step, speed)
    <2>1. LaunchGust(step)
      BY <1>1, <1>2
    <2>2. /\ Pushes' /\ Limited' /\ source' \in [Entries -> Sources]
          /\ \A e \in Entries :
                 remaining[e] = 0 /\ remaining'[e] > 0 => source'[e] = step
      BY <1>0, <2>1, LaunchLemma
    <2>3. Latched'
      BY <1>0, <1>1, <1>2, Zenon DEF IInv, Latched
    <2>4. cooldown[step] = 0 /\ ~swept[step]
      BY <1>0, <1>2, Zenon DEF MayLaunch, IInv, Latched
    <2> QED
      BY <1>0, <2>2, <2>3, <2>4 DEF IInv
  <1>3. CASE ~MayLaunch(step, speed)
    <2>1. UNCHANGED <<entries, sources>>
      BY <1>1, <1>3
    <2>2. Pushes' /\ Limited' /\ source' \in [Entries -> Sources] /\ remaining' = remaining
      BY <2>1 DEF entries, sources, IInv, Pushes, Limited
    <2>3. Latched'
      <3>1. /\ gustMotionLatch' = [gustMotionLatch EXCEPT
                                      ![step] = @ /\ speed # "slow"]
            /\ swept' = [swept EXCEPT ![step] = @ /\ speed # "slow"]
        BY <1>1, <1>3
      <3>2. /\ gustMotionLatch' \in [Hands -> BOOLEAN]
            /\ swept' \in [Hands -> BOOLEAN]
        BY <1>0, <3>1, Zenon DEF IInv, Latched
      <3>3. ASSUME NEW h \in Hands, swept'[h] PROVE gustMotionLatch'[h]
        <4>1. CASE h = step
          BY <3>1, <3>3, <4>1, Zenon DEF IInv, Latched
        <4>2. CASE h # step
          BY <3>1, <3>3, <4>2, Zenon DEF IInv, Latched
        <4> QED
          BY <4>1, <4>2
      <3> QED
        BY <3>2, <3>3 DEF Latched
    <2> QED
      BY <1>0, <2>2, <2>3 DEF IInv, Pushes
  <1> QED
    BY <1>2, <1>3

(* Every step keeps the invariant, and launches only what may be launched. *)
LEMMA StepLemma ==
    ASSUME IInv, [Next]_vars
    PROVE  /\ IInv'
           /\ \A e \in Entries :
                  remaining[e] = 0 /\ remaining'[e] > 0 =>
                      /\ cooldown[source'[e]] = 0
                      /\ source'[e] \in Hands => ~swept[source'[e]]
  <1>0. "desktop" \in Sources /\ "desktop" \notin Hands
    BY DEF Sources, Hands
  <1> DEFINE Quiet == \A e \in Entries : remaining'[e] <= remaining[e]
  <1>1. IInv' /\ Quiet => \A e \in Entries : ~(remaining[e] = 0 /\ remaining'[e] > 0)
    BY DEF IInv, Pushes
  <1>2. CASE InitializePhysics \/ EnterXR
    BY <1>2 DEF InitializePhysics, EnterXR, entries, sources, hands, IInv, Pushes, Limited,
                Latched, Stepping
  <1>3. CASE LeaveXR
    <2>1. UNCHANGED entries /\ step' = step
      BY <1>3 DEF LeaveXR
    <2>2. Limited' /\ Latched'
      <3>1. CASE ClearHands(Hands) /\ Cooled(0, Hands)
        BY <3>1, CooledLemma, ClearLemma DEF IInv, Sources
      <3>2. CASE UNCHANGED <<hands, sources>>
        BY <3>2 DEF hands, sources, IInv, Limited, Latched
      <3> QED
        BY <1>3, <3>1, <3>2 DEF LeaveXR
    <2> QED
      BY <2>1, <2>2 DEF entries, IInv, Pushes, Stepping
  <1>4. CASE TriggerDesktopGust
    <2>1. LaunchGust("desktop") /\ cooldown["desktop"] = 0
      BY <1>4 DEF TriggerDesktopGust
    <2>2. Latched' /\ Stepping'
      BY <1>4 DEF TriggerDesktopGust, hands, IInv, Latched, Stepping
    <2> QED
      BY <1>0, <2>1, <2>2, LaunchLemma DEF IInv
  <1>5. CASE ResetScene
    BY <1>1, <1>5, ResetLemma
  <1>6. CASE RenderFrame
    BY <1>1, <1>6, RenderLemma
  <1>7. CASE HandLost
    <2>1. UNCHANGED entries /\ step \in Hands /\ Stepping'
      BY <1>7 DEF HandLost, NextStep, Stepping, Hands
    <2>2. Limited' /\ Latched'
      BY <1>7, <2>1, CooledLemma, ClearLemma DEF HandLost, IInv, Sources
    <2> QED
      BY <2>1, <2>2 DEF entries, IInv, Pushes
  <1>8. CASE HandBusy
    <2>1. UNCHANGED <<entries, sources>> /\ step \in Hands /\ Stepping'
      BY <1>8 DEF HandBusy, NextStep, Stepping, Hands
    <2>2. Latched'
      <3>1. CASE /\ gustMotionLatch' = [gustMotionLatch EXCEPT ![step] = FALSE]
                 /\ swept' = [swept EXCEPT ![step] = FALSE]
        BY <2>1, <3>1, Zenon DEF IInv, Latched
      <3>2. CASE UNCHANGED <<gustMotionLatch, swept>>
        BY <3>2 DEF IInv, Latched
      <3> QED
        BY <1>8, <3>1, <3>2 DEF HandBusy
    <2> QED
      BY <2>1, <2>2 DEF entries, sources, IInv, Pushes, Limited
  <1>9. CASE TryTriggerHandGust
    BY <1>9, SweepLemma
  <1>10. CASE UNCHANGED vars
    BY <1>10 DEF vars, entries, sources, hands, IInv, Pushes, Limited, Latched, Stepping
  <1> QED
    BY <1>2, <1>3, <1>4, <1>5, <1>6, <1>7, <1>8, <1>9, <1>10 DEF Next, Frame

-----------------------------------------------------------------------------
(* The invariant holds throughout. *)
LEMMA Invariance == Spec => []IInv
  <1>1. IInv /\ [Next]_vars => IInv'
    BY StepLemma
  <1> QED
    BY InitInv, <1>1, PTL DEF Spec

(* A gust pushes a pod at most once, over any number of frames and of      *)
(* lives of its entry.                                                     *)
THEOREM PushedAtMostOnce == Spec => []PushedOnce
  <1>1. IInv => PushedOnce
    BY DEF IInv, Pushes, PushedOnce
  <1> QED
    BY Invariance, <1>1, PTL

(* No source launches before its cooldown is over, and no hand before it   *)
(* has paused, but for sources that were reset.                            *)
THEOREM Limits == Spec => SpamIsLimited
  <1> DEFINE Allowed == \A s \in Sources : Launched(s) =>
                            /\ sinceLaunch[s] = Cooldown \/ cleared[s]
                            /\ s \in Hands => ~swept[s]
  <1>1. IInv /\ [Next]_vars => Allowed
    <2> SUFFICES ASSUME IInv, [Next]_vars, NEW s \in Sources, Launched(s)
                 PROVE  /\ sinceLaunch[s] = Cooldown \/ cleared[s]
                        /\ s \in Hands => ~swept[s]
      OBVIOUS
    <2>1. cooldown[s] = 0 /\ (s \in Hands => ~swept[s])
      BY StepLemma DEF Launched
    <2>2. Cooldown \in Nat
      BY GustAssumption
    <2> QED
      BY <2>1, <2>2 DEF IInv, Limited
  <1>2. IInv /\ [Next]_vars => [Allowed]_vars
    BY <1>1
  <1> QED
    BY Invariance, <1>2, PTL DEF Spec, SpamIsLimited

-----------------------------------------------------------------------------
(* Sequences.  Among is a recursive function: that it is defined, and what *)
(* it keeps, is shown by induction on the length, for sets of numbers.     *)

(* A set with 0, and with n + 1 for each n it has, has every number. *)
LEMMA NatSets ==
    ASSUME NEW P, 0 \in P, \A n \in Nat : n \in P => n + 1 \in P
    PROVE  Nat \subseteq P
  <1> DEFINE Out == {n \in Nat : n \notin P}
  <1>1. ASSUME Out # {} PROVE FALSE
    <2>1. IsWellFoundedOn(OpToRel(<, Nat), Nat)
      BY NatLessThanWellFounded
    <2>2. PICK x \in Out : \A y \in Out : ~(<<y, x>> \in OpToRel(<, Nat))
      <3> Out \in SUBSET Nat
        OBVIOUS
      <3> HIDE DEF Out
      <3> QED
        BY <1>1, <2>1, WFMin
    <2>3. x \in Nat /\ x # 0 /\ x \notin P
      OBVIOUS
    <2>4. x - 1 \in Nat /\ x - 1 < x /\ (x - 1) + 1 = x
      BY <2>3
    <2>5. x - 1 \in Out
      BY <2>3, <2>4
    <2>6. <<x - 1, x>> \in OpToRel(<, Nat)
      <3>1. /\ <<x - 1, x>> \in Nat \X Nat
            /\ <<x - 1, x>>[1] = x - 1 /\ <<x - 1, x>>[2] = x
        BY <2>3, <2>4
      <3>2. <<x - 1, x>>[1] < <<x - 1, x>>[2]
        BY <3>1, <2>4
      <3> QED
        BY <3>1, <3>2, Zenon DEF OpToRel
    <2> QED
      BY <2>2, <2>5, <2>6
  <1> QED
    BY <1>1

(* The function that Among defines, as far as m.                           *)
IsKept(f, q, S, m) ==
    f = [n \in 0 .. m |->
            IF n = 0 THEN <<>>
            ELSE IF q[n] \in S THEN Append(f[n - 1], q[n]) ELSE f[n - 1]]

(* Of every prefix of q the members in S can be kept.                      *)
LEMMA KeptExists ==
    ASSUME NEW q, NEW S, NEW l \in Nat
    PROVE  \E f : IsKept(f, q, S, l)
  <1> DEFINE P == {m \in Nat : \E f : IsKept(f, q, S, m)}
  <1>1. 0 \in P
    <2>1. IsKept([n \in 0 .. 0 |-> <<>>], q, S, 0)
      BY DEF IsKept
    <2> QED
      BY <2>1
  <1>2. ASSUME NEW m \in Nat, m \in P PROVE m + 1 \in P
    <2>1. PICK f : IsKept(f, q, S, m)
      BY <1>2
    <2> DEFINE g == [n \in 0 .. m + 1 |->
                        IF n <= m THEN f[n]
                        ELSE IF q[n] \in S THEN Append(f[m], q[n]) ELSE f[m]]
    <2>2. \A n \in 0 .. m : f[n] = IF n = 0 THEN <<>>
                                   ELSE IF q[n] \in S THEN Append(f[n - 1], q[n]) ELSE f[n - 1]
      BY <2>1 DEF IsKept
    <2>3. \A n \in 0 .. m + 1 : g[n] = IF n = 0 THEN <<>>
                                   ELSE IF q[n] \in S THEN Append(g[n - 1], q[n]) ELSE g[n - 1]
      <3> SUFFICES ASSUME NEW n \in 0 .. m + 1
                   PROVE  g[n] = IF n = 0 THEN <<>>
                                   ELSE IF q[n] \in S THEN Append(g[n - 1], q[n]) ELSE g[n - 1]
        OBVIOUS
      <3>1. CASE n = 0
        <4>1. g[n] = f[n] /\ 0 \in 0 .. m
          BY <3>1
        <4> QED
          BY <2>2, <3>1, <4>1
      <3>2. CASE n # 0 /\ n <= m
        <4>1. g[n] = f[n] /\ g[n - 1] = f[n - 1] /\ n \in 0 .. m
          BY <3>2
        <4> QED
          BY <2>2, <3>2, <4>1
      <3>3. CASE n = m + 1
        <4>1. g[n - 1] = f[m] /\ g[n] = IF q[n] \in S THEN Append(f[m], q[n]) ELSE f[m]
          BY <3>3
        <4> QED
          BY <3>3, <4>1
      <3> QED
        BY <3>1, <3>2, <3>3
    <2>4. g = [n \in 0 .. m + 1 |-> g[n]]
      OBVIOUS
    <2>5. IsKept(g, q, S, m + 1)
      <3> HIDE DEF g
      <3> QED
        BY <2>3, <2>4 DEF IsKept
    <2> QED
      BY <2>5
  <1>3. l \in P
    <2> HIDE DEF P
    <2>1. Nat \subseteq P
      BY <1>1, <1>2, NatSets
    <2> QED
      BY <2>1
  <1> QED
    BY <1>3

(* Among is the last value of a function that satisfies its equation.      *)
LEMMA AmongDef ==
    ASSUME NEW q, NEW S, Len(q) \in Nat
    PROVE  \E f : /\ Among(q, S) = f[Len(q)]
                  /\ f[0] = <<>>
                  /\ \A n \in 1 .. Len(q) :
                         f[n] = IF q[n] \in S THEN Append(f[n - 1], q[n]) ELSE f[n - 1]
  <1> DEFINE f == CHOOSE f : IsKept(f, q, S, Len(q))
  <1>1. IsKept(f, q, S, Len(q))
    BY KeptExists
  <1>2. Among(q, S) = f[Len(q)]
    BY DEF Among, IsKept
  <1>3. \A n \in 0 .. Len(q) :
            f[n] = IF n = 0 THEN <<>>
                   ELSE IF q[n] \in S THEN Append(f[n - 1], q[n]) ELSE f[n - 1]
    <2> HIDE DEF f
    <2> QED
      BY <1>1 DEF IsKept
  <1>4. f[0] = <<>> /\ \A n \in 1 .. Len(q) :
            f[n] = IF q[n] \in S THEN Append(f[n - 1], q[n]) ELSE f[n - 1]
    <2> HIDE DEF f
    <2>1. 0 \in 0 .. Len(q) /\ \A n \in 1 .. Len(q) : n \in 0 .. Len(q) /\ n # 0
      OBVIOUS
    <2> QED
      BY <1>3, <2>1
  <1> HIDE DEF f
  <1> QED
    BY <1>2, <1>4

(* What is appended to a sequence, and where.                              *)
LEMMA Appended ==
    ASSUME NEW E, NEW q \in Seq(E), NEW m \in E
    PROVE  /\ Append(q, m) \in Seq(E)
           /\ Len(Append(q, m)) = Len(q) + 1 /\ Len(q) \in Nat
           /\ ToSet(Append(q, m)) = ToSet(q) \cup {m}
           /\ IsInjective(q) /\ m \notin ToSet(q) => IsInjective(Append(q, m))
  <1>1. /\ Append(q, m) \in Seq(E)
        /\ Len(Append(q, m)) = Len(q) + 1 /\ Len(q) \in Nat
        /\ DOMAIN q = 1 .. Len(q) /\ DOMAIN Append(q, m) = 1 .. Len(q) + 1
        /\ \A i \in 1 .. Len(q) : Append(q, m)[i] = q[i]
        /\ Append(q, m)[Len(q) + 1] = m
    OBVIOUS
  <1> DEFINE r == Append(q, m)
  <1> HIDE DEF r
  <1>2. ToSet(r) = ToSet(q) \cup {m}
    BY <1>1 DEF ToSet, r
  <1>3. IsInjective(q) /\ m \notin ToSet(q) => IsInjective(r)
    BY <1>1 DEF ToSet, IsInjective, r
  <1> QED
    BY <1>1, <1>2, <1>3 DEF r

(* Among keeps the members that are in S, each of them once if q has each  *)
(* once.                                                                   *)
LEMMA AmongLemma ==
    ASSUME NEW E, NEW q \in Seq(E), NEW S
    PROVE  /\ Among(q, S) \in Seq(E)
           /\ ToSet(Among(q, S)) = ToSet(q) \cap S
           /\ IsInjective(q) => IsInjective(Among(q, S))
  <1>0. Len(q) \in Nat /\ DOMAIN q = 1 .. Len(q) /\ \A n \in 1 .. Len(q) : q[n] \in E
    OBVIOUS
  <1>1. PICK f : /\ Among(q, S) = f[Len(q)]
                 /\ f[0] = <<>>
                 /\ \A n \in 1 .. Len(q) :
                        f[n] = IF q[n] \in S THEN Append(f[n - 1], q[n]) ELSE f[n - 1]
    BY <1>0, AmongDef
  <1> DEFINE Good(n) == /\ f[n] \in Seq(E)
                        /\ ToSet(f[n]) = {q[i] : i \in 1 .. n} \cap S
                        /\ IsInjective(q) => IsInjective(f[n])
             P == {n \in Nat : n <= Len(q) => Good(n)}
  <1>2. 0 \in P
    <2>1. <<>> \in Seq(E) /\ DOMAIN <<>> = {}
      OBVIOUS
    <2>2. ToSet(<<>>) = {} /\ IsInjective(<<>>)
      BY <2>1 DEF ToSet, IsInjective
    <2>3. {q[i] : i \in 1 .. 0} = {}
      OBVIOUS
    <2> QED
      BY <1>1, <2>1, <2>2, <2>3
  <1>3. ASSUME NEW n \in Nat, n \in P PROVE n + 1 \in P
    <2> SUFFICES ASSUME n + 1 <= Len(q) PROVE Good(n + 1)
      OBVIOUS
    <2>1. Good(n) /\ n + 1 \in 1 .. Len(q) /\ (n + 1) - 1 = n
      BY <1>0, <1>3
    <2>2. f[n + 1] = IF q[n + 1] \in S THEN Append(f[n], q[n + 1]) ELSE f[n]
      BY <1>1, <2>1
    <2>3. {q[i] : i \in 1 .. n + 1} = {q[i] : i \in 1 .. n} \cup {q[n + 1]}
      <3>1. 1 .. n + 1 = (1 .. n) \cup {n + 1}
        OBVIOUS
      <3> QED
        BY <3>1
    <2>4. CASE q[n + 1] \in S
      <3>1. q[n + 1] \in E
        BY <1>0, <2>1
      <3>2. /\ f[n + 1] \in Seq(E)
            /\ ToSet(f[n + 1]) = ToSet(f[n]) \cup {q[n + 1]}
            /\ IsInjective(f[n]) /\ q[n + 1] \notin ToSet(f[n]) => IsInjective(f[n + 1])
        BY <2>1, <2>2, <2>4, <3>1, Appended
      <3>3. IsInjective(q) => q[n + 1] \notin ToSet(f[n])
        <4>1. ASSUME IsInjective(q), NEW i \in 1 .. n, q[i] = q[n + 1] PROVE FALSE
          <5>1. i \in DOMAIN q /\ n + 1 \in DOMAIN q /\ i # n + 1
            BY <1>0, <2>1
          <5> QED
            BY <4>1, <5>1 DEF IsInjective
        <4> QED
          BY <2>1, <4>1
      <3> QED
        BY <2>1, <2>3, <2>4, <3>2, <3>3
    <2>5. CASE q[n + 1] \notin S
      BY <2>1, <2>2, <2>3, <2>5
    <2> QED
      BY <2>4, <2>5
  <1>4. Good(Len(q))
    <2> HIDE DEF Good
    <2>1. Nat \subseteq P
      <3> HIDE DEF P
      <3> QED
        BY <1>2, <1>3, NatSets
    <2> QED
      BY <1>0, <2>1
  <1>5. {q[i] : i \in 1 .. Len(q)} = ToSet(q)
    BY <1>0 DEF ToSet
  <1> QED
    BY <1>1, <1>4, <1>5

(* What is in S and what is not make up the length of the sequence.        *)
LEMMA AmongSplit ==
    ASSUME NEW E, NEW q \in Seq(E), NEW S, NEW T,
           \A m \in ToSet(q) : m \in S <=> m \notin T
    PROVE  Len(Among(q, S)) + Len(Among(q, T)) = Len(q)
  <1>0. Len(q) \in Nat /\ \A n \in 1 .. Len(q) : q[n] \in E /\ (q[n] \in S <=> q[n] \notin T)
    <2>1. DOMAIN q = 1 .. Len(q) /\ Len(q) \in Nat /\ \A n \in 1 .. Len(q) : q[n] \in E
      OBVIOUS
    <2> QED
      BY <2>1 DEF ToSet
  <1>1. PICK f : /\ Among(q, S) = f[Len(q)]
                 /\ f[0] = <<>>
                 /\ \A n \in 1 .. Len(q) :
                        f[n] = IF q[n] \in S THEN Append(f[n - 1], q[n]) ELSE f[n - 1]
    BY <1>0, AmongDef
  <1>2. PICK g : /\ Among(q, T) = g[Len(q)]
                 /\ g[0] = <<>>
                 /\ \A n \in 1 .. Len(q) :
                        g[n] = IF q[n] \in T THEN Append(g[n - 1], q[n]) ELSE g[n - 1]
    BY <1>0, AmongDef
  <1> DEFINE Good(n) == /\ f[n] \in Seq(E) /\ g[n] \in Seq(E)
                        /\ Len(f[n]) + Len(g[n]) = n
             P == {n \in Nat : n <= Len(q) => Good(n)}
  <1>3. 0 \in P
    <2>1. <<>> \in Seq(E) /\ Len(<<>>) = 0 /\ 0 + 0 = 0
      OBVIOUS
    <2>2. Good(0)
      BY <1>1, <1>2, <2>1, Zenon
    <2> QED
      BY <2>2, Zenon
  <1>4. ASSUME NEW n \in Nat, n \in P PROVE n + 1 \in P
    <2> SUFFICES ASSUME n + 1 <= Len(q) PROVE Good(n + 1)
      <3> HIDE DEF Good
      <3> QED
        OBVIOUS
    <2>0. n <= Len(q) /\ n + 1 \in 1 .. Len(q) /\ (n + 1) - 1 = n
      BY <1>0
    <2>1. Good(n)
      <3> HIDE DEF Good
      <3> QED
        BY <1>4, <2>0
    <2>2. /\ f[n + 1] = IF q[n + 1] \in S THEN Append(f[n], q[n + 1]) ELSE f[n]
          /\ g[n + 1] = IF q[n + 1] \in T THEN Append(g[n], q[n + 1]) ELSE g[n]
      BY <1>1, <1>2, <2>0
    <2>3. q[n + 1] \in E /\ (q[n + 1] \in S <=> q[n + 1] \notin T)
      BY <1>0, <2>0
    <2>4. /\ Append(f[n], q[n + 1]) \in Seq(E) /\ Len(Append(f[n], q[n + 1])) = Len(f[n]) + 1
          /\ Append(g[n], q[n + 1]) \in Seq(E) /\ Len(Append(g[n], q[n + 1])) = Len(g[n]) + 1
          /\ Len(f[n]) \in Nat /\ Len(g[n]) \in Nat
      BY <2>1, <2>3, Appended
    <2> DEFINE a(k) == Len(f[k])
               b(k) == Len(g[k])
    <2>5. a(n) + b(n) = n /\ a(n) \in Nat /\ b(n) \in Nat
      BY <2>1, <2>4, Zenon
    <2>6. CASE q[n + 1] \in S
      <3>1. f[n + 1] = Append(f[n], q[n + 1]) /\ g[n + 1] = g[n]
        BY <2>2, <2>3, <2>6
      <3>2. f[n + 1] \in Seq(E) /\ g[n + 1] \in Seq(E)
        BY <2>1, <2>4, <3>1
      <3>3. a(n + 1) = a(n) + 1 /\ b(n + 1) = b(n)
        BY <2>4, <3>1
      <3>4. a(n + 1) + b(n + 1) = n + 1
        <4> HIDE DEF a, b
        <4> QED
          BY <2>5, <3>3
      <3> QED
        BY <3>2, <3>4, Zenon
    <2>7. CASE q[n + 1] \notin S
      <3>1. f[n + 1] = f[n] /\ g[n + 1] = Append(g[n], q[n + 1])
        BY <2>2, <2>3, <2>7
      <3>2. f[n + 1] \in Seq(E) /\ g[n + 1] \in Seq(E)
        BY <2>1, <2>4, <3>1
      <3>3. a(n + 1) = a(n) /\ b(n + 1) = b(n) + 1
        BY <2>4, <3>1
      <3>4. a(n + 1) + b(n + 1) = n + 1
        <4> HIDE DEF a, b
        <4> QED
          BY <2>5, <3>3
      <3> QED
        BY <3>2, <3>4, Zenon
    <2> QED
      BY <2>6, <2>7
  <1>5. Good(Len(q))
    <2> HIDE DEF Good
    <2>1. Nat \subseteq P
      <3> HIDE DEF P
      <3> QED
        BY <1>3, <1>4, NatSets
    <2> QED
      BY <1>0, <2>1
  <1> QED
    BY <1>1, <1>2, <1>5

(* Two sequences one after the other.                                      *)
LEMMA Joined ==
    ASSUME NEW E, NEW q \in Seq(E), NEW r \in Seq(E)
    PROVE  /\ q \o r \in Seq(E)
           /\ Len(q \o r) = Len(q) + Len(r) /\ Len(q) \in Nat /\ Len(r) \in Nat
           /\ ToSet(q \o r) = ToSet(q) \cup ToSet(r)
           /\ IsInjective(q) /\ IsInjective(r) /\ ToSet(q) \cap ToSet(r) = {}
                  => IsInjective(q \o r)
  <1> DEFINE s == q \o r
  <1>1. /\ s \in Seq(E) /\ Len(s) = Len(q) + Len(r) /\ Len(q) \in Nat /\ Len(r) \in Nat
        /\ DOMAIN q = 1 .. Len(q) /\ DOMAIN r = 1 .. Len(r) /\ DOMAIN s = 1 .. Len(q) + Len(r)
        /\ \A i \in 1 .. Len(q) : s[i] = q[i]
        /\ \A i \in 1 .. Len(r) : s[Len(q) + i] = r[i]
    OBVIOUS
  <1> HIDE DEF s
  <1>2. \A i \in DOMAIN s : \/ i \in DOMAIN q /\ s[i] = q[i]
                            \/ i - Len(q) \in DOMAIN r /\ s[i] = r[i - Len(q)]
    <2> SUFFICES ASSUME NEW i \in 1 .. Len(q) + Len(r)
                 PROVE  \/ i \in DOMAIN q /\ s[i] = q[i]
                        \/ i - Len(q) \in DOMAIN r /\ s[i] = r[i - Len(q)]
      BY <1>1
    <2>1. CASE i <= Len(q)
      BY <1>1, <2>1
    <2>2. CASE i > Len(q)
      <3>1. i - Len(q) \in 1 .. Len(r) /\ Len(q) + (i - Len(q)) = i
        BY <1>1, <2>2
      <3> QED
        BY <1>1, <3>1
    <2> QED
      BY <1>1, <2>1, <2>2
  <1>3. ToSet(s) = ToSet(q) \cup ToSet(r)
    <2>1. ToSet(s) \subseteq ToSet(q) \cup ToSet(r)
      BY <1>2 DEF ToSet
    <2>2. \A i \in DOMAIN q : i \in DOMAIN s /\ s[i] = q[i]
      BY <1>1
    <2>3. \A i \in DOMAIN r : Len(q) + i \in DOMAIN s /\ s[Len(q) + i] = r[i]
      BY <1>1
    <2> QED
      BY <2>1, <2>2, <2>3 DEF ToSet
  <1>4. ASSUME IsInjective(q), IsInjective(r), ToSet(q) \cap ToSet(r) = {}
        PROVE  IsInjective(s)
    <2> SUFFICES ASSUME NEW i \in DOMAIN s, NEW j \in DOMAIN s, s[i] = s[j]
                 PROVE  i = j
      BY DEF IsInjective
    <2>0. i \in Nat /\ j \in Nat /\ Len(q) \in Nat
      BY <1>1
    <2>1. CASE i \in DOMAIN q /\ s[i] = q[i] /\ j \in DOMAIN q /\ s[j] = q[j]
      BY <1>4, <2>1 DEF IsInjective
    <2>2. CASE /\ i - Len(q) \in DOMAIN r /\ s[i] = r[i - Len(q)]
               /\ j - Len(q) \in DOMAIN r /\ s[j] = r[j - Len(q)]
      <3>1. i - Len(q) = j - Len(q)
        BY <1>4, <2>2, Zenon DEF IsInjective
      <3> QED
        BY <2>0, <3>1
    <2>3. ASSUME NEW k \in DOMAIN q, NEW l \in DOMAIN r, q[k] = r[l] PROVE FALSE
      BY <1>4, <2>3 DEF ToSet
    <2> QED
      BY <1>2, <2>1, <2>2, <2>3
  <1> QED
    BY <1>1, <1>3, <1>4 DEF s

(* The last member of a sequence is taken.                                 *)
LEMMA LastTaken ==
    ASSUME NEW E, NEW q \in Seq(E), q # <<>>, IsInjective(q)
    PROVE  /\ Front(q) \in Seq(E) /\ IsInjective(Front(q))
           /\ Len(Front(q)) = Len(q) - 1 /\ Len(q) \in Nat \ {0}
           /\ Last(q) \in ToSet(q)
           /\ ToSet(Front(q)) = ToSet(q) \ {Last(q)}
  <1>1. Len(q) \in Nat \ {0} /\ DOMAIN q = 1 .. Len(q)
    OBVIOUS
  <1> DEFINE f == SubSeq(q, 1, Len(q) - 1)
  <1>2. /\ f \in Seq(E) /\ Len(f) = Len(q) - 1
        /\ DOMAIN f = 1 .. Len(q) - 1 /\ \A i \in 1 .. Len(q) - 1 : f[i] = q[i]
    BY <1>1
  <1> HIDE DEF f
  <1>3. IsInjective(f)
    <2>1. \A i \in DOMAIN f : i \in DOMAIN q /\ f[i] = q[i]
      BY <1>1, <1>2
    <2> QED
      BY <2>1 DEF IsInjective
  <1>4. Last(q) = q[Len(q)] /\ Len(q) \in DOMAIN q
    BY <1>1 DEF Last
  <1>5. ToSet(f) = ToSet(q) \ {Last(q)}
    <2>1. ASSUME NEW i \in DOMAIN f PROVE f[i] \in ToSet(q) /\ f[i] # Last(q)
      <3>1. i \in DOMAIN q /\ i # Len(q) /\ f[i] = q[i]
        BY <1>1, <1>2
      <3> QED
        BY <1>4, <3>1 DEF IsInjective, ToSet
    <2>2. ASSUME NEW i \in DOMAIN q, q[i] # Last(q) PROVE q[i] \in ToSet(f)
      <3>1. i # Len(q)
        BY <1>4, <2>2
      <3>2. i \in DOMAIN f /\ f[i] = q[i]
        BY <1>1, <1>2, <3>1
      <3> QED
        BY <3>2 DEF ToSet
    <2> QED
      BY <2>1, <2>2 DEF ToSet
  <1> QED
    BY <1>1, <1>2, <1>3, <1>4, <1>5 DEF f, Front, ToSet

(* A sequence in the opposite order.                                       *)
LEMMA Reversed ==
    ASSUME NEW E, NEW q \in Seq(E), IsInjective(q)
    PROVE  /\ Reverse(q) \in Seq(E) /\ IsInjective(Reverse(q))
           /\ Len(Reverse(q)) = Len(q) /\ ToSet(Reverse(q)) = ToSet(q)
  <1>1. Len(q) \in Nat /\ DOMAIN q = 1 .. Len(q)
    OBVIOUS
  <1>2. \A i \in 1 .. Len(q) :
            Len(q) - i + 1 \in 1 .. Len(q) /\ Len(q) - (Len(q) - i + 1) + 1 = i
    BY <1>1
  <1> DEFINE r == [i \in 1 .. Len(q) |-> q[(Len(q) - i) + 1]]
  <1>3. r \in [1 .. Len(q) -> E]
    BY <1>1, <1>2
  <1>4. r \in Seq(E) /\ Len(r) = Len(q) /\ DOMAIN r = 1 .. Len(q)
    <2> HIDE DEF r
    <2> QED
      BY <1>1, <1>3
  <1>5. \A i \in 1 .. Len(q) : r[i] = q[Len(q) - i + 1]
    OBVIOUS
  <1> HIDE DEF r
  <1>6. IsInjective(r)
    <2> SUFFICES ASSUME NEW i \in 1 .. Len(q), NEW j \in 1 .. Len(q), r[i] = r[j]
                 PROVE  i = j
      BY <1>4 DEF IsInjective
    <2>1. Len(q) - i + 1 = Len(q) - j + 1
      BY <1>1, <1>2, <1>5 DEF IsInjective
    <2> QED
      BY <1>1, <2>1
  <1>7. ToSet(r) = ToSet(q)
    <2>1. \A i \in 1 .. Len(q) : r[i] \in ToSet(q)
      BY <1>1, <1>2, <1>5 DEF ToSet
    <2>2. ASSUME NEW i \in 1 .. Len(q) PROVE q[i] \in ToSet(r)
      <3>1. r[Len(q) - i + 1] = q[i] /\ Len(q) - i + 1 \in DOMAIN r
        BY <1>2, <1>4, <1>5
      <3> QED
        BY <3>1 DEF ToSet
    <2> QED
      BY <1>1, <1>4, <2>1, <2>2 DEF ToSet
  <1> QED
    BY <1>4, <1>6, <1>7 DEF r, Reverse

-----------------------------------------------------------------------------
(* Where the entries are.                                                  *)

(* Every entry made is in one of the arrays, and there once.               *)
Placed ==
    /\ gusts \in Seq(Entries) /\ gustPool \in Seq(Entries)
    /\ IsInjective(gusts) /\ IsInjective(gustPool)
    /\ Active \cap ToSet(gustPool) = {}
    /\ Active \cup ToSet(gustPool) = 1 .. (Len(gusts) + Len(gustPool))

(* An entry lives while it is active, and a pooled one has forgotten.      *)
Living ==
    /\ remaining \in [Entries -> 0 .. Lifetime]
    /\ \A e \in Entries : remaining[e] > 0 <=> e \in Active
    /\ \A e \in ToSet(gustPool) : hitPodIds[e] = {}
    /\ ~world => gusts = <<>>

(* The cooldown of a source outlasts its gusts, but for irregular ones; so *)
(* a source that may launch has no other active gust.                      *)
Spacing ==
    /\ irregular \in [Entries -> BOOLEAN]
    /\ \A e \in Entries :
           remaining[e] > 0 /\ ~irregular[e] => remaining[e] <= cooldown[source[e]]
    /\ NoStacking

Switches ==
    /\ world \in BOOLEAN /\ presenting \in BOOLEAN
    /\ sampled \in [Hands -> BOOLEAN]
    /\ cooldown \in [Sources -> 0 .. Cooldown]

GInv == IInv /\ Placed /\ Living /\ Spacing /\ Switches

(* What is active or in the pool is an entry.                              *)
LEMMA ActiveEntries ==
    ASSUME Placed
    PROVE  /\ Active \subseteq Entries /\ ToSet(gustPool) \subseteq Entries
           /\ Len(gusts) \in Nat /\ Len(gustPool) \in Nat
  <1>1. /\ Len(gusts) \in Nat /\ \A i \in DOMAIN gusts : gusts[i] \in Entries
        /\ Len(gustPool) \in Nat /\ \A i \in DOMAIN gustPool : gustPool[i] \in Entries
    BY DEF Placed
  <1> QED
    BY <1>1 DEF Active, ToSet

(* The entries that end change their place, and no other does.             *)
LEMMA RemovedLemma ==
    ASSUME Placed, NEW ended \in Seq(Entries), IsInjective(ended),
           ToSet(ended) \subseteq Active,
           Len(Among(gusts, Active \ ToSet(ended))) + Len(ended) = Len(gusts),
           Removed(ended)
    PROVE  /\ Placed'
           /\ Active' = Active \ ToSet(ended)
           /\ ToSet(gustPool)' = ToSet(gustPool) \cup ToSet(ended)
           /\ Len(gusts)' + Len(gustPool)' = Len(gusts) + Len(gustPool)
  <1> DEFINE left == Active \ ToSet(ended)
  <1>1. /\ gusts' = Among(gusts, left) /\ gusts' \in Seq(Entries)
        /\ IsInjective(gusts') /\ Active' = left
    <2>1. /\ Among(gusts, left) \in Seq(Entries)
          /\ ToSet(Among(gusts, left)) = ToSet(gusts) \cap left
          /\ IsInjective(Among(gusts, left))
      BY AmongLemma DEF Placed
    <2> QED
      BY <2>1 DEF Removed, Active
  <1>2. /\ gustPool' = gustPool \o ended /\ gustPool' \in Seq(Entries)
        /\ Len(gustPool') = Len(gustPool) + Len(ended)
        /\ Len(gustPool) \in Nat /\ Len(ended) \in Nat
        /\ ToSet(gustPool') = ToSet(gustPool) \cup ToSet(ended)
        /\ IsInjective(gustPool')
    <2>1. ToSet(gustPool) \cap ToSet(ended) = {}
      BY DEF Placed
    <2> QED
      BY <2>1, Joined DEF Placed, Removed
  <1>3. Len(gusts') + Len(gustPool') = Len(gusts) + Len(gustPool)
    <2>1. Len(gusts') + Len(ended) = Len(gusts) /\ Len(gusts') \in Nat /\ Len(gusts) \in Nat
      BY <1>1 DEF Placed
    <2>2. /\ Len(gustPool') = Len(gustPool) + Len(ended)
          /\ Len(gustPool) \in Nat /\ Len(ended) \in Nat
      BY <1>2
    <2> HIDE DEF left
    <2> QED
      BY ONLY <2>1, <2>2
  <1>4. Active' \cap ToSet(gustPool') = {}
    BY <1>1, <1>2 DEF Placed
  <1>5. Active' \cup ToSet(gustPool') = 1 .. (Len(gusts') + Len(gustPool'))
    BY <1>1, <1>2, <1>3 DEF Placed
  <1> QED
    BY <1>1, <1>2, <1>3, <1>4, <1>5 DEF Placed

(* acquireGust finds an entry that is not active.                          *)
LEMMA AcquireLemma ==
    ASSUME Placed, NEW e \in Entries, AcquireGust(e), gusts' = Append(gusts, e)
    PROVE  /\ Placed' /\ e \notin Active
           /\ Active' = Active \cup {e}
           /\ ToSet(gustPool)' = ToSet(gustPool) \ {e}
  <1>0. Len(gusts) \in Nat /\ Len(gustPool) \in Nat
    BY ActiveEntries
  <1>1. /\ e \notin Active /\ gustPool' \in Seq(Entries) /\ IsInjective(gustPool')
        /\ ToSet(gustPool') = ToSet(gustPool) \ {e}
        /\ (Active \cup {e}) \cup ToSet(gustPool') = 1 .. (Len(gusts) + 1 + Len(gustPool'))
    <2>1. CASE gustPool # <<>>
      <3>1. /\ e = Last(gustPool) /\ gustPool' = Front(gustPool)
        BY <2>1 DEF AcquireGust
      <3>2. /\ gustPool' \in Seq(Entries) /\ IsInjective(gustPool')
            /\ Len(gustPool') = Len(gustPool) - 1
            /\ e \in ToSet(gustPool) /\ ToSet(gustPool') = ToSet(gustPool) \ {e}
        BY <2>1, <3>1, LastTaken DEF Placed
      <3>3. Len(gusts) + 1 + Len(gustPool') = Len(gusts) + Len(gustPool)
        BY <1>0, <3>2
      <3> QED
        BY <3>2, <3>3 DEF Placed
    <2>2. CASE gustPool = <<>>
      <3>1. e = Len(gusts) + 1 /\ gustPool' = <<>>
        BY <2>2 DEF AcquireGust
      <3>2. ToSet(gustPool) = {} /\ ToSet(gustPool') = {} /\ Len(gustPool) = 0 /\ Len(gustPool') = 0
        BY <2>2, <3>1 DEF ToSet
      <3>3. Active = 1 .. Len(gusts)
        BY <1>0, <3>2 DEF Placed
      <3>4. e \notin Active /\ Active \cup {e} = 1 .. Len(gusts) + 1
        BY <1>0, <3>1, <3>3
      <3> QED
        BY <1>0, <2>2, <3>1, <3>2, <3>4 DEF Placed
    <2> QED
      BY <2>1, <2>2
  <1>2. /\ gusts' \in Seq(Entries) /\ Len(gusts') = Len(gusts) + 1
        /\ Active' = Active \cup {e} /\ IsInjective(gusts')
    BY <1>1, Appended DEF Placed, Active
  <1>3. Active' \cap ToSet(gustPool') = {}
    BY <1>1, <1>2 DEF Placed
  <1> QED
    BY <1>1, <1>2, <1>3 DEF Placed

(* A gust of a source that may launch is irregular: the cooldown of the    *)
(* others is not over.                                                     *)
LEMMA LaunchKeeps ==
    ASSUME GInv, NEW s \in Sources, LaunchGust(s), cooldown[s] = 0,
           world' = world
    PROVE  /\ Placed' /\ Living' /\ Spacing'
           /\ cooldown' \in [Sources -> 0 .. Cooldown]
  <1>0. /\ Cooldown \in Nat /\ Lifetime \in Nat /\ Lifetime > 0 /\ Lifetime <= Cooldown
    BY GustAssumption
  <1>1. PICK e \in Entries :
            /\ AcquireGust(e)
            /\ gusts' = Append(gusts, e)
            /\ remaining' = [remaining EXCEPT ![e] = Lifetime]
            /\ hitPodIds' = [hitPodIds EXCEPT ![e] = {}]
            /\ source' = [source EXCEPT ![e] = s]
            /\ irregular' = [irregular EXCEPT ![e] = FALSE]
    BY DEF LaunchGust
  <1>2. /\ Placed' /\ e \notin Active
        /\ Active' = Active \cup {e}
        /\ ToSet(gustPool)' = ToSet(gustPool) \ {e}
    BY <1>1, AcquireLemma DEF GInv
  <1>3. cooldown' = [cooldown EXCEPT ![s] = Cooldown] /\ world
    BY DEF LaunchGust, StartCooldown
  <1>4. cooldown' \in [Sources -> 0 .. Cooldown]
    BY <1>0, <1>3 DEF GInv, Switches
  <1>5. /\ remaining' \in [Entries -> 0 .. Lifetime] /\ remaining'[e] = Lifetime
        /\ \A f \in Entries : f # e => remaining'[f] = remaining[f]
    BY <1>0, <1>1 DEF GInv, Living
  <1>6. source' \in [Entries -> Sources] /\ source'[e] = s
        /\ \A f \in Entries : f # e => source'[f] = source[f]
    BY <1>1 DEF GInv, IInv
  <1>7. /\ irregular' \in [Entries -> BOOLEAN] /\ ~irregular'[e]
        /\ \A f \in Entries : f # e => (irregular'[f] <=> irregular[f])
    BY <1>1, Zenon DEF GInv, Spacing
  <1>8. Living'
    <2>1. \A f \in Entries : remaining'[f] > 0 <=> f \in Active'
      BY <1>0, <1>2, <1>5 DEF GInv, Living
    <2>2. \A f \in ToSet(gustPool)' : hitPodIds'[f] = {}
      <3>1. \A f \in ToSet(gustPool) : f # e => hitPodIds'[f] = hitPodIds[f]
        BY <1>1, ActiveEntries DEF GInv, IInv, Pushes
      <3> QED
        BY <1>2, <3>1 DEF GInv, Living
    <2>3. world'
      BY <1>3 DEF LaunchGust, GInv
    <2> QED
      BY <1>5, <2>1, <2>2, <2>3 DEF Living
  <1>9. \A f \in Entries : f # e /\ f \in Active /\ source[f] = s => irregular[f]
    BY <1>0 DEF GInv, Living, Spacing
  <1>10. ASSUME NEW f \in Entries, remaining'[f] > 0, ~irregular'[f]
         PROVE  remaining'[f] <= cooldown'[source'[f]]
    <2>1. CASE f = e
      BY <1>0, <1>3, <1>5, <1>6, <2>1 DEF GInv, Switches
    <2>2. CASE f # e
      <3>1. remaining[f] > 0 /\ ~irregular[f] /\ source'[f] = source[f] /\ source[f] \in Sources
        BY <1>5, <1>6, <1>7, <1>10, <2>2 DEF GInv, IInv
      <3>2. source[f] # s
        BY <1>9, <2>2, <3>1 DEF GInv, Living
      <3>3. cooldown'[source[f]] = cooldown[source[f]]
        BY <1>3, <3>1, <3>2 DEF GInv, Switches
      <3> QED
        BY <1>5, <2>2, <3>1, <3>3 DEF GInv, Spacing
    <2> QED
      BY <2>1, <2>2
  <1>11. NoStacking'
    <2> SUFFICES ASSUME NEW f \in Active', NEW g \in Active', f # g, source'[f] = source'[g]
                 PROVE  irregular'[f] \/ irregular'[g]
      BY DEF NoStacking
    <2>0. f \in Entries /\ g \in Entries
      BY <1>2, ActiveEntries DEF GInv
    <2>1. CASE f = e
      BY <1>2, <1>6, <1>7, <1>9, <2>0, <2>1
    <2>2. CASE g = e
      BY <1>2, <1>6, <1>7, <1>9, <2>0, <2>2
    <2>3. CASE f # e /\ g # e
      <3>1. f \in Active /\ g \in Active /\ source[f] = source[g]
        BY <1>2, <1>6, <2>0, <2>3
      <3>2. irregular[f] \/ irregular[g]
        BY <3>1 DEF GInv, Spacing, NoStacking
      <3> QED
        BY <1>7, <2>0, <2>3, <3>2
    <2> QED
      BY <2>1, <2>2, <2>3
  <1> QED
    BY <1>2, <1>4, <1>7, <1>8, <1>10, <1>11 DEF Spacing

(* Gusts that lose at least the time that cooldowns lose stay spaced.      *)
LEMMA CooledKeeps ==
    ASSUME GInv, NEW d \in Nat, NEW ss \in SUBSET Sources, Cooled(d, ss),
           source' = source, Active' \subseteq Active,
           remaining' \in [Entries -> Nat],
           \A e \in Entries : remaining'[e] > 0 =>
               remaining[e] > 0 /\ (d > MaxDelta \/ remaining'[e] + d <= remaining[e])
    PROVE  Spacing' /\ cooldown' \in [Sources -> 0 .. Cooldown]
  <1>0. Cooldown \in Nat /\ MaxDelta \in Nat
    BY GustAssumption
  <1>1. /\ cooldown' \in [Sources -> 0 .. Cooldown]
        /\ \A s \in Sources : cooldown'[s] = IF s \in ss THEN 0 ELSE Left(cooldown[s], d)
    <2>1. \A s \in Sources : cooldown[s] \in 0 .. Cooldown /\ Left(cooldown[s], d) \in 0 .. Cooldown
      BY <1>0, LeftLemma DEF GInv, Switches
    <2> QED
      BY <1>0, <2>1 DEF Cooled
  <1>2. /\ irregular' \in [Entries -> BOOLEAN]
        /\ \A e \in Entries : irregular'[e] <=> d > MaxDelta \/ source[e] \in ss \/ irregular[e]
    BY Zenon DEF Cooled, GInv, Spacing
  <1>3. ASSUME NEW e \in Entries, remaining'[e] > 0, ~irregular'[e]
        PROVE  remaining'[e] <= cooldown'[source'[e]]
    <2>1. d <= MaxDelta /\ source[e] \notin ss /\ ~irregular[e]
      BY <1>0, <1>2, <1>3
    <2>2. source[e] \in Sources /\ cooldown'[source[e]] = Left(cooldown[source[e]], d)
      BY <1>1, <2>1 DEF GInv, IInv
    <2>3. /\ remaining'[e] + d <= remaining[e] /\ remaining[e] <= cooldown[source[e]]
          /\ remaining[e] > 0
      BY <1>0, <1>3, <2>1 DEF GInv, Spacing
    <2>4. remaining[e] \in Nat /\ cooldown[source[e]] \in Nat /\ remaining'[e] \in Nat
      BY <1>0, <2>2 DEF GInv, Switches, IInv, Pushes
    <2> QED
      BY <1>3, <2>2, <2>3, <2>4 DEF Left
  <1>4. NoStacking'
    <2> SUFFICES ASSUME NEW f \in Active', NEW g \in Active', f # g, source'[f] = source'[g]
                 PROVE  irregular'[f] \/ irregular'[g]
      BY DEF NoStacking
    <2>1. f \in Entries /\ g \in Entries /\ f \in Active /\ g \in Active
      BY ActiveEntries DEF GInv
    <2> QED
      BY <1>2, <2>1 DEF GInv, Spacing, NoStacking
  <1> QED
    BY <1>1, <1>2, <1>3, <1>4 DEF Spacing

(* A frame moves the gusts that end, in their order, to the pool.          *)
LEMMA AdvanceKeeps ==
    ASSUME GInv, NEW d \in Nat, AdvanceGusts(d), d > 0, world' = world, world
    PROVE  /\ Placed' /\ Living' /\ source' = source /\ Active' \subseteq Active
           /\ \A e \in Entries : remaining'[e] > 0 =>
               remaining[e] > 0 /\ (d > MaxDelta \/ remaining'[e] + d <= remaining[e])
           /\ \A e \in Entries : remaining[e] > 0 => remaining'[e] < remaining[e]
  <1> DEFINE live == {e \in Active : Aged(e, d) > 0}
             ended == Among(gusts, Active \ live)
  <1>0. MaxDelta \in Nat /\ MaxDelta > 0 /\ Lifetime \in Nat
    BY GustAssumption
  <1>1. PICK touched \in [live -> SUBSET Pods], loose \in SUBSET Pods :
            ApplyGusts(live, touched, loose)
    BY Zenon DEF AdvanceGusts
  <1>2. /\ remaining' = [e \in Entries |-> IF e \in Active THEN Aged(e, d) ELSE remaining[e]]
        /\ Removed(ended) /\ source' = source
    BY DEF AdvanceGusts
  <1>3. /\ ended \in Seq(Entries) /\ IsInjective(ended)
        /\ ToSet(ended) = Active \ live
    <2> HIDE DEF live
    <2>1. ToSet(ended) = ToSet(gusts) \cap (Active \ live)
      BY AmongLemma DEF GInv, Placed
    <2> QED
      BY <2>1, AmongLemma DEF GInv, Placed, Active
  <1>4. Len(Among(gusts, Active \ ToSet(ended))) + Len(ended) = Len(gusts)
    <2> HIDE DEF live
    <2>1. \A m \in ToSet(gusts) : m \in Active \ (Active \ live) <=> m \notin Active \ live
      BY DEF Active
    <2>2. Len(Among(gusts, Active \ (Active \ live))) + Len(Among(gusts, Active \ live)) = Len(gusts)
      BY <2>1, AmongSplit DEF GInv, Placed
    <2> QED
      BY <1>3, <2>2
  <1>5. /\ Placed' /\ Active' = live
        /\ ToSet(gustPool)' = ToSet(gustPool) \cup (Active \ live)
    <2>1. /\ Placed' /\ Active' = Active \ ToSet(ended)
          /\ ToSet(gustPool)' = ToSet(gustPool) \cup ToSet(ended)
      <3> HIDE DEF live, ended
      <3> QED
        BY <1>2, <1>3, <1>4, RemovedLemma DEF GInv
    <2>2. live \subseteq Active
      OBVIOUS
    <2> HIDE DEF live, ended
    <2> QED
      BY <1>3, <2>1, <2>2
  <1>6. \A e \in Entries : /\ Aged(e, d) \in Nat /\ Aged(e, d) <= remaining[e]
                           /\ remaining[e] > 0 => Aged(e, d) < remaining[e]
                           /\ Aged(e, d) > 0 => d > MaxDelta \/ Aged(e, d) + d <= remaining[e]
    BY <1>0 DEF Aged, Left, Lesser, GInv, IInv, Pushes
  <1>7. /\ remaining' \in [Entries -> 0 .. Lifetime]
        /\ \A e \in Entries :
               remaining'[e] = IF e \in Active THEN Aged(e, d) ELSE remaining[e]
    BY <1>0, <1>2, <1>6 DEF GInv, Living
  <1>8. \A e \in Entries : remaining[e] > 0 <=> e \in Active
    BY DEF GInv, Living
  <1>9. \A e \in Entries : remaining'[e] > 0 <=> e \in live
    BY <1>0, <1>6, <1>7, <1>8 DEF GInv, Living
  <1>10. \A e \in ToSet(gustPool)' : hitPodIds'[e] = {}
    <2>1. \A e \in Entries :
               hitPodIds'[e] = IF e \in live THEN hitPodIds[e] \cup touched[e]
                               ELSE IF e \in Active THEN {} ELSE hitPodIds[e]
      BY <1>1 DEF ApplyGusts
    <2>2. \A e \in ToSet(gustPool) : e \in Entries /\ e \notin Active /\ hitPodIds[e] = {}
      BY ActiveEntries DEF GInv, Placed, Living
    <2>3. Active \subseteq Entries /\ live \subseteq Active
      BY ActiveEntries DEF GInv
    <2> HIDE DEF live
    <2> QED
      BY <1>5, <2>1, <2>2, <2>3
  <1>11. Living'
    <2> HIDE DEF live
    <2> QED
      BY <1>5, <1>7, <1>9, <1>10 DEF Living
  <1>12. \A e \in Entries : remaining'[e] > 0 =>
               remaining[e] > 0 /\ (d > MaxDelta \/ remaining'[e] + d <= remaining[e])
    BY <1>6, <1>7, <1>8, <1>9
  <1>13. \A e \in Entries : remaining[e] > 0 => remaining'[e] < remaining[e]
    BY <1>6, <1>7, <1>8
  <1> QED
    BY <1>2, <1>5, <1>11, <1>12, <1>13

(* A sequence without members.                                             *)
LEMMA Emptied ==
    ASSUME NEW E, NEW q \in Seq(E), ToSet(q) = {}
    PROVE  q = <<>> /\ Len(q) = 0
  <1>1. DOMAIN q = {}
    BY DEF ToSet
  <1> QED
    BY <1>1

(* A reset moves every gust to the pool.                                   *)
LEMMA ResetKeeps ==
    ASSUME GInv, ResetScene
    PROVE  /\ Placed' /\ Living' /\ Active' = {}
           /\ \A e \in Entries : remaining'[e] = 0
  <1>0. Lifetime \in Nat
    BY GustAssumption
  <1>1. /\ Reverse(gusts) \in Seq(Entries) /\ IsInjective(Reverse(gusts))
        /\ Len(Reverse(gusts)) = Len(gusts) /\ ToSet(Reverse(gusts)) = Active
    BY Reversed DEF GInv, Placed, Active
  <1>2. Len(Among(gusts, Active \ ToSet(Reverse(gusts)))) + Len(Reverse(gusts)) = Len(gusts)
    <2>1. Active \ ToSet(Reverse(gusts)) = {}
      BY <1>1
    <2>2. Among(gusts, {}) \in Seq(Entries) /\ ToSet(Among(gusts, {})) = {}
      BY AmongLemma DEF GInv, Placed
    <2>3. Len(Among(gusts, {})) = 0
      BY <2>2, Emptied
    <2>4. Len(gusts) \in Nat
      BY ActiveEntries DEF GInv
    <2>5. Len(Among(gusts, Active \ ToSet(Reverse(gusts)))) = 0
      BY <2>1, <2>3
    <2>6. Len(Reverse(gusts)) = Len(gusts)
      BY <1>1
    <2> QED
      BY ONLY <2>4, <2>5, <2>6
  <1>3. /\ Placed' /\ Active' = {}
        /\ ToSet(gustPool)' = ToSet(gustPool) \cup Active
    <2>1. Removed(Reverse(gusts))
      BY DEF ResetScene
    <2> QED
      BY <1>1, <1>2, <2>1, RemovedLemma DEF GInv
  <1>4. /\ remaining' = [e \in Entries |-> IF e \in Active THEN 0 ELSE remaining[e]]
        /\ hitPodIds' = [e \in Entries |-> IF e \in Active THEN {} ELSE hitPodIds[e]]
        /\ world' = world
    BY DEF ResetScene
  <1>5. /\ remaining' \in [Entries -> 0 .. Lifetime]
        /\ \A e \in Entries : remaining'[e] = 0
    BY <1>0, <1>4 DEF GInv, Living
  <1>6. \A e \in ToSet(gustPool)' : hitPodIds'[e] = {}
    <2>1. ToSet(gustPool)' \subseteq Entries
      BY <1>3, ActiveEntries DEF GInv
    <2> QED
      BY <1>3, <1>4, <2>1 DEF GInv, Living
  <1>7. ~world' => gusts' = <<>>
    <2>1. gusts' \in Seq(Entries) /\ ToSet(gusts') = {}
      BY <1>3 DEF Placed, Active
    <2> QED
      BY <2>1, Emptied
  <1> QED
    BY <1>3, <1>5, <1>6, <1>7 DEF Living

(* In the beginning the invariant holds.                                   *)
LEMMA InitGusts == Init => GInv
  <1> SUFFICES ASSUME Init PROVE GInv
    OBVIOUS
  <1>0. Lifetime \in Nat /\ Cooldown \in Nat
    BY GustAssumption
  <1>1. gusts = <<>> /\ gustPool = <<>> /\ Active = {} /\ ToSet(gustPool) = {}
    BY DEF Init, Active, ToSet
  <1>2. Placed
    <2>1. <<>> \in Seq(Entries) /\ Len(<<>>) = 0 /\ DOMAIN <<>> = {}
      OBVIOUS
    <2> QED
      BY <1>1, <2>1 DEF Placed, IsInjective
  <1>3. Living
    BY <1>0, <1>1 DEF Init, Living
  <1>4. Spacing
    BY <1>1 DEF Init, Spacing, NoStacking
  <1>5. Switches
    <2>1. sampled \in [Hands -> BOOLEAN]
      BY Zenon DEF Init
    <2>2. cooldown \in [Sources -> 0 .. Cooldown]
      BY <1>0 DEF Init
    <2>3. world \in BOOLEAN /\ presenting \in BOOLEAN
      BY Zenon DEF Init
    <2> QED
      BY <2>1, <2>2, <2>3, Zenon DEF Switches
  <1> QED
    BY <1>2, <1>3, <1>4, <1>5, InitInv DEF GInv

(* Tasks and turns that leave the gusts alone let at most their sources    *)
(* cool.                                                                   *)
LEMMA QuietKeeps ==
    ASSUME GInv, UNCHANGED <<world, entries>>, NEW ss \in SUBSET Sources,
           Cooled(0, ss) \/ UNCHANGED <<cooldown, irregular>>
    PROVE  /\ Placed' /\ Living' /\ Spacing'
           /\ cooldown' \in [Sources -> 0 .. Cooldown]
  <1>1. Active' = Active
    BY DEF Active, entries
  <1>2. Placed' /\ Living'
    BY <1>1 DEF entries, GInv, Placed, Living
  <1>3. Spacing' /\ cooldown' \in [Sources -> 0 .. Cooldown]
    <2>1. CASE Cooled(0, ss)
      <3>1. \A e \in Entries : remaining[e] \in Nat /\ remaining[e] + 0 = remaining[e]
        BY DEF GInv, IInv, Pushes
      <3> QED
        BY <1>1, <2>1, <3>1, CooledKeeps DEF entries, GInv, IInv, Pushes
    <2>2. CASE UNCHANGED <<cooldown, irregular>>
      BY <1>1, <2>2 DEF entries, GInv, Spacing, NoStacking, Switches
    <2> QED
      BY <2>1, <2>2
  <1> QED
    BY <1>2, <1>3

(* Every step keeps it.                                                    *)
LEMMA GustStep ==
    ASSUME GInv, [Next]_vars
    PROVE  GInv'
  <1>0. IInv' /\ Cooldown \in Nat
    BY StepLemma, GustAssumption DEF GInv
  <1> SUFFICES /\ Placed' /\ Living' /\ Spacing' /\ cooldown' \in [Sources -> 0 .. Cooldown]
               /\ world' \in BOOLEAN /\ presenting' \in BOOLEAN
               /\ sampled' \in [Hands -> BOOLEAN]
    BY <1>0 DEF GInv, Switches
  <1>1. Hands \in SUBSET Sources /\ Sources \in SUBSET Sources /\ "desktop" \in Sources
    BY DEF Sources
  <1>2. CASE InitializePhysics
    <2>1. UNCHANGED <<entries, cooldown, irregular, sampled, presenting>> /\ world' = TRUE
      BY <1>2 DEF InitializePhysics, sources, hands
    <2>2. Active' = Active
      BY <2>1 DEF Active, entries
    <2> QED
      BY <2>1, <2>2 DEF entries, GInv, Placed, Living, Spacing, NoStacking, Switches
  <1>3. CASE EnterXR \/ UNCHANGED vars
    <2>1. /\ UNCHANGED <<world, entries, cooldown, irregular, sampled>>
          /\ presenting' \in BOOLEAN
      BY <1>3 DEF EnterXR, vars, sources, hands, GInv, Switches
    <2> QED
      BY <1>1, <2>1, QuietKeeps DEF GInv, Switches
  <1>4. CASE LeaveXR
    <2>1. /\ UNCHANGED <<world, entries>> /\ presenting' = FALSE
          /\ \/ ClearHands(Hands) /\ Cooled(0, Hands)
             \/ UNCHANGED <<sampled, cooldown, irregular>>
      BY <1>4 DEF LeaveXR, hands, sources
    <2>2. sampled' \in [Hands -> BOOLEAN]
      BY <2>1, Zenon DEF ClearHands, GInv, Switches
    <2> QED
      BY <1>1, <2>1, <2>2, QuietKeeps DEF GInv, Switches
  <1>5. CASE TriggerDesktopGust
    <2>1. /\ LaunchGust("desktop") /\ cooldown["desktop"] = 0
          /\ UNCHANGED <<world, presenting, sampled>>
      BY <1>5 DEF TriggerDesktopGust, hands
    <2> QED
      BY <1>1, <2>1, LaunchKeeps DEF GInv, Switches
  <1>6. CASE ResetScene
    <2>1. /\ Placed' /\ Living' /\ Active' = {}
          /\ \A e \in Entries : remaining'[e] = 0
      BY <1>6, ResetKeeps
    <2>2. /\ UNCHANGED <<world, presenting, source>>
          /\ ClearHands(Hands) /\ Cooled(0, Sources)
      BY <1>6 DEF ResetScene
    <2>3. remaining' \in [Entries -> Nat]
      BY <1>0 DEF IInv, Pushes
    <2>4. Spacing' /\ cooldown' \in [Sources -> 0 .. Cooldown]
      BY <1>1, <2>1, <2>2, <2>3, CooledKeeps
    <2>5. sampled' \in [Hands -> BOOLEAN]
      BY <2>2, Zenon DEF ClearHands
    <2> QED
      BY <2>1, <2>2, <2>4, <2>5 DEF GInv, Switches
  <1>7. CASE RenderFrame
    <2>1. PICK d \in 1 .. MaxFrame :
              /\ IF world THEN AdvanceGusts(d) ELSE UNCHANGED entries
              /\ Cooled(d, IF presenting THEN {} ELSE Hands)
      BY <1>7 DEF RenderFrame
    <2>2. UNCHANGED <<world, presenting>> /\ d \in Nat /\ d > 0
      BY <1>7 DEF RenderFrame
    <2>3. sampled' \in [Hands -> BOOLEAN]
      <3>1. UNCHANGED hands \/ ClearHands(Hands)
        BY <1>7 DEF RenderFrame
      <3> QED
        BY <3>1, Zenon DEF hands, ClearHands, GInv, Switches
    <2>4. (IF presenting THEN {} ELSE Hands) \in SUBSET Sources
      BY <1>1
    <2>5. remaining' \in [Entries -> Nat]
      BY <1>0 DEF IInv, Pushes
    <2>6. /\ Placed' /\ Living' /\ source' = source /\ Active' \subseteq Active
          /\ \A e \in Entries : remaining'[e] > 0 =>
                 remaining[e] > 0 /\ (d > MaxDelta \/ remaining'[e] + d <= remaining[e])
      <3>1. CASE world
        <4>1. AdvanceGusts(d)
          BY <2>1, <3>1
        <4> QED
          BY <2>2, <3>1, <4>1, AdvanceKeeps
      <3>2. CASE ~world
        <4>1. UNCHANGED entries
          BY <2>1, <3>2
        <4>2. Active' = Active /\ Active = {}
          BY <3>2, <4>1 DEF entries, Active, ToSet, GInv, Living
        <4>3. \A e \in Entries : ~(remaining'[e] > 0)
          BY <4>1, <4>2 DEF entries, GInv, Living
        <4>4. Placed' /\ Living' /\ source' = source
          BY <2>2, <4>1, <4>2 DEF entries, GInv, Placed, Living
        <4> QED
          BY <4>2, <4>3, <4>4
      <3> QED
        BY <3>1, <3>2
    <2>7. Spacing' /\ cooldown' \in [Sources -> 0 .. Cooldown]
      BY <2>1, <2>2, <2>4, <2>5, <2>6, CooledKeeps
    <2> QED
      BY <2>2, <2>3, <2>6, <2>7 DEF GInv, Switches
  <1>8. CASE HandLost
    <2>1. /\ step \in Hands /\ ClearHands({step}) /\ Cooled(0, {step})
          /\ UNCHANGED <<world, presenting, entries>>
      BY <1>8 DEF HandLost
    <2>2. {step} \in SUBSET Sources
      BY <1>1, <2>1
    <2>3. sampled' \in [Hands -> BOOLEAN]
      BY <2>1, Zenon DEF ClearHands
    <2> QED
      BY <2>1, <2>2, <2>3, QuietKeeps DEF GInv, Switches
  <1>9. CASE HandBusy
    <2>1. /\ UNCHANGED <<world, presenting, entries, cooldown, irregular>>
          /\ sampled' = [sampled EXCEPT ![step] = world]
      BY <1>9 DEF HandBusy, sources
    <2>2. sampled' \in [Hands -> BOOLEAN]
      BY <2>1, Zenon DEF GInv, Switches
    <2> QED
      BY <1>1, <2>1, <2>2, QuietKeeps DEF GInv, Switches
  <1>10. CASE TryTriggerHandGust
    <2>1. /\ UNCHANGED <<world, presenting>> /\ step \in Sources
          /\ sampled' = [sampled EXCEPT ![step] = TRUE]
      BY <1>1, <1>10 DEF TryTriggerHandGust
    <2>2. sampled' \in [Hands -> BOOLEAN]
      BY <2>1, Zenon DEF GInv, Switches
    <2>3. \/ LaunchGust(step) /\ cooldown[step] = 0
          \/ UNCHANGED <<entries, cooldown, irregular>>
      BY <1>10 DEF TryTriggerHandGust, MayLaunch, sources
    <2>4. CASE LaunchGust(step) /\ cooldown[step] = 0
      BY <2>1, <2>2, <2>4, LaunchKeeps DEF GInv, Switches
    <2>5. CASE UNCHANGED <<entries, cooldown, irregular>>
      BY <1>1, <2>1, <2>2, <2>5, QuietKeeps DEF GInv, Switches
    <2> QED
      BY <2>3, <2>4, <2>5
  <1> QED
    BY <1>2, <1>3, <1>4, <1>5, <1>6, <1>7, <1>8, <1>9, <1>10 DEF Next, Frame

(* It holds throughout.                                                    *)
LEMMA GustInvariance == Spec => []GInv
  <1>1. GInv /\ [Next]_vars => GInv'
    BY GustStep
  <1> QED
    BY InitGusts, <1>1, PTL DEF Spec

(* It includes the types.                                                  *)
LEMMA TypedGusts == GInv => TypeOK
  <1> SUFFICES ASSUME GInv PROVE TypeOK
    OBVIOUS
  <1>0. MaxGusts \in Nat
    BY GustAssumption
  <1>1. Len(gusts) + Len(gustPool) <= MaxGusts /\ Len(gusts) \in Nat /\ Len(gustPool) \in Nat
    <2>1. /\ 1 .. (Len(gusts) + Len(gustPool)) \subseteq 1 .. MaxGusts
          /\ Len(gusts) \in Nat /\ Len(gustPool) \in Nat
      BY ActiveEntries DEF GInv, Placed, Entries
    <2>2. ASSUME NEW n \in Nat, 1 .. n \subseteq 1 .. MaxGusts PROVE n <= MaxGusts
      <3>1. CASE n = 0
        BY <1>0, <3>1
      <3>2. CASE n > 0
        <4>1. n \in 1 .. n
          BY <3>2
        <4> QED
          BY <1>0, <2>2, <4>1
      <3> QED
        BY <3>1, <3>2
    <2> QED
      BY <2>1, <2>2
  <1>2. ASSUME NEW q \in Seq(Entries), Len(q) <= MaxGusts
        PROVE  q \in BoundedSeq(Entries, MaxGusts)
    <2>1. q \in [1 .. Len(q) -> Entries] /\ Len(q) \in 0 .. MaxGusts
      BY <1>0, <1>2
    <2> QED
      BY <2>1 DEF BoundedSeq, SeqOf
  <1>3. gusts \in BoundedSeq(Entries, MaxGusts) /\ gustPool \in BoundedSeq(Entries, MaxGusts)
    BY <1>0, <1>1, <1>2 DEF GInv, Placed
  <1> QED
    BY <1>3 DEF TypeOK, GInv, IInv, Placed, Living, Switches, Pushes, Latched, Stepping

(* An entry is in one place: active with time left, in the pool without    *)
(* time or hits, or not made yet; no two arrays ever hold it, and the      *)
(* arrays hold every entry ever made.                                      *)
THEOREM Accounted == Spec => []EntriesAccounted
  <1>1. GInv => EntriesAccounted
    <2> SUFFICES ASSUME GInv PROVE EntriesAccounted
      OBVIOUS
    <2> DEFINE all == gusts \o gustPool
    <2>1. /\ Len(all) = Len(gusts) + Len(gustPool)
          /\ ToSet(all) = Active \cup ToSet(gustPool)
          /\ IsInjective(all)
      BY Joined DEF GInv, Placed, Active
    <2>2. ToSet(all) = 1 .. Len(all)
      <3> HIDE DEF all
      <3> QED
        BY <2>1 DEF GInv, Placed
    <2> HIDE DEF all
    <2>3. /\ \A e \in Entries : remaining[e] > 0 <=> e \in Active
          /\ \A e \in ToSet(gustPool) : hitPodIds[e] = {}
      BY DEF GInv, Living
    <2> QED
      BY <2>1, <2>2, <2>3, TypedGusts DEF EntriesAccounted, all
  <1> QED
    BY GustInvariance, <1>1, PTL

(* Two gusts of a source are there at once only if it was reset or a frame *)
(* was too long: the cooldown outlasts every other gust.                   *)
THEOREM NoStackingHolds == Spec => []NoStacking
  <1>1. GInv => NoStacking
    BY DEF GInv, Spacing
  <1> QED
    BY GustInvariance, <1>1, PTL

(* No step gives an active gust more time, and every frame leaves it less: *)
(* so it ends after at most Lifetime frames, if frames go on.              *)
GustsAge ==
    [][\A e \in Active :
           /\ remaining'[e] <= remaining[e]
           /\ RenderFrame => remaining'[e] < remaining[e]]_vars

(* A launch leaves the active gusts alone. *)
LEMMA OthersKept ==
    ASSUME GInv, NEW s \in Sources, LaunchGust(s), NEW f \in Active
    PROVE  remaining'[f] = remaining[f]
  <1>1. PICK e \in Entries :
            /\ AcquireGust(e) /\ gusts' = Append(gusts, e)
            /\ remaining' = [remaining EXCEPT ![e] = Lifetime]
    BY DEF LaunchGust
  <1>2. e \notin Active /\ f \in Entries
    BY <1>1, AcquireLemma, ActiveEntries DEF GInv
  <1> QED
    BY <1>1, <1>2 DEF GInv, Living

(* The variant that lets gusts end: what is left of their time.            *)
THEOREM Ageing == Spec => GustsAge
  <1> DEFINE Shorter == \A e \in Active :
                            /\ remaining'[e] <= remaining[e]
                            /\ RenderFrame => remaining'[e] < remaining[e]
  <1>1. ASSUME GInv, RenderFrame, NEW e \in Active
        PROVE  remaining'[e] < remaining[e] /\ remaining'[e] <= remaining[e]
    <2>1. e \in Entries /\ remaining[e] > 0 /\ world
      <3>1. e \in Entries
        BY <1>1, ActiveEntries DEF GInv
      <3>2. gusts # <<>>
        BY <1>1 DEF Active, ToSet
      <3> QED
        BY <1>1, <3>1, <3>2 DEF GInv, Living
    <2>2. PICK d \in 1 .. MaxFrame : AdvanceGusts(d)
      BY <1>1, <2>1 DEF RenderFrame
    <2>3. remaining'[e] < remaining[e]
      BY <1>1, <2>1, <2>2, AdvanceKeeps DEF RenderFrame
    <2>4. remaining[e] \in Nat /\ remaining'[e] \in Nat
      BY <1>1, <2>1, StepLemma DEF GInv, IInv, Pushes, Next, Frame
    <2> QED
      BY <2>3, <2>4
  <1>2. ASSUME GInv, [Next]_vars, ~RenderFrame, NEW e \in Active
        PROVE  remaining'[e] <= remaining[e]
    <2>1. e \in Entries /\ remaining[e] \in Nat
      BY <1>2, ActiveEntries DEF GInv, IInv, Pushes
    <2>2. CASE UNCHANGED entries
      BY <2>1, <2>2 DEF entries
    <2>3. CASE ResetScene
      BY <1>2, <2>1, <2>3, ResetLemma DEF GInv
    <2>4. CASE TriggerDesktopGust
      BY <1>2, <2>1, <2>4, OthersKept DEF TriggerDesktopGust, Sources
    <2>5. CASE TryTriggerHandGust
      <3>1. step \in Sources /\ (LaunchGust(step) \/ UNCHANGED entries)
        BY <2>5 DEF TryTriggerHandGust, Sources
      <3> QED
        BY <1>2, <2>1, <2>2, <3>1, OthersKept
    <2> QED
      BY <1>2, <2>2, <2>3, <2>4, <2>5
         DEF Next, Frame, vars, InitializePhysics, EnterXR, LeaveXR, HandLost, HandBusy
  <1>3. GInv /\ [Next]_vars => Shorter
    BY <1>1, <1>2
  <1>4. GInv /\ [Next]_vars => [Shorter]_vars
    BY <1>3
  <1> QED
    BY GustInvariance, <1>4, PTL DEF Spec, GustsAge
=============================================================================
