------------------------- MODULE RuntimeSlotCorrect -------------------------
(***************************************************************************)
(* What a slot guarantees, proved from the invariant of RuntimeSlotProofs: *)
(* held keys follow the bindings, a resync ends with the keyboard's keys,  *)
(* and, from the start and from each time the inputs are cleared until a   *)
(* test action is injected, the lifecycle and the controller state are     *)
(* those of the held keys, so that a slot implements PressedKeys.          *)
(***************************************************************************)
EXTENDS RuntimeSlotProofs

-----------------------------------------------------------------------------
(* Held keys and bindings.                                                 *)

BindingInv ==
    /\ HeldFollowsBindings
    /\ phase = "rebind" =>
          \A k \in HeldKeys(held) \ todo : held[k] = list[k]
    /\ phase = "reconcile" /\ ~outdated => list = bindings

LEMMA BindingInvStep ==
    ASSUME SlotInv, BindingInv, [Next]_vars
    PROVE  BindingInv'
<1>1. /\ held \in HeldMaps /\ bindings \in HeldMaps /\ list \in HeldMaps
      /\ clone \in HeldMaps \cup {NoList} /\ outdated \in BOOLEAN
      /\ LoopInv
  BY DEF SlotInv, TypeOK
<1>2. ASSUME NEW k \in Keys, KeyPressed(k) PROVE BindingInv'
  <2>1. held' = [held EXCEPT ![k] = bindings[k]]
    BY <1>2 DEF KeyPressed, key_down
  <2> QED
    BY <1>1, <1>2, <2>1
       DEF BindingInv, HeldFollowsBindings, history, KeyPressed, loop, HeldKeys, HeldMaps
<1>3. ASSUME NEW k \in Keys, KeyReleased(k) PROVE BindingInv'
  <2>1. held' = [held EXCEPT ![k] = NoAction]
    BY <1>3 DEF KeyReleased, key_up
  <2> QED
    BY <1>1, <1>3, <2>1
       DEF BindingInv, HeldFollowsBindings, history, KeyReleased, loop, HeldKeys, HeldMaps
<1>4. ASSUME UNCHANGED <<bindings, held, loop, outdated>> PROVE BindingInv'
  BY <1>4 DEF BindingInv, HeldFollowsBindings, loop
<1>5. ASSUME NEW new, StartRebind(new) PROVE BindingInv'
  BY <1>5 DEF BindingInv, HeldFollowsBindings, StartRebind
<1>6. ASSUME NEW new \in BindingLists, SetBindings(new) PROVE BindingInv'
  BY <1>5, <1>6 DEF SetBindings
<1>7. ASSUME NEW isLocked \in BOOLEAN, NEW again \in BOOLEAN,
             Assign(isLocked, again)
      PROVE  BindingInv'
  BY <1>5, <1>7 DEF Assign
<1>8. ASSUME NEW k \in Keys, RebindKey(k) PROVE BindingInv'
  <2>1. held' = [held EXCEPT ![k] = list[k]] /\ todo' = todo \ {k}
        /\ UNCHANGED <<phase, list>> /\ phase = "rebind"
    BY <1>8 DEF RebindKey
  <2> QED
    BY <1>1, <2>1 DEF BindingInv, HeldFollowsBindings, HeldKeys, HeldMaps
<1>9. CASE RebindDone
  BY <1>9 DEF BindingInv, HeldFollowsBindings, RebindDone, EndLoop
<1>10. ASSUME NEW down \in SUBSET Keys, Reconcile(down) PROVE BindingInv'
  <2>1. UNCHANGED <<bindings, held>> /\ phase = "idle"
    BY <1>10 DEF Reconcile
  <2>2. CASE UNCHANGED <<loop, outdated>>
    BY <1>4, <2>1, <2>2
  <2>3. CASE /\ phase' = "reconcile" /\ list' = clone
             /\ outdated' = (outdated \/ clone # bindings)
    BY <2>1, <2>3 DEF BindingInv, HeldFollowsBindings
  <2> QED
    BY <1>10, <2>2, <2>3 DEF Reconcile
<1>11. ASSUME NEW k \in Keys, ReconcileRelease(k) PROVE BindingInv'
  <2>1. held' = [held EXCEPT ![k] = NoAction]
    BY <1>11 DEF ReconcileRelease, key_up
  <2> QED
    BY <1>1, <1>11, <2>1
       DEF BindingInv, HeldFollowsBindings, history, ReconcileRelease, HeldKeys, HeldMaps
<1>12. ASSUME NEW k \in Keys, ReconcilePress(k) PROVE BindingInv'
  <2>1. held' = [held EXCEPT ![k] = list[k]]
    BY <1>12 DEF ReconcilePress, key_down
  <2> QED
    BY <1>1, <1>12, <2>1
       DEF BindingInv, HeldFollowsBindings, history, ReconcilePress, HeldKeys, HeldMaps
<1>13. CASE ReconcileDone
  BY <1>13 DEF BindingInv, HeldFollowsBindings, history, ReconcileDone, EndLoop
<1>14. CASE Detach \/ KillSwitch
  <2>1. held' = NothingHeld /\ phase = "idle" /\ UNCHANGED <<bindings, loop>>
    BY <1>14 DEF Detach, KillSwitch, clear_inputs
  <2> QED
    BY <2>1, NothingIsHeld DEF BindingInv, HeldFollowsBindings, loop
<1> QED
  BY <1>2, <1>3, <1>4, <1>6, <1>7, <1>8, <1>9, <1>10, <1>11, <1>12, <1>13, <1>14
     DEF Next, Daemon, InjectTestAction, CloneBindings, SetLocked, EmitFailed,
         Rest, history, vars

(* A held key has the action of its current binding, unless a resync ran   *)
(* with a list that had been replaced since it was cloned.                 *)
THEOREM HeldKeysFollowBindings == Spec => []HeldFollowsBindings
<1>1. Init => BindingInv
  BY NothingIsHeld DEF Init, BindingInv, HeldFollowsBindings
<1>2. BindingInv => HeldFollowsBindings
  BY DEF BindingInv
<1> QED
  BY <1>1, <1>2, BindingInvStep, SlotInvAlways, PTL DEF Spec

-----------------------------------------------------------------------------
(* A resync ends with the keys that are down.                              *)
THEOREM ResyncCorrect == Spec => ResyncMatchesKeyboard
<1>1. ASSUME SlotInv, [Next]_vars
      PROVE  [phase = "reconcile" /\ phase' = "idle"
                  => HeldKeys(held') = physical]_vars
  <2> SUFFICES ASSUME Next, phase = "reconcile", phase' = "idle"
               PROVE  HeldKeys(held') = physical
    BY <1>1
  <2>1. ReconcileDone
    BY DEF Next, Daemon, KeyPressed, KeyReleased, InjectTestAction, SetBindings,
           RebindKey, RebindDone, CloneBindings, Reconcile, ReconcileRelease,
           ReconcilePress, Detach, Assign, SetLocked, KillSwitch, EmitFailed, Rest
  <2> QED
    BY <1>1, <2>1 DEF ReconcileDone, SlotInv, LoopInv
<1> QED
  BY <1>1, SlotInvAlways, PTL DEF Spec, ResyncMatchesKeyboard

-----------------------------------------------------------------------------
(* The lifecycle and the controller state.                                 *)

LifecycleInv ==
    /\ LifecycleHonest
    /\ ~device => lifecycle # "Active"

LEMMA LifecycleInvStep ==
    ASSUME SlotInv, LifecycleInv, [Next]_vars
    PROVE  LifecycleInv'
<1>1. locked \in BOOLEAN /\ lifecycle \in Lifecycles
  BY DEF SlotInv, TypeOK
<1>2. ASSUME update_lifecycle(held'), UNCHANGED <<device, locked, injected>>
      PROVE  LifecycleInv'
  BY <1>1, <1>2 DEF update_lifecycle, LifecycleInv, LifecycleHonest, Resting
<1>3. ASSUME lifecycle' \in {"Empty", "Error", Resting(locked')} PROVE LifecycleInv'
  BY <1>3 DEF LifecycleInv, LifecycleHonest, Resting
<1>4. ASSUME UNCHANGED <<device, locked, lifecycle, injected>>,
             phase' = "rebind" \/ UNCHANGED <<held, phase>>
      PROVE  LifecycleInv'
  BY <1>4 DEF LifecycleInv, LifecycleHonest
<1>5. ASSUME NEW k \in Keys, KeyPressed(k) \/ KeyReleased(k) \/
                             ReconcileRelease(k) \/ ReconcilePress(k)
      PROVE  LifecycleInv'
  BY <1>2, <1>5
     DEF KeyPressed, KeyReleased, ReconcileRelease, ReconcilePress, key_down, key_up,
         history
<1>6. CASE RebindDone
  BY <1>2, <1>6 DEF RebindDone
<1>7. CASE Daemon
  BY <1>3, <1>7 DEF Daemon, Detach, Assign, SetLocked, KillSwitch, EmitFailed, Rest
<1>8. ASSUME NEW new \in BindingLists, SetBindings(new) PROVE LifecycleInv'
  BY <1>4, <1>8 DEF SetBindings, StartRebind, status, history
<1>9. ASSUME NEW k \in Keys, RebindKey(k) PROVE LifecycleInv'
  BY <1>4, <1>9 DEF RebindKey, status, history
<1>10. CASE CloneBindings \/ UNCHANGED vars
  BY <1>4, <1>10 DEF CloneBindings, vars, status, loop, history
<1>11. CASE ReconcileDone
  BY <1>11 DEF ReconcileDone, EndLoop, LifecycleInv, LifecycleHonest, status, history
<1>12. ASSUME NEW down \in SUBSET Keys, Reconcile(down) PROVE LifecycleInv'
  BY <1>12 DEF Reconcile, LifecycleInv, LifecycleHonest, status, loop, history
<1>13. ASSUME NEW a \in InjectActions, NEW down \in BOOLEAN,
              InjectTestAction(a, down)
       PROVE  LifecycleInv'
  BY <1>13 DEF InjectTestAction, LifecycleInv, LifecycleHonest, Resting
<1> QED
  BY <1>5, <1>6, <1>7, <1>8, <1>9, <1>10, <1>11, <1>12, <1>13 DEF Next

(* The lifecycle shown is never Active with no key held and nothing        *)
(* injected, and Locked and Bound always say what the lock flag says.      *)
THEOREM LifecycleCorrect == Spec => []LifecycleHonest
<1>1. Init => LifecycleInv
  BY DEF Init, LifecycleInv, LifecycleHonest
<1>2. LifecycleInv => LifecycleHonest
  BY DEF LifecycleInv
<1>3. SlotInv /\ LifecycleInv /\ [Next]_vars => LifecycleInv'
  BY LifecycleInvStep
<1> QED
  BY <1>1, <1>2, <1>3, SlotInvAlways, PTL DEF Spec

(* PressedKeys and RuntimeSlot speak of the same data. *)
LEMMA SameData ==
    /\ Abstract!Action = Action
    /\ Abstract!NothingHeld = NothingHeld
    /\ Abstract!DefaultState = DefaultState
    /\ \A map : Abstract!StateOf(Abstract!HeldActions(map)) = StateOf(HeldActions(map))
<1>1. Abstract!Signs = Signs /\ Abstract!STICK_MAX = STICK_MAX
  BY DEF Abstract!Signs, Signs, Abstract!STICK_MAX, STICK_MAX
<1>2. Abstract!Action = Action
  BY <1>1 DEF Abstract!Action, Action
<1>3. \A map : Abstract!HeldActions(map) = HeldActions(map)
  BY <1>2 DEF Abstract!HeldActions, HeldActions, Abstract!Holders, Holders
<1>4. \A S : Abstract!StateOf(S) = StateOf(S)
  BY <1>1 DEF Abstract!StateOf, StateOf
<1> QED
  BY <1>2, <1>3, <1>4
     DEF Abstract!NothingHeld, NothingHeld, Abstract!DefaultState, DefaultState

(* What PressedKeys sees of the state is always that of the held keys.     *)
StateInv == ~injected => Matches(held, ctl)

(* Every step keeps it so, and is a step of PressedKeys.                   *)
LEMMA StateStep ==
    ASSUME SlotInv, StateInv, [Next]_vars
    PROVE  StateInv' /\ [Abstract!Next]_(Abstract!vars)
<1> DEFINE Goal == StateInv' /\ [Abstract!Next]_(Abstract!vars)
           shown == IF injected THEN StateOf(HeldActions(held)) ELSE ctl.state
<1> SUFFICES Goal
  OBVIOUS
<1>b. shown = StateOf(HeldActions(held))
  BY DEF StateInv, Matches
<1>c. ASSUME StateInv' PROVE shown' = StateOf(HeldActions(held'))
  BY <1>c DEF StateInv, Matches
<1>a. ASSUME NEW map, held' = map, StateInv' PROVE Abstract!Become(map)
  BY <1>a, <1>c, SameData DEF Abstract!Become
<1>d. ASSUME Matches(held, ctl) => Matches(held', ctl'), injected' = injected
      PROVE  StateInv'
  BY <1>d DEF StateInv
<1>1. /\ held \in HeldMaps /\ ctl \in Controls /\ Exact(held, ctl) /\ LoopInv
      /\ list \in HeldMaps /\ bindings \in HeldMaps
  BY RefcountIsExact DEF SlotInv, TypeOK
<1>2. ASSUME UNCHANGED held, StateInv' PROVE Goal
  BY <1>2, <1>b, <1>c DEF Abstract!vars
<1>e. ASSUME UNCHANGED <<held, ctl, injected>> PROVE Goal
  BY <1>2, <1>e DEF StateInv
<1>3. ASSUME StateInv', NEW k \in Keys, NEW a \in Action,
             held[k] = NoAction, held' = [held EXCEPT ![k] = a]
      PROVE  Goal
  BY <1>3, <1>a, SameData DEF Abstract!Next, Abstract!Press
<1>4. ASSUME StateInv', NEW k \in Keys,
             held[k] # NoAction, held' = [held EXCEPT ![k] = NoAction]
      PROVE  Goal
  BY <1>4, <1>a DEF Abstract!Next, Abstract!Release
<1>5. ASSUME NEW k \in Keys, KeyPressed(k) PROVE Goal
  <2>1. bindings[k] \in Action /\ key_down(k, bindings[k])
    BY <1>1, <1>5 DEF KeyPressed, HeldMaps
  <2>2. StateInv'
    BY <1>1, <1>5, <1>d, <2>1, KeyDown DEF KeyPressed, history
  <2> QED
    BY <1>3, <2>1, <2>2 DEF key_down
<1>6. ASSUME NEW k \in Keys, KeyReleased(k) \/ ReconcileRelease(k) PROVE Goal
  <2>1. key_up(k)
    BY <1>6 DEF KeyReleased, ReconcileRelease
  <2>2. StateInv'
    BY <1>1, <1>6, <1>d, <2>1, KeyUp DEF KeyReleased, ReconcileRelease, history
  <2> QED
    BY <1>4, <2>1, <2>2 DEF key_up
<1>7. ASSUME NEW k \in Keys, ReconcilePress(k) PROVE Goal
  <2>1. k \in HeldKeys(list) /\ key_down(k, list[k])
    BY <1>1, <1>7 DEF LoopInv, ReconcilePress, First
  <2>2. list[k] \in Action
    BY <1>1, <2>1 DEF HeldKeys, HeldMaps
  <2>3. StateInv'
    BY <1>1, <1>7, <1>d, <2>1, <2>2, KeyDown DEF ReconcilePress, history
  <2> QED
    BY <1>3, <2>1, <2>2, <2>3 DEF key_down
<1>8. ASSUME NEW k \in Keys, RebindKey(k) PROVE Goal
  <2>1. todo \subseteq HeldKeys(held)
    BY <1>1, <1>8 DEF LoopInv, RebindKey
  <2>2. StateInv' /\ held' = [held EXCEPT ![k] = list[k]]
    BY <1>1, <1>8, <1>d, <2>1, Rebind DEF RebindKey, history
  <2>3. held[k] # NoAction
    BY <1>8, <2>1 DEF RebindKey, First, HeldKeys
  <2>4. CASE list[k] = NoAction
    BY <1>4, <2>2, <2>3, <2>4
  <2>5. CASE list[k] = held[k]
    <3>1. held' = held
      BY <1>1, <2>2, <2>5 DEF HeldMaps
    <3> QED
      BY <1>2, <2>2, <3>1
  <2>6. CASE list[k] \notin {NoAction, held[k]}
    <3>1. list[k] \in Action
      BY <1>1, <2>6 DEF HeldMaps
    <3>2. Abstract!Replace(k, list[k])
      BY <2>2, <2>3, <2>6, <1>a DEF Abstract!Replace
    <3> QED
      BY <2>2, <3>1, <3>2, SameData DEF Abstract!Next
  <2> QED
    BY <2>4, <2>5, <2>6
<1>9. ASSUME clear_inputs PROVE Goal
  <2>1. held' = NothingHeld /\ StateInv'
    BY <1>9, NothingIsHeld DEF clear_inputs, StateInv
  <2> QED
    BY <2>1, <1>a, SameData DEF Abstract!Next, Abstract!LetGo
<1> HIDE DEF Goal
<1>10. CASE Daemon
  BY <1>9, <1>10, <1>e
     DEF Daemon, Detach, Assign, SetLocked, KillSwitch, EmitFailed, Rest, history
<1>11. CASE RebindDone \/ CloneBindings \/ ReconcileDone \/ UNCHANGED vars
  BY <1>e, <1>11 DEF RebindDone, CloneBindings, ReconcileDone, history, vars
<1>12. ASSUME NEW new \in BindingLists, SetBindings(new) PROVE Goal
  BY <1>e, <1>12 DEF SetBindings, history
<1>13. ASSUME NEW down \in SUBSET Keys, Reconcile(down) PROVE Goal
  BY <1>e, <1>13 DEF Reconcile
<1>14. ASSUME NEW a \in InjectActions, NEW down \in BOOLEAN,
              InjectTestAction(a, down)
       PROVE  Goal
  <2>1. UNCHANGED held /\ StateInv'
    BY <1>14 DEF InjectTestAction, StateInv
  <2> QED
    BY <1>2, <2>1
<1> QED
  BY <1>5, <1>6, <1>7, <1>8, <1>10, <1>11, <1>12, <1>13, <1>14 DEF Next

LEMMA StateInit == Init => StateInv
BY NothingIsHeld DEF Init, StateInv

(* The state a slot shows and emits is the one its held keys call for,     *)
(* unless a test action was injected since its inputs were last cleared.   *)
THEOREM StateCorrect == Spec => []StateMatchesHeld
<1>1. SlotInv /\ StateInv /\ [Next]_vars => StateInv'
  BY StateStep
<1>2. StateInv => StateMatchesHeld
  BY DEF StateInv, Matches, StateMatchesHeld
<1> QED
  BY <1>1, <1>2, StateInit, SlotInvAlways, PTL DEF Spec

(* A slot implements PressedKeys: reference counts and deltas come to the  *)
(* same as computing the state from the held keys at every step.           *)
THEOREM SlotImplementsPressedKeys == Spec => ImplementsPressedKeys
<1>1. Init => Abstract!Init
  BY SameData DEF Init, Abstract!Init, Unpressed
<1>2. SlotInv /\ StateInv /\ [Next]_vars => [Abstract!Next]_(Abstract!vars)
  BY StateStep
<1>3. SlotInv /\ StateInv /\ [Next]_vars => StateInv'
  BY StateStep
<1> QED
  BY <1>1, <1>2, <1>3, StateInit, SlotInvAlways, PTL
     DEF Spec, ImplementsPressedKeys, Abstract!Spec
=============================================================================
