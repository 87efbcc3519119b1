----------------------------- MODULE RuntimeSlot -----------------------------
(***************************************************************************)
(* One controller slot: crates/core/src/slot.rs (RuntimeSlot), and what    *)
(* the daemon (crates/daemon/src/runtime.rs) does to its fields.           *)
(*                                                                         *)
(* A slot is only touched with the daemon's mutex held, so its operations  *)
(* are atomic for everyone else.  The two that loop over keys (set_bindings *)
(* and reconcile_from_bitmap) are modelled one iteration per step, with    *)
(* phase naming the loop; every other operation waits for phase = "idle",  *)
(* which is the mutex.  handle_syn_dropped takes the mutex twice, once to  *)
(* clone the bindings and once to reconcile: those are separate actions,   *)
(* and set_bindings may come between them.                                 *)
(***************************************************************************)
EXTENDS Controller

CONSTANTS
    BindingLists,   \* the binding lists profiles hold
    NoList,         \* "handle_syn_dropped holds no clone"
    InjectActions   \* the actions InjectTestAction is used with

\* A Vec<KeyBinding> is what `iter().find(|b| b.key == k)` returns for each k.
ASSUME BindingAssumption ==
    /\ BindingLists \subseteq HeldMaps
    /\ NoList \notin HeldMaps
    /\ InjectActions \subseteq Action

VARIABLES
    device,     \* status.device_id.is_some()
    locked,     \* status.locked
    lifecycle,  \* status.lifecycle
    bindings,   \* status.bindings
    held,       \* held_keys
    ctl,        \* action_refcount and status.state
    phase,      \* "idle", or the loop in progress
    todo,       \* keys the loop still has to visit (release, for reconcile)
    press,      \* keys reconcile still has to press
    list,       \* the loop's argument: new_bindings, or reconcile's bindings
    physical,   \* reconcile's local: bound keys that are down on the keyboard
    clone,      \* the bindings handle_syn_dropped cloned under its first lock
    outdated,   \* history: a reconcile used bindings replaced meanwhile
    injected    \* history: a test action was applied since the inputs were cleared

status == <<device, locked, lifecycle>>
loop == <<phase, todo, press, list, physical>>
history == <<outdated, injected>>
vars == <<status, bindings, held, ctl, loop, clone, history>>

Lifecycles == {"Empty", "Bound", "Locked", "Active", "Error"}
Controls == [refcount : [Action -> Nat], state : ControllerState]
Unpressed == [refcount |-> [a \in Action |-> 0], state |-> DefaultState]

-----------------------------------------------------------------------------
(* The helpers of slot.rs. A count of zero is an absent HashMap entry.     *)

increment_action(c, a) ==
    [refcount |-> [c.refcount EXCEPT ![a] = @ + 1],
     state |-> IF c.refcount[a] = 0
               THEN apply_action_delta(c.state, a, TRUE)
               ELSE c.state]

(* Slips these helpers guard against; the properties below tell them apart. *)
DecrementForgetsOthers(c, a) ==
    [refcount |-> [c.refcount EXCEPT ![a] = 0],
     state |-> apply_action_delta(c.state, a, FALSE)]
DecrementReleasesAlways(c, a) ==
    IF c.refcount[a] = 0
    THEN c
    ELSE [refcount |-> [c.refcount EXCEPT ![a] = @ - 1],
          state |-> apply_action_delta(c.state, a, FALSE)]

decrement_action(c, a) ==
    IF c.refcount[a] = 0
    THEN c
    ELSE [refcount |-> [c.refcount EXCEPT ![a] = @ - 1],
          state |-> IF c.refcount[a] = 1
                    THEN apply_action_delta(c.state, a, FALSE)
                    ELSE c.state]

\* The lifecycle of a slot in which nothing is pressed.
Resting(isLocked) == IF isLocked THEN "Locked" ELSE "Bound"

\* update_lifecycle, called when map is what the keys hold.
update_lifecycle(map) ==
    lifecycle' = IF ~device \/ lifecycle = "Error" THEN lifecycle
                 ELSE IF HeldKeys(map) = {} THEN Resting(locked) ELSE "Active"

key_down(k, a) ==
    /\ held[k] = NoAction
    /\ held' = [held EXCEPT ![k] = a]
    /\ ctl' = increment_action(ctl, a)
    /\ update_lifecycle(held')
    /\ UNCHANGED <<device, locked>>

KeyUpKeepsLifecycle(k) ==
    /\ held[k] # NoAction
    /\ held' = [held EXCEPT ![k] = NoAction]
    /\ ctl' = decrement_action(ctl, held[k])
    /\ UNCHANGED status

key_up(k) ==
    /\ held[k] # NoAction
    /\ held' = [held EXCEPT ![k] = NoAction]
    /\ ctl' = decrement_action(ctl, held[k])
    /\ update_lifecycle(held')
    /\ UNCHANGED <<device, locked>>

ClearKeepsState ==
    /\ held' = NothingHeld
    /\ ctl' = [Unpressed EXCEPT !.state = ctl.state]
    /\ outdated' = FALSE
    /\ injected' = FALSE

clear_inputs ==
    /\ held' = NothingHeld
    /\ ctl' = Unpressed
    /\ outdated' = FALSE
    /\ injected' = FALSE

-----------------------------------------------------------------------------
Init ==
    /\ device = FALSE
    /\ locked = FALSE
    /\ lifecycle = "Empty"
    /\ bindings = NothingHeld
    /\ held = NothingHeld
    /\ ctl = Unpressed
    /\ phase = "idle"
    /\ todo = {}
    /\ press = {}
    /\ list = NothingHeld
    /\ physical = {}
    /\ clone = NoList
    /\ outdated = FALSE
    /\ injected = FALSE

(* handle_key_event, once it holds the slot's output. The action comes     *)
(* from the active profile, which set_bindings copies into the slot.       *)
KeyPressed(k) ==
    /\ phase = "idle"
    /\ bindings[k] # NoAction
    /\ key_down(k, bindings[k])
    /\ UNCHANGED <<bindings, loop, clone, history>>

KeyReleased(k) ==
    /\ phase = "idle"
    /\ key_up(k)
    /\ UNCHANGED <<bindings, loop, clone, history>>

(* InjectTestAction: apply_action, which tracks no key.                    *)
InjectTestAction(a, down) ==
    /\ phase = "idle"
    /\ ctl' = [ctl EXCEPT !.state = apply_action_delta(@, a, down)]
    /\ lifecycle' = IF ~device \/ lifecycle = "Error" THEN lifecycle
                    ELSE IF down THEN "Active"
                    ELSE IF HeldKeys(held) = {} /\ ctl'.state = DefaultState
                    THEN Resting(locked) ELSE lifecycle
    /\ injected' = TRUE
    /\ UNCHANGED <<device, locked, bindings, held, loop, clone, outdated>>

-----------------------------------------------------------------------------
(* set_bindings: rebind every held key in key order, then update the       *)
(* lifecycle and replace the list.                                         *)
StartRebind(new) ==
    /\ phase' = "rebind"
    /\ todo' = HeldKeys(held')
    /\ list' = new
    /\ UNCHANGED <<press, physical>>

\* SetBinding, a capture, and the profile commands, through
\* sync_profile_bindings.
SetBindings(new) ==
    /\ phase = "idle"
    /\ UNCHANGED <<status, bindings, held, ctl, clone, history>>
    /\ StartRebind(new)

\* The worklists are empty and the loop's locals are gone.
EndLoop ==
    /\ phase' = "idle"
    /\ list' = NothingHeld
    /\ physical' = {}
    /\ UNCHANGED <<todo, press>>

First(k, set) == k \in set /\ \A j \in set : k =< j

\* Slip: a key whose binding is gone keeps its old action.
RebindKeepsUnbound(k) ==
    /\ phase = "rebind"
    /\ First(k, todo)
    /\ todo' = todo \ {k}
    /\ IF list[k] \in {NoAction, held[k]}
       THEN UNCHANGED <<held, ctl>>
       ELSE /\ held' = [held EXCEPT ![k] = list[k]]
            /\ ctl' = increment_action(decrement_action(ctl, held[k]), list[k])
    /\ UNCHANGED <<status, bindings, phase, press, list, physical, clone, history>>

RebindKey(k) ==
    /\ phase = "rebind"
    /\ First(k, todo)
    /\ todo' = todo \ {k}
    /\ held' = [held EXCEPT ![k] = list[k]]
    /\ ctl' = IF list[k] = held[k] THEN ctl
              ELSE LET released == decrement_action(ctl, held[k])
                   IN  IF list[k] = NoAction THEN released
                       ELSE increment_action(released, list[k])
    /\ UNCHANGED <<status, bindings, phase, press, list, physical, clone, history>>

RebindDone ==
    /\ phase = "rebind"
    /\ todo = {}
    /\ EndLoop
    /\ bindings' = list
    /\ outdated' = FALSE
    /\ update_lifecycle(held)
    /\ UNCHANGED <<device, locked, held, ctl, clone, injected>>

-----------------------------------------------------------------------------
(* handle_syn_dropped: the kernel dropped events, so the held keys are     *)
(* compared with the keys that are down.                                   *)
CloneBindings ==
    /\ phase = "idle"
    /\ clone = NoList
    /\ clone' = bindings
    /\ UNCHANGED <<status, bindings, held, ctl, loop, history>>

\* reconcile_from_bitmap with the clone; down are the keys set in the bitmap.
Reconcile(down) ==
    LET bound == {k \in down : clone[k] # NoAction}
    IN  /\ phase = "idle"
        /\ clone # NoList
        /\ clone' = NoList
        /\ IF HeldKeys(held) = bound
           THEN UNCHANGED <<loop, outdated>>
           ELSE /\ phase' = "reconcile"
                /\ physical' = bound
                /\ todo' = HeldKeys(held) \ bound
                /\ press' = bound \ HeldKeys(held)
                /\ list' = clone
                /\ outdated' = (outdated \/ clone # bindings)
        /\ UNCHANGED <<status, bindings, held, ctl, injected>>

ReconcileRelease(k) ==
    /\ phase = "reconcile"
    /\ First(k, todo)
    /\ todo' = todo \ {k}
    /\ key_up(k)
    /\ UNCHANGED <<bindings, phase, press, list, physical, clone, history>>

\* Slip: the binding of a pressed key is looked up in the slot, whose list
\* may no longer bind it, and not in the clone.
ReconcilePressLooksUpAgain(k) ==
    /\ phase = "reconcile"
    /\ todo = {}
    /\ First(k, press)
    /\ press' = press \ {k}
    /\ IF bindings[k] = NoAction THEN UNCHANGED <<held, ctl, status>>
                                 ELSE key_down(k, bindings[k])
    /\ UNCHANGED <<bindings, phase, todo, list, physical, clone, history>>

ReconcilePress(k) ==
    /\ phase = "reconcile"
    /\ todo = {}
    /\ First(k, press)
    /\ press' = press \ {k}
    /\ key_down(k, list[k])
    /\ UNCHANGED <<bindings, phase, todo, list, physical, clone, history>>

ReconcileDone ==
    /\ phase = "reconcile"
    /\ todo = {}
    /\ press = {}
    /\ EndLoop
    /\ UNCHANGED <<status, bindings, held, ctl, clone, history>>

-----------------------------------------------------------------------------
(* What the daemon does to the slot's fields.                              *)

\* assign_device, the loop over all slots: the slot whose keyboard is taken
\* by another slot; and unassign_slot.
Detach ==
    /\ phase = "idle"
    /\ device' = FALSE
    /\ locked' = FALSE
    /\ lifecycle' = "Empty"
    /\ clear_inputs
    /\ UNCHANGED <<bindings, loop, clone>>

\* assign_device on this slot. The inputs are cleared first only when the
\* keyboard was this slot's already (again); another keyboard's keys stay.
Assign(isLocked, again) ==
    /\ phase = "idle"
    /\ device' = TRUE
    /\ locked' = isLocked
    /\ lifecycle' = Resting(isLocked)
    /\ IF again THEN device /\ clear_inputs
                ELSE UNCHANGED <<held, ctl, history>>
    /\ \E new \in BindingLists : StartRebind(new)
    /\ UNCHANGED <<bindings, clone>>

\* set_device_locked on the slot's keyboard.
SetLocked(isLocked) ==
    /\ phase = "idle"
    /\ device
    /\ locked' = isLocked
    /\ lifecycle' = Resting(isLocked)
    /\ UNCHANGED <<device, bindings, held, ctl, loop, clone, history>>

\* release_all_locks: the kill switch leaves status.device_id in place.
KillSwitch ==
    /\ phase = "idle"
    /\ lifecycle' = "Empty"
    /\ locked' = FALSE
    /\ clear_inputs
    /\ UNCHANGED <<device, bindings, loop, clone>>

\* emit_state failed (phase 3 of the handlers), or worked again.
EmitFailed ==
    /\ phase = "idle"
    /\ lifecycle' = "Error"
    /\ UNCHANGED <<device, locked, bindings, held, ctl, loop, clone, history>>

\* Phase 3 after an emit that worked, and the hotplug watcher before it
\* starts a reader: both put the lifecycle back without looking at the keys.
Rest ==
    /\ phase = "idle"
    /\ lifecycle = "Error" \/ device
    /\ lifecycle' = Resting(locked)
    /\ UNCHANGED <<device, locked, bindings, held, ctl, loop, clone, history>>

Daemon ==
    \/ Detach
    \/ \E isLocked, again \in BOOLEAN : Assign(isLocked, again)
    \/ \E isLocked \in BOOLEAN : SetLocked(isLocked)
    \/ KillSwitch
    \/ EmitFailed
    \/ Rest

Next ==
    \/ \E k \in Keys : KeyPressed(k) \/ KeyReleased(k)
    \/ \E a \in InjectActions, down \in BOOLEAN : InjectTestAction(a, down)
    \/ \E new \in BindingLists : SetBindings(new)
    \/ \E k \in Keys : RebindKey(k)
    \/ RebindDone
    \/ CloneBindings
    \/ \E down \in SUBSET Keys : Reconcile(down)
    \/ \E k \in Keys : ReconcileRelease(k) \/ ReconcilePress(k)
    \/ ReconcileDone
    \/ Daemon

Spec == Init /\ [][Next]_vars

-----------------------------------------------------------------------------
TypeOK ==
    /\ device \in BOOLEAN
    /\ locked \in BOOLEAN
    /\ lifecycle \in Lifecycles
    /\ bindings \in HeldMaps
    /\ held \in HeldMaps
    /\ ctl \in Controls
    /\ phase \in {"idle", "rebind", "reconcile"}
    /\ todo \subseteq Keys
    /\ press \subseteq Keys
    /\ list \in HeldMaps
    /\ physical \subseteq Keys
    /\ clone \in HeldMaps \cup {NoList}
    /\ outdated \in BOOLEAN
    /\ injected \in BOOLEAN

(* The reference count of an action is the number of keys that hold it, at  *)
(* every point of every loop: two keys bound to one button release it only  *)
(* when both are up, whatever rebinding happened while they were down.      *)
RefcountExact ==
    \A a \in Action : ctl.refcount[a] = Cardinality(Holders(held, a))

(* The incrementally updated controller state is the one the held keys      *)
(* call for: nothing stays pressed, opposite directions cancel, and no      *)
(* stick is left off centre.  A test action breaks that, which is what it   *)
(* is for, until the slot's inputs are cleared; then it holds again.        *)
StateMatchesHeld == ~injected => ctl.state = StateOf(HeldActions(held))

(* A held key has the action it is bound to now: rebinding while it is down *)
(* moves it over.  The exception is a resync that ran with a list cloned    *)
(* before the last set_bindings (runtime.rs:1005-1016), until the next.     *)
HeldFollowsBindings ==
    phase # "rebind" /\ ~outdated =>
        \A k \in HeldKeys(held) : held[k] = bindings[k]

(* The lifecycle shown to the user: Active only while a key is held or a    *)
(* test action was injected, Locked and Bound as the lock flag says.        *)
(* set_bindings catches up at its end.                                      *)
LifecycleHonest ==
    /\ lifecycle = "Active" /\ phase # "rebind" /\ ~injected => HeldKeys(held) # {}
    /\ lifecycle \in {"Locked", "Bound"} => lifecycle = Resting(locked)

(* When a resync ends, the held keys are exactly the bound keys that are    *)
(* down: lost releases are released, lost presses pressed.                  *)
ResyncMatchesKeyboard ==
    [][phase = "reconcile" /\ phase' = "idle" => HeldKeys(held') = physical]_vars

(* The slot implements PressedKeys: every step, those inside the loops too, *)
(* changes at most one key, and the state with it.  What is injected is not *)
(* seen: the state shown then is the one the keys alone would give.         *)
Abstract == INSTANCE PressedKeys
    WITH state <- IF injected THEN StateOf(HeldActions(held)) ELSE ctl.state
ImplementsPressedKeys == Abstract!Spec
=============================================================================
