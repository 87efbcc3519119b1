----------------------------- MODULE Controller -----------------------------
(***************************************************************************)
(* The data a slot turns key presses into: controller actions and the      *)
(* controller state (crates/shared/src/types.rs, ControllerAction and      *)
(* ControllerState; crates/core/src/slot.rs, the functions that apply an   *)
(* action to a state).                                                     *)
(*                                                                         *)
(* Buttons and triggers are on/off controls: pressing sets them to their   *)
(* one pressed value, releasing to zero.  A stick direction is a pair of   *)
(* an axis and a sign, and adds to the axis.                               *)
(***************************************************************************)
EXTENDS Integers, FiniteSets

CONSTANTS
    Keys,       \* key codes, ordered as in BTreeMap<KeyCode, _>
    Digital,    \* buttons and triggers
    Axes,       \* the four stick axes
    NoAction    \* "this key has no action": absent from a map of keys

Signs == {-1, 1}

\* ControllerAction: a button or trigger, or an axis with a direction.
Action == Digital \cup (Axes \X Signs)

ASSUME KeysAssumption == IsFiniteSet(Keys) /\ Keys \subseteq Nat
ASSUME ActionAssumption ==
    /\ Digital \cap (Axes \X Signs) = {}
    /\ NoAction \notin Action

STICK_MAX == 32767
I16_MAX == 32767
I16_MIN == -32768

\* Slip: an addition that knows no width.
UnboundedAdd(x, d) == x + d

\* i16::saturating_add
SaturatingAdd(x, d) ==
    LET sum == x + d
    IN  IF sum > I16_MAX THEN I16_MAX ELSE IF sum < I16_MIN THEN I16_MIN ELSE sum

AxisValues == I16_MIN .. I16_MAX

\* ControllerState: the set of controls that are down, and every axis.
ControllerState == [pressed : SUBSET Digital, axes : [Axes -> AxisValues]]

\* ControllerState::default()
DefaultState == [pressed |-> {}, axes |-> [x \in Axes |-> 0]]

\* slot.rs, apply_action_delta: the state after one action goes down or up.
apply_action_delta(state, action, down) ==
    IF action \in Digital
    THEN [state EXCEPT !.pressed =
             IF down THEN @ \cup {action} ELSE @ \ {action}]
    ELSE LET step == STICK_MAX * action[2] * (IF down THEN 1 ELSE -1)
         IN  [state EXCEPT !.axes[action[1]] = SaturatingAdd(@, step)]

\* What each key holds down: BTreeMap<KeyCode, ControllerAction>.
HeldMaps == [Keys -> Action \cup {NoAction}]
NothingHeld == [k \in Keys |-> NoAction]

HeldKeys(map) == {k \in Keys : map[k] # NoAction}
Holders(map, action) == {k \in Keys : map[k] = action}
HeldActions(map) == {a \in Action : Holders(map, a) # {}}

\* The state in which exactly these actions are down, each counted once: an
\* axis with both of its directions down is centred.
StateOf(actions) ==
    LET On(a) == IF a \in actions THEN 1 ELSE 0
    IN  [pressed |-> actions \cap Digital,
         axes |-> [x \in Axes |-> STICK_MAX * (On(<<x, 1>>) - On(<<x, -1>>))]]
=============================================================================
