------------------------------ MODULE Gamepad ------------------------------
(***************************************************************************)
(* A virtual controller (crates/daemon/src/uinput.rs, VirtualGamepad) is   *)
(* written as differences: emit_state compares the new controller state    *)
(* with the last one and puts an event for every button, hat axis and axis *)
(* that changed into one batch of fixed size, which a SYN_REPORT closes.   *)
(* The hat is no state of its own: it follows from the d-pad buttons.      *)
(***************************************************************************)
EXTENDS Integers, FiniteSets

CONSTANTS
    Buttons,    \* GamepadButton::ALL
    DpadLeft, DpadRight, DpadUp, DpadDown,
    PadAxes     \* the sticks' axes and the triggers

Hats == {"x", "y"}

ASSUME GamepadAssumption ==
    /\ IsFiniteSet(Buttons) /\ Cardinality(Buttons) = 15
    /\ IsFiniteSet(PadAxes) /\ Cardinality(PadAxes) = 6
    /\ {DpadLeft, DpadRight, DpadUp, DpadDown} \subseteq Buttons

MAX_BATCH_EVENTS == 24

\* ControllerState
PadStates == [buttons : SUBSET Buttons, axes : [PadAxes -> Int]]

\* Two opposite buttons cancel each other.
Lean(low, high, buttons) ==
    IF low \in buttons /\ high \notin buttons THEN -1
    ELSE IF high \in buttons /\ low \notin buttons THEN 1
    ELSE 0

hat_from_buttons(buttons) ==
    [h \in Hats |-> IF h = "x" THEN Lean(DpadLeft, DpadRight, buttons)
                               ELSE Lean(DpadUp, DpadDown, buttons)]

-----------------------------------------------------------------------------
(* The batch: what is an event in it, and for which value.                 *)

KeyEvents(last, state) == {b \in Buttons : (b \in last.buttons) # (b \in state.buttons)}

HatEvents(last, state) ==
    {h \in Hats : hat_from_buttons(last.buttons)[h] # hat_from_buttons(state.buttons)[h]}

AxisEvents(last, state) == {x \in PadAxes : last.axes[x] # state.axes[x]}

\* An empty batch is not written, and needs no SYN_REPORT.
BatchLength(last, state) ==
    LET changes == Cardinality(KeyEvents(last, state))
                    + Cardinality(HatEvents(last, state))
                    + Cardinality(AxisEvents(last, state))
    IN IF changes = 0 THEN 0 ELSE changes + 1
=============================================================================
