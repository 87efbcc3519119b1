--------------------------- MODULE MCRuntimeSlot ---------------------------
(***************************************************************************)
(* RuntimeSlot on three keys, one button and one stick axis; and the batch *)
(* of the real controller, 15 buttons and six axes.                        *)
(***************************************************************************)
EXTENDS RuntimeSlot, Gamepad, FiniteSetsExt

CONSTANTS button, axis

MCKeys == {1, 2, 3}
MCDigital == {button}
MCAxes == {axis}
MCInjected == {<<axis, -1>>}

Up == <<axis, -1>>
Down == <<axis, 1>>

(* Two keys on one action, opposite directions, and keys that lose their    *)
(* binding or change it.                                                    *)
MCBindingLists ==
    {<<button, button, NoAction>>, <<Up, Down, button>>,
     <<button, Up, Up>>, <<NoAction, NoAction, Down>>}

(* state_from_actions (slot.rs:227-233) applies the actions one by one to   *)
(* the default state; StateOf is what that comes to.                        *)
state_from_actions(actions) ==
    FoldSet(LAMBDA a, s : apply_action_delta(s, a, TRUE), DefaultState, actions)

ASSUME StateOfIsTheFold ==
    \A actions \in SUBSET Action : state_from_actions(actions) = StateOf(actions)

MCButtons == 1 .. 15
MCPadAxes == 1 .. 6

(* The bound of BatchFits is reached, from one state of the controller to   *)
(* the opposite one.                                                        *)
ASSUME BatchIsFull ==
    LET one == {DpadLeft, DpadUp}
    IN BatchLength([buttons |-> one, axes |-> [x \in PadAxes |-> 0]],
                   [buttons |-> Buttons \ one, axes |-> [x \in PadAxes |-> 1]])
         = MAX_BATCH_EVENTS
=============================================================================
