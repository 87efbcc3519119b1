----------------------------- MODULE PressedKeys -----------------------------
(***************************************************************************)
(* What a slot promises, whatever it keeps to get there: the controller    *)
(* state is the one in which exactly the actions of the held keys are      *)
(* down.  One key changes at a time, or all of them are let go.            *)
(*                                                                         *)
(* RuntimeSlot keeps reference counts and updates the state by deltas; it  *)
(* is shown to implement this specification.                               *)
(***************************************************************************)
EXTENDS Controller

VARIABLES
    held,   \* the action each key holds down
    state   \* the controller state shown and emitted

vars == <<held, state>>

Init ==
    /\ held = NothingHeld
    /\ state = DefaultState

Become(map) ==
    /\ held' = map
    /\ state' = StateOf(HeldActions(map))

Press(k, a) ==
    /\ held[k] = NoAction
    /\ Become([held EXCEPT ![k] = a])

Release(k) ==
    /\ held[k] # NoAction
    /\ Become([held EXCEPT ![k] = NoAction])

\* The key stays down and its binding changes under it.
Replace(k, a) ==
    /\ held[k] \notin {NoAction, a}
    /\ Become([held EXCEPT ![k] = a])

LetGo == Become(NothingHeld)

Next ==
    \/ \E k \in Keys, a \in Action : Press(k, a) \/ Replace(k, a)
    \/ \E k \in Keys : Release(k)
    \/ LetGo

Spec == Init /\ [][Next]_vars
=============================================================================
