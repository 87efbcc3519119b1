---------------------------- MODULE MCSlotOutput ----------------------------
(***************************************************************************)
(* A controller that two readers and the main thread write: one displaced  *)
(* keyboard may still be read while the next one is.                       *)
(***************************************************************************)
EXTENDS SlotOutput, TLC

CONSTANTS r1, r2

MCButtons == 1 .. 15
MCPadAxes == 1 .. 6
MCReaders == {r1, r2}

Interchangeable == Permutations(MCReaders)

\* Nothing; the hat leaning left; the same with a stick one way and a trigger;
\* the hat centred by both of its buttons, with the stick the other way.
MCStates ==
    LET centred == [x \in MCPadAxes |-> 0] IN
    {[buttons |-> {}, axes |-> centred],
     [buttons |-> {DpadLeft}, axes |-> centred],
     [buttons |-> {DpadLeft}, axes |-> [centred EXCEPT ![1] = 32767, ![6] = 255]],
     [buttons |-> {DpadLeft, DpadRight}, axes |-> [centred EXCEPT ![1] = -32767]]}
=============================================================================
