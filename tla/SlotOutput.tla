----------------------------- MODULE SlotOutput -----------------------------
(***************************************************************************)
(* The virtual controller of one slot: VirtualGamepad of                   *)
(* crates/daemon/src/uinput.rs, and the threads that write it              *)
(* (crates/daemon/src/runtime.rs).                                         *)
(*                                                                         *)
(* A thread that changes the slot takes the controller out of `outputs`    *)
(* under the mutex, together with the state to be written, writes it with  *)
(* the mutex released, and puts it back.  What is written are differences  *)
(* from the last state that was written, so that everything hinges on      *)
(* `last` being what the kernel's device shows: after failed writes, after *)
(* changes of the slot that nobody wrote, and for the hat, which is no     *)
(* part of the state.                                                      *)
(*                                                                         *)
(* How keys make a state is RuntimeSlot's; here a change of the slot goes  *)
(* to any of States.  The kernel takes a batch as a whole or not at all.   *)
(***************************************************************************)
EXTENDS Gamepad

CONSTANTS
    States,     \* the controller states the slot gets into
    Readers,    \* the threads whose keyboards feed the slot
    Main,       \* the main thread
    NoPad       \* "no controller"

\* ControllerState::default()
Released == [buttons |-> {}, axes |-> [x \in PadAxes |-> 0]]

Displays == [buttons : SUBSET Buttons, hats : [Hats -> -1 .. 1], axes : [PadAxes -> Int]]
Pads == [last : PadStates, shown : Displays]

ASSUME OutputAssumption ==
    /\ States \subseteq PadStates /\ Released \in States
    /\ Main \notin Readers
    /\ NoPad \notin Pads

Threads == Readers \cup {Main}

VARIABLES
    state,      \* the slot's status.state
    table,      \* outputs[slot], or NoPad
    hands       \* hands[t]: what thread t is writing, and why

vars == <<state, table, hands>>

\* What a device looks like that was told of this state.
Shows(s) ==
    [buttons |-> s.buttons, hats |-> hat_from_buttons(s.buttons), axes |-> s.axes]

\* VirtualGamepad::create: nothing is pressed on the new device.
Created == [last |-> Released, shown |-> Shows(Released)]

-----------------------------------------------------------------------------
(* emit_state, for a write that works and for one that does not.           *)

\* The device after the events of the batch.
Applied(shown, last, s) ==
    [buttons |-> {b \in Buttons :
                    IF b \in KeyEvents(last, s) THEN b \in s.buttons ELSE b \in shown.buttons},
     hats |-> [h \in Hats |-> IF h \in HatEvents(last, s) THEN hat_from_buttons(s.buttons)[h]
                              ELSE shown.hats[h]],
     axes |-> [x \in PadAxes |-> IF x \in AxisEvents(last, s) THEN s.axes[x]
                                 ELSE shown.axes[x]]]

\* Slip: `last` is only updated when a button changed.
EmittedButtonsOnly(pad, s) ==
    [last |-> IF KeyEvents(pad.last, s) = {} THEN pad.last ELSE s,
     shown |-> Applied(pad.shown, pad.last, s)]

Emitted(pad, s) == [last |-> s, shown |-> Applied(pad.shown, pad.last, s)]

\* Slip: `last` is updated before the write.
NotEmittedButNoted(pad, s) == [pad EXCEPT !.last = s]

NotEmitted(pad, s) == pad

-----------------------------------------------------------------------------
Idle == [why |-> "idle", pad |-> NoPad, state |-> Released]

Init ==
    /\ state = Released
    /\ table = NoPad
    /\ hands = [t \in Threads |-> Idle]

\* The slot has changed and t takes the output with the new state.
Take(t, why) ==
    /\ table' = NoPad
    /\ hands' = [hands EXCEPT ![t] = [why |-> why, pad |-> table, state |-> state']]

\* handle_key_event, phase 1. Also a key that changes nothing is written; one
\* that comes while there is no output is lost.
HandleKeyEvent(r) ==
    /\ hands[r] = Idle
    /\ table # NoPad
    /\ state' \in States
    /\ Take(r, "key")

\* handle_syn_dropped: without an output the slot changes all the same.
HandleSynDropped(r) ==
    /\ hands[r] = Idle
    /\ state' \in States
    /\ IF table = NoPad THEN UNCHANGED <<table, hands>> ELSE Take(r, "resync")

\* A test action comes while a reader may hold the output: it is not written.
InjectTestAction ==
    /\ hands[Main] = Idle
    /\ state' \in States
    /\ IF table = NoPad THEN UNCHANGED <<table, hands>> ELSE Take(Main, "inject")

PutBack(t, pad) ==
    /\ table' = pad
    /\ hands' = [hands EXCEPT ![t] = Idle]
    /\ UNCHANGED state

\* Phases 2 and 3. The output replaces one that was created meanwhile.
WriteWorks(t) ==
    /\ hands[t] # Idle
    /\ PutBack(t, Emitted(hands[t].pad, hands[t].state))

\* A key event keeps the controller, a resync removes it from the table, and
\* a test action returns before it puts it back.
WriteFails(t) ==
    /\ hands[t] # Idle
    /\ PutBack(t, CASE hands[t].why = "key" -> NotEmitted(hands[t].pad, hands[t].state)
                    [] hands[t].why = "resync" -> NoPad
                    [] hands[t].why = "inject" -> table)

\* assign_device, on this slot or away from it, and a change of the bindings:
\* the slot changes and nothing is written. Only the first may need a device.
AssignDevice ==
    /\ hands[Main] = Idle
    /\ state' \in States
    /\ table' \in {table} \cup (IF table = NoPad THEN {Created} ELSE {})
    /\ UNCHANGED hands

\* unassign_slot, and release_all_locks by the reader that saw the kill switch.
Clear(t) ==
    /\ hands[t] = Idle
    /\ state' = Released
    /\ table' = NoPad
    /\ UNCHANGED hands

Next ==
    \/ \E r \in Readers : HandleKeyEvent(r) \/ HandleSynDropped(r)
    \/ InjectTestAction
    \/ \E t \in Threads : WriteWorks(t) \/ WriteFails(t) \/ Clear(t)
    \/ AssignDevice

Spec == Init /\ [][Next]_vars

-----------------------------------------------------------------------------
Hand == {Idle} \cup [why : {"key", "resync", "inject"}, pad : Pads, state : States]

OutputTypeOK ==
    /\ state \in States
    /\ table \in Pads \cup {NoPad}
    /\ hands \in [Threads -> Hand]

\* The controllers there are, in the table and in the threads' hands.
Live == ({table} \cup {hands[t].pad : t \in Threads}) \ {NoPad}

(* A device shows exactly the state its controller remembers as last        *)
(* written, with the hat where the d-pad buttons put it: after any failed   *)
(* writes, unwritten changes and controllers in several hands.              *)
DeviceShowsLast == \A pad \in Live : pad.shown = Shows(pad.last)

(* A write that works brings the device all the way to the state that was   *)
(* taken with it, whatever was missed before: nothing that a failed write   *)
(* or an unwritten change left behind stays pressed.                        *)
WriteCatchesUp ==
    [][\A t \in Threads : WriteWorks(t) =>
            table' # NoPad /\ table'.shown = Shows(hands[t].state)]_vars
=============================================================================
