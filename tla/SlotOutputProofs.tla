-------------------------- MODULE SlotOutputProofs --------------------------
(***************************************************************************)
(* A write brings the device to the state that is written, for any number  *)
(* of readers and any set of states: the differences from `last` are all   *)
(* that is to be told, because every controller there is shows its `last`. *)
(***************************************************************************)
EXTENDS SlotOutput, FiniteSetTheorems, TLAPS

-----------------------------------------------------------------------------
(* The batch of emit_state is long enough.                                 *)

(* There are two hat axes. *)
LEMMA HatsCount == IsFiniteSet(Hats) /\ Cardinality(Hats) = 2
<1>1. IsFiniteSet({"x"}) /\ Cardinality({"x"}) = 1
  BY FS_Singleton
<1>2. "y" \notin {"x"} /\ Hats = {"x"} \cup {"y"}
  BY DEF Hats
<1>3. QED
  BY <1>1, <1>2, FS_AddElement

(* A subset of a finite set has a natural cardinality, at most the set's. *)
LEMMA PartCount ==
    ASSUME NEW whole, NEW part \in SUBSET whole, IsFiniteSet(whole)
    PROVE  Cardinality(part) \in Nat /\ Cardinality(part) <= Cardinality(whole)
<1>1. IsFiniteSet(part) /\ Cardinality(part) <= Cardinality(whole)
  BY FS_Subset
<1>2. QED
  BY <1>1, FS_CardinalityType

(* Whatever two states emit_state compares, the events and the SYN_REPORT   *)
(* fit into the batch: push_event never writes past its end.                *)
THEOREM BatchFits ==
    \A old, new \in PadStates : BatchLength(old, new) \in 0 .. MAX_BATCH_EVENTS
<1>1. TAKE old, new \in PadStates
<1> DEFINE keys == Cardinality(KeyEvents(old, new))
           hats == Cardinality(HatEvents(old, new))
           axes == Cardinality(AxisEvents(old, new))
<1>2. keys \in Nat /\ keys <= 15
  <2>1. KeyEvents(old, new) \in SUBSET Buttons
    BY DEF KeyEvents
  <2>2. QED
    BY <2>1, PartCount, GamepadAssumption
<1>3. hats \in Nat /\ hats <= 2
  <2>1. HatEvents(old, new) \in SUBSET Hats
    BY DEF HatEvents
  <2>2. QED
    BY <2>1, PartCount, HatsCount
<1>4. axes \in Nat /\ axes <= 6
  <2>1. AxisEvents(old, new) \in SUBSET PadAxes
    BY DEF AxisEvents
  <2>2. QED
    BY <2>1, PartCount, GamepadAssumption
<1>5. BatchLength(old, new) =
        IF keys + hats + axes = 0 THEN 0 ELSE keys + hats + axes + 1
  BY DEF BatchLength
<1> HIDE DEF keys, hats, axes
<1>6. keys + hats + axes \in 0 .. 23
  BY <1>2, <1>3, <1>4
<1>7. QED
  BY <1>5, <1>6 DEF MAX_BATCH_EVENTS

-----------------------------------------------------------------------------
(* The device follows the state.                                           *)

\* The controllers whose device shows what was written last.
InStep == {pad \in Pads : pad.shown = Shows(pad.last)}

\* The inductive invariant, of which both DeviceShowsLast and the types follow.
OutputInv ==
    /\ state \in States
    /\ table \in InStep \cup {NoPad}
    /\ hands \in [Threads -> {Idle} \cup
            [why : {"key", "resync", "inject"}, pad : InStep, state : States]]

-----------------------------------------------------------------------------
(* A hat leans by one at most. *)
LEMMA HatType ==
    ASSUME NEW buttons
    PROVE  hat_from_buttons(buttons) \in [Hats -> -1 .. 1]
<1>1. \A low, high : Lean(low, high, buttons) \in -1 .. 1
  BY DEF Lean
<1>2. QED
  BY <1>1 DEF hat_from_buttons

(* What is shown for a state is something a device can show. *)
LEMMA ShowsType ==
    ASSUME NEW s \in PadStates
    PROVE  Shows(s) \in Displays
<1>1. hat_from_buttons(s.buttons) \in [Hats -> -1 .. 1]
  BY HatType
<1>2. s.buttons \in SUBSET Buttons /\ s.axes \in [PadAxes -> Int]
  BY DEF PadStates
<1>3. QED
  BY <1>1, <1>2 DEF Shows, Displays

(* The events of a batch take a device that shows `last` to the new state.  *)
LEMMA BatchIsEnough ==
    ASSUME NEW last \in PadStates, NEW s \in PadStates
    PROVE  Applied(Shows(last), last, s) = Shows(s)
<1> DEFINE shown == Shows(last)
           buttons == {b \in Buttons :
                        IF b \in KeyEvents(last, s) THEN b \in s.buttons ELSE b \in shown.buttons}
           hats == [h \in Hats |-> IF h \in HatEvents(last, s) THEN hat_from_buttons(s.buttons)[h]
                                   ELSE shown.hats[h]]
           axes == [x \in PadAxes |-> IF x \in AxisEvents(last, s) THEN s.axes[x]
                                      ELSE shown.axes[x]]
<1>1. /\ s.buttons \in SUBSET Buttons /\ s.axes \in [PadAxes -> Int]
      /\ last.buttons \in SUBSET Buttons /\ last.axes \in [PadAxes -> Int]
  BY DEF PadStates
<1>2. /\ shown.buttons = last.buttons /\ shown.axes = last.axes
      /\ shown.hats = hat_from_buttons(last.buttons)
  BY DEF Shows
<1> HIDE DEF shown
<1>3. buttons = s.buttons
  BY <1>1, <1>2 DEF KeyEvents
<1>4. hats = hat_from_buttons(s.buttons)
  <2>1. hat_from_buttons(s.buttons) = [h \in Hats |-> hat_from_buttons(s.buttons)[h]]
    BY DEF hat_from_buttons
  <2>2. \A h \in Hats : hats[h] = hat_from_buttons(s.buttons)[h]
    BY <1>2 DEF HatEvents
  <2>3. QED
    BY <2>1, <2>2
<1>5. axes = s.axes
  <2>1. \A x \in PadAxes : axes[x] = s.axes[x]
    BY <1>2 DEF AxisEvents
  <2>2. QED
    BY <1>1, <2>1
<1>6. Applied(shown, last, s) = [buttons |-> buttons, hats |-> hats, axes |-> axes]
  BY DEF Applied
<1> HIDE DEF buttons, hats, axes
<1>7. Applied(shown, last, s) = Shows(s)
  BY <1>3, <1>4, <1>5, <1>6 DEF Shows
<1>8. QED
  BY <1>7 DEF shown

(* Hence a write keeps a controller in step, and it shows the new state. *)
LEMMA EmittedInStep ==
    ASSUME NEW pad \in InStep, NEW s \in States
    PROVE  Emitted(pad, s) \in InStep /\ Emitted(pad, s).shown = Shows(s)
<1>1. s \in PadStates
  BY OutputAssumption
<1>2. pad.last \in PadStates /\ pad.shown = Shows(pad.last)
  BY DEF InStep, Pads
<1>3. Applied(pad.shown, pad.last, s) = Shows(s)
  BY <1>1, <1>2, BatchIsEnough
<1>4. Emitted(pad, s) = [last |-> s, shown |-> Shows(s)]
  BY <1>3 DEF Emitted
<1>5. Shows(s) \in Displays
  BY <1>1, ShowsType
<1>6. QED
  BY <1>1, <1>4, <1>5 DEF InStep, Pads

(* A new device is in step. *)
LEMMA CreatedInStep == Created \in InStep
<1>1. Released \in PadStates
  BY OutputAssumption
<1>2. Shows(Released) \in Displays
  BY <1>1, ShowsType
<1>3. QED
  BY <1>1, <1>2 DEF Created, InStep, Pads

(* What a thread holds that is not idle is a controller in step. *)
LEMMA HandInStep ==
    ASSUME OutputInv, NEW t \in Threads, hands[t] # Idle
    PROVE  /\ hands[t].pad \in InStep /\ hands[t].state \in States
           /\ hands[t].why \in {"key", "resync", "inject"}
  BY DEF OutputInv

-----------------------------------------------------------------------------
(* The invariant is inductive. *)

LEMMA OutputInit == Init => OutputInv
  BY OutputAssumption DEF Init, OutputInv

(* Taking the output out of the table. *)
LEMMA TakeKeeps ==
    ASSUME OutputInv, NEW t \in Threads, NEW why \in {"key", "resync", "inject"},
           table # NoPad, state' \in States, Take(t, why)
    PROVE  OutputInv'
<1>1. table \in InStep
  BY DEF OutputInv
<1>2. [why |-> why, pad |-> table, state |-> state'] \in
        [why : {"key", "resync", "inject"}, pad : InStep, state : States]
  BY <1>1
<1>3. QED
  BY <1>2 DEF OutputInv, Take

(* Putting one back that is in step, or none. *)
LEMMA PutBackKeeps ==
    ASSUME OutputInv, NEW t \in Threads, NEW pad \in InStep \cup {NoPad}, PutBack(t, pad)
    PROVE  OutputInv'
  BY DEF OutputInv, PutBack

(* Every step keeps the invariant, one action after the other. *)
LEMMA OutputNext == OutputInv /\ [Next]_vars => OutputInv'
<1> SUFFICES ASSUME OutputInv, [Next]_vars
             PROVE  OutputInv'
  OBVIOUS
<1>1. CASE UNCHANGED vars
  BY <1>1 DEF OutputInv, vars
<1>2. ASSUME NEW r \in Readers, HandleKeyEvent(r)
      PROVE  OutputInv'
  BY <1>2, TakeKeeps DEF HandleKeyEvent, Threads
<1>3. ASSUME NEW r \in Readers, HandleSynDropped(r)
      PROVE  OutputInv'
  <2>1. CASE table = NoPad
    BY <1>3, <2>1 DEF HandleSynDropped, OutputInv
  <2>2. CASE table # NoPad
    BY <1>3, <2>2, TakeKeeps DEF HandleSynDropped, Threads
  <2>3. QED
    BY <2>1, <2>2
<1>4. CASE InjectTestAction
  <2>1. CASE table = NoPad
    BY <1>4, <2>1 DEF InjectTestAction, OutputInv
  <2>2. CASE table # NoPad
    BY <1>4, <2>2, TakeKeeps DEF InjectTestAction, Threads
  <2>3. QED
    BY <2>1, <2>2
<1>5. ASSUME NEW t \in Threads, WriteWorks(t)
      PROVE  OutputInv'
  <2>1. Emitted(hands[t].pad, hands[t].state) \in InStep
    BY <1>5, HandInStep, EmittedInStep DEF WriteWorks
  <2>2. QED
    BY <1>5, <2>1, PutBackKeeps DEF WriteWorks
<1>6. ASSUME NEW t \in Threads, WriteFails(t)
      PROVE  OutputInv'
  <2>1. hands[t].pad \in InStep /\ table \in InStep \cup {NoPad}
        /\ hands[t].why \in {"key", "resync", "inject"}
    BY <1>6, HandInStep DEF WriteFails, OutputInv
  <2>2. QED
    BY <1>6, <2>1, PutBackKeeps DEF WriteFails, NotEmitted
<1>7. ASSUME NEW t \in Threads, Clear(t)
      PROVE  OutputInv'
  BY <1>7, OutputAssumption DEF Clear, OutputInv
<1>8. CASE AssignDevice
  BY <1>8, CreatedInStep DEF AssignDevice, OutputInv
<1>9. QED
  BY <1>1, <1>2, <1>3, <1>4, <1>5, <1>6, <1>7, <1>8 DEF Next

(* The invariant holds in every state of every behaviour. *)
LEMMA OutputInvHolds == Spec => []OutputInv
  BY OutputInit, OutputNext, PTL DEF Spec

-----------------------------------------------------------------------------
(* Controllers and states have their types, and no thread forgets what it   *)
(* holds.                                                                   *)
THEOREM OutputTypes == Spec => []OutputTypeOK
<1>1. OutputInv => OutputTypeOK
  BY DEF OutputInv, OutputTypeOK, InStep, Hand
<1>2. QED
  BY <1>1, OutputInvHolds, PTL

(* Every device shows what its controller remembers as last written,        *)
(* whichever writes fail and whoever holds the controller.                  *)
THEOREM OutputInStep == Spec => []DeviceShowsLast
<1>1. OutputInv => DeviceShowsLast
  <2> SUFFICES ASSUME OutputInv, NEW pad \in Live
               PROVE  pad.shown = Shows(pad.last)
    BY DEF DeviceShowsLast
  <2>1. pad \in InStep
    BY HandInStep DEF Live, OutputInv, Idle
  <2>2. QED
    BY <2>1 DEF InStep
<1>2. QED
  BY <1>1, OutputInvHolds, PTL

(* A write that works shows the state it was for, whatever was missed       *)
(* before it.                                                               *)
THEOREM OutputCatchesUp == Spec => WriteCatchesUp
<1> DEFINE Works == \A t \in Threads : WriteWorks(t) =>
                        table' # NoPad /\ table'.shown = Shows(hands[t].state)
<1>1. OutputInv /\ [Next]_vars => [Works]_vars
  <2> SUFFICES ASSUME OutputInv, NEW t \in Threads, WriteWorks(t)
               PROVE  table' # NoPad /\ table'.shown = Shows(hands[t].state)
    OBVIOUS
  <2>1. /\ Emitted(hands[t].pad, hands[t].state) \in InStep
        /\ Emitted(hands[t].pad, hands[t].state).shown = Shows(hands[t].state)
    BY HandInStep, EmittedInStep DEF WriteWorks
  <2>2. table' = Emitted(hands[t].pad, hands[t].state)
    BY DEF WriteWorks, PutBack
  <2>3. NoPad \notin InStep
    BY OutputAssumption DEF InStep
  <2>4. QED
    BY <2>1, <2>2, <2>3
<1>2. Spec => [][Works]_vars
  BY <1>1, OutputInvHolds, PTL DEF Spec
<1>3. QED
  BY <1>2 DEF WriteCatchesUp
=============================================================================
