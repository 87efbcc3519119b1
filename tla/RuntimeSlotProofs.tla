-------------------------- MODULE RuntimeSlotProofs --------------------------
(***************************************************************************)
(* Proofs about RuntimeSlot, for every finite set of keys, every set of    *)
(* buttons and axes and every set of binding lists.                        *)
(***************************************************************************)
EXTENDS RuntimeSlot, FiniteSetTheorems, TLAPS

-----------------------------------------------------------------------------
(* How a change of one key changes the holders of the actions.             *)

(* The holders of an action are finitely many. *)
LEMMA HoldersFinite ==
    ASSUME NEW map, NEW a
    PROVE  /\ IsFiniteSet(Holders(map, a))
           /\ Cardinality(Holders(map, a)) \in Nat
           /\ Cardinality(Holders(map, a)) = 0 <=> Holders(map, a) = {}
<1>1. Holders(map, a) \subseteq Keys
  BY DEF Holders
<1>2. IsFiniteSet(Holders(map, a))
  BY <1>1, KeysAssumption, FS_Subset
<1> QED
  BY <1>2, FS_CardinalityType, FS_EmptySet

(* Pressing a key adds it to the holders of its action, and to no others.  *)
LEMMA HoldersOnPress ==
    ASSUME NEW map \in HeldMaps, NEW k \in Keys, NEW a \in Action,
           map[k] = NoAction, NEW b \in Action
    PROVE  LET new == [map EXCEPT ![k] = a]
           IN  /\ Cardinality(Holders(new, b)) =
                      Cardinality(Holders(map, b)) + (IF b = a THEN 1 ELSE 0)
               /\ HeldActions(new) = HeldActions(map) \cup {a}
<1> DEFINE new == [map EXCEPT ![k] = a]
<1>0. NoAction \notin Action
  BY ActionAssumption
<1>1. \A c \in Action : Holders(new, c) = IF c = a THEN Holders(map, c) \cup {k}
                                                   ELSE Holders(map, c)
  BY <1>0 DEF Holders, HeldMaps
<1>2. k \notin Holders(map, a)
  BY <1>0 DEF Holders
<1>3. Cardinality(Holders(map, a) \cup {k}) = Cardinality(Holders(map, a)) + 1
  BY <1>2, HoldersFinite, FS_AddElement
<1>4. HeldActions(new) = HeldActions(map) \cup {a}
  BY <1>1 DEF HeldActions
<1>5. Cardinality(Holders(new, b)) =
          Cardinality(Holders(map, b)) + (IF b = a THEN 1 ELSE 0)
  <2>1. Cardinality(Holders(map, b)) \in Nat
    BY HoldersFinite
  <2>2. CASE b = a
    BY <1>1, <1>3, <2>2
  <2>3. CASE b # a
    <3>1. Holders(new, b) = Holders(map, b)
      BY <1>1, <2>3
    <3> QED
      BY <2>1, <2>3, <3>1
  <2> QED
    BY <2>2, <2>3
<1> QED
  BY <1>4, <1>5

(* Releasing a key takes it from the holders of its action: the action is  *)
(* still held exactly if another key holds it.                             *)
LEMMA HoldersOnRelease ==
    ASSUME NEW map \in HeldMaps, NEW k \in Keys, map[k] \in Action,
           NEW b \in Action
    PROVE  LET new == [map EXCEPT ![k] = NoAction]
           IN  /\ Cardinality(Holders(new, b)) =
                      Cardinality(Holders(map, b)) - (IF b = map[k] THEN 1 ELSE 0)
               /\ Cardinality(Holders(map, map[k])) > 0
               /\ HeldActions(new) =
                      IF Cardinality(Holders(map, map[k])) = 1
                      THEN HeldActions(map) \ {map[k]}
                      ELSE HeldActions(map)
<1> DEFINE new == [map EXCEPT ![k] = NoAction]
           a == map[k]
<1>0. NoAction \notin Action
  BY ActionAssumption
<1>1. \A c \in Action : Holders(new, c) = IF c = a THEN Holders(map, c) \ {k}
                                                   ELSE Holders(map, c)
  BY <1>0 DEF Holders, HeldMaps
<1>2. k \in Holders(map, a)
  BY DEF Holders
<1>3. Cardinality(Holders(map, a) \ {k}) = Cardinality(Holders(map, a)) - 1
  BY <1>2, HoldersFinite, FS_RemoveElement
<1>4. Cardinality(Holders(map, a)) \in Nat \ {0}
  BY <1>2, HoldersFinite
<1>5. Cardinality(Holders(map, a)) = 1 <=> Holders(map, a) \ {k} = {}
  <2>1. Holders(new, a) = Holders(map, a) \ {k}
    BY <1>1
  <2>2. Cardinality(Holders(new, a)) = 0 <=> Holders(new, a) = {}
    BY HoldersFinite
  <2> HIDE DEF new, a
  <2> QED
    BY <2>1, <2>2, <1>3, <1>4
<1>6. HeldActions(new) = IF Cardinality(Holders(map, a)) = 1
                         THEN HeldActions(map) \ {a} ELSE HeldActions(map)
  <2>1. a \in HeldActions(map)
    BY <1>2 DEF HeldActions
  <2>2. \A c \in Action : c # a => (c \in HeldActions(new) <=> c \in HeldActions(map))
    BY <1>1 DEF HeldActions
  <2>3. a \in HeldActions(new) <=> Holders(map, a) \ {k} # {}
    BY <1>1 DEF HeldActions
  <2>4. HeldActions(new) \subseteq Action /\ HeldActions(map) \subseteq Action
    BY DEF HeldActions
  <2> HIDE DEF new, a
  <2> QED
    BY <1>5, <2>1, <2>2, <2>3, <2>4
<1>7. Cardinality(Holders(new, b)) =
          Cardinality(Holders(map, b)) - (IF b = a THEN 1 ELSE 0)
  <2>1. Cardinality(Holders(map, b)) \in Nat
    BY HoldersFinite
  <2> HIDE DEF new
  <2> QED
    BY <1>1, <1>3, <2>1
<1> QED
  BY <1>4, <1>6, <1>7

-----------------------------------------------------------------------------
(* Applying an action to a state.                                          *)

(* The numbers of the model: full deflection is the largest i16. *)
LEMMA Widths ==
    /\ STICK_MAX \in Nat
    /\ I16_MAX = STICK_MAX
    /\ I16_MIN = -STICK_MAX - 1
BY DEF STICK_MAX, I16_MAX, I16_MIN

(* An axis action names an axis and a sign. *)
LEMMA AxisAction ==
    ASSUME NEW a \in Action, a \notin Digital
    PROVE  a[1] \in Axes /\ a[2] \in {-1, 1} /\ a = <<a[1], a[2]>>
BY DEF Action, Signs

(* The addition saturates, so that it never leaves the i16 range. *)
LEMMA SaturatingAddTyped ==
    ASSUME NEW x \in AxisValues, NEW d \in Int
    PROVE  SaturatingAdd(x, d) \in AxisValues
<1>1. x + d \in Int
  BY Widths DEF AxisValues
<1> QED
  BY <1>1, Widths DEF SaturatingAdd, AxisValues

(* Deltas keep a controller state well-formed. *)
LEMMA DeltaTyped ==
    ASSUME NEW s \in ControllerState, NEW a \in Action, NEW down \in BOOLEAN
    PROVE  apply_action_delta(s, a, down) \in ControllerState
<1>1. CASE a \in Digital
  BY <1>1 DEF apply_action_delta, ControllerState
<1>2. CASE a \notin Digital
  <2> DEFINE step == STICK_MAX * a[2] * (IF down THEN 1 ELSE -1)
  <2>1. a[1] \in Axes /\ a[2] \in {-1, 1}
    BY <1>2, AxisAction
  <2>2. step \in Int
    BY <2>1, Widths
  <2>3. s.axes[a[1]] \in AxisValues
    BY <2>1 DEF ControllerState
  <2>4. SaturatingAdd(s.axes[a[1]], step) \in AxisValues
    BY <2>2, <2>3, SaturatingAddTyped
  <2>5. apply_action_delta(s, a, down) =
          [s EXCEPT !.axes[a[1]] = SaturatingAdd(@, step)]
    BY <1>2 DEF apply_action_delta
  <2> HIDE DEF step
  <2> QED
    BY <2>1, <2>4, <2>5 DEF ControllerState
<1> QED
  BY <1>1, <1>2

(* The axis of a set of actions: full deflection one way, the other, or    *)
(* centred.                                                                *)
LEMMA AxisOf ==
    ASSUME NEW S \in SUBSET Action, NEW x \in Axes
    PROVE  StateOf(S).axes[x] =
             CASE <<x, 1>> \in S /\ <<x, -1>> \notin S -> STICK_MAX
               [] <<x, 1>> \notin S /\ <<x, -1>> \in S -> -STICK_MAX
               [] OTHER                                -> 0
<1>1. StateOf(S).axes[x] =
        STICK_MAX * ((IF <<x, 1>> \in S THEN 1 ELSE 0)
                     - (IF <<x, -1>> \in S THEN 1 ELSE 0))
  BY DEF StateOf
<1>2. CASE <<x, 1>> \in S /\ <<x, -1>> \notin S
  BY <1>1, <1>2, Widths
<1>3. CASE <<x, 1>> \notin S /\ <<x, -1>> \in S
  BY <1>1, <1>3, Widths
<1>4. CASE <<x, 1>> \in S <=> <<x, -1>> \in S
  BY <1>1, <1>4, Widths
<1> QED
  BY <1>2, <1>3, <1>4

LEMMA StateOfTyped ==
    ASSUME NEW S \in SUBSET Action
    PROVE  StateOf(S) \in ControllerState
<1>1. StateOf(S) = [pressed |-> S \cap Digital,
                    axes |-> [x \in Axes |-> StateOf(S).axes[x]]]
  BY DEF StateOf
<1>2. ASSUME NEW x \in Axes PROVE StateOf(S).axes[x] \in AxisValues
  <2>1. StateOf(S).axes[x] \in {STICK_MAX, -STICK_MAX, 0}
    BY AxisOf
  <2>2. {STICK_MAX, -STICK_MAX, 0} \subseteq AxisValues
    BY Widths DEF AxisValues
  <2> QED
    BY <2>1, <2>2
<1> QED
  BY <1>1, <1>2 DEF ControllerState

(* No action is down in the default state. *)
LEMMA StateOfNothing == StateOf({}) = DefaultState
BY Widths DEF StateOf, DefaultState

(* A deflection that starts at the centre or comes back to it.              *)
LEMMA SaturatingSteps ==
    /\ SaturatingAdd(0, STICK_MAX) = STICK_MAX
    /\ SaturatingAdd(0, -STICK_MAX) = -STICK_MAX
    /\ SaturatingAdd(STICK_MAX, -STICK_MAX) = 0
    /\ SaturatingAdd(-STICK_MAX, STICK_MAX) = 0
<1> HIDE DEF STICK_MAX, I16_MAX, I16_MIN
<1> QED
  BY Widths DEF SaturatingAdd

(* Two states are equal when their parts are. *)
LEMMA StateEquality ==
    ASSUME NEW s \in ControllerState, NEW t \in ControllerState,
           s.pressed = t.pressed,
           \A x \in Axes : s.axes[x] = t.axes[x]
    PROVE  s = t
<1>1. s.axes = t.axes
  BY DEF ControllerState
<1> QED
  BY <1>1 DEF ControllerState

(* One delta takes the state of a set of actions to the state of the set   *)
(* with that action added or removed.  This is where opposite directions   *)
(* must cancel and where the addition must not saturate.                   *)
LEMMA DeltaOfState ==
    ASSUME NEW S \in SUBSET Action, NEW a \in Action, NEW down \in BOOLEAN,
           down <=> a \notin S
    PROVE  apply_action_delta(StateOf(S), a, down) =
             StateOf(IF down THEN S \cup {a} ELSE S \ {a})
<1> DEFINE T == IF down THEN S \cup {a} ELSE S \ {a}
           old == StateOf(S)
           new == apply_action_delta(old, a, down)
<1>1. T \in SUBSET Action /\ \A b : b # a => (b \in T <=> b \in S)
  OBVIOUS
<1>2. a \in T <=> down
  OBVIOUS
<1>3. old \in ControllerState /\ StateOf(T) \in ControllerState
  BY <1>1, StateOfTyped
<1>4. new \in ControllerState
  BY <1>3, DeltaTyped
<1>5. old.pressed = S \cap Digital /\ StateOf(T).pressed = T \cap Digital
  BY DEF StateOf
<1>6. CASE a \in Digital
  <2>1. new.pressed = (IF down THEN old.pressed \cup {a} ELSE old.pressed \ {a})
        /\ new.axes = old.axes
    BY <1>3, <1>6 DEF apply_action_delta, ControllerState
  <2>2. new.pressed = StateOf(T).pressed
    BY <1>5, <1>6, <2>1
  <2>3. \A x \in Axes : <<x, 1>> # a /\ <<x, -1>> # a
    BY <1>6, ActionAssumption DEF Signs
  <2>4. ASSUME NEW x \in Axes PROVE new.axes[x] = StateOf(T).axes[x]
    <3>1. (<<x, 1>> \in T <=> <<x, 1>> \in S) /\ (<<x, -1>> \in T <=> <<x, -1>> \in S)
      BY <1>1, <2>3
    <3> HIDE DEF T, old, new
    <3>2. StateOf(T).axes[x] = StateOf(S).axes[x]
      BY <1>1, <3>1, AxisOf
    <3> QED
      BY <2>1, <3>2 DEF old
  <2> HIDE DEF T, old, new
  <2>5. new = StateOf(T)
    BY <1>3, <1>4, <2>2, <2>4, StateEquality
  <2> QED
    BY <2>5 DEF T, old, new
<1>7. CASE a \notin Digital
  <2> DEFINE step == STICK_MAX * a[2] * (IF down THEN 1 ELSE -1)
  <2>1. a[1] \in Axes /\ a[2] \in {-1, 1} /\ a = <<a[1], a[2]>>
    BY <1>7, AxisAction
  <2>2. new = [old EXCEPT !.axes[a[1]] = SaturatingAdd(@, step)]
    BY <1>7 DEF apply_action_delta
  <2>3. new.pressed = StateOf(T).pressed
    <3>1. new.pressed = old.pressed
      BY <1>3, <2>2 DEF ControllerState
    <3>2. T \cap Digital = S \cap Digital
      BY <1>7
    <3> QED
      BY <1>5, <3>1, <3>2
  <2>4. ASSUME NEW x \in Axes, x # a[1] PROVE new.axes[x] = StateOf(T).axes[x]
    <3>1. new.axes[x] = old.axes[x]
      BY <1>3, <2>1, <2>2, <2>4 DEF ControllerState
    <3>2. <<x, 1>> # a /\ <<x, -1>> # a
      BY <2>1, <2>4
    <3>3. (<<x, 1>> \in T <=> <<x, 1>> \in S) /\ (<<x, -1>> \in T <=> <<x, -1>> \in S)
      BY <1>1, <3>2
    <3> HIDE DEF T, new
    <3>4. StateOf(T).axes[x] = StateOf(S).axes[x]
      BY <1>1, <3>3, AxisOf
    <3> QED
      BY <3>1, <3>4
  <2>5. new.axes[a[1]] = StateOf(T).axes[a[1]]
    <3> DEFINE x == a[1]
               opposite == <<x, IF a[2] = 1 THEN -1 ELSE 1>>
    <3>1. new.axes[x] = SaturatingAdd(old.axes[x], step)
      BY <1>3, <2>1, <2>2 DEF ControllerState
    <3>2. opposite # a /\ (opposite \in T <=> opposite \in S)
      BY <1>1, <2>1
    <3>3. step = IF down <=> a[2] = 1 THEN STICK_MAX ELSE -STICK_MAX
      BY <2>1, Widths
    <3>4. x \in Axes
      BY <2>1
    <3> HIDE DEF T, new, step
    <3>5. CASE a[2] = 1
      <4>1. a = <<x, 1>> /\ opposite = <<x, -1>> /\ step = IF down THEN STICK_MAX ELSE -STICK_MAX
        BY <2>1, <3>3, <3>5
      <4>2. (a \in S <=> ~down) /\ (a \in T <=> down)
        BY <1>2
      <4> HIDE DEF x, opposite
      <4>3. CASE opposite \in S
        <5>1. old.axes[x] = IF down THEN -STICK_MAX ELSE 0
          BY <3>4, <4>1, <4>2, <4>3, AxisOf, Widths DEF old
        <5>2. StateOf(T).axes[x] = IF down THEN 0 ELSE -STICK_MAX
          BY <1>1, <3>2, <3>4, <4>1, <4>2, <4>3, AxisOf, Widths
        <5> QED
          BY <3>1, <4>1, <5>1, <5>2, SaturatingSteps DEF x
      <4>4. CASE opposite \notin S
        <5>1. old.axes[x] = IF down THEN 0 ELSE STICK_MAX
          BY <3>4, <4>1, <4>2, <4>4, AxisOf, Widths DEF old
        <5>2. StateOf(T).axes[x] = IF down THEN STICK_MAX ELSE 0
          BY <1>1, <3>2, <3>4, <4>1, <4>2, <4>4, AxisOf, Widths
        <5> QED
          BY <3>1, <4>1, <5>1, <5>2, SaturatingSteps DEF x
      <4> QED
        BY <4>3, <4>4
    <3>6. CASE a[2] = -1
      <4>1. a = <<x, -1>> /\ opposite = <<x, 1>> /\ step = IF down THEN -STICK_MAX ELSE STICK_MAX
        BY <2>1, <3>3, <3>6
      <4>2. (a \in S <=> ~down) /\ (a \in T <=> down)
        BY <1>2
      <4> HIDE DEF x, opposite
      <4>3. CASE opposite \in S
        <5>1. old.axes[x] = IF down THEN STICK_MAX ELSE 0
          BY <3>4, <4>1, <4>2, <4>3, AxisOf, Widths DEF old
        <5>2. StateOf(T).axes[x] = IF down THEN 0 ELSE STICK_MAX
          BY <1>1, <3>2, <3>4, <4>1, <4>2, <4>3, AxisOf, Widths
        <5> QED
          BY <3>1, <4>1, <5>1, <5>2, SaturatingSteps DEF x
      <4>4. CASE opposite \notin S
        <5>1. old.axes[x] = IF down THEN 0 ELSE -STICK_MAX
          BY <3>4, <4>1, <4>2, <4>4, AxisOf, Widths DEF old
        <5>2. StateOf(T).axes[x] = IF down THEN -STICK_MAX ELSE 0
          BY <1>1, <3>2, <3>4, <4>1, <4>2, <4>4, AxisOf, Widths
        <5> QED
          BY <3>1, <4>1, <5>1, <5>2, SaturatingSteps DEF x
      <4> QED
        BY <4>3, <4>4
    <3> QED
      BY <2>1, <3>5, <3>6
  <2>6. \A x \in Axes : new.axes[x] = StateOf(T).axes[x]
    BY <2>4, <2>5
  <2> HIDE DEF T, old, new
  <2>7. new = StateOf(T)
    BY <1>3, <1>4, <2>3, <2>6, StateEquality
  <2> QED
    BY <2>7 DEF T, old, new
<1> QED
  BY <1>6, <1>7

-----------------------------------------------------------------------------
(* The counting helpers against the keys that hold the actions.            *)

Exact(map, c) ==
    \A a \in Action : c.refcount[a] = Cardinality(Holders(map, a))
Matches(map, c) == c.state = StateOf(HeldActions(map))

LEMMA HeldActionsTyped == \A map : HeldActions(map) \in SUBSET Action
BY DEF HeldActions

LEMMA NothingIsHeld ==
    /\ NothingHeld \in HeldMaps
    /\ HeldKeys(NothingHeld) = {}
    /\ Unpressed \in Controls
    /\ Exact(NothingHeld, Unpressed)
    /\ Matches(NothingHeld, Unpressed)
<1>1. NothingHeld \in HeldMaps /\ HeldKeys(NothingHeld) = {}
  BY DEF NothingHeld, HeldMaps, HeldKeys
<1>2. \A a \in Action : Holders(NothingHeld, a) = {}
  BY ActionAssumption DEF NothingHeld, Holders
<1>3. Exact(NothingHeld, Unpressed)
  BY <1>2, FS_EmptySet DEF Exact, Unpressed
<1>4. HeldActions(NothingHeld) = {}
  BY <1>2 DEF HeldActions
<1>5. DefaultState \in ControllerState
  BY StateOfNothing, StateOfTyped
<1>6. Unpressed \in Controls
  BY <1>5 DEF Unpressed, Controls
<1> QED
  BY <1>1, <1>3, <1>4, <1>6, StateOfNothing DEF Matches, Unpressed

LEMMA IncrementTyped ==
    ASSUME NEW c \in Controls, NEW a \in Action
    PROVE  increment_action(c, a) \in Controls
<1>1. c.state \in ControllerState /\ c.refcount \in [Action -> Nat]
  BY DEF Controls
<1>2. apply_action_delta(c.state, a, TRUE) \in ControllerState
  BY <1>1, DeltaTyped
<1> DEFINE count == [c.refcount EXCEPT ![a] = @ + 1]
           state == IF c.refcount[a] = 0
                    THEN apply_action_delta(c.state, a, TRUE) ELSE c.state
<1>3. count \in [Action -> Nat]
  BY <1>1
<1>4. state \in ControllerState
  BY <1>1, <1>2
<1>5. increment_action(c, a) = [refcount |-> count, state |-> state]
  BY DEF increment_action
<1> HIDE DEF count, state
<1> QED
  BY <1>3, <1>4, <1>5 DEF Controls

LEMMA DecrementTyped ==
    ASSUME NEW c \in Controls, NEW a \in Action
    PROVE  decrement_action(c, a) \in Controls
<1>1. c.state \in ControllerState /\ c.refcount \in [Action -> Nat]
  BY DEF Controls
<1>2. apply_action_delta(c.state, a, FALSE) \in ControllerState
  BY <1>1, DeltaTyped
<1> DEFINE count == [c.refcount EXCEPT ![a] = @ - 1]
           state == IF c.refcount[a] = 1
                    THEN apply_action_delta(c.state, a, FALSE) ELSE c.state
<1>3. c.refcount[a] # 0 => count \in [Action -> Nat]
  BY <1>1
<1>4. state \in ControllerState
  BY <1>1, <1>2
<1>5. decrement_action(c, a) =
        IF c.refcount[a] = 0 THEN c ELSE [refcount |-> count, state |-> state]
  BY DEF decrement_action
<1> HIDE DEF count, state
<1> QED
  BY <1>3, <1>4, <1>5 DEF Controls

(* Pressing a key and incrementing its action keep the counts exact, and   *)
(* the state the one the held keys call for.                               *)
LEMMA IncrementOnPress ==
    ASSUME NEW map \in HeldMaps, NEW c \in Controls, NEW k \in Keys,
           NEW a \in Action, map[k] = NoAction, Exact(map, c)
    PROVE  LET new == [map EXCEPT ![k] = a]
           IN  /\ Exact(new, increment_action(c, a))
               /\ Matches(map, c) => Matches(new, increment_action(c, a))
<1> DEFINE new == [map EXCEPT ![k] = a]
           d == increment_action(c, a)
<1>1. c.refcount \in [Action -> Nat]
  BY DEF Controls
<1>2. \A b \in Action : Cardinality(Holders(new, b)) =
                          Cardinality(Holders(map, b)) + (IF b = a THEN 1 ELSE 0)
  BY HoldersOnPress
<1>3. HeldActions(new) = HeldActions(map) \cup {a}
  BY HoldersOnPress
<1>4. Exact(new, d)
  <2>1. \A b \in Action : d.refcount[b] = c.refcount[b] + (IF b = a THEN 1 ELSE 0)
    BY <1>1 DEF increment_action
  <2> HIDE DEF new, d
  <2> QED
    BY <1>2, <2>1 DEF Exact
<1>5. ASSUME Matches(map, c) PROVE Matches(new, d)
  <2>1. c.refcount[a] = 0 <=> a \notin HeldActions(map)
    BY HoldersFinite DEF Exact, HeldActions
  <2>2. HeldActions(map) \in SUBSET Action
    BY HeldActionsTyped
  <2>3. CASE c.refcount[a] = 0
    <3>1. d.state = apply_action_delta(StateOf(HeldActions(map)), a, TRUE)
      BY <1>5, <2>3 DEF increment_action, Matches
    <3>2. d.state = StateOf(HeldActions(map) \cup {a})
      BY <2>1, <2>2, <2>3, <3>1, DeltaOfState
    <3> QED
      BY <1>3, <3>2 DEF Matches
  <2>4. CASE c.refcount[a] # 0
    <3>1. HeldActions(new) = HeldActions(map)
      BY <1>3, <2>1, <2>4
    <3>2. d.state = c.state
      BY <2>4 DEF increment_action
    <3> QED
      BY <1>5, <3>1, <3>2 DEF Matches
  <2> QED
    BY <2>3, <2>4
<1> QED
  BY <1>4, <1>5

(* Releasing a key and decrementing the action it was pressed with do too. *)
LEMMA DecrementOnRelease ==
    ASSUME NEW map \in HeldMaps, NEW c \in Controls, NEW k \in Keys,
           map[k] \in Action, Exact(map, c)
    PROVE  LET new == [map EXCEPT ![k] = NoAction]
           IN  /\ Exact(new, decrement_action(c, map[k]))
               /\ Matches(map, c) => Matches(new, decrement_action(c, map[k]))
<1> DEFINE new == [map EXCEPT ![k] = NoAction]
           a == map[k]
           d == decrement_action(c, a)
<1>1. c.refcount \in [Action -> Nat]
  BY DEF Controls
<1>2. \A b \in Action : Cardinality(Holders(new, b)) =
                          Cardinality(Holders(map, b)) - (IF b = a THEN 1 ELSE 0)
  BY HoldersOnRelease
<1>3. HeldActions(new) = IF c.refcount[a] = 1 THEN HeldActions(map) \ {a}
                                              ELSE HeldActions(map)
  BY HoldersOnRelease DEF Exact
<1>4. c.refcount[a] # 0
  <2>1. Cardinality(Holders(map, a)) > 0
    BY HoldersOnRelease
  <2> QED
    BY <2>1 DEF Exact
<1>5. Exact(new, d)
  <2>1. \A b \in Action : d.refcount[b] = c.refcount[b] - (IF b = a THEN 1 ELSE 0)
    BY <1>1, <1>4 DEF decrement_action
  <2> HIDE DEF new, d, a
  <2> QED
    BY <1>2, <2>1 DEF Exact
<1>6. ASSUME Matches(map, c) PROVE Matches(new, d)
  <2>1. a \in HeldActions(map)
    BY <1>4, HoldersFinite DEF Exact, HeldActions
  <2>2. HeldActions(map) \in SUBSET Action
    BY HeldActionsTyped
  <2>3. CASE c.refcount[a] = 1
    <3>1. d.state = apply_action_delta(StateOf(HeldActions(map)), a, FALSE)
      BY <1>4, <1>6, <2>3 DEF decrement_action, Matches
    <3>2. d.state = StateOf(HeldActions(map) \ {a})
      BY <2>1, <2>2, <3>1, DeltaOfState
    <3> QED
      BY <1>3, <2>3, <3>2 DEF Matches
  <2>4. CASE c.refcount[a] # 1
    <3>1. d.state = c.state
      BY <1>4, <2>4 DEF decrement_action
    <3> QED
      BY <1>3, <1>6, <2>4, <3>1 DEF Matches
  <2> QED
    BY <2>3, <2>4
<1> QED
  BY <1>5, <1>6

-----------------------------------------------------------------------------
(* The inductive invariant.  The loops need their worklists in it: a key   *)
(* still to be released is held, a key still to be pressed is not and has  *)
(* a binding, and together with the keys already visited they make up the  *)
(* target of the loop.                                                     *)

LoopInv ==
    /\ phase # "idle" => todo \subseteq HeldKeys(held)
    /\ phase = "reconcile" =>
          /\ press \subseteq HeldKeys(list)
          /\ press \cap HeldKeys(held) = {}
          /\ (HeldKeys(held) \ todo) \cup press = physical

SlotInv == TypeOK /\ RefcountExact /\ LoopInv

LEMMA RefcountIsExact == RefcountExact <=> Exact(held, ctl)
BY DEF RefcountExact, Exact

LEMMA RestingTyped ==
    \A isLocked \in BOOLEAN : Resting(isLocked) \in {"Locked", "Bound"}
BY DEF Resting

LEMMA LifecycleTyped ==
    ASSUME NEW map, lifecycle \in Lifecycles, locked \in BOOLEAN,
           update_lifecycle(map)
    PROVE  lifecycle' \in Lifecycles
BY RestingTyped DEF update_lifecycle, Lifecycles

(* key_down and key_up keep the parts of the invariant about the keys.     *)
LEMMA KeyDown ==
    ASSUME held \in HeldMaps, ctl \in Controls, Exact(held, ctl),
           NEW k \in Keys, NEW a \in Action, key_down(k, a)
    PROVE  /\ held' \in HeldMaps
           /\ ctl' \in Controls
           /\ Exact(held', ctl')
           /\ Matches(held, ctl) => Matches(held', ctl')
           /\ HeldKeys(held') = HeldKeys(held) \cup {k}
<1>1. held[k] = NoAction /\ held' = [held EXCEPT ![k] = a]
      /\ ctl' = increment_action(ctl, a)
  BY DEF key_down
<1>2. held' \in HeldMaps
  BY <1>1 DEF HeldMaps
<1>3. HeldKeys(held') = HeldKeys(held) \cup {k}
  BY <1>1, ActionAssumption DEF HeldKeys, HeldMaps
<1> QED
  BY <1>1, <1>2, <1>3, IncrementOnPress, IncrementTyped

LEMMA KeyUp ==
    ASSUME held \in HeldMaps, ctl \in Controls, Exact(held, ctl),
           NEW k \in Keys, key_up(k)
    PROVE  /\ held' \in HeldMaps
           /\ ctl' \in Controls
           /\ Exact(held', ctl')
           /\ Matches(held, ctl) => Matches(held', ctl')
           /\ HeldKeys(held') = HeldKeys(held) \ {k}
<1>1. held[k] # NoAction /\ held' = [held EXCEPT ![k] = NoAction]
      /\ ctl' = decrement_action(ctl, held[k])
  BY DEF key_up
<1>2. held' \in HeldMaps
  BY <1>1 DEF HeldMaps
<1>3. HeldKeys(held') = HeldKeys(held) \ {k}
  BY <1>1 DEF HeldKeys, HeldMaps
<1>4. held[k] \in Action
  BY <1>1 DEF HeldMaps
<1> QED
  BY <1>1, <1>2, <1>3, <1>4, DecrementOnRelease, DecrementTyped

(* One iteration of rebind_held_keys: an unbound key is released, a key    *)
(* with a new action is released and pressed again with it.                *)
LEMMA Rebind ==
    ASSUME held \in HeldMaps, ctl \in Controls, Exact(held, ctl),
           list \in HeldMaps, todo \subseteq HeldKeys(held),
           NEW k \in Keys, RebindKey(k)
    PROVE  /\ held' \in HeldMaps
           /\ ctl' \in Controls
           /\ Exact(held', ctl')
           /\ Matches(held, ctl) => Matches(held', ctl')
           /\ HeldKeys(held') \ {k} = HeldKeys(held) \ {k}
           /\ held' = [held EXCEPT ![k] = list[k]]
<1> DEFINE between == [held EXCEPT ![k] = NoAction]
           released == decrement_action(ctl, held[k])
<1>1. held[k] \in Action
  BY DEF RebindKey, First, HeldKeys, HeldMaps
<1>2. /\ between \in HeldMaps
      /\ released \in Controls
      /\ Exact(between, released)
      /\ Matches(held, ctl) => Matches(between, released)
  BY <1>1, DecrementOnRelease, DecrementTyped DEF HeldMaps
<1>3. held' = [held EXCEPT ![k] = list[k]]
  BY DEF RebindKey
<1>4. held' \in HeldMaps
  BY <1>3 DEF HeldMaps
<1>5. HeldKeys(held') \ {k} = HeldKeys(held) \ {k}
  BY <1>3 DEF HeldKeys, HeldMaps
<1>6. CASE list[k] = held[k]
  <2>1. held' = held
    BY <1>3, <1>6 DEF HeldMaps
  <2>2. ctl' = ctl
    BY <1>6 DEF RebindKey
  <2> QED
    BY <1>3, <1>5, <2>1, <2>2
<1>7. CASE list[k] = NoAction
  <2>1. list[k] # held[k]
    BY <1>1, <1>7, ActionAssumption
  <2>2. ctl' = released
    BY <1>7, <2>1 DEF RebindKey
  <2>3. held' = between
    BY <1>3, <1>7
  <2> QED
    BY <1>2, <1>3, <1>5, <2>2, <2>3
<1>8. CASE list[k] # held[k] /\ list[k] # NoAction
  <2>1. list[k] \in Action
    BY <1>8 DEF HeldMaps
  <2>2. ctl' = increment_action(released, list[k])
    BY <1>8 DEF RebindKey
  <2>3. held' = [between EXCEPT ![k] = list[k]] /\ between[k] = NoAction
    BY <1>3 DEF HeldMaps
  <2> HIDE DEF between, released
  <2>4. ctl' \in Controls
    BY <1>2, <2>1, <2>2, IncrementTyped
  <2>5. Exact(held', ctl') /\ (Matches(between, released) => Matches(held', ctl'))
    BY <1>2, <2>1, <2>2, <2>3, IncrementOnPress
  <2> QED
    BY <1>2, <1>3, <1>4, <1>5, <2>4, <2>5
<1> QED
  BY <1>6, <1>7, <1>8

(* SlotInv is kept by every action. *)
LEMMA SlotInvStep ==
    ASSUME SlotInv, [Next]_vars
    PROVE  SlotInv'
<1>1. /\ TypeOK /\ LoopInv
      /\ held \in HeldMaps /\ ctl \in Controls /\ Exact(held, ctl)
      /\ locked \in BOOLEAN /\ lifecycle \in Lifecycles
  BY RefcountIsExact DEF SlotInv, TypeOK
<1>2. Exact(held', ctl') => RefcountExact'
  BY DEF RefcountExact, Exact
<1>3. ASSUME NEW k \in Keys, KeyPressed(k) PROVE SlotInv'
  <2>1. bindings[k] \in Action /\ key_down(k, bindings[k])
    BY <1>1, <1>3 DEF KeyPressed, TypeOK, HeldMaps
  <2>2. held' \in HeldMaps /\ ctl' \in Controls /\ Exact(held', ctl')
    BY <1>1, <2>1, KeyDown
  <2>3. lifecycle' \in Lifecycles
    BY <1>1, <2>1, LifecycleTyped DEF key_down
  <2> QED
    BY <1>1, <1>2, <1>3, <2>1, <2>2, <2>3
       DEF SlotInv, TypeOK, LoopInv, history, KeyPressed, key_down, loop
<1>4. ASSUME NEW k \in Keys, KeyReleased(k) PROVE SlotInv'
  <2>1. key_up(k)
    BY <1>4 DEF KeyReleased
  <2>2. held' \in HeldMaps /\ ctl' \in Controls /\ Exact(held', ctl')
    BY <1>1, <2>1, KeyUp
  <2>3. lifecycle' \in Lifecycles
    BY <1>1, <2>1, LifecycleTyped DEF key_up
  <2> QED
    BY <1>1, <1>2, <1>4, <2>1, <2>2, <2>3
       DEF SlotInv, TypeOK, LoopInv, history, KeyReleased, key_up, loop
<1>5. ASSUME NEW a \in InjectActions, NEW down \in BOOLEAN,
             InjectTestAction(a, down)
      PROVE  SlotInv'
  <2>1. a \in Action
    BY BindingAssumption
  <2>2. apply_action_delta(ctl.state, a, down) \in ControllerState
    BY <1>1, <2>1, DeltaTyped DEF Controls
  <2>3. ctl' = [ctl EXCEPT !.state = apply_action_delta(ctl.state, a, down)]
        /\ held' = held
    BY <1>5 DEF InjectTestAction
  <2>4. ctl' \in Controls /\ ctl'.refcount = ctl.refcount
    BY <1>1, <2>2, <2>3 DEF Controls
  <2>5. Exact(held', ctl')
    BY <1>1, <2>3, <2>4 DEF Exact
  <2>6. lifecycle' \in Lifecycles
    BY <1>1, <1>5, RestingTyped DEF InjectTestAction, Lifecycles
  <2> QED
    BY <1>1, <1>2, <1>5, <2>4, <2>5, <2>6
       DEF SlotInv, TypeOK, LoopInv, InjectTestAction, loop
<1>6. ASSUME NEW new \in BindingLists, SetBindings(new) PROVE SlotInv'
  <2>1. new \in HeldMaps
    BY BindingAssumption
  <2>2. HeldKeys(held') \subseteq Keys
    BY DEF HeldKeys
  <2> QED
    BY <1>1, <1>2, <1>6, <2>1, <2>2
       DEF SlotInv, TypeOK, LoopInv, history, SetBindings, StartRebind, status
<1>7. ASSUME NEW k \in Keys, RebindKey(k) PROVE SlotInv'
  <2>1. todo \subseteq HeldKeys(held) /\ list \in HeldMaps
    BY <1>1, <1>7 DEF LoopInv, TypeOK, RebindKey
  <2>2. /\ held' \in HeldMaps /\ ctl' \in Controls /\ Exact(held', ctl')
        /\ HeldKeys(held') \ {k} = HeldKeys(held) \ {k}
    BY <1>1, <1>7, <2>1, Rebind
  <2>3. todo' \subseteq HeldKeys(held') /\ phase' = "rebind"
    BY <1>7, <2>1, <2>2 DEF RebindKey
  <2> QED
    BY <1>1, <1>2, <1>7, <2>2, <2>3
       DEF SlotInv, TypeOK, LoopInv, history, RebindKey, status
<1>8. CASE RebindDone
  <2>1. lifecycle' \in Lifecycles
    BY <1>1, <1>8, LifecycleTyped DEF RebindDone
  <2> QED
    BY <1>1, <1>2, <1>8, <2>1, NothingIsHeld
       DEF SlotInv, TypeOK, LoopInv, RebindDone, EndLoop
<1>9. CASE CloneBindings
  BY <1>1, <1>2, <1>9 DEF SlotInv, TypeOK, LoopInv, history, CloneBindings, loop, status
<1>10. ASSUME NEW down \in SUBSET Keys, Reconcile(down) PROVE SlotInv'
  <2> DEFINE bound == {k \in down : clone[k] # NoAction}
  <2>1. clone \in HeldMaps /\ clone' = NoList
    BY <1>1, <1>10 DEF Reconcile, TypeOK
  <2>2. UNCHANGED <<status, bindings, held, ctl, injected>>
    BY <1>10 DEF Reconcile
  <2>3. CASE HeldKeys(held) = bound
    <3>1. UNCHANGED <<loop, history>>
      BY <1>10, <2>3 DEF Reconcile, history
    <3> QED
      BY <1>1, <1>2, <2>1, <2>2, <3>1 DEF SlotInv, TypeOK, LoopInv, loop, history, status
  <2>4. CASE HeldKeys(held) # bound
    <3>1. /\ phase' = "reconcile"
          /\ physical' = bound
          /\ todo' = HeldKeys(held) \ bound
          /\ press' = bound \ HeldKeys(held)
          /\ list' = clone
          /\ outdated' = (outdated \/ clone # bindings)
      BY <1>10, <2>4 DEF Reconcile
    <3>2. bound \subseteq HeldKeys(clone) /\ bound \subseteq Keys
      BY DEF HeldKeys
    <3>3. HeldKeys(held) \subseteq Keys
      BY DEF HeldKeys
    <3> HIDE DEF bound
    <3>4. held' = held /\ outdated' \in BOOLEAN
      BY <1>1, <2>2, <3>1 DEF TypeOK
    <3>5. LoopInv'
      BY <3>1, <3>2, <3>4 DEF LoopInv
    <3>6. TypeOK'
      BY <1>1, <2>1, <2>2, <3>1, <3>2, <3>3, <3>4 DEF TypeOK, status
    <3> QED
      BY <1>1, <1>2, <2>2, <3>5, <3>6 DEF SlotInv
  <2> QED
    BY <2>3, <2>4
<1>11. ASSUME NEW k \in Keys, ReconcileRelease(k) PROVE SlotInv'
  <2>1. key_up(k)
    BY <1>11 DEF ReconcileRelease
  <2>2. /\ held' \in HeldMaps /\ ctl' \in Controls /\ Exact(held', ctl')
        /\ HeldKeys(held') = HeldKeys(held) \ {k}
    BY <1>1, <2>1, KeyUp
  <2>3. lifecycle' \in Lifecycles
    BY <1>1, <2>1, LifecycleTyped DEF key_up
  <2>4. LoopInv'
    BY <1>1, <1>11, <2>2 DEF LoopInv, ReconcileRelease, First
  <2> QED
    BY <1>1, <1>2, <1>11, <2>1, <2>2, <2>3, <2>4
       DEF SlotInv, TypeOK, history, ReconcileRelease, key_up
<1>12. ASSUME NEW k \in Keys, ReconcilePress(k) PROVE SlotInv'
  <2>1. k \in HeldKeys(list) /\ list \in HeldMaps /\ key_down(k, list[k])
    BY <1>1, <1>12 DEF LoopInv, TypeOK, ReconcilePress, First
  <2>2. list[k] \in Action
    BY <2>1 DEF HeldKeys, HeldMaps
  <2>3. /\ held' \in HeldMaps /\ ctl' \in Controls /\ Exact(held', ctl')
        /\ HeldKeys(held') = HeldKeys(held) \cup {k}
    BY <1>1, <2>1, <2>2, KeyDown
  <2>4. lifecycle' \in Lifecycles
    BY <1>1, <2>1, LifecycleTyped DEF key_down
  <2>5. LoopInv'
    BY <1>1, <1>12, <2>3 DEF LoopInv, ReconcilePress, First
  <2> QED
    BY <1>1, <1>2, <1>12, <2>1, <2>3, <2>4, <2>5
       DEF SlotInv, TypeOK, history, ReconcilePress, key_down
<1>13. CASE ReconcileDone
  BY <1>1, <1>2, <1>13, NothingIsHeld
     DEF SlotInv, TypeOK, LoopInv, history, ReconcileDone, EndLoop, status
<1>14. ASSUME clear_inputs, phase = "idle", UNCHANGED <<bindings, loop, clone>>,
              device' \in BOOLEAN, locked' \in BOOLEAN, lifecycle' \in Lifecycles
       PROVE  SlotInv'
  BY <1>1, <1>2, <1>14, NothingIsHeld
     DEF SlotInv, TypeOK, LoopInv, clear_inputs, loop
<1>15. CASE Detach \/ KillSwitch
  BY <1>1, <1>14, <1>15 DEF Detach, KillSwitch, TypeOK, Lifecycles
<1>16. ASSUME NEW isLocked \in BOOLEAN, NEW again \in BOOLEAN,
              Assign(isLocked, again)
       PROVE  SlotInv'
  <2>1. PICK new \in BindingLists : StartRebind(new)
    BY <1>16 DEF Assign
  <2>2. new \in HeldMaps
    BY BindingAssumption
  <2>3. held' \in HeldMaps /\ ctl' \in Controls /\ Exact(held', ctl')
        /\ outdated' \in BOOLEAN /\ injected' \in BOOLEAN
    BY <1>1, <1>16, NothingIsHeld DEF Assign, clear_inputs, TypeOK, history
  <2>4. lifecycle' \in Lifecycles
    BY <1>16, RestingTyped DEF Assign, Lifecycles
  <2>5. HeldKeys(held') \subseteq Keys
    BY DEF HeldKeys
  <2> QED
    BY <1>1, <1>2, <1>16, <2>1, <2>2, <2>3, <2>4, <2>5
       DEF SlotInv, TypeOK, LoopInv, Assign, StartRebind
<1>17. ASSUME UNCHANGED <<device, bindings, held, ctl, loop, clone, history>>,
              locked' \in BOOLEAN, lifecycle' \in Lifecycles
       PROVE  SlotInv'
  BY <1>1, <1>2, <1>17 DEF SlotInv, TypeOK, LoopInv, loop, history
<1>18. ASSUME NEW isLocked \in BOOLEAN, SetLocked(isLocked) PROVE SlotInv'
  BY <1>17, <1>18, RestingTyped DEF SetLocked, Lifecycles
<1>19. CASE EmitFailed \/ Rest
  BY <1>1, <1>17, <1>19, RestingTyped DEF EmitFailed, Rest, Lifecycles
<1>20. CASE UNCHANGED vars
  BY <1>1, <1>17, <1>20 DEF vars, status
<1> QED
  BY <1>3, <1>4, <1>5, <1>6, <1>7, <1>8, <1>9, <1>10, <1>11, <1>12, <1>13,
     <1>15, <1>16, <1>18, <1>19, <1>20 DEF Next, Daemon

LEMMA SlotInvInit == Init => SlotInv
<1> SUFFICES ASSUME Init PROVE SlotInv
  OBVIOUS
<1>1. Exact(held, ctl)
  BY NothingIsHeld DEF Init
<1> QED
  BY <1>1, NothingIsHeld, RefcountIsExact
     DEF Init, SlotInv, TypeOK, LoopInv, Lifecycles

THEOREM SlotInvAlways == Spec => []SlotInv
BY SlotInvInit, SlotInvStep, PTL DEF Spec

(* Every variable of a slot stays in its type: no axis leaves the i16      *)
(* range, no count goes negative, with any actions injected.               *)
THEOREM TypeCorrect == Spec => []TypeOK
<1>1. SlotInv => TypeOK
  BY DEF SlotInv
<1> QED
  BY <1>1, SlotInvAlways, PTL

(* The reference count of an action is the number of keys that hold it,    *)
(* also in the middle of a rebind or a resync.                             *)
THEOREM RefcountCorrect == Spec => []RefcountExact
<1>1. SlotInv => RefcountExact
  BY DEF SlotInv
<1> QED
  BY <1>1, SlotInvAlways, PTL
=============================================================================
