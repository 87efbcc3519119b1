------------------------ MODULE DeviceTablesProofs ------------------------
(***************************************************************************)
(* The two copies of an assignment agree, for any keyboards and slots: the *)
(* five parts of TablesInv are inductive together, and what they say of    *)
(* the slots makes the tables an implementation of AssignmentRules.        *)
(***************************************************************************)
EXTENDS DeviceTables, TLAPS

TablesInv ==
    /\ TablesTypeOK
    /\ SlotAgreesWithDevice
    /\ ShownOnce
    /\ LeftoverIsHarmless
    /\ EmptySlotUnlocked

LEMMA TablesInvInit == TablesInit => TablesInv
BY TablesAssumption
DEF TablesInit, TablesInv, TablesTypeOK, SlotAgreesWithDevice, ShownOnce,
    LeftoverIsHarmless, EmptySlotUnlocked

\* Steps that leave assignments and locks alone.
LEMMA SeenStep ==
    ASSUME TablesInv, UNCHANGED <<assigned, dlocked, sdevice, slocked>>,
           known \subseteq known', known' \subseteq Devices,
           connected' \in [Devices -> BOOLEAN],
           \A d \in Devices : connected'[d] => d \in known'
    PROVE  TablesInv'
BY DEF TablesInv, TablesTypeOK, SlotAgreesWithDevice, ShownOnce, LeftoverIsHarmless,
       EmptySlotUnlocked

LEMMA AssignStep ==
    ASSUME TablesInv, NEW d \in Devices, NEW s \in Slots, assign_device(d, s)
    PROVE  TablesInv'
<1> USE TablesAssumption
<1>1. TablesTypeOK'
  BY DEF TablesInv, TablesTypeOK, assign_device, seen
<1>2. SlotAgreesWithDevice'
  <2> SUFFICES ASSUME NEW e \in Devices, NEW t \in Slots, assigned'[e] = t
               PROVE  sdevice'[t] = e /\ slocked'[t] = dlocked'[e]
    BY DEF SlotAgreesWithDevice
  <2>1. CASE e = d
    BY <2>1 DEF TablesInv, TablesTypeOK, assign_device
  <2>2. CASE e # d
    <3>1. assigned[e] = t /\ t # s
      BY <2>2 DEF TablesInv, TablesTypeOK, assign_device
    <3>2. sdevice[t] = e /\ slocked[t] = dlocked[e]
      BY <3>1 DEF TablesInv, SlotAgreesWithDevice
    <3> QED BY <2>2, <3>1, <3>2 DEF TablesInv, TablesTypeOK, assign_device
  <2> QED BY <2>1, <2>2
<1>3. ShownOnce'
  BY DEF TablesInv, TablesTypeOK, ShownOnce, assign_device
<1>4. LeftoverIsHarmless'
  <2> SUFFICES ASSUME NEW t \in Slots, sdevice'[t] # NoDevice
               PROVE  \/ assigned'[sdevice'[t]] = t
                      \/ assigned'[sdevice'[t]] = NoSlot /\ ~slocked'[t]
    BY DEF LeftoverIsHarmless
  <2>1. CASE t = s
    BY <2>1 DEF TablesInv, TablesTypeOK, assign_device
  <2>2. CASE t # s
    <3>1. sdevice'[t] = sdevice[t] /\ sdevice[t] # d /\ sdevice[t] \in Devices
      BY <2>2 DEF TablesInv, TablesTypeOK, assign_device
    <3>2. slocked'[t] = slocked[t]
      BY <2>2, <3>1 DEF TablesInv, TablesTypeOK, assign_device
    <3>3. assigned'[sdevice[t]] = IF assigned[sdevice[t]] = s THEN NoSlot
                                  ELSE assigned[sdevice[t]]
      BY <3>1 DEF TablesInv, TablesTypeOK, assign_device
    <3>4. \/ assigned[sdevice[t]] = t
          \/ assigned[sdevice[t]] = NoSlot /\ ~slocked[t]
      BY <3>1 DEF TablesInv, LeftoverIsHarmless
    <3> QED BY <2>2, <3>1, <3>2, <3>3, <3>4
  <2> QED BY <2>1, <2>2
<1>5. EmptySlotUnlocked'
  BY DEF TablesInv, TablesTypeOK, EmptySlotUnlocked, assign_device
<1> QED BY <1>1, <1>2, <1>3, <1>4, <1>5 DEF TablesInv

LEMMA UnassignStep ==
    ASSUME TablesInv, NEW s \in Slots, unassign_slot(s)
    PROVE  TablesInv'
<1> USE TablesAssumption DEF unassign_slot, seen
<1>1. TablesTypeOK'
  BY DEF TablesInv, TablesTypeOK
<1>2. SlotAgreesWithDevice'
  <2> SUFFICES ASSUME NEW d \in Devices, NEW t \in Slots, assigned'[d] = t
               PROVE  sdevice'[t] = d /\ slocked'[t] = dlocked'[d]
    BY DEF SlotAgreesWithDevice
  <2>1. d # sdevice[s] /\ assigned[d] = t
    OBVIOUS
  <2>2. sdevice[t] = d /\ slocked[t] = dlocked[d]
    BY <2>1 DEF TablesInv, SlotAgreesWithDevice
  <2>3. t # s /\ dlocked'[d] = dlocked[d]
    BY <2>1, <2>2 DEF TablesInv, TablesTypeOK
  <2> QED BY <2>2, <2>3 DEF TablesInv, TablesTypeOK
<1>3. ShownOnce'
  BY DEF TablesInv, TablesTypeOK, ShownOnce
<1>4. LeftoverIsHarmless'
  BY DEF TablesInv, TablesTypeOK, LeftoverIsHarmless, ShownOnce
<1>5. EmptySlotUnlocked'
  BY DEF TablesInv, TablesTypeOK, EmptySlotUnlocked
<1> QED BY <1>1, <1>2, <1>3, <1>4, <1>5 DEF TablesInv

LEMMA LockStep ==
    ASSUME TablesInv, NEW d \in Devices, NEW lock \in BOOLEAN, set_device_locked(d, lock)
    PROVE  TablesInv'
<1> USE TablesAssumption DEF set_device_locked, seen
<1>1. TablesTypeOK'
  BY DEF TablesInv, TablesTypeOK
<1>2. SlotAgreesWithDevice'
  BY DEF TablesInv, TablesTypeOK, SlotAgreesWithDevice
<1>3. ShownOnce'
  BY DEF TablesInv, ShownOnce
<1>4. LeftoverIsHarmless'
  BY DEF TablesInv, TablesTypeOK, LeftoverIsHarmless, SlotAgreesWithDevice
<1>5. EmptySlotUnlocked'
  BY DEF TablesInv, TablesTypeOK, EmptySlotUnlocked, SlotAgreesWithDevice
<1> QED BY <1>1, <1>2, <1>3, <1>4, <1>5 DEF TablesInv

LEMMA ReleaseStep == ASSUME TablesInv, release_all_locks PROVE TablesInv'
<1> USE TablesAssumption DEF release_all_locks, seen
<1>1. TablesTypeOK'
  BY DEF TablesInv, TablesTypeOK
<1>2. SlotAgreesWithDevice'
  BY DEF TablesInv, TablesTypeOK, SlotAgreesWithDevice, LockedSlots
<1>3. ShownOnce'
  BY DEF TablesInv, ShownOnce
<1>4. LeftoverIsHarmless'
  BY DEF TablesInv, TablesTypeOK, LeftoverIsHarmless, LockedSlots
<1>5. EmptySlotUnlocked'
  BY DEF TablesInv, TablesTypeOK, EmptySlotUnlocked
<1> QED BY <1>1, <1>2, <1>3, <1>4, <1>5 DEF TablesInv

LEMMA TablesInvStep == TablesInv /\ [TablesNext]_tables => TablesInv'
<1> SUFFICES ASSUME TablesInv, [TablesNext]_tables PROVE TablesInv'
  OBVIOUS
<1>1. ASSUME NEW plugged \in SUBSET Devices, rescan_devices(plugged) PROVE TablesInv'
  BY <1>1, SeenStep DEF rescan_devices, TablesInv, TablesTypeOK
<1>2. ASSUME NEW d \in Devices, mark_disconnected(d) PROVE TablesInv'
  BY <1>2, SeenStep DEF mark_disconnected, TablesInv, TablesTypeOK
<1>3. CASE UNCHANGED tables
  BY <1>3, SeenStep DEF tables, TablesInv, TablesTypeOK
<1> QED BY <1>1, <1>2, <1>3, AssignStep, UnassignStep, LockStep, ReleaseStep DEF TablesNext

THEOREM TablesInvAlways == TablesSpec => []TablesInv
<1>1. TablesInit => TablesInv
  BY TablesInvInit
<1>2. TablesInv /\ [TablesNext]_tables => TablesInv'
  BY TablesInvStep
<1> QED BY <1>1, <1>2, PTL DEF TablesSpec

(* In every state: the slot a keyboard is assigned to names it and has its  *)
(* lock; no keyboard is shown twice; what the kill switch leaves behind is  *)
(* unlocked, and so is an empty slot.                                       *)
THEOREM TablesCorrect ==
    TablesSpec => [](SlotAgreesWithDevice /\ ShownOnce /\ LeftoverIsHarmless
                     /\ EmptySlotUnlocked)
<1>1. TablesInv => SlotAgreesWithDevice /\ ShownOnce /\ LeftoverIsHarmless
                   /\ EmptySlotUnlocked
  BY DEF TablesInv
<1> QED BY <1>1, TablesInvAlways, PTL

-----------------------------------------------------------------------------
(* The tables implement the rules.                                         *)

\* The owner of a slot is the keyboard it names, if that is assigned to it.
LEMMA OwnerIsNamed ==
    ASSUME TablesInv, NEW s \in Slots
    PROVE  /\ \A d \in Devices : assigned[d] = s => OwnerOf(s) = d
           /\ (\A d \in Devices : assigned[d] # s) => OwnerOf(s) = NoDevice
<1>1. \A d, e \in Devices : assigned[d] = s /\ assigned[e] = s => d = e
  BY DEF TablesInv, SlotAgreesWithDevice
<1> QED BY <1>1 DEF OwnerOf

\* The same lemma of the next state.
LEMMA OwnerIsNamedNext ==
    ASSUME TablesInv', NEW s \in Slots
    PROVE  /\ \A d \in Devices : assigned'[d] = s => OwnerOf(s)' = d
           /\ (\A d \in Devices : assigned'[d] # s) => OwnerOf(s)' = NoDevice
<1>1. \A d, e \in Devices : assigned'[d] = s /\ assigned'[e] = s => d = e
  BY DEF TablesInv, SlotAgreesWithDevice
<1> QED BY <1>1 DEF OwnerOf

LEMMA SameOwners ==
    ASSUME UNCHANGED assigned
    PROVE  UNCHANGED [s \in Slots |-> OwnerOf(s)]
BY DEF OwnerOf

LEMMA AssignGives ==
    ASSUME TablesInv, TablesInv', NEW d \in Devices, NEW s \in Slots, assign_device(d, s)
    PROVE  Rules!Give(d, s)
<1> SUFFICES ASSUME NEW t \in Slots
             PROVE  OwnerOf(t)' = IF t = s THEN d
                                  ELSE IF OwnerOf(t) = d THEN NoDevice
                                  ELSE OwnerOf(t)
  BY DEF Rules!Give
<1> DEFINE Moved(e) == IF e = d THEN s ELSE IF assigned[e] = s THEN NoSlot ELSE assigned[e]
<1>1. \A e \in Devices : assigned'[e] = Moved(e)
  BY DEF assign_device
<1>2. CASE t = s
  BY <1>1, <1>2, OwnerIsNamedNext
<1>3. CASE t # s /\ assigned[d] = t
  <2>1. OwnerOf(t) = d
    BY <1>3, OwnerIsNamed
  <2>2. \A e \in Devices : assigned'[e] # t
    BY <1>1, <1>3, TablesAssumption DEF TablesInv, SlotAgreesWithDevice
  <2> QED BY <1>3, <2>1, <2>2, OwnerIsNamedNext
<1>4. CASE t # s /\ assigned[d] # t
  <2>1. \A e \in Devices : assigned'[e] = t <=> assigned[e] = t
    BY <1>1, <1>4, TablesAssumption
  <2>2. OwnerOf(t)' = OwnerOf(t)
    BY <2>1, OwnerIsNamed, OwnerIsNamedNext
  <2>3. OwnerOf(t) # d
    BY <1>4, OwnerIsNamed, TablesAssumption
  <2> QED BY <1>4, <2>2, <2>3
<1> QED BY <1>2, <1>3, <1>4

\* Steps that only unassign: the slots of the group lose their keyboards.
LEMMA UnassigningTakes ==
    ASSUME TablesInv, TablesInv', NEW group \in SUBSET Slots,
           \A d \in Devices :
                assigned'[d] = IF assigned[d] \in group THEN NoSlot ELSE assigned[d]
    PROVE  Rules!Take(group)
<1> SUFFICES ASSUME NEW t \in Slots
             PROVE  OwnerOf(t)' = IF t \in group THEN NoDevice ELSE OwnerOf(t)
  BY DEF Rules!Take
<1>1. CASE t \in group
  BY <1>1, OwnerIsNamedNext, TablesAssumption
<1>2. CASE t \notin group
  <2>1. \A e \in Devices : assigned'[e] = t <=> assigned[e] = t
    BY <1>2, TablesAssumption
  <2> QED BY <1>2, <2>1, OwnerIsNamed, OwnerIsNamedNext
<1> QED BY <1>1, <1>2

LEMMA UnassignTakes ==
    ASSUME TablesInv, TablesInv', NEW s \in Slots, unassign_slot(s)
    PROVE  Rules!Take({s})
<1>1. \A d \in Devices :
          assigned'[d] = IF assigned[d] \in {s} THEN NoSlot ELSE assigned[d]
  <2> SUFFICES ASSUME NEW d \in Devices
               PROVE  assigned'[d] = IF assigned[d] = s THEN NoSlot ELSE assigned[d]
    OBVIOUS
  <2>1. assigned'[d] = IF d = sdevice[s] THEN NoSlot ELSE assigned[d]
    BY DEF unassign_slot
  <2>2. assigned[d] = s => d = sdevice[s]
    BY DEF TablesInv, SlotAgreesWithDevice
  <2>3. d = sdevice[s] => assigned[d] \in {s, NoSlot}
    BY TablesAssumption DEF TablesInv, LeftoverIsHarmless
  <2> QED BY <2>1, <2>2, <2>3
<1> QED BY <1>1, UnassigningTakes

LEMMA ReleaseTakes ==
    ASSUME TablesInv, TablesInv', release_all_locks
    PROVE  Rules!Take(LockedSlots)
<1>1. \A d \in Devices :
          assigned'[d] = IF assigned[d] \in LockedSlots THEN NoSlot ELSE assigned[d]
  <2> SUFFICES ASSUME NEW d \in Devices
               PROVE  assigned'[d] = IF assigned[d] \in LockedSlots THEN NoSlot
                                     ELSE assigned[d]
    OBVIOUS
  <2>1. assigned'[d] = IF dlocked[d] THEN NoSlot ELSE assigned[d]
    BY DEF release_all_locks
  <2>2. assigned[d] \in Slots \cup {NoSlot} /\ dlocked[d] \in BOOLEAN
    BY DEF TablesInv, TablesTypeOK
  <2>3. ASSUME assigned[d] \in LockedSlots PROVE dlocked[d]
    <3>1. PICK e \in Devices : dlocked[e] /\ assigned[e] = assigned[d]
      BY <2>3 DEF LockedSlots
    <3>2. e = d
      BY <2>3, <3>1 DEF TablesInv, SlotAgreesWithDevice, LockedSlots
    <3> QED BY <3>1, <3>2
  <2>4. ASSUME dlocked[d], assigned[d] \in Slots PROVE assigned[d] \in LockedSlots
    BY <2>4 DEF LockedSlots
  <2>5. NoSlot \notin LockedSlots
    BY TablesAssumption DEF LockedSlots
  <2> QED BY <2>1, <2>2, <2>3, <2>4, <2>5
<1>2. LockedSlots \in SUBSET Slots
  BY DEF LockedSlots
<1> QED BY <1>1, <1>2, UnassigningTakes

(* Whatever the commands, the kill switch and the rescans do, a keyboard    *)
(* feeds at most one slot, a slot has at most one keyboard, and a keyboard  *)
(* comes to a slot only by being assigned to it.                            *)
THEOREM TablesImplementRules == TablesSpec => ImplementsAssignmentRules
<1>1. TablesInit => Rules!Init
  BY TablesAssumption DEF TablesInit, Rules!Init, OwnerOf
<1>2. TablesInv /\ TablesInv' /\ [TablesNext]_tables
      => [Rules!Next]_[s \in Slots |-> OwnerOf(s)]
  <2> SUFFICES ASSUME TablesInv, TablesInv', [TablesNext]_tables
               PROVE  [Rules!Next]_[s \in Slots |-> OwnerOf(s)]
    OBVIOUS
  <2>1. ASSUME UNCHANGED assigned PROVE UNCHANGED [s \in Slots |-> OwnerOf(s)]
    BY <2>1, SameOwners
  <2>2. ASSUME NEW plugged \in SUBSET Devices, rescan_devices(plugged) PROVE UNCHANGED assigned
    BY <2>2 DEF rescan_devices
  <2>3. ASSUME NEW d \in Devices, mark_disconnected(d) PROVE UNCHANGED assigned
    BY <2>3 DEF mark_disconnected
  <2>4. ASSUME NEW d \in Devices, NEW lock \in BOOLEAN, set_device_locked(d, lock)
        PROVE  UNCHANGED assigned
    BY <2>4 DEF set_device_locked
  <2>5. CASE UNCHANGED tables
    BY <2>5, <2>1 DEF tables
  <2>6. ASSUME NEW d \in Devices, NEW s \in Slots, assign_device(d, s) PROVE Rules!Next
    BY <2>6, AssignGives DEF Rules!Next
  <2>7. ASSUME NEW s \in Slots, unassign_slot(s) PROVE Rules!Next
    <3>1. Rules!Take({s})
      BY <2>7, UnassignTakes
    <3> QED BY <3>1 DEF Rules!Next
  <2>8. ASSUME release_all_locks PROVE Rules!Next
    <3>1. Rules!Take(LockedSlots) /\ LockedSlots \in SUBSET Slots
      BY <2>8, ReleaseTakes DEF LockedSlots
    <3> QED BY <3>1 DEF Rules!Next
  <2> QED BY <2>1, <2>2, <2>3, <2>4, <2>5, <2>6, <2>7, <2>8 DEF TablesNext
<1> QED BY <1>1, <1>2, TablesInvAlways, PTL DEF TablesSpec, ImplementsAssignmentRules, Rules!Spec
=============================================================================
