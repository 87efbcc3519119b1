---------------------------- MODULE DeviceTables ----------------------------
(***************************************************************************)
(* Who is assigned to whom: the tables `devices` and `slots` of the        *)
(* daemon's state (crates/daemon/src/runtime.rs, DaemonState), and the     *)
(* methods that change them.  An assignment is stored twice, in the        *)
(* keyboard (assigned_slot, locked) and in the slot (device_id, locked):   *)
(* the readers obey the first, the user sees the second.                   *)
(*                                                                         *)
(* Every method runs with the daemon's mutex held and is one action.       *)
(* Daemon and Profiles add threads and profiles to these tables.             *)
(***************************************************************************)
EXTENDS Naturals, FiniteSets

CONSTANTS
    Devices,    \* keyboards, by stable id
    Slots,      \* controller slots
    CanGrab,    \* keyboards whose event node can be opened for writing
    NoDevice,   \* device_id is None
    NoSlot      \* assigned_slot is None

ASSUME TablesAssumption ==
    /\ CanGrab \subseteq Devices
    /\ NoDevice \notin Devices
    /\ NoSlot \notin Slots

VARIABLES
    known,      \* the keys of `devices`: keyboards seen since the start
    connected,  \* devices[d].connected
    assigned,   \* devices[d].assigned_slot
    dlocked,    \* devices[d].locked
    sdevice,    \* slots[s].status.device_id
    slocked     \* slots[s].status.locked

seen == <<known, connected>>
tables == <<known, connected, assigned, dlocked, sdevice, slocked>>

TablesInit ==
    /\ known = {}
    /\ connected = [d \in Devices |-> FALSE]
    /\ assigned = [d \in Devices |-> NoSlot]
    /\ dlocked = [d \in Devices |-> FALSE]
    /\ sdevice = [s \in Slots |-> NoDevice]
    /\ slocked = [s \in Slots |-> FALSE]

-----------------------------------------------------------------------------
\* rescan_devices, when discovery finds exactly the keyboards in plugged. A
\* keyboard stays in the table when it is gone, with its assignment.
rescan_devices(plugged) ==
    /\ known' = known \cup plugged
    /\ connected' = [d \in Devices |-> d \in plugged]
    /\ UNCHANGED <<assigned, dlocked, sdevice, slocked>>

\* reader_loop, when the event node cannot be opened.
mark_disconnected(d) ==
    /\ connected' = [connected EXCEPT ![d] = FALSE]
    /\ UNCHANGED <<known, assigned, dlocked, sdevice, slocked>>

\* Slip: the slot the keyboard comes from is not cleared.
AssignLeavesOldSlot(d, s) ==
    /\ connected[d]
    /\ sdevice' = [sdevice EXCEPT ![s] = d]
    /\ slocked' = [slocked EXCEPT ![s] = dlocked[d]]
    /\ assigned' = [e \in Devices |-> IF e = d THEN s
                                      ELSE IF assigned[e] = s THEN NoSlot
                                      ELSE assigned[e]]
    /\ UNCHANGED <<seen, dlocked>>

\* Slip: the keyboard that had the slot keeps its assignment.
AssignKeepsDisplaced(d, s) ==
    /\ connected[d]
    /\ sdevice' = [t \in Slots |-> IF t = s THEN d
                                   ELSE IF sdevice[t] = d THEN NoDevice
                                   ELSE sdevice[t]]
    /\ slocked' = [t \in Slots |-> IF t = s THEN dlocked[d]
                                   ELSE sdevice[t] # d /\ slocked[t]]
    /\ assigned' = [assigned EXCEPT ![d] = s]
    /\ UNCHANGED <<seen, dlocked>>

\* The slot the keyboard had is emptied, the keyboard the slot had is
\* unassigned, and the slot takes over the keyboard's lock. (The displaced
\* keyboard keeps its own lock flag.)
assign_device(d, s) ==
    /\ connected[d]
    /\ sdevice' = [t \in Slots |-> IF t = s THEN d
                                   ELSE IF sdevice[t] = d THEN NoDevice
                                   ELSE sdevice[t]]
    /\ slocked' = [t \in Slots |-> IF t = s THEN dlocked[d]
                                   ELSE sdevice[t] # d /\ slocked[t]]
    /\ assigned' = [e \in Devices |-> IF e = d THEN s
                                      ELSE IF assigned[e] = s THEN NoSlot
                                      ELSE assigned[e]]
    /\ UNCHANGED <<seen, dlocked>>

\* Slip: the slot stays locked.
UnassignKeepsLock(s) ==
    /\ assigned' = [d \in Devices |-> IF d = sdevice[s] THEN NoSlot ELSE assigned[d]]
    /\ dlocked' = [d \in Devices |-> d # sdevice[s] /\ dlocked[d]]
    /\ sdevice' = [sdevice EXCEPT ![s] = NoDevice]
    /\ UNCHANGED <<seen, slocked>>

unassign_slot(s) ==
    /\ assigned' = [d \in Devices |-> IF d = sdevice[s] THEN NoSlot ELSE assigned[d]]
    /\ dlocked' = [d \in Devices |-> d # sdevice[s] /\ dlocked[d]]
    /\ sdevice' = [sdevice EXCEPT ![s] = NoDevice]
    /\ slocked' = [slocked EXCEPT ![s] = FALSE]
    /\ UNCHANGED seen

\* Slip: the slot is not told.
LockTellsDeviceOnly(d, lock) ==
    /\ d \in known
    /\ lock => d \in CanGrab
    /\ dlocked' = [dlocked EXCEPT ![d] = lock]
    /\ UNCHANGED <<seen, assigned, sdevice, slocked>>

\* Slip: a keyboard that was never seen is locked.
LockUnknown(d, lock) ==
    /\ lock => d \in CanGrab
    /\ dlocked' = [dlocked EXCEPT ![d] = lock]
    /\ slocked' = [s \in Slots |-> IF s = assigned[d] THEN lock ELSE slocked[s]]
    /\ UNCHANGED <<seen, assigned, sdevice>>

\* Locking needs write permission; a locked keyboard need not be assigned.
set_device_locked(d, lock) ==
    /\ d \in known
    /\ lock => d \in CanGrab
    /\ dlocked' = [dlocked EXCEPT ![d] = lock]
    /\ slocked' = [s \in Slots |-> IF s = assigned[d] THEN lock ELSE slocked[s]]
    /\ UNCHANGED <<seen, assigned, sdevice>>

\* The slots of the locked keyboards.
LockedSlots == {s \in Slots : \E d \in Devices : dlocked[d] /\ assigned[d] = s}

\* Slip: the slot keeps its lock flag as it keeps its device_id.
ReleaseForgetsSlots ==
    /\ dlocked' = [d \in Devices |-> FALSE]
    /\ assigned' = [d \in Devices |-> IF dlocked[d] THEN NoSlot ELSE assigned[d]]
    /\ UNCHANGED <<seen, sdevice, slocked>>

\* The kill switch unlocks and unassigns every locked keyboard. The slots'
\* device_id stays.
release_all_locks ==
    /\ dlocked' = [d \in Devices |-> FALSE]
    /\ assigned' = [d \in Devices |-> IF dlocked[d] THEN NoSlot ELSE assigned[d]]
    /\ slocked' = [s \in Slots |-> s \notin LockedSlots /\ slocked[s]]
    /\ UNCHANGED <<seen, sdevice>>

-----------------------------------------------------------------------------
TablesNext ==
    \/ \E plugged \in SUBSET Devices : rescan_devices(plugged)
    \/ \E d \in Devices : mark_disconnected(d)
    \/ \E d \in Devices, s \in Slots : assign_device(d, s)
    \/ \E s \in Slots : unassign_slot(s)
    \/ \E d \in Devices, lock \in BOOLEAN : set_device_locked(d, lock)
    \/ release_all_locks

TablesSpec == TablesInit /\ [][TablesNext]_tables

-----------------------------------------------------------------------------
\* Only keyboards that are in the table are connected, locked or assigned.
TablesTypeOK ==
    /\ known \subseteq Devices
    /\ connected \in [Devices -> BOOLEAN]
    /\ assigned \in [Devices -> Slots \cup {NoSlot}]
    /\ dlocked \in [Devices -> BOOLEAN]
    /\ sdevice \in [Slots -> Devices \cup {NoDevice}]
    /\ slocked \in [Slots -> BOOLEAN]
    /\ \A d \in Devices : connected[d] \/ dlocked[d] \/ assigned[d] # NoSlot => d \in known

(* The two copies of an assignment agree: the slot a keyboard is assigned   *)
(* to names that keyboard and has its lock flag, so what the readers grab   *)
(* is what the user is shown as locked.                                     *)
SlotAgreesWithDevice ==
    \A d \in Devices, s \in Slots :
        assigned[d] = s => sdevice[s] = d /\ slocked[s] = dlocked[d]

(* A keyboard is shown in one slot at most, whoever moved it and in         *)
(* whatever order.                                                          *)
ShownOnce ==
    \A s, t \in Slots : sdevice[s] = sdevice[t] /\ sdevice[s] # NoDevice => s = t

(* A slot that shows a keyboard which is not assigned to it (the kill       *)
(* switch leaves such slots) shows it unlocked, and the keyboard is         *)
(* assigned nowhere.                                                        *)
LeftoverIsHarmless ==
    \A s \in Slots : sdevice[s] # NoDevice =>
        \/ assigned[sdevice[s]] = s
        \/ assigned[sdevice[s]] = NoSlot /\ ~slocked[s]

(* A slot without a keyboard is not locked. *)
EmptySlotUnlocked == \A s \in Slots : sdevice[s] = NoDevice => ~slocked[s]

(* The tables implement the assignment rules.                               *)
OwnerOf(s) == IF \E d \in Devices : assigned[d] = s
              THEN CHOOSE d \in Devices : assigned[d] = s
              ELSE NoDevice
Rules == INSTANCE AssignmentRules WITH owner <- [s \in Slots |-> OwnerOf(s)]
ImplementsAssignmentRules == Rules!Spec
=============================================================================
