--------------------------- MODULE ProfilesProofs ---------------------------
(***************************************************************************)
(* Profiles, for any keyboards, slots, names, keys and actions, whatever   *)
(* is edited and whether or not saves fail: the assignment tables stay     *)
(* correct through restores, restarts and crashes, what was saved is what  *)
(* the daemon works with, the slots run with the bindings of the active    *)
(* profile, what the kill switch released stays released, and a restore    *)
(* does what the profile says.                                             *)
(***************************************************************************)
EXTENDS Profiles, DeviceTablesProofs

-----------------------------------------------------------------------------
(* The tables.                                                             *)

\* What a start makes of the tables.
Rebooted ==
    /\ known' \in SUBSET Devices
    /\ connected' = [d \in Devices |-> d \in known']
    /\ assigned' = [d \in Devices |-> NoSlot]
    /\ dlocked' = [d \in Devices |-> FALSE]
    /\ sdevice' = [s \in Slots |-> NoDevice]
    /\ slocked' = [s \in Slots |-> FALSE]

LEMMA Indicator ==
    ASSUME NEW plugged \in SUBSET Devices,
           NEW f, f = [d \in Devices |-> d \in plugged]
    PROVE  f \in [Devices -> BOOLEAN] /\ \A d \in Devices : f[d] => d \in plugged
<1>1. f \in [Devices -> BOOLEAN]
  BY SMT
<1>2. \A d \in Devices : f[d] => d \in plugged
  BY Zenon
<1> QED BY <1>1, <1>2

LEMMA RebootedTables == ASSUME Rebooted PROVE TablesInv'
<1> USE TablesAssumption DEF Rebooted
<1>1. TablesTypeOK'
  <2>1. connected' \in [Devices -> BOOLEAN]
    BY Indicator
  <2>2. \A d \in Devices : connected'[d] => d \in known'
    BY Indicator
  <2>3. dlocked' \in [Devices -> BOOLEAN] /\ \A d \in Devices : ~dlocked'[d]
    BY Zenon
  <2>4. slocked' \in [Slots -> BOOLEAN]
    BY Zenon
  <2> QED BY <2>1, <2>2, <2>3, <2>4 DEF TablesTypeOK
<1>2. SlotAgreesWithDevice'
  BY DEF SlotAgreesWithDevice
<1>3. ShownOnce' /\ LeftoverIsHarmless' /\ EmptySlotUnlocked'
  BY DEF ShownOnce, LeftoverIsHarmless, EmptySlotUnlocked
<1> QED BY <1>1, <1>2, <1>3 DEF TablesInv

LEMMA BootReboots ==
    ASSUME NEW c, NEW plugged \in Plugged, Boot(c, plugged)
    PROVE  Rebooted
BY DEF Boot, Rebooted, Plugged

\* A step of the restore loop, and what it does to the tables.
LEMMA LoopStepsTables ==
    ASSUME TablesInv, NEW s \in Slots,
           SkipSlot(s) \/ RestoreSlot(s) \/ RestoreRefused(s) \/ RestoreLock(s)
    PROVE  [TablesNext]_tables
<1>1. known \subseteq Devices
  BY DEF TablesInv, TablesTypeOK
<1>2. CASE SkipSlot(s) \/ RestoreRefused(s)
  BY <1>2 DEF SkipSlot, RestoreRefused, tables
<1>3. CASE RestoreSlot(s)
  BY <1>1, <1>3 DEF RestoreSlot, Assign, TablesNext
<1>4. CASE RestoreLock(s)
  BY <1>4, TablesAssumption DEF RestoreLock, Lock, TablesNext, tables
<1> QED BY <1>2, <1>3, <1>4

LEMMA CommandStepsTables == ASSUME Command PROVE [TablesNext]_tables
<1>1. ASSUME NEW d \in Devices, NEW s \in Slots, AssignDevice(d, s) PROVE TablesNext
  BY <1>1 DEF AssignDevice, Assign, TablesNext
<1>2. ASSUME NEW s \in Slots, UnassignSlot(s) PROVE TablesNext
  BY <1>2 DEF UnassignSlot, TablesNext
<1>3. ASSUME NEW d \in Devices, LockDevice(d) \/ UnlockDevice(d) PROVE TablesNext
  BY <1>3 DEF LockDevice, UnlockDevice, Lock, TablesNext
<1>4. CASE SaveProfile \/ CancelBindingCapture
  BY <1>4 DEF SaveProfile, CancelBindingCapture, tables
<1>5. ASSUME NEW s \in Edited, NEW k \in Keys, NEW a \in Actions, SetBinding(s, k, a)
      PROVE  UNCHANGED tables
  BY <1>5 DEF SetBinding, tables
<1>6. ASSUME NEW n \in Names,
             LoadProfile(n) \/ CreateProfile(n) \/ DeleteActive(n) \/ DeleteOther(n)
      PROVE  UNCHANGED tables
  BY <1>6 DEF LoadProfile, CreateProfile, DeleteActive, DeleteOther, tables
<1>7. ASSUME NEW s \in Edited, NEW a \in Actions, StartBindingCapture(s, a)
      PROVE  UNCHANGED tables
  BY <1>7 DEF StartBindingCapture, tables
<1> QED BY <1>1, <1>2, <1>3, <1>4, <1>5, <1>6, <1>7 DEF Command

\* Every step is a step of the tables, leaves them alone, or starts afresh.
LEMMA StepsTables ==
    ASSUME TablesInv, [Next]_allVars
    PROVE  [TablesNext]_tables \/ Rebooted
<1>1. CASE RestoreDone \/ CaptureCancelled
  BY <1>1 DEF RestoreDone, CaptureCancelled, tables
<1>2. ASSUME NEW s \in Slots, NEW k \in Keys, CaptureKey(s, k) PROVE UNCHANGED tables
  BY <1>2 DEF CaptureKey, tables
<1>3. CASE KillSwitch
  BY <1>3 DEF KillSwitch, TablesNext
<1>4. CASE Rescan
  BY <1>4 DEF Rescan, TablesNext, Plugged
<1>5. ASSUME NEW d \in Flaky, OpenFailed(d) PROVE TablesNext
  BY <1>5, ProfilesAssumption DEF OpenFailed, TablesNext
<1>6. ASSUME NEW plugged \in Plugged, Restart(plugged) \/ Crash(plugged) PROVE Rebooted
  BY <1>6, BootReboots DEF Restart, Crash
<1>7. CASE UNCHANGED allVars
  BY <1>7 DEF allVars
<1> QED
  BY <1>1, <1>2, <1>3, <1>4, <1>5, <1>6, <1>7, LoopStepsTables, CommandStepsTables DEF Next

LEMMA ProfilesTablesInit == ASSUME Init PROVE TablesInv
<1> USE TablesAssumption DEF Init
<1>1. TablesTypeOK
  <2>1. known \in SUBSET Devices /\ connected = [d \in Devices |-> d \in known]
    BY DEF Plugged
  <2>2. connected \in [Devices -> BOOLEAN] /\ \A d \in Devices : connected[d] => d \in known
    BY <2>1, Indicator
  <2>3. dlocked \in [Devices -> BOOLEAN] /\ \A d \in Devices : ~dlocked[d]
    BY Zenon
  <2>4. slocked \in [Slots -> BOOLEAN]
    BY Zenon
  <2> QED BY <2>1, <2>2, <2>3, <2>4 DEF TablesTypeOK
<1>2. SlotAgreesWithDevice
  BY DEF SlotAgreesWithDevice
<1>3. ShownOnce /\ LeftoverIsHarmless /\ EmptySlotUnlocked
  BY DEF ShownOnce, LeftoverIsHarmless, EmptySlotUnlocked
<1> QED BY <1>1, <1>2, <1>3 DEF TablesInv

(* The two copies of an assignment agree whatever profiles are restored and *)
(* whenever the daemon is restarted.                                        *)
THEOREM ProfilesKeepTables == Spec => []TablesInv
<1>1. Init => TablesInv
  BY ProfilesTablesInit
<1>2. TablesInv /\ [Next]_allVars => TablesInv'
  BY StepsTables, TablesInvStep, RebootedTables
<1> QED BY <1>1, <1>2, PTL DEF Spec

(* Keyboards and slots name each other, or nothing, and nothing else,       *)
(* whatever a profile, also one from disk, is restored.                     *)
THEOREM ProfilesTablesTypes == Spec => []TablesTypeOK
<1>1. TablesInv => TablesTypeOK
  BY DEF TablesInv
<1> QED BY <1>1, ProfilesKeepTables, PTL

(* What the slot and the keyboard say of an assignment agrees through       *)
(* restores, which assign and lock one keyboard at a time, and restarts.    *)
THEOREM ProfilesAgree == Spec => []SlotAgreesWithDevice
<1>1. TablesInv => SlotAgreesWithDevice
  BY DEF TablesInv
<1> QED BY <1>1, ProfilesKeepTables, PTL

(* No keyboard is shown in two slots by restoring a profile that names it   *)
(* in two.                                                                 *)
THEOREM ProfilesShowOnce == Spec => []ShownOnce
<1>1. TablesInv => ShownOnce
  BY DEF TablesInv
<1> QED BY <1>1, ProfilesKeepTables, PTL

(* What the kill switch leaves in the slots stays harmless also when a      *)
(* profile is restored on top of it.                                       *)
THEOREM ProfilesLeaveHarmless == Spec => []LeftoverIsHarmless
<1>1. TablesInv => LeftoverIsHarmless
  BY DEF TablesInv
<1> QED BY <1>1, ProfilesKeepTables, PTL

(* A slot without a keyboard is not locked, though a restore locks also     *)
(* keyboards that it could not assign.                                     *)
THEOREM ProfilesKeepEmptyUnlocked == Spec => []EmptySlotUnlocked
<1>1. TablesInv => EmptySlotUnlocked
  BY DEF TablesInv
<1> QED BY <1>1, ProfilesKeepTables, PTL

-----------------------------------------------------------------------------
(* What was saved.                                                         *)

\* At the start of the daemon, too, nothing is in memory only.
SavedInv == (pc = "idle" \/ starting) /\ saved => disk = config

LEMMA SaveSaves ==
    ASSUME NEW c, Save(c)
    PROVE  config' = c /\ disk' \in {disk, c} /\ (saved' => disk' = config')
<1>1. PICK ok \in BOOLEAN : disk' = (IF ok THEN c ELSE disk) /\ saved' = ok
  BY ProfilesAssumption DEF Save
<1> QED BY <1>1 DEF Save

LEMMA BootSaved ==
    ASSUME NEW plugged, Boot(disk', plugged)
    PROVE  SavedInv'
BY DEF Boot, SavedInv

\* A step that does not touch the configuration and does not end the loop.
LEMMA ConfigKept ==
    ASSUME SavedInv, UNCHANGED <<config, disk, saved, starting>>,
           pc' = "idle" => pc = "idle"
    PROVE  SavedInv'
BY DEF SavedInv

LEMMA LoopSaves ==
    ASSUME SavedInv, NEW s \in Slots,
           SkipSlot(s) \/ RestoreSlot(s) \/ RestoreRefused(s) \/ RestoreLock(s)
    PROVE  SavedInv'
<1>1. CASE SkipSlot(s) \/ RestoreRefused(s)
  BY <1>1, ConfigKept DEF SkipSlot, RestoreRefused, ToLock, Visit
<1>2. CASE RestoreSlot(s)
  BY <1>2, SaveSaves DEF RestoreSlot, Assign, SavedInv
<1>3. CASE RestoreLock(s)
  <2>1. CASE from[s].device \in CanGrab
    BY <1>3, <2>1, SaveSaves DEF RestoreLock, Lock, SavedInv
  <2>2. CASE from[s].device \notin CanGrab
    BY <1>3, <2>2, ConfigKept DEF RestoreLock
  <2> QED BY <2>1, <2>2
<1> QED BY <1>1, <1>2, <1>3

LEMMA CommandSaves == ASSUME SavedInv, Command PROVE SavedInv'
<1>1. ASSUME NEW d \in Devices, NEW s \in Slots, AssignDevice(d, s) PROVE SavedInv'
  BY <1>1, SaveSaves DEF AssignDevice, Assign, SavedInv
<1>2. ASSUME NEW s \in Slots, UnassignSlot(s) PROVE SavedInv'
  BY <1>2, SaveSaves DEF UnassignSlot, SavedInv
<1>3. ASSUME NEW d \in Devices, LockDevice(d) \/ UnlockDevice(d) PROVE SavedInv'
  BY <1>3, SaveSaves DEF LockDevice, UnlockDevice, Lock, SavedInv
<1>4. CASE SaveProfile
  BY <1>4, SaveSaves DEF SaveProfile, SavedInv
<1>5. ASSUME NEW s \in Edited, NEW k \in Keys, NEW a \in Actions, SetBinding(s, k, a)
      PROVE  SavedInv'
  BY <1>5, SaveSaves DEF SetBinding, SavedInv
<1>6. ASSUME NEW n \in Names, LoadProfile(n) \/ CreateProfile(n) \/ DeleteActive(n)
      PROVE  SavedInv'
  BY <1>6 DEF LoadProfile, CreateProfile, DeleteActive, Restore, SavedInv
<1>7. ASSUME NEW n \in Names, DeleteOther(n) PROVE SavedInv'
  BY <1>7, SaveSaves DEF DeleteOther, SavedInv
<1>8. ASSUME NEW s \in Edited, NEW a \in Actions,
             StartBindingCapture(s, a) \/ CancelBindingCapture
      PROVE  SavedInv'
  BY <1>8, ConfigKept DEF StartBindingCapture, CancelBindingCapture, loop
<1>9. CASE CancelBindingCapture
  BY <1>9, ConfigKept DEF CancelBindingCapture, loop
<1> QED BY <1>1, <1>2, <1>3, <1>4, <1>5, <1>6, <1>7, <1>8, <1>9 DEF Command

LEMMA SavedInvStep == SavedInv /\ [Next]_allVars => SavedInv'
<1> SUFFICES ASSUME SavedInv, [Next]_allVars PROVE SavedInv'
  OBVIOUS
<1>1. CASE RestoreDone
  <2>1. CASE starting
    BY <1>1, <2>1 DEF RestoreDone, EndLoop, SavedInv
  <2>2. CASE ~starting
    BY <1>1, <2>2, SaveSaves DEF RestoreDone, SavedInv
  <2> QED BY <2>1, <2>2
<1>2. ASSUME NEW s \in Slots, NEW k \in Keys, CaptureKey(s, k) PROVE SavedInv'
  BY <1>2, SaveSaves DEF CaptureKey, SavedInv
<1>3. CASE KillSwitch
  BY <1>3, SaveSaves DEF KillSwitch, SavedInv
<1>4. CASE CaptureCancelled \/ Rescan
  BY <1>4, ConfigKept DEF CaptureCancelled, Rescan, profileVars, loop
<1>5. ASSUME NEW d \in Flaky, OpenFailed(d) PROVE SavedInv'
  BY <1>5, ConfigKept DEF OpenFailed, profileVars, loop
<1>6. ASSUME NEW plugged \in Plugged, Restart(plugged) \/ Crash(plugged) PROVE SavedInv'
  BY <1>6, BootSaved DEF Restart, Crash, Boot, SavedInv
<1>7. CASE UNCHANGED allVars
  BY <1>7, ConfigKept DEF allVars, profileVars, loop
<1> QED BY <1>1, <1>2, <1>3, <1>4, <1>5, <1>6, <1>7, LoopSaves, CommandSaves DEF Next

(* While saving works, a crash between two commands loses nothing. *)
THEOREM NothingSavedIsLost == Spec => []NothingIsLost
<1>1. Init => SavedInv
  BY DEF Init, SavedInv
<1>2. SavedInv => NothingIsLost
  BY DEF SavedInv, NothingIsLost, Idle
<1> QED BY <1>1, <1>2, SavedInvStep, PTL DEF Spec

-----------------------------------------------------------------------------
(* The bindings of the slots.                                              *)

LEMMA ActiveInProfile ==
    ASSUME NEW c \in Config
    PROVE  Active(c) \in Profile
BY DEF Active, Config

\* The active profile is replaced.
LEMMA ProfileReplaced ==
    ASSUME NEW c \in Config, NEW p \in Profile
    PROVE  LET c2 == [c EXCEPT !.profiles[c.active] = p]
           IN  c2 \in Config /\ Active(c2) = p
<1> DEFINE c2 == [c EXCEPT !.profiles[c.active] = p]
<1>1. PICK names \in SUBSET Names : c.profiles \in [names -> Profile]
  BY DEF Config
<1>2. c.active \in names /\ c = [active |-> c.active, profiles |-> c.profiles]
  BY <1>1 DEF Config
<1>3. c2 = [active |-> c.active, profiles |-> [c.profiles EXCEPT ![c.active] = p]]
  BY <1>2
<1>4. [c.profiles EXCEPT ![c.active] = p] \in [names -> Profile]
  BY <1>1, <1>2
<1>5. c2 \in Config
  BY <1>1, <1>2, <1>3, <1>4 DEF Config
<1>6. Active(c2) = p
  BY <1>1, <1>2, <1>3 DEF Active
<1> QED BY <1>5, <1>6

\* What assigning, locking and forgetting keyboards leave alone.
SameBindings(c, c2) ==
    /\ c2 \in Config
    /\ \A s \in Slots : Active(c2)[s].keys = Active(c)[s].keys

LEMMA EntryUpdated ==
    ASSUME NEW e \in SlotProfile, NEW d \in Devices, NEW lock \in BOOLEAN
    PROVE  LET e2 == [e EXCEPT !.device = d, !.locked = lock]
           IN  e2 \in SlotProfile /\ e2.keys = e.keys
BY DEF SlotProfile

LEMMA RememberKeepsBindings ==
    ASSUME NEW c \in Config, NEW d \in Devices, NEW s \in Slots, dlocked[d] \in BOOLEAN
    PROVE  SameBindings(c, Remember(c, d, s))
<1> DEFINE entry == [Active(c)[s] EXCEPT !.device = d, !.locked = dlocked[d]]
           p == [Active(c) EXCEPT ![s] = entry]
<1>1. Active(c) \in Profile
  BY ActiveInProfile
<1>2. entry \in SlotProfile /\ entry.keys = Active(c)[s].keys
  <2>1. Active(c)[s] \in SlotProfile
    BY <1>1 DEF Profile
  <2> QED BY <2>1, EntryUpdated
<1>3. Remember(c, d, s) = [c EXCEPT !.profiles[c.active] = p]
  BY <1>1 DEF Remember, Active, Config, Profile
<1> HIDE DEF entry
<1>4. p \in Profile /\ \A t \in Slots : p[t].keys = Active(c)[t].keys
  BY <1>1, <1>2 DEF Profile
<1> QED BY <1>3, <1>4, ProfileReplaced DEF SameBindings

LEMMA LockedKeepsBindings ==
    ASSUME NEW c \in Config, NEW d \in Devices, NEW lock \in BOOLEAN
    PROVE  SameBindings(c, Locked(c, d, lock))
<1> DEFINE p == [s \in Slots |-> IF s = assigned[d] THEN [Active(c)[s] EXCEPT !.locked = lock]
                                 ELSE Active(c)[s]]
<1>1. Active(c) \in Profile
  BY ActiveInProfile
<1>2. p \in Profile /\ \A t \in Slots : p[t].keys = Active(c)[t].keys
  BY <1>1 DEF Profile, SlotProfile
<1>3. Locked(c, d, lock) = [c EXCEPT !.profiles[c.active] = p]
  BY DEF Locked, Active
<1> QED BY <1>2, <1>3, ProfileReplaced DEF SameBindings

LEMMA ForgetKeepsBindings ==
    ASSUME NEW c \in Config, NEW group
    PROVE  SameBindings(c, Forget(c, group))
<1> DEFINE p == [s \in Slots |-> IF s \in group
                                 THEN [Active(c)[s] EXCEPT !.device = NoDevice, !.locked = FALSE]
                                 ELSE Active(c)[s]]
<1>1. Active(c) \in Profile
  BY ActiveInProfile
<1>2. p \in Profile /\ \A t \in Slots : p[t].keys = Active(c)[t].keys
  BY <1>1 DEF Profile, SlotProfile
<1>3. Forget(c, group) = [c EXCEPT !.profiles[c.active] = p]
  BY DEF Forget, Active
<1> QED BY <1>2, <1>3, ProfileReplaced DEF SameBindings

\* What editing bindings leaves alone.
SameLocks(c, c2) ==
    /\ c2 \in Config
    /\ \A s \in Slots : Active(c2)[s].locked = Active(c)[s].locked

\* What editing a slot's bindings makes of the configuration.
LEMMA BindingsReplaced ==
    ASSUME NEW c \in Config, NEW s \in Slots, NEW keys \in Bindings
    PROVE  SameLocks(c, [c EXCEPT !.profiles[c.active][s].keys = keys])
<1> DEFINE entry == [Active(c)[s] EXCEPT !.keys = keys]
           p == [Active(c) EXCEPT ![s] = entry]
<1>1. Active(c) \in Profile
  BY ActiveInProfile
<1>2. entry \in SlotProfile /\ entry.locked = Active(c)[s].locked
  <2> DEFINE old == Active(c)[s]
  <2>1. old \in SlotProfile
    BY <1>1 DEF Profile
  <2> HIDE DEF old
  <2>2. [old EXCEPT !.keys = keys] \in SlotProfile /\ [old EXCEPT !.keys = keys].locked = old.locked
    BY <2>1 DEF SlotProfile
  <2> QED BY <2>2 DEF old
<1>3. [c EXCEPT !.profiles[c.active][s].keys = keys] = [c EXCEPT !.profiles[c.active] = p]
  BY <1>1 DEF Active, Config, Profile
<1> HIDE DEF entry
<1>4. p \in Profile /\ \A t \in Slots : p[t].locked = Active(c)[t].locked
  BY <1>1, <1>2 DEF Profile
<1> QED BY <1>3, <1>4, ProfileReplaced DEF SameLocks

LEMMA SetBindingTyped ==
    ASSUME NEW c \in Config, NEW s \in Slots, NEW k \in Keys, NEW a \in Actions
    PROVE  SameLocks(c, [c EXCEPT !.profiles[c.active][s].keys[k] = a])
<1> DEFINE old == Active(c)[s].keys
           keys == [old EXCEPT ![k] = a]
<1>1. old \in Bindings
  BY ActiveInProfile DEF Profile, SlotProfile
<1>2. [c EXCEPT !.profiles[c.active][s].keys[k] = a]
        = [c EXCEPT !.profiles[c.active][s].keys = keys]
  BY DEF Active
<1> HIDE DEF old
<1>3. keys \in Bindings
  BY <1>1 DEF Bindings
<1> QED BY <1>2, <1>3, BindingsReplaced

LEMMA CaptureKeyTyped ==
    ASSUME NEW c \in Config, NEW s \in Slots, NEW k \in Keys, NEW a \in Actions
    PROVE  SameLocks(c, [c EXCEPT !.profiles[c.active][s].keys = Captured(@, k, a)])
<1> DEFINE old == Active(c)[s].keys
           keys == Captured(old, k, a)
<1>1. old \in Bindings
  BY ActiveInProfile DEF Profile, SlotProfile
<1>2. [c EXCEPT !.profiles[c.active][s].keys = Captured(@, k, a)]
        = [c EXCEPT !.profiles[c.active][s].keys = keys]
  BY DEF Active
<1> HIDE DEF old
<1>3. keys \in Bindings
  BY <1>1 DEF Bindings, Captured
<1> QED BY <1>2, <1>3, BindingsReplaced

LEMMA SyncedFollows ==
    ASSUME NEW c \in Config
    PROVE  /\ Synced(c) \in [Slots -> Bindings]
           /\ \A s \in Slots : Synced(c)[s] = Active(c)[s].keys
BY ActiveInProfile DEF Synced, Profile, SlotProfile

ConfigTypeOK ==
    /\ config \in Config
    /\ disk \in Config
    /\ bound \in [Slots -> Bindings]
    /\ capture # NoCapture => capture.slot \in Slots /\ capture.action \in Actions

Followed == \A d \in Devices, s \in Slots : assigned[d] = s => bound[s] = Active(config)[s].keys

\* While a profile is loaded the slots still have the bindings of the last one;
\* at the start of the daemon they have their own from the first assignment on.
BoundInv == ConfigTypeOK /\ (pc = "idle" \/ starting => Followed)

\* Steps that assign nothing, edit no binding, and do not end the loop.
LEMMA BindingsKept ==
    ASSUME BoundInv, UNCHANGED <<bound, capture>>,
           SameBindings(config, config'), disk' \in {disk, config'},
           \A d \in Devices : assigned'[d] \in {assigned[d], NoSlot},
           pc' = "idle" \/ starting' => pc = "idle" \/ starting
    PROVE  BoundInv'
<1>1. ConfigTypeOK'
  BY DEF BoundInv, ConfigTypeOK, SameBindings
<1>2. pc' = "idle" \/ starting' => Followed'
  BY TablesAssumption DEF BoundInv, SameBindings, Followed
<1> QED BY <1>1, <1>2 DEF BoundInv

\* Steps after which every slot has the bindings of the active profile.
LEMMA BindingsSynced ==
    ASSUME BoundInv, config' \in Config, disk' \in {disk, config'},
           bound' = Synced(config'), capture' \in {capture, NoCapture}
    PROVE  BoundInv'
<1>1. ConfigTypeOK'
  BY SyncedFollows DEF BoundInv, ConfigTypeOK
<1>2. Followed'
  BY SyncedFollows DEF Followed
<1> QED BY <1>1, <1>2 DEF BoundInv

\* Steps that begin to load a profile.
LEMMA LoadingTyped ==
    ASSUME BoundInv, config' \in Config, UNCHANGED <<disk, bound, capture>>,
           pc' # "idle", ~starting'
    PROVE  BoundInv'
BY DEF BoundInv, ConfigTypeOK

LEMMA UnboundTyped == Unbound \in [Slots -> Bindings]
BY DEF Unbound, Bindings

LEMMA BootBound ==
    ASSUME NEW c \in Config, NEW plugged, Boot(c, plugged), disk' \in Config
    PROVE  BoundInv'
<1>1. ConfigTypeOK'
  BY UnboundTyped DEF Boot, ConfigTypeOK
<1>2. Followed'
  BY TablesAssumption DEF Boot, Followed
<1> QED BY <1>1, <1>2 DEF BoundInv

LEMMA AssignBound ==
    ASSUME BoundInv, TablesInv, NEW d \in Devices, NEW s \in Slots, Assign(d, s),
           UNCHANGED capture, pc' = "idle" \/ starting' => pc = "idle" \/ starting
    PROVE  BoundInv'
<1>1. config \in Config
  BY DEF BoundInv, ConfigTypeOK
<1>2. config' = Remember(config, d, s) /\ disk' \in {disk, config'}
  BY SaveSaves DEF Assign
<1>3. SameBindings(config, config')
  BY <1>1, <1>2, RememberKeepsBindings DEF TablesInv, TablesTypeOK
<1>4. bound' = [bound EXCEPT ![s] = Active(config)[s].keys]
  BY DEF Assign
<1>5. Active(config)[s].keys \in Bindings
  BY <1>1, ActiveInProfile DEF Profile, SlotProfile
<1>6. ConfigTypeOK'
  BY <1>2, <1>3, <1>4, <1>5 DEF BoundInv, ConfigTypeOK, SameBindings
<1>7. \A e \in Devices : assigned'[e] = (IF e = d THEN s ELSE IF assigned[e] = s THEN NoSlot
                                         ELSE assigned[e])
  BY DEF Assign, assign_device
<1>8. ASSUME Followed PROVE Followed'
  <2> SUFFICES ASSUME NEW e \in Devices, NEW t \in Slots, assigned'[e] = t
               PROVE  bound'[t] = Active(config)[t].keys
    BY <1>3 DEF Followed, SameBindings
  <2>1. CASE t = s
    BY <2>1, <1>4 DEF BoundInv, ConfigTypeOK
  <2>2. CASE t # s
    BY <2>2, <1>4, <1>7, <1>8, TablesAssumption DEF BoundInv, ConfigTypeOK, Followed
  <2> QED BY <2>1, <2>2
<1> QED BY <1>6, <1>8 DEF BoundInv

LEMMA LockBound ==
    ASSUME BoundInv, NEW d \in Devices, NEW lock \in BOOLEAN, Lock(d, lock),
           UNCHANGED <<bound, capture>>, pc' = "idle" \/ starting' => pc = "idle" \/ starting
    PROVE  BoundInv'
<1>1. config' = Locked(config, d, lock) /\ disk' \in {disk, config'}
  BY SaveSaves DEF Lock
<1>2. SameBindings(config, config')
  BY <1>1, LockedKeepsBindings DEF BoundInv, ConfigTypeOK
<1>3. assigned' = assigned
  BY DEF Lock, set_device_locked
<1> QED BY <1>1, <1>2, <1>3, BindingsKept

LEMMA SameConfig ==
    ASSUME BoundInv, UNCHANGED config
    PROVE  SameBindings(config, config')
BY DEF BoundInv, ConfigTypeOK, SameBindings

LEMMA LoopBound ==
    ASSUME BoundInv, TablesInv, NEW s \in Slots,
           SkipSlot(s) \/ RestoreSlot(s) \/ RestoreRefused(s) \/ RestoreLock(s)
    PROVE  BoundInv'
<1>1. known \subseteq Devices
  BY DEF TablesInv, TablesTypeOK
<1>2. CASE SkipSlot(s) \/ RestoreRefused(s)
  BY <1>2, SameConfig, BindingsKept DEF SkipSlot, RestoreRefused, ToLock, tables
<1>3. CASE RestoreSlot(s)
  BY <1>1, <1>3, AssignBound DEF RestoreSlot, ToLock
<1>4. CASE RestoreLock(s)
  <2>1. CASE from[s].device \in CanGrab
    BY <1>4, <2>1, LockBound, TablesAssumption DEF RestoreLock
  <2>2. CASE from[s].device \notin CanGrab
    BY <1>4, <2>2, SameConfig, BindingsKept DEF RestoreLock, tables
  <2> QED BY <2>1, <2>2
<1> QED BY <1>2, <1>3, <1>4

LEMMA WithoutTyped ==
    ASSUME config \in Config, NEW n, NEW m \in DOMAIN config.profiles \ {n}
    PROVE  [active |-> m, profiles |-> Without(n)] \in Config
<1>1. PICK names \in SUBSET Names : config.profiles \in [names -> Profile]
  BY DEF Config
<1>2. Without(n) \in [names \ {n} -> Profile]
  BY <1>1 DEF Without
<1> QED BY <1>1, <1>2 DEF Config

LEMMA CommandBound == ASSUME BoundInv, TablesInv, Command PROVE BoundInv'
<1> USE DEF Idle
<1>0. config \in Config
  BY DEF BoundInv, ConfigTypeOK
<1>1. ASSUME NEW d \in Devices, NEW s \in Slots, AssignDevice(d, s) PROVE BoundInv'
  BY <1>1, AssignBound DEF AssignDevice
<1>2. ASSUME NEW s \in Slots, UnassignSlot(s) PROVE BoundInv'
  <2>1. config' = Forget(config, {s}) /\ disk' \in {disk, config'}
    BY <1>2, SaveSaves DEF UnassignSlot
  <2>2. SameBindings(config, config')
    BY <1>0, <2>1, ForgetKeepsBindings
  <2>3. \A d \in Devices : assigned'[d] \in {assigned[d], NoSlot}
    BY <1>2 DEF UnassignSlot, unassign_slot
  <2> QED BY <1>2, <2>1, <2>2, <2>3, BindingsKept DEF UnassignSlot
<1>3. ASSUME NEW d \in Devices, LockDevice(d) \/ UnlockDevice(d) PROVE BoundInv'
  BY <1>3, LockBound DEF LockDevice, UnlockDevice
<1>4. CASE SaveProfile
  BY <1>0, <1>4, SaveSaves, BindingsSynced DEF SaveProfile
<1>5. ASSUME NEW s \in Edited, NEW k \in Keys, NEW a \in Actions, SetBinding(s, k, a)
      PROVE  BoundInv'
  <2>1. s \in Slots
    BY ProfilesAssumption
  <2> QED BY <1>0, <1>5, <2>1, SetBindingTyped, SaveSaves, BindingsSynced DEF SetBinding, SameLocks
<1>6. ASSUME NEW n \in Names, LoadProfile(n) PROVE BoundInv'
  <2>1. config' \in Config
    BY <1>0, <1>6 DEF LoadProfile, Config
  <2> QED BY <1>6, <2>1, LoadingTyped DEF LoadProfile, Restore
<1>7. ASSUME NEW n \in Names, CreateProfile(n) PROVE BoundInv'
  <2>1. PICK names \in SUBSET Names : config.profiles \in [names -> Profile]
    BY <1>0 DEF Config
  <2>2. Active(config) \in Profile
    BY <1>0, ActiveInProfile
  <2>3. config'.profiles \in [names \cup {n} -> Profile] /\ config'.active = n
        /\ config' = [active |-> config'.active, profiles |-> config'.profiles]
    BY <1>7, <2>1, <2>2 DEF CreateProfile
  <2>4. config' \in Config
    BY <2>1, <2>3 DEF Config
  <2> QED BY <1>7, <2>4, LoadingTyped DEF CreateProfile, Restore
<1>8. ASSUME NEW n \in Names, DeleteActive(n) PROVE BoundInv'
  <2>1. PICK m \in DOMAIN Without(n) : config' = [active |-> m, profiles |-> Without(n)]
    BY <1>8 DEF DeleteActive, First
  <2>2. config' \in Config
    BY <1>0, <2>1, WithoutTyped DEF Without
  <2> QED BY <1>8, <2>2, LoadingTyped DEF DeleteActive, Restore
<1>9. ASSUME NEW n \in Names, DeleteOther(n) PROVE BoundInv'
  <2>1. config.active \in DOMAIN config.profiles \ {n}
    BY <1>0, <1>9 DEF DeleteOther, Config
  <2>2. config' = [active |-> config.active, profiles |-> Without(n)] /\ disk' \in {disk, config'}
    BY <1>0, <1>9, SaveSaves DEF DeleteOther, Config
  <2>3. config' \in Config /\ Active(config') = Active(config)
    BY <1>0, <2>1, <2>2, WithoutTyped DEF Active, Without
  <2>4. bound' = Synced(config')
    BY <1>9, <2>3 DEF DeleteOther, Synced
  <2> QED BY <1>9, <2>2, <2>3, <2>4, BindingsSynced DEF DeleteOther
<1>10. ASSUME NEW s \in Edited, NEW a \in Actions, StartBindingCapture(s, a) PROVE BoundInv'
  <2>1. s \in Slots
    BY ProfilesAssumption
  <2> QED
    BY <1>10, <2>1 DEF StartBindingCapture, BoundInv, ConfigTypeOK, Followed, loop, tables
<1>11. CASE CancelBindingCapture
  BY <1>11 DEF CancelBindingCapture, BoundInv, ConfigTypeOK, Followed, loop, tables
<1> QED
  BY <1>1, <1>2, <1>3, <1>4, <1>5, <1>6, <1>7, <1>8, <1>9, <1>10, <1>11 DEF Command

LEMMA BoundInvStep == BoundInv /\ TablesInv /\ [Next]_allVars => BoundInv'
<1> SUFFICES ASSUME BoundInv, TablesInv, [Next]_allVars PROVE BoundInv'
  OBVIOUS
<1> USE DEF Idle
<1>0. config \in Config /\ disk \in Config
  BY DEF BoundInv, ConfigTypeOK
<1>1. CASE RestoreDone
  <2>1. CASE starting
    <3>1. BoundInv /\ Followed /\ UNCHANGED <<config, disk, bound, capture, assigned>>
      BY <1>1, <2>1 DEF RestoreDone, EndLoop, tables, BoundInv
    <3> QED BY <3>1 DEF BoundInv, ConfigTypeOK, Followed
  <2>2. CASE ~starting
    BY <1>0, <1>1, <2>2, SaveSaves, BindingsSynced DEF RestoreDone
  <2> QED BY <2>1, <2>2
<1>2. ASSUME NEW s \in Slots, NEW k \in Keys, CaptureKey(s, k) PROVE BoundInv'
  <2>1. capture.action \in Actions
    BY <1>2 DEF CaptureKey, BoundInv, ConfigTypeOK
  <2> DEFINE c == [config EXCEPT !.profiles[config.active][s].keys =
                        Captured(@, k, capture.action)]
  <2>2. c \in Config
    BY <1>0, <2>1, CaptureKeyTyped DEF SameLocks
  <2>3. Save(c) /\ bound' = Synced(config') /\ capture' = NoCapture
    BY <1>2 DEF CaptureKey
  <2> HIDE DEF c
  <2> QED BY <2>2, <2>3, SaveSaves, BindingsSynced
<1>3. CASE KillSwitch
  <2>1. config' = Forget(config, Slots) /\ disk' \in {disk, config'}
    BY <1>3, SaveSaves DEF KillSwitch
  <2>2. SameBindings(config, config')
    BY <1>0, <2>1, ForgetKeepsBindings
  <2>3. \A d \in Devices : assigned'[d] \in {assigned[d], NoSlot}
    BY <1>3 DEF KillSwitch, release_all_locks
  <2> QED BY <1>3, <2>1, <2>2, <2>3, BindingsKept DEF KillSwitch
<1>4. CASE CaptureCancelled
  BY <1>4 DEF CaptureCancelled, BoundInv, ConfigTypeOK, Followed, loop, tables
<1>5. CASE Rescan
  BY <1>5, SameConfig, BindingsKept DEF Rescan, rescan_devices, profileVars, loop
<1>6. ASSUME NEW d \in Flaky, OpenFailed(d) PROVE BoundInv'
  BY <1>6, SameConfig, BindingsKept DEF OpenFailed, mark_disconnected, profileVars, loop
<1>7. ASSUME NEW plugged \in Plugged, Restart(plugged) \/ Crash(plugged) PROVE BoundInv'
  BY <1>0, <1>7, BootBound DEF Restart, Crash
<1>8. CASE UNCHANGED allVars
  BY <1>8, SameConfig, BindingsKept DEF allVars, profileVars, loop, tables
<1> QED BY <1>1, <1>2, <1>3, <1>4, <1>5, <1>6, <1>7, <1>8, LoopBound, CommandBound DEF Next

(* The bindings of a slot with a keyboard are those of the active profile,  *)
(* whatever is loaded, created, deleted, captured or restored.              *)
THEOREM SlotsFollowProfile == Spec => []BindingsFollowProfile
<1>1. Init => BoundInv
  BY ProfilesAssumption, TablesAssumption, UnboundTyped
     DEF Init, BoundInv, ConfigTypeOK, Followed
<1>2. BoundInv => BindingsFollowProfile
  BY DEF BoundInv, BindingsFollowProfile, Followed, Idle
<1> QED BY <1>1, <1>2, BoundInvStep, ProfilesKeepTables, PTL DEF Spec
-----------------------------------------------------------------------------
(* What the kill switch released.                                          *)

NoLocks(p) == \A s \in Slots : ~p[s].locked

\* After the kill switch no lock is left where a later step could find one: in
\* the tables, the active profile, the file, or the profile being restored.
ReleasedInv ==
    released =>
        /\ \A d \in Devices : ~dlocked[d]
        /\ NoLocks(Active(config))
        /\ saved => NoLocks(Active(disk))
        /\ pc # "lock"
        /\ pc # "idle" => NoLocks(from)

\* What becomes of the file with a configuration that has no locks.
LEMMA SavesNoLocks ==
    ASSUME NEW c, Save(c), NoLocks(Active(c))
    PROVE  NoLocks(Active(config')) /\ (saved' => NoLocks(Active(disk')))
BY SaveSaves

LEMMA RememberNoLocks ==
    ASSUME NEW c \in Config, NEW d \in Devices, NEW s \in Slots,
           dlocked[d] \in BOOLEAN, ~dlocked[d], NoLocks(Active(c))
    PROVE  NoLocks(Active(Remember(c, d, s)))
<1> DEFINE entry == [Active(c)[s] EXCEPT !.device = d, !.locked = dlocked[d]]
           p == [Active(c) EXCEPT ![s] = entry]
<1>1. Active(c) \in Profile
  BY ActiveInProfile
<1>2. entry \in SlotProfile /\ entry.locked = FALSE
  <2> DEFINE old == Active(c)[s]
  <2>1. old \in SlotProfile /\ dlocked[d] = FALSE
    BY <1>1 DEF Profile
  <2> HIDE DEF old
  <2>2. [old EXCEPT !.device = d, !.locked = FALSE] \in SlotProfile
        /\ [old EXCEPT !.device = d, !.locked = FALSE].locked = FALSE
    BY <2>1 DEF SlotProfile
  <2> QED BY <2>1, <2>2 DEF old
<1>3. Remember(c, d, s) = [c EXCEPT !.profiles[c.active] = p]
  BY <1>1 DEF Remember, Active, Config, Profile
<1> HIDE DEF entry
<1>4. p \in Profile /\ \A t \in Slots : p[t].locked = (IF t = s THEN FALSE ELSE Active(c)[t].locked)
  BY <1>1, <1>2 DEF Profile
<1> HIDE DEF p
<1>5. Active(Remember(c, d, s)) = p
  BY <1>3, <1>4, ProfileReplaced
<1> QED BY <1>4, <1>5 DEF NoLocks

LEMMA UnlockedNoLocks ==
    ASSUME NEW c \in Config, NEW d \in Devices, NoLocks(Active(c))
    PROVE  NoLocks(Active(Locked(c, d, FALSE)))
<1> DEFINE p == [s \in Slots |-> IF s = assigned[d] THEN [Active(c)[s] EXCEPT !.locked = FALSE]
                                 ELSE Active(c)[s]]
<1>1. Active(c) \in Profile
  BY ActiveInProfile
<1>2. p \in Profile /\ \A t \in Slots : p[t].locked = FALSE
  BY <1>1 DEF Profile, SlotProfile, NoLocks
<1>3. Locked(c, d, FALSE) = [c EXCEPT !.profiles[c.active] = p]
  BY DEF Locked, Active
<1> HIDE DEF p
<1>4. Active(Locked(c, d, FALSE)) = p
  BY <1>2, <1>3, ProfileReplaced
<1> QED BY <1>2, <1>4 DEF NoLocks

LEMMA ForgetNoLocks ==
    ASSUME NEW c \in Config, NEW group, group = Slots \/ NoLocks(Active(c))
    PROVE  NoLocks(Active(Forget(c, group)))
<1> DEFINE p == [s \in Slots |-> IF s \in group
                                 THEN [Active(c)[s] EXCEPT !.device = NoDevice, !.locked = FALSE]
                                 ELSE Active(c)[s]]
<1>1. Active(c) \in Profile
  BY ActiveInProfile
<1>2. p \in Profile /\ \A t \in Slots : p[t].locked = FALSE
  BY <1>1 DEF Profile, SlotProfile, NoLocks
<1>3. Forget(c, group) = [c EXCEPT !.profiles[c.active] = p]
  BY DEF Forget, Active
<1> HIDE DEF p
<1>4. Active(Forget(c, group)) = p
  BY <1>2, <1>3, ProfileReplaced
<1> QED BY <1>2, <1>4 DEF NoLocks

\* The loop of a released daemon finds no lock to set.
LEMMA LoopReleased ==
    ASSUME ReleasedInv, BoundInv, TablesInv, released', NEW s \in Slots,
           SkipSlot(s) \/ RestoreSlot(s) \/ RestoreRefused(s) \/ RestoreLock(s)
    PROVE  ReleasedInv'
<1>1. CASE SkipSlot(s)
  BY <1>1 DEF SkipSlot, tables, ReleasedInv
<1>2. CASE RestoreRefused(s)
  BY <1>2 DEF RestoreRefused, Visit, ToLock, tables, ReleasedInv, NoLocks
<1>3. CASE RestoreSlot(s)
  <2>1. from[s].device \in Devices /\ dlocked \in [Devices -> BOOLEAN]
    BY <1>3 DEF RestoreSlot, TablesInv, TablesTypeOK
  <2>2. released /\ NoLocks(from) /\ UNCHANGED <<dlocked, from>>
    BY <1>3 DEF RestoreSlot, Visit, ToLock, Assign, assign_device, ReleasedInv
  <2>3. NoLocks(Active(Remember(config, from[s].device, s)))
    BY <2>1, <2>2, RememberNoLocks DEF ReleasedInv, BoundInv, ConfigTypeOK
  <2>4. NoLocks(Active(config')) /\ (saved' => NoLocks(Active(disk')))
    BY <1>3, <2>3, SavesNoLocks DEF RestoreSlot, Assign
  <2>5. pc' = "assign"
    BY <1>3, <2>2 DEF RestoreSlot, ToLock, NoLocks
  <2> QED BY <2>2, <2>4, <2>5 DEF ReleasedInv
<1>4. CASE RestoreLock(s)
  BY <1>4 DEF RestoreLock, ReleasedInv
<1> QED BY <1>1, <1>2, <1>3, <1>4

LEMMA CommandReleased ==
    ASSUME ReleasedInv, BoundInv, TablesInv, released', Command
    PROVE  ReleasedInv'
<1> USE DEF Idle
<1>0. config \in Config /\ dlocked \in [Devices -> BOOLEAN]
  BY DEF BoundInv, ConfigTypeOK, TablesInv, TablesTypeOK
<1>1. ASSUME NEW d \in Devices, NEW s \in Slots, AssignDevice(d, s) PROVE ReleasedInv'
  <2>1. released /\ pc' = "idle" /\ UNCHANGED dlocked
    BY <1>1 DEF AssignDevice, loop, Assign, assign_device
  <2>2. NoLocks(Active(Remember(config, d, s)))
    BY <1>0, <2>1, RememberNoLocks DEF ReleasedInv
  <2>3. NoLocks(Active(config')) /\ (saved' => NoLocks(Active(disk')))
    BY <1>1, <2>2, SavesNoLocks DEF AssignDevice, Assign
  <2> QED BY <2>1, <2>3 DEF ReleasedInv
<1>2. ASSUME NEW s \in Slots, UnassignSlot(s) PROVE ReleasedInv'
  <2>1. released /\ pc' = "idle"
    BY <1>2 DEF UnassignSlot, loop
  <2>2. \A d \in Devices : ~dlocked'[d]
    BY <1>2, <2>1 DEF UnassignSlot, unassign_slot, ReleasedInv
  <2>3. NoLocks(Active(Forget(config, {s})))
    BY <1>0, <2>1, ForgetNoLocks DEF ReleasedInv
  <2>4. NoLocks(Active(config')) /\ (saved' => NoLocks(Active(disk')))
    BY <1>2, <2>3, SavesNoLocks DEF UnassignSlot
  <2> QED BY <2>1, <2>2, <2>4 DEF ReleasedInv
<1>3. ASSUME NEW d \in Devices, UnlockDevice(d) PROVE ReleasedInv'
  <2>1. released /\ pc' = "idle"
    BY <1>3 DEF UnlockDevice, loop
  <2>2. \A e \in Devices : ~dlocked'[e]
    BY <1>0, <1>3, <2>1 DEF UnlockDevice, Lock, set_device_locked, ReleasedInv
  <2>3. NoLocks(Active(Locked(config, d, FALSE)))
    BY <1>0, <2>1, UnlockedNoLocks DEF ReleasedInv
  <2>4. NoLocks(Active(config')) /\ (saved' => NoLocks(Active(disk')))
    BY <1>3, <2>3, SavesNoLocks DEF UnlockDevice, Lock
  <2> QED BY <2>1, <2>2, <2>4 DEF ReleasedInv
<1>4. CASE SaveProfile
  <2>1. released /\ pc' = "idle" /\ UNCHANGED dlocked
    BY <1>4 DEF SaveProfile, loop, tables
  <2>2. NoLocks(Active(config')) /\ (saved' => NoLocks(Active(disk')))
    BY <1>4, <2>1, SavesNoLocks DEF SaveProfile, ReleasedInv
  <2> QED BY <2>1, <2>2 DEF ReleasedInv
<1>5. ASSUME NEW s \in Edited, NEW k \in Keys, NEW a \in Actions, SetBinding(s, k, a)
      PROVE  ReleasedInv'
  <2>1. released /\ pc' = "idle" /\ UNCHANGED dlocked /\ s \in Slots
    BY <1>5, ProfilesAssumption DEF SetBinding, loop, tables
  <2> DEFINE c == [config EXCEPT !.profiles[config.active][s].keys[k] = a]
  <2>2. NoLocks(Active(c))
    BY <1>0, <2>1, SetBindingTyped DEF SameLocks, NoLocks, ReleasedInv
  <2>3. NoLocks(Active(config')) /\ (saved' => NoLocks(Active(disk')))
    BY <1>5, <2>2, SavesNoLocks DEF SetBinding
  <2> QED BY <2>1, <2>3 DEF ReleasedInv
<1>6. ASSUME NEW d \in Devices, LockDevice(d) PROVE FALSE
  BY <1>6 DEF LockDevice
<1>7. ASSUME NEW n \in Names, CreateProfile(n) PROVE ReleasedInv'
  <2>1. released /\ UNCHANGED <<dlocked, disk, saved>> /\ pc' = "assign"
        /\ from' = Active(config)
    BY <1>7 DEF CreateProfile, Restore, tables
  <2>2. Active(config') = Active(config)
    BY <1>7 DEF CreateProfile, Active
  <2> QED BY <2>1, <2>2 DEF ReleasedInv
<1>8. ASSUME NEW n \in Names, DeleteOther(n) PROVE ReleasedInv'
  <2>1. released /\ pc' = "idle" /\ UNCHANGED dlocked
    BY <1>8 DEF DeleteOther, loop, tables
  <2>2. config.active \in DOMAIN config.profiles \ {n}
    BY <1>0, <1>8 DEF DeleteOther, Config
  <2> DEFINE c == [config EXCEPT !.profiles = Without(n)]
  <2>3. Active(c) = Active(config)
    BY <1>0, <2>2 DEF Active, Without, Config
  <2>4. NoLocks(Active(config')) /\ (saved' => NoLocks(Active(disk')))
    BY <1>8, <2>1, <2>3, SavesNoLocks DEF DeleteOther, ReleasedInv
  <2> QED BY <2>1, <2>4 DEF ReleasedInv
<1>9. ASSUME NEW s \in Edited, NEW a \in Actions, StartBindingCapture(s, a) PROVE ReleasedInv'
  BY <1>9 DEF StartBindingCapture, loop, tables, ReleasedInv
<1>10. CASE CancelBindingCapture
  BY <1>10 DEF CancelBindingCapture, loop, tables, ReleasedInv
<1>11. ASSUME NEW n \in Names, LoadProfile(n) \/ DeleteActive(n) PROVE FALSE
  BY <1>11 DEF LoadProfile, DeleteActive
<1> QED
  BY <1>1, <1>2, <1>3, <1>4, <1>5, <1>6, <1>7, <1>8, <1>9, <1>10, <1>11 DEF Command

LEMMA ReleasedInvStep ==
    ReleasedInv /\ BoundInv /\ TablesInv /\ [Next]_allVars => ReleasedInv'
<1> SUFFICES ASSUME ReleasedInv, BoundInv, TablesInv, [Next]_allVars, released'
             PROVE  ReleasedInv'
  BY DEF ReleasedInv
<1> USE DEF Idle
<1>0. config \in Config /\ disk \in Config
  BY DEF BoundInv, ConfigTypeOK
<1>1. CASE RestoreDone
  <2>1. released /\ pc' = "idle" /\ UNCHANGED dlocked
    BY <1>1 DEF RestoreDone, EndLoop, tables
  <2>2. NoLocks(Active(config')) /\ (saved' => NoLocks(Active(disk')))
    BY <1>1, <2>1, SavesNoLocks DEF RestoreDone, ReleasedInv
  <2> QED BY <2>1, <2>2 DEF ReleasedInv
<1>2. ASSUME NEW s \in Slots, NEW k \in Keys, CaptureKey(s, k) PROVE ReleasedInv'
  <2>1. released /\ pc' = "idle" /\ UNCHANGED dlocked
    BY <1>2 DEF CaptureKey, loop, tables
  <2>2. capture.action \in Actions
    BY <1>2 DEF CaptureKey, BoundInv, ConfigTypeOK
  <2> DEFINE c == [config EXCEPT !.profiles[config.active][s].keys =
                        Captured(@, k, capture.action)]
  <2>3. NoLocks(Active(c))
    BY <1>0, <2>1, <2>2, CaptureKeyTyped DEF SameLocks, NoLocks, ReleasedInv
  <2>4. NoLocks(Active(config')) /\ (saved' => NoLocks(Active(disk')))
    BY <1>2, <2>3, SavesNoLocks DEF CaptureKey
  <2> QED BY <2>1, <2>4 DEF ReleasedInv
<1>3. CASE KillSwitch
  <2>1. pc' = "idle" /\ \A d \in Devices : ~dlocked'[d]
    BY <1>3 DEF KillSwitch, loop, release_all_locks
  <2>2. NoLocks(Active(config')) /\ (saved' => NoLocks(Active(disk')))
    BY <1>0, <1>3, ForgetNoLocks, SavesNoLocks DEF KillSwitch
  <2> QED BY <2>1, <2>2 DEF ReleasedInv
<1>4. CASE CaptureCancelled
  BY <1>4 DEF CaptureCancelled, loop, tables, ReleasedInv
<1>5. CASE Rescan
  BY <1>5 DEF Rescan, rescan_devices, profileVars, loop, ReleasedInv
<1>6. ASSUME NEW d \in Flaky, OpenFailed(d) PROVE ReleasedInv'
  BY <1>6 DEF OpenFailed, mark_disconnected, profileVars, loop, ReleasedInv
<1>7. ASSUME NEW plugged \in Plugged, Restart(plugged) \/ Crash(plugged) PROVE ReleasedInv'
  <2>1. NoLocks(Active(disk'))
    BY <1>7 DEF Restart, Crash, ReleasedInv
  <2>2. Boot(disk', plugged)
    BY <1>7 DEF Restart, Crash
  <2> QED BY <2>1, <2>2 DEF Boot, Restore, ReleasedInv
<1>8. CASE UNCHANGED allVars
  BY <1>8 DEF allVars, profileVars, loop, tables, ReleasedInv
<1> QED BY <1>1, <1>2, <1>3, <1>4, <1>5, <1>6, <1>7, <1>8, LoopReleased, CommandReleased DEF Next

(* What the kill switch unlocked stays unlocked, through restarts, crashes  *)
(* and the restores after them, until a lock is asked for or another        *)
(* profile is loaded, or the daemon ends while the last save has failed.    *)
THEOREM ReleaseLasts == Spec => []ReleasedStaysReleased
<1>1. Init => BoundInv
  BY ProfilesAssumption, TablesAssumption, UnboundTyped
     DEF Init, BoundInv, ConfigTypeOK, Followed
<1>2. Init => ReleasedInv
  BY DEF Init, ReleasedInv
<1>3. ReleasedInv => ReleasedStaysReleased
  BY DEF ReleasedInv, ReleasedStaysReleased
<1> QED BY <1>1, <1>2, <1>3, BoundInvStep, ReleasedInvStep, ProfilesKeepTables, PTL DEF Spec
-----------------------------------------------------------------------------
(* What the restore loop achieves.                                         *)

\* The slot has its keyboard, as far as it can.
Reached(s) ==
    \/ assigned[from[s].device] = s
    \/ ~connected[from[s].device]
    \/ \E t \in Slots : t > s /\ from[t].device = from[s].device

LockSet(s) == from[s].locked /\ from[s].device \in CanGrab => dlocked[from[s].device]

\* The slots are visited in their order; no later step undoes an earlier one.
RestoreInv ==
    pc # "idle" =>
        /\ todo \subseteq Slots
        /\ \A s \in Slots \ todo :
              /\ \A t \in todo : s < t
              /\ from[s].device \in known => Reached(s) /\ LockSet(s)
        /\ pc = "lock" => \A s \in todo : First(s, todo) /\ from[s].device \in known => Reached(s)

\* A step of the loop at slot s that keeps what was achieved.
LEMMA LoopAdvances ==
    ASSUME RestoreInv, pc # "idle", NEW s \in Slots, First(s, todo), UNCHANGED <<from, known>>,
           \A u \in Slots \ todo : from[u].device \in known => Reached(u)' /\ LockSet(u)',
           from[s].device \in known => Reached(s)',
           \/ pc' = "lock" /\ todo' = todo
           \/ /\ pc' = "assign" /\ todo' = todo \ {s}
              /\ from[s].device \in known => LockSet(s)'
    PROVE  RestoreInv'
<1> USE ProfilesAssumption
<1>1. todo \subseteq Slots /\ s \in todo /\ \A t \in todo : s <= t
  BY DEF RestoreInv, First
<1>2. \A u \in Slots \ todo, t \in todo : u < t
  BY DEF RestoreInv
<1>3. CASE pc' = "lock" /\ todo' = todo
  <2>1. \A u \in todo : First(u, todo) => u = s
    BY <1>1 DEF First
  <2> QED BY <1>1, <1>2, <1>3, <2>1 DEF RestoreInv, First
<1>4. CASE /\ pc' = "assign" /\ todo' = todo \ {s}
           /\ from[s].device \in known => LockSet(s)'
  <2>1. \A u \in Slots \ todo' : \A t \in todo' : u < t
    BY <1>1, <1>2, <1>4
  <2>2. \A u \in Slots \ todo' : from[u].device \in known => Reached(u)' /\ LockSet(u)'
    BY <1>4
  <2> QED BY <1>1, <1>4, <2>1, <2>2 DEF RestoreInv
<1> QED BY <1>3, <1>4

LEMMA LoopRestores ==
    ASSUME RestoreInv, TablesInv, NEW s \in Slots,
           SkipSlot(s) \/ RestoreSlot(s) \/ RestoreRefused(s) \/ RestoreLock(s)
    PROVE  RestoreInv'
<1> DEFINE d == from[s].device
<1>1. pc # "idle" /\ First(s, todo)
  BY DEF SkipSlot, RestoreSlot, RestoreRefused, RestoreLock, Visit
<1>2. todo \subseteq Slots /\ s \in todo
      /\ \A u \in Slots \ todo : /\ u < s
                                 /\ from[u].device \in known => Reached(u) /\ LockSet(u)
  BY <1>1 DEF RestoreInv, First
<1>3. known \subseteq Devices /\ dlocked \in [Devices -> BOOLEAN]
  BY DEF TablesInv, TablesTypeOK
<1>4. CASE SkipSlot(s)
  <2>1. UNCHANGED <<known, connected, assigned, dlocked, from, pc>> /\ todo' = todo \ {s}
        /\ pc = "assign" /\ d \notin known
    BY <1>4 DEF SkipSlot, Visit, tables
  <2>2. \A u \in Slots \ todo : from[u].device \in known => Reached(u)' /\ LockSet(u)'
    BY <1>2, <2>1 DEF Reached, LockSet
  <2> QED BY <1>1, <2>1, <2>2, LoopAdvances
<1>5. CASE RestoreRefused(s)
  <2>1. UNCHANGED <<known, connected, assigned, dlocked, from>> /\ ~connected[d]
        /\ pc' = (IF from[s].locked THEN "lock" ELSE "assign")
        /\ todo' = (IF from[s].locked THEN todo ELSE todo \ {s})
    BY <1>5 DEF RestoreRefused, ToLock, tables
  <2>2. \A u \in Slots \ todo : from[u].device \in known => Reached(u)' /\ LockSet(u)'
    BY <1>2, <2>1 DEF Reached, LockSet
  <2>3. Reached(s)' /\ (~from[s].locked => LockSet(s)')
    BY <2>1 DEF Reached, LockSet
  <2> QED BY <1>1, <2>1, <2>2, <2>3, LoopAdvances
<1>6. CASE RestoreSlot(s)
  <2>1. /\ d \in Devices
        /\ UNCHANGED <<known, connected, dlocked, from>>
        /\ assigned' = [e \in Devices |-> IF e = d THEN s
                                          ELSE IF assigned[e] = s THEN NoSlot ELSE assigned[e]]
        /\ pc' = (IF from[s].locked THEN "lock" ELSE "assign")
        /\ todo' = (IF from[s].locked THEN todo ELSE todo \ {s})
    BY <1>3, <1>6 DEF RestoreSlot, ToLock, Assign, assign_device, seen
  <2>2. ASSUME NEW u \in Slots \ todo, from[u].device \in known PROVE Reached(u)' /\ LockSet(u)'
    <3>1. Reached(u) /\ LockSet(u) /\ u < s /\ u \in Nat /\ s \in Nat
      BY <1>2, <2>2, ProfilesAssumption
    <3>2. LockSet(u)'
      BY <2>1, <3>1 DEF LockSet
    <3>3. CASE from[u].device = d
      <4>1. from'[s].device = from'[u].device /\ s > u
        BY <2>1, <3>1, <3>3
      <4> QED BY <3>2, <4>1 DEF Reached
    <3>4. CASE from[u].device # d /\ assigned[from[u].device] = u
      <4>1. assigned'[from[u].device] = u
        BY <1>3, <2>1, <2>2, <3>1, <3>4
      <4> QED BY <2>1, <3>2, <4>1 DEF Reached
    <3>5. CASE assigned[from[u].device] # u
      BY <2>1, <3>1, <3>2, <3>5 DEF Reached
    <3> QED BY <3>2, <3>3, <3>4, <3>5
  <2>3. Reached(s)' /\ (~from[s].locked => LockSet(s)')
    BY <2>1 DEF Reached, LockSet
  <2> QED BY <1>1, <2>1, <2>2, <2>3, LoopAdvances
<1>7. CASE RestoreLock(s)
  <2>1. /\ UNCHANGED <<known, connected, assigned, from>>
        /\ pc = "lock" /\ pc' = "assign" /\ todo' = todo \ {s}
    BY <1>7 DEF RestoreLock, Lock, set_device_locked, seen, tables
  <2>2. d \in known => Reached(s)
    BY <1>1, <1>2, <2>1 DEF RestoreInv
  <2>3. CASE d \in CanGrab
    <3>1. dlocked' = [dlocked EXCEPT ![d] = TRUE]
      BY <1>7, <2>3 DEF RestoreLock, Lock, set_device_locked
    <3>2. \A e \in Devices : dlocked[e] \/ e = d => dlocked'[e]
      BY <1>3, <3>1
    <3>3. \A u \in Slots \ todo : from[u].device \in known => Reached(u)' /\ LockSet(u)'
      BY <1>2, <1>3, <2>1, <3>2 DEF Reached, LockSet
    <3>4. d \in known => Reached(s)' /\ LockSet(s)'
      BY <1>3, <2>1, <2>2, <3>2 DEF Reached, LockSet
    <3> QED BY <1>1, <2>1, <3>3, <3>4, LoopAdvances
  <2>4. CASE d \notin CanGrab
    <3>1. UNCHANGED dlocked
      BY <1>7, <2>4 DEF RestoreLock, tables
    <3>2. \A u \in Slots \ todo : from[u].device \in known => Reached(u)' /\ LockSet(u)'
      BY <1>2, <2>1, <3>1 DEF Reached, LockSet
    <3>3. d \in known => Reached(s)' /\ LockSet(s)'
      BY <2>1, <2>2, <2>4 DEF Reached, LockSet
    <3> QED BY <1>1, <2>1, <3>2, <3>3, LoopAdvances
  <2> QED BY <2>3, <2>4
<1> QED BY <1>4, <1>5, <1>6, <1>7

\* No step but those of the loop is taken while it runs, except a crash.
LEMMA RestoreInvStep == RestoreInv /\ TablesInv /\ [Next]_allVars => RestoreInv'
<1> SUFFICES ASSUME RestoreInv, TablesInv, [Next]_allVars PROVE RestoreInv'
  OBVIOUS
<1>1. ASSUME pc' = "idle" PROVE RestoreInv'
  BY <1>1 DEF RestoreInv
<1>2. ASSUME pc' = "assign", todo' = Slots PROVE RestoreInv'
  BY <1>2 DEF RestoreInv
<1>3. CASE Command
  <2>1. pc' = "idle" \/ (pc' = "assign" /\ todo' = Slots)
    BY <1>3 DEF Command, Idle, loop, AssignDevice, UnassignSlot, LockDevice, UnlockDevice,
       SaveProfile, SetBinding, LoadProfile, CreateProfile, DeleteActive, DeleteOther,
       StartBindingCapture, CancelBindingCapture, Restore
  <2> QED BY <1>1, <1>2, <2>1
<1>4. CASE \/ RestoreDone \/ CaptureCancelled \/ KillSwitch \/ Rescan
           \/ \E s \in Slots, k \in Keys : CaptureKey(s, k)
           \/ \E d \in Flaky : OpenFailed(d)
  <2>1. pc' = "idle"
    BY <1>4 DEF RestoreDone, EndLoop, CaptureCancelled, KillSwitch, Rescan, CaptureKey,
       OpenFailed, Idle, loop, profileVars
  <2> QED BY <1>1, <2>1
<1>5. ASSUME NEW plugged \in Plugged, Restart(plugged) \/ Crash(plugged) PROVE RestoreInv'
  BY <1>2, <1>5 DEF Restart, Crash, Boot, Restore
<1>6. CASE UNCHANGED allVars
  BY <1>6 DEF allVars, profileVars, loop, tables, RestoreInv, Reached, LockSet, First
<1> QED BY <1>3, <1>4, <1>5, <1>6, LoopRestores DEF Next

\* While the daemon starts, nothing but the profile puts keyboards into slots or
\* locks them.
StartInv ==
    pc # "idle" /\ starting =>
        /\ pc = "lock" => \A s \in todo : First(s, todo) => from[s].locked
        /\ \A d \in Devices :
              /\ assigned[d] # NoSlot => assigned[d] \in Naming(d)
              /\ dlocked[d] => \E s \in Naming(d) : from[s].locked

LEMMA StartAdvances ==
    ASSUME RestoreInv, TablesInv, StartInv, starting, NEW s \in Slots,
           SkipSlot(s) \/ RestoreSlot(s) \/ RestoreRefused(s) \/ RestoreLock(s)
    PROVE  StartInv'
<1> DEFINE d == from[s].device
<1>1. pc # "idle" /\ First(s, todo)
  BY DEF SkipSlot, RestoreSlot, RestoreRefused, RestoreLock, Visit
<1>2. todo \subseteq Slots
  BY <1>1 DEF RestoreInv
<1>3. \A u \in todo : First(u, todo) => u = s
  BY <1>1, <1>2, ProfilesAssumption DEF First
<1>4. known \subseteq Devices /\ dlocked \in [Devices -> BOOLEAN]
  BY DEF TablesInv, TablesTypeOK
<1>5. \A e \in Devices : /\ assigned[e] # NoSlot => assigned[e] \in Naming(e)
                         /\ dlocked[e] => \E u \in Naming(e) : from[u].locked
  BY <1>1 DEF StartInv
<1>6. from' = from /\ \A e : Naming(e)' = Naming(e)
  BY DEF SkipSlot, RestoreSlot, RestoreRefused, RestoreLock, ToLock, Naming
<1>7. CASE SkipSlot(s)
  <2>1. UNCHANGED <<assigned, dlocked>> /\ pc' = "assign"
    BY <1>7 DEF SkipSlot, Visit, tables
  <2> QED BY <1>5, <1>6, <2>1 DEF StartInv
<1>8. CASE RestoreRefused(s)
  <2>1. UNCHANGED <<assigned, dlocked>>
        /\ pc' = (IF from[s].locked THEN "lock" ELSE "assign")
        /\ todo' = (IF from[s].locked THEN todo ELSE todo \ {s})
    BY <1>8 DEF RestoreRefused, ToLock, tables
  <2>2. pc' = "lock" => \A u \in todo' : First(u, todo') => from'[u].locked
    BY <1>3, <1>6, <2>1
  <2> QED BY <1>5, <1>6, <2>1, <2>2 DEF StartInv, First
<1>9. CASE RestoreSlot(s)
  <2>1. /\ d \in Devices
        /\ UNCHANGED dlocked
        /\ assigned' = [e \in Devices |-> IF e = d THEN s
                                          ELSE IF assigned[e] = s THEN NoSlot ELSE assigned[e]]
        /\ pc' = (IF from[s].locked THEN "lock" ELSE "assign")
        /\ todo' = (IF from[s].locked THEN todo ELSE todo \ {s})
    BY <1>4, <1>9 DEF RestoreSlot, ToLock, Assign, assign_device, seen
  <2>2. pc' = "lock" => \A u \in todo' : First(u, todo') => from'[u].locked
    BY <1>3, <1>6, <2>1
  <2>3. s \in Naming(d)
    BY DEF Naming
  <2>4. \A e \in Devices : assigned'[e] # NoSlot => assigned'[e] \in Naming(e)'
    BY <1>5, <1>6, <2>1, <2>3
  <2> QED BY <1>5, <1>6, <2>1, <2>2, <2>4 DEF StartInv, First
<1>10. CASE RestoreLock(s)
  <2>1. /\ UNCHANGED assigned
        /\ pc = "lock" /\ pc' = "assign"
    BY <1>10 DEF RestoreLock, Lock, set_device_locked, seen, tables
  <2>2. \A e \in Devices : dlocked'[e] => dlocked[e] \/ e = d
    BY <1>4, <1>10 DEF RestoreLock, Lock, set_device_locked, tables
  <2>3. s \in Naming(d) /\ from[s].locked
    BY <1>1, <2>1 DEF StartInv, Naming, First
  <2>4. \A e \in Devices : dlocked'[e] => \E u \in Naming(e)' : from'[u].locked
    BY <1>5, <1>6, <2>2, <2>3
  <2> QED BY <1>5, <1>6, <2>1, <2>4 DEF StartInv
<1> QED BY <1>7, <1>8, <1>9, <1>10

LEMMA StartInvStep == StartInv /\ RestoreInv /\ TablesInv /\ [Next]_allVars => StartInv'
<1> SUFFICES ASSUME StartInv, RestoreInv, TablesInv, [Next]_allVars PROVE StartInv'
  OBVIOUS
<1>1. ASSUME pc' = "idle" \/ starting' = FALSE PROVE StartInv'
  BY <1>1 DEF StartInv
<1>2. CASE Command
  <2>1. pc' = "idle" \/ starting' = FALSE
    BY <1>2 DEF Command, Idle, loop, AssignDevice, UnassignSlot, LockDevice, UnlockDevice,
       SaveProfile, SetBinding, LoadProfile, CreateProfile, DeleteActive, DeleteOther,
       StartBindingCapture, CancelBindingCapture, Restore
  <2> QED BY <1>1, <2>1
<1>3. CASE \/ RestoreDone \/ CaptureCancelled \/ KillSwitch \/ Rescan
           \/ \E s \in Slots, k \in Keys : CaptureKey(s, k)
           \/ \E d \in Flaky : OpenFailed(d)
  <2>1. pc' = "idle"
    BY <1>3 DEF RestoreDone, EndLoop, CaptureCancelled, KillSwitch, Rescan, CaptureKey,
       OpenFailed, Idle, loop, profileVars
  <2> QED BY <1>1, <2>1
<1>4. ASSUME NEW plugged \in Plugged, Restart(plugged) \/ Crash(plugged) PROVE StartInv'
  <2>1. /\ pc' = "assign"
        /\ assigned' = [d \in Devices |-> NoSlot]
        /\ dlocked' = [d \in Devices |-> FALSE]
    BY <1>4 DEF Restart, Crash, Boot, Restore
  <2> QED BY <2>1 DEF StartInv
<1>5. ASSUME NEW s \in Slots,
             SkipSlot(s) \/ RestoreSlot(s) \/ RestoreRefused(s) \/ RestoreLock(s)
      PROVE  StartInv'
  <2>1. starting' = starting
    BY <1>5 DEF SkipSlot, RestoreSlot, RestoreRefused, RestoreLock, ToLock
  <2>2. CASE starting
    BY <1>5, <2>2, StartAdvances
  <2>3. CASE ~starting
    BY <2>1, <2>3 DEF StartInv
  <2> QED BY <2>2, <2>3
<1>6. CASE UNCHANGED allVars
  BY <1>6 DEF allVars, profileVars, loop, tables, StartInv, Naming, First
<1> QED BY <1>2, <1>3, <1>4, <1>5, <1>6 DEF Next

LEMMA LoopEnds == RestoreInv /\ StartInv /\ TablesInv => RestoredAsSaved
<1> SUFFICES ASSUME RestoreInv, StartInv, TablesInv, pc = "assign", todo = {}
             PROVE  RestoredAsSaved
  BY DEF RestoredAsSaved
<1>1. ASSUME NEW d \in known, NEW s \in Naming(d)
      PROVE  /\ connected[d] /\ (\A t \in Naming(d) : t <= s) => assigned[d] = s
             /\ from[s].locked /\ d \in CanGrab => dlocked[d]
  <2>1. s \in Slots /\ from[s].device = d /\ Reached(s) /\ LockSet(s)
    BY <1>1 DEF RestoreInv, Naming
  <2>2. \A t \in Slots : t > s /\ from[t].device = d => t \in Naming(d) /\ ~(t <= s)
    BY <2>1, ProfilesAssumption DEF Naming
  <2> QED BY <2>1, <2>2 DEF Reached, LockSet
<1>2. starting => \A d \in Devices : /\ assigned[d] # NoSlot => assigned[d] \in Naming(d)
                                     /\ dlocked[d] => \E s \in Naming(d) : from[s].locked
  BY DEF StartInv
<1> QED BY <1>1, <1>2 DEF RestoredAsSaved

(* A restore, which ignores every failure on the way, ends with each        *)
(* keyboard it finds in the last slot that names it and with the locks the  *)
(* profile asks for; the one at the start of the daemon, with no others.    *)
THEOREM RestoreRestores == Spec => []RestoredAsSaved
<1>1. Init => RestoreInv
  BY DEF Init, RestoreInv
<1>2. Init => StartInv
  BY DEF Init, StartInv
<1> QED BY <1>1, <1>2, LoopEnds, RestoreInvStep, StartInvStep, ProfilesKeepTables, PTL DEF Spec
=============================================================================
