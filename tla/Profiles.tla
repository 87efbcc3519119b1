------------------------------ MODULE Profiles ------------------------------
(***************************************************************************)
(* Profiles and their persistence: which keyboard a slot of the active     *)
(* profile names, the bindings the slots run with, the capture of a        *)
(* binding, and what a restart makes of the saved profiles                 *)
(* (crates/daemon/src/runtime.rs, DaemonState; crates/core/src/profile.rs, *)
(* AppConfig).                                                             *)
(*                                                                         *)
(* restore_profile_assignments, which loops over the slots of a profile,   *)
(* takes one step per assignment and per lock; every other operation waits *)
(* for pc = "idle", which is the daemon's mutex, but a crash does not.     *)
(* Saving is one step here and works or fails as a whole.                  *)
(***************************************************************************)
EXTENDS DeviceTables

CONSTANTS
    Names,      \* profile names, ordered as in BTreeMap<String, Profile>
    Keys,       \* key codes
    Actions,    \* controller actions
    NoAction,   \* "this key is not bound"
    NoCapture,  \* capture_in_progress is None
    Homes,      \* the <<keyboard, slot>> pairs that are ever assigned
    Edited,     \* the slots whose bindings are ever edited
    Flaky,      \* the keyboards that are ever unplugged
    Stored,     \* the configurations the store may hold at first
    SaveFails   \* whether saving may fail

\* SlotProfile. A list of bindings is what looking a key up in it returns.
Bindings == [Keys -> Actions \cup {NoAction}]
SlotProfile == [device : Devices \cup {NoDevice}, locked : BOOLEAN, keys : Bindings]
Profile == [Slots -> SlotProfile]

\* AppConfig. Loading and every command keep the active profile in the map.
Config == {c \in [active : Names, profiles : UNION {[known_names -> Profile] :
                                                    known_names \in SUBSET Names}] :
             c.active \in DOMAIN c.profiles}

ASSUME ProfilesAssumption ==
    /\ Names \subseteq Nat /\ Slots \subseteq Nat
    /\ NoAction \notin Actions
    /\ Homes \subseteq Devices \X Slots
    /\ Edited \subseteq Slots
    /\ Flaky \subseteq Devices
    /\ Stored \subseteq Config
    /\ SaveFails \in BOOLEAN

VARIABLES
    config,     \* the daemon's AppConfig
    bound,      \* bound[s]: slots[s].status.bindings
    capture,    \* capture_in_progress; its 30 s may be over at any time
    disk,       \* what the store would load
    saved,      \* the last save worked
    pc,         \* "idle", or the restore loop: "assign" or "lock"
    todo,       \* slots the loop has yet to visit
    from,       \* the profile the loop restores, cloned before it; <<>> outside
    starting,   \* the loop runs at the start of the daemon
    released    \* the kill switch was used, and nothing asked for a lock since

loop == <<pc, todo, from, starting>>
profileVars == <<config, bound, capture, disk, saved, loop, released>>
allVars == <<tables, profileVars>>

Active(c) == c.profiles[c.active]
Unbound == [s \in Slots |-> [k \in Keys |-> NoAction]]

\* The bindings of the active profile, in every slot: sync_profile_bindings.
Synced(c) == [s \in Slots |-> Active(c)[s].keys]

\* What discovery may find.
Plugged == {plugged \in SUBSET Devices : Devices \ Flaky \subseteq plugged}

First(s, set) == s \in set /\ \A t \in set : s <= t

\* The configuration becomes c and is saved.
Save(c) ==
    /\ config' = c
    /\ \E ok \in IF SaveFails THEN BOOLEAN ELSE {TRUE} :
        /\ disk' = IF ok THEN c ELSE disk
        /\ saved' = ok

\* The loop over the slots of profile p.
Restore(p, atStart) ==
    /\ pc' = "assign"
    /\ todo' = Slots
    /\ from' = p
    /\ starting' = atStart

\* What is stored is loaded, the keyboards are scanned, and the assignments of
\* the active profile restored.
Boot(c, plugged) ==
    /\ known' = plugged
    /\ connected' = [d \in Devices |-> d \in plugged]
    /\ assigned' = [d \in Devices |-> NoSlot]
    /\ dlocked' = [d \in Devices |-> FALSE]
    /\ sdevice' = [s \in Slots |-> NoDevice]
    /\ slocked' = [s \in Slots |-> FALSE]
    /\ config' = c
    /\ bound' = Unbound
    /\ capture' = NoCapture
    /\ saved' = TRUE
    /\ Restore(Active(c), TRUE)

Init ==
    /\ \E plugged \in Plugged :
        /\ known = plugged
        /\ connected = [d \in Devices |-> d \in plugged]
    /\ assigned = [d \in Devices |-> NoSlot]
    /\ dlocked = [d \in Devices |-> FALSE]
    /\ sdevice = [s \in Slots |-> NoDevice]
    /\ slocked = [s \in Slots |-> FALSE]
    /\ config \in Stored
    /\ disk = config
    /\ saved = TRUE
    /\ bound = Unbound
    /\ capture = NoCapture
    /\ pc = "assign"
    /\ todo = Slots
    /\ from = Active(config)
    /\ starting = TRUE
    /\ released = FALSE

-----------------------------------------------------------------------------
(* What the methods of the tables do to the active profile.                *)

\* The slot's entry names the keyboard and takes over its lock.
Remember(c, d, s) ==
    [c EXCEPT !.profiles[c.active][s].device = d,
              !.profiles[c.active][s].locked = dlocked[d]]

\* assign_device: the entry of the slot the keyboard leaves is not touched.
Assign(d, s) ==
    /\ assign_device(d, s)
    /\ bound' = [bound EXCEPT ![s] = Active(config)[s].keys]
    /\ Save(Remember(config, d, s))

Locked(c, d, lock) ==
    [c EXCEPT !.profiles[c.active] =
        [s \in Slots |-> IF s = assigned[d] THEN [@[s] EXCEPT !.locked = lock] ELSE @[s]]]

\* set_device_locked
Lock(d, lock) ==
    /\ set_device_locked(d, lock)
    /\ Save(Locked(config, d, lock))

Forget(c, group) ==
    [c EXCEPT !.profiles[c.active] =
        [s \in Slots |-> IF s \in group
                         THEN [@[s] EXCEPT !.device = NoDevice, !.locked = FALSE] ELSE @[s]]]

-----------------------------------------------------------------------------
(* restore_profile_assignments.                                            *)

Visit(s) ==
    /\ pc = "assign"
    /\ First(s, todo)

\* Slip: the loop goes over the profile itself, whose locks the assignments
\* overwrite.
ToLockUncloned(s) ==
    LET lock == Active(config')[s].locked IN
    /\ pc' = IF lock THEN "lock" ELSE "assign"
    /\ todo' = IF lock THEN todo ELSE todo \ {s}
    /\ UNCHANGED <<from, starting>>

\* The slot is done, or its lock is next, whatever became of the assignment.
ToLock(s) ==
    /\ pc' = IF from[s].locked THEN "lock" ELSE "assign"
    /\ todo' = IF from[s].locked THEN todo ELSE todo \ {s}
    /\ UNCHANGED <<from, starting>>

SkipSlot(s) ==
    /\ Visit(s)
    /\ from[s].device \notin known
    /\ todo' = todo \ {s}
    /\ UNCHANGED <<tables, config, bound, capture, disk, saved, pc, from, starting, released>>

RestoreSlot(s) ==
    /\ Visit(s)
    /\ from[s].device \in known
    /\ Assign(from[s].device, s)
    /\ ToLock(s)
    /\ UNCHANGED <<capture, released>>

\* assign_device refuses a keyboard that is gone, and the error is ignored.
RestoreRefused(s) ==
    /\ Visit(s)
    /\ from[s].device \in known
    /\ ~connected[from[s].device]
    /\ UNCHANGED <<tables, config, bound, capture, disk, saved, released>>
    /\ ToLock(s)

\* The keyboard is locked in whatever slot it is.
RestoreLock(s) ==
    /\ pc = "lock"
    /\ First(s, todo)
    /\ IF from[s].device \in CanGrab
       THEN Lock(from[s].device, TRUE)
       ELSE UNCHANGED <<tables, config, disk, saved>>
    /\ pc' = "assign"
    /\ todo' = todo \ {s}
    /\ UNCHANGED <<bound, capture, from, starting, released>>

EndLoop ==
    /\ pc' = "idle"
    /\ starting' = FALSE
    /\ from' = <<>>
    /\ UNCHANGED todo

\* Slip: the slots keep the bindings of the profile that was active.
RestoreDoneUnsynced ==
    /\ pc = "assign" /\ todo = {}
    /\ IF starting THEN UNCHANGED <<config, disk, saved>> ELSE Save(config)
    /\ EndLoop
    /\ UNCHANGED <<tables, bound, capture, released>>

\* The commands that restore a profile sync the bindings and save; the start
\* of the daemon does neither.
RestoreDone ==
    /\ pc = "assign" /\ todo = {}
    /\ IF starting
       THEN UNCHANGED <<config, bound, disk, saved>>
       ELSE Save(config) /\ bound' = Synced(config)
    /\ EndLoop
    /\ UNCHANGED <<tables, capture, released>>

-----------------------------------------------------------------------------
(* The commands of handle_command, one at a time.                          *)

Idle == pc = "idle"

AssignDevice(d, s) ==
    /\ Idle
    /\ <<d, s>> \in Homes
    /\ Assign(d, s)
    /\ UNCHANGED <<capture, loop, released>>

UnassignSlot(s) ==
    /\ Idle
    /\ unassign_slot(s)
    /\ Save(Forget(config, {s}))
    /\ UNCHANGED <<bound, capture, loop, released>>

LockDevice(d) ==
    /\ Idle
    /\ Lock(d, TRUE)
    /\ released' = FALSE
    /\ UNCHANGED <<bound, capture, loop>>

UnlockDevice(d) ==
    /\ Idle
    /\ Lock(d, FALSE)
    /\ UNCHANGED <<bound, capture, loop, released>>

SaveProfile ==
    /\ Idle
    /\ Save(config)
    /\ bound' = Synced(config)
    /\ UNCHANGED <<tables, capture, loop, released>>

\* The binding of a key is replaced, or added.
SetBinding(s, k, a) ==
    /\ Idle
    /\ Save([config EXCEPT !.profiles[config.active][s].keys[k] = a])
    /\ bound' = Synced(config')
    /\ UNCHANGED <<tables, capture, loop, released>>

\* Slots for which the profile names no keyboard keep theirs.
LoadProfile(n) ==
    /\ Idle
    /\ n \in DOMAIN config.profiles
    /\ config' = [config EXCEPT !.active = n]
    /\ Restore(config.profiles[n], FALSE)
    /\ released' = FALSE
    /\ UNCHANGED <<tables, bound, capture, disk, saved>>

\* The new profile is a copy of the active one.
CreateProfile(n) ==
    /\ Idle
    /\ n \in Names \ DOMAIN config.profiles
    /\ config' = [active |-> n,
                  profiles |-> [m \in DOMAIN config.profiles \cup {n} |->
                                IF m = n THEN Active(config) ELSE config.profiles[m]]]
    /\ Restore(Active(config), FALSE)
    /\ UNCHANGED <<tables, bound, capture, disk, saved, released>>

Without(n) == [m \in DOMAIN config.profiles \ {n} |-> config.profiles[m]]

\* When the active profile is deleted the first one that is left becomes active.
DeleteActive(n) ==
    /\ Idle
    /\ n = config.active
    /\ \E m \in Names :
        /\ First(m, DOMAIN Without(n))
        /\ config' = [active |-> m, profiles |-> Without(n)]
        /\ Restore(config.profiles[m], FALSE)
    /\ released' = FALSE
    /\ UNCHANGED <<tables, bound, capture, disk, saved>>

DeleteOther(n) ==
    /\ Idle
    /\ n \in DOMAIN config.profiles \ {config.active}
    /\ Save([config EXCEPT !.profiles = Without(n)])
    /\ bound' = Synced(config)
    /\ UNCHANGED <<tables, capture, loop, released>>

\* A capture in progress is overwritten.
StartBindingCapture(s, a) ==
    /\ Idle
    /\ capture' = [slot |-> s, action |-> a]
    /\ UNCHANGED <<tables, config, bound, disk, saved, loop, released>>

CancelBindingCapture ==
    /\ Idle
    /\ capture' = NoCapture
    /\ UNCHANGED <<tables, config, bound, disk, saved, loop, released>>

-----------------------------------------------------------------------------
(* What the readers and the watcher do, each with the mutex.               *)

\* handle_key_event, in any slot, after the 30 s.
CaptureCancelled ==
    /\ Idle
    /\ capture # NoCapture
    /\ capture' = NoCapture
    /\ UNCHANGED <<tables, config, bound, disk, saved, loop, released>>

\* The captured action loses its other keys, and the key its other action.
Captured(b, k, a) ==
    [j \in Keys |-> IF j = k THEN a ELSE IF b[j] = a THEN NoAction ELSE b[j]]

\* Slip: what was captured is not saved.
CaptureKeyUnsaved(s, k) ==
    /\ Idle
    /\ capture # NoCapture /\ capture.slot = s
    /\ config' = [config EXCEPT !.profiles[config.active][s].keys =
                    Captured(@, k, capture.action)]
    /\ bound' = Synced(config')
    /\ capture' = NoCapture
    /\ UNCHANGED <<tables, disk, saved, loop, released>>

\* handle_key_event: key k goes down on a keyboard whose reader feeds slot s.
\* (A reader may still feed a slot its keyboard has just left.)
CaptureKey(s, k) ==
    /\ Idle
    /\ capture # NoCapture /\ capture.slot = s
    /\ Save([config EXCEPT !.profiles[config.active][s].keys = Captured(@, k, capture.action)])
    /\ bound' = Synced(config')
    /\ capture' = NoCapture
    /\ UNCHANGED <<tables, loop, released>>

\* Slip: the kill switch does not save.
KillSwitchUnsaved ==
    /\ Idle
    /\ release_all_locks
    /\ config' = Forget(config, Slots)
    /\ released' = TRUE
    /\ UNCHANGED <<bound, capture, disk, saved, loop>>

\* The active profile names no keyboard any more, locked or not.
KillSwitch ==
    /\ Idle
    /\ release_all_locks
    /\ Save(Forget(config, Slots))
    /\ released' = TRUE
    /\ UNCHANGED <<bound, capture, loop>>

Rescan ==
    /\ Idle
    /\ \E plugged \in Plugged : rescan_devices(plugged)
    /\ UNCHANGED profileVars

OpenFailed(d) ==
    /\ Idle
    /\ mark_disconnected(d)
    /\ UNCHANGED profileVars

-----------------------------------------------------------------------------
\* SIGTERM and Shutdown save once more before the daemon ends.
Restart(plugged) ==
    /\ Idle
    /\ \E ok \in IF SaveFails THEN BOOLEAN ELSE {TRUE} :
        /\ disk' = IF ok THEN config ELSE disk
        /\ released' = (released /\ (ok \/ saved))
    /\ Boot(disk', plugged)

\* A crash at any step keeps what was saved.
Crash(plugged) ==
    /\ disk' = disk
    /\ released' = (released /\ saved)
    /\ Boot(disk, plugged)

Command ==
    \/ \E d \in Devices, s \in Slots : AssignDevice(d, s)
    \/ \E s \in Slots : UnassignSlot(s)
    \/ \E d \in Devices : LockDevice(d) \/ UnlockDevice(d)
    \/ SaveProfile
    \/ \E s \in Edited, k \in Keys, a \in Actions : SetBinding(s, k, a)
    \/ \E n \in Names : LoadProfile(n) \/ CreateProfile(n) \/ DeleteActive(n) \/ DeleteOther(n)
    \/ \E s \in Edited, a \in Actions : StartBindingCapture(s, a)
    \/ CancelBindingCapture

Next ==
    \/ Command
    \/ \E s \in Slots : SkipSlot(s) \/ RestoreSlot(s) \/ RestoreRefused(s) \/ RestoreLock(s)
    \/ RestoreDone
    \/ CaptureCancelled
    \/ \E s \in Slots, k \in Keys : CaptureKey(s, k)
    \/ KillSwitch
    \/ Rescan
    \/ \E d \in Flaky : OpenFailed(d)
    \/ \E plugged \in Plugged : Restart(plugged) \/ Crash(plugged)

Spec == Init /\ [][Next]_allVars

-----------------------------------------------------------------------------
(* The bindings a slot with a keyboard runs with, by which its held keys    *)
(* are rebound, are those the active profile looks key presses up in:       *)
(* whatever was loaded, created, deleted, captured or restored.             *)
BindingsFollowProfile ==
    Idle => \A d \in Devices, s \in Slots :
                assigned[d] = s => bound[s] = Active(config)[s].keys

\* The slots of the profile that is restored which name the keyboard. There may
\* be several: a keyboard that is moved stays named where it was.
Naming(d) == {s \in Slots : from[s].device = d}

(* A restore ends with each keyboard it finds in the last slot whose entry  *)
(* names it, and with each locked that is to be and can be; the one at the  *)
(* start, with no other keyboard in a slot or locked. (The last such slot   *)
(* may be one the keyboard has left: see RestartKeepsSlots in MCRestart.)   *)
RestoredAsSaved ==
    pc = "assign" /\ todo = {} =>
        /\ \A d \in known : \A s \in Naming(d) :
            /\ connected[d] /\ (\A t \in Naming(d) : t <= s) => assigned[d] = s
            /\ from[s].locked /\ d \in CanGrab => dlocked[d]
        /\ starting => \A d \in Devices :
            /\ assigned[d] # NoSlot => assigned[d] \in Naming(d)
            /\ dlocked[d] => \E s \in Naming(d) : from[s].locked

(* After the kill switch no keyboard is locked, restarts and crashes        *)
(* included, until a lock is asked for or another profile is loaded; or     *)
(* until the daemon ends while the last save has failed, by a crash or      *)
(* with one more save that fails.                                           *)
ReleasedStaysReleased == released => \A d \in Devices : ~dlocked[d]

(* Every command that changes the configuration saves it: while saving      *)
(* works, a crash between two commands loses nothing.                       *)
NothingIsLost == Idle /\ saved => disk = config
=============================================================================
