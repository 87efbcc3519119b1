------------------------------- MODULE Daemon -------------------------------
(***************************************************************************)
(* The threads of kbdsplitd (crates/daemon/src/runtime.rs) around the      *)
(* tables of DeviceTables: the main thread, which restores the profile and *)
(* then serves one client command at a time; the hotplug watcher, which    *)
(* rescans every second and restarts readers; and a reader per assigned    *)
(* keyboard, which grabs it, turns its events into controller states and   *)
(* looks at the tables again when no event is left.                        *)
(*                                                                         *)
(* A stretch of code under the daemon's mutex is one action, together with *)
(* the thread-local and kernel steps next to it.  A virtual controller is  *)
(* TAKEN OUT of `outputs` under the mutex, written without it, and put     *)
(* back: between the two it is in the hands of a thread.                   *)
(*                                                                         *)
(* What a slot makes of its keys (RuntimeSlot) is reduced here to the set  *)
(* of held keys, as PressedKeys does; every key is bound.                  *)
(***************************************************************************)
EXTENDS DeviceTables, Sequences

CONSTANTS
    Keys,       \* key codes
    NoPad,      \* a slot without a virtual controller
    Homes,      \* the <<keyboard, slot>> pairs that are ever assigned
    User,       \* what the user does: a subset of Deeds
    Faults,     \* what may fail: a subset of Calls
    MaxQueue    \* events the kernel buffers for an open keyboard

Deeds == {"assign", "unassign", "lock", "inject", "keys", "kill", "unplug"}
Calls == {"create", "emit", "grab", "open", "save"}

ASSUME DaemonAssumption ==
    /\ Homes \subseteq Devices \X Slots
    /\ User \subseteq Deeds
    /\ Faults \subseteq Calls
    /\ MaxQueue \in Nat \ {0, 1}
    /\ \A keys \in SUBSET Keys : NoPad # keys

VARIABLES
    plugged,    \* the keyboards that are plugged in
    down,       \* down[d]: the keys that are physically down
    queue,      \* queue[d]: events the reader of d has yet to read
    held,       \* held[s]: slots[s].held
    pads,       \* outputs[s]: the held keys it was last written with, or NoPad
    ready,      \* slots[s].status.controller_ready
    reader,     \* reader[d]: the thread that reads d
    main,       \* the main thread
    respawn     \* readers the watcher has found missing

kernel == <<plugged, down, queue>>
controllers == <<held, pads, ready>>
vars == <<tables, kernel, controllers, reader, main, respawn>>

Gone == [pc |-> "none", slot |-> NoSlot, live |-> FALSE, grabbed |-> FALSE,
         pad |-> NoPad, current |-> {}]
Serving == [pc |-> "serve", device |-> NoDevice, slot |-> NoSlot, current |-> {}]

Init ==
    /\ TablesInit
    /\ plugged \in SUBSET Devices
    /\ down = [d \in Devices |-> {}]
    /\ queue = [d \in Devices |-> <<>>]
    /\ held = [s \in Slots |-> {}]
    /\ pads = [s \in Slots |-> NoPad]
    /\ ready = [s \in Slots |-> FALSE]
    /\ reader = [d \in Devices |-> Gone]
    /\ main = [Serving EXCEPT !.pc = "scan"]
    /\ respawn = {}

\* How a call may end.
Outcome(call) == IF call \in Faults THEN BOOLEAN ELSE {TRUE}

\* active_readers: a keyboard leaves the set only after its thread has
\* returned.
active_readers == {d \in Devices : reader[d].pc # "none"}

\* A thread that locks the mutex it already holds never lets it go.
MutexFree == \A d \in Devices : reader[d].pc # "wedged"

Spawn(d) == reader' = [reader EXCEPT ![d] = [Gone EXCEPT !.pc = "spawned"]]

\* Insert into active_readers, and spawn the thread if it was not there.
ensure_reader(d) == IF d \in active_readers THEN UNCHANGED reader ELSE Spawn(d)

-----------------------------------------------------------------------------
(* The main thread.                                                        *)

\* An occupied output is kept; a vacant one is created, which may fail. The
\* slot the keyboard leaves is cleared, its output is not.
Assign(d, s) ==
    /\ <<d, s>> \in Homes
    /\ assign_device(d, s)
    /\ \E made \in Outcome("create") :
        /\ pads' = [pads EXCEPT ![s] = IF @ = NoPad /\ made THEN {} ELSE @]
        /\ ready' = [t \in Slots |-> IF t = s THEN pads[s] # NoPad \/ made
                                     ELSE sdevice[t] # d /\ ready[t]]
    /\ held' = [t \in Slots |-> IF sdevice[t] = d THEN {} ELSE held[t]]

Scan ==
    /\ main.pc = "scan"
    /\ rescan_devices(plugged)
    /\ main' = [main EXCEPT !.pc = "restore"]
    /\ UNCHANGED <<kernel, controllers, reader, respawn>>

RestoreAssignment(d, s) ==
    /\ main.pc = "restore"
    /\ Assign(d, s)
    /\ UNCHANGED <<kernel, reader, main, respawn>>

RestoreLock(d) ==
    /\ main.pc = "restore" /\ "lock" \in User
    /\ set_device_locked(d, TRUE)
    /\ UNCHANGED <<kernel, controllers, reader, main, respawn>>

StartReaders ==
    /\ main.pc = "restore"
    /\ reader' = [d \in Devices |-> IF assigned[d] # NoSlot
                                    THEN [Gone EXCEPT !.pc = "spawned"] ELSE reader[d]]
    /\ main' = Serving
    /\ UNCHANGED <<tables, kernel, controllers, respawn>>

\* Commands take the mutex.
Serve(deed) == main.pc = "serve" /\ deed \in User /\ MutexFree

\* When the profile cannot be saved the command fails after the tables have
\* changed, and no reader is ensured.
ThenEnsure(d) ==
    \E saved \in Outcome("save") :
        main' = IF saved THEN [Serving EXCEPT !.pc = "ensure", !.device = d] ELSE main

AssignDevice(d, s) ==
    /\ Serve("assign")
    /\ Assign(d, s)
    /\ ThenEnsure(d)
    /\ UNCHANGED <<kernel, reader, respawn>>

EnsureReader ==
    /\ main.pc = "ensure"
    /\ ensure_reader(main.device)
    /\ main' = Serving
    /\ UNCHANGED <<tables, kernel, controllers, respawn>>

LockDevice(d) ==
    /\ Serve("lock")
    /\ set_device_locked(d, TRUE)
    /\ IF assigned[d] # NoSlot THEN ThenEnsure(d) ELSE UNCHANGED main
    /\ UNCHANGED <<kernel, controllers, reader, respawn>>

UnlockDevice(d) ==
    /\ Serve("lock")
    /\ set_device_locked(d, FALSE)
    /\ UNCHANGED <<kernel, controllers, reader, main, respawn>>

UnassignSlot(s) ==
    /\ Serve("unassign")
    /\ unassign_slot(s)
    /\ pads' = [pads EXCEPT ![s] = NoPad]
    /\ ready' = [ready EXCEPT ![s] = FALSE]
    /\ held' = [held EXCEPT ![s] = {}]
    /\ UNCHANGED <<kernel, reader, main, respawn>>

\* The action itself is no held key and changes nothing here; what counts is
\* that the output is taken out, and dropped when the write fails.
InjectTestAction(s) ==
    /\ Serve("inject")
    /\ pads[s] # NoPad
    /\ pads' = [pads EXCEPT ![s] = NoPad]
    /\ main' = [Serving EXCEPT !.pc = "inject", !.slot = s, !.current = held[s]]
    /\ UNCHANGED <<tables, kernel, held, ready, reader, respawn>>

\* Slip: the output is not put back when the action changed nothing.
InjectDoneIfChanged ==
    /\ main.pc = "inject" /\ MutexFree
    /\ pads' = IF main.current # {} THEN [pads EXCEPT ![main.slot] = main.current] ELSE pads
    /\ main' = Serving
    /\ UNCHANGED <<tables, kernel, held, ready, reader, respawn>>

InjectDone ==
    /\ main.pc = "inject" /\ MutexFree
    /\ \E ok \in Outcome("emit") :
        pads' = IF ok THEN [pads EXCEPT ![main.slot] = main.current] ELSE pads
    /\ main' = Serving
    /\ UNCHANGED <<tables, kernel, held, ready, reader, respawn>>

-----------------------------------------------------------------------------
(* The hotplug watcher, from its first second on.                          *)

WatcherScan ==
    /\ main.pc \notin {"scan", "restore"} /\ MutexFree
    /\ respawn = {}
    /\ rescan_devices(plugged)
    /\ respawn' = {d \in plugged : assigned[d] # NoSlot} \ active_readers
    /\ UNCHANGED <<kernel, controllers, reader, main>>

\* Slip: the list made under the mutex is trusted after it was released.
WatcherSpawnUnchecked(d) ==
    /\ d \in respawn
    /\ Spawn(d)
    /\ respawn' = respawn \ {d}
    /\ UNCHANGED <<tables, kernel, controllers, main>>

WatcherSpawn(d) ==
    /\ d \in respawn
    /\ ensure_reader(d)
    /\ respawn' = respawn \ {d}
    /\ UNCHANGED <<tables, kernel, controllers, main>>

-----------------------------------------------------------------------------
(* The reader of keyboard d, reader_loop.                                  *)

ToRead(d) == reader' = [reader EXCEPT ![d] = [@ EXCEPT !.pc = "read", !.pad = NoPad, !.current = {}]]

\* The loop returns: the node is closed, which also lets the grab go.
Return(d) ==
    /\ reader' = [reader EXCEPT ![d] = [Gone EXCEPT !.pc = "returned"]]
    /\ queue' = [queue EXCEPT ![d] = <<>>]

Open(d) ==
    /\ reader[d].pc = "spawned" /\ MutexFree
    /\ d \in plugged
    /\ reader' = [reader EXCEPT ![d] = [@ EXCEPT !.pc = "opened", !.live = TRUE]]
    /\ UNCHANGED <<tables, kernel, controllers, main, respawn>>

\* Slip: the keyboard loses its assignment, and the slot is not told.
OpenFailedUnassigns(d) ==
    /\ reader[d].pc = "spawned" /\ MutexFree
    /\ d \notin plugged \/ "open" \in Faults
    /\ connected' = [connected EXCEPT ![d] = FALSE]
    /\ assigned' = [assigned EXCEPT ![d] = NoSlot]
    /\ Return(d)
    /\ UNCHANGED <<known, dlocked, sdevice, slocked, plugged, down, controllers, main, respawn>>

OpenFailed(d) ==
    /\ reader[d].pc = "spawned" /\ MutexFree
    /\ d \notin plugged \/ "open" \in Faults
    /\ mark_disconnected(d)
    /\ Return(d)
    /\ UNCHANGED <<plugged, down, controllers, main, respawn>>

\* Slip: a keyboard that was unassigned meanwhile is read all the same.
ReadSlotAnyway(d) ==
    /\ reader[d].pc = "opened" /\ MutexFree
    /\ reader' = [reader EXCEPT ![d] = [@ EXCEPT !.pc = "grab", !.slot = assigned[d]]]
    /\ UNCHANGED <<tables, kernel, controllers, main, respawn>>

ReadSlot(d) ==
    /\ reader[d].pc = "opened" /\ MutexFree
    /\ IF assigned[d] = NoSlot
       THEN Return(d)
       ELSE /\ reader' = [reader EXCEPT ![d] = [@ EXCEPT !.pc = "grab", !.slot = assigned[d]]]
            /\ UNCHANGED queue
    /\ UNCHANGED <<tables, plugged, down, controllers, main, respawn>>

\* Releasing the grab of a plugged-in keyboard does not fail.
GrabOutcome(d) ==
    IF ~reader[d].live THEN {FALSE} ELSE IF dlocked[d] THEN Outcome("grab") ELSE {TRUE}

\* The guard that reads device.locked lives to the end of the `if let`, whose
\* body locks again.
InitialGrab(d) ==
    /\ reader[d].pc = "grab" /\ MutexFree
    /\ \E ok \in GrabOutcome(d) :
        reader' = [reader EXCEPT ![d] =
                    IF ok \/ ~dlocked[d] THEN [@ EXCEPT !.pc = "read", !.grabbed = dlocked[d]]
                    ELSE [@ EXCEPT !.pc = "wedged"]]
    /\ UNCHANGED <<tables, kernel, controllers, main, respawn>>

\* The reader has an event to read and the mutex to handle it.
Reads(d, kinds) ==
    /\ reader[d].pc = "read" /\ MutexFree
    /\ queue[d] # <<>> /\ Head(queue[d]).kind \in kinds

\* handle_key_event, phase 1. Without an output the event is lost.
HandleKeyEvent(d) ==
    /\ Reads(d, {"press", "release"})
    /\ LET s == reader[d].slot
           key == {Head(queue[d]).key}
           current == IF Head(queue[d]).kind = "press" THEN held[s] \cup key ELSE held[s] \ key
       IN IF pads[s] = NoPad
          THEN UNCHANGED <<held, pads, reader>>
          ELSE /\ held' = [held EXCEPT ![s] = current]
               /\ pads' = [pads EXCEPT ![s] = NoPad]
               /\ reader' = [reader EXCEPT ![d] =
                              [@ EXCEPT !.pc = "emit", !.pad = pads[s], !.current = current]]
    /\ queue' = [queue EXCEPT ![d] = Tail(@)]
    /\ UNCHANGED <<tables, plugged, down, ready, main, respawn>>

\* Slip: an output that could be written is dropped.
EmittedDropsOutput(d) ==
    /\ reader[d].pc = "emit" /\ MutexFree
    /\ ToRead(d)
    /\ UNCHANGED <<tables, kernel, controllers, main, respawn>>

\* Phases 2 and 3: the output is written and put back, written or not.
Emitted(d) ==
    /\ reader[d].pc = "emit" /\ MutexFree
    /\ \E ok \in Outcome("emit") :
        pads' = [pads EXCEPT ![reader[d].slot] =
                    IF ok THEN reader[d].current ELSE reader[d].pad]
    /\ ToRead(d)
    /\ UNCHANGED <<tables, kernel, held, ready, main, respawn>>

\* Slip: the slot is reconciled but its controller is not written.
SynDroppedStaysSilent(d) ==
    /\ Reads(d, {"dropped"})
    /\ held' = [held EXCEPT ![reader[d].slot] = down[d]]
    /\ queue' = [queue EXCEPT ![d] = <<>>]
    /\ UNCHANGED <<tables, plugged, down, pads, reader, ready, main, respawn>>

\* handle_syn_dropped. Asking the kernel for the keys that are down discards
\* the key events it had buffered. The slot's keys are replaced even when
\* there is no output.
HandleSynDropped(d) ==
    /\ Reads(d, {"dropped"})
    /\ LET s == reader[d].slot
       IN /\ held' = [held EXCEPT ![s] = down[d]]
          /\ IF held[s] = down[d] \/ pads[s] = NoPad
             THEN UNCHANGED <<pads, reader>>
             ELSE /\ pads' = [pads EXCEPT ![s] = NoPad]
                  /\ reader' = [reader EXCEPT ![d] =
                                 [@ EXCEPT !.pc = "resync", !.pad = pads[s], !.current = down[d]]]
    /\ queue' = [queue EXCEPT ![d] = <<>>]
    /\ UNCHANGED <<tables, plugged, down, ready, main, respawn>>

\* As Emitted, but an output that could not be written is dropped.
Resynced(d) ==
    /\ reader[d].pc = "resync" /\ MutexFree
    /\ \E ok \in Outcome("emit") :
        pads' = [pads EXCEPT ![reader[d].slot] = IF ok THEN reader[d].current ELSE NoPad]
    /\ ToRead(d)
    /\ UNCHANGED <<tables, kernel, held, ready, main, respawn>>

\* Shift+Shift+Esc: the slots of the locked keyboards are emptied and this
\* reader returns.
KillSwitch(d) ==
    /\ Reads(d, {"kill"})
    /\ release_all_locks
    /\ pads' = [s \in Slots |-> IF s \in LockedSlots THEN NoPad ELSE pads[s]]
    /\ held' = [s \in Slots |-> IF s \in LockedSlots THEN {} ELSE held[s]]
    /\ ready' = [s \in Slots |-> s \notin LockedSlots /\ ready[s]]
    /\ Return(d)
    /\ UNCHANGED <<plugged, down, main, respawn>>

\* Slip: the grab of the start is kept whatever is locked later.
RefreshKeepsGrab(d) ==
    /\ reader[d].pc = "read" /\ MutexFree
    /\ queue[d] = <<>>
    /\ IF assigned[d] # reader[d].slot THEN Return(d) ELSE UNCHANGED <<reader, queue>>
    /\ UNCHANGED <<tables, plugged, down, controllers, main, respawn>>

\* Slip: a keyboard that lost its slot is given back only once it is unlocked.
RefreshAwaitsUnlock(d) ==
    /\ reader[d].pc = "read" /\ MutexFree
    /\ queue[d] = <<>>
    /\ IF assigned[d] # reader[d].slot /\ ~(assigned[d] = NoSlot /\ dlocked[d])
       THEN Return(d)
       ELSE /\ \E ok \in GrabOutcome(d) :
                reader' = [reader EXCEPT ![d].grabbed = IF ok THEN dlocked[d] ELSE @]
            /\ UNCHANGED queue
    /\ UNCHANGED <<tables, plugged, down, controllers, main, respawn>>

\* Slip: a reader whose keyboard moved goes on feeding its old slot.
RefreshIgnoresMove(d) ==
    /\ reader[d].pc = "read" /\ MutexFree
    /\ queue[d] = <<>>
    /\ IF assigned[d] = NoSlot
       THEN Return(d)
       ELSE /\ \E ok \in GrabOutcome(d) :
                reader' = [reader EXCEPT ![d].grabbed = IF ok THEN dlocked[d] ELSE @]
            /\ UNCHANGED queue
    /\ UNCHANGED <<tables, plugged, down, controllers, main, respawn>>

\* No event is left, or 100 ms passed without one: a keyboard that is
\* unassigned or moved ends the loop, and the grab follows the lock.
Refresh(d) ==
    /\ reader[d].pc = "read" /\ MutexFree
    /\ queue[d] = <<>>
    /\ IF assigned[d] # reader[d].slot
       THEN Return(d)
       ELSE /\ \E ok \in GrabOutcome(d) :
                reader' = [reader EXCEPT ![d].grabbed = IF ok THEN dlocked[d] ELSE @]
            /\ UNCHANGED queue
    /\ UNCHANGED <<tables, plugged, down, controllers, main, respawn>>

\* The thread ends: the keyboard leaves active_readers.
Returned(d) ==
    /\ reader[d].pc = "returned"
    /\ reader' = [reader EXCEPT ![d] = Gone]
    /\ UNCHANGED <<tables, kernel, controllers, main, respawn>>

-----------------------------------------------------------------------------
(* The keyboards and the kernel's event buffers.                           *)

\* A buffer that runs over keeps its newest event after a SYN_DROPPED.
Buffer(d, event) ==
    queue' = IF ~reader[d].live THEN queue
             ELSE [queue EXCEPT ![d] =
                    IF Len(@) < MaxQueue THEN Append(@, event)
                    ELSE <<[kind |-> "dropped"], event>>]

Press(d, k) ==
    /\ "keys" \in User /\ d \in plugged /\ k \notin down[d]
    /\ down' = [down EXCEPT ![d] = @ \cup {k}]
    /\ Buffer(d, [kind |-> "press", key |-> k])
    /\ UNCHANGED <<tables, plugged, controllers, reader, main, respawn>>

Release(d, k) ==
    /\ "keys" \in User /\ k \in down[d]
    /\ down' = [down EXCEPT ![d] = @ \ {k}]
    /\ Buffer(d, [kind |-> "release", key |-> k])
    /\ UNCHANGED <<tables, plugged, controllers, reader, main, respawn>>

PressKillSwitch(d) ==
    /\ "kill" \in User /\ reader[d].live
    /\ Buffer(d, [kind |-> "kill"])
    /\ UNCHANGED <<tables, plugged, down, controllers, reader, main, respawn>>

\* The open node is dead for good, whatever is plugged in later.
Unplug(d) ==
    /\ "unplug" \in User /\ d \in plugged
    /\ plugged' = plugged \ {d}
    /\ down' = [down EXCEPT ![d] = {}]
    /\ queue' = [queue EXCEPT ![d] = <<>>]
    /\ reader' = [reader EXCEPT ![d].live = FALSE]
    /\ UNCHANGED <<tables, controllers, main, respawn>>

Plug(d) ==
    /\ "unplug" \in User /\ d \notin plugged
    /\ plugged' = plugged \cup {d}
    /\ UNCHANGED <<tables, down, queue, controllers, reader, main, respawn>>

-----------------------------------------------------------------------------
MainContinues ==
    \/ Scan
    \/ StartReaders
    \/ EnsureReader
    \/ InjectDone

Main ==
    \/ MainContinues
    \/ \E d \in Devices, s \in Slots : RestoreAssignment(d, s) \/ AssignDevice(d, s)
    \/ \E d \in Devices : RestoreLock(d) \/ LockDevice(d) \/ UnlockDevice(d)
    \/ \E s \in Slots : UnassignSlot(s) \/ InjectTestAction(s)

Watcher == WatcherScan \/ \E d \in Devices : WatcherSpawn(d)

Reader(d) ==
    \/ Open(d)
    \/ OpenFailed(d)
    \/ ReadSlot(d)
    \/ InitialGrab(d)
    \/ HandleKeyEvent(d)
    \/ Emitted(d)
    \/ HandleSynDropped(d)
    \/ Resynced(d)
    \/ KillSwitch(d)
    \/ Refresh(d)
    \/ Returned(d)

Keyboard(d) ==
    \/ \E k \in Keys : Press(d, k) \/ Release(d, k)
    \/ PressKillSwitch(d)
    \/ Unplug(d)
    \/ Plug(d)

Next == Main \/ Watcher \/ \E d \in Devices : Reader(d) \/ Keyboard(d)

Spec == Init /\ [][Next]_vars

\* The threads are scheduled, and a rescan comes every second. Nothing is
\* asked of the user.
Fairness ==
    /\ WF_vars(MainContinues)
    /\ WF_vars(WatcherScan)
    /\ \A d \in Devices : WF_vars(WatcherSpawn(d)) /\ WF_vars(Reader(d))

FairSpec == Spec /\ Fairness

-----------------------------------------------------------------------------
Events == [kind : {"press", "release"}, key : Keys]
          \cup {[kind |-> "kill"], [kind |-> "dropped"]}

ReaderState ==
    [pc : {"none", "spawned", "opened", "grab", "wedged", "read", "emit", "resync",
           "returned"},
     slot : {NoSlot} \cup Slots, live : BOOLEAN, grabbed : BOOLEAN,
     pad : {NoPad} \cup SUBSET Keys, current : SUBSET Keys]

MainState ==
    [pc : {"scan", "restore", "serve", "ensure", "inject"},
     device : {NoDevice} \cup Devices, slot : {NoSlot} \cup Slots,
     current : SUBSET Keys]

\* A thread without a slot is at the start or at the end of its life, and the
\* main thread knows what it is in the middle of.
DaemonTypeOK ==
    /\ plugged \subseteq Devices
    /\ down \in [Devices -> SUBSET Keys]
    /\ queue \in [Devices -> Seq(Events)]
    /\ held \in [Slots -> SUBSET Keys]
    /\ pads \in [Slots -> {NoPad} \cup SUBSET Keys]
    /\ ready \in [Slots -> BOOLEAN]
    /\ reader \in [Devices -> ReaderState]
    /\ \A d \in Devices : reader[d].pc \notin {"none", "spawned", "opened", "returned"}
                          => reader[d].slot \in Slots
    /\ main \in MainState
    /\ main.pc = "ensure" => main.device \in Devices
    /\ main.pc = "inject" => main.slot \in Slots
    /\ respawn \subseteq Devices

(* The threads change the assignment tables only as DeviceTables says.      *)
TablesKept == TablesSpec

(* Two threads never read one keyboard: a reader is started only when the   *)
(* last one has ended, though the watcher decides under one mutex and       *)
(* starts it under another, and the main thread starts readers too.         *)
OneReader ==
    [][\A d \in Devices : reader'[d].pc = "spawned" =>
            reader[d].pc \in {"none", "spawned"}]_vars

\* The threads that hold a controller of slot s; NoDevice is the main thread.
HandsOn(s) ==
    {d \in Devices : reader[d].pc \in {"emit", "resync"} /\ reader[d].slot = s}
    \cup (IF main.pc = "inject" /\ main.slot = s THEN {NoDevice} ELSE {})

(* A slot that is shown ready has a controller, in the table or in the      *)
(* hands of a thread that will put it back.                                 *)
ReadyHasController == \A s \in Slots : ready[s] => pads[s] # NoPad \/ HandsOn(s) # {}

(* The keyboard d feeds the slot it is assigned to, its thread waits, and   *)
(* no event of it is left.                                                  *)
AtRest(d) ==
    /\ reader[d].pc = "read" /\ reader[d].live /\ queue[d] = <<>>
    /\ assigned[d] = reader[d].slot

(* The games see, and the slot holds, exactly what SYN_DROPPED, lost events *)
(* and interleaved writes left: a key of a keyboard at rest is held only    *)
(* while it is down, and the controller shows what the slot holds.          *)
NoKeySticks ==
    \A d \in Devices : AtRest(d) =>
        /\ held[reader[d].slot] \subseteq down[d]
        /\ pads[reader[d].slot] = held[reader[d].slot]

(* docs/architecture.md:26: what is shown of a slot is what its controller  *)
(* was written with, once no thread is busy with it.                        *)
SnapshotIsEmitted ==
    \A s \in Slots : HandsOn(s) = {} /\ pads[s] # NoPad => pads[s] = held[s]

(* README.md:104: a keyboard that cannot be grabbed leaves the daemon       *)
(* running.                                                                 *)
DaemonRuns == MutexFree

\* Sooner or later nothing is pressed on the keyboard any more. Its reader
\* refreshes only when no event is left.
Quiet(d) ==
    <>[][~PressKillSwitch(d) /\ \A k \in Keys : ~Press(d, k) /\ ~Release(d, k)]_vars

(* A keyboard that is not both locked and in a slot is eventually the       *)
(* user's again: unlocked, unassigned, displaced by another keyboard (which *)
(* leaves it locked), or released by the kill switch of any keyboard.       *)
UnlockedIsReleased ==
    \A d \in Devices :
        Quiet(d) => []<>((assigned[d] # NoSlot /\ dlocked[d]) \/ ~reader[d].grabbed)

Reading(d, s) == reader[d].pc \in {"read", "emit", "resync"} /\ reader[d].slot = s

(* A keyboard that stays connected and assigned to a slot is read for that  *)
(* slot again and again, whatever its thread was doing when it was assigned *)
(* or moved, and however saving went.                                       *)
AssignedIsRead ==
    \A d \in Devices, s \in Slots :
        Quiet(d) => []<>(assigned[d] # s \/ ~connected[d] \/ (Reading(d, s) /\ reader[d].live))

(* A keyboard that stays locked and assigned is eventually grabbed for      *)
(* good.                                                                    *)
LockedIsGrabbed ==
    \A d \in Devices, s \in Slots :
        Quiet(d) /\ <>[](assigned[d] = s /\ dlocked[d] /\ connected[d]) => <>[]reader[d].grabbed
=============================================================================
