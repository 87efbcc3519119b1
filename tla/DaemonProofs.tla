---------------------------- MODULE DaemonProofs ----------------------------
(***************************************************************************)
(* The threads of the daemon, for any keyboards, slots and keys, with      *)
(* whatever the user does and whatever fails: they keep their variables    *)
(* well-typed and the assignment tables correct, and no keyboard ever has  *)
(* two readers.  While writing to a controller does not fail, a slot that  *)
(* is shown ready has one, and in plain use no key sticks.                 *)
(***************************************************************************)
EXTENDS Daemon, DeviceTablesProofs, SequenceTheorems

\* Before the daemon serves, there are no readers, and none is to be started.
NoEarlyReader ==
    main.pc \in {"scan", "restore"} =>
        respawn = {} /\ \A d \in Devices : reader[d].pc = "none"

DaemonInv == TablesInv /\ DaemonTypeOK /\ NoEarlyReader

-----------------------------------------------------------------------------
(* The tables.                                                             *)

\* Every step of a thread is a step of the tables or leaves them alone.
LEMMA ThreadsStepTables ==
    ASSUME plugged \subseteq Devices, [Next]_vars
    PROVE  [TablesNext]_tables
<1> USE DEF TablesNext
<1>1. ASSUME NEW d \in Devices, NEW s \in Slots,
             RestoreAssignment(d, s) \/ AssignDevice(d, s)
      PROVE  TablesNext
  BY <1>1 DEF RestoreAssignment, AssignDevice, Assign
<1>2. ASSUME NEW d \in Devices, RestoreLock(d) \/ LockDevice(d) \/ UnlockDevice(d)
      PROVE  TablesNext
  BY <1>2 DEF RestoreLock, LockDevice, UnlockDevice
<1>3. ASSUME NEW s \in Slots, UnassignSlot(s)
      PROVE  TablesNext
  BY <1>3 DEF UnassignSlot
<1>4. ASSUME NEW s \in Slots, InjectTestAction(s)
      PROVE  UNCHANGED tables
  BY <1>4 DEF InjectTestAction
<1>5. CASE MainContinues
  BY <1>5 DEF MainContinues, Scan, StartReaders, EnsureReader, InjectDone
<1>6. CASE Watcher
  BY <1>6 DEF Watcher, WatcherScan, WatcherSpawn
<1>7. ASSUME NEW d \in Devices, OpenFailed(d) \/ KillSwitch(d)
      PROVE  TablesNext
  BY <1>7 DEF OpenFailed, KillSwitch
<1>8. ASSUME NEW d \in Devices,
             \/ Open(d) \/ ReadSlot(d) \/ InitialGrab(d) \/ HandleKeyEvent(d) \/ Emitted(d)
             \/ HandleSynDropped(d) \/ Resynced(d) \/ Refresh(d) \/ Returned(d)
      PROVE  UNCHANGED tables
  BY <1>8 DEF Open, ReadSlot, InitialGrab, HandleKeyEvent, Emitted, HandleSynDropped,
              Resynced, Refresh, Returned
<1>9. ASSUME NEW d \in Devices, Keyboard(d)
      PROVE  UNCHANGED tables
  BY <1>9 DEF Keyboard, Press, Release, PressKillSwitch, Unplug, Plug
<1>10. CASE UNCHANGED vars
  BY <1>10 DEF vars
<1>11. CASE Main
  BY <1>1, <1>2, <1>3, <1>4, <1>5, <1>11 DEF Main
<1>12. ASSUME NEW d \in Devices, Reader(d)
       PROVE  [TablesNext]_tables
  BY <1>7, <1>8, <1>12 DEF Reader
<1> QED BY <1>6, <1>9, <1>10, <1>11, <1>12 DEF Next

-----------------------------------------------------------------------------
(* Types.                                                                  *)

LEMMA DaemonInvInit == Init => DaemonInv
BY TablesInvInit
DEF Init, DaemonInv, DaemonTypeOK, NoEarlyReader, Gone, Serving, ReaderState, MainState

\* The parts of DaemonTypeOK that a reader can disturb.
ReadersTyped ==
    /\ reader \in [Devices -> ReaderState]
    /\ \A d \in Devices : reader[d].pc \notin {"none", "spawned", "opened", "returned"}
                          => reader[d].slot \in Slots

LEMMA SetReader ==
    ASSUME ReadersTyped, NEW d \in Devices, NEW r \in ReaderState,
           r.pc \notin {"none", "spawned", "opened", "returned"} => r.slot \in Slots,
           reader' = [reader EXCEPT ![d] = r]
    PROVE  ReadersTyped'
BY DEF ReadersTyped

LEMMA SpawnTypes ==
    ASSUME ReadersTyped, NEW d \in Devices, ensure_reader(d)
    PROVE  ReadersTyped'
<1> DEFINE new == [Gone EXCEPT !.pc = "spawned"]
<1>1. new \in ReaderState /\ new.pc = "spawned"
  BY DEF Gone, ReaderState
<1>2. CASE UNCHANGED reader
  BY <1>2 DEF ReadersTyped
<1>3. CASE reader' = [reader EXCEPT ![d] = new]
  <2> HIDE DEF new
  <2> QED BY <1>1, <1>3, SetReader
<1> QED BY <1>2, <1>3 DEF ensure_reader, Spawn

LEMMA AssignTypes ==
    ASSUME DaemonInv, NEW d \in Devices, NEW s \in Slots, Assign(d, s)
    PROVE  /\ pads' \in [Slots -> {NoPad} \cup SUBSET Keys]
           /\ ready' \in [Slots -> BOOLEAN]
           /\ held' \in [Slots -> SUBSET Keys]
<1> USE DEF DaemonInv, DaemonTypeOK
<1>1. PICK made \in Outcome("create") :
        /\ pads' = [pads EXCEPT ![s] = IF @ = NoPad /\ made THEN {} ELSE @]
        /\ ready' = [t \in Slots |-> IF t = s THEN pads[s] # NoPad \/ made
                                     ELSE sdevice[t] # d /\ ready[t]]
  BY DEF Assign
<1>2. made \in BOOLEAN
  BY DEF Outcome
<1>3. pads' \in [Slots -> {NoPad} \cup SUBSET Keys]
  BY <1>1
<1>4. ready' \in [Slots -> BOOLEAN]
  <2> SUFFICES ASSUME NEW t \in Slots PROVE ready'[t] \in BOOLEAN
    BY <1>1
  <2> QED BY <1>1, <1>2
<1>5. held' \in [Slots -> SUBSET Keys]
  BY DEF Assign
<1> QED BY <1>3, <1>4, <1>5

\* The main thread goes on serving, or ensures the reader of a keyboard.
LEMMA ThenEnsureTypes ==
    ASSUME main \in MainState, main.pc = "serve", NEW d \in Devices, ThenEnsure(d)
    PROVE  main' \in MainState /\ main'.pc \in {"serve", "ensure"}
           /\ (main'.pc = "ensure" => main'.device \in Devices)
<1>1. CASE UNCHANGED main
  BY <1>1
<1>2. CASE main' = [Serving EXCEPT !.pc = "ensure", !.device = d]
  BY <1>2 DEF Serving, MainState
<1> QED BY <1>1, <1>2 DEF ThenEnsure

\* What the main thread and the watcher do keeps the types.
LEMMA MainTypes ==
    ASSUME DaemonInv, Main \/ Watcher
    PROVE  DaemonTypeOK' /\ NoEarlyReader'
<1> USE TablesAssumption, DaemonAssumption
    DEF DaemonInv, DaemonTypeOK, NoEarlyReader, ReaderState, MainState, kernel, controllers
<1>1. CASE Scan
  BY <1>1 DEF Scan, rescan_devices
<1>2. ASSUME NEW d \in Devices, NEW s \in Slots, RestoreAssignment(d, s)
      PROVE  DaemonTypeOK' /\ NoEarlyReader'
  BY <1>2, AssignTypes DEF RestoreAssignment
<1>3. ASSUME NEW d \in Devices, RestoreLock(d)
      PROVE  DaemonTypeOK' /\ NoEarlyReader'
  BY <1>3 DEF RestoreLock
<1>4. CASE StartReaders
  BY <1>4 DEF StartReaders, Gone, Serving
<1>5. ASSUME NEW d \in Devices, NEW s \in Slots, AssignDevice(d, s)
      PROVE  DaemonTypeOK' /\ NoEarlyReader'
  BY <1>5, AssignTypes, ThenEnsureTypes DEF AssignDevice, Serve
<1>6. CASE EnsureReader
  BY <1>6, SpawnTypes DEF EnsureReader, Serving, ReadersTyped
<1>7. ASSUME NEW d \in Devices, LockDevice(d) \/ UnlockDevice(d)
      PROVE  DaemonTypeOK' /\ NoEarlyReader'
  BY <1>7, ThenEnsureTypes DEF LockDevice, UnlockDevice, Serve
<1>8. ASSUME NEW s \in Slots, UnassignSlot(s)
      PROVE  DaemonTypeOK' /\ NoEarlyReader'
  BY <1>8 DEF UnassignSlot
<1>9. ASSUME NEW s \in Slots, InjectTestAction(s)
      PROVE  DaemonTypeOK' /\ NoEarlyReader'
  BY <1>9 DEF InjectTestAction, Serve, Serving
<1>10. CASE InjectDone
  BY <1>10 DEF InjectDone, Serving, Outcome
<1>11. CASE WatcherScan
  BY <1>11 DEF WatcherScan
<1>12. ASSUME NEW d \in Devices, WatcherSpawn(d)
       PROVE  DaemonTypeOK' /\ NoEarlyReader'
  BY <1>12, SpawnTypes DEF WatcherSpawn, ReadersTyped
<1> QED BY <1>1, <1>2, <1>3, <1>4, <1>5, <1>6, <1>7, <1>8, <1>9, <1>10, <1>11, <1>12
        DEF Main, MainContinues, Watcher

LEMMA ReturnTypes ==
    ASSUME ReadersTyped, queue \in [Devices -> Seq(Events)], NEW d \in Devices, Return(d)
    PROVE  ReadersTyped' /\ queue' \in [Devices -> Seq(Events)]
<1> DEFINE gone == [Gone EXCEPT !.pc = "returned"]
<1>1. gone \in ReaderState /\ gone.pc = "returned"
  BY DEF Gone, ReaderState
<1>2. reader' = [reader EXCEPT ![d] = gone] /\ queue' = [queue EXCEPT ![d] = <<>>]
  BY DEF Return
<1>3. <<>> \in Seq(Events)
  OBVIOUS
<1> HIDE DEF gone
<1> QED BY <1>1, <1>2, <1>3, SetReader

LEMMA ToReadTypes ==
    ASSUME ReadersTyped, NEW d \in Devices, reader[d].pc \in {"emit", "resync"}, ToRead(d)
    PROVE  ReadersTyped'
<1> DEFINE r == [reader[d] EXCEPT !.pc = "read", !.pad = NoPad, !.current = {}]
<1>1. r \in ReaderState /\ r.slot \in Slots
  BY DEF ReaderState, ReadersTyped
<1>2. reader' = [reader EXCEPT ![d] = r]
  BY DEF ToRead
<1> HIDE DEF r
<1> QED BY <1>1, <1>2, SetReader

LEMMA Queued ==
    ASSUME queue \in [Devices -> Seq(Events)], NEW d \in Devices, queue[d] # <<>>
    PROVE  /\ Tail(queue[d]) \in Seq(Events)
           /\ Head(queue[d]).kind \in {"press", "release"} => Head(queue[d]).key \in Keys
<1>1. queue[d] \in Seq(Events) /\ Head(queue[d]) \in Events
  OBVIOUS
<1> QED BY <1>1 DEF Events

\* A reader that has taken the controller out, to write the state current.
LEMMA TakeOutTypes ==
    ASSUME ReadersTyped, pads \in [Slots -> {NoPad} \cup SUBSET Keys],
           NEW d \in Devices, reader[d].pc = "read", NEW s, s = reader[d].slot,
           NEW pc \in {"emit", "resync"}, NEW current \in SUBSET Keys,
           reader' = [reader EXCEPT ![d] =
                        [@ EXCEPT !.pc = pc, !.pad = pads[s], !.current = current]]
    PROVE  ReadersTyped'
<1> DEFINE r == [reader[d] EXCEPT !.pc = pc, !.pad = pads[s], !.current = current]
<1>1. r \in ReaderState /\ r.slot \in Slots
  BY DEF ReaderState, ReadersTyped
<1>2. reader' = [reader EXCEPT ![d] = r]
  OBVIOUS
<1> HIDE DEF r
<1> QED BY <1>1, <1>2, SetReader

\* What a reader does keeps the types.
LEMMA ReaderTypes ==
    ASSUME DaemonInv, NEW d \in Devices, Reader(d)
    PROVE  DaemonTypeOK' /\ NoEarlyReader'
<1> USE TablesAssumption, DaemonAssumption DEF DaemonInv, DaemonTypeOK, NoEarlyReader, kernel, controllers
<1>t. ReadersTyped
  BY DEF ReadersTyped
<1>n. reader[d].pc # "none" => main.pc \notin {"scan", "restore"}
  OBVIOUS
<1>1. CASE Open(d)
  <2> DEFINE r == [reader[d] EXCEPT !.pc = "opened", !.live = TRUE]
  <2>1. r \in ReaderState /\ r.pc = "opened" /\ reader' = [reader EXCEPT ![d] = r]
    BY <1>1 DEF Open, ReaderState
  <2> HIDE DEF r
  <2>2. ReadersTyped'
    BY <1>t, <2>1, SetReader
  <2> QED BY <1>1, <1>n, <2>2 DEF Open, ReadersTyped
<1>2. CASE OpenFailed(d)
  BY <1>2, <1>t, <1>n, ReturnTypes DEF OpenFailed, ReadersTyped
<1>3. CASE ReadSlot(d)
  <2>1. CASE assigned[d] = NoSlot
    BY <2>1, <1>3, <1>t, <1>n, ReturnTypes DEF ReadSlot, ReadersTyped
  <2>2. CASE assigned[d] # NoSlot
    <3> DEFINE r == [reader[d] EXCEPT !.pc = "grab", !.slot = assigned[d]]
    <3>1. /\ r \in ReaderState /\ r.slot \in Slots
          /\ reader' = [reader EXCEPT ![d] = r]
      <4>1. assigned[d] \in Slots /\ reader[d] \in ReaderState
        BY <2>2 DEF TablesInv, TablesTypeOK
      <4>2. r \in ReaderState /\ r.slot \in Slots
        BY <4>1 DEF ReaderState
      <4> QED BY <1>3, <2>2, <4>2 DEF ReadSlot
    <3> HIDE DEF r
    <3>2. ReadersTyped'
      BY <1>t, <3>1, SetReader
    <3> QED BY <1>3, <2>2, <1>n, <3>2 DEF ReadSlot, ReadersTyped
  <2> QED BY <2>1, <2>2
<1>4. CASE InitialGrab(d)
  <2> DEFINE on == [reader[d] EXCEPT !.pc = "read", !.grabbed = dlocked[d]]
             stuck == [reader[d] EXCEPT !.pc = "wedged"]
  <2>1. /\ on \in ReaderState /\ on.slot \in Slots
        /\ stuck \in ReaderState /\ stuck.slot \in Slots
    <3>1. dlocked[d] \in BOOLEAN /\ reader[d] \in ReaderState /\ reader[d].slot \in Slots
      BY <1>4 DEF InitialGrab, TablesInv, TablesTypeOK
    <3> QED BY <3>1 DEF ReaderState
  <2>2. \/ reader' = [reader EXCEPT ![d] = on]
        \/ reader' = [reader EXCEPT ![d] = stuck]
    BY <1>4 DEF InitialGrab
  <2> HIDE DEF on, stuck
  <2>3. ReadersTyped'
    BY <1>t, <2>1, <2>2, SetReader
  <2> QED BY <1>4, <1>n, <2>3 DEF InitialGrab, ReadersTyped
<1>5. CASE HandleKeyEvent(d)
  <2> DEFINE s == reader[d].slot
             key == {Head(queue[d]).key}
             current == IF Head(queue[d]).kind = "press" THEN held[s] \cup key
                        ELSE held[s] \ key
  <2>1. /\ Head(queue[d]).kind \in {"press", "release"} /\ queue[d] # <<>>
        /\ reader[d].pc = "read" /\ s \in Slots
    BY <1>5 DEF HandleKeyEvent, Reads
  <2>2. current \in SUBSET Keys /\ Tail(queue[d]) \in Seq(Events)
    BY <2>1, Queued
  <2>3. queue' \in [Devices -> Seq(Events)]
    BY <1>5, <2>2 DEF HandleKeyEvent
  <2>4. CASE pads[s] = NoPad
    BY <1>5, <1>n, <2>1, <2>3, <2>4 DEF HandleKeyEvent
  <2>5. CASE pads[s] # NoPad
    <3>1. /\ held' = [held EXCEPT ![s] = current]
          /\ pads' = [pads EXCEPT ![s] = NoPad]
          /\ reader' = [reader EXCEPT ![d] =
                [@ EXCEPT !.pc = "emit", !.pad = pads[s], !.current = current]]
      BY <1>5, <2>5 DEF HandleKeyEvent
    <3> HIDE DEF current
    <3>2. ReadersTyped'
      BY <1>t, <2>1, <2>2, <3>1, TakeOutTypes
    <3> QED BY <1>5, <1>n, <2>1, <2>2, <2>3, <3>1, <3>2 DEF HandleKeyEvent, ReadersTyped
  <2> QED BY <2>4, <2>5
<1>6. CASE Emitted(d)
  <2>1. pads' \in [Slots -> {NoPad} \cup SUBSET Keys]
    <3>1. PICK ok \in Outcome("emit") :
            pads' = [pads EXCEPT ![reader[d].slot] =
                        IF ok THEN reader[d].current ELSE reader[d].pad]
      BY <1>6 DEF Emitted
    <3> QED BY <3>1 DEF ReaderState
  <2>2. ReadersTyped'
    BY <1>6, <1>t, ToReadTypes DEF Emitted
  <2> QED BY <1>6, <1>n, <2>1, <2>2 DEF Emitted, ReadersTyped
<1>7. CASE HandleSynDropped(d)
  <2> DEFINE s == reader[d].slot
  <2>1. reader[d].pc = "read" /\ s \in Slots /\ down[d] \in SUBSET Keys
    BY <1>7 DEF HandleSynDropped, Reads
  <2>2. queue' \in [Devices -> Seq(Events)] /\ held' \in [Slots -> SUBSET Keys]
    BY <1>7, <2>1 DEF HandleSynDropped
  <2>3. CASE held[s] = down[d] \/ pads[s] = NoPad
    BY <1>7, <1>n, <2>1, <2>2, <2>3 DEF HandleSynDropped
  <2>4. CASE ~(held[s] = down[d] \/ pads[s] = NoPad)
    <3>1. /\ pads' = [pads EXCEPT ![s] = NoPad]
          /\ reader' = [reader EXCEPT ![d] =
                [@ EXCEPT !.pc = "resync", !.pad = pads[s], !.current = down[d]]]
      BY <1>7, <2>4 DEF HandleSynDropped
    <3>2. ReadersTyped'
      BY <1>t, <2>1, <3>1, TakeOutTypes
    <3> QED BY <1>7, <1>n, <2>1, <2>2, <3>1, <3>2 DEF HandleSynDropped, ReadersTyped
  <2> QED BY <2>3, <2>4
<1>8. CASE Resynced(d)
  <2>1. pads' \in [Slots -> {NoPad} \cup SUBSET Keys]
    <3>1. PICK ok \in Outcome("emit") :
            pads' = [pads EXCEPT ![reader[d].slot] = IF ok THEN reader[d].current ELSE NoPad]
      BY <1>8 DEF Resynced
    <3> QED BY <3>1 DEF ReaderState
  <2>2. ReadersTyped'
    BY <1>8, <1>t, ToReadTypes DEF Resynced
  <2> QED BY <1>8, <1>n, <2>1, <2>2 DEF Resynced, ReadersTyped
<1>9. CASE KillSwitch(d)
  <2>1. ReadersTyped' /\ queue' \in [Devices -> Seq(Events)]
    BY <1>9, <1>t, ReturnTypes DEF KillSwitch
  <2> QED BY <1>9, <1>n, <2>1 DEF KillSwitch, ReadersTyped, Reads
<1>10. CASE Refresh(d)
  <2>1. CASE assigned[d] # reader[d].slot
    BY <2>1, <1>10, <1>t, <1>n, ReturnTypes DEF Refresh, ReadersTyped
  <2>2. CASE assigned[d] = reader[d].slot
    <3>1. PICK ok \in GrabOutcome(d) :
            reader' = [reader EXCEPT ![d].grabbed = IF ok THEN dlocked[d] ELSE @]
      BY <1>10, <2>2 DEF Refresh
    <3> DEFINE r == [reader[d] EXCEPT !.grabbed = IF ok THEN dlocked[d] ELSE @]
    <3>2. r \in ReaderState /\ r.slot \in Slots
      <4>1. dlocked[d] \in BOOLEAN /\ reader[d] \in ReaderState /\ reader[d].slot \in Slots
        BY <1>10 DEF Refresh, TablesInv, TablesTypeOK
      <4>2. r = [reader[d] EXCEPT !.grabbed = IF ok THEN dlocked[d] ELSE reader[d].grabbed]
        OBVIOUS
      <4> QED BY <4>1, <4>2 DEF ReaderState
    <3>3. reader' = [reader EXCEPT ![d] = r]
      BY <3>1
    <3> HIDE DEF r
    <3>4. ReadersTyped'
      BY <1>t, <3>2, <3>3, SetReader
    <3> QED BY <1>10, <2>2, <1>n, <3>4 DEF Refresh, ReadersTyped
  <2> QED BY <2>1, <2>2
<1>11. CASE Returned(d)
  <2>1. Gone \in ReaderState /\ Gone.pc = "none"
    BY DEF Gone, ReaderState
  <2>2. ReadersTyped'
    BY <1>11, <1>t, <2>1, SetReader DEF Returned
  <2> QED BY <1>11, <1>n, <2>2 DEF Returned, ReadersTyped
<1> QED BY <1>1, <1>2, <1>3, <1>4, <1>5, <1>6, <1>7, <1>8, <1>9, <1>10, <1>11 DEF Reader

\* The kernel's buffer takes an event.
LEMMA BufferTypes ==
    ASSUME queue \in [Devices -> Seq(Events)], NEW d \in Devices, NEW event \in Events,
           Buffer(d, event)
    PROVE  queue' \in [Devices -> Seq(Events)]
<1> DEFINE longer == Append(queue[d], event)
           fresh == <<[kind |-> "dropped"], event>>
<1>1. longer \in Seq(Events)
  OBVIOUS
<1>2. [kind |-> "dropped"] \in Events
  BY DEF Events
<1>3. fresh \in Seq(Events)
  BY <1>2
<1>4. \/ queue' = queue
      \/ queue' = [queue EXCEPT ![d] = longer]
      \/ queue' = [queue EXCEPT ![d] = fresh]
  BY DEF Buffer
<1> HIDE DEF longer, fresh
<1> QED BY <1>1, <1>3, <1>4

\* What happens to the keyboards keeps the types.
LEMMA KeyboardTypes ==
    ASSUME DaemonInv, NEW d \in Devices, Keyboard(d)
    PROVE  DaemonTypeOK' /\ NoEarlyReader'
<1> USE DEF DaemonInv, DaemonTypeOK, NoEarlyReader, kernel, controllers
<1>1. ASSUME NEW k \in Keys, Press(d, k) PROVE DaemonTypeOK' /\ NoEarlyReader'
  <2>1. [kind |-> "press", key |-> k] \in Events
    BY DEF Events
  <2> QED BY <1>1, <2>1, BufferTypes DEF Press
<1>2. ASSUME NEW k \in Keys, Release(d, k) PROVE DaemonTypeOK' /\ NoEarlyReader'
  <2>1. [kind |-> "release", key |-> k] \in Events
    BY DEF Events
  <2> QED BY <1>2, <2>1, BufferTypes DEF Release
<1>3. CASE PressKillSwitch(d)
  <2>1. [kind |-> "kill"] \in Events
    BY DEF Events
  <2> QED BY <1>3, <2>1, BufferTypes DEF PressKillSwitch
<1>4. CASE Unplug(d)
  <2> DEFINE r == [reader[d] EXCEPT !.live = FALSE]
  <2>1. r \in ReaderState /\ r.pc = reader[d].pc /\ r.slot = reader[d].slot
    <3>1. reader[d] \in ReaderState
      OBVIOUS
    <3> QED BY <3>1 DEF ReaderState
  <2>3. reader' = [reader EXCEPT ![d] = r]
    BY <1>4 DEF Unplug
  <2> HIDE DEF r
  <2>2. ReadersTyped'
    BY <2>1, <2>3, SetReader DEF ReadersTyped
  <2> QED BY <1>4, <2>1, <2>2, <2>3 DEF Unplug, ReadersTyped
<1>5. CASE Plug(d)
  BY <1>5 DEF Plug
<1> QED BY <1>1, <1>2, <1>3, <1>4, <1>5 DEF Keyboard

LEMMA DaemonInvStep == DaemonInv /\ [Next]_vars => DaemonInv'
<1> SUFFICES ASSUME DaemonInv, [Next]_vars PROVE DaemonInv'
  OBVIOUS
<1>1. TablesInv'
  BY ThreadsStepTables, TablesInvStep DEF DaemonInv, DaemonTypeOK
<1>2. UNCHANGED vars => DaemonTypeOK' /\ NoEarlyReader'
  BY DEF vars, kernel, controllers, DaemonInv, DaemonTypeOK, NoEarlyReader
<1>3. DaemonTypeOK' /\ NoEarlyReader'
  BY <1>2, MainTypes, ReaderTypes, KeyboardTypes DEF Next
<1> QED BY <1>1, <1>3 DEF DaemonInv

(* The daemon's variables, its assignment tables among them, keep to their  *)
(* types and agree with each other, whatever fails and whoever acts first.  *)
THEOREM DaemonInvAlways == Spec => []DaemonInv
<1> QED BY DaemonInvInit, DaemonInvStep, PTL DEF Spec

(* Every thread and every keyboard is well-typed in every state; a reader   *)
(* past its first look at the tables has a slot.                            *)
THEOREM DaemonTypeCorrect == Spec => []DaemonTypeOK
<1>1. DaemonInv => DaemonTypeOK
  BY DEF DaemonInv
<1> QED BY <1>1, DaemonInvAlways, PTL

(* The threads change the tables only as DeviceTables says, so what is      *)
(* proved of the tables holds in the daemon.                                *)
THEOREM DaemonKeepsTables == Spec => TablesKept
<1>1. Init => TablesInit
  BY DEF Init
<1>2. DaemonInv /\ [Next]_vars => [TablesNext]_tables
  BY ThreadsStepTables DEF DaemonInv, DaemonTypeOK
<1> QED BY <1>1, <1>2, DaemonInvAlways, PTL DEF Spec, TablesSpec, TablesKept

(* A keyboard feeds one slot at most, and a slot is fed by one keyboard at  *)
(* most, in the daemon with all its threads.                                *)
THEOREM DaemonKeepsAssignmentRules == Spec => ImplementsAssignmentRules
BY DaemonKeepsTables, TablesImplementRules, PTL DEF TablesKept

-----------------------------------------------------------------------------
(* Readers.                                                                *)

\* A reader's own step never makes a reader that is spawned, its own included.
LEMMA ReaderNeverSpawns ==
    ASSUME DaemonInv, NEW d \in Devices, Reader(d)
    PROVE  \A e \in Devices : reader'[e].pc = "spawned" => reader[e].pc = "spawned"
<1> DEFINE Kept == \A e \in Devices : reader'[e].pc = "spawned" => reader[e].pc = "spawned"
<1> SUFFICES Kept
  OBVIOUS
<1> USE DEF DaemonInv, DaemonTypeOK
<1>t. reader[d] \in ReaderState
  OBVIOUS
<1>1. ASSUME NEW r, r.pc # "spawned", reader' = [reader EXCEPT ![d] = r] PROVE Kept
  BY <1>1
<1>3. ASSUME UNCHANGED reader PROVE Kept
  BY <1>3
<1>4. ASSUME Return(d) PROVE Kept
  BY <1>4, <1>1 DEF Return, Gone
<1>5. CASE Open(d)
  <2>1. [reader[d] EXCEPT !.pc = "opened", !.live = TRUE].pc = "opened"
    BY <1>t DEF ReaderState
  <2> QED BY <1>5, <2>1, <1>1 DEF Open
<1>6. CASE ReadSlot(d)
  <2>1. [reader[d] EXCEPT !.pc = "grab", !.slot = assigned[d]].pc = "grab"
    BY <1>t DEF ReaderState
  <2> QED BY <1>6, <2>1, <1>1, <1>4 DEF ReadSlot
<1>7. CASE InitialGrab(d)
  <2>1. /\ [reader[d] EXCEPT !.pc = "read", !.grabbed = dlocked[d]].pc = "read"
        /\ [reader[d] EXCEPT !.pc = "wedged"].pc = "wedged"
    BY <1>t DEF ReaderState
  <2>2. \/ reader' = [reader EXCEPT ![d] = [reader[d] EXCEPT !.pc = "read", !.grabbed = dlocked[d]]]
        \/ reader' = [reader EXCEPT ![d] = [reader[d] EXCEPT !.pc = "wedged"]]
    BY <1>7 DEF InitialGrab
  <2> QED BY <2>1, <2>2, <1>1
<1>8. ASSUME ToRead(d) PROVE Kept
  <2>1. [reader[d] EXCEPT !.pc = "read", !.pad = NoPad, !.current = {}].pc = "read"
    BY <1>t DEF ReaderState
  <2> QED BY <1>8, <2>1, <1>1 DEF ToRead
<1>9. ASSUME NEW pc \in {"emit", "resync"}, NEW pad, NEW current,
             reader' = [reader EXCEPT ![d] =
                            [@ EXCEPT !.pc = pc, !.pad = pad, !.current = current]]
      PROVE  Kept
  <2>1. [reader[d] EXCEPT !.pc = pc, !.pad = pad, !.current = current].pc = pc
    BY <1>t DEF ReaderState
  <2> QED BY <1>9, <2>1, <1>1
<1>10. CASE HandleKeyEvent(d)
  <2> DEFINE s == reader[d].slot
             key == {Head(queue[d]).key}
             current == IF Head(queue[d]).kind = "press" THEN held[s] \cup key
                        ELSE held[s] \ key
  <2>1. \/ UNCHANGED reader
        \/ reader' = [reader EXCEPT ![d] =
                [@ EXCEPT !.pc = "emit", !.pad = pads[s], !.current = current]]
    BY <1>10 DEF HandleKeyEvent
  <2> HIDE DEF current
  <2> QED BY <2>1, <1>3, <1>9
<1>11. CASE HandleSynDropped(d)
  BY <1>11, <1>3, <1>9 DEF HandleSynDropped
<1>12. CASE Refresh(d)
  <2>1. CASE assigned[d] # reader[d].slot
    BY <2>1, <1>12, <1>4 DEF Refresh
  <2>2. CASE assigned[d] = reader[d].slot
    <3>1. PICK ok \in GrabOutcome(d) :
            reader' = [reader EXCEPT ![d].grabbed = IF ok THEN dlocked[d] ELSE @]
      BY <1>12, <2>2 DEF Refresh
    <3>2. reader'[d].pc = reader[d].pc
      BY <3>1, <1>t DEF ReaderState
    <3> QED BY <3>1, <3>2
  <2> QED BY <2>1, <2>2
<1>13. CASE Returned(d)
  BY <1>13, <1>1 DEF Returned, Gone
<1>14. CASE OpenFailed(d) \/ KillSwitch(d) \/ Emitted(d) \/ Resynced(d)
  BY <1>14, <1>4, <1>8 DEF OpenFailed, KillSwitch, Emitted, Resynced
<1> QED BY <1>5, <1>6, <1>7, <1>10, <1>11, <1>12, <1>13, <1>14 DEF Reader

(* No reader is started on a keyboard whose last reader has not ended: the  *)
(* watcher and the main thread check active_readers as they insert, and at  *)
(* the start nobody reads.                                                  *)
THEOREM OneReaderPerKeyboard == Spec => OneReader
<1> DEFINE Kept == \A d \in Devices : reader'[d].pc = "spawned" =>
                        reader[d].pc \in {"none", "spawned"}
<1>1. DaemonInv /\ [Next]_vars
      => [\A d \in Devices : reader'[d].pc = "spawned" =>
            reader[d].pc \in {"none", "spawned"}]_vars
  <2> SUFFICES ASSUME DaemonInv, Next PROVE Kept
    OBVIOUS
  <2> USE DEF DaemonInv, DaemonTypeOK
  <2>1. ASSUME UNCHANGED reader PROVE Kept
    BY <2>1
  <2>2. ASSUME NEW d \in Devices, ensure_reader(d) PROVE Kept
    BY <2>2 DEF ensure_reader, active_readers, Spawn
  <2>3. CASE Main
    <3>1. CASE Scan
      BY <3>1, <2>1 DEF Scan
    <3>2. CASE EnsureReader
      BY <3>2, <2>2 DEF EnsureReader
    <3>3. CASE InjectDone
      BY <3>3, <2>1 DEF InjectDone
    <3>4. CASE StartReaders
      BY <3>4 DEF StartReaders, NoEarlyReader
    <3>5. ASSUME NEW d \in Devices, NEW s \in Slots,
                 RestoreAssignment(d, s) \/ AssignDevice(d, s)
          PROVE  Kept
      BY <3>5, <2>1 DEF RestoreAssignment, AssignDevice
    <3>6. ASSUME NEW d \in Devices, RestoreLock(d) \/ LockDevice(d) \/ UnlockDevice(d)
          PROVE  Kept
      BY <3>6, <2>1 DEF RestoreLock, LockDevice, UnlockDevice
    <3>7. ASSUME NEW s \in Slots, UnassignSlot(s) \/ InjectTestAction(s)
          PROVE  Kept
      BY <3>7, <2>1 DEF UnassignSlot, InjectTestAction
    <3> QED BY <2>3, <3>1, <3>2, <3>3, <3>4, <3>5, <3>6, <3>7 DEF Main, MainContinues
  <2>4. CASE Watcher
    BY <2>1, <2>2, <2>4 DEF Watcher, WatcherScan, WatcherSpawn
  <2>5. ASSUME NEW d \in Devices, Reader(d) PROVE Kept
    BY <2>5, ReaderNeverSpawns
  <2>6. ASSUME NEW d \in Devices, Keyboard(d) PROVE Kept
    <3>1. CASE Unplug(d)
      <4>1. reader' = [reader EXCEPT ![d] = [@ EXCEPT !.live = FALSE]]
        BY <3>1 DEF Unplug
      <4>2. \A e \in Devices : reader'[e].pc = reader[e].pc
        BY <4>1 DEF ReaderState
      <4> QED BY <4>2
    <3> QED BY <2>1, <2>6, <3>1 DEF Keyboard, Press, Release, PressKillSwitch, Plug
  <2> QED BY <2>3, <2>4, <2>5, <2>6 DEF Next
<1> QED BY <1>1, DaemonInvAlways, PTL DEF Spec, OneReader

-----------------------------------------------------------------------------
(* Controllers.                                                            *)

InHand(s) ==
    \/ \E d \in Devices : reader[d].pc \in {"emit", "resync"} /\ reader[d].slot = s
    \/ main.pc = "inject" /\ main.slot = s

LEMMA HandsOnInHand == \A s \in Slots : HandsOn(s) # {} <=> InHand(s)
BY DEF HandsOn, InHand

LEMMA HandsOnInHandNext == \A s \in Slots : HandsOn(s)' # {} <=> InHand(s)'
BY DEF HandsOn, InHand

Has(s) == ready[s] => pads[s] # NoPad \/ InHand(s)

LEMMA ReadyHas == ReadyHasController <=> \A s \in Slots : Has(s)
BY HandsOnInHand DEF ReadyHasController, Has

LEMMA ReadyHasNext == ReadyHasController' <=> \A s \in Slots : Has(s)'
BY HandsOnInHandNext DEF ReadyHasController, Has

\* What the main thread does with controllers.
LEMMA MainKeepsControllers ==
    ASSUME "emit" \notin Faults, DaemonInv, \A s \in Slots : Has(s), Main
    PROVE  \A s \in Slots : Has(s)'
<1> USE DaemonAssumption DEF DaemonInv, DaemonTypeOK, Has, InHand
<1>1. CASE Scan
  BY <1>1 DEF Scan, controllers
<1>2. CASE StartReaders
  BY <1>2 DEF StartReaders, controllers, NoEarlyReader, Serving
<1>3. CASE EnsureReader
  <2>1. \A d \in Devices : reader[d].pc # "none" => reader'[d] = reader[d]
    BY <1>3 DEF EnsureReader, ensure_reader, active_readers, Spawn
  <2>2. main.pc # "inject" /\ UNCHANGED <<pads, ready>>
    BY <1>3 DEF EnsureReader, controllers
  <2> HIDE DEF DaemonInv, DaemonTypeOK
  <2> QED BY <2>1, <2>2
<1>4. CASE InjectDone
  <2>1. pads' = [pads EXCEPT ![main.slot] = main.current] /\ main.slot \in Slots
    BY <1>4 DEF InjectDone, Outcome
  <2>2. pads'[main.slot] # NoPad
    BY <2>1 DEF MainState
  <2> QED BY <1>4, <2>1, <2>2 DEF InjectDone, Serving
<1>5. ASSUME NEW d \in Devices, NEW s \in Slots, RestoreAssignment(d, s) \/ AssignDevice(d, s)
      PROVE  \A t \in Slots : Has(t)'
  <2>1. Assign(d, s) /\ UNCHANGED reader /\ main.pc # "inject"
    BY <1>5 DEF RestoreAssignment, AssignDevice, Serve
  <2>2. PICK made \in Outcome("create") :
          /\ pads' = [pads EXCEPT ![s] = IF @ = NoPad /\ made THEN {} ELSE @]
          /\ ready' = [t \in Slots |-> IF t = s THEN pads[s] # NoPad \/ made
                                       ELSE sdevice[t] # d /\ ready[t]]
    BY <2>1 DEF Assign
  <2>3. {} # NoPad
    OBVIOUS
  <2>4. ready'[s] => pads'[s] # NoPad
    <3>1. CASE pads[s] = NoPad /\ made
      BY <3>1, <2>2, <2>3
    <3>2. CASE pads[s] # NoPad
      BY <3>2, <2>2
    <3>3. CASE pads[s] = NoPad /\ ~made
      <4>1. ready'[s] = (pads[s] # NoPad \/ made)
        BY <2>2
      <4> QED BY <3>3, <4>1
    <3> QED BY <3>1, <3>2, <3>3
  <2>5. \A t \in Slots \ {s} : pads'[t] = pads[t] /\ (ready'[t] => ready[t])
    BY <2>2
  <2> QED BY <2>1, <2>4, <2>5
<1>6. ASSUME NEW d \in Devices, RestoreLock(d) \/ LockDevice(d) \/ UnlockDevice(d)
      PROVE  \A t \in Slots : Has(t)'
  BY <1>6 DEF RestoreLock, LockDevice, UnlockDevice, Serve, controllers
<1>7. ASSUME NEW s \in Slots, UnassignSlot(s)
      PROVE  \A t \in Slots : Has(t)'
  BY <1>7 DEF UnassignSlot
<1>8. ASSUME NEW s \in Slots, InjectTestAction(s)
      PROVE  \A t \in Slots : Has(t)'
  BY <1>8 DEF InjectTestAction, Serve, Serving
<1> QED BY <1>1, <1>2, <1>3, <1>4, <1>5, <1>6, <1>7, <1>8 DEF Main, MainContinues

\* A reader that has no controller in hand, and takes none, keeps the others.
LEMMA ReaderKeepsOthers ==
    ASSUME DaemonInv, \A s \in Slots : Has(s), NEW d \in Devices,
           reader[d].pc \notin {"emit", "resync"}, NEW r,
           reader' = [reader EXCEPT ![d] = r],
           UNCHANGED <<pads, main>>, \A s \in Slots : ready'[s] => ready[s]
    PROVE  \A s \in Slots : Has(s)'
BY DEF DaemonInv, DaemonTypeOK, Has, InHand

\* A reader takes the controller of its slot out.
LEMMA ReaderTakes ==
    ASSUME DaemonInv, \A s \in Slots : Has(s), NEW d \in Devices, reader[d].pc = "read",
           NEW pc \in {"emit", "resync"}, NEW current,
           reader' = [reader EXCEPT ![d] =
                [@ EXCEPT !.pc = pc, !.pad = pads[reader[d].slot], !.current = current]],
           pads' = [pads EXCEPT ![reader[d].slot] = NoPad],
           UNCHANGED <<ready, main>>
    PROVE  \A s \in Slots : Has(s)'
<1> DEFINE r == [reader[d] EXCEPT !.pc = pc, !.pad = pads[reader[d].slot], !.current = current]
<1>1. r.pc = pc /\ r.slot = reader[d].slot
  <2>1. reader[d] \in ReaderState
    BY DEF DaemonInv, DaemonTypeOK
  <2> QED BY <2>1 DEF ReaderState
<1>2. reader' = [reader EXCEPT ![d] = r]
  OBVIOUS
<1> HIDE DEF r
<1> QED BY <1>1, <1>2 DEF DaemonInv, DaemonTypeOK, Has, InHand

\* A reader puts a controller back into its slot.
LEMMA ReaderPutsBack ==
    ASSUME DaemonInv, \A s \in Slots : Has(s), NEW d \in Devices,
           reader[d].pc \in {"emit", "resync"}, NEW r, reader' = [reader EXCEPT ![d] = r],
           pads' = [pads EXCEPT ![reader[d].slot] = reader[d].current],
           UNCHANGED <<ready, main>>
    PROVE  \A s \in Slots : Has(s)'
<1>1. reader[d].current # NoPad
  BY DaemonAssumption DEF DaemonInv, DaemonTypeOK, ReaderState
<1> QED BY <1>1 DEF DaemonInv, DaemonTypeOK, Has, InHand

\* What a reader does with controllers.
LEMMA ReaderKeepsControllers ==
    ASSUME "emit" \notin Faults, DaemonInv, \A s \in Slots : Has(s),
           NEW d \in Devices, Reader(d)
    PROVE  \A s \in Slots : Has(s)'
<1> DEFINE Goal == \A s \in Slots : Has(s)'
<1> SUFFICES Goal
  OBVIOUS
<1>1. ASSUME UNCHANGED <<reader, pads, ready, main>> PROVE Goal
  BY <1>1 DEF Has, InHand
<1>2. ASSUME Return(d), reader[d].pc \notin {"emit", "resync"}, UNCHANGED <<pads, main>>,
             \A s \in Slots : ready'[s] => ready[s]
      PROVE  Goal
  BY <1>2, ReaderKeepsOthers DEF Return
<1>3. CASE Open(d)
  BY <1>3, ReaderKeepsOthers DEF Open, controllers
<1>4. CASE OpenFailed(d)
  BY <1>4, <1>2 DEF OpenFailed, controllers
<1>5. CASE ReadSlot(d)
  BY <1>5, <1>2, ReaderKeepsOthers DEF ReadSlot, controllers
<1>6. CASE InitialGrab(d)
  BY <1>6, ReaderKeepsOthers DEF InitialGrab, controllers
<1>7. CASE HandleKeyEvent(d)
  <2> DEFINE s == reader[d].slot
             key == {Head(queue[d]).key}
             current == IF Head(queue[d]).kind = "press" THEN held[s] \cup key
                        ELSE held[s] \ key
  <2>1. /\ reader[d].pc = "read" /\ UNCHANGED <<ready, main>>
        /\ \/ UNCHANGED <<reader, pads>>
           \/ /\ pads' = [pads EXCEPT ![s] = NoPad]
              /\ reader' = [reader EXCEPT ![d] =
                    [@ EXCEPT !.pc = "emit", !.pad = pads[s], !.current = current]]
    BY <1>7 DEF HandleKeyEvent, Reads
  <2> HIDE DEF current
  <2> QED BY <2>1, <1>1, ReaderTakes
<1>8. CASE HandleSynDropped(d)
  <2> DEFINE s == reader[d].slot
  <2>1. /\ reader[d].pc = "read" /\ UNCHANGED <<ready, main>>
        /\ \/ UNCHANGED <<reader, pads>>
           \/ /\ pads' = [pads EXCEPT ![s] = NoPad]
              /\ reader' = [reader EXCEPT ![d] =
                    [@ EXCEPT !.pc = "resync", !.pad = pads[s], !.current = down[d]]]
    BY <1>8 DEF HandleSynDropped, Reads
  <2> QED BY <2>1, <1>1, ReaderTakes
<1>9. CASE Emitted(d)
  <2>1. pads' = [pads EXCEPT ![reader[d].slot] = reader[d].current]
    BY <1>9 DEF Emitted, Outcome
  <2> QED BY <1>9, <2>1, ReaderPutsBack DEF Emitted, ToRead
<1>10. CASE Resynced(d)
  <2>1. pads' = [pads EXCEPT ![reader[d].slot] = reader[d].current]
    BY <1>10 DEF Resynced, Outcome
  <2> QED BY <1>10, <2>1, ReaderPutsBack DEF Resynced, ToRead
<1>11. CASE KillSwitch(d)
  <2>1. /\ reader[d].pc = "read" /\ UNCHANGED main
        /\ \A s \in Slots : ready'[s] => ready[s] /\ pads'[s] = pads[s]
    BY <1>11 DEF KillSwitch, Reads
  <2>2. reader' = [reader EXCEPT ![d] = [Gone EXCEPT !.pc = "returned"]]
    BY <1>11 DEF KillSwitch, Return
  <2> QED BY <2>1, <2>2 DEF DaemonInv, DaemonTypeOK, Has, InHand
<1>12. CASE Refresh(d)
  <2>1. reader[d].pc = "read" /\ UNCHANGED <<pads, ready, main>>
    BY <1>12 DEF Refresh, controllers
  <2>2. CASE assigned[d] # reader[d].slot
    BY <1>12, <2>1, <2>2, <1>2 DEF Refresh
  <2>3. CASE assigned[d] = reader[d].slot
    <3>1. PICK ok \in GrabOutcome(d) :
            reader' = [reader EXCEPT ![d].grabbed = IF ok THEN dlocked[d] ELSE @]
      BY <1>12, <2>3 DEF Refresh
    <3> DEFINE r == [reader[d] EXCEPT !.grabbed = IF ok THEN dlocked[d] ELSE @]
    <3>2. reader' = [reader EXCEPT ![d] = r]
      BY <3>1
    <3> HIDE DEF r
    <3> QED BY <2>1, <3>2, ReaderKeepsOthers
  <2> QED BY <2>2, <2>3
<1>13. CASE Returned(d)
  BY <1>13, ReaderKeepsOthers DEF Returned, controllers
<1> QED BY <1>3, <1>4, <1>5, <1>6, <1>7, <1>8, <1>9, <1>10, <1>11, <1>12, <1>13 DEF Reader

(* While writing to a controller does not fail, a slot shown ready has a    *)
(* controller, however the threads take controllers out, put them back,     *)
(* create them and remove them around each other.                           *)
THEOREM ReadyCorrect ==
    ASSUME "emit" \notin Faults
    PROVE  Spec => []ReadyHasController
<1>1. Init => ReadyHasController
  BY DEF Init, ReadyHasController
<1>2. DaemonInv /\ ReadyHasController /\ [Next]_vars => ReadyHasController'
  <2> SUFFICES ASSUME DaemonInv, ReadyHasController, [Next]_vars PROVE ReadyHasController'
    OBVIOUS
  <2>1. \A s \in Slots : Has(s)
    BY ReadyHas
  <2>2. ASSUME UNCHANGED <<pads, ready, main>>,
               \A d \in Devices : reader[d].pc \in {"emit", "resync"} =>
                    reader'[d].pc = reader[d].pc /\ reader'[d].slot = reader[d].slot
        PROVE  \A s \in Slots : Has(s)'
    BY <2>1, <2>2 DEF Has, InHand
  <2>3. ASSUME UNCHANGED vars PROVE \A s \in Slots : Has(s)'
    <3>1. UNCHANGED <<pads, ready, main, reader>>
      BY <2>3 DEF vars, controllers
    <3> QED BY <2>1, <3>1 DEF Has, InHand
  <2>4. ASSUME Watcher PROVE \A s \in Slots : Has(s)'
    <3>1. UNCHANGED <<pads, ready, main>>
      BY <2>4 DEF Watcher, WatcherScan, WatcherSpawn, controllers
    <3>2. \A d \in Devices : reader[d].pc \in {"emit", "resync"} =>
                reader'[d].pc = reader[d].pc /\ reader'[d].slot = reader[d].slot
      BY <2>4 DEF Watcher, WatcherScan, WatcherSpawn, ensure_reader, active_readers, Spawn,
                  DaemonInv, DaemonTypeOK
    <3> QED BY <2>2, <3>1, <3>2
  <2>5. ASSUME NEW d \in Devices, Keyboard(d) PROVE \A s \in Slots : Has(s)'
    <3>1. UNCHANGED <<pads, ready, main>>
      BY <2>5 DEF Keyboard, Press, Release, PressKillSwitch, Unplug, Plug, controllers
    <3>2. CASE UNCHANGED reader
      BY <2>2, <3>1, <3>2
    <3>3. CASE Unplug(d)
      <4>1. reader' = [reader EXCEPT ![d] = [@ EXCEPT !.live = FALSE]]
        BY <3>3 DEF Unplug
      <4>2. \A e \in Devices : reader'[e].pc = reader[e].pc /\ reader'[e].slot = reader[e].slot
        BY <4>1 DEF DaemonInv, DaemonTypeOK, ReaderState
      <4> QED BY <2>2, <3>1, <4>2
    <3> QED BY <2>5, <3>2, <3>3 DEF Keyboard, Press, Release, PressKillSwitch, Plug
  <2> QED BY <2>1, <2>3, <2>4, <2>5, MainKeepsControllers, ReaderKeepsControllers, ReadyHasNext
          DEF Next
<1> QED BY <1>1, <1>2, DaemonInvAlways, PTL DEF Spec

-----------------------------------------------------------------------------
(* Keys.                                                                   *)

\* A release of k, or a SYN_DROPPED, lets go of k if it was held before.
Undoes(event, k) == event.kind = "dropped" \/ (event.kind = "release" /\ event.key = k)

UndoneAfter(q, i, k) == \E j \in 1..Len(q) : i < j /\ Undoes(q[j], k)

\* A reader that starts with these keys held does not hold k once it has read
\* the events q: whatever presses k is undone by a later event.
Frees(q, keys, k) ==
    /\ k \in keys => UndoneAfter(q, 0, k)
    /\ \A i \in 1..Len(q) :
            q[i].kind = "press" /\ q[i].key = k => UndoneAfter(q, i, k)

Killless(q) == \A i \in 1..Len(q) : q[i].kind # "kill"

LEMMA FreesEmpty ==
    ASSUME NEW keys, NEW k, k \notin keys
    PROVE  Frees(<<>>, keys, k)
BY DEF Frees

LEMMA KilllessEmpty == Killless(<<>>)
BY DEF Killless

\* Another event at the end does no harm, unless it presses k.
LEMMA FreesAppend ==
    ASSUME NEW q \in Seq(Events), NEW event \in Events, NEW keys, NEW k,
           ~(event.kind = "press" /\ event.key = k),
           Frees(q, keys, k) \/ Undoes(event, k)
    PROVE  Frees(Append(q, event), keys, k)
<1> DEFINE longer == Append(q, event)
<1>1. /\ Len(q) \in Nat /\ Len(longer) = Len(q) + 1
      /\ \A i \in 1..Len(q) : longer[i] = q[i]
      /\ longer[Len(q) + 1] = event
  BY AppendProperties, LenProperties
<1> HIDE DEF longer
<1>2. ASSUME NEW i \in 0..Len(q), Undoes(event, k) \/ UndoneAfter(q, i, k)
      PROVE  UndoneAfter(longer, i, k)
  <2>1. CASE Undoes(event, k)
    <3>1. Len(q) + 1 \in 1..Len(longer) /\ i < Len(q) + 1
      BY <1>1
    <3> QED BY <1>1, <2>1, <3>1 DEF UndoneAfter
  <2>2. CASE UndoneAfter(q, i, k)
    <3>1. PICK j \in 1..Len(q) : i < j /\ Undoes(q[j], k)
      BY <2>2 DEF UndoneAfter
    <3>2. j \in 1..Len(longer)
      BY <1>1
    <3> QED BY <1>1, <3>1, <3>2 DEF UndoneAfter
  <2> QED BY <1>2, <2>1, <2>2
<1>3. k \in keys => UndoneAfter(longer, 0, k)
  BY <1>1, <1>2 DEF Frees
<1>4. ASSUME NEW i \in 1..Len(longer), longer[i].kind = "press", longer[i].key = k
      PROVE  UndoneAfter(longer, i, k)
  <2>1. i \in 1..Len(q)
    BY <1>1, <1>4
  <2>2. q[i].kind = "press" /\ q[i].key = k
    BY <1>1, <1>4, <2>1
  <2>3. Undoes(event, k) \/ UndoneAfter(q, i, k)
    BY <2>1, <2>2 DEF Frees
  <2> QED BY <1>1, <1>2, <2>1, <2>3
<1>5. Frees(longer, keys, k)
  BY <1>3, <1>4 DEF Frees
<1> QED BY <1>5 DEF longer

\* What a buffer that ran over keeps undoes everything but its newest event.
LEMMA FreesDropped ==
    ASSUME NEW event, NEW keys, NEW k, ~(event.kind = "press" /\ event.key = k)
    PROVE  Frees(<<[kind |-> "dropped"], event>>, keys, k)
<1> DEFINE q == <<[kind |-> "dropped"], event>>
<1>1. Len(q) = 2 /\ q[1].kind = "dropped" /\ q[2] = event
  OBVIOUS
<1> HIDE DEF q
<1>2. UndoneAfter(q, 0, k)
  BY <1>1 DEF UndoneAfter, Undoes
<1>3. \A i \in 1..Len(q) : ~(q[i].kind = "press" /\ q[i].key = k)
  <2> SUFFICES ASSUME NEW i \in {1, 2} PROVE ~(q[i].kind = "press" /\ q[i].key = k)
    BY <1>1
  <2> QED BY <1>1
<1>4. Frees(q, keys, k)
  BY <1>2, <1>3 DEF Frees
<1> QED BY <1>4 DEF q

\* Reading the first event, with the keys it leaves, keeps what is to come.
LEMMA FreesTail ==
    ASSUME NEW q \in Seq(Events), q # <<>>, NEW keys, NEW k, Frees(q, keys, k),
           NEW left,
           \/ Head(q).kind = "press" /\ left = keys \cup {Head(q).key}
           \/ Head(q).kind = "release" /\ left = keys \ {Head(q).key}
    PROVE  Frees(Tail(q), left, k)
<1> DEFINE rest == Tail(q)
<1>1. /\ Len(q) \in Nat /\ Len(q) >= 1 /\ Len(rest) = Len(q) - 1 /\ q[1] = Head(q)
      /\ \A i \in 1..Len(rest) : rest[i] = q[i + 1]
  BY HeadTailProperties, LenProperties, EmptySeq
<1> HIDE DEF rest
<1>2. ASSUME NEW i \in 1..Len(q), UndoneAfter(q, i, k)
      PROVE  UndoneAfter(rest, i - 1, k)
  <2>1. PICK j \in 1..Len(q) : i < j /\ Undoes(q[j], k)
    BY <1>2 DEF UndoneAfter
  <2>2. j - 1 \in 1..Len(rest) /\ i - 1 < j - 1 /\ rest[j - 1] = q[j]
    <3>1. j - 1 \in 1..Len(rest) /\ i - 1 < j - 1
      BY <1>1, <2>1
    <3>2. rest[j - 1] = q[(j - 1) + 1]
      BY <1>1, <3>1
    <3> QED BY <3>1, <3>2
  <2> QED BY <2>1, <2>2 DEF UndoneAfter
<1>3. ASSUME k \in left PROVE UndoneAfter(rest, 0, k)
  <2>1. UndoneAfter(q, 1, k)
    <3>1. CASE Head(q).kind = "press" /\ Head(q).key = k
      BY <1>1, <3>1 DEF Frees
    <3>2. CASE ~(Head(q).kind = "press" /\ Head(q).key = k)
      <4>1. k \in keys /\ ~Undoes(q[1], k)
        BY <1>1, <1>3, <3>2 DEF Undoes
      <4>2. UndoneAfter(q, 0, k)
        BY <4>1 DEF Frees
      <4>3. PICK j \in 1..Len(q) : Undoes(q[j], k)
        BY <4>2 DEF UndoneAfter
      <4>4. 1 < j
        BY <4>1, <4>3, <1>1
      <4> QED BY <4>3, <4>4 DEF UndoneAfter
    <3> QED BY <3>1, <3>2
  <2>2. UndoneAfter(rest, 1 - 1, k)
    BY <1>1, <1>2, <2>1
  <2> QED BY <2>2
<1>4. ASSUME NEW i \in 1..Len(rest), rest[i].kind = "press", rest[i].key = k
      PROVE  UndoneAfter(rest, i, k)
  <2>1. i + 1 \in 1..Len(q) /\ rest[i] = q[i + 1]
    BY <1>1
  <2>2. UndoneAfter(q, i + 1, k)
    BY <1>4, <2>1 DEF Frees
  <2>3. UndoneAfter(rest, (i + 1) - 1, k)
    BY <1>2, <2>1, <2>2
  <2> QED BY <2>3
<1>5. Frees(rest, left, k)
  BY <1>3, <1>4 DEF Frees
<1> QED BY <1>5 DEF rest

LEMMA KilllessTail ==
    ASSUME NEW q \in Seq(Events), q # <<>>, Killless(q)
    PROVE  Killless(Tail(q)) /\ Head(q).kind # "kill"
<1>1. /\ Len(q) \in Nat /\ Len(q) >= 1 /\ Len(Tail(q)) = Len(q) - 1 /\ q[1] = Head(q)
      /\ \A i \in 1..Len(Tail(q)) : Tail(q)[i] = q[i + 1]
  BY HeadTailProperties, LenProperties, EmptySeq
<1> QED BY <1>1 DEF Killless

-----------------------------------------------------------------------------
\* What NoKeySticks needs of the user and of the calls: no key event finds its
\* slot without a controller, and no reader that fed a slot is replaced.
PlainUse ==
    /\ {"assign", "inject", "kill"} \cap User = {}
    /\ {"create", "emit"} \cap Faults = {}

\* A reader between its look at the tables and its end.
Attached(d) == reader[d].pc \in {"grab", "wedged", "read", "emit", "resync"}

\* Nothing is injected, and nothing is held before the readers start.
NothingEarly ==
    /\ main.pc # "inject"
    /\ main.pc \in {"scan", "restore"} =>
            \A s \in Slots : held[s] = {} /\ pads[s] \in {NoPad, {}}

\* Events are buffered only for an open keyboard.
BufferOf(d) ==
    /\ reader[d].pc \in {"none", "spawned", "returned"} => ~reader[d].live
    /\ ~reader[d].live => queue[d] = <<>>
    /\ Killless(queue[d])

\* The slot a thread reads for is its keyboard's, or nobody's.
SlotIsOwn(d) ==
    Attached(d) => /\ assigned[d] \in {NoSlot, reader[d].slot}
                   /\ \A e \in Devices \ {d} : assigned[e] # reader[d].slot

\* The controller of an assigned keyboard shows what the slot holds, or is
\* about to; the slot holds nothing before the keyboard is read.
ShowsHeld(d) ==
    LET s == assigned[d]
    IN  IF reader[d].pc \in {"emit", "resync"}
        THEN reader[d].current = held[s]
        ELSE pads[s] = held[s] /\ (reader[d].pc # "read" => held[s] = {})

\* A key that is up is not held, or an event that frees it is on its way.
FreesUp(d) == \A k \in Keys \ down[d] : Frees(queue[d], held[assigned[d]], k)

KeysOf(d) == assigned[d] # NoSlot => ShowsHeld(d) /\ (reader[d].live => FreesUp(d))

KeysInv ==
    /\ NothingEarly
    /\ \A d \in Devices : BufferOf(d) /\ SlotIsOwn(d) /\ KeysOf(d)

LEMMA KeysInvInit == Init => KeysInv
<1> SUFFICES ASSUME Init PROVE KeysInv
  OBVIOUS
<1>1. \A d \in Devices : reader[d].pc = "none" /\ ~reader[d].live /\ queue[d] = <<>>
                         /\ assigned[d] = NoSlot
  BY DEF Init, TablesInit, Gone
<1>2. NothingEarly
  BY DEF Init, NothingEarly, Serving
<1> QED BY <1>1, <1>2, KilllessEmpty DEF KeysInv, BufferOf, SlotIsOwn, KeysOf, Attached

\* A keyboard whose thread, events and keys stay, and whose slot stays what it
\* was or is taken away, keeps its part.
LEMMA KeyboardKept ==
    ASSUME DaemonInv, NEW d \in Devices, BufferOf(d), KeysOf(d),
           UNCHANGED <<reader[d], queue[d], down[d]>>,
           assigned'[d] \in {assigned[d], NoSlot},
           assigned'[d] # NoSlot => UNCHANGED <<held[assigned[d]], pads[assigned[d]]>>
    PROVE  BufferOf(d)' /\ KeysOf(d)'
BY DEF BufferOf, KeysOf, ShowsHeld, FreesUp

\* A slot has one keyboard at most.
LEMMA OneKeyboard ==
    ASSUME TablesInv, NEW d \in Devices, NEW e \in Devices,
           assigned[d] = assigned[e], assigned[d] # NoSlot
    PROVE  d = e
BY DEF TablesInv, TablesTypeOK, SlotAgreesWithDevice

\* The main thread and the watcher: a thread is started, or none changes.
LEMMA MainKeepsKeys ==
    ASSUME PlainUse, DaemonInv, KeysInv, Main \/ Watcher
    PROVE  KeysInv'
<1> USE DEF DaemonInv, DaemonTypeOK
<1>1. ASSUME UNCHANGED <<kernel, controllers>>, assigned' = assigned,
             \A d \in Devices : \/ reader'[d] = reader[d]
                                \/ reader[d].pc = "none" /\ reader'[d] = [Gone EXCEPT !.pc = "spawned"],
             main'.pc # "inject",
             main'.pc \in {"scan", "restore"} => main.pc \in {"scan", "restore"}
      PROVE  KeysInv'
  <2>1. NothingEarly'
    BY <1>1 DEF KeysInv, NothingEarly, controllers
  <2>2. ASSUME NEW d \in Devices PROVE BufferOf(d)' /\ SlotIsOwn(d)' /\ KeysOf(d)'
    <3>1. BufferOf(d) /\ SlotIsOwn(d) /\ KeysOf(d)
      BY DEF KeysInv
    <3>2. CASE reader'[d] = reader[d]
      <4>1. UNCHANGED <<queue, down, held, pads>>
        BY <1>1 DEF kernel, controllers
      <4>2. BufferOf(d)' /\ KeysOf(d)'
        BY <1>1, <3>1, <3>2, <4>1, KeyboardKept
      <4> QED BY <1>1, <3>1, <3>2, <4>2 DEF SlotIsOwn, Attached
    <3>3. CASE reader[d].pc = "none" /\ reader'[d] = [Gone EXCEPT !.pc = "spawned"]
      <4>1. reader'[d].pc = "spawned" /\ ~reader'[d].live
        BY <3>3 DEF Gone
      <4>2. UNCHANGED <<queue, down, held, pads, assigned>>
        BY <1>1 DEF kernel, controllers
      <4> QED BY <3>1, <3>3, <4>1, <4>2
              DEF BufferOf, SlotIsOwn, Attached, KeysOf, ShowsHeld
    <3> QED BY <1>1, <3>2, <3>3
  <2> QED BY <2>1, <2>2 DEF KeysInv
<1>2. CASE Scan
  BY <1>1, <1>2 DEF Scan, rescan_devices
<1>3. CASE StartReaders
  <2>1. \A d \in Devices : \/ reader'[d] = reader[d]
                           \/ reader[d].pc = "none" /\ reader'[d] = [Gone EXCEPT !.pc = "spawned"]
    BY <1>3 DEF StartReaders, NoEarlyReader
  <2> QED BY <1>1, <1>3, <2>1 DEF StartReaders, Serving, tables
<1>4. ASSUME NEW d \in Devices, ensure_reader(d)
      PROVE  \A e \in Devices :
                \/ reader'[e] = reader[e]
                \/ reader[e].pc = "none" /\ reader'[e] = [Gone EXCEPT !.pc = "spawned"]
  BY <1>4 DEF ensure_reader, active_readers, Spawn
<1>5. CASE EnsureReader
  BY <1>1, <1>4, <1>5 DEF EnsureReader, Serving, tables
<1>6. ASSUME NEW d \in Devices, RestoreLock(d) \/ LockDevice(d) \/ UnlockDevice(d)
      PROVE  KeysInv'
  <2>1. UNCHANGED <<kernel, controllers, reader>> /\ assigned' = assigned
    BY <1>6 DEF RestoreLock, LockDevice, UnlockDevice, set_device_locked
  <2>2. main'.pc # "inject" /\ (main'.pc \in {"scan", "restore"} => main.pc \in {"scan", "restore"})
    BY <1>6 DEF RestoreLock, LockDevice, UnlockDevice, Serve, ThenEnsure, Serving
  <2> QED BY <1>1, <2>1, <2>2
<1>7. ASSUME NEW d \in Devices, NEW s \in Slots, RestoreAssignment(d, s)
      PROVE  KeysInv'
  <2>1. /\ Assign(d, s) /\ main.pc = "restore" /\ UNCHANGED <<queue, reader, main>>
        /\ \A e \in Devices : reader[e].pc = "none"
        /\ \A t \in Slots : held[t] = {} /\ pads[t] \in {NoPad, {}}
    BY <1>7 DEF RestoreAssignment, kernel, NoEarlyReader, KeysInv, NothingEarly
  <2>2. pads' = [pads EXCEPT ![s] = {}]
    <3>1. pads' = [pads EXCEPT ![s] = IF @ = NoPad THEN {} ELSE @]
      BY <2>1 DEF Assign, Outcome, PlainUse
    <3> QED BY <2>1, <3>1
  <2>3. \A t \in Slots : held'[t] = {}
    BY <2>1 DEF Assign
  <2>4. \A e \in Devices : assigned'[e] = IF e = d THEN s
                                          ELSE IF assigned[e] = s THEN NoSlot
                                          ELSE assigned[e]
    BY <2>1 DEF Assign, assign_device
  <2>5. NothingEarly'
    BY <2>1, <2>2, <2>3 DEF NothingEarly
  <2>6. ASSUME NEW e \in Devices PROVE BufferOf(e)' /\ SlotIsOwn(e)' /\ KeysOf(e)'
    <3>1. BufferOf(e) /\ ~reader[e].live /\ reader[e].pc = "none" /\ KeysOf(e)
      BY <2>1 DEF KeysInv, BufferOf
    <3>2. ShowsHeld(e)' \/ assigned'[e] = NoSlot
      <4>1. CASE assigned'[e] = s
        BY <2>1, <2>2, <2>3, <3>1, <4>1 DEF ShowsHeld
      <4>2. CASE assigned'[e] # s /\ assigned'[e] # NoSlot
        <5>1. assigned'[e] = assigned[e] /\ assigned[e] \in Slots
          BY <2>4, <4>2 DEF TablesInv, TablesTypeOK
        <5>2. pads[assigned[e]] = {}
          BY <2>1, <3>1, <4>2, <5>1 DEF KeysOf, ShowsHeld
        <5> QED BY <2>1, <2>2, <2>3, <3>1, <4>2, <5>1, <5>2 DEF ShowsHeld
      <4> QED BY <4>1, <4>2
    <3> QED BY <2>1, <3>1, <3>2 DEF BufferOf, SlotIsOwn, Attached, KeysOf
  <2> QED BY <2>5, <2>6 DEF KeysInv
<1>8. ASSUME NEW s \in Slots, UnassignSlot(s)
      PROVE  KeysInv'
  <2>1. /\ main.pc = "serve" /\ UNCHANGED <<kernel, reader, main>>
        /\ \A t \in Slots \ {s} : UNCHANGED <<held[t], pads[t]>>
        /\ \A e \in Devices : assigned'[e] = IF e = sdevice[s] THEN NoSlot ELSE assigned[e]
    BY <1>8 DEF UnassignSlot, unassign_slot, Serve
  <2>2. ASSUME NEW e \in Devices PROVE BufferOf(e)' /\ SlotIsOwn(e)' /\ KeysOf(e)'
    <3>1. BufferOf(e) /\ SlotIsOwn(e) /\ KeysOf(e)
      BY DEF KeysInv
    <3>2. assigned'[e] # NoSlot => UNCHANGED <<held[assigned[e]], pads[assigned[e]]>>
      BY <2>1 DEF TablesInv, TablesTypeOK, SlotAgreesWithDevice
    <3>3. UNCHANGED <<reader[e], queue[e], down[e]>>
      BY <2>1 DEF kernel
    <3>4. BufferOf(e)' /\ KeysOf(e)'
      BY <2>1, <3>1, <3>2, <3>3, KeyboardKept
    <3>5. SlotIsOwn(e)'
      <4>1. Attached(e) => reader[e].slot \in Slots
        BY DEF Attached
      <4> QED BY <2>1, <3>1, <4>1, TablesAssumption DEF SlotIsOwn, Attached
    <3> QED BY <3>4, <3>5
  <2>3. NothingEarly'
    BY <2>1 DEF NothingEarly
  <2> QED BY <2>2, <2>3 DEF KeysInv
<1>9. CASE WatcherScan
  BY <1>1, <1>9 DEF WatcherScan, rescan_devices, KeysInv, NothingEarly
<1>10. ASSUME NEW d \in Devices, WatcherSpawn(d)
       PROVE  KeysInv'
  BY <1>1, <1>4, <1>10 DEF WatcherSpawn, tables, KeysInv, NothingEarly
<1>11. ~InjectDone
  BY DEF InjectDone, KeysInv, NothingEarly
<1>12. /\ \A s \in Slots : ~InjectTestAction(s)
       /\ \A d \in Devices, s \in Slots : ~AssignDevice(d, s)
  BY Zenon DEF InjectTestAction, AssignDevice, Serve, PlainUse
<1> QED BY <1>2, <1>3, <1>5, <1>6, <1>7, <1>8, <1>9, <1>10, <1>11, <1>12
        DEF Main, MainContinues, Watcher

\* What every step of a reader leaves alone: the other keyboards, and every
\* slot but the one it reads for.
LEMMA ReaderFrame ==
    ASSUME DaemonInv, KeysInv, NEW d \in Devices, reader[d].pc # "none",
           UNCHANGED <<assigned, down, main>>,
           \A e \in Devices \ {d} : UNCHANGED <<reader[e], queue[e]>>,
           \A s \in Slots : \/ UNCHANGED <<held[s], pads[s]>>
                            \/ Attached(d) /\ s = reader[d].slot,
           Attached(d)' => \/ reader'[d].slot = assigned[d] /\ assigned[d] # NoSlot
                           \/ reader'[d].slot = reader[d].slot /\ Attached(d),
           BufferOf(d)', KeysOf(d)'
    PROVE  KeysInv'
<1> USE DEF DaemonInv, DaemonTypeOK
<1>1. NothingEarly'
  BY DEF KeysInv, NothingEarly, NoEarlyReader
<1>2. SlotIsOwn(d)'
  <2>1. CASE reader'[d].slot = assigned[d] /\ assigned[d] # NoSlot
    <3>1. \A e \in Devices \ {d} : assigned[e] # assigned[d]
      BY <2>1, OneKeyboard
    <3> QED BY <2>1, <3>1 DEF SlotIsOwn
  <2>2. CASE reader'[d].slot = reader[d].slot /\ Attached(d)
    BY <2>2 DEF SlotIsOwn, KeysInv
  <2> QED BY <2>1, <2>2 DEF SlotIsOwn
<1>3. ASSUME NEW e \in Devices \ {d} PROVE BufferOf(e)' /\ SlotIsOwn(e)' /\ KeysOf(e)'
  <2>1. BufferOf(e) /\ SlotIsOwn(e) /\ KeysOf(e) /\ SlotIsOwn(d)
    BY DEF KeysInv
  <2>2. assigned[e] # NoSlot => UNCHANGED <<held[assigned[e]], pads[assigned[e]]>>
    BY <2>1 DEF SlotIsOwn, TablesInv, TablesTypeOK
  <2>3. BufferOf(e)' /\ KeysOf(e)'
    BY <2>1, <2>2, KeyboardKept
  <2> QED BY <2>1, <2>3 DEF SlotIsOwn, Attached
<1> QED BY <1>1, <1>2, <1>3 DEF KeysInv

\* The loop returns only from a keyboard that is not assigned to the slot it
\* was read for, or that was not read yet.
LEMMA ReturnKeepsKeys ==
    ASSUME DaemonInv, KeysInv, NEW d \in Devices, Return(d),
           \/ reader[d].pc \in {"spawned", "opened"}
           \/ reader[d].pc = "read" /\ assigned[d] # reader[d].slot,
           UNCHANGED <<assigned, down, held, pads, main>>
    PROVE  KeysInv'
<1> USE DEF DaemonInv, DaemonTypeOK
<1>1. reader'[d].pc = "returned" /\ ~reader'[d].live /\ queue'[d] = <<>>
  BY DEF Return, Gone
<1>2. BufferOf(d) /\ KeysOf(d) /\ SlotIsOwn(d)
  BY DEF KeysInv
<1>3. BufferOf(d)'
  BY <1>1, KilllessEmpty DEF BufferOf
<1>4. KeysOf(d)'
  <2>1. CASE reader[d].pc \in {"spawned", "opened"}
    BY <1>1, <1>2, <2>1 DEF KeysOf, ShowsHeld
  <2>2. CASE reader[d].pc = "read" /\ assigned[d] # reader[d].slot
    BY <1>1, <1>2, <2>2 DEF KeysOf, SlotIsOwn, Attached
  <2> QED BY <2>1, <2>2
<1>5. \A e \in Devices \ {d} : UNCHANGED <<reader[e], queue[e]>>
  BY DEF Return
<1>6. ~Attached(d)' /\ reader[d].pc # "none"
  BY <1>1 DEF Attached
<1> QED BY <1>3, <1>4, <1>5, <1>6, ReaderFrame

\* A reader's steps up to its first event, and its looks at the tables.
LEMMA ReaderWaitsKeys ==
    ASSUME DaemonInv, KeysInv, NEW d \in Devices, NEW r,
           reader' = [reader EXCEPT ![d] = r],
           UNCHANGED <<assigned, queue, down, held, pads, main>>,
           reader[d].pc \in {"spawned", "opened", "grab", "read"},
           r.pc \in {"opened", "grab", "wedged", "read"},
           reader[d].pc = "read" => r.pc = "read",
           reader[d].live => r.live,
           r.live => reader[d].live \/ reader[d].pc = "spawned",
           r.pc # "opened" => \/ r.slot = assigned[d] /\ assigned[d] # NoSlot
                              \/ r.slot = reader[d].slot /\ Attached(d)
    PROVE  KeysInv'
<1> USE DEF DaemonInv, DaemonTypeOK
<1>1. reader'[d] = r /\ reader[d].pc \notin {"none", "emit", "resync"}
  OBVIOUS
<1>2. BufferOf(d) /\ KeysOf(d)
  BY DEF KeysInv
<1>3. BufferOf(d)'
  BY <1>1, <1>2 DEF BufferOf
<1>4. KeysOf(d)'
  <2> SUFFICES ASSUME assigned[d] # NoSlot
               PROVE  ShowsHeld(d)' /\ (r.live => FreesUp(d)')
    BY <1>1 DEF KeysOf
  <2>1. ShowsHeld(d)'
    BY <1>1, <1>2 DEF KeysOf, ShowsHeld
  <2>2. ASSUME r.live, reader[d].live PROVE FreesUp(d)'
    BY <1>2, <2>2 DEF KeysOf, FreesUp
  <2>3. ASSUME r.live, reader[d].pc = "spawned" PROVE FreesUp(d)'
    <3>1. queue[d] = <<>> /\ held[assigned[d]] = {}
      BY <1>2, <2>3 DEF BufferOf, KeysOf, ShowsHeld
    <3> QED BY <3>1, FreesEmpty DEF FreesUp
  <2> QED BY <2>1, <2>2, <2>3
<1>5. Attached(d)' => \/ reader'[d].slot = assigned[d] /\ assigned[d] # NoSlot
                      \/ reader'[d].slot = reader[d].slot /\ Attached(d)
  BY <1>1 DEF Attached
<1>6. \A e \in Devices \ {d} : UNCHANGED <<reader[e], queue[e]>>
  OBVIOUS
<1> QED BY <1>1, <1>3, <1>4, <1>5, <1>6, ReaderFrame

\* A reader handles its first event: the keys it leaves are as free as they
\* were, and it takes the controller out to show them, unless they stay.
LEMMA ReaderReadsKeys ==
    ASSUME DaemonInv, KeysInv, NEW d \in Devices, NEW s \in Slots, s = reader[d].slot,
           reader[d].pc = "read", reader'[d].slot = s, reader'[d].live,
           \A e \in Devices \ {d} : UNCHANGED <<reader[e], queue[e]>>,
           \A t \in Slots \ {s} : UNCHANGED <<held[t], pads[t]>>,
           UNCHANGED <<assigned, down, main>>, reader[d].live,
           Killless(queue'[d]),
           \A k \in Keys \ down[d] :
                Frees(queue[d], held[s], k) => Frees(queue'[d], held'[s], k),
           \/ reader'[d].pc \in {"emit", "resync"} /\ reader'[d].current = held'[s]
           \/ /\ reader'[d].pc = "read" /\ pads'[s] = pads[s]
              /\ held'[s] = held[s] \/ pads[s] = NoPad
    PROVE  KeysInv'
<1> USE DEF DaemonInv, DaemonTypeOK
<1>1. Attached(d) /\ SlotIsOwn(d) /\ KeysOf(d)
  BY DEF KeysInv, Attached
<1>2. BufferOf(d)'
  BY DEF BufferOf
<1>3. KeysOf(d)'
  <2> SUFFICES ASSUME assigned[d] # NoSlot
               PROVE  ShowsHeld(d)' /\ FreesUp(d)'
    BY DEF KeysOf
  <2>1. assigned[d] = s
    BY <1>1 DEF SlotIsOwn
  <2>2. pads[s] = held[s] /\ FreesUp(d)
    BY <1>1, <2>1 DEF KeysOf, ShowsHeld
  <2>3. pads[s] # NoPad
    BY <2>2, DaemonAssumption
  <2>4. FreesUp(d)'
    BY <2>1, <2>2 DEF FreesUp
  <2>5. ShowsHeld(d)'
    BY <2>1, <2>2, <2>3 DEF ShowsHeld
  <2> QED BY <2>4, <2>5
<1>4. \A t \in Slots : UNCHANGED <<held[t], pads[t]>> \/ t = s
  OBVIOUS
<1> HIDE DEF DaemonInv, DaemonTypeOK
<1> QED BY <1>1, <1>2, <1>3, <1>4, ReaderFrame

\* A controller that was taken out comes back with what the slot holds.
LEMMA ReaderPutsBackKeys ==
    ASSUME DaemonInv, KeysInv, NEW d \in Devices,
           reader[d].pc \in {"emit", "resync"}, ToRead(d),
           pads' = [pads EXCEPT ![reader[d].slot] = reader[d].current],
           UNCHANGED <<assigned, queue, down, held, main>>
    PROVE  KeysInv'
<1> USE DEF DaemonInv, DaemonTypeOK
<1> DEFINE r == [reader[d] EXCEPT !.pc = "read", !.pad = NoPad, !.current = {}]
<1>1. /\ r.pc = "read" /\ r.slot = reader[d].slot /\ r.live = reader[d].live
      /\ reader' = [reader EXCEPT ![d] = r]
  <2>1. reader[d] \in ReaderState
    OBVIOUS
  <2> QED BY <2>1 DEF ReaderState, ToRead
<1> HIDE DEF r
<1>2. reader'[d] = r /\ Attached(d) /\ reader[d].slot \in Slots
  BY <1>1 DEF Attached
<1>3. BufferOf(d) /\ SlotIsOwn(d) /\ KeysOf(d)
  BY DEF KeysInv
<1>4. BufferOf(d)'
  BY <1>1, <1>2, <1>3 DEF BufferOf
<1>5. KeysOf(d)'
  <2> SUFFICES ASSUME assigned[d] # NoSlot
               PROVE  ShowsHeld(d)' /\ (r.live => FreesUp(d)')
    BY <1>2 DEF KeysOf
  <2>1. assigned[d] = reader[d].slot
    BY <1>2, <1>3 DEF SlotIsOwn
  <2>2. ShowsHeld(d)'
    BY <1>1, <1>2, <1>3, <2>1 DEF KeysOf, ShowsHeld
  <2>3. r.live => FreesUp(d)'
    BY <1>1, <1>3 DEF KeysOf, FreesUp
  <2> QED BY <2>2, <2>3
<1>6. \A e \in Devices \ {d} : UNCHANGED <<reader[e], queue[e]>>
  BY <1>1
<1>7. \A t \in Slots : UNCHANGED <<held[t], pads[t]>> \/ t = reader[d].slot
  OBVIOUS
<1>8. reader'[d].slot = reader[d].slot
  BY <1>1, <1>2
<1> HIDE DEF DaemonInv, DaemonTypeOK
<1> QED BY <1>2, <1>4, <1>5, <1>6, <1>7, <1>8, ReaderFrame

\* What a reader does with the keys.
LEMMA ReaderKeepsKeys ==
    ASSUME PlainUse, DaemonInv, KeysInv, NEW d \in Devices, Reader(d)
    PROVE  KeysInv'
<1> USE DEF DaemonInv, DaemonTypeOK
<1>q. /\ reader[d] \in ReaderState /\ queue[d] \in Seq(Events)
      /\ BufferOf(d) /\ SlotIsOwn(d) /\ KeysOf(d)
  BY DEF KeysInv
<1>1. CASE Open(d)
  <2> DEFINE r == [reader[d] EXCEPT !.pc = "opened", !.live = TRUE]
  <2>1. r.pc = "opened" /\ r.live /\ reader' = [reader EXCEPT ![d] = r]
    BY <1>1, <1>q DEF Open, ReaderState
  <2>2. /\ UNCHANGED <<assigned, queue, down, held, pads, main>>
        /\ reader[d].pc = "spawned"
    BY <1>1 DEF Open, tables, kernel, controllers
  <2> HIDE DEF r, DaemonInv, DaemonTypeOK
  <2> QED BY <2>1, <2>2, ReaderWaitsKeys
<1>2. CASE OpenFailed(d)
  <2>1. /\ Return(d) /\ reader[d].pc = "spawned"
        /\ UNCHANGED <<assigned, down, held, pads, main>>
    BY <1>2 DEF OpenFailed, mark_disconnected, controllers
  <2> QED BY <2>1, ReturnKeepsKeys
<1>3. CASE ReadSlot(d)
  <2>1. UNCHANGED <<assigned, down, held, pads, main>> /\ reader[d].pc = "opened"
    BY <1>3 DEF ReadSlot, tables, controllers
  <2>2. CASE assigned[d] = NoSlot
    BY <1>3, <2>1, <2>2, ReturnKeepsKeys DEF ReadSlot
  <2>3. CASE assigned[d] # NoSlot
    <3> DEFINE r == [reader[d] EXCEPT !.pc = "grab", !.slot = assigned[d]]
    <3>1. /\ r.pc = "grab" /\ r.slot = assigned[d] /\ r.live = reader[d].live
          /\ reader' = [reader EXCEPT ![d] = r] /\ UNCHANGED queue
      BY <1>3, <1>q, <2>3 DEF ReadSlot, ReaderState
    <3> HIDE DEF r, DaemonInv, DaemonTypeOK
    <3> QED BY <2>1, <2>3, <3>1, ReaderWaitsKeys
  <2> QED BY <2>2, <2>3
<1>4. CASE InitialGrab(d)
  <2>1. UNCHANGED <<assigned, queue, down, held, pads, main>> /\ reader[d].pc = "grab"
    BY <1>4 DEF InitialGrab, tables, kernel, controllers
  <2> DEFINE on == [reader[d] EXCEPT !.pc = "read", !.grabbed = dlocked[d]]
             stuck == [reader[d] EXCEPT !.pc = "wedged"]
  <2>2. /\ on.pc = "read" /\ on.slot = reader[d].slot /\ on.live = reader[d].live
        /\ stuck.pc = "wedged" /\ stuck.slot = reader[d].slot /\ stuck.live = reader[d].live
    BY <1>q DEF ReaderState
  <2>3. \/ reader' = [reader EXCEPT ![d] = on]
        \/ reader' = [reader EXCEPT ![d] = stuck]
    BY <1>4 DEF InitialGrab
  <2>4. Attached(d)
    BY <2>1 DEF Attached
  <2> HIDE DEF on, stuck, DaemonInv, DaemonTypeOK
  <2>5. CASE reader' = [reader EXCEPT ![d] = on]
    BY <2>1, <2>2, <2>4, <2>5, ReaderWaitsKeys
  <2>6. CASE reader' = [reader EXCEPT ![d] = stuck]
    BY <2>1, <2>2, <2>4, <2>6, ReaderWaitsKeys
  <2> QED BY <2>3, <2>5, <2>6
<1>5. ASSUME Reads(d, {"press", "release", "dropped", "kill"})
      PROVE  /\ reader[d].pc = "read" /\ reader[d].live /\ queue[d] # <<>>
             /\ Killless(Tail(queue[d])) /\ Head(queue[d]).kind # "kill"
  <2>1. reader[d].pc = "read" /\ queue[d] # <<>> /\ reader[d].live /\ Killless(queue[d])
    BY <1>5, <1>q DEF Reads, BufferOf
  <2> QED BY <1>q, <2>1, KilllessTail
<1>6. CASE HandleKeyEvent(d)
  <2> DEFINE s == reader[d].slot
             event == Head(queue[d])
             current == IF event.kind = "press" THEN held[s] \cup {event.key}
                        ELSE held[s] \ {event.key}
             rest == Tail(queue[d])
  <2>1. /\ reader[d].pc = "read" /\ reader[d].live /\ queue[d] # <<>> /\ Killless(rest)
        /\ event.kind \in {"press", "release"}
    BY <1>5, <1>6 DEF HandleKeyEvent, Reads
  <2>2. UNCHANGED <<assigned, down, main>> /\ queue' = [queue EXCEPT ![d] = rest]
    BY <1>6 DEF HandleKeyEvent, tables
  <2>3. \/ event.kind = "press" /\ current = held[s] \cup {event.key}
        \/ event.kind = "release" /\ current = held[s] \ {event.key}
    BY <2>1
  <2>4. \A k \in Keys : Frees(queue[d], held[s], k) => Frees(rest, current, k)
    <3> HIDE DEF current
    <3> QED BY <1>q, <2>1, <2>3, FreesTail
  <2>5. CASE pads[s] = NoPad
    <3>1. UNCHANGED <<held, pads, reader>>
      BY <1>6, <2>5 DEF HandleKeyEvent
    <3>2. assigned[d] = NoSlot
      <4>1. held[s] # NoPad /\ Attached(d)
        BY <2>1, DaemonAssumption DEF Attached
      <4> QED BY <1>q, <2>1, <2>5, <4>1 DEF SlotIsOwn, KeysOf, ShowsHeld
    <3>3. BufferOf(d)' /\ KeysOf(d)'
      BY <1>q, <2>1, <2>2, <3>1, <3>2 DEF BufferOf, KeysOf
    <3>4. \A e \in Devices \ {d} : UNCHANGED <<reader[e], queue[e]>>
      BY <2>2, <3>1
    <3>5. UNCHANGED reader[d] /\ reader[d].pc # "none" /\ Attached(d)
      BY <2>1, <3>1 DEF Attached
    <3>6. \A t \in Slots : UNCHANGED <<held[t], pads[t]>>
      BY <3>1
    <3> HIDE DEF DaemonInv, DaemonTypeOK
    <3> QED BY <2>2, <3>3, <3>4, <3>5, <3>6, ReaderFrame
  <2>6. CASE pads[s] # NoPad
    <3> DEFINE r == [reader[d] EXCEPT !.pc = "emit", !.pad = pads[s], !.current = current]
    <3>1. r.pc = "emit" /\ r.slot = s /\ r.live = reader[d].live /\ r.current = current
      <4> HIDE DEF current
      <4> QED BY <1>q DEF ReaderState
    <3>2. /\ reader' = [reader EXCEPT ![d] = r]
          /\ held' = [held EXCEPT ![s] = current]
          /\ pads' = [pads EXCEPT ![s] = NoPad]
      BY <1>6, <2>6 DEF HandleKeyEvent
    <3>3. s \in Slots
      BY <2>1
    <3> HIDE DEF r, current, rest
    <3>4. /\ reader'[d] = r /\ queue'[d] = rest /\ held'[s] = current
          /\ \A e \in Devices \ {d} : UNCHANGED <<reader[e], queue[e]>>
          /\ \A t \in Slots \ {s} : UNCHANGED <<held[t], pads[t]>>
      BY <2>2, <3>2, <3>3
    <3> HIDE DEF DaemonInv, DaemonTypeOK
    <3> QED BY <2>1, <2>2, <2>4, <3>1, <3>3, <3>4, ReaderReadsKeys
  <2> QED BY <2>5, <2>6
<1>7. CASE HandleSynDropped(d)
  <2> DEFINE s == reader[d].slot
  <2>1. /\ reader[d].pc = "read" /\ reader[d].live /\ s \in Slots
        /\ UNCHANGED <<assigned, down, main>>
        /\ queue' = [queue EXCEPT ![d] = <<>>]
        /\ held' = [held EXCEPT ![s] = down[d]]
    BY <1>5, <1>7 DEF HandleSynDropped, Reads, tables
  <2>2. /\ queue'[d] = <<>> /\ held'[s] = down[d] /\ Killless(queue'[d])
        /\ \A k \in Keys \ down[d] : Frees(queue'[d], held'[s], k)
    <3>1. queue'[d] = <<>> /\ held'[s] = down[d]
      BY <2>1
    <3> QED BY <3>1, FreesEmpty, KilllessEmpty
  <2>3. CASE held[s] = down[d] \/ pads[s] = NoPad
    <3>1. UNCHANGED <<pads, reader>>
      BY <1>7, <2>3 DEF HandleSynDropped
    <3>2. /\ \A e \in Devices \ {d} : UNCHANGED <<reader[e], queue[e]>>
          /\ \A t \in Slots \ {s} : UNCHANGED <<held[t], pads[t]>>
      BY <2>1, <3>1
    <3> HIDE DEF DaemonInv, DaemonTypeOK
    <3> QED BY <2>1, <2>2, <2>3, <3>1, <3>2, ReaderReadsKeys
  <2>4. CASE ~(held[s] = down[d] \/ pads[s] = NoPad)
    <3> DEFINE r == [reader[d] EXCEPT !.pc = "resync", !.pad = pads[s], !.current = down[d]]
    <3>1. r.pc = "resync" /\ r.slot = s /\ r.live = reader[d].live /\ r.current = down[d]
      BY <1>q DEF ReaderState
    <3>2. reader' = [reader EXCEPT ![d] = r] /\ pads' = [pads EXCEPT ![s] = NoPad]
      BY <1>7, <2>4 DEF HandleSynDropped
    <3> HIDE DEF r
    <3>3. /\ reader'[d] = r
          /\ \A e \in Devices \ {d} : UNCHANGED <<reader[e], queue[e]>>
          /\ \A t \in Slots \ {s} : UNCHANGED <<held[t], pads[t]>>
      BY <2>1, <3>2
    <3> HIDE DEF DaemonInv, DaemonTypeOK
    <3>4. /\ reader'[d].slot = s /\ reader'[d].live = reader[d].live
          /\ reader'[d].pc = "resync" /\ reader'[d].current = held'[s]
      BY <2>2, <3>1, <3>3
    <3>5. \A k \in Keys \ down[d] : Frees(queue[d], held[s], k) => Frees(queue'[d], held'[s], k)
      BY <2>2
    <3> QED BY <2>1, <2>2, <3>3, <3>4, <3>5, ReaderReadsKeys
  <2> QED BY <2>3, <2>4
<1>8. CASE Emitted(d)
  <2>1. /\ reader[d].pc = "emit" /\ ToRead(d)
        /\ pads' = [pads EXCEPT ![reader[d].slot] = reader[d].current]
        /\ UNCHANGED <<assigned, queue, down, held, main>>
    BY <1>8 DEF Emitted, Outcome, PlainUse, tables, kernel
  <2> QED BY <2>1, ReaderPutsBackKeys
<1>9. CASE Resynced(d)
  <2>1. /\ reader[d].pc = "resync" /\ ToRead(d)
        /\ pads' = [pads EXCEPT ![reader[d].slot] = reader[d].current]
        /\ UNCHANGED <<assigned, queue, down, held, main>>
    BY <1>9 DEF Resynced, Outcome, PlainUse, tables, kernel
  <2> QED BY <2>1, ReaderPutsBackKeys
<1>10. CASE KillSwitch(d)
  BY <1>5, <1>10 DEF KillSwitch, Reads
<1>11. CASE Refresh(d)
  <2>1. UNCHANGED <<assigned, down, held, pads, main>> /\ reader[d].pc = "read"
    BY <1>11 DEF Refresh, tables, controllers
  <2>2. CASE assigned[d] # reader[d].slot
    BY <1>11, <2>1, <2>2, ReturnKeepsKeys DEF Refresh
  <2>3. CASE assigned[d] = reader[d].slot
    <3>1. PICK ok \in GrabOutcome(d) :
            reader' = [reader EXCEPT ![d].grabbed = IF ok THEN dlocked[d] ELSE @]
      BY <1>11, <2>3 DEF Refresh
    <3> DEFINE r == [reader[d] EXCEPT !.grabbed = IF ok THEN dlocked[d] ELSE @]
    <3>2. /\ reader' = [reader EXCEPT ![d] = r] /\ UNCHANGED queue
          /\ r.pc = "read" /\ r.slot = reader[d].slot /\ r.live = reader[d].live
      BY <1>11, <1>q, <2>1, <2>3, <3>1 DEF Refresh, ReaderState
    <3>3. Attached(d)
      BY <2>1 DEF Attached
    <3> HIDE DEF r, DaemonInv, DaemonTypeOK
    <3> QED BY <2>1, <3>2, <3>3, ReaderWaitsKeys
  <2> QED BY <2>2, <2>3
<1>12. CASE Returned(d)
  <2>1. /\ reader' = [reader EXCEPT ![d] = Gone] /\ reader[d].pc = "returned"
        /\ UNCHANGED <<assigned, queue, down, held, pads, main>>
    BY <1>12 DEF Returned, tables, kernel, controllers
  <2>2. reader'[d].pc = "none" /\ ~reader'[d].live
    BY <2>1 DEF Gone
  <2>3. BufferOf(d)' /\ KeysOf(d)' /\ ~Attached(d)'
    BY <1>q, <2>1, <2>2 DEF BufferOf, KeysOf, ShowsHeld, Attached
  <2>4. /\ \A e \in Devices \ {d} : UNCHANGED <<reader[e], queue[e]>>
        /\ \A t \in Slots : UNCHANGED <<held[t], pads[t]>>
    BY <2>1
  <2> HIDE DEF DaemonInv, DaemonTypeOK
  <2> QED BY <2>1, <2>3, <2>4, ReaderFrame
<1> QED BY <1>1, <1>2, <1>3, <1>4, <1>6, <1>7, <1>8, <1>9, <1>10, <1>11, <1>12 DEF Reader

\* The kernel buffers an event that is no kill switch: the keys that are up now
\* are freed, the one just released by its own event.
LEMMA BufferKeepsKeys ==
    ASSUME DaemonInv, KeysInv, NEW d \in Devices, NEW event \in Events, Buffer(d, event),
           event.kind # "kill",
           UNCHANGED <<tables, plugged, held, pads, reader, main>>,
           down' \in [Devices -> SUBSET Keys],
           \A e \in Devices \ {d} : down'[e] = down[e],
           \A k \in Keys \ down'[d] :
                /\ ~(event.kind = "press" /\ event.key = k)
                /\ k \in down[d] => Undoes(event, k)
    PROVE  KeysInv'
<1> USE DEF DaemonInv, DaemonTypeOK
<1>1. queue[d] \in Seq(Events) /\ BufferOf(d) /\ SlotIsOwn(d) /\ KeysOf(d)
  BY DEF KeysInv
<1>2. \A e \in Devices \ {d} : queue'[e] = queue[e]
  BY DEF Buffer
<1>3. CASE ~reader[d].live
  <2>1. queue' = queue
    BY <1>3 DEF Buffer
  <2>2. BufferOf(d)' /\ KeysOf(d)'
    BY <1>1, <1>3, <2>1 DEF BufferOf, KeysOf, ShowsHeld, tables
  <2>3. \A e \in Devices : BufferOf(e)' /\ SlotIsOwn(e)' /\ KeysOf(e)'
    <3> SUFFICES ASSUME NEW e \in Devices
                 PROVE  BufferOf(e)' /\ SlotIsOwn(e)' /\ KeysOf(e)'
      OBVIOUS
    <3> QED BY <1>2, <2>2, KeyboardKept DEF KeysInv, SlotIsOwn, Attached, tables
  <2> QED BY <2>3 DEF KeysInv, NothingEarly
<1>4. CASE reader[d].live
  <2> DEFINE fresh == <<[kind |-> "dropped"], event>>
             longer == Append(queue[d], event)
             after == IF Len(queue[d]) < MaxQueue THEN longer ELSE fresh
  <2>1. queue'[d] = after
    BY <1>4 DEF Buffer
  <2>2. Killless(longer)
    <3>1. /\ Len(queue[d]) \in Nat /\ Len(longer) = Len(queue[d]) + 1
          /\ \A i \in 1..Len(queue[d]) : longer[i] = queue[d][i]
          /\ longer[Len(queue[d]) + 1] = event
      BY <1>1, AppendProperties, LenProperties
    <3>2. Killless(queue[d])
      BY <1>1 DEF BufferOf
    <3> HIDE DEF longer
    <3> QED BY <3>1, <3>2 DEF Killless
  <2>3. Killless(fresh)
    <3>1. Len(fresh) = 2 /\ fresh[1].kind = "dropped" /\ fresh[2] = event
      OBVIOUS
    <3> HIDE DEF fresh
    <3> SUFFICES ASSUME NEW i \in {1, 2} PROVE fresh[i].kind # "kill"
      BY <3>1 DEF Killless
    <3> QED BY <3>1
  <2>4. BufferOf(d)'
    <3>1. Killless(after)
      BY <2>2, <2>3
    <3> HIDE DEF after
    <3> QED BY <1>1, <1>4, <2>1, <3>1 DEF BufferOf
  <2>5. KeysOf(d)'
    <3> SUFFICES ASSUME assigned[d] # NoSlot PROVE ShowsHeld(d)' /\ FreesUp(d)'
      BY DEF KeysOf, tables
    <3>1. ShowsHeld(d) /\ FreesUp(d)
      BY <1>1, <1>4 DEF KeysOf
    <3>2. ShowsHeld(d)'
      BY <3>1 DEF ShowsHeld, tables
    <3>3. ASSUME NEW k \in Keys \ down'[d]
          PROVE  Frees(after, held[assigned[d]], k)
      <4>1. Frees(queue[d], held[assigned[d]], k) \/ Undoes(event, k)
        BY <3>1 DEF FreesUp
      <4>2. Frees(longer, held[assigned[d]], k)
        BY <1>1, <4>1, FreesAppend
      <4>3. Frees(fresh, held[assigned[d]], k)
        BY FreesDropped
      <4> HIDE DEF longer, fresh
      <4> QED BY <4>2, <4>3
    <3> HIDE DEF after
    <3> QED BY <2>1, <3>2, <3>3 DEF FreesUp, tables
  <2>6. \A e \in Devices : BufferOf(e)' /\ SlotIsOwn(e)' /\ KeysOf(e)'
    <3> HIDE DEF after
    <3> SUFFICES ASSUME NEW e \in Devices
                 PROVE  BufferOf(e)' /\ SlotIsOwn(e)' /\ KeysOf(e)'
      OBVIOUS
    <3> QED BY <1>2, <2>4, <2>5, KeyboardKept DEF KeysInv, SlotIsOwn, Attached, tables
  <2> QED BY <2>6 DEF KeysInv, NothingEarly
<1> QED BY <1>3, <1>4

\* What happens to the keyboards.
LEMMA KeyboardKeepsKeys ==
    ASSUME PlainUse, DaemonInv, KeysInv, NEW d \in Devices, Keyboard(d)
    PROVE  KeysInv'
<1> USE DEF DaemonInv, DaemonTypeOK
<1>1. ASSUME NEW k \in Keys, Press(d, k) PROVE KeysInv'
  <2> DEFINE event == [kind |-> "press", key |-> k]
  <2>1. event \in Events /\ event.kind = "press" /\ event.key = k
    BY DEF Events
  <2>2. /\ Buffer(d, event) /\ down' = [down EXCEPT ![d] = @ \cup {k}]
        /\ UNCHANGED <<tables, plugged, held, pads, reader, main>>
    BY <1>1 DEF Press, controllers
  <2>3. down'[d] = down[d] \cup {k} /\ \A e \in Devices \ {d} : down'[e] = down[e]
    BY <2>2
  <2>4. down' \in [Devices -> SUBSET Keys]
    BY <2>2
  <2> HIDE DEF event, DaemonInv, DaemonTypeOK
  <2> QED BY <2>1, <2>2, <2>3, <2>4, BufferKeepsKeys
<1>2. ASSUME NEW k \in Keys, Release(d, k) PROVE KeysInv'
  <2> DEFINE event == [kind |-> "release", key |-> k]
  <2>1. event \in Events /\ event.kind = "release" /\ event.key = k
    BY DEF Events
  <2>2. /\ Buffer(d, event) /\ down' = [down EXCEPT ![d] = @ \ {k}]
        /\ UNCHANGED <<tables, plugged, held, pads, reader, main>>
    BY <1>2 DEF Release, controllers
  <2>3. down'[d] = down[d] \ {k} /\ \A e \in Devices \ {d} : down'[e] = down[e]
    BY <2>2
  <2>4. down' \in [Devices -> SUBSET Keys]
    BY <2>2
  <2> HIDE DEF event, DaemonInv, DaemonTypeOK
  <2> QED BY <2>1, <2>2, <2>3, <2>4, BufferKeepsKeys DEF Undoes
<1>3. ~PressKillSwitch(d)
  BY Zenon DEF PressKillSwitch, PlainUse
<1>4. CASE Unplug(d)
  <2> DEFINE r == [reader[d] EXCEPT !.live = FALSE]
  <2>1. /\ r.pc = reader[d].pc /\ r.slot = reader[d].slot /\ r.current = reader[d].current
        /\ ~r.live
    <3>1. reader[d] \in ReaderState
      OBVIOUS
    <3> QED BY <3>1 DEF ReaderState
  <2>2. /\ reader' = [reader EXCEPT ![d] = r]
        /\ queue' = [queue EXCEPT ![d] = <<>>] /\ down' = [down EXCEPT ![d] = {}]
        /\ UNCHANGED <<assigned, held, pads, main>>
    BY <1>4 DEF Unplug, tables, controllers
  <2> HIDE DEF r
  <2>3. reader'[d] = r /\ queue'[d] = <<>>
    BY <2>2
  <2>4. BufferOf(d) /\ SlotIsOwn(d) /\ KeysOf(d)
    BY DEF KeysInv
  <2>5. BufferOf(d)' /\ SlotIsOwn(d)' /\ KeysOf(d)'
    BY <2>1, <2>2, <2>3, <2>4, KilllessEmpty
    DEF BufferOf, SlotIsOwn, Attached, KeysOf, ShowsHeld
  <2>6. \A e \in Devices \ {d} : UNCHANGED <<reader[e], queue[e], down[e]>>
    BY <2>2
  <2>7. \A e \in Devices : BufferOf(e)' /\ SlotIsOwn(e)' /\ KeysOf(e)'
    <3> SUFFICES ASSUME NEW e \in Devices
                 PROVE  BufferOf(e)' /\ SlotIsOwn(e)' /\ KeysOf(e)'
      OBVIOUS
    <3> QED BY <2>2, <2>5, <2>6, KeyboardKept DEF KeysInv, SlotIsOwn, Attached
  <2> QED BY <2>2, <2>7 DEF KeysInv, NothingEarly
<1>5. CASE Plug(d)
  <2>1. UNCHANGED <<assigned, reader, queue, down, held, pads, main>>
    BY <1>5 DEF Plug, tables, controllers
  <2> QED BY <2>1 DEF KeysInv, NothingEarly, BufferOf, SlotIsOwn, Attached, KeysOf,
                      ShowsHeld, FreesUp
<1> QED BY <1>1, <1>2, <1>3, <1>4, <1>5 DEF Keyboard

(* While nobody assigns again, tests an action or pulls the kill switch,    *)
(* and controllers can be created and written, no key sticks: what threads, *)
(* lost events, a full buffer, unlocking, unassigning, unplugging and       *)
(* failing grabs leave held is down, and what is held is what is shown.     *)
THEOREM NoKeySticksCorrect ==
    ASSUME {"assign", "inject", "kill"} \cap User = {}, {"create", "emit"} \cap Faults = {}
    PROVE  Spec => []NoKeySticks
<1>1. PlainUse
  BY DEF PlainUse
<1>2. DaemonInv /\ KeysInv /\ [Next]_vars => KeysInv'
  <2> SUFFICES ASSUME DaemonInv, KeysInv, [Next]_vars PROVE KeysInv'
    OBVIOUS
  <2>1. CASE UNCHANGED vars
    <3>1. UNCHANGED <<assigned, reader, queue, down, held, pads, main>>
      BY <2>1 DEF vars, tables, kernel, controllers
    <3> QED BY <3>1 DEF KeysInv, NothingEarly, BufferOf, SlotIsOwn, Attached, KeysOf,
                        ShowsHeld, FreesUp
  <2> QED BY <1>1, <2>1, MainKeepsKeys, ReaderKeepsKeys, KeyboardKeepsKeys DEF Next
<1>3. DaemonInv /\ KeysInv => NoKeySticks
  <2> SUFFICES ASSUME DaemonInv, KeysInv, NEW d \in Devices, AtRest(d)
               PROVE  /\ held[reader[d].slot] \subseteq down[d]
                      /\ pads[reader[d].slot] = held[reader[d].slot]
    BY DEF NoKeySticks
  <2> DEFINE s == assigned[d]
  <2>1. /\ s = reader[d].slot /\ s \in Slots /\ reader[d].pc = "read" /\ reader[d].live
        /\ queue[d] = <<>> /\ KeysOf(d) /\ s # NoSlot /\ held[s] \subseteq Keys
    BY TablesAssumption DEF AtRest, DaemonInv, DaemonTypeOK, KeysInv
  <2>2. pads[s] = held[s] /\ FreesUp(d)
    BY <2>1 DEF KeysOf, ShowsHeld
  <2>3. \A k \in Keys \ down[d] : k \notin held[s]
    BY <2>1, <2>2 DEF FreesUp, Frees, UndoneAfter
  <2> QED BY <2>1, <2>2, <2>3
<1> QED BY <1>2, <1>3, KeysInvInit, DaemonInvAlways, PTL DEF Spec
=============================================================================
