# kbdsplit in TLA+

kbdsplit turns keyboards into game controllers: a daemon (`kbdsplitd`) reads the
keyboards that are assigned to one of four slots and drives a virtual controller per
slot; a GUI sends it commands over a Unix socket. This directory models the daemon's
logic, checks it with TLC on small instances, and proves the central results with TLAPS
for every instance. Paths below are relative to `src/`.

## 1. The system

| component | code | state | operations |
|---|---|---|---|
| Runtime slot | `crates/core/src/slot.rs` | held keys, action reference counts, controller state, lifecycle, bindings | `key_down`, `key_up`, `set_bindings` (rebinds held keys), `reconcile_from_bitmap`, `apply_action`, `clear_inputs` |
| Device and slot tables | `crates/daemon/src/runtime.rs`, `DaemonState` | per keyboard: connected, assigned slot, locked; per slot: device, locked | `rescan_devices`, `assign_device`, `unassign_slot`, `set_device_locked`, `release_all_locks`, marking a keyboard disconnected |
| Daemon threads | `runtime.rs`: `run`, `spawn_hotplug_watcher`, `reader_loop` | the state mutex, `active_readers`, `outputs`, the open event nodes and their grabs | commands one at a time; a rescan each second; per keyboard: open, grab, read, emit, resync, refresh |
| Profiles and capture | `runtime.rs`, `core/src/profile.rs` (`AppConfig`) | active profile, saved assignments and bindings, capture in progress | load, create, delete, save, set binding, start/cancel capture, restore |
| Profile store | `core/src/profile.rs` (`ProfileStore`) | `config.toml` and a file per profile | `load`, `save` |
| Virtual gamepad | `daemon/src/uinput.rs`, and the threads that hand it to one another in `runtime.rs` | the last state written; what the kernel's device shows | create, `emit_state`: a batch of differences, drop |
| IPC session | `daemon/src/ipc.rs`, `main.rs`, `gui/src/ipc_client.rs`, `gui/src/app.rs:36-133`, `runtime.rs:93-150` | the socket file, the connections waiting, the request the GUI waits for, the snapshot it shows | connect, request, respond, time out, start the daemon, signal, shut down |
| Discovery | `daemon/src/evdev.rs` | none | which event nodes are keyboards |
| Default bindings, GUI drawing, benchmark, installers | `core/src/mapping.rs`, `gui/src/app.rs`, `bench`, `*.sh` | none of the system's logic | |

**How they interact.** One mutex (`Arc<Mutex<DaemonState>>`) guards tables, slots,
profiles and the map of virtual controllers. Three kinds of threads take it: the main
thread (commands), the watcher, and a reader per assigned keyboard. A controller is
*taken out* of the map under the mutex, written without it, and put back under it
(`handle_key_event`, `handle_syn_dropped`, `InjectTestAction`). `active_readers` is a
second mutex; who has no reader is decided under both, the thread is spawned after both
were released. The profile is changed and saved by commands and, through a capture, by
readers. The GUI opens a connection per request and waits two seconds at most; the main
thread serves the connections one after the other. The GUI starts a daemon when a poll
fails; systemd or the user may start one as well. Daemons share the socket's path and the
profile on disk, and nothing keeps two from running.

**What is hard.** Rebinding and reassigning while keys are down; two keys on one action;
lost events (SYN_DROPPED) and what is read between two lock acquisitions; a controller
that is in another thread's hands when it is needed; readers that start, end and move
while commands arrive; keyboards that disappear and return; commands that fail half-way
because saving fails; a save that is a sequence of file writes, and a crash in it; the
three copies of an assignment (keyboard, slot, profile); differences computed from a state
that may not be the device's; requests that are carried out after the client gave up; a
socket file without a daemon, and a daemon without a socket file. `PROJECT.json` lists each hazard
at its line with the properties that cover it, or the reason why none does.

**What makes it correct.** Slot: the controller state is what the held keys call for,
nothing sticks, counts are exact. Tables: the copies agree, one keyboard per slot and
one slot per keyboard. Threads: one reader per keyboard, assigned keyboards are read,
locked ones grabbed, unlocked ones given back, a ready slot has a controller. Profiles:
slots run with the active profile's bindings, restores bring back what was saved,
nothing saved is lost, released locks stay released. Store: what was saved is loaded.
Gamepad: a write shows the whole state. IPC: a command is carried out once at most and in
order, what was confirmed stays, the GUI finds a daemon again, a daemon stops when told.

## 2. The modules

| module | models | extends / uses |
|---|---|---|
| `Controller` | actions, stick arithmetic, controller state | |
| `PressedKeys` | what a slot promises (abstract) | `Controller` |
| `RuntimeSlot` | `RuntimeSlot` and all the daemon does to one slot | implements `PressedKeys` |
| `AssignmentRules` | who feeds which slot (abstract) | |
| `DeviceTables` | the tables and their methods | implements `AssignmentRules` |
| `Daemon` | all threads, the kernel's buffers, the controllers | `DeviceTables` |
| `Profiles` | profiles, bindings, captures, restores, restarts | `DeviceTables` |
| `ProfileStore` | load, and save one system call at a time | |
| `Gamepad` | what `emit_state` puts into a batch | |
| `SlotOutput` | a slot's controller among the threads, and the device | `Gamepad` |
| `AtMostOnce` | what the user may rely on when a command is sent (abstract) | |
| `IpcSession` | the GUI, the daemons' accept loops, socket file and saved profile | implements `AtMostOnce` |
| `MC...` | the instances TLC checks; `MCRestart` adds to `Profiles` where the keyboards were when the daemon ended | |
| `...Proofs`, `RuntimeSlotCorrect` | theorems | TLAPS |

Operators and actions carry the names of the functions they translate. A definition
whose comment begins with "Slip:" is a plausible bug in the definition that follows it;
it is used by no specification and serves to show that a property notices that bug.

**RuntimeSlot.** The daemon touches a slot only with the mutex held, so an operation is
one action, except those that loop over keys: `set_bindings` and `reconcile_from_bitmap`
take one step per key, with `phase` naming the loop and every other operation waiting for
`phase = "idle"`. `handle_syn_dropped` takes the mutex twice (`CloneBindings`,
`Reconcile`), and a `SetBindings` may come between; `outdated` remembers that it did.
`injected` remembers that a test action has changed the state without a key. A
binding list is the function that looking keys up in it computes. A reference count of
zero is an absent map entry. The loops visit keys in ascending order, as the code's
`BTreeMap` and `BTreeSet` do.

**DeviceTables.** Each method of `DaemonState` is an action. `release_all_locks` leaves
`device_id` in the slots, as the code does.

**Daemon.** `reader[d].pc` is where a reader is: spawned, opened, grab, read, emit
(controller in hand), resync, wedged (it locked the mutex it holds), returned (not yet
out of `active_readers`). `pads[s]` is `outputs[s]` as the held keys it was last written
with, `NoPad` while it is absent or in someone's hands. `queue[d]` is the kernel's
buffer; when it is full all of it but the newest event is replaced by SYN_DROPPED, and
asking for the keys that are down discards what is buffered. A stretch of code under the
mutex is one action, together with the thread-local steps beside it. `RuntimeSlot` is
reduced to the set of held keys, which `ImplementsPressedKeys` justifies.

**Profiles.** The restore loop takes one step per assignment and per lock, because it
clones the profile first while each step overwrites and saves the configuration; commands
wait for it, a crash does not. A save works or fails as a whole here; `ProfileStore`
opens it up. The end of a capture's 30 seconds may come at any time. A captured key may
come from any reader that feeds the slot, also one whose keyboard has just left it.

**ProfileStore.** `fs::write` is a truncation and a write; after each a crash or a
failure may come. A profile is a name and a content, and names sort as their files do.
A truncated file does not parse; files that are torn and parse all the same are not
considered. A load that meets a file it cannot read starts with `AppConfig::default`; a
removal may fail silently, and `undeleted` remembers it.

**SlotOutput.** `table` is `outputs[slot]`, `hands[t]` the controller thread `t` has taken
out with the state it writes. A controller is `last` and what the device `shown`; a write
applies the events of the batch, which `Gamepad` computes from `last`, to `shown`, so that
`last` and `shown` are free to differ. How keys make a state is `RuntimeSlot`'s business:
here a change of the slot goes to any of `States`. The three kinds of writers differ in what
they do with the controller after a failed write, and `WriteFails` has all three.

**IpcSession.** `pc[d]` is where daemon `d` is between its start and its end; each step is
one call (`remove_file`, `bind`, `accept`, `read_command`, the command, its save, the
answer). `socket` is who bound the file at the path, also when that daemon is gone. A
connection is the request written to it and whether the GUI still waits on it: a request
that was given up stays in the backlog. A profile is the set of the commands it has the
effect of; what commands do to it, and saves that fail, are in `Profiles`. `sent`,
`executed`, `confirmed` and `alone` are history: `alone` says that never two daemons ran
at a time.

## 3. The runs

| run | instance | shows |
|---|---|---|
| `slot` | 3 keys, a button, a stick axis, 4 binding lists, an injected stick deflection | `TypeOK`, `RefcountExact`, `StateMatchesHeld`, `HeldFollowsBindings`, `LifecycleHonest`, `ResyncMatchesKeyboard`, `ImplementsPressedKeys` |
| `output` | 2 readers and the main thread, 15 buttons, 6 axes, 4 states | `DeviceShowsLast`, `WriteCatchesUp` |
| `profiles` | 2 keyboards (one cannot be grabbed, one comes and goes), 2 slots, 2 profile names; edits, captures and failing saves where one keyboard keeps one slot | the tables' invariants, `RestoredAsSaved`, `BindingsFollowProfile`, `NothingIsLost`, `ReleasedStaysReleased`, `ImplementsAssignmentRules` |
| `store` | 3 names, the last 2 of them shipped, one copied by hand over the other's file, failing reads, writes and removals, crashes | `SavedIsLoaded`, `CrashCostsOneProfile` |
| `daemon_threads` | 2 keyboards, 1 slot, test actions, failing open, grab and save | `DaemonTypeOK`, `TablesKept`, `OneReader`, `ReadyHasController` |
| `daemon_keys` | 1 keyboard that is locked, unlocked, unassigned and unplugged, 2 keys, a buffer of 3 events, failing open, grab and save | `NoKeySticks`, `ReadyHasController` |
| `daemon_live` | 2 keyboards (one cannot be grabbed), 2 slots, the kill switch, failing save | `UnlockedIsReleased`, `AssignedIsRead`, `LockedIsGrabbed` |
| `ipc` | 2 daemons, 2 commands, 2 mishaps (crash, signal, timeout, start by hand, a client that is silent or sends Shutdown) | `SessionTypeOK`, `InOrder`, `ConfirmedIsKept`, `SnapshotNeverGoesBack`, `ImplementsAtMostOnce`, `Reconnects`, `StopsWhenTold` |
| `daemon_wedge`, `daemon_replug`, `daemon_snapshot`, `profiles_restart` | the smallest that show it | a violation each, section 6 |

**Why the bounds are enough.** *Slots:* the binding lists contain two keys on one action,
two keys on opposite directions of one stick, keys that change and keys that lose their
binding; one button and one axis are all the kinds of action there are
(triggers act as buttons do), and three keys let two share an action while a third moves. Reference counts are
bounded by the number of keys, the axes by the 16 bits they have; nothing is cut off.
*Tables and profiles:* two keyboards suffice for a displacement and two slots for a move;
the pairs in `Contested` leave each keyboard a slot it shares with the other. Keyboards that
move and come and go, together with bindings that are edited and saves that fail, are too
much for TLC. The state constraint `MovesOrEdits` of `profiles` keeps the states in which
either everything is saved and the bindings are the default ones (`Moves`), or one keyboard
keeps one slot and is there (`Edits`; a capture is then in progress only while the last save
has worked). A behaviour may pass from the one kind to the other through the states that are
both. The theorems about these properties have no such restriction. *Threads:*
two readers, the watcher and the main thread give each pair of threads that hand
something to one another; a buffer of two or three events overflows. *Store:* three names
give an active, a shipped and a deleted profile, one of which a foreign file can bear.
*Output:* three threads are all kinds of writers there are and leave a controller in the table
while two others are in hands; two of the states share their buttons and two differ in
nothing but the hat's centre, so that each part of a batch can be the only one. *IPC:* two
daemons replace one another or run together; two commands can be overtaken; two mishaps
are, for one, a timeout and a crash, or a silent client and a signal. A third of either
adds no new pair.
The configurations restrict what the user does (`User`) and what fails (`Faults`) to
what the question of the run involves; between them the passing runs take every action.
No other run has a state constraint, and deadlock is checked in every run.

**Fairness.** `FairSpec` asks weak fairness of the steps a thread takes by itself: the main thread once it has begun something (`MainContinues`), the watcher's rescan
(a one-second sleep in a loop, `runtime.rs:675`), each pending spawn, and each reader,
which wakes up at least every 100 ms. Nothing is asked of the user. A keyboard that never
stops sending events keeps its reader from refreshing, since the refresh comes only when the
buffer is empty: pressing the kill switch again and again, TLC found, may overflow the buffer
each time, and the reader never sees it. The properties of `daemon_live` therefore
speak of a keyboard on which nothing is pressed any more (`Quiet`), while commands and the
other keyboard go on. The run has no other key presses than the kill switch. A displaced
keyboard stays locked, so `UnlockedIsReleased` asks for a slot besides the lock before it
lets a keyboard be kept; a reader that waits for the unlock (the slip `RefreshAwaitsUnlock`)
violates it. Unplugging is left out because of the finding `daemon_replug`. `IpcSession!FairSpec` asks weak fairness of
each daemon's own steps (its read has a timeout of five seconds, `runtime.rs:110`, and a
save or an answer does not block), of the GUI's poll, which comes with every frame
(`app.rs:76`), of receiving what has arrived, and of the two seconds of `retry_at`. It asks
nothing of commands, the button, timeouts, signals, crashes and other clients.
`MaxMishaps` bounds these, so `Reconnects` says that the session recovers once they end,
not while they go on for ever.

## 4. The theorems

Each holds for every value of the constants that satisfies the named assumptions of the
modules, which TLC evaluates on every run.

*Slots* (`RuntimeSlotProofs`, `RuntimeSlotCorrect`). The inductive invariant is
`SlotInv`: types, exact reference counts, and `LoopInv`, what the worklists of a loop in
progress hold; without `LoopInv` a resync could press a key that is already held and the
count would be off. From it follow `TypeCorrect`, `RefcountCorrect`, `ResyncCorrect`, and,
with what the loop has already done, `HeldKeysFollowBindings`. `LifecycleCorrect`,
`StateCorrect` and the refinement `SlotImplementsPressedKeys` speak of a slot until a test
action is injected, which changes the state without a key; that is what it is for. The heart of
the last two is that applying one delta to the state of a set of actions gives the state
of the set with that action added or removed; it needs that at most one delta per
direction is in effect, so that the saturating addition never saturates.

*Tables* (`DeviceTablesProofs`). `TablesInv` is the conjunction of the five invariants
the run `profiles` checks. They are inductive together: that an empty slot stays unlocked,
for one, needs that a slot a keyboard is assigned to names it. `TablesImplementRules` maps the slots' owners
to `AssignmentRules`.

*Threads* (`DaemonProofs`). `DaemonInv` adds the threads' types and that no reader exists
before the profile was restored, without which the start-up could start a second one.
`DaemonKeepsTables` shows that every step of every thread is a step of the tables or
leaves them alone, so all that is proved of the tables holds in the daemon
(`DaemonKeepsAssignmentRules`). `OneReaderPerKeyboard`. `ReadyCorrect` assumes that
writing does not fail (`"emit" \notin Faults`); a failed write of a test action or of a
resync drops the controller.
`NoKeySticksCorrect` is the one about keys, for any keyboards, slots, keys and length of the
buffer: once a reader has nothing left to read, its slot holds no key that is up, and the
controller shows what the slot holds. The invariant, `KeysInv`, follows each key that is up
through the buffer index by index (`Frees`): if the slot holds it, an event that frees it is in
the buffer - its release, or the mark that events were lost, after which the reader asks the
keyboard which keys are down - and behind each press of it in the buffer there is another such
event. Besides, while a reader is at a slot no other keyboard has it, and what the slot holds is
what its controller shows or what the reader is about to write to it.
The theorem assumes that keyboards are not moved by hand, no test action is injected, the kill
switch is not used, and writing or creating a controller does not fail. None of these can go,
and TLC has a counterexample for each: a move leaves the old slot's controller unwritten (finding
3), an injection takes the controller while a reader wants to write it, the kill switch
ends the reader of an unlocked keyboard with keys held, and a failed write or creation
leaves nothing to write the release to.

*Profiles* (`ProfilesProofs`). `ProfilesKeepTables` carries `TablesInv` through restores,
restarts and crashes; `ProfilesTablesTypes`, `ProfilesAgree`, `ProfilesShowOnce`,
`ProfilesLeaveHarmless` and `ProfilesKeepEmptyUnlocked` are its five parts, which the run
`profiles` checks. `NothingSavedIsLost` rests on `SavedInv`, which says the same of
the restore loop at the start of the daemon: that loop ends without a save of its own.
`SlotsFollowProfile` needs `BoundInv`: outside a profile switch the bindings agree, and
during the start's restore, which never syncs them, each assignment sets them. Its lemmas
show that assigning, locking and forgetting keyboards change no binding of the profile.
`ReleaseLasts` (it ends, besides with a new lock or profile, when the daemon
ends while the last save has failed) needs `ReleasedInv`: after the kill switch no lock is left where a later step
could find one - the active profile, the file if the last save worked, and the profile a
restore is at; the restore after `create_profile` is the one that would set it again.
`RestoreRestores` rests on `RestoreInv`: of the slots visited so far each has its keyboard
and its lock, and since slots are visited in order a later one takes a keyboard away only
when it names the same; and on `StartInv`: while the daemon starts, no keyboard is in a slot
that does not name it, or locked without a slot that names it and asks for the lock. Which
slots name a keyboard is another matter: finding 4.

*Store* (`ProfileStoreProofs`). `SaveIsLoaded`, for any finite set of names. `StoreInv` says
for each place in a save which files are written already, and in the end that whatever
else is there could not be removed. `CrashIsCheap` rests on `CrashInv`: for every profile the
save has yet to come to, its file is as it was, or a copy of it is, or it was never
changed; and a copy put there by hand agrees with what was loaded, since it was what was
loaded. It assumes of such copies (`CopiesAreLater`) that each sorts after the profile it bears,
that there is one for each profile, and, where removing a file may fail, one in all. TLC
refutes the property when any of the three is dropped: a copy that sorts before is hidden by
the profile's own file and shows through when that is torn; removing the later of two copies
uncovers the earlier one, for two profiles at once; and two copies that were left behind once
still override their profiles in the next save. That `Min` and `Max` of names are names is proved from
the well-foundedness of `<` (`MinIn`, `MaxIn`).

*Gamepad* (`SlotOutputProofs`). `BatchFits`: the 24 entries of a batch always suffice. TLC
evaluates that the bound is reached (`BatchIsFull` in `MCRuntimeSlot`).

*Output* (`SlotOutputProofs`). `OutputInv` says of every controller, in the table and in
hands, that its device shows `last`. It is inductive because of `BatchIsEnough`: the events
computed from `last` take a device that shows `last` to the new state. `OutputInStep` and
`OutputCatchesUp` follow.

*IPC* (`IpcSessionProofs`). `SessionTypes` first. `SessionKept` needs what a daemon's place
says of its memory: while never two ran, a running daemon's configuration contains the file's and,
except between a command's effect and its save, equals it; and what an answer shows
is on disk. `SessionForward` uses that together with the order of answers.
`SessionOnce` is the refinement: its invariant (`OnceInv`) says that every command is in
one place at most - not yet sent, in one backlog, being served, or in `executed` - and that
what is confirmed, or about to be answered with a snapshot, was carried out. `SessionOrder`
adds `Ascending` to it: from the end of a daemon's backlog, via what it serves, to what it
has carried out, commands were sent earlier and earlier.

**Only model-checked:** the liveness properties `AssignedIsRead`, `LockedIsGrabbed`,
`UnlockedIsReleased`, `Reconnects` and `StopsWhenTold` (TLAPS does not do `ENABLED`), and that
applying actions one by one is `StateOf` (`StateOfIsTheFold`, an induction over data). Every
other property of a passing run is a theorem, under the hypotheses named above.

## 5. What is not modelled

- In `IpcSession`: frames and their encoding, requests that arrive in part, a client that
  never reads its answer; what the daemon's other threads do meanwhile. A save is one step
  that works (`ProfileStore` and `Profiles` open it up). The GUI's request and its frame are
  one thread, as in the code.
- In `Daemon`: captures and profile commands (they are in `Profiles`, without readers).
  The start-up readers are spawned before the watcher's first tick, a second later. The
  restore assigns and locks in any order rather than in a profile's.
- In `Profiles`: profiles that lack a slot, which only a file written by hand can hold;
  the daemon itself never creates one.
- In `SlotOutput`: a batch that the kernel takes in part. `write` to `/dev/uinput` takes
  a batch whole or refuses it; the code has no branch for anything else.
- Which event nodes are keyboards and what their identity is (ioctls and string
  formatting), labels and the table of default bindings, drawing, the event log, the
  benchmark and the installers: no state of the system is decided there.

## 6. Findings

Each is a run whose counterexample TLC reproduces.

1. `daemon_wedge` - `runtime.rs:773`. README.md:104 says that without permissions "the
   daemon runs but cannot grab keyboards". The first grab of a reader is made inside an
   `if let` that holds the mutex's guard, and its failure branch locks again: the reader
   waits for itself and nobody gets the mutex any more. Most missing permissions do not get
   that far, since `can_grab` (`runtime.rs:479`) refuses the lock; another program that holds
   the grab, or a permission that is lost after the scan, does.
2. `daemon_replug` - `runtime.rs:822`. README.md:88 promises "auto-reconnect". The reader
   of an unplugged keyboard never ends, so it stays in `active_readers` and no reader is
   started for the keyboard that comes back.
3. `daemon_snapshot` - `runtime.rs:389`. docs/architecture.md:26 says the GUI shows "the
   same snapshot the daemon emits". Moving a keyboard clears its old slot without writing
   the controller, which still has the keys down.
4. `profiles_restart` - `runtime.rs:437`. docs/architecture.md:15 says the daemon "persists
   assignment and lock state". A keyboard that is moved stays named in its old slot of the
   profile, and the restore visits the slots in order: moved from slot 2 to slot 1, it is back
   in slot 2 after a restart. The same stale entry may bring back a lock: when the keyboard
   is locked in slot 2, moved, and unlocked in slot 1, slot 2 still asks for the lock.
   `RestartKeepsSlots` compares only keyboards that have a slot before and after, so that the
   kill switch (below) is not what violates it.

Observed while modelling, without a run of their own:

- `runtime.rs:400`: a slot can get two virtual controllers. A reader takes the slot's
  output in `handle_key_event`; `assign_device` finds none and creates one; the reader
  puts its own back and the new one is dropped.
- `runtime.rs:634`: the kill switch makes the profile forget the keyboards of all slots, but
  only takes the locked ones out of theirs. An unlocked keyboard goes on as a
  player, and has no slot after a restart.
- `runtime.rs:923`: a key event that finds its slot's controller in another thread's hands is
  dropped, a release too. `NoKeySticks` holds in `daemon_keys`, where nothing but the reader
  takes the controller, and is violated when test actions are injected.
- `runtime.rs:1005`: a resync presses keys with bindings that were replaced after it
  cloned them (`outdated` in `RuntimeSlot`).
- README.md:95 says the kill switch (LeftShift+RightShift+Esc) stops the daemon; it only releases the locks and
  ends the reader that saw it.
- `restore_profile_assignments` locks a keyboard although its assignment failed, and
  after the start a slot without a keyboard shows no bindings until something syncs them.
- `load_profile` leaves keyboards in slots for which the new profile names none.
- A crash after `config.toml` was written and before the newly created profile's file was
  makes the first profile the active one. A deleted profile's file that cannot be removed
  brings the profile back. A foreign file that sorts before the profile it bears, or a
  second one for the same profile, can cost two profiles in a crash (hence the instance
  of `store`).
- The shipped profiles are in no file until the first save. A crash in that save, once one
  file is written, loses the others; with a new profile that sorts first it loses both
  (hence `AsShipped` in `CrashCostsOneProfile`).
- Nothing keeps two daemons apart (the reason for `alone` in `IpcSession`). The second
  one removes the first one's socket file and binds its own; the first goes on, reads
  keyboards, and cannot be reached. If the second then ends it removes the path, and
  when the first one is the GUI's child, `ensure_daemon_started` finds it alive and never
  starts another: `Reconnects` does not hold without `alone`. Nor does `ConfirmedIsKept`:
  the second daemon's restore, or the cleanup of either, saves what it loaded before the
  other one confirmed a command. A daemon that is slow to start gets a
  second one beside it when it is not the GUI's own.
- A poll that fails never sets `connection_error` unless starting the daemon fails
  (`app.rs:48-56`): while a daemon is alive and does not answer, the GUI shows the last
  snapshot as if it were current.
- `runtime.rs:46`: one profile file that cannot be read fails the whole load, the daemon
  starts with the shipped profiles, and the next save removes the files of all others.
- `runtime.rs:231`: after a failed write of a test action the controller is gone from
  the table while the slot is shown as ready. `ReadyHasController` is violated once `"emit"`
  is among the `Faults`, hence it is in no passing run.
- `slot.rs:215`: a test action that pushes a stick on top of a held key saturates the axis,
  and the stick does not come back to the centre (`injected` excepts it from
  `StateMatchesHeld`).

## 7. Plan

Written so far, in this order: slot and its specification; tables and rules; the threads;
profiles; the store; the gamepad's batch; the controller among its threads; the IPC session. Next:

1. Captures in `Daemon`, with the capture's timeout ended by readers.
2. Proofs: the parts of `KeysInv` that survive a move by hand, so as to say which keys of which
   controller a move leaves behind.
