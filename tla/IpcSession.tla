----------------------------- MODULE IpcSession -----------------------------
(***************************************************************************)
(* The GUI and the daemon over the Unix socket: Daemon::run and            *)
(* handle_command (crates/daemon/src/runtime.rs), ipc.rs and main.rs;      *)
(* IpcClient (crates/gui/src/ipc_client.rs), which starts the daemon and   *)
(* gives up on an answer after two seconds; poll_snapshot and send         *)
(* (crates/gui/src/app.rs).                                                *)
(*                                                                         *)
(* Every request has a connection of its own.  The daemon serves the       *)
(* connections one after the other, in the order of connect, and also the  *)
(* ones whose client has gone: the command is in the socket by then.       *)
(*                                                                         *)
(* A command edits the profile and saves it, or is refused; what it does   *)
(* is Profiles', where saves may fail, too.  Here a profile is the set of  *)
(* the commands it has the effect of.  Several daemons may run, started by *)
(* the GUI, by systemd or by hand; they share the path of the socket and   *)
(* the profile on disk.                                                    *)
(***************************************************************************)
EXTENDS Integers, Sequences, FiniteSets

CONSTANTS
    Daemons,        \* the processes a daemon may run as
    NoDaemon,       \* "no daemon"
    MaxCommands,    \* bound on the commands the GUI sends
    MaxMishaps      \* bound on the crashes, signals, timeouts of the GUI,
                    \* starts by hand and connections of others, together

ASSUME SessionAssumption ==
    /\ NoDaemon \notin Daemons
    /\ MaxCommands \in Nat /\ MaxMishaps \in Nat

VARIABLES
    pc,         \* pc[d]: where daemon d is in start, run and the cleanup
    stop,       \* stop[d]: its SHUTDOWN flag
    config,     \* config[d]: the profile in its memory
    backlog,    \* backlog[d]: the connections it has not accepted
    serving,    \* serving[d]: the connection it has accepted
    socket,     \* the daemon that bound the file at the socket's path
    disk,       \* the saved profile
    asked,      \* the request the GUI waits for
    answer,     \* what has arrived for it
    snapshot,   \* the profile of the snapshot the GUI shows
    error,      \* connection_error is shown
    child,      \* the daemon the GUI has started, while it runs
    retry,      \* retry_at has passed
    sent, executed, confirmed, alone, mishaps   \* history

daemon == <<pc, stop, config, backlog, serving>>
gui == <<asked, answer, snapshot, error, child, retry>>
history == <<sent, executed, confirmed, alone, mishaps>>
vars == <<daemon, socket, disk, gui, history>>

\* Requests. The profile starts with what was saved Before; {} is no snapshot.
Commands == 1 .. MaxCommands
Before == 0
GetSnapshot == 0
Shutdown == -1
Silence == -2       \* a connection on which nothing is sent
Nothing == -3

Requests == Commands \cup {GetSnapshot, Shutdown, Silence}

\* open: its client is the GUI, and still waits.
Connections == [what : Requests, open : BOOLEAN]
NoConnection == [what |-> Nothing, open |-> FALSE]

NoAnswer == [kind |-> "none", shows |-> {}]
Broken == [kind |-> "broken", shows |-> {}]
Refusal == [kind |-> "error", shows |-> {}]
Snapshot(shows) == [kind |-> "snapshot", shows |-> shows]

Alive(d) == pc[d] # "off"
Listening(d) == pc[d] \notin {"off", "load", "restore", "check", "remove", "bind"}

Init ==
    /\ pc = [d \in Daemons |-> "off"]
    /\ stop = [d \in Daemons |-> FALSE]
    /\ config = [d \in Daemons |-> {}]
    /\ backlog = [d \in Daemons |-> <<>>]
    /\ serving = [d \in Daemons |-> NoConnection]
    /\ socket = NoDaemon /\ disk = {Before}
    /\ asked = Nothing /\ answer = NoAnswer /\ snapshot = {} /\ error = FALSE
    /\ child = NoDaemon /\ retry = TRUE
    /\ sent = 0 /\ executed = <<>> /\ confirmed = {}
    /\ alone = TRUE /\ mishaps = 0

-----------------------------------------------------------------------------
(* A daemon, from its start to its end.                                    *)

\* Two that run at a time end the daemon's being alone, for good.
Start(d) ==
    /\ ~Alive(d)
    /\ pc' = [pc EXCEPT ![d] = "load"]
    /\ alone' = (alone /\ \A e \in Daemons : ~Alive(e))

Goto(d, where) == pc' = [pc EXCEPT ![d] = where]

\* The process is gone, and so are its connections.
Exit(d) ==
    /\ Goto(d, "off")
    /\ stop' = [stop EXCEPT ![d] = FALSE]
    /\ config' = [config EXCEPT ![d] = {}]
    /\ backlog' = [backlog EXCEPT ![d] = <<>>]
    /\ serving' = [serving EXCEPT ![d] = NoConnection]
    /\ answer' = IF serving[d].open \/ \E i \in DOMAIN backlog[d] : backlog[d][i].open
                    THEN Broken ELSE answer
    /\ child' = IF child = d THEN NoDaemon ELSE child
    /\ UNCHANGED <<asked, snapshot, error, retry, sent, executed, confirmed, alone>>

\* Daemon::start
Load(d) ==
    /\ pc[d] = "load"
    /\ config' = [config EXCEPT ![d] = disk]
    /\ Goto(d, "restore")
    /\ UNCHANGED <<stop, backlog, serving, socket, disk, gui, history>>

\* restore_profile_assignments saves when it locks a keyboard.
Restore(d) ==
    /\ pc[d] = "restore"
    /\ disk' \in {disk, config[d]}
    /\ Goto(d, "check")
    /\ UNCHANGED <<stop, config, backlog, serving, socket, gui, history>>

\* Slip: the file of a daemon that is gone is not removed.
CheckKeepsStale(d) ==
    /\ pc[d] = "check"
    /\ Goto(d, "bind")
    /\ UNCHANGED <<stop, config, backlog, serving, socket, disk, gui, history>>

\* Daemon::run
Check(d) ==
    /\ pc[d] = "check"
    /\ Goto(d, IF socket = NoDaemon THEN "bind" ELSE "remove")
    /\ UNCHANGED <<stop, config, backlog, serving, socket, disk, gui, history>>

\* The file another one has removed meanwhile cannot be removed.
Remove(d) ==
    /\ pc[d] = "remove"
    /\ IF socket = NoDaemon
         THEN Exit(d) /\ UNCHANGED <<socket, mishaps>>
         ELSE /\ Goto(d, "bind") /\ socket' = NoDaemon
              /\ UNCHANGED <<stop, config, backlog, serving, gui, history>>
    /\ UNCHANGED disk

\* Nor is a path bound that another one has bound meanwhile.
Bind(d) ==
    /\ pc[d] = "bind"
    /\ IF socket # NoDaemon
         THEN Exit(d) /\ UNCHANGED <<socket, mishaps>>
         ELSE /\ Goto(d, "accept") /\ socket' = d
              /\ UNCHANGED <<stop, config, backlog, serving, gui, history>>
    /\ UNCHANGED disk

Stop(d) ==
    /\ pc[d] = "accept" /\ stop[d]
    /\ Goto(d, "cleanup")
    /\ UNCHANGED <<stop, config, backlog, serving, socket, disk, gui, history>>

\* Slip: the newest connection is served first.
AcceptNewest(d) ==
    /\ pc[d] = "accept" /\ ~stop[d] /\ backlog[d] # <<>>
    /\ serving' = [serving EXCEPT ![d] = backlog[d][Len(backlog[d])]]
    /\ backlog' = [backlog EXCEPT ![d] = SubSeq(@, 1, Len(@) - 1)]
    /\ Goto(d, "read")
    /\ UNCHANGED <<stop, config, socket, disk, gui, history>>

Accept(d) ==
    /\ pc[d] = "accept" /\ ~stop[d] /\ backlog[d] # <<>>
    /\ serving' = [serving EXCEPT ![d] = Head(backlog[d])]
    /\ backlog' = [backlog EXCEPT ![d] = Tail(@)]
    /\ Goto(d, "read")
    /\ UNCHANGED <<stop, config, socket, disk, gui, history>>

\* Slip: the accepted connection has no read timeout.
ReadWaits(d) ==
    /\ pc[d] = "read" /\ serving[d].what = Silence
    /\ UNCHANGED vars

\* read_command fails after five seconds.
ReadTimesOut(d) ==
    /\ pc[d] = "read" /\ serving[d].what = Silence
    /\ Goto(d, "refuse")
    /\ UNCHANGED <<stop, config, backlog, serving, socket, disk, gui, history>>

\* The commands that change nothing.
HandleSnapshot(d) ==
    /\ pc[d] = "read" /\ serving[d].what \in {GetSnapshot, Shutdown}
    /\ Goto(d, "answer")
    /\ UNCHANGED <<stop, config, backlog, serving, socket, disk, gui, history>>

Effect(d, c) ==
    /\ config' = [config EXCEPT ![d] = @ \cup {c}]
    /\ executed' = Append(executed, [by |-> d, command |-> c])
    /\ UNCHANGED <<stop, backlog, serving, socket, disk, gui, sent, confirmed, alone, mishaps>>

\* Slip: the profile is only saved at the end.
HandleCommandUnsaved(d) ==
    /\ pc[d] = "read" /\ serving[d].what \in Commands
    /\ Effect(d, serving[d].what)
    /\ Goto(d, "answer")

HandleCommand(d) ==
    /\ pc[d] = "read" /\ serving[d].what \in Commands
    /\ Effect(d, serving[d].what)
    /\ Goto(d, "save")

\* No such device, slot or profile: an error, and nothing has changed.
CommandFails(d) ==
    /\ pc[d] = "read" /\ serving[d].what \in Commands
    /\ Goto(d, "refuse")
    /\ UNCHANGED <<stop, config, backlog, serving, socket, disk, gui, history>>

Save(d) ==
    /\ pc[d] = "save"
    /\ disk' = config[d]
    /\ Goto(d, "answer")
    /\ UNCHANGED <<stop, config, backlog, serving, socket, gui, history>>

\* Slip: the stream is kept after the answer.
AnswerKeepsStream(d) ==
    /\ pc[d] \in {"answer", "refuse"}
    /\ answer' = IF ~serving[d].open THEN answer
                 ELSE IF pc[d] = "refuse" THEN Refusal ELSE Snapshot(config[d])
    /\ Goto(d, IF serving[d].what = Shutdown THEN "cleanup" ELSE "accept")
    /\ UNCHANGED <<stop, config, backlog, serving, socket, disk,
                   asked, snapshot, error, child, retry, history>>

\* write_message; if the client has gone, nobody gets it.
Answer(d) ==
    /\ pc[d] \in {"answer", "refuse"}
    /\ answer' = IF ~serving[d].open THEN answer
                 ELSE IF pc[d] = "refuse" THEN Refusal ELSE Snapshot(config[d])
    /\ Goto(d, IF serving[d].what = Shutdown THEN "cleanup" ELSE "accept")
    /\ serving' = [serving EXCEPT ![d] = NoConnection]
    /\ UNCHANGED <<stop, config, backlog, socket, disk,
                   asked, snapshot, error, child, retry, history>>

Cleanup(d) ==
    /\ pc[d] = "cleanup"
    /\ disk' = config[d]
    /\ Goto(d, "unlink")
    /\ UNCHANGED <<stop, config, backlog, serving, socket, gui, history>>

\* Whoever has bound it.
Unlink(d) ==
    /\ pc[d] = "unlink"
    /\ socket' = NoDaemon
    /\ Exit(d)
    /\ UNCHANGED <<disk, mishaps>>

DaemonStep(d) ==
    \/ Load(d) \/ Restore(d) \/ Check(d) \/ Remove(d) \/ Bind(d) \/ Stop(d) \/ Accept(d)
    \/ ReadTimesOut(d) \/ HandleSnapshot(d) \/ HandleCommand(d) \/ CommandFails(d)
    \/ Save(d) \/ Answer(d) \/ Cleanup(d) \/ Unlink(d)

-----------------------------------------------------------------------------
(* The GUI: IpcClient::request, poll_snapshot, send.                       *)

CanConnect == socket # NoDaemon /\ Listening(socket)

Enqueue(what, open) ==
    backlog' = [backlog EXCEPT ![socket] = Append(@, [what |-> what, open |-> open])]

Ask(what) ==
    /\ CanConnect
    /\ Enqueue(what, TRUE)
    /\ asked' = what
    /\ UNCHANGED <<pc, stop, config, serving, socket, disk, answer, snapshot, error, child, retry,
                   executed, confirmed, alone, mishaps>>

\* ensure_daemon_started; with no process left (a bound) nothing is started.
EnsureStarted ==
    IF child = NoDaemon /\ \E d \in Daemons : ~Alive(d)
      THEN \E d \in Daemons : Start(d) /\ child' = d
      ELSE UNCHANGED <<pc, child, alone>>

\* poll_snapshot's Err branch: it shows no error.
PollFails ==
    /\ IF retry THEN EnsureStarted ELSE UNCHANGED <<pc, child, alone>>
    /\ retry' = FALSE
    /\ UNCHANGED error

\* send's
SendFails ==
    /\ error' = TRUE
    /\ UNCHANGED <<pc, child, retry, alone>>

Poll ==
    /\ asked = Nothing
    /\ Ask(GetSnapshot)
    /\ UNCHANGED sent

PollRefused ==
    /\ asked = Nothing /\ ~CanConnect
    /\ PollFails
    /\ UNCHANGED <<stop, config, backlog, serving, socket, disk, asked, answer, snapshot,
                   sent, executed, confirmed, mishaps>>

\* A button: there are none before the first snapshot.
Pressed ==
    /\ asked = Nothing /\ snapshot # {} /\ sent < MaxCommands
    /\ sent' = sent + 1

Send == Pressed /\ Ask(sent + 1)

SendRefused ==
    /\ Pressed /\ ~CanConnect
    /\ SendFails
    /\ UNCHANGED <<stop, config, backlog, serving, socket, disk, asked, answer, snapshot,
                   executed, confirmed, mishaps>>

\* request returns, and drops its stream.
Hangup ==
    /\ asked' = Nothing /\ answer' = NoAnswer
    /\ backlog' = [d \in Daemons |->
                    [i \in DOMAIN backlog[d] |-> [backlog[d][i] EXCEPT !.open = FALSE]]]
    /\ serving' = [d \in Daemons |-> [serving[d] EXCEPT !.open = FALSE]]

ReceiveSnapshot ==
    /\ answer.kind = "snapshot"
    /\ snapshot' = answer.shows /\ error' = FALSE
    /\ confirmed' = confirmed \cup ({asked} \cap Commands)
    /\ Hangup
    /\ UNCHANGED <<pc, stop, config, socket, disk, child, retry, sent, executed, alone, mishaps>>

ReceiveError ==
    /\ answer = Refusal
    /\ error' = TRUE
    /\ Hangup
    /\ UNCHANGED <<pc, stop, config, socket, disk, snapshot, child, retry,
                   sent, executed, confirmed, alone, mishaps>>

\* request returns an error.
RequestFails ==
    /\ IF asked = GetSnapshot THEN PollFails ELSE SendFails
    /\ Hangup
    /\ UNCHANGED <<stop, config, socket, disk, snapshot, sent, executed, confirmed>>

\* The daemon has gone.
ReceiveBroken ==
    /\ answer = Broken
    /\ RequestFails
    /\ UNCHANGED mishaps

Mishap == mishaps < MaxMishaps /\ mishaps' = mishaps + 1

\* Slip: what has timed out is sent again.
GiveUpAndAskAgain ==
    /\ Mishap
    /\ asked # Nothing /\ answer = NoAnswer
    /\ CanConnect /\ Enqueue(asked, TRUE)
    /\ UNCHANGED <<pc, stop, config, serving, socket, disk, gui, sent, executed, confirmed, alone>>

\* The read timeout of two seconds.
GiveUp ==
    /\ Mishap
    /\ asked # Nothing /\ answer = NoAnswer
    /\ RequestFails

RetryDue ==
    /\ ~retry /\ retry' = TRUE
    /\ UNCHANGED <<daemon, socket, disk, asked, answer, snapshot, error, child, history>>

\* The button next to the error: "Start daemon".
StartButton ==
    /\ asked = Nothing /\ error
    /\ EnsureStarted
    /\ error' = FALSE
    /\ UNCHANGED <<stop, config, backlog, serving, socket, disk, asked, answer, snapshot, retry,
                   sent, executed, confirmed, mishaps>>

-----------------------------------------------------------------------------
(* What happens to a daemon.                                               *)

\* By systemd, or by hand.
StartedByOthers(d) ==
    /\ Mishap
    /\ Start(d)
    /\ UNCHANGED <<stop, config, backlog, serving, socket, disk, gui, sent, executed, confirmed>>

\* SIGTERM or SIGINT; accept and read go on.
Signal(d) ==
    /\ Mishap
    /\ Alive(d) /\ ~stop[d]
    /\ stop' = [stop EXCEPT ![d] = TRUE]
    /\ UNCHANGED <<pc, config, backlog, serving, socket, disk, gui, sent, executed, confirmed, alone>>

\* The file of the socket stays.
Crash(d) ==
    /\ Mishap
    /\ Alive(d)
    /\ Exit(d)
    /\ UNCHANGED <<socket, disk>>

\* Another program connects, and sends nothing or Shutdown.
OthersConnect(what) ==
    /\ Mishap
    /\ CanConnect
    /\ Enqueue(what, FALSE)
    /\ UNCHANGED <<pc, stop, config, serving, socket, disk, gui, sent, executed, confirmed, alone>>

Next ==
    \/ \E d \in Daemons : DaemonStep(d)
    \/ Poll \/ PollRefused \/ Send \/ SendRefused
    \/ ReceiveSnapshot \/ ReceiveError \/ ReceiveBroken \/ GiveUp \/ RetryDue \/ StartButton
    \/ \E d \in Daemons : StartedByOthers(d) \/ Signal(d) \/ Crash(d)
    \/ \E what \in {Silence, Shutdown} : OthersConnect(what)

\* A running process goes on, also the GUI, which polls with every frame.
Fairness ==
    /\ \A d \in Daemons : WF_vars(DaemonStep(d))
    /\ WF_vars(Poll \/ PollRefused)
    /\ WF_vars(ReceiveSnapshot \/ ReceiveError \/ ReceiveBroken)
    /\ WF_vars(RetryDue)

Spec == Init /\ [][Next]_vars

FairSpec == Spec /\ Fairness

-----------------------------------------------------------------------------
(* Properties.                                                             *)

Serving == {"read", "save", "answer", "refuse"}
Places == Serving \cup {"off", "load", "restore", "check", "remove", "bind", "accept", "cleanup", "unlink"}
Saved == SUBSET (Commands \cup {Before})

SessionTypeOK ==
    /\ pc \in [Daemons -> Places]
    /\ stop \in [Daemons -> BOOLEAN]
    /\ config \in [Daemons -> Saved]
    /\ backlog \in [Daemons -> Seq(Connections)]
    /\ serving \in [Daemons -> Connections \cup {NoConnection}]
    /\ \A d \in Daemons : pc[d] \notin Serving => serving[d] = NoConnection
    /\ \A d \in Daemons : pc[d] = "save" => serving[d].what \in Commands
    /\ socket \in Daemons \cup {NoDaemon} /\ child \in Daemons \cup {NoDaemon}
    /\ disk \in Saved /\ snapshot \in Saved
    /\ asked \in Commands \cup {GetSnapshot, Nothing}
    /\ answer \in [kind : {"none", "snapshot", "error", "broken"}, shows : Saved]
    /\ error \in BOOLEAN /\ retry \in BOOLEAN /\ alone \in BOOLEAN
    /\ sent \in 0 .. MaxCommands /\ mishaps \in 0 .. MaxMishaps
    /\ confirmed \in SUBSET Commands
    /\ executed \in Seq([by : Daemons, command : Commands])

(* A daemon carries commands out in the order in which the GUI sent them,   *)
(* also those that the GUI has given up on and reported as failed.          *)
InOrder ==
    \A i, j \in DOMAIN executed :
        i < j /\ executed[i].by = executed[j].by => executed[i].command < executed[j].command

(* What the GUI was told is done, and all that it shows, is on disk: no     *)
(* crash takes it back, as long as never two daemons ran at a time.         *)
ConfirmedIsKept == alone => confirmed \cup snapshot \subseteq disk

(* The profile the GUI shows only moves forward, through crashes, restarts  *)
(* of the daemon and answers that came too late.                            *)
SnapshotNeverGoesBack == [][alone' => snapshot \subseteq snapshot']_vars

\* How often a command was carried out.
Times == [c \in Commands |-> Cardinality({i \in DOMAIN executed : executed[i].command = c})]

(* Each command is carried out at most once, by whichever daemon, and       *)
(* confirmed only if it was, though the GUI stops waiting for an answer     *)
(* after two seconds and the daemon does not stop working on it.            *)
Promise == INSTANCE AtMostOnce WITH done <- Times, told <- confirmed

ImplementsAtMostOnce == Promise!Spec

(* Whatever happened to the daemon, the GUI gets a snapshot again and       *)
(* again: it starts a daemon when none answers, and that one takes the      *)
(* place of what the last one left behind.                                  *)
Reconnects == []<>(answer.kind = "snapshot" \/ ~alone)

(* A daemon that was told to stop ends, also while a client is connected    *)
(* that sends nothing.                                                      *)
StopsWhenTold == \A d \in Daemons : stop[d] ~> ~Alive(d)
=============================================================================
