-------------------------- MODULE IpcSessionProofs --------------------------
(***************************************************************************)
(* What the GUI shows and was told survives every crash of the daemon, for *)
(* any number of daemons, commands and mishaps, as long as two of them     *)
(* never run at a time; and a command is carried out at most once even if  *)
(* they do.                                                                *)
(***************************************************************************)
EXTENDS IpcSession, FiniteSetTheorems, TLAPS

(* The codes of the requests are all different, and no command is Before. *)
LEMMA Codes ==
    /\ Commands \subseteq Int /\ Commands \subseteq Nat \ {0}
    /\ Nothing \notin Requests /\ GetSnapshot \notin Commands
    /\ Shutdown \notin Commands /\ Silence \notin Commands /\ Nothing \notin Commands
    /\ Before \notin Commands
  BY SessionAssumption
  DEF Commands, Nothing, Requests, GetSnapshot, Shutdown, Silence, Before

(* A connection without its client is a connection. *)
LEMMA ClosedType ==
    ASSUME NEW c \in Connections \cup {NoConnection}
    PROVE  /\ [c EXCEPT !.open = FALSE] \in Connections \cup {NoConnection}
           /\ [c EXCEPT !.open = FALSE].open = FALSE
           /\ [c EXCEPT !.open = FALSE].what = c.what
           /\ c \in Connections => [c EXCEPT !.open = FALSE] \in Connections
           /\ c = NoConnection => [c EXCEPT !.open = FALSE] = NoConnection
<1>1. CASE c \in Connections
  <2>1. NoConnection \notin Connections
    BY Codes DEF Connections, NoConnection
  <2>2. QED
    BY <1>1, <2>1 DEF Connections
<1>2. CASE c = NoConnection
  <2>1. NoConnection \notin Connections
    BY Codes DEF Connections, NoConnection
  <2>2. NoConnection \in [what : {Nothing}, open : BOOLEAN] /\ NoConnection.open = FALSE
    BY DEF NoConnection
  <2>3. \A n \in [what : {Nothing}, open : BOOLEAN] :
            ~n.open => [n EXCEPT !.open = FALSE] = n
    OBVIOUS
  <2>4. QED
    BY <1>2, <2>1, <2>2, <2>3
<1>3. QED
  BY <1>1, <1>2

-----------------------------------------------------------------------------
(* Types.                                                                  *)

LEMMA TypeInit == Init => SessionTypeOK
<1> SUFFICES ASSUME Init PROVE SessionTypeOK
  OBVIOUS
<1>1. <<>> \in Seq(Connections) /\ <<>> \in Seq([by : Daemons, command : Commands])
  OBVIOUS
<1>2. {} \in Saved /\ {Before} \in Saved
  BY DEF Saved
<1>3. 0 \in 0 .. MaxCommands /\ 0 \in 0 .. MaxMishaps
  BY SessionAssumption
<1>4. QED
  BY <1>1, <1>2, <1>3 DEF Init, SessionTypeOK, NoAnswer, Places

(* A daemon that exits. *)
LEMMA TypeExit ==
    ASSUME SessionTypeOK, NEW d \in Daemons, Exit(d),
           socket' \in Daemons \cup {NoDaemon}, disk' \in Saved,
           mishaps' \in 0 .. MaxMishaps
    PROVE  SessionTypeOK'
<1>1. <<>> \in Seq(Connections) /\ {} \in Saved
  BY DEF Saved
<1>2. Broken \in [kind : {"none", "snapshot", "error", "broken"}, shows : Saved]
  BY <1>1 DEF Broken
<1>3. answer' \in [kind : {"none", "snapshot", "error", "broken"}, shows : Saved]
  BY <1>2 DEF Exit, SessionTypeOK
<1>4. "off" \notin Serving /\ "off" # "save" /\ "off" \in Places
  BY DEF Serving, Places
<1>5. /\ pc' \in [Daemons -> Places]
      /\ stop' \in [Daemons -> BOOLEAN]
      /\ config' \in [Daemons -> Saved]
      /\ backlog' \in [Daemons -> Seq(Connections)]
      /\ serving' \in [Daemons -> Connections \cup {NoConnection}]
  BY <1>1, <1>4 DEF Exit, Goto, SessionTypeOK
<1>6. /\ \A e \in Daemons : pc'[e] \notin Serving => serving'[e] = NoConnection
      /\ \A e \in Daemons : pc'[e] = "save" => serving'[e].what \in Commands
  BY <1>4 DEF Exit, Goto, SessionTypeOK
<1>7. QED
  BY <1>3, <1>5, <1>6 DEF Exit, SessionTypeOK

(* A daemon that goes on, with what it serves unchanged. *)
LEMMA TypeGoto ==
    ASSUME SessionTypeOK, NEW d \in Daemons, NEW where \in Places, Goto(d, where),
           where \notin Serving => serving[d] = NoConnection,
           where = "save" => serving[d].what \in Commands,
           config' \in [Daemons -> Saved], disk' \in Saved, socket' \in Daemons \cup {NoDaemon},
           executed' \in Seq([by : Daemons, command : Commands]),
           UNCHANGED <<stop, backlog, serving, gui, sent, confirmed, alone, mishaps>>
    PROVE  SessionTypeOK'
<1>1. pc' \in [Daemons -> Places]
  BY DEF Goto, SessionTypeOK
<1>2. /\ \A e \in Daemons : pc'[e] \notin Serving => serving'[e] = NoConnection
      /\ \A e \in Daemons : pc'[e] = "save" => serving'[e].what \in Commands
  BY DEF Goto, SessionTypeOK
<1>3. QED
  BY <1>1, <1>2 DEF SessionTypeOK, gui

LEMMA TypeDaemon ==
    ASSUME SessionTypeOK, NEW d \in Daemons, DaemonStep(d)
    PROVE  SessionTypeOK'
<1>1. /\ disk \in Saved /\ config[d] \in Saved /\ socket \in Daemons \cup {NoDaemon}
      /\ config \in [Daemons -> Saved] /\ mishaps \in 0 .. MaxMishaps
      /\ executed \in Seq([by : Daemons, command : Commands])
      /\ pc[d] \notin Serving => serving[d] = NoConnection
      /\ d \in Daemons \cup {NoDaemon} /\ NoDaemon \in Daemons \cup {NoDaemon}
  BY DEF SessionTypeOK
<1>2. {"load", "restore", "check", "remove", "bind", "accept", "cleanup", "unlink"} \cap Serving = {}
  BY DEF Serving
<1>3. {"load", "restore", "check", "remove", "bind", "accept", "cleanup", "unlink"} \subseteq Places
      /\ Serving \subseteq Places /\ {"read", "save", "answer", "refuse"} = Serving
  BY DEF Serving, Places
<1>4. CASE Load(d)
  <2>1. config' \in [Daemons -> Saved]
    BY <1>1, <1>4 DEF Load
  <2>2. QED
    BY <1>1, <1>2, <1>3, <1>4, <2>1, TypeGoto DEF Load, history
<1>5. CASE Restore(d)
  <2>1. disk' \in Saved
    BY <1>1, <1>5 DEF Restore
  <2>2. QED
    BY <1>1, <1>2, <1>3, <1>5, <2>1, TypeGoto DEF Restore, history
<1>6. CASE Check(d)
  BY <1>1, <1>2, <1>3, <1>6, TypeGoto DEF Check, history
<1>7. CASE Remove(d)
  <2>1. CASE socket = NoDaemon
    BY <1>1, <1>7, <2>1, TypeExit DEF Remove
  <2>2. CASE socket # NoDaemon
    BY <1>1, <1>2, <1>3, <1>7, <2>2, TypeGoto DEF Remove, history
  <2>3. QED
    BY <2>1, <2>2
<1>8. CASE Bind(d)
  <2>1. CASE socket # NoDaemon
    BY <1>1, <1>8, <2>1, TypeExit DEF Bind
  <2>2. CASE socket = NoDaemon
    BY <1>1, <1>2, <1>3, <1>8, <2>2, TypeGoto DEF Bind, history
  <2>3. QED
    BY <2>1, <2>2
<1>9. CASE Stop(d)
  BY <1>1, <1>2, <1>3, <1>9, TypeGoto DEF Stop, history
<1>10. CASE Accept(d)
  <2>1. backlog[d] \in Seq(Connections) /\ backlog[d] # <<>>
    BY <1>10 DEF Accept, SessionTypeOK
  <2>2. Head(backlog[d]) \in Connections /\ Tail(backlog[d]) \in Seq(Connections)
    BY <2>1
  <2>3. /\ pc' \in [Daemons -> Places]
        /\ backlog' \in [Daemons -> Seq(Connections)]
        /\ serving' \in [Daemons -> Connections \cup {NoConnection}]
    BY <1>3, <1>10, <2>2 DEF Accept, Goto, SessionTypeOK
  <2>4. /\ \A e \in Daemons : pc'[e] \notin Serving => serving'[e] = NoConnection
        /\ \A e \in Daemons : pc'[e] = "save" => serving'[e].what \in Commands
    BY <1>3, <1>10 DEF Accept, Goto, SessionTypeOK
  <2>5. QED
    BY <1>10, <2>3, <2>4 DEF Accept, SessionTypeOK, gui, history
<1>11. CASE ReadTimesOut(d)
  BY <1>1, <1>2, <1>3, <1>11, TypeGoto DEF ReadTimesOut, history
<1>12. CASE HandleSnapshot(d)
  BY <1>1, <1>2, <1>3, <1>12, TypeGoto DEF HandleSnapshot, history
<1>13. CASE HandleCommand(d)
  <2> DEFINE c == serving[d].what
  <2>1. c \in Commands
    BY <1>13 DEF HandleCommand
  <2>2. config[d] \cup {c} \in Saved
    BY <1>1, <2>1 DEF Saved
  <2>3. config' \in [Daemons -> Saved]
    BY <1>1, <1>13, <2>2 DEF HandleCommand, Effect
  <2>4. executed' \in Seq([by : Daemons, command : Commands])
    BY <1>1, <1>13, <2>1 DEF HandleCommand, Effect
  <2>5. QED
    BY <1>1, <1>3, <1>13, <2>1, <2>3, <2>4, TypeGoto DEF HandleCommand, Effect
<1>14. CASE CommandFails(d)
  BY <1>1, <1>2, <1>3, <1>14, TypeGoto DEF CommandFails, history
<1>15. CASE Save(d)
  BY <1>1, <1>2, <1>3, <1>15, TypeGoto DEF Save, history
<1>16. CASE Answer(d)
  <2>1. Snapshot(config[d]) \in [kind : {"none", "snapshot", "error", "broken"}, shows : Saved]
        /\ Refusal \in [kind : {"none", "snapshot", "error", "broken"}, shows : Saved]
    BY <1>1 DEF Snapshot, Refusal, Saved
  <2>2. answer' \in [kind : {"none", "snapshot", "error", "broken"}, shows : Saved]
    BY <1>16, <2>1 DEF Answer, SessionTypeOK
  <2>3. /\ pc' \in [Daemons -> Places]
        /\ serving' \in [Daemons -> Connections \cup {NoConnection}]
    BY <1>3, <1>16 DEF Answer, Goto, SessionTypeOK
  <2>4. /\ \A e \in Daemons : pc'[e] \notin Serving => serving'[e] = NoConnection
        /\ \A e \in Daemons : pc'[e] = "save" => serving'[e].what \in Commands
    BY <1>3, <1>16 DEF Answer, Goto, SessionTypeOK
  <2>5. QED
    BY <1>16, <2>2, <2>3, <2>4 DEF Answer, SessionTypeOK, history
<1>17. CASE Cleanup(d)
  BY <1>1, <1>2, <1>3, <1>17, TypeGoto DEF Cleanup, history
<1>18. CASE Unlink(d)
  BY <1>1, <1>18, TypeExit DEF Unlink
<1>19. QED
  BY <1>4, <1>5, <1>6, <1>7, <1>8, <1>9, <1>10, <1>11, <1>12, <1>13, <1>14, <1>15, <1>16,
     <1>17, <1>18
  DEF DaemonStep

\* A step that at most starts a daemon.
AtMostStarts ==
    /\ pc' \in [Daemons -> Places] /\ alone' \in BOOLEAN /\ child' \in Daemons \cup {NoDaemon}
    /\ \A d \in Daemons : pc'[d] = pc[d] \/ (pc[d] = "off" /\ pc'[d] = "load")
    /\ alone' => alone
    /\ alone' => \A d, e \in Daemons : pc'[d] # pc[d] => pc[e] = "off"
    /\ alone' => \A d, e \in Daemons : pc'[d] # pc[d] /\ pc'[e] # pc[e] => d = e

LEMMA StartStarts ==
    ASSUME SessionTypeOK, NEW d \in Daemons, Start(d), child' \in Daemons \cup {NoDaemon}
    PROVE  AtMostStarts
<1>1. "load" \in Places
  BY DEF Places
<1>2. pc \in [Daemons -> Places] /\ pc[d] = "off" /\ alone \in BOOLEAN
  BY DEF SessionTypeOK, Start, Alive
<1>3. alone' = (alone /\ \A e \in Daemons : pc[e] = "off") /\ pc' = [pc EXCEPT ![d] = "load"]
  BY DEF Start, Alive
<1>4. alone' \in BOOLEAN
  BY <1>3
<1>5. QED
  BY <1>1, <1>2, <1>3, <1>4 DEF AtMostStarts

LEMMA StaysStarts ==
    ASSUME SessionTypeOK, UNCHANGED <<pc, child, alone>>
    PROVE  AtMostStarts
  BY DEF AtMostStarts, SessionTypeOK

LEMMA EnsureStarts ==
    ASSUME SessionTypeOK, EnsureStarted
    PROVE  AtMostStarts
<1>1. CASE child = NoDaemon /\ \E d \in Daemons : ~Alive(d)
  <2>1. PICK d \in Daemons : Start(d) /\ child' = d
    BY <1>1 DEF EnsureStarted
  <2>2. QED
    BY <2>1, StartStarts
<1>2. CASE ~(child = NoDaemon /\ \E d \in Daemons : ~Alive(d))
  BY <1>2, StaysStarts DEF EnsureStarted
<1>3. QED
  BY <1>1, <1>2

LEMMA PollFailsStarts ==
    ASSUME SessionTypeOK, PollFails
    PROVE  AtMostStarts /\ retry' \in BOOLEAN /\ error' \in BOOLEAN
<1>1. AtMostStarts
  BY EnsureStarts, StaysStarts DEF PollFails
<1>2. QED
  BY <1>1 DEF PollFails, SessionTypeOK

LEMMA RequestFailsStarts ==
    ASSUME SessionTypeOK, RequestFails
    PROVE  AtMostStarts /\ retry' \in BOOLEAN /\ error' \in BOOLEAN
<1>1. CASE asked = GetSnapshot
  BY <1>1, PollFailsStarts DEF RequestFails
<1>2. CASE asked # GetSnapshot
  BY <1>2, StaysStarts DEF RequestFails, SendFails, SessionTypeOK
<1>3. QED
  BY <1>1, <1>2

(* The types of the daemons' places and connections in such a step. *)
LEMMA TypeStarts ==
    ASSUME SessionTypeOK, AtMostStarts, UNCHANGED <<stop, config, backlog, serving>>
    PROVE  /\ stop' \in [Daemons -> BOOLEAN] /\ config' \in [Daemons -> Saved]
           /\ backlog' \in [Daemons -> Seq(Connections)]
           /\ serving' \in [Daemons -> Connections \cup {NoConnection}]
           /\ \A d \in Daemons : pc'[d] \notin Serving => serving'[d] = NoConnection
           /\ \A d \in Daemons : pc'[d] = "save" => serving'[d].what \in Commands
<1>1. "off" \notin Serving /\ "load" \notin Serving /\ "load" # "save"
  BY DEF Serving
<1>2. QED
  BY <1>1 DEF SessionTypeOK, AtMostStarts

\* Dropping the stream leaves what is asked on it.
HungUp ==
    /\ asked' = Nothing /\ answer' = NoAnswer
    /\ \A d \in Daemons :
        /\ DOMAIN backlog'[d] = DOMAIN backlog[d] /\ Len(backlog'[d]) = Len(backlog[d])
        /\ \A i \in DOMAIN backlog[d] :
            ~backlog'[d][i].open /\ backlog'[d][i].what = backlog[d][i].what
    /\ \A d \in Daemons : ~serving'[d].open /\ serving'[d].what = serving[d].what

LEMMA HangupCloses ==
    ASSUME SessionTypeOK, Hangup
    PROVE  /\ HungUp
           /\ backlog' \in [Daemons -> Seq(Connections)]
           /\ serving' \in [Daemons -> Connections \cup {NoConnection}]
           /\ \A d \in Daemons : serving[d] = NoConnection => serving'[d] = NoConnection
           /\ asked' \in Commands \cup {GetSnapshot, Nothing}
           /\ answer' \in [kind : {"none", "snapshot", "error", "broken"}, shows : Saved]
<1>1. ASSUME NEW d \in Daemons
      PROVE  /\ backlog'[d] \in Seq(Connections)
             /\ DOMAIN backlog'[d] = DOMAIN backlog[d] /\ Len(backlog'[d]) = Len(backlog[d])
             /\ \A i \in DOMAIN backlog[d] :
                    ~backlog'[d][i].open /\ backlog'[d][i].what = backlog[d][i].what
  <2> DEFINE q == backlog[d]
             r == [i \in DOMAIN q |-> [q[i] EXCEPT !.open = FALSE]]
  <2>1. q \in Seq(Connections)
    BY DEF SessionTypeOK
  <2>2. backlog'[d] = r
    BY DEF Hangup
  <2> HIDE DEF q
  <2>3. Len(q) \in Nat /\ DOMAIN q = 1 .. Len(q) /\ \A i \in DOMAIN q : q[i] \in Connections
    BY <2>1
  <2>4. \A i \in DOMAIN q : r[i] \in Connections /\ ~r[i].open /\ r[i].what = q[i].what
    BY <2>3, ClosedType
  <2>5. DOMAIN r = 1 .. Len(q)
    BY <2>3
  <2> HIDE DEF r
  <2>6. r = [i \in 1 .. Len(q) |-> r[i]]
    BY <2>2, <2>3 DEF r
  <2>7. r \in Seq(Connections) /\ Len(r) = Len(q)
    BY <2>3, <2>4, <2>5, <2>6
  <2>8. QED
    BY <2>2, <2>3, <2>4, <2>5, <2>7 DEF q
<1>2. backlog' \in [Daemons -> Seq(Connections)]
  <2>1. backlog' = [d \in Daemons |-> backlog'[d]]
    BY DEF Hangup
  <2>2. QED
    BY <1>1, <2>1
<1>3. ASSUME NEW d \in Daemons
      PROVE  /\ serving'[d] \in Connections \cup {NoConnection}
             /\ ~serving'[d].open /\ serving'[d].what = serving[d].what
             /\ serving[d] = NoConnection => serving'[d] = NoConnection
  <2>1. serving[d] \in Connections \cup {NoConnection}
    BY DEF SessionTypeOK
  <2>2. serving'[d] = [serving[d] EXCEPT !.open = FALSE]
    BY DEF Hangup
  <2>3. QED
    BY <2>1, <2>2, ClosedType
<1>4. serving' \in [Daemons -> Connections \cup {NoConnection}]
  <2>1. serving' = [d \in Daemons |-> serving'[d]]
    BY DEF Hangup
  <2>2. QED
    BY <1>3, <2>1
<1>5. NoAnswer \in [kind : {"none", "snapshot", "error", "broken"}, shows : Saved]
  BY DEF NoAnswer, Saved
<1>6. asked' = Nothing /\ answer' = NoAnswer
  BY DEF Hangup
<1>7. HungUp
  BY <1>1, <1>3, <1>6 DEF HungUp
<1>8. QED
  BY <1>2, <1>3, <1>4, <1>5, <1>6, <1>7

(* A connection more. *)
LEMMA TypeEnqueue ==
    ASSUME SessionTypeOK, CanConnect, NEW what \in Requests, NEW open \in BOOLEAN,
           Enqueue(what, open)
    PROVE  backlog' \in [Daemons -> Seq(Connections)] /\ socket \in Daemons
<1>1. socket \in Daemons /\ backlog \in [Daemons -> Seq(Connections)]
  BY DEF CanConnect, SessionTypeOK
<1>2. [what |-> what, open |-> open] \in Connections
  BY DEF Connections
<1>3. Append(backlog[socket], [what |-> what, open |-> open]) \in Seq(Connections)
  BY <1>1, <1>2
<1>4. QED
  BY <1>1, <1>3 DEF Enqueue

LEMMA TypeRequestFails ==
    ASSUME SessionTypeOK, RequestFails, mishaps' \in 0 .. MaxMishaps
    PROVE  SessionTypeOK'
<1>1. AtMostStarts /\ retry' \in BOOLEAN /\ error' \in BOOLEAN
  BY RequestFailsStarts
<1>2. Hangup
  BY DEF RequestFails
<1>3. "off" \notin Serving /\ "load" \notin Serving /\ "load" # "save"
  BY DEF Serving
<1>4. /\ \A d \in Daemons : pc'[d] \notin Serving => serving'[d] = NoConnection
      /\ \A d \in Daemons : pc'[d] = "save" => serving'[d].what \in Commands
  BY <1>1, <1>2, <1>3, HangupCloses DEF AtMostStarts, SessionTypeOK, HungUp
<1>5. QED
  BY <1>1, <1>2, <1>4, HangupCloses DEF AtMostStarts, SessionTypeOK, RequestFails

LEMMA TypeReceive ==
    ASSUME SessionTypeOK, ReceiveSnapshot \/ ReceiveError
    PROVE  SessionTypeOK'
<1>1. Hangup /\ UNCHANGED <<pc, stop, config, socket, disk, child, retry, sent, executed, alone,
                            mishaps>>
  BY DEF ReceiveSnapshot, ReceiveError
<1>2. /\ \A d \in Daemons : pc'[d] \notin Serving => serving'[d] = NoConnection
      /\ \A d \in Daemons : pc'[d] = "save" => serving'[d].what \in Commands
  BY <1>1, HangupCloses DEF SessionTypeOK, HungUp
<1>3. snapshot' \in Saved /\ error' \in BOOLEAN /\ confirmed' \in SUBSET Commands
  BY DEF ReceiveSnapshot, ReceiveError, SessionTypeOK
<1>4. QED
  BY <1>1, <1>2, <1>3, HangupCloses DEF SessionTypeOK

LEMMA TypeAsk ==
    ASSUME SessionTypeOK, NEW what \in Commands \cup {GetSnapshot}, Ask(what),
           sent' \in 0 .. MaxCommands
    PROVE  SessionTypeOK'
<1>1. backlog' \in [Daemons -> Seq(Connections)]
  BY TypeEnqueue DEF Ask, Requests
<1>2. QED
  BY <1>1 DEF Ask, SessionTypeOK

(* A mishap is counted. *)
LEMMA TypeMishap ==
    ASSUME SessionTypeOK, Mishap
    PROVE  mishaps' \in 0 .. MaxMishaps
  BY SessionAssumption DEF SessionTypeOK, Mishap

(* The next command. *)
LEMMA TypePressed ==
    ASSUME SessionTypeOK, Pressed
    PROVE  sent + 1 \in Commands /\ sent' \in 0 .. MaxCommands
  BY SessionAssumption DEF SessionTypeOK, Pressed, Commands

LEMMA TypeNext == SessionTypeOK /\ [Next]_vars => SessionTypeOK'
<1> SUFFICES ASSUME SessionTypeOK, [Next]_vars
             PROVE  SessionTypeOK'
  OBVIOUS
<1>1. CASE UNCHANGED vars
  BY <1>1 DEF SessionTypeOK, vars, daemon, gui, history
<1>2. ASSUME NEW d \in Daemons, DaemonStep(d)
      PROVE  SessionTypeOK'
  BY <1>2, TypeDaemon
<1>3. CASE Poll
  BY <1>3, TypeAsk DEF Poll, SessionTypeOK
<1>4. CASE PollRefused
  <2>1. AtMostStarts /\ retry' \in BOOLEAN /\ error' \in BOOLEAN
    BY <1>4, PollFailsStarts DEF PollRefused
  <2>2. QED
    BY <1>4, <2>1, TypeStarts DEF PollRefused, SessionTypeOK, AtMostStarts
<1>5. CASE Send
  BY <1>5, TypePressed, TypeAsk DEF Send
<1>6. CASE SendRefused
  BY <1>6, TypePressed DEF SendRefused, SendFails, SessionTypeOK
<1>7. CASE ReceiveSnapshot \/ ReceiveError
  BY <1>7, TypeReceive
<1>8. CASE ReceiveBroken
  BY <1>8, TypeRequestFails DEF ReceiveBroken, SessionTypeOK
<1>9. CASE GiveUp
  BY <1>9, TypeRequestFails, TypeMishap DEF GiveUp
<1>10. CASE RetryDue
  BY <1>10 DEF RetryDue, SessionTypeOK, daemon, history
<1>11. CASE StartButton
  <2>1. AtMostStarts /\ error' \in BOOLEAN
    BY <1>11, EnsureStarts DEF StartButton
  <2>2. QED
    BY <1>11, <2>1, TypeStarts DEF StartButton, SessionTypeOK, AtMostStarts
<1>12. ASSUME NEW d \in Daemons, StartedByOthers(d)
       PROVE  SessionTypeOK'
  <2>1. AtMostStarts /\ mishaps' \in 0 .. MaxMishaps
    BY <1>12, StartStarts, TypeMishap DEF StartedByOthers, SessionTypeOK, gui
  <2>2. QED
    BY <1>12, <2>1, TypeStarts DEF StartedByOthers, SessionTypeOK, AtMostStarts, gui
<1>13. ASSUME NEW d \in Daemons, Signal(d)
       PROVE  SessionTypeOK'
  <2>1. mishaps' \in 0 .. MaxMishaps
    BY <1>13, TypeMishap DEF Signal
  <2>2. QED
    BY <1>13, <2>1 DEF Signal, SessionTypeOK, gui
<1>14. ASSUME NEW d \in Daemons, Crash(d)
       PROVE  SessionTypeOK'
  BY <1>14, TypeExit, TypeMishap DEF Crash, SessionTypeOK
<1>15. ASSUME NEW what \in {Silence, Shutdown}, OthersConnect(what)
       PROVE  SessionTypeOK'
  <2>1. backlog' \in [Daemons -> Seq(Connections)] /\ mishaps' \in 0 .. MaxMishaps
    BY <1>15, TypeEnqueue, TypeMishap DEF OthersConnect, Requests
  <2>2. QED
    BY <1>15, <2>1 DEF OthersConnect, SessionTypeOK, gui
<1>16. QED
  BY <1>1, <1>2, <1>3, <1>4, <1>5, <1>6, <1>7, <1>8, <1>9, <1>10, <1>11, <1>12, <1>13, <1>14,
     <1>15
  DEF Next

(* Everything has its type, and a daemon that serves nobody has no          *)
(* connection in its hands: run drops the stream before it accepts again.   *)
THEOREM SessionTypes == Spec => []SessionTypeOK
  BY TypeInit, TypeNext, PTL DEF Spec

-----------------------------------------------------------------------------
(* What is confirmed is kept.                                              *)

\* There is never more than one daemon, while `alone`.
OnlyOne == alone => \A d, e \in Daemons : Alive(d) /\ Alive(e) => d = e

\* It has in memory what is on disk, except between a command and its save.
InMemory ==
    alone => \A d \in Daemons : pc[d] \notin {"off", "load"} =>
                IF pc[d] = "save" THEN disk \subseteq config[d] ELSE config[d] = disk

\* An open connection is that of the request the GUI waits for.
OpenIsAsked ==
    \A d \in Daemons :
        /\ serving[d].open => serving[d].what = asked
        /\ \A i \in DOMAIN backlog[d] : backlog[d][i].open => backlog[d][i].what = asked

\* A command that is not refused has had its effect before it is answered.
HasEffect ==
    \A d \in Daemons : pc[d] \in {"save", "answer"} /\ serving[d].what \in Commands =>
        serving[d].what \in config[d]

\* A snapshot that has arrived shows the command it answers, and what it shows is saved.
AnswerFits ==
    /\ asked = Nothing => answer = NoAnswer
    /\ answer.kind = "snapshot" =>
        /\ asked \in Commands => asked \in answer.shows
        /\ alone => answer.shows \subseteq disk /\ snapshot \subseteq answer.shows

KeptInv ==
    /\ SessionTypeOK /\ OnlyOne /\ InMemory /\ OpenIsAsked /\ HasEffect /\ AnswerFits
    /\ ConfirmedIsKept

LEMMA KeptInit == Init => KeptInv
<1> SUFFICES ASSUME Init PROVE KeptInv
  OBVIOUS
<1>1. SessionTypeOK
  BY TypeInit
<1>2. OnlyOne /\ InMemory /\ HasEffect
  BY DEF Init, OnlyOne, InMemory, HasEffect, Alive
<1>3. OpenIsAsked
  BY DEF Init, OpenIsAsked, NoConnection
<1>4. AnswerFits /\ ConfirmedIsKept
  BY DEF Init, AnswerFits, ConfirmedIsKept, NoAnswer
<1>5. QED
  BY <1>1, <1>2, <1>3, <1>4 DEF KeptInv

(* While nobody is asked, no connection is open. *)
LEMMA NoneOpen ==
    ASSUME SessionTypeOK, OpenIsAsked, asked = Nothing
    PROVE  \A d \in Daemons :
            ~serving[d].open /\ \A i \in DOMAIN backlog[d] : ~backlog[d][i].open
<1> SUFFICES ASSUME NEW d \in Daemons
             PROVE  ~serving[d].open /\ \A i \in DOMAIN backlog[d] : ~backlog[d][i].open
  OBVIOUS
<1>1. serving[d] \in Connections \cup {NoConnection} /\ backlog[d] \in Seq(Connections)
  BY DEF SessionTypeOK
<1>2. \A c \in Connections : c.what # Nothing
  BY Codes DEF Connections
<1>3. ~NoConnection.open
  BY DEF NoConnection
<1>4. \A i \in DOMAIN backlog[d] : backlog[d][i] \in Connections
  BY <1>1
<1>5. QED
  BY <1>1, <1>2, <1>3, <1>4 DEF OpenIsAsked

(* A daemon that exits takes only its own memory with it. *)
LEMMA KeptExit ==
    ASSUME KeptInv, NEW d \in Daemons, Exit(d), UNCHANGED disk
    PROVE  OnlyOne' /\ InMemory' /\ OpenIsAsked' /\ HasEffect' /\ AnswerFits' /\ ConfirmedIsKept'
<1>1. /\ pc' = [pc EXCEPT ![d] = "off"] /\ config' = [config EXCEPT ![d] = {}]
      /\ backlog' = [backlog EXCEPT ![d] = <<>>]
      /\ serving' = [serving EXCEPT ![d] = NoConnection]
      /\ UNCHANGED <<asked, snapshot, confirmed, alone, disk>>
  BY DEF Exit, Goto
<1>2. /\ pc \in [Daemons -> Places] /\ config \in [Daemons -> Saved]
      /\ backlog \in [Daemons -> Seq(Connections)]
      /\ serving \in [Daemons -> Connections \cup {NoConnection}]
  BY DEF KeptInv, SessionTypeOK
<1>3. OnlyOne'
  BY <1>1, <1>2 DEF KeptInv, OnlyOne, Alive
<1>4. InMemory'
  BY <1>1, <1>2 DEF KeptInv, InMemory
<1>5. OpenIsAsked'
  <2>1. DOMAIN <<>> = {}
    OBVIOUS
  <2>2. QED
    BY <1>1, <1>2, <2>1 DEF KeptInv, OpenIsAsked, NoConnection
<1>6. HasEffect'
  BY <1>1, <1>2 DEF KeptInv, HasEffect
<1>7. answer' \in {answer, Broken} /\ (asked = Nothing => answer' = answer)
  BY NoneOpen DEF Exit, KeptInv
<1>8. AnswerFits'
  BY <1>1, <1>7 DEF KeptInv, AnswerFits, Broken
<1>9. ConfirmedIsKept'
  BY <1>1 DEF KeptInv, ConfirmedIsKept
<1>10. QED
  BY <1>3, <1>4, <1>5, <1>6, <1>8, <1>9

(* A daemon that goes on with its memory in step with the disk. *)
LEMMA KeptGoto ==
    ASSUME KeptInv, NEW d \in Daemons, NEW where \in Places \ {"off", "load", "save"},
           Goto(d, where), Alive(d), NEW memory \in Saved, config' = [config EXCEPT ![d] = memory],
           alone => memory = disk' /\ disk \subseteq disk',
           where = "answer" /\ serving[d].what \in Commands => serving[d].what \in memory,
           UNCHANGED <<backlog, serving, gui, confirmed, alone>>
    PROVE  OnlyOne' /\ InMemory' /\ OpenIsAsked' /\ HasEffect' /\ AnswerFits' /\ ConfirmedIsKept'
<1>1. pc' = [pc EXCEPT ![d] = where] /\ pc[d] # "off"
  BY DEF Goto, Alive
<1>2. /\ pc \in [Daemons -> Places] /\ config \in [Daemons -> Saved]
  BY DEF KeptInv, SessionTypeOK
<1>3. OnlyOne'
  BY <1>1, <1>2 DEF KeptInv, OnlyOne, Alive
<1>4. InMemory'
  <2> SUFFICES ASSUME alone, NEW e \in Daemons, pc'[e] \notin {"off", "load"}
               PROVE  IF pc'[e] = "save" THEN disk' \subseteq config'[e] ELSE config'[e] = disk'
    BY DEF InMemory
  <2>1. e = d
    BY <1>1, <1>2 DEF KeptInv, OnlyOne, Alive
  <2>2. QED
    BY <1>1, <1>2, <2>1
<1>5. OpenIsAsked'
  BY DEF KeptInv, OpenIsAsked, gui
<1>6. HasEffect'
  BY <1>1, <1>2 DEF KeptInv, HasEffect
<1>7. AnswerFits'
  BY DEF KeptInv, AnswerFits, gui
<1>8. ConfirmedIsKept'
  BY DEF KeptInv, ConfirmedIsKept, gui
<1>9. QED
  BY <1>3, <1>4, <1>5, <1>6, <1>7, <1>8

LEMMA KeptAccept ==
    ASSUME KeptInv, NEW d \in Daemons, Accept(d)
    PROVE  OnlyOne' /\ InMemory' /\ OpenIsAsked' /\ HasEffect' /\ AnswerFits' /\ ConfirmedIsKept'
<1>1. /\ pc' = [pc EXCEPT ![d] = "read"] /\ pc[d] = "accept"
      /\ serving' = [serving EXCEPT ![d] = Head(backlog[d])]
      /\ backlog' = [backlog EXCEPT ![d] = Tail(backlog[d])]
      /\ backlog[d] # <<>>
      /\ UNCHANGED <<config, disk, asked, answer, snapshot, confirmed, alone>>
  BY DEF Accept, Goto, gui, history
<1>2. /\ pc \in [Daemons -> Places] /\ backlog \in [Daemons -> Seq(Connections)]
      /\ serving \in [Daemons -> Connections \cup {NoConnection}]
  BY DEF KeptInv, SessionTypeOK
<1>3. OnlyOne' /\ InMemory' /\ HasEffect'
  <2>1. OnlyOne'
    BY <1>1, <1>2 DEF KeptInv, OnlyOne, Alive
  <2>2. InMemory'
    BY <1>1, <1>2 DEF KeptInv, InMemory
  <2>3. HasEffect'
    BY <1>1, <1>2 DEF KeptInv, HasEffect
  <2>4. QED
    BY <2>1, <2>2, <2>3
<1>4. OpenIsAsked'
  <2> DEFINE q == backlog[d]
  <2>1. q \in Seq(Connections) /\ q # <<>>
    BY <1>1, <1>2
  <2>2. \A i \in DOMAIN q : q[i].open => q[i].what = asked
    BY DEF KeptInv, OpenIsAsked
  <2> HIDE DEF q
  <2>3. Head(q) = q[1] /\ 1 \in DOMAIN q
    BY <2>1
  <2>4. \A i \in DOMAIN Tail(q) : Tail(q)[i] = q[i + 1] /\ i + 1 \in DOMAIN q
    BY <2>1
  <2>5. /\ Head(q).open => Head(q).what = asked
        /\ \A i \in DOMAIN Tail(q) : Tail(q)[i].open => Tail(q)[i].what = asked
    BY <2>2, <2>3, <2>4
  <2>6. serving' = [serving EXCEPT ![d] = Head(q)] /\ backlog' = [backlog EXCEPT ![d] = Tail(q)]
    BY <1>1 DEF q
  <2>7. QED
    BY <1>1, <1>2, <2>5, <2>6 DEF KeptInv, OpenIsAsked
<1>5. AnswerFits' /\ ConfirmedIsKept'
  BY <1>1 DEF KeptInv, AnswerFits, ConfirmedIsKept
<1>6. QED
  BY <1>3, <1>4, <1>5

LEMMA KeptCommand ==
    ASSUME KeptInv, NEW d \in Daemons, HandleCommand(d)
    PROVE  OnlyOne' /\ InMemory' /\ OpenIsAsked' /\ HasEffect' /\ AnswerFits' /\ ConfirmedIsKept'
<1>1. /\ pc' = [pc EXCEPT ![d] = "save"] /\ pc[d] = "read"
      /\ config' = [config EXCEPT ![d] = config[d] \cup {serving[d].what}]
      /\ UNCHANGED <<backlog, serving, disk, asked, answer, snapshot, confirmed, alone>>
  BY DEF HandleCommand, Effect, Goto, gui
<1>2. pc \in [Daemons -> Places] /\ config \in [Daemons -> Saved]
  BY DEF KeptInv, SessionTypeOK
<1>3. OnlyOne'
  BY <1>1, <1>2 DEF KeptInv, OnlyOne, Alive
<1>4. InMemory'
  BY <1>1, <1>2 DEF KeptInv, InMemory
<1>5. OpenIsAsked'
  BY <1>1 DEF KeptInv, OpenIsAsked
<1>6. HasEffect'
  BY <1>1, <1>2 DEF KeptInv, HasEffect
<1>7. AnswerFits' /\ ConfirmedIsKept'
  BY <1>1 DEF KeptInv, AnswerFits, ConfirmedIsKept
<1>8. QED
  BY <1>3, <1>4, <1>5, <1>6, <1>7

(* The answer shows what is on disk, and the command it is for. *)
LEMMA KeptAnswer ==
    ASSUME KeptInv, NEW d \in Daemons, Answer(d)
    PROVE  OnlyOne' /\ InMemory' /\ OpenIsAsked' /\ HasEffect' /\ AnswerFits' /\ ConfirmedIsKept'
<1> DEFINE where == IF serving[d].what = Shutdown THEN "cleanup" ELSE "accept"
<1>1. /\ pc' = [pc EXCEPT ![d] = where] /\ pc[d] \in {"answer", "refuse"}
      /\ serving' = [serving EXCEPT ![d] = NoConnection]
      /\ UNCHANGED <<config, backlog, disk, asked, snapshot, confirmed, alone>>
  BY DEF Answer, Goto, history
<1>2. where \in {"cleanup", "accept"}
  OBVIOUS
<1> HIDE DEF where
<1>3. /\ pc \in [Daemons -> Places] /\ config \in [Daemons -> Saved]
      /\ serving \in [Daemons -> Connections \cup {NoConnection}]
  BY DEF KeptInv, SessionTypeOK
<1>4. OnlyOne'
  BY <1>1, <1>2, <1>3 DEF KeptInv, OnlyOne, Alive
<1>5. InMemory'
  BY <1>1, <1>2, <1>3 DEF KeptInv, InMemory
<1>6. OpenIsAsked'
  BY <1>1, <1>3 DEF KeptInv, OpenIsAsked, NoConnection
<1>7. HasEffect'
  BY <1>1, <1>2, <1>3 DEF KeptInv, HasEffect
<1>8. AnswerFits'
  <2>1. CASE ~serving[d].open
    <3>1. answer' = answer
      BY <2>1 DEF Answer
    <3>2. QED
      BY <1>1, <3>1 DEF KeptInv, AnswerFits
  <2>2. CASE serving[d].open /\ pc[d] = "refuse"
    <3>1. answer' = Refusal /\ asked # Nothing
      BY <2>2, NoneOpen DEF Answer, KeptInv
    <3>2. QED
      BY <1>1, <3>1 DEF AnswerFits, Refusal
  <2>3. CASE serving[d].open /\ pc[d] = "answer"
    <3>1. answer' = Snapshot(config[d]) /\ asked # Nothing
      BY <2>3, NoneOpen DEF Answer, KeptInv
    <3>2. alone => config[d] = disk /\ snapshot \subseteq disk
      BY <2>3 DEF KeptInv, InMemory, ConfirmedIsKept
    <3>3. asked \in Commands => asked \in config[d]
      BY <2>3 DEF KeptInv, OpenIsAsked, HasEffect
    <3>4. QED
      BY <1>1, <3>1, <3>2, <3>3 DEF AnswerFits, Snapshot
  <2>4. QED
    BY <1>1, <2>1, <2>2, <2>3
<1>9. ConfirmedIsKept'
  BY <1>1 DEF KeptInv, ConfirmedIsKept
<1>10. QED
  BY <1>4, <1>5, <1>6, <1>7, <1>8, <1>9

LEMMA KeptDaemon ==
    ASSUME KeptInv, NEW d \in Daemons, DaemonStep(d)
    PROVE  OnlyOne' /\ InMemory' /\ OpenIsAsked' /\ HasEffect' /\ AnswerFits' /\ ConfirmedIsKept'
<1> DEFINE Going == Places \ {"off", "load", "save"}
<1>1. /\ config \in [Daemons -> Saved] /\ disk \in Saved /\ config[d] \in Saved
      /\ config = [config EXCEPT ![d] = config[d]]
      /\ pc[d] = "save" => serving[d].what \in Commands
  BY DEF KeptInv, SessionTypeOK
<1>2. /\ alone /\ pc[d] \notin {"off", "load", "save"} => config[d] = disk
      /\ alone /\ pc[d] = "save" => disk \subseteq config[d]
      /\ pc[d] \in {"save", "answer"} /\ serving[d].what \in Commands =>
            serving[d].what \in config[d]
  BY DEF KeptInv, InMemory, HasEffect
<1>3. {"restore", "check", "remove", "bind", "accept", "read", "answer", "refuse", "cleanup",
       "unlink"} = Going
  BY DEF Places, Serving
<1> HIDE DEF Going
<1>4. CASE Load(d)
  BY <1>1, <1>3, <1>4, KeptGoto DEF Load, history, Going, Alive
<1>5. CASE Restore(d)
  BY <1>1, <1>2, <1>3, <1>5, KeptGoto DEF Restore, history, Going, Alive
<1>6. CASE Check(d)
  BY <1>1, <1>2, <1>3, <1>6, KeptGoto DEF Check, history, Going, Alive
<1>7. CASE Remove(d)
  <2>1. CASE socket = NoDaemon
    BY <1>7, <2>1, KeptExit DEF Remove
  <2>2. CASE socket # NoDaemon
    BY <1>1, <1>2, <1>3, <1>7, <2>2, KeptGoto DEF Remove, history, Going, Alive
  <2>3. QED
    BY <2>1, <2>2
<1>8. CASE Bind(d)
  <2>1. CASE socket # NoDaemon
    BY <1>8, <2>1, KeptExit DEF Bind
  <2>2. CASE socket = NoDaemon
    BY <1>1, <1>2, <1>3, <1>8, <2>2, KeptGoto DEF Bind, history, Going, Alive
  <2>3. QED
    BY <2>1, <2>2
<1>9. CASE Stop(d)
  BY <1>1, <1>2, <1>3, <1>9, KeptGoto DEF Stop, history, Going, Alive
<1>10. CASE Accept(d)
  BY <1>10, KeptAccept
<1>11. CASE ReadTimesOut(d)
  BY <1>1, <1>2, <1>3, <1>11, KeptGoto DEF ReadTimesOut, history, Going, Alive
<1>12. CASE HandleSnapshot(d)
  BY <1>1, <1>2, <1>3, <1>12, Codes, KeptGoto DEF HandleSnapshot, history, Going, Alive
<1>13. CASE HandleCommand(d)
  BY <1>13, KeptCommand
<1>14. CASE CommandFails(d)
  BY <1>1, <1>2, <1>3, <1>14, KeptGoto DEF CommandFails, history, Going, Alive
<1>15. CASE Save(d)
  BY <1>1, <1>2, <1>3, <1>15, KeptGoto DEF Save, history, Going, Alive
<1>16. CASE Answer(d)
  BY <1>16, KeptAnswer
<1>17. CASE Cleanup(d)
  BY <1>1, <1>2, <1>3, <1>17, KeptGoto DEF Cleanup, history, Going, Alive
<1>18. CASE Unlink(d)
  BY <1>18, KeptExit DEF Unlink
<1>19. QED
  BY <1>4, <1>5, <1>6, <1>7, <1>8, <1>9, <1>10, <1>11, <1>12, <1>13, <1>14, <1>15, <1>16,
     <1>17, <1>18
  DEF DaemonStep

(* Starting a daemon, while `alone`, starts the only one. *)
LEMMA KeptStarts ==
    ASSUME KeptInv, AtMostStarts, UNCHANGED <<config, disk>>,
           \A d \in Daemons : serving'[d].what = serving[d].what
    PROVE  OnlyOne' /\ InMemory' /\ HasEffect'
<1>1. OnlyOne'
  <2> SUFFICES ASSUME alone', NEW d \in Daemons, NEW e \in Daemons,
                      pc'[d] # "off", pc'[e] # "off"
               PROVE  d = e
    BY DEF OnlyOne, Alive
  <2>1. alone => \A f, g \in Daemons : pc[f] # "off" /\ pc[g] # "off" => f = g
    BY DEF KeptInv, OnlyOne, Alive
  <2>2. QED
    BY <2>1 DEF AtMostStarts
<1>2. InMemory'
  BY DEF KeptInv, InMemory, AtMostStarts
<1>3. HasEffect'
  BY DEF KeptInv, HasEffect, AtMostStarts
<1>4. QED
  BY <1>1, <1>2, <1>3

(* Nothing is asked and nothing open once the stream is dropped. *)
LEMMA KeptHungUp ==
    ASSUME KeptInv, Hangup, alone' => alone
    PROVE  OpenIsAsked' /\ AnswerFits'
<1>1. HungUp
  BY HangupCloses DEF KeptInv
<1>2. QED
  BY <1>1 DEF HungUp, OpenIsAsked, AnswerFits, NoAnswer

LEMMA KeptRequestFails ==
    ASSUME KeptInv, RequestFails
    PROVE  OnlyOne' /\ InMemory' /\ OpenIsAsked' /\ HasEffect' /\ AnswerFits' /\ ConfirmedIsKept'
<1>1. AtMostStarts /\ Hangup /\ HungUp /\ UNCHANGED <<config, disk, snapshot, confirmed>>
  BY RequestFailsStarts, HangupCloses DEF KeptInv, RequestFails
<1>2. OpenIsAsked' /\ AnswerFits'
  BY <1>1, KeptHungUp DEF AtMostStarts
<1>3. OnlyOne' /\ InMemory' /\ HasEffect'
  BY <1>1, KeptStarts DEF HungUp
<1>4. ConfirmedIsKept'
  BY <1>1 DEF KeptInv, ConfirmedIsKept, AtMostStarts
<1>5. QED
  BY <1>2, <1>3, <1>4

(* The snapshot that is received shows what is on disk. *)
LEMMA KeptReceive ==
    ASSUME KeptInv, ReceiveSnapshot \/ ReceiveError
    PROVE  OnlyOne' /\ InMemory' /\ OpenIsAsked' /\ HasEffect' /\ AnswerFits' /\ ConfirmedIsKept'
<1>1. Hangup /\ HungUp /\ UNCHANGED <<pc, config, child, disk, alone>>
  BY HangupCloses DEF KeptInv, ReceiveSnapshot, ReceiveError
<1>2. OpenIsAsked' /\ AnswerFits'
  BY <1>1, KeptHungUp
<1>3. OnlyOne' /\ InMemory' /\ HasEffect'
  BY <1>1, StaysStarts, KeptStarts DEF HungUp, KeptInv
<1>4. ConfirmedIsKept'
  <2>1. CASE ReceiveSnapshot
    BY <1>1, <2>1 DEF KeptInv, ConfirmedIsKept, AnswerFits, ReceiveSnapshot
  <2>2. CASE ReceiveError
    BY <1>1, <2>2 DEF KeptInv, ConfirmedIsKept, ReceiveError
  <2>3. QED
    BY <2>1, <2>2
<1>5. QED
  BY <1>2, <1>3, <1>4

(* A connection more, that is open only if it is the GUI's. *)
LEMMA KeptEnqueue ==
    ASSUME KeptInv, CanConnect, NEW what \in Requests, NEW open \in BOOLEAN, Enqueue(what, open),
           asked' = IF open THEN what ELSE asked,
           open => asked = Nothing,
           UNCHANGED <<pc, config, serving, disk, answer, snapshot, confirmed, alone>>
    PROVE  OnlyOne' /\ InMemory' /\ OpenIsAsked' /\ HasEffect' /\ AnswerFits' /\ ConfirmedIsKept'
<1>1. OnlyOne' /\ InMemory' /\ HasEffect'
  BY DEF KeptInv, OnlyOne, InMemory, HasEffect, Alive
<1>2. OpenIsAsked'
  <2> DEFINE q == backlog[socket]
             new == [what |-> what, open |-> open]
  <2>1. socket \in Daemons /\ q \in Seq(Connections) /\ new \in Connections
        /\ backlog \in [Daemons -> Seq(Connections)]
    BY DEF KeptInv, CanConnect, SessionTypeOK, Connections
  <2>2. new.open => asked' = new.what
    OBVIOUS
  <2>3. backlog' = [backlog EXCEPT ![socket] = Append(q, new)]
    BY DEF Enqueue
  <2>4. \A d \in Daemons : /\ serving[d].open => serving[d].what = asked'
                           /\ \A i \in DOMAIN backlog[d] :
                                backlog[d][i].open => backlog[d][i].what = asked'
    BY NoneOpen DEF KeptInv, OpenIsAsked
  <2>5. \A i \in DOMAIN q : q[i].open => q[i].what = asked'
    BY <2>1, <2>4
  <2> HIDE DEF q, new
  <2>6. \A i \in DOMAIN Append(q, new) :
            Append(q, new)[i] = new \/ (i \in DOMAIN q /\ Append(q, new)[i] = q[i])
    BY <2>1
  <2>7. \A i \in DOMAIN Append(q, new) :
            Append(q, new)[i].open => Append(q, new)[i].what = asked'
    BY <2>2, <2>5, <2>6
  <2>8. QED
    BY <2>1, <2>3, <2>4, <2>7 DEF OpenIsAsked
<1>3. AnswerFits'
  BY DEF KeptInv, AnswerFits, NoAnswer
<1>4. ConfirmedIsKept'
  BY DEF KeptInv, ConfirmedIsKept
<1>5. QED
  BY <1>1, <1>2, <1>3, <1>4

LEMMA KeptNext == KeptInv /\ [Next]_vars => KeptInv'
<1> SUFFICES ASSUME KeptInv, [Next]_vars
             PROVE  KeptInv'
  OBVIOUS
<1> DEFINE Rest == OnlyOne /\ InMemory /\ OpenIsAsked /\ HasEffect /\ AnswerFits /\ ConfirmedIsKept
<1>1. SessionTypeOK'
  BY TypeNext DEF KeptInv
<1>2. Rest'
  <2>1. CASE UNCHANGED <<pc, config, backlog, serving, disk, asked, answer, snapshot, confirmed,
                         alone>>
    BY <2>1 DEF KeptInv, OnlyOne, InMemory, OpenIsAsked, HasEffect, AnswerFits, ConfirmedIsKept, Alive
  <2>2. CASE UNCHANGED vars
    BY <2>1, <2>2 DEF vars, daemon, gui, history
  <2>3. ASSUME NEW d \in Daemons, DaemonStep(d)
        PROVE  Rest'
    BY <2>3, KeptDaemon
  <2>4. CASE Poll
    BY <2>4, KeptEnqueue DEF Poll, Ask, Requests
  <2>5. ASSUME AtMostStarts, UNCHANGED <<config, backlog, serving, disk, asked, answer, snapshot,
                                         confirmed>>
        PROVE  Rest'
    <3>1. OnlyOne' /\ InMemory' /\ HasEffect'
      BY <2>5, KeptStarts
    <3>2. OpenIsAsked' /\ AnswerFits' /\ ConfirmedIsKept'
      BY <2>5 DEF KeptInv, OpenIsAsked, AnswerFits, ConfirmedIsKept, AtMostStarts
    <3>3. QED
      BY <3>1, <3>2
  <2>6. CASE PollRefused
    BY <2>5, <2>6, PollFailsStarts DEF PollRefused, KeptInv
  <2>7. CASE Send
    BY <2>7, TypePressed, KeptEnqueue DEF Send, Pressed, Ask, Requests, KeptInv
  <2>8. CASE SendRefused
    BY <2>1, <2>8 DEF SendRefused, SendFails
  <2>9. CASE ReceiveSnapshot \/ ReceiveError
    BY <2>9, KeptReceive
  <2>10. CASE ReceiveBroken \/ GiveUp
    BY <2>10, KeptRequestFails DEF ReceiveBroken, GiveUp
  <2>11. CASE RetryDue
    BY <2>1, <2>11 DEF RetryDue, daemon, history
  <2>12. CASE StartButton
    BY <2>5, <2>12, EnsureStarts DEF StartButton, KeptInv
  <2>13. ASSUME NEW d \in Daemons, StartedByOthers(d)
         PROVE  Rest'
    BY <2>5, <2>13, StartStarts DEF StartedByOthers, KeptInv, SessionTypeOK, gui
  <2>14. ASSUME NEW d \in Daemons, Signal(d)
         PROVE  Rest'
    BY <2>1, <2>14 DEF Signal, gui
  <2>15. ASSUME NEW d \in Daemons, Crash(d)
         PROVE  Rest'
    BY <2>15, KeptExit DEF Crash
  <2>16. ASSUME NEW what \in {Silence, Shutdown}, OthersConnect(what)
         PROVE  Rest'
    BY <2>16, KeptEnqueue DEF OthersConnect, Requests, gui
  <2>17. QED
    BY <2>2, <2>3, <2>4, <2>6, <2>7, <2>8, <2>9, <2>10, <2>11, <2>12, <2>13, <2>14, <2>15, <2>16
    DEF Next
<1>3. QED
  BY <1>1, <1>2 DEF KeptInv

LEMMA KeptInvHolds == Spec => []KeptInv
  BY KeptInit, KeptNext, PTL DEF Spec

(* What the GUI was told is done, and what it shows, is on disk, whichever  *)
(* requests time out and whenever the daemon crashes, unless two daemons    *)
(* ran at a time.                                                           *)
THEOREM SessionKept == Spec => []ConfirmedIsKept
<1>1. KeptInv => ConfirmedIsKept
  BY DEF KeptInv
<1>2. QED
  BY <1>1, KeptInvHolds, PTL

(* A snapshot that is received shows everything the last one showed.        *)
THEOREM SessionForward == Spec => SnapshotNeverGoesBack
<1>1. KeptInv /\ [Next]_vars => [alone' => snapshot \subseteq snapshot']_vars
  <2> SUFFICES ASSUME KeptInv, Next, alone'
               PROVE  snapshot \subseteq snapshot'
    OBVIOUS
  <2>1. CASE ReceiveSnapshot
    BY <2>1 DEF ReceiveSnapshot, KeptInv, AnswerFits
  <2>2. ASSUME NEW d \in Daemons, DaemonStep(d)
        PROVE  snapshot' = snapshot
    BY <2>2 DEF DaemonStep, Load, Restore, Check, Remove, Bind, Stop, Accept, ReadTimesOut,
        HandleSnapshot, HandleCommand, Effect, CommandFails, Save, Answer, Cleanup, Unlink, Exit, gui
  <2>3. CASE Next /\ ~ReceiveSnapshot
    BY <2>2, <2>3 DEF Next, Poll, PollRefused, Send, SendRefused, Ask, ReceiveError, ReceiveBroken,
        RequestFails, GiveUp, RetryDue, StartButton, StartedByOthers, Signal, Crash, Exit,
        OthersConnect, gui
  <2>4. QED
    BY <2>1, <2>3
<1>2. Spec => [][alone' => snapshot \subseteq snapshot']_vars
  BY <1>1, KeptInvHolds, PTL DEF Spec
<1>3. QED
  BY <1>2 DEF SnapshotNeverGoesBack

-----------------------------------------------------------------------------
(* A command is carried out at most once.                                  *)

\* Where a command can be: among the connections that wait, in the hands of
\* a daemon that is about to carry it out, and among what was carried out.
Waits(d, c) == \E i \in DOMAIN backlog[d] : backlog[d][i].what = c
Reads(d, c) == pc[d] = "read" /\ serving[d].what = c
Carried(c) == \E i \in DOMAIN executed : executed[i].command = c

\* It is in one of the places only, and only once.
InOnePlace ==
    \A c \in Commands :
        /\ c > sent => ~Carried(c) /\ \A d \in Daemons : ~Waits(d, c) /\ ~Reads(d, c)
        /\ \A d \in Daemons : Waits(d, c) \/ Reads(d, c) => ~Carried(c)
        /\ \A d, e \in Daemons : ~(Waits(d, c) /\ Reads(e, c))
        /\ \A d, e \in Daemons : Waits(d, c) /\ Waits(e, c) => d = e
        /\ \A d, e \in Daemons : Reads(d, c) /\ Reads(e, c) => d = e
        /\ \A d \in Daemons : \A i, j \in DOMAIN backlog[d] :
                backlog[d][i].what = c /\ backlog[d][j].what = c => i = j
        /\ \A i, j \in DOMAIN executed :
                executed[i].command = c /\ executed[j].command = c => i = j

\* What is confirmed was carried out, and so is what is about to be.
Told ==
    /\ \A c \in confirmed : Carried(c)
    /\ answer.kind = "snapshot" /\ asked \in Commands => Carried(asked)
    /\ \A d \in Daemons : pc[d] \in {"save", "answer"} /\ serving[d].what \in Commands =>
            Carried(serving[d].what)

OnceInv == KeptInv /\ InOnePlace /\ Told

LEMMA OnceInit == Init => OnceInv
<1> SUFFICES ASSUME Init PROVE OnceInv
  OBVIOUS
<1>1. DOMAIN <<>> = {}
  OBVIOUS
<1>2. InOnePlace
  BY <1>1 DEF Init, InOnePlace, Waits, Reads, Carried
<1>3. Told
  BY DEF Init, Told, NoAnswer
<1>4. QED
  BY <1>2, <1>3, KeptInit DEF OnceInv

(* A step that moves no command, but may drop some. *)
LEMMA PlaceQuiet ==
    ASSUME InOnePlace, UNCHANGED <<sent, executed>>,
           \A d \in Daemons : /\ DOMAIN backlog'[d] \subseteq DOMAIN backlog[d]
                             /\ \A i \in DOMAIN backlog'[d] :
                                    backlog'[d][i].what = backlog[d][i].what,
           \A d \in Daemons : pc'[d] = "read" => pc[d] = "read" /\ serving'[d].what = serving[d].what
    PROVE  InOnePlace'
<1>1. \A c \in Commands, d \in Daemons : (Waits(d, c))' => Waits(d, c)
  BY DEF Waits
<1>2. \A c \in Commands, d \in Daemons : (Reads(d, c))' => Reads(d, c)
  BY DEF Reads
<1>3. \A c \in Commands : (Carried(c))' <=> Carried(c)
  BY DEF Carried
<1>4. \A c \in Commands : \A d \in Daemons : \A i, j \in DOMAIN backlog'[d] :
            backlog'[d][i].what = c /\ backlog'[d][j].what = c => i = j
  BY DEF InOnePlace
<1>5. QED
  BY <1>1, <1>2, <1>3, <1>4 DEF InOnePlace

(* A step that answers nobody. *)
LEMMA ToldQuiet ==
    ASSUME Told, UNCHANGED <<executed, confirmed>>,
           answer'.kind = "snapshot" => answer' = answer /\ asked' = asked,
           \A d \in Daemons : pc'[d] \in {"save", "answer"} /\ serving'[d].what \in Commands =>
                pc[d] \in {"save", "answer"} /\ serving'[d].what = serving[d].what
    PROVE  Told'
<1>1. \A c : (Carried(c))' <=> Carried(c)
  BY DEF Carried
<1>2. QED
  BY <1>1 DEF Told

LEMMA OnceExit ==
    ASSUME OnceInv, NEW d \in Daemons, Exit(d)
    PROVE  InOnePlace' /\ Told'
<1>1. /\ pc' = [pc EXCEPT ![d] = "off"] /\ backlog' = [backlog EXCEPT ![d] = <<>>]
      /\ serving' = [serving EXCEPT ![d] = NoConnection]
      /\ UNCHANGED <<sent, executed, confirmed, asked>> /\ answer' \in {answer, Broken}
  BY DEF Exit, Goto
<1>2. /\ pc \in [Daemons -> Places] /\ backlog \in [Daemons -> Seq(Connections)]
      /\ serving \in [Daemons -> Connections \cup {NoConnection}]
  BY DEF OnceInv, KeptInv, SessionTypeOK
<1>3. DOMAIN <<>> = {}
  OBVIOUS
<1>4. /\ \A e \in Daemons : /\ DOMAIN backlog'[e] \subseteq DOMAIN backlog[e]
                            /\ \A i \in DOMAIN backlog'[e] :
                                    backlog'[e][i].what = backlog[e][i].what
      /\ \A e \in Daemons : pc'[e] # "off" => pc'[e] = pc[e] /\ serving'[e] = serving[e]
  BY <1>1, <1>2, <1>3
<1>5. InOnePlace'
  BY <1>1, <1>4, PlaceQuiet DEF OnceInv
<1>6. answer'.kind = "snapshot" => answer' = answer
  BY <1>1 DEF Broken
<1>7. Told'
  BY <1>1, <1>4, <1>6, ToldQuiet DEF OnceInv
<1>8. QED
  BY <1>5, <1>7

(* A daemon that goes on without taking a command in. *)
LEMMA OnceGoto ==
    ASSUME OnceInv, NEW d \in Daemons, NEW where, Goto(d, where), where # "read", where # "save",
           where = "answer" => pc[d] = "save" \/ serving[d].what \notin Commands,
           UNCHANGED <<backlog, serving, gui, sent, executed, confirmed>>
    PROVE  InOnePlace' /\ Told'
<1>1. pc' = [pc EXCEPT ![d] = where] /\ pc \in [Daemons -> Places]
  BY DEF Goto, OnceInv, KeptInv, SessionTypeOK
<1>2. InOnePlace'
  BY <1>1, PlaceQuiet DEF OnceInv
<1>3. Told'
  BY <1>1, ToldQuiet DEF OnceInv, gui
<1>4. QED
  BY <1>2, <1>3

(* The command moves from the connections that wait to the daemon's hands. *)
LEMMA OnceAccept ==
    ASSUME OnceInv, NEW d \in Daemons, Accept(d)
    PROVE  InOnePlace' /\ Told'
<1> DEFINE q == backlog[d]
<1>1. /\ pc' = [pc EXCEPT ![d] = "read"] /\ pc[d] = "accept"
      /\ serving' = [serving EXCEPT ![d] = Head(q)]
      /\ backlog' = [backlog EXCEPT ![d] = Tail(q)]
      /\ UNCHANGED <<asked, answer, sent, executed, confirmed>>
  BY DEF Accept, Goto, gui, history
<1>2. /\ pc \in [Daemons -> Places] /\ backlog \in [Daemons -> Seq(Connections)]
      /\ serving \in [Daemons -> Connections \cup {NoConnection}]
  BY DEF OnceInv, KeptInv, SessionTypeOK
<1>3. q \in Seq(Connections) /\ q # <<>>
  BY <1>2 DEF Accept
<1> HIDE DEF q
<1>4. Head(q) = q[1] /\ 1 \in DOMAIN q
  BY <1>3
<1>5. \A i \in DOMAIN Tail(q) : Tail(q)[i] = q[i + 1] /\ i + 1 \in DOMAIN q /\ i + 1 # 1 /\ i \in Int
  BY <1>3
<1>6. /\ \A e \in Daemons : e # d => backlog'[e] = backlog[e] /\ pc'[e] = pc[e]
                                    /\ serving'[e] = serving[e]
      /\ backlog'[d] = Tail(q) /\ pc'[d] = "read" /\ serving'[d] = q[1]
  BY <1>1, <1>2, <1>4
<1>7. q = backlog[d]
  BY DEF q
<1>8. ASSUME NEW c \in Commands, NEW e \in Daemons, (Waits(e, c))'
      PROVE  Waits(e, c) /\ ~(Reads(d, c))'
  <2>1. CASE e # d
    BY <1>4, <1>6, <1>7, <1>8, <2>1 DEF Waits, Reads, OnceInv, InOnePlace
  <2>2. CASE e = d
    <3>1. PICK i \in DOMAIN Tail(q) : Tail(q)[i].what = c
      BY <1>6, <1>8, <2>2 DEF Waits
    <3>2. q[i + 1].what = c /\ i + 1 \in DOMAIN q /\ i + 1 # 1
      BY <1>5, <3>1
    <3>3. \A j, k \in DOMAIN q : q[j].what = c /\ q[k].what = c => j = k
      BY <1>7 DEF OnceInv, InOnePlace
    <3>4. q[1].what # c
      BY <1>4, <3>2, <3>3
    <3>5. QED
      BY <1>6, <1>7, <2>2, <3>2, <3>4 DEF Waits, Reads
  <2>3. QED
    BY <2>1, <2>2
<1>9. ASSUME NEW c \in Commands, NEW e \in Daemons, (Reads(e, c))'
      PROVE  (e # d /\ Reads(e, c)) \/ (e = d /\ Waits(d, c))
  BY <1>4, <1>6, <1>7, <1>9 DEF Reads, Waits
<1>10. ASSUME NEW c \in Commands, NEW e \in Daemons, NEW i \in DOMAIN backlog'[e],
              NEW j \in DOMAIN backlog'[e], backlog'[e][i].what = c, backlog'[e][j].what = c
       PROVE  i = j
  <2>1. CASE e # d
    BY <1>6, <1>10, <2>1 DEF OnceInv, InOnePlace
  <2>2. CASE e = d
    <3>1. /\ q[i + 1].what = c /\ q[j + 1].what = c /\ i + 1 \in DOMAIN q /\ j + 1 \in DOMAIN q
          /\ i \in Int /\ j \in Int
      BY <1>5, <1>6, <1>10, <2>2
    <3>2. i + 1 = j + 1
      BY <1>7, <3>1 DEF OnceInv, InOnePlace
    <3>3. QED
      BY <3>1, <3>2
  <2>3. QED
    BY <2>1, <2>2
<1>11. \A c : (Carried(c))' <=> Carried(c)
  BY <1>1 DEF Carried
<1>12. InOnePlace'
  <2> SUFFICES ASSUME NEW c \in Commands
               PROVE  /\ c > sent' => ~(Carried(c))' /\ \A e \in Daemons : ~(Waits(e, c))' /\ ~(Reads(e, c))'
                      /\ \A e \in Daemons : (Waits(e, c))' \/ (Reads(e, c))' => ~(Carried(c))'
                      /\ \A e, f \in Daemons : ~((Waits(e, c))' /\ (Reads(f, c))')
                      /\ \A e, f \in Daemons : (Waits(e, c))' /\ (Waits(f, c))' => e = f
                      /\ \A e, f \in Daemons : (Reads(e, c))' /\ (Reads(f, c))' => e = f
                      /\ \A e \in Daemons : \A i, j \in DOMAIN backlog'[e] :
                            backlog'[e][i].what = c /\ backlog'[e][j].what = c => i = j
                      /\ \A i, j \in DOMAIN executed' :
                            executed'[i].command = c /\ executed'[j].command = c => i = j
    BY DEF InOnePlace
  <2>1. /\ c > sent => ~Carried(c) /\ \A e \in Daemons : ~Waits(e, c) /\ ~Reads(e, c)
        /\ \A e \in Daemons : Waits(e, c) \/ Reads(e, c) => ~Carried(c)
        /\ \A e, f \in Daemons : ~(Waits(e, c) /\ Reads(f, c))
        /\ \A e, f \in Daemons : Waits(e, c) /\ Waits(f, c) => e = f
        /\ \A e, f \in Daemons : Reads(e, c) /\ Reads(f, c) => e = f
        /\ \A i, j \in DOMAIN executed :
                executed[i].command = c /\ executed[j].command = c => i = j
    BY DEF OnceInv, InOnePlace
  <2>2. \A e, f \in Daemons : ~((Waits(e, c))' /\ (Reads(f, c))')
    BY <1>8, <1>9, <2>1
  <2>3. \A e, f \in Daemons : (Reads(e, c))' /\ (Reads(f, c))' => e = f
    BY <1>9, <2>1
  <2>4. \A e \in Daemons : (Waits(e, c))' \/ (Reads(e, c))' => ~(Carried(c))'
    BY <1>8, <1>9, <1>11, <2>1
  <2>5. \A e, f \in Daemons : (Waits(e, c))' /\ (Waits(f, c))' => e = f
    BY <1>8, <2>1
  <2>6. c > sent' => ~(Carried(c))' /\ \A e \in Daemons : ~(Waits(e, c))' /\ ~(Reads(e, c))'
    BY <1>1, <1>8, <1>9, <1>11, <2>1
  <2>7. QED
    BY <1>1, <1>10, <2>1, <2>2, <2>3, <2>4, <2>5, <2>6
<1>13. Told'
  BY <1>1, <1>6, ToldQuiet DEF OnceInv
<1>14. QED
  BY <1>12, <1>13

(* One more command is carried out: what that does to the history. *)
LEMMA ExecutedGrows ==
    ASSUME SessionTypeOK, NEW d \in Daemons, NEW c \in Commands,
           executed' = Append(executed, [by |-> d, command |-> c])
    PROVE  /\ Len(executed) + 1 \notin DOMAIN executed
           /\ DOMAIN executed' = DOMAIN executed \cup {Len(executed) + 1}
           /\ \A i \in DOMAIN executed : executed'[i] = executed[i]
           /\ executed'[Len(executed) + 1].command = c
<1> DEFINE new == [by |-> d, command |-> c]
<1>1. executed \in Seq([by : Daemons, command : Commands]) /\ executed' = Append(executed, new)
      /\ new.command = c
  BY DEF SessionTypeOK
<1> HIDE DEF new
<1>2. QED
  BY <1>1

(* The command moves from the daemon's hands to what was carried out. *)
LEMMA OnceCommand ==
    ASSUME OnceInv, NEW d \in Daemons, HandleCommand(d)
    PROVE  /\ serving[d].what \in Commands /\ serving[d].what <= sent
           /\ ~Carried(serving[d].what)
           /\ executed' = Append(executed, [by |-> d, command |-> serving[d].what])
           /\ UNCHANGED <<sent, confirmed>>
           /\ InOnePlace' /\ Told'
<1> DEFINE own == serving[d].what
<1>1. /\ pc' = [pc EXCEPT ![d] = "save"] /\ pc[d] = "read" /\ own \in Commands
      /\ executed' = Append(executed, [by |-> d, command |-> own])
      /\ UNCHANGED <<backlog, serving, asked, answer, sent, confirmed>>
  BY DEF HandleCommand, Effect, Goto, gui
<1>2. pc \in [Daemons -> Places] /\ SessionTypeOK /\ sent \in Nat
  BY DEF OnceInv, KeptInv, SessionTypeOK
<1>3. Reads(d, own)
  BY <1>1 DEF Reads
<1> HIDE DEF own
<1>4. ~Carried(own) /\ ~(own > sent)
  BY <1>1, <1>3 DEF OnceInv, InOnePlace
<1>5. own <= sent
  BY <1>1, <1>2, <1>4, Codes
<1>6. /\ Len(executed) + 1 \notin DOMAIN executed
      /\ DOMAIN executed' = DOMAIN executed \cup {Len(executed) + 1}
      /\ \A i \in DOMAIN executed : executed'[i] = executed[i]
      /\ executed'[Len(executed) + 1].command = own
  BY <1>1, <1>2, ExecutedGrows
<1>7. \A c : (Carried(c))' <=> (Carried(c) \/ c = own)
  BY <1>6 DEF Carried
<1>8. \A c \in Commands, e \in Daemons : (Waits(e, c))' <=> Waits(e, c)
  BY <1>1 DEF Waits
<1>9. \A c \in Commands, e \in Daemons : (Reads(e, c))' <=> (Reads(e, c) /\ e # d)
  BY <1>1, <1>2 DEF Reads
<1>10. \A c \in Commands : \A i, j \in DOMAIN executed' :
            executed'[i].command = c /\ executed'[j].command = c => i = j
  <2> SUFFICES ASSUME NEW c \in Commands, NEW i \in DOMAIN executed', NEW j \in DOMAIN executed',
                      executed'[i].command = c, executed'[j].command = c
               PROVE  i = j
    OBVIOUS
  <2>1. CASE i \in DOMAIN executed /\ j \in DOMAIN executed
    BY <1>6, <2>1 DEF OnceInv, InOnePlace
  <2>2. CASE i \notin DOMAIN executed \/ j \notin DOMAIN executed
    <3>1. c = own
      BY <1>6, <2>2
    <3>2. i \notin DOMAIN executed /\ j \notin DOMAIN executed
      BY <1>4, <1>6, <3>1 DEF Carried
    <3>3. QED
      BY <1>6, <3>2
  <2>3. QED
    BY <2>1, <2>2
<1>11. InOnePlace'
  <2>1. \A e \in Daemons : ~Waits(e, own) /\ (Reads(e, own) => e = d)
    BY <1>1, <1>3 DEF OnceInv, InOnePlace
  <2>2. \A c \in Commands, e \in Daemons : (Waits(e, c))' \/ (Reads(e, c))' => ~(Carried(c))'
    BY <1>7, <1>8, <1>9, <2>1 DEF OnceInv, InOnePlace
  <2>3. \A c \in Commands : c > sent' => ~(Carried(c))'
                            /\ \A e \in Daemons : ~(Waits(e, c))' /\ ~(Reads(e, c))'
    BY <1>1, <1>4, <1>7, <1>8, <1>9 DEF OnceInv, InOnePlace
  <2>4. \A c \in Commands : \A e \in Daemons : \A i, j \in DOMAIN backlog'[e] :
                backlog'[e][i].what = c /\ backlog'[e][j].what = c => i = j
    BY <1>1 DEF OnceInv, InOnePlace
  <2>5. \A c \in Commands, e, f \in Daemons :
            /\ ~((Waits(e, c))' /\ (Reads(f, c))')
            /\ (Waits(e, c))' /\ (Waits(f, c))' => e = f
            /\ (Reads(e, c))' /\ (Reads(f, c))' => e = f
    BY <1>8, <1>9 DEF OnceInv, InOnePlace
  <2>6. QED
    BY <1>10, <2>2, <2>3, <2>4, <2>5 DEF InOnePlace
<1>12. Told'
  BY <1>1, <1>2, <1>7 DEF OnceInv, Told, own
<1>13. QED
  BY <1>1, <1>4, <1>5, <1>11, <1>12 DEF own

(* Only what was carried out is answered with a snapshot. *)
LEMMA OnceAnswer ==
    ASSUME OnceInv, NEW d \in Daemons, Answer(d)
    PROVE  InOnePlace' /\ Told'
<1> DEFINE where == IF serving[d].what = Shutdown THEN "cleanup" ELSE "accept"
<1>1. /\ pc' = [pc EXCEPT ![d] = where] /\ pc[d] \in {"answer", "refuse"}
      /\ serving' = [serving EXCEPT ![d] = NoConnection]
      /\ UNCHANGED <<backlog, asked, sent, executed, confirmed>>
  BY DEF Answer, Goto, history
<1>2. where \in {"cleanup", "accept"}
  OBVIOUS
<1> HIDE DEF where
<1>3. /\ pc \in [Daemons -> Places]
      /\ serving \in [Daemons -> Connections \cup {NoConnection}]
  BY DEF OnceInv, KeptInv, SessionTypeOK
<1>4. InOnePlace'
  BY <1>1, <1>2, <1>3, PlaceQuiet DEF OnceInv
<1>5. answer'.kind = "snapshot" /\ asked \in Commands => Carried(asked)
  <2>1. CASE ~serving[d].open
    BY <2>1 DEF Answer, OnceInv, Told
  <2>2. CASE serving[d].open /\ pc[d] = "refuse"
    BY <2>2 DEF Answer, Refusal
  <2>3. CASE serving[d].open /\ pc[d] = "answer"
    BY <2>3 DEF OnceInv, KeptInv, OpenIsAsked, Told
  <2>4. QED
    BY <1>1, <2>1, <2>2, <2>3
<1>6. \A c : (Carried(c))' <=> Carried(c)
  BY <1>1 DEF Carried
<1>7. Told'
  BY <1>1, <1>2, <1>3, <1>5, <1>6 DEF OnceInv, Told
<1>8. QED
  BY <1>4, <1>7

LEMMA OnceDaemon ==
    ASSUME OnceInv, NEW d \in Daemons, DaemonStep(d)
    PROVE  InOnePlace' /\ Told'
<1>1. CASE Load(d)
  BY <1>1, OnceGoto DEF Load, history
<1>2. CASE Restore(d)
  BY <1>2, OnceGoto DEF Restore, history
<1>3. CASE Check(d)
  BY <1>3, OnceGoto DEF Check, history
<1>4. CASE Remove(d)
  BY <1>4, OnceGoto, OnceExit DEF Remove, history
<1>5. CASE Bind(d)
  BY <1>5, OnceGoto, OnceExit DEF Bind, history
<1>6. CASE Stop(d)
  BY <1>6, OnceGoto DEF Stop, history
<1>7. CASE Accept(d)
  BY <1>7, OnceAccept
<1>8. CASE ReadTimesOut(d)
  BY <1>8, OnceGoto DEF ReadTimesOut, history
<1>9. CASE HandleSnapshot(d)
  BY <1>9, Codes, OnceGoto DEF HandleSnapshot, history
<1>10. CASE HandleCommand(d)
  BY <1>10, OnceCommand
<1>11. CASE CommandFails(d)
  BY <1>11, OnceGoto DEF CommandFails, history
<1>12. CASE Save(d)
  BY <1>12, OnceGoto DEF Save, history
<1>13. CASE Answer(d)
  BY <1>13, OnceAnswer
<1>14. CASE Cleanup(d)
  BY <1>14, OnceGoto DEF Cleanup, history
<1>15. CASE Unlink(d)
  BY <1>15, OnceExit DEF Unlink
<1>16. QED
  BY <1>1, <1>2, <1>3, <1>4, <1>5, <1>6, <1>7, <1>8, <1>9, <1>10, <1>11, <1>12, <1>13, <1>14,
     <1>15
  DEF DaemonStep

(* A new command is in no place yet. *)
LEMMA OnceEnqueue ==
    ASSUME OnceInv, CanConnect, NEW what \in Requests, NEW open \in BOOLEAN, Enqueue(what, open),
           what \in Commands => what = sent + 1, sent' = IF what \in Commands THEN sent + 1 ELSE sent,
           asked' = asked \/ asked = Nothing,
           UNCHANGED <<pc, serving, executed, confirmed, answer>>
    PROVE  InOnePlace' /\ Told'
<1> DEFINE q == backlog[socket]
           new == [what |-> what, open |-> open]
           last == Len(q) + 1
<1>1. /\ socket \in Daemons /\ q \in Seq(Connections)
      /\ backlog \in [Daemons -> Seq(Connections)] /\ sent \in Nat
  BY DEF OnceInv, KeptInv, CanConnect, SessionTypeOK
<1>2. backlog' = [backlog EXCEPT ![socket] = Append(q, new)] /\ new.what = what
  BY DEF Enqueue
<1>3. new \in Connections
  BY DEF Connections
<1> HIDE DEF q, new
<1>4. /\ last \notin DOMAIN q /\ DOMAIN Append(q, new) = DOMAIN q \cup {last}
      /\ \A i \in DOMAIN q : Append(q, new)[i] = q[i]
      /\ Append(q, new)[last] = new
  BY <1>1, <1>3
<1> HIDE DEF last
<1>5. q = backlog[socket]
  BY DEF q
<1>6. \A d \in Daemons : backlog'[d] = IF d = socket THEN Append(q, new) ELSE backlog[d]
  BY <1>1, <1>2
<1>7. \A c \in Commands, d \in Daemons :
            (Waits(d, c))' <=> (Waits(d, c) \/ (d = socket /\ c = what))
  <2> DEFINE r == Append(q, new)
  <2>1. /\ DOMAIN r = DOMAIN q \cup {last} /\ r[last].what = what
        /\ \A i \in DOMAIN q : r[i] = q[i]
    BY <1>2, <1>4
  <2>2. \A d \in Daemons : backlog'[d] = IF d = socket THEN r ELSE backlog[d]
    BY <1>6
  <2> HIDE DEF r
  <2> SUFFICES ASSUME NEW c \in Commands, NEW d \in Daemons
               PROVE  (\E i \in DOMAIN backlog'[d] : backlog'[d][i].what = c)
                        <=> ((\E i \in DOMAIN backlog[d] : backlog[d][i].what = c)
                                \/ (d = socket /\ c = what))
    BY DEF Waits
  <2>3. CASE d # socket
    BY <2>2, <2>3
  <2>4. CASE d = socket
    <3>1. backlog'[d] = r /\ backlog[d] = q
      BY <1>5, <2>2, <2>4
    <3>2. (\E i \in DOMAIN r : r[i].what = c) <=> ((\E i \in DOMAIN q : q[i].what = c) \/ c = what)
      BY <2>1
    <3>3. QED
      BY <2>4, <3>1, <3>2
  <2>5. QED
    BY <2>3, <2>4
<1>8. \A c \in Commands, d \in Daemons : (Reads(d, c))' <=> Reads(d, c)
  BY DEF Reads
<1>9. \A c : (Carried(c))' <=> Carried(c)
  BY DEF Carried
<1>10. what \in Commands => /\ ~Carried(what)
                           /\ \A d \in Daemons : ~Waits(d, what) /\ ~Reads(d, what)
  <2> SUFFICES ASSUME what \in Commands
               PROVE  ~Carried(what) /\ \A d \in Daemons : ~Waits(d, what) /\ ~Reads(d, what)
    OBVIOUS
  <2>1. what > sent
    BY <1>1
  <2>2. QED
    BY <2>1 DEF OnceInv, InOnePlace
<1>11. ASSUME NEW c \in Commands, c > sent'
       PROVE  c > sent /\ c # what
  <2>1. c \in Nat
    BY Codes
  <2>2. QED
    BY <1>1, <1>11, <2>1
<1>12. ASSUME NEW c \in Commands, NEW d \in Daemons, NEW i \in DOMAIN backlog'[d],
              NEW j \in DOMAIN backlog'[d], backlog'[d][i].what = c, backlog'[d][j].what = c
       PROVE  i = j
  <2>1. CASE d # socket
    BY <1>6, <1>12, <2>1 DEF OnceInv, InOnePlace
  <2>2. CASE d = socket /\ c = what
    <3>1. \A k \in DOMAIN q : q[k].what # c
      BY <1>5, <1>10, <2>2 DEF Waits
    <3>2. i \in DOMAIN q \cup {last} /\ j \in DOMAIN q \cup {last}
      BY <1>4, <1>6, <1>12, <2>2
    <3>3. i \notin DOMAIN q /\ j \notin DOMAIN q
      BY <1>4, <1>6, <1>12, <2>2, <3>1
    <3>4. QED
      BY <3>2, <3>3
  <2>3. CASE d = socket /\ c # what
    <3>1. i \in DOMAIN q /\ j \in DOMAIN q /\ q[i].what = c /\ q[j].what = c
      BY <1>2, <1>4, <1>6, <1>12, <2>3
    <3>2. QED
      BY <1>5, <2>3, <3>1 DEF OnceInv, InOnePlace
  <2>4. QED
    BY <2>1, <2>2, <2>3
<1>13. InOnePlace'
  <2>1. \A c \in Commands, d \in Daemons : (Waits(d, c))' \/ (Reads(d, c))' => ~(Carried(c))'
    BY <1>7, <1>8, <1>9, <1>10 DEF OnceInv, InOnePlace
  <2>2. \A c \in Commands : c > sent' => ~(Carried(c))'
                            /\ \A d \in Daemons : ~(Waits(d, c))' /\ ~(Reads(d, c))'
    BY <1>7, <1>8, <1>9, <1>11 DEF OnceInv, InOnePlace
  <2>3. \A c \in Commands, d, e \in Daemons :
            /\ ~((Waits(d, c))' /\ (Reads(e, c))')
            /\ (Waits(d, c))' /\ (Waits(e, c))' => d = e
            /\ (Reads(d, c))' /\ (Reads(e, c))' => d = e
    BY <1>7, <1>8, <1>10 DEF OnceInv, InOnePlace
  <2>4. \A c \in Commands : \A i, j \in DOMAIN executed' :
            executed'[i].command = c /\ executed'[j].command = c => i = j
    BY DEF OnceInv, InOnePlace
  <2>5. QED
    BY <1>12, <2>1, <2>2, <2>3, <2>4 DEF InOnePlace
<1>14. answer'.kind = "snapshot" => answer' = answer /\ asked' = asked
  BY DEF OnceInv, KeptInv, AnswerFits, NoAnswer
<1>15. Told'
  BY <1>14, ToldQuiet DEF OnceInv
<1>16. QED
  BY <1>13, <1>15

(* Where the GUI drops a stream or a daemon is started, nothing moves. *)
LEMMA OnceStarts ==
    ASSUME OnceInv, AtMostStarts, UNCHANGED <<sent, executed, confirmed>>,
           HungUp \/ UNCHANGED <<backlog, serving, asked, answer>>
    PROVE  InOnePlace' /\ Told'
<1>1. \A d \in Daemons : /\ DOMAIN backlog'[d] \subseteq DOMAIN backlog[d]
                        /\ \A i \in DOMAIN backlog'[d] :
                                backlog'[d][i].what = backlog[d][i].what
  BY DEF HungUp
<1>2. \A d \in Daemons : serving'[d].what = serving[d].what
  BY DEF HungUp
<1>3. \A d \in Daemons : pc'[d] # "load" => pc'[d] = pc[d]
  BY DEF AtMostStarts
<1>4. answer'.kind = "snapshot" => answer' = answer /\ asked' = asked
  BY DEF HungUp, NoAnswer
<1>5. InOnePlace /\ Told /\ UNCHANGED <<sent, executed>> /\ UNCHANGED <<executed, confirmed>>
  BY DEF OnceInv
<1>6. \A d \in Daemons :
        pc'[d] = "read" => pc[d] = "read" /\ serving'[d].what = serving[d].what
  <2>1. TAKE d \in Daemons
  <2>2. serving'[d].what = serving[d].what /\ (pc'[d] # "load" => pc'[d] = pc[d])
    BY <1>2, <1>3
  <2>3. QED
    BY <2>2
<1>7. \A d \in Daemons : pc'[d] \in {"save", "answer"} /\ serving'[d].what \in Commands =>
            pc[d] \in {"save", "answer"} /\ serving'[d].what = serving[d].what
  <2>1. TAKE d \in Daemons
  <2>2. serving'[d].what = serving[d].what /\ (pc'[d] # "load" => pc'[d] = pc[d])
    BY <1>2, <1>3
  <2>3. QED
    BY <2>2
<1>8. InOnePlace'
  BY <1>1, <1>5, <1>6, PlaceQuiet
<1>9. Told'
  BY <1>4, <1>5, <1>7, ToldQuiet
<1>10. QED
  BY <1>8, <1>9

LEMMA OnceReceive ==
    ASSUME OnceInv, ReceiveSnapshot \/ ReceiveError
    PROVE  InOnePlace' /\ Told'
<1>1. HungUp /\ UNCHANGED <<pc, sent, executed>>
  BY HangupCloses DEF OnceInv, KeptInv, ReceiveSnapshot, ReceiveError
<1>2. InOnePlace'
  BY <1>1, PlaceQuiet DEF OnceInv, HungUp
<1>3. \A c : (Carried(c))' <=> Carried(c)
  BY <1>1 DEF Carried
<1>4. \A c \in confirmed' : Carried(c)
  BY DEF OnceInv, Told, ReceiveSnapshot, ReceiveError
<1>5. Told'
  BY <1>1, <1>3, <1>4 DEF OnceInv, Told, HungUp, NoAnswer
<1>6. QED
  BY <1>2, <1>5

LEMMA OnceNext == OnceInv /\ [Next]_vars => OnceInv'
<1> SUFFICES ASSUME OnceInv, [Next]_vars
             PROVE  OnceInv'
  OBVIOUS
<1>1. KeptInv' /\ SessionTypeOK
  BY KeptNext DEF OnceInv, KeptInv
<1>2. InOnePlace' /\ Told'
  <2>1. CASE UNCHANGED <<pc, backlog, serving, asked, answer, sent, executed, confirmed>>
    <3>1. InOnePlace'
      BY <2>1, PlaceQuiet DEF OnceInv
    <3>2. Told'
      BY <2>1, ToldQuiet DEF OnceInv
    <3>3. QED
      BY <3>1, <3>2
  <2>2. CASE UNCHANGED vars
    BY <2>1, <2>2 DEF vars, daemon, gui, history
  <2>3. ASSUME NEW d \in Daemons, DaemonStep(d)
        PROVE  InOnePlace' /\ Told'
    BY <2>3, OnceDaemon
  <2>4. CASE Poll
    BY <2>4, Codes, OnceEnqueue DEF Poll, Ask, Requests
  <2>5. CASE PollRefused
    BY <1>1, <2>5, PollFailsStarts, OnceStarts DEF PollRefused
  <2>6. CASE Send
    BY <1>1, <2>6, TypePressed, OnceEnqueue DEF Send, Pressed, Ask, Requests
  <2>7. CASE SendRefused
    <3>1. sent' = sent + 1 /\ sent \in Nat
      BY <1>1, <2>7 DEF SendRefused, Pressed, SessionTypeOK
    <3>2. UNCHANGED <<pc, backlog, serving, asked, answer, executed, confirmed>>
      BY <2>7 DEF SendRefused, SendFails
    <3>3. \A c \in Commands : c > sent' => c > sent
      BY <3>1, Codes
    <3>4. \A c \in Commands : /\ (Carried(c))' <=> Carried(c)
                             /\ \A d \in Daemons : ((Waits(d, c))' <=> Waits(d, c))
                                                  /\ ((Reads(d, c))' <=> Reads(d, c))
      BY <3>2 DEF Carried, Waits, Reads
    <3>5. InOnePlace'
      BY <3>2, <3>3, <3>4 DEF OnceInv, InOnePlace
    <3>6. Told'
      BY <3>2, ToldQuiet DEF OnceInv
    <3>7. QED
      BY <3>5, <3>6
  <2>8. CASE ReceiveSnapshot \/ ReceiveError
    BY <2>8, OnceReceive
  <2>9. CASE ReceiveBroken \/ GiveUp
    <3>1. RequestFails
      BY <2>9 DEF ReceiveBroken, GiveUp
    <3>2. AtMostStarts /\ HungUp /\ UNCHANGED <<sent, executed, confirmed>>
      BY <1>1, <3>1, RequestFailsStarts, HangupCloses DEF RequestFails
    <3>3. QED
      BY <3>2, OnceStarts
  <2>10. CASE RetryDue
    BY <2>1, <2>10 DEF RetryDue, daemon, history
  <2>11. CASE StartButton
    BY <1>1, <2>11, EnsureStarts, OnceStarts DEF StartButton
  <2>12. ASSUME NEW d \in Daemons, StartedByOthers(d)
         PROVE  InOnePlace' /\ Told'
    BY <1>1, <2>12, StartStarts, OnceStarts DEF StartedByOthers, SessionTypeOK, gui
  <2>13. ASSUME NEW d \in Daemons, Signal(d)
         PROVE  InOnePlace' /\ Told'
    BY <2>1, <2>13 DEF Signal, gui
  <2>14. ASSUME NEW d \in Daemons, Crash(d)
         PROVE  InOnePlace' /\ Told'
    BY <2>14, OnceExit DEF Crash
  <2>15. ASSUME NEW what \in {Silence, Shutdown}, OthersConnect(what)
         PROVE  InOnePlace' /\ Told'
    BY <2>15, Codes, OnceEnqueue DEF OthersConnect, Requests, gui
  <2>16. QED
    BY <2>2, <2>3, <2>4, <2>5, <2>6, <2>7, <2>8, <2>9, <2>10, <2>11, <2>12, <2>13, <2>14, <2>15
    DEF Next
<1>3. QED
  BY <1>1, <1>2 DEF OnceInv

LEMMA OnceInvHolds == Spec => []OnceInv
  BY OnceInit, OnceNext, PTL DEF Spec

-----------------------------------------------------------------------------
(* Commands are carried out in order.                                      *)

\* Along the way of a daemon's commands, from the end of its backlog to what
\* it carried out, they were sent earlier and earlier.
Ascending ==
    \A d \in Daemons :
        /\ \A i, j \in DOMAIN backlog[d] :
                i < j /\ backlog[d][i].what \in Commands /\ backlog[d][j].what \in Commands =>
                    backlog[d][i].what < backlog[d][j].what
        /\ \A b, c \in Commands : Reads(d, b) /\ Waits(d, c) => b < c
        /\ \A k \in DOMAIN executed, c \in Commands :
                executed[k].by = d /\ (Reads(d, c) \/ Waits(d, c)) => executed[k].command < c

OrderInv == OnceInv /\ Ascending /\ InOrder

LEMMA OrderInit == Init => OrderInv
<1> SUFFICES ASSUME Init PROVE OrderInv
  OBVIOUS
<1>1. DOMAIN <<>> = {}
  OBVIOUS
<1>2. Ascending /\ InOrder
  BY <1>1 DEF Init, Ascending, Reads, Waits, InOrder
<1>3. QED
  BY <1>2, OnceInit DEF OrderInv

(* A step that moves no command, but may drop some. *)
LEMMA OrderQuiet ==
    ASSUME OrderInv, UNCHANGED executed,
           \A d \in Daemons : /\ DOMAIN backlog'[d] \subseteq DOMAIN backlog[d]
                             /\ \A i \in DOMAIN backlog'[d] :
                                    backlog'[d][i].what = backlog[d][i].what,
           \A d \in Daemons : pc'[d] = "read" => pc[d] = "read" /\ serving'[d].what = serving[d].what
    PROVE  Ascending' /\ InOrder'
<1>1. \A c \in Commands, d \in Daemons : ((Waits(d, c))' => Waits(d, c)) /\ ((Reads(d, c))' => Reads(d, c))
  BY DEF Waits, Reads
<1>2. InOrder'
  BY DEF OrderInv, InOrder
<1>3. \A d \in Daemons : \A i, j \in DOMAIN backlog'[d] :
            i < j /\ backlog'[d][i].what \in Commands /\ backlog'[d][j].what \in Commands =>
                backlog'[d][i].what < backlog'[d][j].what
  BY DEF OrderInv, Ascending
<1>4. Ascending'
  BY <1>1, <1>3 DEF OrderInv, Ascending
<1>5. QED
  BY <1>2, <1>4

(* What is served next was sent before all that goes on waiting. *)
LEMMA OrderAccept ==
    ASSUME OrderInv, NEW d \in Daemons, Accept(d)
    PROVE  Ascending' /\ InOrder'
<1> DEFINE q == backlog[d]
<1>1. /\ pc' = [pc EXCEPT ![d] = "read"] /\ serving' = [serving EXCEPT ![d] = Head(q)]
      /\ backlog' = [backlog EXCEPT ![d] = Tail(q)] /\ UNCHANGED executed
  BY DEF Accept, Goto, history
<1>2. /\ pc \in [Daemons -> Places] /\ backlog \in [Daemons -> Seq(Connections)]
      /\ serving \in [Daemons -> Connections \cup {NoConnection}]
  BY DEF OrderInv, OnceInv, KeptInv, SessionTypeOK
<1>3. q \in Seq(Connections) /\ q # <<>>
  BY <1>2 DEF Accept
<1>4. q = backlog[d]
  OBVIOUS
<1> HIDE DEF q
<1>5. Head(q) = q[1] /\ 1 \in DOMAIN q
  BY <1>3
<1>6. \A i \in DOMAIN Tail(q) : /\ Tail(q)[i] = q[i + 1] /\ i + 1 \in DOMAIN q
                               /\ 1 < i + 1 /\ i \in Int
  BY <1>3
<1>7. /\ \A e \in Daemons : e # d => backlog'[e] = backlog[e] /\ pc'[e] = pc[e]
                                    /\ serving'[e] = serving[e]
      /\ backlog'[d] = Tail(q) /\ pc'[d] = "read" /\ serving'[d] = q[1]
  BY <1>1, <1>2, <1>5
<1>8. \A c \in Commands, e \in Daemons : (Waits(e, c))' => Waits(e, c)
  <2>1. TAKE c \in Commands, e \in Daemons
  <2>2. HAVE (Waits(e, c))'
  <2>3. CASE e # d
    BY <1>7, <2>2, <2>3 DEF Waits
  <2>4. CASE e = d
    <3>1. PICK i \in DOMAIN Tail(q) : Tail(q)[i].what = c
      BY <1>7, <2>2, <2>4 DEF Waits
    <3>2. QED
      BY <1>4, <1>6, <2>4, <3>1 DEF Waits
  <2>5. QED
    BY <2>3, <2>4
<1>9. \A c \in Commands, e \in Daemons :
            (Reads(e, c))' => IF e = d THEN Waits(d, c) /\ c = q[1].what ELSE Reads(e, c)
  BY <1>4, <1>5, <1>7 DEF Reads, Waits
<1>10. \A i, j \in DOMAIN q : i < j /\ q[i].what \in Commands /\ q[j].what \in Commands =>
            q[i].what < q[j].what
  BY <1>4 DEF OrderInv, Ascending
<1>11. \A i, j \in DOMAIN Tail(q) :
            i < j /\ Tail(q)[i].what \in Commands /\ Tail(q)[j].what \in Commands =>
                Tail(q)[i].what < Tail(q)[j].what
  <2>1. TAKE i, j \in DOMAIN Tail(q)
  <2>2. /\ i + 1 \in DOMAIN q /\ Tail(q)[i] = q[i + 1] /\ i \in Int
        /\ j + 1 \in DOMAIN q /\ Tail(q)[j] = q[j + 1] /\ j \in Int
    BY <1>6
  <2>3. i < j => i + 1 < j + 1
    BY <2>2
  <2>4. QED
    BY <1>10, <2>2, <2>3
<1>12. \A c \in Commands : (Waits(d, c))' /\ q[1].what \in Commands => q[1].what < c
  <2>1. TAKE c \in Commands
  <2>2. HAVE (Waits(d, c))' /\ q[1].what \in Commands
  <2>3. PICK i \in DOMAIN Tail(q) : Tail(q)[i].what = c
    BY <1>7, <2>2 DEF Waits
  <2>4. i + 1 \in DOMAIN q /\ 1 < i + 1 /\ q[i + 1].what = c
    BY <1>6, <2>3
  <2>5. QED
    BY <1>5, <1>10, <2>2, <2>4
<1>13. ASSUME NEW e \in Daemons
       PROVE  /\ \A i, j \in DOMAIN backlog'[e] :
                    i < j /\ backlog'[e][i].what \in Commands /\ backlog'[e][j].what \in Commands =>
                        backlog'[e][i].what < backlog'[e][j].what
              /\ \A b, c \in Commands : (Reads(e, b))' /\ (Waits(e, c))' => b < c
              /\ \A k \in DOMAIN executed', c \in Commands :
                    executed'[k].by = e /\ ((Reads(e, c))' \/ (Waits(e, c))') => executed'[k].command < c
  <2>1. CASE e = d
    <3>1. \A k \in DOMAIN executed', c \in Commands :
            executed'[k].by = d /\ ((Reads(d, c))' \/ (Waits(d, c))') => executed'[k].command < c
      BY <1>1, <1>8, <1>9 DEF OrderInv, Ascending
    <3>2. QED
      BY <1>7, <1>9, <1>11, <1>12, <2>1, <3>1
  <2>2. CASE e # d
    <3>1. /\ backlog'[e] = backlog[e]
          /\ \A c \in Commands : ((Reads(e, c))' => Reads(e, c)) /\ ((Waits(e, c))' => Waits(e, c))
      BY <1>7, <1>8, <1>9, <2>2
    <3>2. QED
      BY <1>1, <3>1 DEF OrderInv, Ascending
  <2>3. QED
    BY <2>1, <2>2
<1>14. Ascending'
  BY <1>13 DEF Ascending
<1>15. InOrder'
  BY <1>1 DEF OrderInv, InOrder
<1>16. QED
  BY <1>14, <1>15

(* What is carried out was sent after all that the daemon has carried out. *)
LEMMA OrderCommand ==
    ASSUME OrderInv, NEW d \in Daemons, HandleCommand(d)
    PROVE  Ascending' /\ InOrder'
<1> DEFINE own == serving[d].what
           n == Len(executed) + 1
<1>1. /\ pc' = [pc EXCEPT ![d] = "save"] /\ pc[d] = "read" /\ own \in Commands
      /\ executed' = Append(executed, [by |-> d, command |-> own])
      /\ UNCHANGED <<backlog, serving>>
  BY DEF HandleCommand, Effect, Goto
<1>2. pc \in [Daemons -> Places] /\ SessionTypeOK
      /\ executed \in Seq([by : Daemons, command : Commands])
  BY DEF OrderInv, OnceInv, KeptInv, SessionTypeOK
<1>3. Reads(d, own)
  BY <1>1 DEF Reads
<1> HIDE DEF own
<1>4. /\ DOMAIN executed' = DOMAIN executed \cup {n} /\ n \notin DOMAIN executed
      /\ \A i \in DOMAIN executed : executed'[i] = executed[i]
      /\ executed'[n].command = own
  BY <1>1, <1>2, ExecutedGrows
<1>5. executed'[n].by = d
  <2> DEFINE new == [by |-> d, command |-> own]
  <2>1. new.by = d /\ executed' = Append(executed, new)
    BY <1>1
  <2> HIDE DEF new
  <2>2. QED
    BY <1>2, <2>1
<1>6. (\A i \in DOMAIN executed : i < n /\ ~(n < i)) /\ ~(n < n)
  BY <1>2
<1> HIDE DEF n
<1>7. \A c \in Commands, e \in Daemons :
            ((Waits(e, c))' <=> Waits(e, c)) /\ ((Reads(e, c))' <=> (Reads(e, c) /\ e # d))
  BY <1>1, <1>2 DEF Waits, Reads
<1>8. \A i \in DOMAIN executed : executed[i].by = d => executed[i].command < own
  BY <1>1, <1>3 DEF OrderInv, Ascending
<1>9. InOrder'
  <2> SUFFICES ASSUME NEW i \in DOMAIN executed', NEW j \in DOMAIN executed',
                      i < j, executed'[i].by = executed'[j].by
               PROVE  executed'[i].command < executed'[j].command
    BY DEF InOrder
  <2>1. i \in DOMAIN executed
    <3>1. j \in DOMAIN executed \cup {n} /\ i \in DOMAIN executed \cup {n}
      BY <1>4
    <3>2. CASE i = n
      <4>1. n < j
        BY <3>2
      <4>2. j \notin DOMAIN executed /\ j # n
        BY <1>6, <4>1
      <4>3. QED
        BY <3>1, <4>2
    <3>3. QED
      BY <3>1, <3>2
  <2>2. CASE j = n
    BY <1>4, <1>5, <1>8, <2>1, <2>2
  <2>3. CASE j \in DOMAIN executed
    BY <1>4, <2>1, <2>3 DEF OrderInv, InOrder
  <2>4. QED
    BY <1>4, <2>2, <2>3
<1>10. ASSUME NEW e \in Daemons, NEW k \in DOMAIN executed', NEW c \in Commands,
              executed'[k].by = e, (Reads(e, c))' \/ (Waits(e, c))'
       PROVE  executed'[k].command < c
  <2>1. Reads(e, c) \/ Waits(e, c)
    BY <1>7, <1>10
  <2>2. CASE k \in DOMAIN executed
    BY <1>4, <1>10, <2>1, <2>2 DEF OrderInv, Ascending
  <2>3. CASE k = n
    <3>1. e = d /\ Waits(d, c)
      BY <1>5, <1>7, <1>10, <2>3
    <3>2. \A b \in Commands : Reads(d, b) /\ Waits(d, c) => b < c
      BY <1>10 DEF OrderInv, Ascending
    <3>3. own < c
      BY <1>1, <1>3, <3>1, <3>2
    <3>4. QED
      BY <1>4, <2>3, <3>3
  <2>4. QED
    BY <1>4, <2>2, <2>3
<1>11. Ascending'
  <2>1. \A e \in Daemons : \A i, j \in DOMAIN backlog'[e] :
            i < j /\ backlog'[e][i].what \in Commands /\ backlog'[e][j].what \in Commands =>
                backlog'[e][i].what < backlog'[e][j].what
    BY <1>1 DEF OrderInv, Ascending
  <2>2. \A e \in Daemons : \A b, c \in Commands : (Reads(e, b))' /\ (Waits(e, c))' => b < c
    BY <1>7 DEF OrderInv, Ascending
  <2>3. QED
    BY <1>10, <2>1, <2>2 DEF Ascending
<1>12. QED
  BY <1>9, <1>11

LEMMA ExecutedTyped ==
    ASSUME SessionTypeOK, NEW k \in DOMAIN executed
    PROVE  executed[k].command \in Commands /\ Carried(executed[k].command)
<1> DEFINE Executions == [by : Daemons, command : Commands]
<1>1. executed \in Seq(Executions)
  BY DEF SessionTypeOK
<1>2. \A e \in Executions : e.command \in Commands
  OBVIOUS
<1> HIDE DEF Executions
<1>3. executed[k] \in Executions
  BY <1>1
<1>4. QED
  BY <1>2, <1>3 DEF Carried

(* A new command was sent after all others. *)
LEMMA OrderEnqueue ==
    ASSUME OrderInv, CanConnect, NEW what \in Requests, NEW open \in BOOLEAN, Enqueue(what, open),
           what \in Commands => what = sent + 1,
           UNCHANGED <<pc, serving, executed>>
    PROVE  Ascending' /\ InOrder'
<1> DEFINE q == backlog[socket]
           new == [what |-> what, open |-> open]
           last == Len(q) + 1
           r == Append(q, new)
<1>1. /\ socket \in Daemons /\ q \in Seq(Connections)
      /\ backlog \in [Daemons -> Seq(Connections)] /\ sent \in Nat
  BY DEF OrderInv, OnceInv, KeptInv, CanConnect, SessionTypeOK
<1>2. backlog' = [backlog EXCEPT ![socket] = r] /\ new.what = what /\ new \in Connections
  BY DEF Enqueue, Connections
<1>3. q = backlog[socket]
  OBVIOUS
<1> HIDE DEF q, new
<1>4. /\ last \notin DOMAIN q /\ DOMAIN r = DOMAIN q \cup {last}
      /\ \A i \in DOMAIN q : r[i] = q[i] /\ i < last /\ ~(last < i)
      /\ r[last] = new /\ ~(last < last)
  BY <1>1, <1>2
<1> HIDE DEF r, last
<1>5. \A d \in Daemons : backlog'[d] = IF d = socket THEN r ELSE backlog[d]
  BY <1>1, <1>2
<1>6. \A c \in Commands, d \in Daemons :
            (Waits(d, c))' => (Waits(d, c) \/ (d = socket /\ c = what))
  <2> SUFFICES ASSUME NEW c \in Commands, NEW d \in Daemons,
                      NEW i \in DOMAIN backlog'[d], backlog'[d][i].what = c
               PROVE  Waits(d, c) \/ (d = socket /\ c = what)
    BY DEF Waits
  <2>1. CASE d # socket
    BY <1>5, <2>1 DEF Waits
  <2>2. CASE d = socket
    <3>1. backlog'[d] = r /\ backlog[d] = q
      BY <1>3, <1>5, <2>2
    <3>2. CASE i = last
      BY <1>2, <1>4, <2>2, <3>1, <3>2
    <3>3. CASE i \in DOMAIN q
      BY <1>4, <3>1, <3>3 DEF Waits
    <3>4. QED
      BY <1>4, <3>1, <3>2, <3>3
  <2>3. QED
    BY <2>1, <2>2
<1>7. \A c \in Commands, d \in Daemons : (Reads(d, c))' <=> Reads(d, c)
  BY DEF Reads
<1>8. ASSUME what \in Commands, NEW c \in Commands,
             Carried(c) \/ \E d \in Daemons : Waits(d, c) \/ Reads(d, c)
      PROVE  c < what
  <2>1. ~(c > sent)
    BY <1>8 DEF OrderInv, OnceInv, InOnePlace
  <2>2. c \in Nat
    BY Codes
  <2>3. QED
    BY <1>1, <1>8, <2>1, <2>2
<1>9. ASSUME NEW d \in Daemons, NEW i \in DOMAIN backlog'[d], NEW j \in DOMAIN backlog'[d], i < j,
             backlog'[d][i].what \in Commands, backlog'[d][j].what \in Commands
      PROVE  backlog'[d][i].what < backlog'[d][j].what
  <2>1. CASE d # socket
    BY <1>5, <1>9, <2>1 DEF OrderInv, Ascending
  <2>2. CASE d = socket
    <3>1. backlog'[d] = r /\ backlog[d] = q /\ i \in DOMAIN r /\ j \in DOMAIN r
      BY <1>3, <1>5, <2>2
    <3>2. i \in DOMAIN q /\ r[i] = q[i]
      BY <1>4, <1>9, <3>1
    <3>3. CASE j \in DOMAIN q
      BY <1>4, <1>9, <3>1, <3>2, <3>3 DEF OrderInv, Ascending
    <3>4. CASE j = last
      <4>1. r[j].what = what /\ what \in Commands
        BY <1>2, <1>4, <1>9, <3>1, <3>4
      <4>2. Waits(d, q[i].what) /\ q[i].what \in Commands
        BY <1>9, <3>1, <3>2 DEF Waits
      <4>3. QED
        BY <1>8, <3>1, <3>2, <4>1, <4>2
    <3>5. QED
      BY <1>4, <3>1, <3>3, <3>4
  <2>3. QED
    BY <2>1, <2>2
<1>10. ASSUME NEW d \in Daemons, NEW b \in Commands, NEW c \in Commands,
              (Reads(d, b))', (Waits(d, c))'
       PROVE  b < c
  BY <1>6, <1>7, <1>8, <1>10 DEF OrderInv, Ascending
<1>11. ASSUME NEW d \in Daemons, NEW k \in DOMAIN executed', NEW c \in Commands,
              executed'[k].by = d, (Reads(d, c))' \/ (Waits(d, c))'
       PROVE  executed'[k].command < c
  <2>1. CASE Reads(d, c) \/ Waits(d, c)
    BY <1>11, <2>1 DEF OrderInv, Ascending
  <2>2. CASE c = what
    <3>1. SessionTypeOK /\ k \in DOMAIN executed
      BY <1>11 DEF OrderInv, OnceInv, KeptInv
    <3>2. executed[k].command \in Commands /\ Carried(executed[k].command)
      BY <3>1, ExecutedTyped
    <3>3. what \in Commands /\ executed'[k] = executed[k]
      BY <2>2
    <3>4. \A b \in Commands : Carried(b) => b < what
      BY <1>8, <3>3
    <3>5. QED
      BY <2>2, <3>2, <3>3, <3>4
  <2>3. QED
    BY <1>6, <1>7, <1>11, <2>1, <2>2
<1>12. Ascending'
  BY <1>9, <1>10, <1>11 DEF Ascending
<1>13. InOrder'
  BY DEF OrderInv, InOrder
<1>14. QED
  BY <1>12, <1>13

LEMMA OrderStep ==
    ASSUME OrderInv, [Next]_vars
    PROVE  Ascending' /\ InOrder'
<1>1. SessionTypeOK /\ OnceInv /\ KeptInv
  BY DEF OrderInv, OnceInv, KeptInv
<1>2. ASSUME AtMostStarts, UNCHANGED executed, HungUp \/ UNCHANGED <<backlog, serving>>
      PROVE  Ascending' /\ InOrder'
  <2>1. \A d \in Daemons : /\ DOMAIN backlog'[d] \subseteq DOMAIN backlog[d]
                          /\ \A i \in DOMAIN backlog'[d] :
                                backlog'[d][i].what = backlog[d][i].what
    BY <1>2 DEF HungUp
  <2>2. \A d \in Daemons : serving'[d].what = serving[d].what
    BY <1>2 DEF HungUp
  <2>3. \A d \in Daemons : pc'[d] = "read" => pc[d] = "read"
    BY <1>2 DEF AtMostStarts
  <2>4. \A d \in Daemons :
            pc'[d] = "read" => pc[d] = "read" /\ serving'[d].what = serving[d].what
    BY <2>2, <2>3
  <2>5. UNCHANGED executed
    BY <1>2
  <2>6. QED
    BY <2>1, <2>4, <2>5, OrderQuiet
<1>3. ASSUME NEW d \in Daemons, Exit(d), UNCHANGED executed
      PROVE  Ascending' /\ InOrder'
  <2>1. /\ pc' = [pc EXCEPT ![d] = "off"] /\ backlog' = [backlog EXCEPT ![d] = <<>>]
        /\ serving' = [serving EXCEPT ![d] = NoConnection]
    BY <1>3 DEF Exit, Goto
  <2>2. /\ pc \in [Daemons -> Places] /\ backlog \in [Daemons -> Seq(Connections)]
        /\ serving \in [Daemons -> Connections \cup {NoConnection}]
    BY <1>1 DEF SessionTypeOK
  <2>3. DOMAIN <<>> = {}
    OBVIOUS
  <2>4. /\ \A e \in Daemons : /\ DOMAIN backlog'[e] \subseteq DOMAIN backlog[e]
                              /\ \A i \in DOMAIN backlog'[e] :
                                    backlog'[e][i].what = backlog[e][i].what
        /\ \A e \in Daemons : pc'[e] # "off" => pc'[e] = pc[e] /\ serving'[e] = serving[e]
    BY <2>1, <2>2, <2>3
  <2>5. \A e \in Daemons :
            pc'[e] = "read" => pc[e] = "read" /\ serving'[e].what = serving[e].what
    BY <2>4
  <2>6. UNCHANGED executed
    BY <1>3
  <2>7. QED
    BY <2>4, <2>5, <2>6, OrderQuiet
<1>4. ASSUME NEW d \in Daemons, NEW where, Goto(d, where), where # "read",
             UNCHANGED <<backlog, serving, executed>>
      PROVE  Ascending' /\ InOrder'
  <2>1. pc' = [pc EXCEPT ![d] = where] /\ pc \in [Daemons -> Places]
    BY <1>1, <1>4 DEF Goto, SessionTypeOK
  <2>2. QED
    BY <1>4, <2>1, OrderQuiet
<1>5. CASE UNCHANGED <<pc, backlog, serving, executed>>
  <2>1. UNCHANGED pc /\ UNCHANGED backlog /\ UNCHANGED serving /\ UNCHANGED executed
    BY <1>5
  <2>2. QED
    BY <2>1, OrderQuiet
<1>6. ASSUME NEW d \in Daemons, DaemonStep(d)
      PROVE  Ascending' /\ InOrder'
  <2>1. CASE Accept(d)
    BY <2>1, OrderAccept
  <2>2. CASE HandleCommand(d)
    BY <2>2, OrderCommand
  <2>3. CASE Remove(d)
    BY <1>3, <1>4, <2>3 DEF Remove, Exit, history
  <2>4. CASE Bind(d)
    BY <1>3, <1>4, <2>4 DEF Bind, Exit, history
  <2>5. CASE Unlink(d)
    BY <1>3, <2>5 DEF Unlink, Exit
  <2>6. CASE Answer(d)
    <3> DEFINE where == IF serving[d].what = Shutdown THEN "cleanup" ELSE "accept"
    <3>1. /\ pc' = [pc EXCEPT ![d] = where] /\ serving' = [serving EXCEPT ![d] = NoConnection]
          /\ UNCHANGED <<backlog, executed>> /\ where # "read"
      BY <2>6 DEF Answer, Goto, history
    <3> HIDE DEF where
    <3>2. /\ pc \in [Daemons -> Places]
          /\ serving \in [Daemons -> Connections \cup {NoConnection}]
      BY <1>1 DEF SessionTypeOK
    <3>3. \A e \in Daemons :
            pc'[e] = "read" => pc[e] = "read" /\ serving'[e].what = serving[e].what
      BY <3>1, <3>2
    <3>4. QED
      BY <3>1, <3>3, OrderQuiet
  <2>7. CASE Load(d) \/ Restore(d) \/ Check(d) \/ Stop(d) \/ ReadTimesOut(d) \/ HandleSnapshot(d)
             \/ CommandFails(d) \/ Save(d) \/ Cleanup(d)
    BY <1>4, <2>7 DEF Load, Restore, Check, Stop, ReadTimesOut, HandleSnapshot, CommandFails, Save,
        Cleanup, history
  <2>8. QED
    BY <1>6, <2>1, <2>2, <2>3, <2>4, <2>5, <2>6, <2>7 DEF DaemonStep
<1>7. CASE Poll
  BY <1>7, Codes, OrderEnqueue DEF Poll, Ask, Requests
<1>8. CASE Send
  BY <1>1, <1>8, TypePressed, OrderEnqueue DEF Send, Pressed, Ask, Requests
<1>9. ASSUME NEW what \in {Silence, Shutdown}, OthersConnect(what)
      PROVE  Ascending' /\ InOrder'
  BY <1>9, Codes, OrderEnqueue DEF OthersConnect, Requests
<1>10. CASE PollRefused
  BY <1>1, <1>2, <1>10, PollFailsStarts DEF PollRefused
<1>11. CASE SendRefused
  BY <1>5, <1>11 DEF SendRefused, SendFails
<1>12. CASE ReceiveSnapshot \/ ReceiveError
  <2>1. HungUp /\ UNCHANGED <<pc, executed>>
    BY <1>1, <1>12, HangupCloses DEF ReceiveSnapshot, ReceiveError
  <2>2. QED
    BY <2>1, OrderQuiet DEF HungUp
<1>13. CASE ReceiveBroken \/ GiveUp
  <2>1. RequestFails
    BY <1>13 DEF ReceiveBroken, GiveUp
  <2>2. AtMostStarts /\ HungUp /\ UNCHANGED executed
    BY <1>1, <2>1, RequestFailsStarts, HangupCloses DEF RequestFails
  <2>3. QED
    BY <1>2, <2>2
<1>14. CASE RetryDue
  BY <1>5, <1>14 DEF RetryDue, daemon, history
<1>15. CASE StartButton
  BY <1>1, <1>2, <1>15, EnsureStarts DEF StartButton
<1>16. ASSUME NEW d \in Daemons, StartedByOthers(d)
       PROVE  Ascending' /\ InOrder'
  BY <1>1, <1>2, <1>16, StartStarts DEF StartedByOthers, SessionTypeOK, gui
<1>17. ASSUME NEW d \in Daemons, Signal(d)
       PROVE  Ascending' /\ InOrder'
  BY <1>5, <1>17 DEF Signal
<1>18. ASSUME NEW d \in Daemons, Crash(d)
       PROVE  Ascending' /\ InOrder'
  BY <1>3, <1>18 DEF Crash, Exit
<1>19. CASE UNCHANGED vars
  BY <1>5, <1>19 DEF vars, daemon, history
<1>20. QED
  BY <1>6, <1>7, <1>8, <1>9, <1>10, <1>11, <1>12, <1>13, <1>14, <1>15, <1>16, <1>17, <1>18, <1>19
  DEF Next

LEMMA OrderNext == OrderInv /\ [Next]_vars => OrderInv'
  BY OrderStep, OnceNext DEF OrderInv

(* Whoever gave up on which command, a daemon carries them out in the order *)
(* in which they were sent.                                                 *)
THEOREM SessionOrder == Spec => []InOrder
<1>1. OrderInv => InOrder
  BY DEF OrderInv
<1>2. QED
  BY <1>1, OrderInit, OrderNext, PTL DEF Spec


(* What is on a list of executions once is counted once.                    *)
LEMMA CountOnce ==
    ASSUME NEW list, NEW c,
           \A i, j \in DOMAIN list : list[i].command = c /\ list[j].command = c => i = j
    PROVE  Cardinality({i \in DOMAIN list : list[i].command = c}) =
                IF \E i \in DOMAIN list : list[i].command = c THEN 1 ELSE 0
<1> DEFINE at == {i \in DOMAIN list : list[i].command = c}
<1>1. CASE \E i \in DOMAIN list : list[i].command = c
  <2>1. PICK i \in DOMAIN list : list[i].command = c
    BY <1>1
  <2>2. at = {i}
    BY <2>1
  <2>3. QED
    BY <1>1, <2>2, FS_Singleton
<1>2. CASE ~\E i \in DOMAIN list : list[i].command = c
  <2>1. at = {}
    BY <1>2
  <2>2. QED
    BY <1>2, <2>1, FS_EmptySet
<1>3. QED
  BY <1>1, <1>2

(* What was carried out was so once, what was not never. *)
LEMMA TimesOnce ==
    ASSUME OnceInv, NEW c \in Commands
    PROVE  Times[c] = IF Carried(c) THEN 1 ELSE 0
  BY CountOnce DEF Times, Carried, OnceInv, InOnePlace

(* Steps that neither send, nor carry out, nor confirm are none of the      *)
(* promise's.                                                               *)
LEMMA PromiseQuiet ==
    ASSUME UNCHANGED <<sent, executed, confirmed>>
    PROVE  UNCHANGED (Promise!vars)
<1>1. Times' = Times
  BY DEF Times
<1>2. QED
  BY <1>1 DEF Promise!vars

(* A daemon carries a command out, or does nothing of interest.             *)
LEMMA PromiseDaemon ==
    ASSUME OnceInv, OnceInv', NEW d \in Daemons, DaemonStep(d)
    PROVE  Promise!Next \/ UNCHANGED (Promise!vars)
<1>1. CASE HandleCommand(d)
  <2> DEFINE own == serving[d].what
  <2>1. /\ own \in Commands /\ own <= sent /\ ~Carried(own)
        /\ executed' = Append(executed, [by |-> d, command |-> own])
        /\ UNCHANGED <<sent, confirmed>>
    BY <1>1, OnceCommand
  <2> HIDE DEF own
  <2>2. /\ DOMAIN executed' = DOMAIN executed \cup {Len(executed) + 1}
        /\ \A i \in DOMAIN executed : executed'[i] = executed[i]
        /\ executed'[Len(executed) + 1].command = own
    BY <2>1, ExecutedGrows DEF OnceInv, KeptInv
  <2>3. \A c : (Carried(c))' <=> (Carried(c) \/ c = own)
    BY <2>2 DEF Carried
  <2>4. \A c \in Commands : Times[c] = IF Carried(c) THEN 1 ELSE 0
    BY TimesOnce
  <2>5. \A c \in Commands : Times'[c] = IF (Carried(c))' THEN 1 ELSE 0
    <3>1. TAKE c \in Commands
    <3>2. \A i, j \in DOMAIN executed' :
                executed'[i].command = c /\ executed'[j].command = c => i = j
      BY DEF OnceInv, InOnePlace
    <3>3. Cardinality({i \in DOMAIN executed' : executed'[i].command = c}) =
                IF \E i \in DOMAIN executed' : executed'[i].command = c THEN 1 ELSE 0
      BY <3>2, CountOnce
    <3>4. QED
      BY <3>3 DEF Times, Carried
  <2>6. Times = [c \in Commands |-> Times[c]] /\ Times' = [c \in Commands |-> Times'[c]]
    BY DEF Times
  <2>7. \A c \in Commands : Times'[c] = IF c = own THEN 1 ELSE Times[c]
    BY <2>3, <2>4, <2>5
  <2>8. Times' = [Times EXCEPT ![own] = 1]
    BY <2>6, <2>7
  <2>9. Times[own] = 0
    BY <2>1, <2>4
  <2>10. Promise!CarryOut(own)
    BY <2>1, <2>8, <2>9 DEF Promise!CarryOut
  <2>11. Promise!Next
    BY <2>1, <2>10 DEF Promise!Next, Promise!Commands, Commands
  <2>12. QED
    BY <2>11
<1>2. CASE ~HandleCommand(d)
  <2>1. UNCHANGED <<sent, executed, confirmed>>
    BY <1>2 DEF DaemonStep, Load, Restore, Check, Remove, Bind, Stop, Accept, ReadTimesOut,
        HandleSnapshot, CommandFails, Save, Answer, Cleanup, Unlink, Exit, history
  <2>2. QED
    BY <2>1, PromiseQuiet
<1>3. QED
  BY <1>1, <1>2

LEMMA PromiseStep ==
    ASSUME OnceInv, OnceInv', [Next]_vars
    PROVE  [Promise!Next]_(Promise!vars)
<1>1. CASE UNCHANGED vars
  BY <1>1, PromiseQuiet DEF vars, history
<1>2. ASSUME NEW d \in Daemons, DaemonStep(d)
      PROVE  [Promise!Next]_(Promise!vars)
  BY <1>2, PromiseDaemon
<1>3. CASE Send \/ SendRefused
  <2>1. UNCHANGED <<executed, confirmed>> /\ sent' = sent + 1 /\ sent < MaxCommands
    BY <1>3 DEF Send, SendRefused, Pressed, Ask
  <2>2. Times' = Times
    BY <2>1 DEF Times
  <2>3. Promise!Send
    BY <2>1, <2>2 DEF Promise!Send
  <2>4. QED
    BY <2>3 DEF Promise!Next
<1>4. CASE ReceiveSnapshot
  <2>1. UNCHANGED <<sent, executed>> /\ confirmed' = confirmed \cup ({asked} \cap Commands)
        /\ answer.kind = "snapshot"
    BY <1>4 DEF ReceiveSnapshot
  <2>2. Times' = Times
    BY <2>1 DEF Times
  <2>3. CASE asked \in Commands
    <3>1. Times[asked] = 1
      BY <2>1, <2>3, TimesOnce DEF OnceInv, Told
    <3>2. Promise!Tell(asked)
      BY <2>1, <2>2, <2>3, <3>1 DEF Promise!Tell
    <3>3. QED
      BY <2>3, <3>2 DEF Promise!Next, Promise!Commands, Commands
  <2>4. CASE asked \notin Commands
    <3>1. confirmed' = confirmed
      BY <2>1, <2>4
    <3>2. QED
      BY <2>1, <3>1, PromiseQuiet
  <2>5. QED
    BY <2>3, <2>4
<1>5. CASE \/ Poll \/ PollRefused \/ ReceiveError \/ ReceiveBroken \/ GiveUp \/ RetryDue \/ StartButton
           \/ \E d \in Daemons : StartedByOthers(d) \/ Signal(d) \/ Crash(d)
           \/ \E what \in {Silence, Shutdown} : OthersConnect(what)
  <2>1. UNCHANGED <<sent, executed, confirmed>>
    BY <1>5 DEF Poll, PollRefused, Ask, ReceiveError, ReceiveBroken, RequestFails, GiveUp, RetryDue,
        StartButton, StartedByOthers, Signal, Crash, Exit, OthersConnect, history
  <2>2. QED
    BY <2>1, PromiseQuiet
<1>6. QED
  BY <1>1, <1>2, <1>3, <1>4, <1>5 DEF Next

(* Sessions implement AtMostOnce: though the GUI gives up on answers and    *)
(* asks other things, no command is carried out twice, even by different    *)
(* daemons, and none is confirmed that was not carried out.                 *)
THEOREM SessionOnce == Spec => ImplementsAtMostOnce
<1>1. Init => Promise!Init
  <2> SUFFICES ASSUME Init PROVE Promise!Init
    OBVIOUS
  <2>1. \A c \in Commands : Times[c] = 0
    <3>1. \A c \in Commands : ~Carried(c)
      BY DEF Init, Carried
    <3>2. QED
      BY <3>1, OnceInit, TimesOnce
  <2>2. Times = [c \in Commands |-> 0]
    BY <2>1 DEF Times
  <2>3. QED
    BY <2>2 DEF Init, Promise!Init, Promise!Commands, Commands
<1>2. OnceInv /\ OnceInv' /\ [Next]_vars => [Promise!Next]_(Promise!vars)
  BY PromiseStep
<1>3. QED
  BY <1>1, <1>2, OnceInvHolds, PTL DEF Spec, ImplementsAtMostOnce, Promise!Spec
=============================================================================
