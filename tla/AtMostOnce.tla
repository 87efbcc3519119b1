----------------------------- MODULE AtMostOnce -----------------------------
(***************************************************************************)
(* What the user of the GUI may rely on when a button sends a command to   *)
(* the daemon: it is carried out at most once, however long the answer     *)
(* takes and whatever is sent after it, and one that was answered with a   *)
(* snapshot has been carried out.  An error says neither that it was nor   *)
(* that it was not.                                                        *)
(***************************************************************************)
EXTENDS Naturals

CONSTANT MaxCommands    \* how many commands are sent

VARIABLES
    sent,       \* the commands 1 .. sent have been sent
    done,       \* done[c]: how often command c was carried out
    told        \* the commands the GUI was told are done

vars == <<sent, done, told>>

Commands == 1 .. MaxCommands

Init ==
    /\ sent = 0
    /\ done = [c \in Commands |-> 0]
    /\ told = {}

Send ==
    /\ sent < MaxCommands
    /\ sent' = sent + 1
    /\ UNCHANGED <<done, told>>

CarryOut(c) ==
    /\ c <= sent /\ done[c] = 0
    /\ done' = [done EXCEPT ![c] = 1]
    /\ UNCHANGED <<sent, told>>

Tell(c) ==
    /\ done[c] = 1
    /\ told' = told \cup {c}
    /\ UNCHANGED <<sent, done>>

Next == Send \/ \E c \in Commands : CarryOut(c) \/ Tell(c)

Spec == Init /\ [][Next]_vars
=============================================================================
