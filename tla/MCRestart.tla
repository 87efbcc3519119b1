----------------------------- MODULE MCRestart ------------------------------
(***************************************************************************)
(* Where keyboards were when the daemon ended, beside Profiles: a history  *)
(* variable that says what a restart should bring back.                    *)
(***************************************************************************)
EXTENDS Profiles

CONSTANTS d1, action

OneDevice == {d1}
TwoSlots == 1 .. 2
EveryPair == Devices \X Slots
OneName == 1 .. 1
OneKey == {1}
OneAction == {action}
Nothing == {}

\* A store without files.
NothingStored ==
    {[active |-> 1,
      profiles |-> [n \in Names |->
        [s \in Slots |-> [device |-> NoDevice, locked |-> FALSE,
                          keys |-> [k \in Keys |-> NoAction]]]]]}

VARIABLE before  \* the slot each keyboard had when the daemon last ended

NoneAssigned == [d \in Devices |-> NoSlot]

\* The daemon ends between two commands, or in the middle of one, of which
\* nothing is expected.
Remembered ==
    before' = IF ~starting' \/ starting THEN before
              ELSE IF Idle THEN assigned ELSE NoneAssigned

RestartInit == Init /\ before = NoneAssigned

RestartNext == Next /\ Remembered

RestartSpec == RestartInit /\ [][RestartNext]_<<allVars, before>>

(* docs/architecture.md:15: kbdsplitd persists the assignments. A keyboard  *)
(* that had a slot when the daemon ended, and has one when the next daemon  *)
(* has restored its profile, has the same.                                  *)
RestartKeepsSlots ==
    starting /\ pc = "assign" /\ todo = {} =>
        \A d \in Devices : NoSlot \notin {before[d], assigned[d]} => assigned[d] = before[d]
=============================================================================
