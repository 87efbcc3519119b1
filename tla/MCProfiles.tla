----------------------------- MODULE MCProfiles -----------------------------
(***************************************************************************)
(* Profiles with two keyboards, two slots and two profile names. Either    *)
(* the keyboards move, come and go, while saving works and the bindings    *)
(* stay as they are, or one keyboard keeps one slot, whose bindings are    *)
(* edited while saving may fail: everything at once is too much to check.  *)
(***************************************************************************)
EXTENDS Profiles

CONSTANTS d1, d2, action

OneDevice == {d1}
TwoDevices == {d1, d2}
MCSlots == 1 .. 2
Contested == {<<d1, 1>>, <<d1, 2>>, <<d2, 1>>}
OneSlot == {1}
MCNames == 1 .. 2
MCKeys == {1}
MCActions == {action}

\* A store without files: every profile has the default bindings and no
\* keyboard.
MCStored ==
    {[active |-> 1,
      profiles |-> [n \in 1 .. 1 |->
        [s \in Slots |-> [device |-> NoDevice, locked |-> FALSE,
                          keys |-> [k \in Keys |-> NoAction]]]]]}

\* The bindings are the default ones.
Unedited(c) ==
    \A n \in DOMAIN c.profiles, s \in Slots : \A k \in Keys : c.profiles[n][s].keys[k] = NoAction

\* The first keyboard has the first slot, or none, and nothing else is kept.
Settled(c) ==
    \A n \in DOMAIN c.profiles :
        LET profile == c.profiles[n] IN
        profile[1].device # d2 /\ profile[2].device = NoDevice /\ ~profile[2].locked

\* Keyboards move, come and go, and everything is saved as it is ...
Moves == saved /\ capture = NoCapture /\ Unedited(config) /\ Unedited(disk)

\* ... or a keyboard that stays where it is has its bindings edited, and no
\* capture is in progress after a save that failed.
Edits ==
    /\ \A d \in Devices : connected[d]
    /\ saved \/ capture = NoCapture
    /\ sdevice[1] # d2 /\ sdevice[2] = NoDevice
    /\ Settled(config) /\ Settled(disk)

MovesOrEdits == Edits \/ Moves
=============================================================================
