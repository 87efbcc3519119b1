------------------------------ MODULE MCDaemon ------------------------------
(***************************************************************************)
(* The daemon with two keyboards; the configurations choose the slots, the *)
(* pairs that are assigned, what the user does and what may fail.          *)
(***************************************************************************)
EXTENDS Daemon

CONSTANTS d1, d2, k1, k2

MCDevices == {d1, d2}
OneDevice == {d1}
OneSlot == {1}
TwoSlots == {1, 2}
OneKey == {k1}
TwoKeys == {k1, k2}

EveryPair == Devices \X Slots
Contested == {<<d1, 1>>, <<d1, 2>>, <<d2, 1>>}

NoKeys == {}
Nothing == {}
AllButKeys == Deeds \ {"keys"}
Commands == {"assign", "unassign", "lock"}
Releasing == Commands \cup {"kill"}
Replugging == {"assign", "unplug"}
Playing == {"lock", "keys", "unassign", "unplug"}
Moving == {"assign", "keys"}
Starting == {"open", "save", "grab"}
Saving == {"save"}
Grabbing == {"grab"}
=============================================================================
