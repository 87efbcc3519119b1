--------------------------- MODULE AssignmentRules ---------------------------
(***************************************************************************)
(* The assignment rules of DESIGN.md, section 7, as a specification: one    *)
(* keyboard feeds at most one slot, one slot has at most one keyboard, and  *)
(* a keyboard comes to a slot only by being given to it.                    *)
(***************************************************************************)
CONSTANTS
    Devices,    \* keyboards, by stable id
    Slots,      \* controller slots
    NoDevice    \* "this slot has no keyboard"

VARIABLE owner  \* the keyboard that feeds each slot

Init == owner = [s \in Slots |-> NoDevice]

\* The keyboard leaves the slot it fed; the slot's keyboard is displaced.
Give(d, s) ==
    owner' = [t \in Slots |-> IF t = s THEN d
                              ELSE IF owner[t] = d THEN NoDevice
                              ELSE owner[t]]

Take(group) ==
    owner' = [t \in Slots |-> IF t \in group THEN NoDevice ELSE owner[t]]

Next ==
    \/ \E d \in Devices, s \in Slots : Give(d, s)
    \/ \E group \in SUBSET Slots : Take(group)

Spec == Init /\ [][Next]_owner
=============================================================================
