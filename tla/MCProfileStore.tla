--------------------------- MODULE MCProfileStore ---------------------------
(***************************************************************************)
(* A store of three names, of which the last two are shipped, so that a    *)
(* new profile comes first, and a shipped profile that somebody copied by  *)
(* hand over the file of the other.                                        *)
(***************************************************************************)
EXTENDS ProfileStore

CONSTANTS fresh, edited

MCNames == 1 .. 3
MCShipped == {2, 3}
MCContents == {fresh, edited}
MCForeign == {[stem |-> 3, name |-> 2, content |-> edited]}
MCFaults == {"read", "write", "remove"}
=============================================================================
