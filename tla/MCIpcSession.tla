---------------------------- MODULE MCIpcSession ----------------------------
(***************************************************************************)
(* Two processes for a daemon, and two commands.                           *)
(***************************************************************************)
EXTENDS IpcSession, TLC

CONSTANTS d1, d2

MCDaemons == {d1, d2}
=============================================================================
