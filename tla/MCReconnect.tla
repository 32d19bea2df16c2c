----------------------------- MODULE MCReconnect -----------------------------
(***************************************************************************)
(* Reconnect with the retry counts the firmware has, and one event that    *)
(* overtakes a callback already posted.                                    *)
(***************************************************************************)
EXTENDS Reconnect
==============================================================================
