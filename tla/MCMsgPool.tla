------------------------------ MODULE MCMsgPool ------------------------------
(***************************************************************************)
(* MsgPool with a ring of four slots whose indices wrap every two turns,  *)
(* two messages that ask for a flash write (the arg of the request is the  *)
(* connected flag) and one that interrupts post.                           *)
(***************************************************************************)
EXTENDS MsgPool

CONSTANTS env0, env1, tick

MCMsg == {env0, env1, tick}
MCEnvWrite == {env0, env1}
==============================================================================
