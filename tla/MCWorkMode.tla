------------------------------ MODULE MCWorkMode ------------------------------
(***************************************************************************)
(* WorkMode with at most two messages of interrupts and keys waiting: one  *)
(* can be stale by the time the other is handled.                          *)
(***************************************************************************)
EXTENDS WorkMode
==============================================================================
