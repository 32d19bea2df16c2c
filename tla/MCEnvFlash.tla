------------------------------ MODULE MCEnvFlash ------------------------------
(***************************************************************************)
(* EnvFlash with a sector of three blocks, images of two pages and two     *)
(* values a page may hold.                                                 *)
(***************************************************************************)
EXTENDS EnvFlash

CONSTANTS v1, v2
==============================================================================
