------------------------------ MODULE MCSbcQueue ------------------------------
(***************************************************************************)
(* SbcQueue with a pool of six nodes, a cushion of three and a margin of   *)
(* two, packets of up to two frames and three packets held by the          *)
(* controller.                                                             *)
(***************************************************************************)
EXTENDS SbcQueue
==============================================================================
