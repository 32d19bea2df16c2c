------------------------------ MODULE MCAudioDsp ------------------------------
(***************************************************************************)
(* AudioDsp with at most two timeouts that expire.  MCAudioDsp.cfg has a   *)
(* DSP that always answers, MCAudioDspSilent.cfg one that may not.         *)
(***************************************************************************)
EXTENDS AudioDsp
==============================================================================
