------------------------------ MODULE MCOsTimer ------------------------------
(***************************************************************************)
(* OsTimer with three timers (MCOsTimerList.cfg) or two (the others), two  *)
(* delays, so that some expire together and some do not, and a pool of two *)
(* messages, which fills up.                                               *)
(***************************************************************************)
EXTENDS OsTimer, TLC

CONSTANTS t1, t2, t3

TwoTimers == {t1, t2}
ThreeTimers == {t1, t2, t3}
Symmetry == Permutations(Timer)
==============================================================================
