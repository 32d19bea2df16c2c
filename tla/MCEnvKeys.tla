------------------------------ MODULE MCEnvKeys ------------------------------
(***************************************************************************)
(* EnvKeys with a table of two entries, three devices, so that a third one *)
(* takes the place of another, and for each device a key and the one a cut *)
(* save leaves, which another pairing replaces.                            *)
(***************************************************************************)
EXTENDS EnvKeys, TLC

CONSTANTS d1, d2, d3, k1

Devices == {d1, d2, d3}
Keys == {k1}
Symmetry == Permutations(Devices)
==============================================================================
