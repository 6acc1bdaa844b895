------------------------------ MODULE MCSessions ------------------------------
(* Sessions for TLC: the two devices are alike.                            *)
EXTENDS Sessions, TLC

Symmetry == Permutations(Devices)
==============================================================================
