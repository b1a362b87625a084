---------------------------- MODULE MC_UdpReverse ----------------------------
(***************************************************************************)
(* Small instances of UdpReverse: three visitors against two places and    *)
(* three connection IDs, so that the table is full while an ID is left,    *)
(* and the third comes in when one was swept.  The visitors are alike.     *)
(***************************************************************************)
EXTENDS UdpReverse, TLC

CONSTANTS v1, v2, v3
ConnIds == {1, 2, 3}
Symmetry == Permutations({v1, v2, v3})
=============================================================================
