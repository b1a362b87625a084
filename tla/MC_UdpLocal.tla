---------------------------- MODULE MC_UdpLocal ----------------------------
(***************************************************************************)
(* Small instances of UdpLocal: three visitors against a limit of two, and *)
(* enough sockets that a visitor is dialled anew while its old socket is   *)
(* still being given up.                                                   *)
(***************************************************************************)
EXTENDS UdpLocal

CONSTANTS a1, a2, a3
=============================================================================
