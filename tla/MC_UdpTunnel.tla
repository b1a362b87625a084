---------------------------- MODULE MC_UdpTunnel ----------------------------
(***************************************************************************)
(* Small instances of UdpTunnel.                                           *)
(***************************************************************************)
EXTENDS UdpTunnel

CONSTANTS a1, a2, a3
=============================================================================
