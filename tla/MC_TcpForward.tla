--------------------------- MODULE MC_TcpForward ---------------------------
(***************************************************************************)
(* Small instances of TcpForward: visitors from a remote source, from one  *)
(* allow_from does not admit and from the loopback.                        *)
(***************************************************************************)
EXTENDS TcpForward

CONSTANTS ext, out, lo, v1, v2

Lists == {{}, {ext, lo}}
=============================================================================
