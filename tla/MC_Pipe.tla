------------------------------- MODULE MC_Pipe -------------------------------
(***************************************************************************)
(* Small instances of Pipe: connection a, connection or stream b, with and *)
(* without an idle timeout.                                                *)
(***************************************************************************)
EXTENDS Pipe

Kinds == {{}, {"b"}}
=============================================================================
