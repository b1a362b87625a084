----------------------------- MODULE MC_Client ------------------------------
(***************************************************************************)
(* A small instance of Client: three sessions at a time, two connections.  *)
(***************************************************************************)
EXTENDS Client
=============================================================================
