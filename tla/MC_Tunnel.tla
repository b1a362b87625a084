----------------------------- MODULE MC_Tunnel -----------------------------
(***************************************************************************)
(* A small instance of Tunnel: one client name that three connections      *)
(* compete for, two tokens (one of them in nobody's hands at first), a     *)
(* remote source and the loopback.                                         *)
(***************************************************************************)
EXTENDS Tunnel

CONSTANTS n1, t1, t2, ext, lo

OneUser == [n \in Names |-> IF n = n1 THEN t1 ELSE NoToken]
SomeImports == {[n \in Names |-> NoToken], [n \in Names |-> t2]}
=============================================================================
