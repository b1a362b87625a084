------------------------------ MODULE MC_Panel ------------------------------
(***************************************************************************)
(* Small instances of Panel: an administrator and others on one address.   *)
(***************************************************************************)
EXTENDS Panel

CONSTANTS ip1, p1, p2, none, q1, q2

AnyList == {{}, {ip1}}
TwoImports ==
    {[password |-> p2, whitelist |-> {}, blacklist |-> {}, noAuth |-> TRUE],
     [password |-> none, whitelist |-> {ip1}, blacklist |-> {}, noAuth |-> FALSE]}
=============================================================================
