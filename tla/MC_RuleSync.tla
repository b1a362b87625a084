---------------------------- MODULE MC_RuleSync ----------------------------
(***************************************************************************)
(* Small instances of RuleSync: a rule that comes and goes, moves between  *)
(* protocols or lands on a port another program holds.                     *)
(***************************************************************************)
EXTENDS RuleSync

CONSTANTS r1, p1

S(proto, listen, target, opts) ==
    [proto |-> proto, listen |-> listen, target |-> target, opts |-> opts]

tcp1  == S("tcp", 1, "a", "o")
udp1  == S("udp", 1, "a", "o")
busy  == S("tcp", 3, "a", "o")

AllSpecs == {tcp1, udp1, busy}
Busy == {<<"tcp", 3>>}

R(f) == [id \in Ids |-> IF id \in DOMAIN f THEN f[id] ELSE NoSpec]

OneRule  == {None, R([x \in {r1} |-> tcp1])}
OneRuleMoves == {None, R([x \in {r1} |-> tcp1]), R([x \in {r1} |-> udp1]), R([x \in {r1} |-> busy])}
=============================================================================
