--------------------------- MODULE MC_RuleStore ---------------------------
(***************************************************************************)
(* Small instances of RuleStore.  The forms hold what the guards tell      *)
(* apart: two server ports, both protocols on one port, an edit of a       *)
(* target, an edit of options only, a tunnelled rule, a reverse rule, a    *)
(* rule with a bad field and one for an unregistered client.               *)
(***************************************************************************)
EXTENDS RuleStore

CONSTANTS r1, r2, c1, c2

F(side, proto, listen, target, client, opts, fields) ==
    [side |-> side, proto |-> proto, listen |-> listen, target |-> target,
     client |-> client, opts |-> opts, fields |-> fields]

tcp1     == F("server", "tcp", 1, "a", NoClient, "o", TRUE)
tcp1opts == F("server", "tcp", 1, "a", NoClient, "p", TRUE)
udp1     == F("server", "udp", 1, "a", NoClient, "o", TRUE)
udp1b    == F("server", "udp", 1, "b", NoClient, "o", TRUE)
tun2     == F("server", "udp", 2, "a", c2, "o", TRUE)
rev1     == F("client", "tcp", 1, "a", c1, "o", TRUE)
rev1c2   == F("client", "tcp", 1, "a", c2, "o", TRUE)
busy3    == F("server", "tcp", 3, "a", NoClient, "o", TRUE)
bad      == F("server", "tcp", 4, "a", NoClient, "o", FALSE)

SomeForms == {tcp1, tcp1opts, udp1, udp1b, tun2, rev1, rev1c2, busy3, bad}

TakenSockets == {<<"tcp", 3>>}

On(f)  == [form |-> f, enabled |-> TRUE]
Off(f) == [form |-> f, enabled |-> FALSE]
Conf(rs, cs) == [rules |-> [id \in Ids |-> IF id \in DOMAIN rs THEN rs[id] ELSE NoRule],
                 clients |-> cs]

(* A replacement of every rule, one that keeps an ID and drops a client,    *)
(* one with a disabled rule, and two validateRule refuses.                  *)
SomeImports == {
    Conf([x \in {r1} |-> On(tun2)], {c2}),
    Conf([x \in {r2} |-> Off(udp1)], {}),
    Conf([x \in {r1, r2} |-> IF x = r1 THEN On(rev1c2) ELSE On(tcp1)], {c1, c2}),
    Conf([x \in {r1} |-> On(bad)], {c1}),
    Conf([x \in {r2} |-> On(tun2)], {c1}) }
=============================================================================
