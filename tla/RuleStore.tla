----------------------------- MODULE RuleStore -----------------------------
(***************************************************************************)
(* The server's configuration and the listeners that realise it:           *)
(* server/state.go (the panel's rule and client operations, import),       *)
(* applyRulesLocked and startRule of server/server.go (the diff that       *)
(* starts and stops listeners), config.Save / LoadServer (the file that    *)
(* survives a crash) and the shutdown part of Server.Run.                  *)
(*                                                                         *)
(* Every operation holds s.mu from its first read to the end of            *)
(* applyRulesLocked, so the part up to Save is one step; the apply loop    *)
(* iterates a Go map, in any order, and is one step per rule, with s.mu    *)
(* held (phase = "apply").  Only a crash and the shutdown loop of Run,     *)
(* which does not hold s.mu, can come between.  broadcastRules, called     *)
(* after the unlock, is the subject of module RuleSync, and the tunnel     *)
(* sessions closed by DeleteClient and ImportConfig of module Tunnel.      *)
(***************************************************************************)
EXTENDS Naturals, FiniteSets

CONSTANTS
    Ids,        \* rule IDs (config.RandToken()[:8])
    Forms,      \* what the panel may submit: rules without ID and Enabled
    NoRule,     \* no rule with this ID in the configuration
    NoRunner,   \* no entry with this ID in s.runners
    ClientNames,
    NoClient,   \* the empty client name: a plain forward
    FirstClients, \* clients in the file the first start finds
    Taken,      \* <<proto, port>> sockets held by other processes
    Imports,    \* configurations that may be imported
    MaxOps,     \* bound: panel operations
    MaxStops    \* bound: crashes and shutdowns

Rule == [form : Forms, enabled : BOOLEAN]
Config == [rules : [Ids -> Rule \cup {NoRule}], clients : SUBSET ClientNames]
(* runner: the rule copy its goroutine got, and whether stop() was called. *)
Runner == [form : Forms, stopped : BOOLEAN]

(***************************************************************************)
(* "fields" stands for the checks of validateRule on single fields         *)
(* (name, protocol, port range, target syntax, limits); "opts" for the     *)
(* fields sameAs does not compare (allow_from, max_mbps, max_conns,        *)
(* idle_min, proxy_proto).                                                 *)
(***************************************************************************)
ASSUME FormsAssumption ==
    \A f \in Forms :
        /\ f.side \in {"server", "client"}
        /\ f.proto \in {"tcp", "udp"}
        /\ f.client \in ClientNames \cup {NoClient}
        /\ f.fields \in BOOLEAN
        /\ {"listen", "target", "opts"} \subseteq DOMAIN f

ASSUME SentinelsAssumption ==
    /\ NoRule \notin Rule
    /\ NoRunner \notin Runner
    /\ NoClient \notin ClientNames

ASSUME ConfigAssumption ==
    /\ FirstClients \subseteq ClientNames
    /\ Imports \subseteq Config

ASSUME BoundsAssumption == MaxOps \in Nat /\ MaxStops \in Nat

VARIABLES
    up,         \* the process runs
    rules,      \* s.cfg.Rules, by ID
    clients,    \* s.cfg.Clients, by name
    disk,       \* the configuration file
    runners,    \* s.runners
    phase,      \* "idle": s.mu is free; "apply": inside applyRulesLocked;
                \* "stuck": a handler panicked with s.mu held
    todo,       \* desired rules the first loop of the apply has yet to visit
    stopping,   \* s.stopping
    halt,       \* runners the shutdown loop has yet to stop
    fresh,      \* Run has yet to apply the rules for the first time
    imported,   \* history: the last apply begun was an import's
    ops, stops  \* counters for the bounds

vars == <<up, rules, clients, disk, runners, phase, todo, stopping, halt, fresh, imported, ops, stops>>

-----------------------------------------------------------------------------
Present(rs) == {id \in Ids : rs[id] # NoRule}

(* validateRule: the field checks, a client for a reverse rule, and the     *)
(* client, if there is one, registered.                                     *)
validateRule(f, cs) ==
    /\ f.fields
    /\ f.side = "client" => f.client # NoClient
    /\ f.client # NoClient => f.client \in cs

(* Two rules compete for a port: server-side rules all together,           *)
(* client-side rules per client.  The protocol is not looked at.           *)
Compete(f, g) ==
    /\ f.listen = g.listen
    /\ \/ f.side = "server" /\ g.side = "server"
       \/ f.side = "client" /\ g.side = "client" /\ f.client = g.client

(* Mutant: only enabled rules are looked at.                               *)
portConflictEnabledOnly(rs, f, skip) ==
    \E id \in Present(rs) \ {skip} : rs[id].enabled /\ Compete(f, rs[id].form)

(* portConflict: some other rule competes with form f.                     *)
portConflict(rs, f, skip) ==
    \E id \in Present(rs) \ {skip} : Compete(f, rs[id].form)

(* What applyRulesLocked wants running.                                    *)
Desired(rs) == {id \in Present(rs) : rs[id].enabled /\ rs[id].form.side = "server"}

(* sameAs compares these four fields only.                                 *)
sameAs(f, g) ==
    /\ f.proto = g.proto /\ f.listen = g.listen
    /\ f.target = g.target /\ f.client = g.client

Socket(f) == <<f.proto, f.listen>>

Live(id) == runners[id] # NoRunner /\ ~runners[id].stopped

(* net.Listen / net.ListenUDP succeeds: nobody holds the socket.           *)
CanBind(f, rns) ==
    /\ Socket(f) \notin Taken
    /\ \A id \in Ids : rns[id] # NoRunner /\ ~rns[id].stopped => Socket(rns[id].form) # Socket(f)

(* stop() of a UDP runner closes its done channel: a second call panics.   *)
(* A second Close of a TCP listener only returns an error.                 *)
StopPanics(id) ==
    runners[id] # NoRunner /\ runners[id].stopped /\ runners[id].form.proto = "udp"

-----------------------------------------------------------------------------
Empty == [id \in Ids |-> NoRule]
NoRunners == [id \in Ids |-> NoRunner]

(* The first start writes a configuration without rules (LoadServer).      *)
Init ==
    /\ up = FALSE
    /\ disk = [rules |-> Empty, clients |-> FirstClients]
    /\ rules = Empty /\ clients = {}
    /\ runners = NoRunners
    /\ phase = "idle" /\ todo = {}
    /\ stopping = FALSE /\ halt = {} /\ fresh = FALSE /\ imported = FALSE
    /\ ops = 0 /\ stops = 0

(* A panel request got s.mu.  The panel answers until the process ends,    *)
(* during a shutdown too.                                                  *)
Begin == up /\ phase = "idle" /\ ops < MaxOps /\ ops' = ops + 1

Quiet == UNCHANGED <<up, stopping, halt, fresh, stops>>

(* cfg.Save renames a complete temporary file over the old one: the file   *)
(* is the whole new configuration, or on an error the whole old one.       *)
Save(rs, cs) == disk' = [rules |-> rs, clients |-> cs]

StartApply(rs) == phase' = "apply" /\ todo' = Desired(rs)

(* Mutant: the changed configuration stays in memory when Save fails.      *)
SaveAndApplyNoRollback(rs, cs, saved) ==
    /\ UNCHANGED runners
    /\ rules' = rs /\ clients' = cs
    /\ IF saved
       THEN Save(rs, cs) /\ StartApply(rs)
       ELSE UNCHANGED <<disk, phase, todo>>

(* The tail of AddRule, UpdateRule, SetRuleEnabled and ImportConfig: Save  *)
(* the changed configuration and apply it, or put the old one back.        *)
SaveAndApply(rs, cs, saved) ==
    /\ UNCHANGED runners
    /\ IF saved
       THEN rules' = rs /\ clients' = cs /\ Save(rs, cs) /\ StartApply(rs)
       ELSE UNCHANGED <<rules, clients, disk, phase, todo>>

AddRule(id, f, saved) ==
    /\ Begin /\ Quiet
    /\ rules[id] = NoRule
    /\ validateRule(f, clients)
    /\ ~portConflict(rules, f, id)
    /\ SaveAndApply([rules EXCEPT ![id] = [form |-> f, enabled |-> TRUE]], clients, saved)
    /\ imported' = (imported /\ ~saved)

UpdateRule(id, f, saved) ==
    /\ Begin /\ Quiet
    /\ rules[id] # NoRule
    /\ validateRule(f, clients)
    /\ ~portConflict(rules, f, id)
    /\ SaveAndApply([rules EXCEPT ![id] = [form |-> f, enabled |-> rules[id].enabled]],
                    clients, saved)
    /\ imported' = (imported /\ ~saved)

SetRuleEnabled(id, on, saved) ==
    /\ Begin /\ Quiet
    /\ rules[id] # NoRule
    /\ SaveAndApply([rules EXCEPT ![id] = [form |-> rules[id].form, enabled |-> on]],
                    clients, saved)
    /\ imported' = (imported /\ ~saved)

(* Mutant: the rules are validated against the clients being replaced.     *)
ImportConfigOldClients(c, saved) ==
    /\ Begin /\ Quiet
    /\ \A id \in Present(c.rules) : validateRule(c.rules[id].form, clients)
    /\ SaveAndApply(c.rules, c.clients, saved)
    /\ imported' = (imported \/ saved)

(* ImportConfig validates every rule against the imported clients, and     *)
(* does not look at ports.                                                 *)
ImportConfig(c, saved) ==
    /\ Begin /\ Quiet
    /\ \A id \in Present(c.rules) : validateRule(c.rules[id].form, c.clients)
    /\ SaveAndApply(c.rules, c.clients, saved)
    /\ imported' = (imported \/ saved)

(* Mutant: the listener of the deleted rule is left to the next apply.     *)
DeleteRuleNoStop(id, saved) ==
    /\ Begin /\ Quiet
    /\ rules[id] # NoRule
    /\ rules' = [rules EXCEPT ![id] = NoRule]
    /\ IF saved THEN Save(rules', clients) ELSE UNCHANGED disk
    /\ UNCHANGED <<clients, runners, phase, todo, imported>>

(* Mutant: the stopped runner stays in s.runners.                          *)
DeleteRuleKeepEntry(id, saved) ==
    /\ Begin /\ Quiet
    /\ rules[id] # NoRule
    /\ rules' = [rules EXCEPT ![id] = NoRule]
    /\ runners' = IF runners[id] = NoRunner THEN runners
                  ELSE [runners EXCEPT ![id] = [form |-> runners[id].form, stopped |-> TRUE]]
    /\ IF saved THEN Save(rules', clients) ELSE UNCHANGED disk
    /\ UNCHANGED <<clients, phase, todo, imported>>

(* DeleteRule stops the listener and forgets the rule before Save, and     *)
(* does not put it back when Save fails.  net/http recovers a panic of     *)
(* stop(), but nothing then unlocks s.mu.                                  *)
DeleteRule(id, saved) ==
    /\ Begin /\ Quiet
    /\ rules[id] # NoRule
    /\ rules' = [rules EXCEPT ![id] = NoRule]
    /\ UNCHANGED <<clients, todo, imported>>
    /\ IF StopPanics(id)
       THEN phase' = "stuck" /\ UNCHANGED <<runners, disk>>
       ELSE /\ runners' = [runners EXCEPT ![id] = NoRunner]
            /\ IF saved THEN Save(rules', clients) ELSE UNCHANGED disk
            /\ UNCHANGED phase

AddClient(name, saved) ==
    /\ Begin /\ Quiet
    /\ name # NoClient /\ name \notin clients
    /\ clients' = clients \cup {name}
    /\ IF saved THEN Save(rules, clients') ELSE UNCHANGED disk
    /\ UNCHANGED <<rules, runners, phase, todo, imported>>

DeleteClient(name, saved) ==
    /\ Begin /\ Quiet
    /\ name \in clients
    /\ \A id \in Present(rules) : rules[id].form.client # name
    /\ clients' = clients \ {name}
    /\ IF saved THEN Save(rules, clients') ELSE UNCHANGED disk
    /\ UNCHANGED <<rules, runners, phase, todo, imported>>

-----------------------------------------------------------------------------
ApplyFrame == UNCHANGED <<up, rules, clients, disk, stopping, halt, fresh, imported, ops, stops>>

(* startRule for one desired rule, with rns the runners left: a runner     *)
(* with the copy of the rule, or none when the socket cannot be bound.     *)
startRule(id, rns) ==
    [rns EXCEPT ![id] = IF CanBind(rules[id].form, rns)
                        THEN [form |-> rules[id].form, stopped |-> FALSE]
                        ELSE NoRunner]

(* First loop of applyRulesLocked, one rule: keep a runner that is the     *)
(* same, otherwise stop it and start the rule afresh.                      *)
ApplyOne(id) ==
    /\ phase = "apply" /\ id \in todo
    /\ ApplyFrame
    /\ IF runners[id] # NoRunner /\ sameAs(runners[id].form, rules[id].form)
       THEN todo' = todo \ {id} /\ UNCHANGED <<runners, phase>>
       ELSE IF StopPanics(id)
            THEN phase' = "stuck" /\ UNCHANGED <<runners, todo>>
            ELSE /\ runners' = startRule(id, [runners EXCEPT ![id] = NoRunner])
                 /\ todo' = todo \ {id} /\ UNCHANGED phase

Without(ids) == [id \in Ids |-> IF id \in ids THEN NoRunner ELSE runners[id]]

(* Second loop: stop what is not desired, in any order; then s.mu is       *)
(* released.  Some are gone by the time a stop() panics.                   *)
ApplyPrune ==
    LET extra == Ids \ Desired(rules)
        fatal == {id \in extra : StopPanics(id)}
    IN /\ phase = "apply" /\ todo = {}
       /\ ApplyFrame /\ UNCHANGED todo
       /\ IF fatal = {}
          THEN runners' = Without(extra) /\ phase' = "idle"
          ELSE /\ \E done \in SUBSET (extra \ fatal) : runners' = Without(done)
               /\ phase' = "stuck"

-----------------------------------------------------------------------------
(* Everything in memory is gone; the kernel closes the sockets.            *)
Die ==
    /\ up' = FALSE
    /\ rules' = Empty /\ clients' = {}
    /\ runners' = NoRunners
    /\ phase' = "idle" /\ todo' = {}
    /\ halt' = {} /\ fresh' = FALSE
    /\ UNCHANGED <<disk, imported, ops>>

(* The process is killed, at any point of any operation.  (A power failure *)
(* is not covered: save does not sync the file before it renames it.)      *)
Crash ==
    /\ up /\ stops < MaxStops /\ stops' = stops + 1
    /\ stopping' = FALSE
    /\ Die

(* Mutant: the rules are loaded and not applied.                           *)
RestartNoApply ==
    /\ ~up /\ up' = TRUE
    /\ rules' = disk.rules /\ clients' = disk.clients
    /\ imported' = FALSE
    /\ UNCHANGED <<disk, runners, phase, todo, stopping, halt, fresh, ops, stops>>

(* runServer: LoadServer reads the file, New makes a server without        *)
(* runners, and the panel is started, which answers from then on.          *)
Restart ==
    /\ ~up /\ up' = TRUE
    /\ rules' = disk.rules /\ clients' = disk.clients
    /\ runners' = NoRunners
    /\ phase' = "idle" /\ todo' = {}
    /\ fresh' = TRUE /\ imported' = FALSE
    /\ UNCHANGED <<disk, stopping, halt, ops, stops>>

(* Run gets s.mu, perhaps after panel operations, and applies the rules.   *)
FirstApply ==
    /\ fresh /\ phase = "idle"
    /\ StartApply(rules)
    /\ fresh' = FALSE /\ imported' = FALSE
    /\ UNCHANGED <<up, rules, clients, disk, runners, stopping, halt, ops, stops>>

(* Run after ctx.Done(), which it looks at once the rules are applied:     *)
(* takes s.mu for a moment only.                                           *)
Shutdown ==
    /\ up /\ phase = "idle" /\ ~stopping /\ ~fresh
    /\ stops < MaxStops /\ stops' = stops + 1
    /\ stopping' = TRUE
    /\ halt' = {id \in Ids : runners[id] # NoRunner}
    /\ UNCHANGED <<up, rules, clients, disk, runners, phase, todo, fresh, imported, ops>>

(* Its loop over s.runners stops each runner, without s.mu and without     *)
(* taking it out of the map.                                               *)
HaltRunner(id) ==
    /\ stopping /\ id \in halt
    /\ halt' = halt \ {id}
    /\ runners' = IF runners[id] = NoRunner THEN runners
                  ELSE [runners EXCEPT ![id] = [form |-> runners[id].form, stopped |-> TRUE]]
    /\ UNCHANGED <<up, rules, clients, disk, phase, todo, stopping, fresh, imported, ops, stops>>

(* Run returns, runServer closes the panel and the process ends.           *)
Exit ==
    /\ stopping /\ up /\ halt = {}
    /\ stopping' = FALSE
    /\ UNCHANGED stops
    /\ Die

PanelOp ==
    \E saved \in BOOLEAN :
        \/ \E id \in Ids, f \in Forms : AddRule(id, f, saved)
        \/ \E id \in Ids, f \in Forms : UpdateRule(id, f, saved)
        \/ \E id \in Ids, on \in BOOLEAN : SetRuleEnabled(id, on, saved)
        \/ \E c \in Imports : ImportConfig(c, saved)
        \/ \E id \in Ids : DeleteRule(id, saved)
        \/ \E n \in ClientNames \cup {NoClient} : AddClient(n, saved)
        \/ \E n \in ClientNames : DeleteClient(n, saved)

Apply == ApplyPrune \/ \E id \in Ids : ApplyOne(id)

Halt == Exit \/ \E id \in Ids : HaltRunner(id)

Next == PanelOp \/ Apply \/ Halt \/ Crash \/ Restart \/ FirstApply \/ Shutdown

Spec == Init /\ [][Next]_vars

(* A lock holder runs on, Run gets the lock once nobody holds it and       *)
(* finishes its shutdown, and the service manager starts the server again. *)
FairSpec ==
    /\ Spec
    /\ WF_vars(Apply) /\ WF_vars(Halt)
    /\ WF_vars(Restart) /\ WF_vars(FirstApply)

-----------------------------------------------------------------------------
(* The type of every variable.                                             *)
TypeOK ==
    /\ up \in BOOLEAN
    /\ rules \in [Ids -> Rule \cup {NoRule}]
    /\ clients \in SUBSET ClientNames
    /\ disk \in Config
    /\ runners \in [Ids -> Runner \cup {NoRunner}]
    /\ phase \in {"idle", "apply", "stuck"}
    /\ todo \in SUBSET Ids
    /\ stopping \in BOOLEAN
    /\ halt \in SUBSET Ids /\ fresh \in BOOLEAN /\ imported \in BOOLEAN
    /\ ops \in 0 .. MaxOps
    /\ stops \in 0 .. MaxStops

Settled == up /\ phase = "idle" /\ ~stopping

(***************************************************************************)
(* When no operation is in flight, a listener is running only for a rule   *)
(* that is configured, enabled and server-side, and on that rule's         *)
(* protocol, port, target and client (applyRulesLocked, DeleteRule).       *)
(***************************************************************************)
RunnersMatchConfig ==
    Settled =>
        \A id \in Ids : runners[id] # NoRunner =>
            /\ id \in Desired(rules)
            /\ sameAs(runners[id].form, rules[id].form)
            /\ ~runners[id].stopped

RefsIn(rs, cs) == \A id \in Present(rs) : validateRule(rs[id].form, cs)

(***************************************************************************)
(* Every rule, in memory and on disk, passes validateRule against the      *)
(* clients next to it: DeleteClient's check and the checks at entry keep   *)
(* references from dangling across failed saves, crashes and imports.      *)
(***************************************************************************)
RefsValid == RefsIn(rules, clients) /\ RefsIn(disk.rules, disk.clients)

(***************************************************************************)
(* Every rule in force is on disk as it is in memory: a restart neither    *)
(* loses nor changes a rule the panel shows, whatever saves failed.        *)
(***************************************************************************)
LiveRulesDurable ==
    \A id \in Present(rules) : disk.rules[id] = rules[id]

Unique(rs) ==
    \A i, j \in Present(rs) : i # j => ~Compete(rs[i].form, rs[j].form)

(***************************************************************************)
(* No two rules compete for a port, in memory or on disk (portConflict in  *)
(* AddRule and UpdateRule), as long as no import brings two that do:       *)
(* ImportConfig does not look at ports, and the imports of the run hold    *)
(* no such pair.                                                           *)
(***************************************************************************)
PortsUnique == Unique(rules) /\ Unique(disk.rules)

(* The enabled server-side rules whose socket no other process holds.      *)
Free(rs) == {id \in Desired(rs) : Socket(rs[id].form) \notin Taken}

(***************************************************************************)
(* When no operation is in flight, every enabled server-side rule whose    *)
(* socket no other process holds is listening.  applyRulesLocked starts    *)
(* before it stops, so an import that moves a port between rules leaves    *)
(* one down, until the next operation that applies, or a restart.  After   *)
(* a restart it holds once Run has applied the rules it loaded.            *)
(***************************************************************************)
EnabledRulesRun ==
    Settled /\ ~fresh /\ ~imported => \A id \in Free(rules) : Live(id)

(***************************************************************************)
(* s.mu is left locked by a panicking stop() only while the server shuts   *)
(* down: nothing else calls stop() twice on one runner.                    *)
(***************************************************************************)
StuckOnlyInShutdown == phase = "stuck" => stopping

(***************************************************************************)
(* After any crash or shutdown, every enabled server-side rule in the      *)
(* file whose socket is free listens again, unless the panel, which        *)
(* answers before Run has applied the rules, takes it away first.          *)
(***************************************************************************)
RulesComeBack ==
    \A id \in Ids :
        (~up /\ id \in Free(disk.rules)) ~> (Live(id) \/ (up /\ id \notin Free(rules)))
=============================================================================
