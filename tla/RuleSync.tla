------------------------------ MODULE RuleSync ------------------------------
(***************************************************************************)
(* How the reverse rules of one client reach it: broadcastRules,           *)
(* pushRulesTo and setupControl of server/reverse.go on one side,          *)
(* handleStream, handleControl, apply, start, stopLocked and stopAll of    *)
(* client/client.go and client/reverse.go on the other, over the control   *)
(* stream of one smux session after another.                               *)
(*                                                                         *)
(* Every section between a Lock and an Unlock is a step.  Panel requests,  *)
(* each session's setupControl, the client's control loop and every        *)
(* "go m.start(r)" are processes of their own.  A session has two ends     *)
(* that learn of its death separately; an orderly FIFO stream per session  *)
(* carries the pushes, another the status reports.                         *)
(***************************************************************************)
EXTENDS Naturals, Sequences, FiniteSets

CONSTANTS
    Ids,        \* IDs of the client's reverse rules
    Specs,      \* records proto, listen, target, opts
    NoSpec,     \* no rule with this ID
    RuleSets,   \* the sets of enabled rules the panel may leave behind
    Header,     \* the StreamHeader frame with ID "__control__"
    Panels,     \* concurrent panel requests
    TakenPorts, \* <<proto, port>> held by other programs of the client host
    Timings,    \* values of prompt to look at
    MaxSess,    \* bound: sessions
    MaxChanges, \* bound: panel changes
    MaxStarts,  \* bound: start goroutines
    RacingSets, \* bounds for behaviours that are not prompt: rule sets
    MaxRacing   \* and start goroutines

RuleSet == [Ids -> Specs \cup {NoSpec}]
Sess == 1 .. MaxSess
Starts == 1 .. MaxStarts
Pushers == Panels \cup Sess
Protos == {"tcp", "udp"}
None == [id \in Ids |-> NoSpec]

ASSUME SpecsAssumption ==
    /\ \A r \in Specs : r.proto \in Protos /\ {"listen", "target", "opts"} \subseteq DOMAIN r
    /\ NoSpec \notin Specs
    /\ Header \notin RuleSet
    /\ RacingSets \subseteq RuleSets /\ RuleSets \subseteq RuleSet
    /\ IsFiniteSet(Ids)

ASSUME BoundsAssumption ==
    /\ MaxSess \in Nat /\ MaxChanges \in Nat
    /\ MaxStarts \in Nat /\ MaxRacing \in 0 .. MaxStarts
    /\ Timings \subseteq BOOLEAN
    /\ Panels \cap Sess = {}

VARIABLES
    prompt,     \* assumption: no two pushes overlap and no two sessions do
    want,       \* the client's enabled reverse rules in s.cfg
    changes,    \* counter for MaxChanges
    cur,        \* s.clients[name]: the registered session, 0 for none
    last,       \* sessions made so far
    srvClosed, cliClosed, \* sessions whose server / client end is closed
    push,       \* per pusher: program counter, session, rule snapshot
    cs,         \* sessions whose cc.cs is set
    chan,       \* control stream, server to client
    sent,       \* history: rule sets written to a session's control stream
    mgr,        \* client control handler: "wait" for a header, "control", "ended"
    mrules,     \* m.rules, per session
    lns,        \* m.tcpLns and m.udpConns: session, protocol, ID -> start, 0 for none
    starts,     \* the start goroutines, in the order they were spawned
    open,       \* the ones whose socket is open
    crossed,    \* history: <<session, ID>> whose start a stop overtook
    back,       \* control stream, client to server
    status      \* cc.status: "none", "ok" or "fail"

srvVars == <<prompt, want, changes, cur, last, srvClosed, cliClosed>>
pushVars == <<push, cs, sent>>
mgrVars == <<mgr, mrules, lns, starts, open, crossed>>
vars == <<srvVars, pushVars, chan, mgrVars, back, status>>

-----------------------------------------------------------------------------
(* apply restarts a listener only when one of these differs.               *)
Same(a, b) == a.proto = b.proto /\ a.listen = b.listen /\ a.target = b.target

(* A pusher between reading the rules and writing them, or, in             *)
(* setupControl, between publishing cc.cs and its first push.              *)
Window(p) == push[p].pc \in {"header", "write"} \/ (p \in Sess /\ push[p].pc = "snap")
Alone(p) == prompt => \A q \in Pushers \ {p} : ~Window(q)

(* start goroutines between their spawn and the last thing they record or  *)
(* report.                                                                 *)
Unfinished == {"bind", "reg", "announce", "failed", "forget"}

(* The rules in ids with a start of session s whose pc is in at.           *)
Overtaken(s, ids, at) ==
    {<<s, starts[g].id>> : g \in {h \in DOMAIN starts :
        starts[h].sess = s /\ starts[h].id \in ids /\ starts[h].pc \in at}}

(* No goroutine of the session will change its sockets by itself.          *)
AtRest(s) ==
    \A g \in DOMAIN starts : starts[g].sess = s =>
        starts[g].pc = "done" \/ (starts[g].pc = "run" /\ starts[g].spec.proto = "tcp")

-----------------------------------------------------------------------------
Offered == IF prompt THEN RuleSets ELSE RacingSets

Init ==
    /\ prompt \in Timings
    /\ want \in Offered
    /\ changes = 0 /\ cur = 0 /\ last = 0
    /\ srvClosed = {} /\ cliClosed = {}
    /\ push = [p \in Pushers |-> [pc |-> "idle", to |-> 0, rules |-> None]]
    /\ cs = {}
    /\ chan = [s \in Sess |-> <<>>]
    /\ sent = [s \in Sess |-> {}]
    /\ mgr = [s \in Sess |-> "wait"]
    /\ mrules = [s \in Sess |-> None]
    /\ lns = [s \in Sess |-> [k \in Protos \X Ids |-> 0]]
    /\ starts = <<>>
    /\ open = {} /\ crossed = {}
    /\ back = [s \in Sess |-> <<>>]
    /\ status = [s \in Sess |-> [id \in Ids |-> "none"]]

(* serveOnce and handleTunnel: a new session once the client has given up  *)
(* the old one.  The server closes the session it replaces and spawns      *)
(* setupControl.  If prompt, the back-off of at least a second is long     *)
(* enough for the old session's goroutines to end; a listener they leaked  *)
(* stays.                                                                  *)
Connect ==
    /\ last < MaxSess
    /\ 1 .. last \subseteq cliClosed
    /\ prompt => \A s \in 1 .. last : mgr[s] = "ended" /\ AtRest(s)
    /\ last' = last + 1
    /\ cur' = last + 1
    /\ srvClosed' = srvClosed \cup ({cur} \ {0})
    /\ push' = [push EXCEPT ![last + 1] = [pc |-> "start", to |-> last + 1, rules |-> None]]
    /\ UNCHANGED <<prompt, want, changes, cliClosed, cs, sent, chan, mgrVars, back, status>>

(* A session ends at one end: an error, the keep-alive timeout, a Close;   *)
(* the other end is told or times out.                                     *)
CliClose(s) ==
    /\ s \in 1 .. last /\ s \notin cliClosed
    /\ cliClosed' = cliClosed \cup {s}
    /\ UNCHANGED <<prompt, want, changes, cur, last, srvClosed, pushVars, chan, mgrVars, back, status>>

SrvClose(s) ==
    /\ s \in 1 .. last /\ s \notin srvClosed
    /\ srvClosed' = srvClosed \cup {s}
    /\ UNCHANGED <<prompt, want, changes, cur, last, cliClosed, pushVars, chan, mgrVars, back, status>>

(* handleTunnel's last section: only its own registration is removed.      *)
Deregister(s) ==
    /\ s \in srvClosed /\ cur = s
    /\ cur' = 0
    /\ UNCHANGED <<prompt, want, changes, last, srvClosed, cliClosed, pushVars, chan, mgrVars, back, status>>

-----------------------------------------------------------------------------
SetPush(p, pc, s, rs) == push' = [push EXCEPT ![p] = [pc |-> pc, to |-> s, rules |-> rs]]
PushFrame == UNCHANGED <<prompt, last, srvClosed, cliClosed, mgrVars, back, status>>

(* A panel operation changed the rules under s.mu and unlocked it.         *)
Change(p, rs) ==
    /\ push[p].pc = "idle" /\ changes < MaxChanges /\ rs # want
    /\ want' = rs /\ changes' = changes + 1
    /\ SetPush(p, "collect", 0, None)
    /\ PushFrame /\ UNCHANGED <<cur, cs, sent, chan>>

(* broadcastRules copies s.clients ...                                     *)
Collect(p) ==
    /\ p \in Panels /\ push[p].pc = "collect"
    /\ IF cur = 0 THEN SetPush(p, "idle", 0, None) ELSE SetPush(p, "snap", cur, None)
    /\ PushFrame /\ UNCHANGED <<want, changes, cur, cs, sent, chan>>

(* ... and pushRulesTo reads rules and cc.cs under s.mu.                   *)
Snap(p) ==
    /\ push[p].pc = "snap" /\ (p \in Panels => Alone(p))
    /\ IF push[p].to \in cs
       THEN SetPush(p, "write", push[p].to, want)
       ELSE SetPush(p, IF p \in Panels THEN "idle" ELSE "loop", push[p].to, None)
    /\ PushFrame /\ UNCHANGED <<want, changes, cur, cs, sent, chan>>

(* A frame written to the control stream of s: lost when either end of     *)
(* the stream is gone.                                                     *)
Deliver(s, frame) ==
    chan' = IF s \in srvClosed \/ mgr[s] = "ended" THEN chan
            ELSE [chan EXCEPT ![s] = Append(chan[s], frame)]

(* The write under cc.csmu.                                                *)
Write(p) ==
    /\ push[p].pc = "write"
    /\ Deliver(push[p].to, push[p].rules)
    /\ sent' = [sent EXCEPT ![push[p].to] = @ \cup {push[p].rules}]
    /\ SetPush(p, IF p \in Panels THEN "idle" ELSE "loop", push[p].to, None)
    /\ PushFrame /\ UNCHANGED <<want, changes, cur, cs>>

(* setupControl: OpenStream, then cc.cs = stream under s.mu ...            *)
SetupOpen(s) ==
    /\ push[s].pc = "start" /\ Alone(s)
    /\ IF s \in srvClosed
       THEN SetPush(s, "done", s, None) /\ UNCHANGED cs
       ELSE SetPush(s, "header", s, None) /\ cs' = cs \cup {s}
    /\ PushFrame /\ UNCHANGED <<want, changes, cur, sent, chan>>

(* Mutant: no rules are pushed until the first change.                     *)
SetupHeaderNoPush(s) ==
    /\ push[s].pc = "header"
    /\ Deliver(s, Header)
    /\ IF s \in srvClosed
       THEN SetPush(s, "done", s, None) /\ cs' = cs \ {s}
       ELSE SetPush(s, "loop", s, None) /\ UNCHANGED cs
    /\ PushFrame /\ UNCHANGED <<want, changes, cur, sent>>

(* ... then the stream header, without cc.csmu ...                         *)
SetupHeader(s) ==
    /\ push[s].pc = "header"
    /\ Deliver(s, Header)
    /\ IF s \in srvClosed
       THEN SetPush(s, "done", s, None) /\ cs' = cs \ {s}
       ELSE SetPush(s, "snap", s, None) /\ UNCHANGED cs
    /\ PushFrame /\ UNCHANGED <<want, changes, cur, sent>>

(* ... then, after the first push, the loop that reads status frames ...   *)
SetupStatus(s) ==
    /\ push[s].pc = "loop" /\ back[s] # <<>>
    /\ status' = [status EXCEPT ![s][Head(back[s]).id] = Head(back[s]).st]
    /\ back' = [back EXCEPT ![s] = Tail(@)]
    /\ UNCHANGED <<srvVars, pushVars, chan, mgrVars>>

(* ... until the stream ends; cc.cs is then cleared and what is left in    *)
(* the stream is lost.                                                     *)
SetupEnd(s) ==
    /\ push[s].pc = "loop" /\ (s \in srvClosed \/ mgr[s] = "ended")
    /\ SetPush(s, "done", s, None)
    /\ cs' = cs \ {s}
    /\ sent' = [sent EXCEPT ![s] = {}] /\ back' = [back EXCEPT ![s] = <<>>]
    /\ UNCHANGED <<srvVars, chan, mgrVars, status>>

-----------------------------------------------------------------------------
MgrFrame == UNCHANGED <<srvVars, pushVars, status>>

(* handleStream on the stream's first frame.  A RulePush decodes as a      *)
(* header with empty ID and target: the dial fails and the stream is       *)
(* closed.                                                                 *)
ReadHeader(s) ==
    /\ mgr[s] = "wait" /\ chan[s] # <<>>
    /\ IF Head(chan[s]) = Header
       THEN mgr' = [mgr EXCEPT ![s] = "control"] /\ chan' = [chan EXCEPT ![s] = Tail(@)]
       ELSE mgr' = [mgr EXCEPT ![s] = "ended"] /\ chan' = [chan EXCEPT ![s] = <<>>]
    /\ MgrFrame /\ UNCHANGED <<mrules, lns, starts, open, crossed, back>>

(* Mutant: only TCP listeners are closed.                                  *)
StoppedTcpOnly(s, ids) == {lns[s][k] : k \in {"tcp"} \X ids}

(* Mutant: the closed listeners stay in the maps.                          *)
UnregisterNothing(s, ids) == lns[s]

(* stopLocked for the rules in ids: their registered sockets are closed    *)
(* and every entry is removed.                                             *)
Stopped(s, ids) == {lns[s][k] : k \in Protos \X ids}
Unregister(s, ids) == [k \in Protos \X Ids |-> IF k[2] \in ids THEN 0 ELSE lns[s][k]]

(* The start goroutines for the rules in ids; the order in which they are  *)
(* numbered does not matter.                                               *)
Spawned(s, ids, rs) ==
    LET order == CHOOSE q \in [1 .. Cardinality(ids) -> ids] : \A i, j \in DOMAIN q : i # j => q[i] # q[j]
    IN [i \in DOMAIN order |-> [sess |-> s, id |-> order[i], spec |-> rs[order[i]], pc |-> "bind"]]

(* Mutant: a changed rule is not restarted.                                *)
ApplyPushNoRestart(s) ==
    /\ mgr[s] = "control" /\ chan[s] # <<>>
    /\ LET rs   == Head(chan[s])
           gone == {id \in Ids : mrules[s][id] # NoSpec /\ rs[id] = NoSpec}
           new  == {id \in Ids : rs[id] # NoSpec /\ mrules[s][id] = NoSpec}
       IN /\ Len(starts) + Cardinality(new) <= IF prompt THEN MaxStarts ELSE MaxRacing
          /\ open' = open \ Stopped(s, gone)
          /\ lns' = [lns EXCEPT ![s] = Unregister(s, gone)]
          /\ mrules' = [mrules EXCEPT ![s] = [id \in Ids |-> IF id \in new THEN rs[id]
                                              ELSE IF id \in gone THEN NoSpec ELSE @[id]]]
          /\ starts' = starts \o Spawned(s, new, rs)
          /\ crossed' = crossed \cup Overtaken(s, gone, Unfinished)
    /\ chan' = [chan EXCEPT ![s] = Tail(@)]
    /\ MgrFrame /\ UNCHANGED <<mgr, back>>

(* handleControl reads a push and apply diffs it: a listener whose rule    *)
(* is gone or different is stopped, then every rule not in m.rules is      *)
(* recorded and started, whatever earlier starts are still doing.          *)
ApplyPush(s) ==
    /\ mgr[s] = "control" /\ chan[s] # <<>>
    /\ LET rs   == Head(chan[s])
           gone == {id \in Ids : mrules[s][id] # NoSpec /\ (rs[id] = NoSpec \/ ~Same(rs[id], mrules[s][id]))}
           new  == {id \in Ids : rs[id] # NoSpec /\ (mrules[s][id] = NoSpec \/ id \in gone)}
       IN /\ Len(starts) + Cardinality(new) <= IF prompt THEN MaxStarts ELSE MaxRacing
          /\ open' = open \ Stopped(s, gone)
          /\ lns' = [lns EXCEPT ![s] = Unregister(s, gone)]
          /\ mrules' = [mrules EXCEPT ![s] = [id \in Ids |-> IF id \in new THEN rs[id]
                                              ELSE IF id \in gone THEN NoSpec ELSE @[id]]]
          /\ starts' = starts \o Spawned(s, new, rs)
          /\ crossed' = crossed \cup Overtaken(s, gone, Unfinished)
    /\ chan' = [chan EXCEPT ![s] = Tail(@)]
    /\ MgrFrame /\ UNCHANGED <<mgr, back>>

(* Mutant: the handler returns without stopAll.                            *)
ControlEndNoStop(s) ==
    /\ s \in cliClosed /\ mgr[s] # "ended"
    /\ mgr' = [mgr EXCEPT ![s] = "ended"]
    /\ chan' = [chan EXCEPT ![s] = <<>>]
    /\ MgrFrame /\ UNCHANGED <<mrules, lns, starts, open, crossed, back>>

(* The control stream ends with the session; frames not yet read may be    *)
(* lost.  stopAll stops every rule in m.rules; a start that has not yet    *)
(* registered its listener is neither waited for nor told.                 *)
ControlEnd(s) ==
    /\ s \in cliClosed /\ mgr[s] # "ended"
    /\ LET all == {id \in Ids : mrules[s][id] # NoSpec}
       IN /\ open' = open \ Stopped(s, all)
          /\ lns' = [lns EXCEPT ![s] = Unregister(s, all)]
          /\ crossed' = crossed \cup Overtaken(s, all, {"bind", "reg"})
    /\ mrules' = [mrules EXCEPT ![s] = None]
    /\ mgr' = [mgr EXCEPT ![s] = "ended"]
    /\ chan' = [chan EXCEPT ![s] = <<>>]
    /\ MgrFrame /\ UNCHANGED <<starts, back>>

-----------------------------------------------------------------------------
Key(g) == <<starts[g].spec.proto, starts[g].id>>
Socket(r) == <<r.proto, r.listen>>
CanBind(r) ==
    /\ Socket(r) \notin TakenPorts
    /\ \A h \in open : Socket(starts[h].spec) # Socket(r)
Goto(g, pc) == starts' = [starts EXCEPT ![g].pc = pc]
At(g, pc) == g \in DOMAIN starts /\ starts[g].pc = pc
StartFrame == UNCHANGED <<srvVars, pushVars, chan, mgr, crossed, status>>

(* start: net.Listen or net.ListenUDP ...                                  *)
Bind(g) ==
    /\ At(g, "bind")
    /\ IF CanBind(starts[g].spec)
       THEN open' = open \cup {g} /\ Goto(g, "reg")
       ELSE Goto(g, "failed") /\ UNCHANGED open
    /\ StartFrame /\ UNCHANGED <<mrules, lns, back>>

(* ... the socket goes into the session's map, over what is there ...      *)
Register(g) ==
    /\ At(g, "reg")
    /\ lns' = [lns EXCEPT ![starts[g].sess][Key(g)] = g]
    /\ Goto(g, "announce")
    /\ StartFrame /\ UNCHANGED <<mrules, open, back>>

(* ... report writes the outcome to the control stream, if there is one ... *)
Report(g) ==
    LET s  == starts[g].sess
        ok == starts[g].pc = "announce"
    IN /\ At(g, "announce") \/ At(g, "failed")
       /\ back' = IF mgr[s] = "control" /\ push[s].pc # "done"
                  THEN [back EXCEPT ![s] = Append(@, [id |-> starts[g].id, st |-> IF ok THEN "ok" ELSE "fail"])]
                  ELSE back
       /\ Goto(g, IF ~ok THEN "forget" ELSE IF starts[g].spec.proto = "tcp" THEN "run" ELSE "relay")
       /\ StartFrame /\ UNCHANGED <<mrules, lns, open>>

(* ... and a failed rule leaves m.rules, so that the next push retries it. *)
Forget(g) ==
    /\ At(g, "forget")
    /\ mrules' = [mrules EXCEPT ![starts[g].sess][starts[g].id] = NoSpec]
    /\ Goto(g, "done")
    /\ StartFrame /\ UNCHANGED <<lns, open, back>>

(* udpRelay opens its stream; when the session is gone it returns and      *)
(* leaves the socket as it is.                                             *)
RelayOpen(g) ==
    /\ At(g, "relay")
    /\ Goto(g, IF starts[g].sess \in cliClosed THEN "done" ELSE "run")
    /\ StartFrame /\ UNCHANGED <<mrules, lns, open, back>>

(* Its reader closes the socket when the stream ends with the session ...  *)
RelayEnd(g) ==
    /\ At(g, "run") /\ starts[g].spec.proto = "udp" /\ starts[g].sess \in cliClosed
    /\ open' = open \ {g}
    /\ Goto(g, "done")
    /\ StartFrame /\ UNCHANGED <<mrules, lns, back>>

(* ... or before it, when the server gives the stream up: its header came  *)
(* after the deadline, or the rule's targets are separators only.          *)
StreamRefused(g) ==
    /\ At(g, "run") /\ starts[g].spec.proto = "udp" /\ starts[g].sess \notin cliClosed
    /\ open' = open \ {g}
    /\ Goto(g, "done")
    /\ StartFrame /\ UNCHANGED <<mrules, lns, back>>

-----------------------------------------------------------------------------
Server(s) == Deregister(s) \/ SetupOpen(s) \/ SetupHeader(s) \/ SetupStatus(s) \/ SetupEnd(s)
Pusher(p) == Collect(p) \/ Snap(p) \/ Write(p)
Client(s) == ReadHeader(s) \/ ApplyPush(s) \/ ControlEnd(s)
Proceed(g) == Bind(g) \/ Register(g) \/ Report(g) \/ Forget(g) \/ RelayOpen(g) \/ RelayEnd(g)
Start(g) == Proceed(g) \/ StreamRefused(g)

Next ==
    \/ Connect
    \/ \E s \in Sess : CliClose(s) \/ SrvClose(s) \/ Server(s) \/ Client(s)
    \/ \E p \in Panels, rs \in Offered : Change(p, rs)
    \/ \E p \in Pushers : Pusher(p)
    \/ \E g \in Starts : Start(g)

Spec == Init /\ [][Next]_vars

(* Some goroutine that can run does: less than what the scheduler gives.   *)
(* A closed end is noticed at the other end (keep-alive), and the client   *)
(* reconnects for ever (Client.Run).  No fairness for the panel, for a     *)
(* session's death or for a refused stream.                                *)
Progress ==
    \/ Connect
    \/ \E s \in Sess : Server(s) \/ Client(s)
    \/ \E s \in srvClosed : CliClose(s)
    \/ \E s \in cliClosed : SrvClose(s)
    \/ \E p \in Pushers : Pusher(p)
    \/ \E g \in Starts : Proceed(g)

FairSpec == Spec /\ WF_vars(Progress)

-----------------------------------------------------------------------------
(* The type of every variable.                                             *)
TypeOK ==
    /\ prompt \in BOOLEAN /\ want \in RuleSet
    /\ changes \in 0 .. MaxChanges
    /\ cur \in 0 .. last /\ last \in 0 .. MaxSess
    /\ srvClosed \subseteq 1 .. last /\ cliClosed \subseteq 1 .. last
    /\ push \in [Pushers -> [pc : {"idle", "collect", "start", "header", "snap", "write", "loop", "done"},
                             to : 0 .. MaxSess, rules : RuleSet]]
    /\ cs \subseteq 1 .. last
    /\ chan \in [Sess -> Seq(RuleSet \cup {Header})]
    /\ sent \in [Sess -> SUBSET RuleSet]
    /\ mgr \in [Sess -> {"wait", "control", "ended"}]
    /\ mrules \in [Sess -> RuleSet]
    /\ lns \in [Sess -> [Protos \X Ids -> 0 .. Len(starts)]]
    /\ back \in [Sess -> Seq([id : Ids, st : {"ok", "fail"}])]
    /\ status \in [Sess -> [Ids -> {"none", "ok", "fail"}]]
    /\ starts \in Seq([sess : Sess, id : Ids, spec : Specs,
                       pc : {"bind", "reg", "announce", "failed", "forget", "relay", "run", "done"}])
    /\ open \subseteq DOMAIN starts
    /\ crossed \subseteq Sess \X Ids

Pushing == \E p \in Pushers : push[p].pc \notin {"idle", "loop", "done"}

(***************************************************************************)
(* No update is lost between broadcastRules and setupControl: when no push *)
(* is under way, the rules in force were written to the control stream of  *)
(* the registered session at some time, whatever the order of change,      *)
(* registration, cc.cs = stream and the two snapshots.                     *)
(***************************************************************************)
NoPushMissed ==
    ~Pushing /\ cur \in cs => want \in sent[cur]

(***************************************************************************)
(* A registered TCP listener is open and belongs to the rule and session   *)
(* it is registered for: stopLocked never meets a stranger's socket, and   *)
(* a rule whose listener is registered is listening.                       *)
(***************************************************************************)
RegisteredIsOpen ==
    \A s \in Sess, id \in Ids :
        LET g == lns[s][<<"tcp", id>>]
        IN g # 0 => g \in open /\ starts[g].sess = s /\ starts[g].id = id /\ starts[g].spec.proto = "tcp"

(***************************************************************************)
(* docs/04:87: reverse listeners are tied to the session.  A listener that *)
(* is open after its session's stopAll is one whose start a stop overtook  *)
(* (client/reverse.go:153); every other one is closed, whatever pushes,    *)
(* failed starts and ends of sessions came in between.                     *)
(***************************************************************************)
SessionEndCleans ==
    \A s \in Sess : mgr[s] = "ended" =>
        \A g \in open : starts[g].sess = s => <<s, starts[g].id>> \in crossed

(***************************************************************************)
(* docs/04: a rule that is gone is stopped, a changed one restarted.  An   *)
(* open socket whose start is through is registered for a rule that        *)
(* m.rules holds with the same protocol, port and target, unless a stop of *)
(* the rule overtook a start of it.                                        *)
(***************************************************************************)
OpenIsManaged ==
    \A g \in open :
        LET s == starts[g].sess IN
        starts[g].pc # "reg" /\ mgr[s] # "ended" /\ <<s, starts[g].id>> \notin crossed =>
            /\ lns[s][Key(g)] = g
            /\ mrules[s][starts[g].id] # NoSpec /\ Same(mrules[s][starts[g].id], starts[g].spec)

(***************************************************************************)
(* The client's maps and its open listeners agree: what is registered is   *)
(* open in every interleaving of pushes, starts and ends; what is open is  *)
(* registered and wanted as long as no stop overtook a start of its rule.  *)
(***************************************************************************)
ListenersAgree == RegisteredIsOpen /\ OpenIsManaged

Listening(id) == \E g \in open : starts[g].sess = cur /\ starts[g].id = id /\ Same(starts[g].spec, want[id])

(* The stream of the rule's UDP relay was refused: nothing says so, and    *)
(* nothing starts the rule again.                                          *)
Refused(id) ==
    \E g \in DOMAIN starts : starts[g].sess = cur /\ starts[g].id = id /\ starts[g].pc = "done"
                              /\ starts[g].spec.proto = "udp" /\ Same(starts[g].spec, want[id])

(* The client of a living session listens on the rules in force and on     *)
(* nothing else, and the panel shows each rule's state.                    *)
Converged ==
    cur # 0 /\ cur \notin srvClosed \cup cliClosed =>
        /\ \A g \in open : starts[g].sess = cur /\ want[starts[g].id] # NoSpec
        /\ \A id \in Ids : want[id] # NoSpec =>
            IF Socket(want[id]) \in TakenPorts
            THEN status[cur][id] = "fail" /\ ~Listening(id)
            ELSE status[cur][id] = "ok" /\ (Listening(id) \/ Refused(id))

(***************************************************************************)
(* docs/03: changes reach the client without a restart, a client that was  *)
(* offline gets its rules when it is back, and the outcome of every        *)
(* listen is shown: the client converges to the rules in force, unless a   *)
(* stop overtook a start.                                                  *)
(***************************************************************************)
Converges == prompt => <>[](crossed = {} => Converged)
=============================================================================
