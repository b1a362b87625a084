----------------------------- MODULE TcpForward -----------------------------
(***************************************************************************)
(* One running server-side TCP rule: acceptTCP, visitorAllowed and         *)
(* handleTCP of server/forward.go, with the blacklist the panel changes    *)
(* meanwhile (SetIPBlacklist and ImportConfig of server/state.go).         *)
(*                                                                         *)
(* The accept loop is one goroutine, every accepted visitor another.       *)
(* st.Conns is an atomic counter: adding to it and reading it are two      *)
(* steps.  s.blVer is atomic too and is read without s.mu, while           *)
(* s.cfg.IPBlacklist is only read and written under s.mu.                  *)
(***************************************************************************)
EXTENDS Integers, FiniteSets

CONSTANTS
    Visitors,   \* visitor connections
    Hosts,      \* their source addresses
    Loopback,   \* the ones in 127.0.0.0/8, ::1
    AllowFrom,  \* the sources the rule's allow_from admits
    Limit,      \* the rule's max_conns; 0 is no limit
    Blacklists, \* blacklists the panel may set
    Imported,   \* blacklists an import may bring
    NoVisitor,  \* the accept loop holds no connection
    MaxOps      \* bound: panel operations

ASSUME VisitorsAssumption == IsFiniteSet(Visitors) /\ NoVisitor \notin Visitors
ASSUME HostsAssumption ==
    /\ Loopback \subseteq Hosts /\ AllowFrom \subseteq Hosts
    /\ Blacklists \subseteq SUBSET Hosts /\ Imported \subseteq SUBSET Hosts
ASSUME LimitAssumption == Limit \in Nat /\ MaxOps \in Nat

VARIABLES
    mu,         \* s.mu held by a panel operation in the middle of Save
    cfgBl,      \* s.cfg.IPBlacklist
    oldBl,      \* what SetIPBlacklist puts back when Save fails
    blVer,      \* s.blVer
    inForce,    \* history: the blacklist of the last operation that returned
    lpc,        \* the accept loop: "load", "accept", "version", "reload",
                \* "decide", "stopped"
    bl, ver,    \* its compiled blacklist and the version it believes it has
    seen,       \* the version it has just read
    cand,       \* the connection it holds
    listening,  \* ln is open
    host,       \* source of each visitor
    listed,     \* history: visitors blacklisted since before they were accepted
    pc,         \* per visitor: "away", "queued", then the steps of handleTCP
    conns,      \* st.Conns
    ops

loopVars == <<lpc, bl, ver, seen, cand, listening>>
cfgVars == <<mu, cfgBl, oldBl, blVer, inForce, ops>>
vars == <<cfgVars, loopVars, host, listed, pc, conns>>

-----------------------------------------------------------------------------
Init ==
    /\ mu = FALSE /\ blVer = 0 /\ ops = 0
    /\ cfgBl \in Blacklists /\ oldBl = cfgBl /\ inForce = cfgBl
    /\ lpc = "load" /\ bl = {} /\ ver = 0 /\ seen = 0 /\ cand = NoVisitor
    /\ listening = TRUE
    /\ host \in [Visitors -> Hosts]
    /\ listed = {}
    /\ pc = [v \in Visitors |-> "away"]
    /\ conns = 0

(* SetIPBlacklist assigns the new list and calls Save under s.mu ...       *)
SetIPBlacklist(b) ==
    /\ ~mu /\ mu' = TRUE
    /\ ops < MaxOps /\ ops' = ops + 1
    /\ oldBl' = cfgBl /\ cfgBl' = b
    /\ UNCHANGED <<blVer, inForce, loopVars, host, listed, pc, conns>>

(* Mutant: the version is not raised.                                      *)
SavedNoBump ==
    /\ mu /\ mu' = FALSE
    /\ inForce' = cfgBl
    /\ listed' = {v \in listed : v # cand \/ host[v] \in cfgBl}
    /\ UNCHANGED <<cfgBl, oldBl, blVer, ops, loopVars, host, pc, conns>>

(* ... and then raises the version, still under s.mu ...                   *)
Saved ==
    /\ mu /\ mu' = FALSE
    /\ blVer' = blVer + 1
    /\ inForce' = cfgBl
    /\ listed' = {v \in listed : v # cand \/ host[v] \in cfgBl}
    /\ UNCHANGED <<cfgBl, oldBl, ops, loopVars, host, pc, conns>>

(* ... or, when Save fails, puts the old list back.                        *)
SaveFails ==
    /\ mu /\ mu' = FALSE
    /\ cfgBl' = oldBl
    /\ UNCHANGED <<oldBl, blVer, inForce, ops, loopVars, host, listed, pc, conns>>

(* ImportConfig replaces the list and does not raise the version.          *)
ImportConfig(b) ==
    /\ ~mu
    /\ ops < MaxOps /\ ops' = ops + 1
    /\ cfgBl' = b /\ inForce' = b
    /\ listed' = {v \in listed : v # cand \/ host[v] \in b}
    /\ UNCHANGED <<mu, oldBl, blVer, loopVars, host, pc, conns>>

-----------------------------------------------------------------------------
LoopFrame == UNCHANGED <<cfgVars, host, conns, listening>>

(* acceptTCP begins by compiling the blacklist, under s.mu.                *)
LoadBlacklist ==
    /\ lpc = "load" /\ ~mu
    /\ bl' = cfgBl /\ ver' = blVer /\ lpc' = "accept"
    /\ LoopFrame /\ UNCHANGED <<seen, cand, listed, pc>>

(* A visitor connects: the kernel queues it.                               *)
Arrive(v) ==
    /\ listening /\ pc[v] = "away"
    /\ pc' = [pc EXCEPT ![v] = "queued"]
    /\ LoopFrame /\ UNCHANGED <<lpc, bl, ver, seen, cand, listed>>

AcceptConn(v) ==
    /\ lpc = "accept" /\ listening /\ pc[v] = "queued"
    /\ cand' = v /\ lpc' = "version"
    /\ listed' = IF host[v] \in inForce \cap cfgBl THEN listed \cup {v} ELSE listed
    /\ LoopFrame /\ UNCHANGED <<bl, ver, seen, pc>>

(* The version is compared without s.mu ...                                *)
CheckVersion ==
    /\ lpc = "version"
    /\ seen' = blVer
    /\ lpc' = IF blVer # ver THEN "reload" ELSE "decide"
    /\ LoopFrame /\ UNCHANGED <<bl, ver, cand, listed, pc>>

(* ... and the list recompiled under it; the version recorded is the one   *)
(* read before the list.                                                   *)
Reload ==
    /\ lpc = "reload" /\ ~mu
    /\ bl' = cfgBl /\ ver' = seen /\ lpc' = "decide"
    /\ LoopFrame /\ UNCHANGED <<seen, cand, listed, pc>>

visitorAllowed(h) == (h \in Loopback \/ h \notin bl) /\ h \in AllowFrom

(* Mutant: a refused connection is not closed.                             *)
DecideNoClose ==
    /\ lpc = "decide"
    /\ pc' = IF visitorAllowed(host[cand]) THEN [pc EXCEPT ![cand] = "enter"] ELSE pc
    /\ lpc' = "accept" /\ cand' = NoVisitor
    /\ LoopFrame /\ UNCHANGED <<bl, ver, seen, listed>>

Decide ==
    /\ lpc = "decide"
    /\ pc' = [pc EXCEPT ![cand] = IF visitorAllowed(host[cand]) THEN "enter" ELSE "closed"]
    /\ lpc' = "accept" /\ cand' = NoVisitor
    /\ LoopFrame /\ UNCHANGED <<bl, ver, seen, listed>>

(* The runner's stop() closes the listener; connections in the kernel's    *)
(* queue are reset, those accepted go on.                                  *)
Stop ==
    /\ listening /\ listening' = FALSE
    /\ pc' = [v \in Visitors |-> IF pc[v] = "queued" /\ v # cand THEN "closed" ELSE pc[v]]
    /\ UNCHANGED <<cfgVars, lpc, bl, ver, seen, cand, host, listed, conns>>

AcceptFails ==
    /\ lpc = "accept" /\ ~listening
    /\ lpc' = "stopped"
    /\ LoopFrame /\ UNCHANGED <<bl, ver, seen, cand, listed, pc>>

-----------------------------------------------------------------------------
Goto(v, l) == pc' = [pc EXCEPT ![v] = l]
VisitorFrame == UNCHANGED <<cfgVars, loopVars, host, listed>>

(* handleTCP: count first ...                                              *)
Enter(v) ==
    /\ pc[v] = "enter"
    /\ conns' = conns + 1 /\ Goto(v, "check")
    /\ VisitorFrame

(* Mutant: the handler does not count itself.                              *)
CheckOffByOne(v) ==
    /\ pc[v] = "check"
    /\ Goto(v, IF Limit > 0 /\ conns - 1 > Limit THEN "reject" ELSE "dial")
    /\ VisitorFrame /\ UNCHANGED conns

(* ... then look ...                                                       *)
Check(v) ==
    /\ pc[v] = "check"
    /\ Goto(v, IF Limit > 0 /\ conns > Limit THEN "reject" ELSE "dial")
    /\ VisitorFrame /\ UNCHANGED conns

(* Mutant: a refused connection stays counted.                             *)
RejectKeepsCount(v) ==
    /\ pc[v] = "reject"
    /\ Goto(v, "closed")
    /\ VisitorFrame /\ UNCHANGED conns

Reject(v) ==
    /\ pc[v] = "reject"
    /\ conns' = conns - 1 /\ Goto(v, "closed")
    /\ VisitorFrame

(* ... then dial a target, or open a stream to the client: either may      *)
(* fail.  Pipe ends when either side does.                                 *)
Dial(v) ==
    /\ pc[v] = "dial"
    /\ Goto(v, "pipe") \/ Goto(v, "leave")
    /\ VisitorFrame /\ UNCHANGED conns

PipeEnds(v) ==
    /\ pc[v] = "pipe" /\ Goto(v, "leave")
    /\ VisitorFrame /\ UNCHANGED conns

(* The deferred calls.                                                     *)
Leave(v) ==
    /\ pc[v] = "leave"
    /\ conns' = conns - 1 /\ Goto(v, "closed")
    /\ VisitorFrame

Panel == \/ \E b \in Blacklists : SetIPBlacklist(b)
         \/ \E b \in Imported : ImportConfig(b)
         \/ Saved \/ SaveFails
Loop == \/ LoadBlacklist \/ CheckVersion \/ Reload \/ Decide \/ AcceptFails
        \/ \E v \in Visitors : AcceptConn(v)
Handle(v) == Enter(v) \/ Check(v) \/ Reject(v) \/ Dial(v) \/ Leave(v)

Next == Panel \/ Loop \/ Stop \/ \E v \in Visitors : Arrive(v) \/ Handle(v) \/ PipeEnds(v)

Spec == Init /\ [][Next]_vars

(* The accept loop and the handlers run on and the panel operation         *)
(* finishes; a connection may stay open as long as its ends like.          *)
FairSpec ==
    /\ Spec /\ WF_vars(Loop) /\ WF_vars(Saved \/ SaveFails)
    /\ \A v \in Visitors : WF_vars(Handle(v))

-----------------------------------------------------------------------------
(* The type of every variable.                                             *)
TypeOK ==
    /\ mu \in BOOLEAN /\ listening \in BOOLEAN
    /\ cfgBl \in SUBSET Hosts /\ oldBl \in SUBSET Hosts /\ inForce \in SUBSET Hosts
    /\ bl \in SUBSET Hosts
    /\ blVer \in Nat /\ ver \in Nat /\ seen \in Nat
    /\ lpc \in {"load", "accept", "version", "reload", "decide", "stopped"}
    /\ cand \in Visitors \cup {NoVisitor}
    /\ host \in [Visitors -> Hosts]
    /\ listed \in SUBSET Visitors
    /\ pc \in [Visitors -> {"away", "queued", "enter", "check", "reject", "dial", "pipe", "leave", "closed"}]
    /\ conns \in Nat
    /\ ops \in 0 .. MaxOps

Counted == {v \in Visitors : pc[v] \in {"check", "reject", "dial", "pipe", "leave"}}
Admitted == {v \in Visitors : pc[v] \in {"dial", "pipe", "leave"}}

(***************************************************************************)
(* st.Conns is the number of handlers between their Add(1) and Add(-1), on *)
(* every path out of handleTCP: the panel's count and the limit never      *)
(* drift.                                                                  *)
(***************************************************************************)
ConnsExact == conns = Cardinality(Counted)

(***************************************************************************)
(* max_conns is never exceeded, although a handler counts itself and looks *)
(* at the counter in two steps and many do so at once.                     *)
(***************************************************************************)
WithinLimit == Limit > 0 => Cardinality(Admitted) <= Limit

(***************************************************************************)
(* server/server.go: after a change of the blacklist the accept loops      *)
(* recompile it.  A visitor that was blacklisted by a finished operation   *)
(* before it was accepted, and still is when it is decided on, is refused. *)
(***************************************************************************)
BlacklistEnforced ==
    \A v \in listed \ {cand} : host[v] \notin Loopback => pc[v] \notin {"enter", "check", "reject", "dial", "pipe", "leave"}

(***************************************************************************)
(* A connection that was queued is decided on, even while the panel keeps  *)
(* s.mu for a save: it is refused, admitted or reset, not forgotten.       *)
(***************************************************************************)
QueuedAreDecided == \A v \in Visitors : pc[v] = "queued" ~> pc[v] # "queued"
=============================================================================
