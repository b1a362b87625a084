---------------------------- MODULE TunnelProofs ----------------------------
(***************************************************************************)
(* Proofs about the two ends of a tunnel session.  The server's end is     *)
(* Tunnel, for any number of clients, sources and connections: s.clients   *)
(* and the live sessions agree, an authentication lock is never shortened, *)
(* and the removal of a client leaves no session of it online.  The other  *)
(* is Client, for any timeouts, limits and numbers of connections: it is   *)
(* back in time, every session gets its proxy, and visitors are counted    *)
(* exactly.                                                                *)
(***************************************************************************)
EXTENDS Tunnel, Client, FiniteSetTheorems, TLAPS

(* A record made or kept by recordAuthFail is a record.                    *)
LEMMA FailedTyped ==
    ASSUME NEW f \in FailRecord \cup {NoFail}, now \in 0 .. MaxTime
    PROVE  Failed(f) \in FailRecord
<1> USE TunnelAssumption
<1>1. CASE f = NoFail
  BY <1>1 DEF Failed, FailRecord
<1>2. CASE f # NoFail
  BY <1>2 DEF Failed, FailRecord
<1> QED BY <1>1, <1>2

(***************************************************************************)
(* Every variable keeps its type: counters and lock times of a record stay *)
(* in their ranges, s.clients holds connections or nothing.                *)
(***************************************************************************)
THEOREM TunnelTypeCorrect == Spec => []TypeOK
<1>1. Init => TypeOK
  BY TunnelAssumption DEF Init, TypeOK, Users
<1>2. TypeOK /\ [Next]_vars => TypeOK'
  <2> SUFFICES ASSUME TypeOK, [Next]_vars PROVE TypeOK'
    OBVIOUS
  <2> USE TunnelAssumption DEF TypeOK
  <2>1. ASSUME NEW c \in Conns, Accept(c) PROVE TypeOK'
    <3>1. sweepAuthFails \in [Hosts -> FailRecord \cup {NoFail}]
      BY DEF sweepAuthFails
    <3> QED BY <2>1, <3>1 DEF Accept, Goto, Fixed
  <2>2. ASSUME NEW c \in Conns, ReadFails(c) \/ authToken(c) \/ Reply(c) PROVE TypeOK'
    BY <2>2 DEF ReadFails, authToken, Reply, Goto, Fixed
  <2>3. ASSUME NEW c \in Conns, NEW t \in Tokens, ReadAuth(c, t) PROVE TypeOK'
    BY <2>3 DEF ReadAuth, Goto, Fixed
  <2>4. ASSUME NEW c \in Conns, recordAuthFail(c) PROVE TypeOK'
    <3>1. Failed(authFails[host[c]]) \in FailRecord
      BY FailedTyped
    <3> QED BY <2>4, <3>1 DEF recordAuthFail, Goto, Fixed
  <2>5. ASSUME NEW c \in Conns, ClearFails(c) PROVE TypeOK'
    BY <2>5 DEF ClearFails, Goto, Fixed
  <2>6. ASSUME NEW c \in Conns, Register(c) PROVE TypeOK'
    BY <2>6 DEF Register, Goto, Fixed
  <2>7. ASSUME NEW c \in Conns, Drop(c) \/ Cleanup(c) PROVE TypeOK'
    BY <2>7 DEF Drop, Cleanup, Goto, Fixed
  <2>8. ASSUME NEW n \in Names, NEW t \in Tokens, AddClient(n, t) PROVE TypeOK'
    BY <2>8 DEF AddClient, Panel, Steady, Users
  <2>9. ASSUME NEW n \in Names, DeleteClient(n) PROVE TypeOK'
    BY <2>9 DEF DeleteClient, Panel, Kick, Steady, Users
  <2>10. ASSUME NEW us \in Imports, ImportConfig(us) PROVE TypeOK'
    <3>1. us \in Users
      OBVIOUS
    <3>2. {us[n] : n \in Names} \ {NoToken} \in SUBSET Tokens
      BY <3>1 DEF Users
    <3>3. closed' \in SUBSET Conns
      BY <2>10 DEF ImportConfig, Kick
    <3> QED BY <2>10, <3>1, <3>2, <3>3 DEF ImportConfig, Panel, Steady
  <2>11. ASSUME NEW b \in Blacklists, SetIPBlacklist(b) PROVE TypeOK'
    BY <2>11 DEF SetIPBlacklist, Panel, Steady
  <2>12. CASE Tick \/ UNCHANGED vars
    BY <2>12 DEF Tick, vars
  <2> QED
    BY <2>1, <2>2, <2>3, <2>4, <2>5, <2>6, <2>7, <2>8, <2>9, <2>10, <2>11, <2>12 DEF Next, Handle
<1> QED BY <1>1, <1>2, PTL DEF Spec

-----------------------------------------------------------------------------
(* The two directions of the agreement support each other: a session that  *)
(* registers closes the one it replaces, and that one's late cleanup finds *)
(* an entry that is not its own.                                           *)

(* A step that leaves s.clients alone, moves no connection into or out of  *)
(* "live" and reopens no session keeps the agreement.                      *)
LEMMA RegistryKept ==
    ASSUME TypeOK, RegistryAgrees, clients' = clients, closed \subseteq closed',
           \A c \in Conns : pc'[c] = "live" <=> pc[c] = "live",
           \A c \in Conns : pc[c] = "live" => name'[c] = name[c]
    PROVE  RegistryAgrees'
<1>1. LiveIsRegistered'
  BY DEF RegistryAgrees, LiveIsRegistered, Online
<1>2. RegisteredIsLive'
  BY DEF RegistryAgrees, RegisteredIsLive, TypeOK
<1> QED BY <1>1, <1>2 DEF RegistryAgrees

(***************************************************************************)
(* s.clients and the live sessions agree, however registrations, kicks and *)
(* late cleanups of sessions with one name interleave.                     *)
(***************************************************************************)
THEOREM TunnelRegistryAgrees == Spec => []RegistryAgrees
<1>1. Init => RegistryAgrees
  BY DEF Init, RegistryAgrees, LiveIsRegistered, RegisteredIsLive, Online
<1>2. TypeOK /\ RegistryAgrees /\ [Next]_vars => RegistryAgrees'
  <2> SUFFICES ASSUME TypeOK, RegistryAgrees, [Next]_vars PROVE RegistryAgrees'
    OBVIOUS
  <2>1. ASSUME NEW c \in Conns,
               Accept(c) \/ ReadFails(c) \/ authToken(c) \/ recordAuthFail(c) \/ ClearFails(c) \/ Reply(c)
        PROVE  RegistryAgrees'
    BY <2>1, RegistryKept
       DEF Accept, ReadFails, authToken, recordAuthFail, ClearFails, Reply, Goto, TypeOK
  <2>2. ASSUME NEW c \in Conns, NEW t \in Tokens, ReadAuth(c, t) PROVE RegistryAgrees'
    BY <2>2, RegistryKept DEF ReadAuth, Goto, TypeOK
  <2>3. ASSUME NEW c \in Conns, Register(c) PROVE RegistryAgrees'
    <3>1. LiveIsRegistered'
      BY <2>3, TunnelAssumption DEF Register, Goto, RegistryAgrees, LiveIsRegistered, Online, TypeOK
    <3>2. RegisteredIsLive'
      BY <2>3 DEF Register, Goto, RegistryAgrees, RegisteredIsLive, TypeOK
    <3> QED BY <3>1, <3>2 DEF RegistryAgrees
  <2>4. ASSUME NEW c \in Conns, Drop(c) PROVE RegistryAgrees'
    BY <2>4, RegistryKept DEF Drop
  <2>5. ASSUME NEW c \in Conns, Cleanup(c) PROVE RegistryAgrees'
    <3>1. LiveIsRegistered'
      BY <2>5 DEF Cleanup, Goto, RegistryAgrees, LiveIsRegistered, Online, TypeOK
    <3>2. RegisteredIsLive'
      BY <2>5 DEF Cleanup, Goto, RegistryAgrees, RegisteredIsLive, TypeOK
    <3> QED BY <3>1, <3>2 DEF RegistryAgrees
  <2>6. ASSUME NEW n \in Names, NEW t \in Tokens, AddClient(n, t) PROVE RegistryAgrees'
    BY <2>6, RegistryKept DEF AddClient, Steady
  <2>7. ASSUME NEW n \in Names, DeleteClient(n) PROVE RegistryAgrees'
    BY <2>7, RegistryKept DEF DeleteClient, Kick, Steady
  <2>8. ASSUME NEW us \in Imports, ImportConfig(us) PROVE RegistryAgrees'
    BY <2>8, RegistryKept DEF ImportConfig, Kick, Steady
  <2>9. ASSUME NEW b \in Blacklists, SetIPBlacklist(b) PROVE RegistryAgrees'
    BY <2>9, RegistryKept DEF SetIPBlacklist, Steady
  <2>10. CASE Tick \/ UNCHANGED vars
    BY <2>10, RegistryKept DEF Tick, vars
  <2> QED
    BY <2>1, <2>2, <2>3, <2>4, <2>5, <2>6, <2>7, <2>8, <2>9, <2>10 DEF Next, Handle
<1> QED BY <1>1, <1>2, TunnelTypeCorrect, PTL DEF Spec

-----------------------------------------------------------------------------
(* No lock reaches further than BlockFor ahead, so that a later failure,   *)
(* which locks until now + BlockFor, cannot shorten one.                   *)
LocksShort == \A h \in Hosts : authFails[h] # NoFail => authFails[h].until <= now + BlockFor

(* What one step does to the records: they stay, or the sweep drops one    *)
(* whose lock is over, or a failure or a good token changes one source's.  *)
RecordStep ==
    \/ authFails' = authFails
    \/ authFails' = sweepAuthFails
    \/ \E c \in Conns : authFails' = [authFails EXCEPT ![host[c]] = Failed(authFails[host[c]])]
    \/ \E c \in Conns : /\ authFails' = [authFails EXCEPT ![host[c]] = NoFail]
                         /\ pc[c] = "clear" /\ pc'[c] = "reply"

(* Every step does one of these, and the clock does not run backwards.     *)
LEMMA RecordSteps ==
    ASSUME TypeOK, [Next]_vars
    PROVE  RecordStep /\ (now' = now \/ (now' = now + 1 /\ authFails' = authFails))
<1>1. CASE \/ \E n \in Names, t \in Tokens : AddClient(n, t)
           \/ \E n \in Names : DeleteClient(n)
           \/ \E us \in Imports : ImportConfig(us)
           \/ \E b \in Blacklists : SetIPBlacklist(b)
  BY <1>1 DEF AddClient, DeleteClient, ImportConfig, SetIPBlacklist, Steady, RecordStep
<1>2. CASE Tick \/ UNCHANGED vars
  BY <1>2 DEF Tick, vars, RecordStep
<1>3. CASE \E c \in Conns : Handle(c) \/ Drop(c) \/ Cleanup(c)
  <2> PICK c \in Conns : Handle(c) \/ Drop(c) \/ Cleanup(c)
    BY <1>3
  <2>1. CASE Accept(c)
    BY <2>1 DEF Accept, Fixed, RecordStep
  <2>2. CASE recordAuthFail(c)
    <3>1. authFails' = [authFails EXCEPT ![host[c]] = Failed(authFails[host[c]])] /\ now' = now
      BY <2>2 DEF recordAuthFail, Fixed, TypeOK
    <3> QED BY <3>1, Zenon DEF RecordStep
  <2>3. CASE ClearFails(c)
    BY <2>3 DEF ClearFails, Goto, Fixed, RecordStep, TypeOK
  <2>4. CASE \/ ReadFails(c) \/ authToken(c) \/ Reply(c) \/ Register(c) \/ Drop(c) \/ Cleanup(c)
             \/ \E t \in Tokens : ReadAuth(c, t)
    BY <2>4 DEF ReadFails, authToken, Reply, Register, Drop, Cleanup, ReadAuth, Fixed, RecordStep
  <2> QED BY <2>1, <2>2, <2>3, <2>4 DEF Handle
<1> QED BY <1>1, <1>2, <1>3 DEF Next

(***************************************************************************)
(* A lock lasts: no step of any connection, the sweep, failures of         *)
(* connections accepted before the lock, shortens it; only a valid token   *)
(* from the same source lifts it.                                          *)
(***************************************************************************)
THEOREM TunnelLocksLast == Spec => LocksLast
<1> USE TunnelAssumption
<1>1. Init => LocksShort
  BY DEF Init, LocksShort
<1>2. TypeOK /\ LocksShort /\ [Next]_vars => LocksShort'
  <2> SUFFICES ASSUME TypeOK, LocksShort, [Next]_vars, NEW h \in Hosts, authFails'[h] # NoFail
               PROVE  authFails'[h].until <= now' + BlockFor
    BY DEF LocksShort
  <2>1. RecordStep /\ (now' = now \/ (now' = now + 1 /\ authFails' = authFails))
    BY RecordSteps
  <2>2. authFails[h] # NoFail => authFails[h].until \in Nat /\ authFails[h].until <= now + BlockFor
    BY DEF TypeOK, FailRecord, LocksShort
  <2>3. Failed(authFails[h]).until <= now + BlockFor
    BY <2>2 DEF Failed, TypeOK
  <2>4. authFails'[h] = authFails[h] \/ authFails'[h] = Failed(authFails[h])
    <3>1. sweepAuthFails[h] \in {authFails[h], NoFail}
      BY DEF sweepAuthFails
    <3> QED BY <2>1, <3>1 DEF RecordStep, TypeOK
  <2> QED BY <2>1, <2>2, <2>3, <2>4 DEF TypeOK
<1>3. TypeOK /\ LocksShort /\ [Next]_vars =>
        [\A h \in Hosts : Locked(h) =>
            \/ authFails'[h] # NoFail /\ authFails'[h].until >= authFails[h].until
            \/ \E c \in Conns : host[c] = h /\ pc[c] = "clear" /\ pc'[c] = "reply"]_vars
  <2> SUFFICES ASSUME TypeOK, LocksShort, [Next]_vars, NEW h \in Hosts, Locked(h),
                      ~ \E c \in Conns : host[c] = h /\ pc[c] = "clear" /\ pc'[c] = "reply"
               PROVE  authFails'[h] # NoFail /\ authFails'[h].until >= authFails[h].until
    OBVIOUS
  <2>1. RecordStep
    BY RecordSteps
  <2>2. authFails[h] \in FailRecord /\ now < authFails[h].until /\ authFails[h].until <= now + BlockFor
    BY DEF Locked, TypeOK, LocksShort
  <2>3. Failed(authFails[h]) \in FailRecord /\ Failed(authFails[h]).until >= authFails[h].until
    <3>1. Failed(authFails[h]) \in FailRecord
      BY FailedTyped DEF TypeOK
    <3> QED BY <2>2, <3>1 DEF Failed, FailRecord, TypeOK
  <2>4. sweepAuthFails[h] = authFails[h]
    BY <2>2 DEF sweepAuthFails, FailRecord, TypeOK
  <2>5. authFails'[h] = authFails[h] \/ authFails'[h] = Failed(authFails[h])
    BY <2>1, <2>4 DEF RecordStep, TypeOK
  <2> QED BY <2>2, <2>3, <2>5 DEF FailRecord
<1> QED BY <1>1, <1>2, <1>3, TunnelTypeCorrect, PTL DEF Spec, LocksLast

-----------------------------------------------------------------------------
(***************************************************************************)
(* DeleteClient and ImportConfig leave no session of a removed client      *)
(* online: they close the session s.clients holds for the name, and there  *)
(* is no other live one.                                                   *)
(***************************************************************************)
THEOREM TunnelRemovalKicks == Spec => RemovalKicks
<1> USE TunnelAssumption
<1>1. TypeOK /\ LiveIsRegistered /\ [Next]_vars =>
        [\A c \in Conns :
            Online(c)' /\ users'[name'[c]] = NoToken => users[name'[c]] = NoToken]_vars
  <2> SUFFICES ASSUME TypeOK, LiveIsRegistered, [Next]_vars, NEW c \in Conns,
                      Online(c)', users'[name'[c]] = NoToken, users[name'[c]] # NoToken
               PROVE  FALSE
    OBVIOUS
  <2>1. ASSUME NEW n \in Names, DeleteClient(n) PROVE FALSE
    <3>1. name[c] = n /\ Online(c)
      BY <2>1 DEF DeleteClient, Kick, Steady, Online, TypeOK, Users
    <3>2. clients[n] = c
      BY <3>1 DEF LiveIsRegistered
    <3> QED BY <2>1, <3>1, <3>2 DEF DeleteClient, Kick, Online, Steady
  <2>2. ASSUME NEW us \in Imports, ImportConfig(us) PROVE FALSE
    <3>1. name[c] \in Names /\ us[name[c]] = NoToken /\ Online(c)
      BY <2>2 DEF ImportConfig, Kick, Steady, Online, TypeOK
    <3>2. clients[name[c]] = c
      BY <3>1 DEF LiveIsRegistered
    <3> QED BY <2>2, <3>1, <3>2 DEF ImportConfig, Kick, Online, Steady
  <2>3. ASSUME NEW n \in Names, NEW t \in Tokens, AddClient(n, t) PROVE FALSE
    BY <2>3 DEF AddClient, Steady, TypeOK, Users
  <2>4. CASE users' = users
    BY <2>4
  <2>5. ASSUME NEW d \in Conns, Handle(d) \/ Drop(d) \/ Cleanup(d) PROVE users' = users
    BY <2>5 DEF Handle, Accept, ReadFails, authToken, recordAuthFail, ClearFails, Reply,
                Register, ReadAuth, Drop, Cleanup, Fixed
  <2>6. ASSUME NEW b \in Blacklists, SetIPBlacklist(b) PROVE users' = users
    BY <2>6 DEF SetIPBlacklist
  <2>7. CASE Tick \/ UNCHANGED vars
    BY <2>4, <2>7 DEF Tick, vars
  <2> QED
    BY <2>1, <2>2, <2>3, <2>4, <2>5, <2>6, <2>7 DEF Next
<1> QED BY <1>1, TunnelTypeCorrect, TunnelRegistryAgrees, PTL DEF Spec, RemovalKicks, RegistryAgrees

-----------------------------------------------------------------------------
(* The visitors of a reverse rule that slot k's session handles, and those *)
(* of them that were let in.                                               *)
Here(k) == {c \in UserConns : conn[c].of = k /\ ~conn[c].socks}
LetIn(k) == {c \in Here(k) : conn[c].at # "counted"}

(* A connection that is not in its first state has a slot, and one that is *)
(* greeted came by the proxy.                                              *)
ConnInv ==
    \A c \in UserConns :
        /\ conn[c].at = "none" <=> conn[c].of = 0
        /\ conn[c].at = "greet" => conn[c].socks

(* There is a session being served exactly in phase "serve".               *)
Serving == phase = "serve" <=> cur # 0

CountInv == ClientTypeOK /\ Serving /\ ConnInv /\ VisitorsExact

LEMMA HereFinite ==
    ASSUME NEW k
    PROVE  /\ IsFiniteSet(Here(k)) /\ Cardinality(Here(k)) \in Nat
           /\ IsFiniteSet(LetIn(k)) /\ Cardinality(LetIn(k)) \in Nat
           /\ Cardinality(LetIn(k)) <= Cardinality(Here(k))
<1>1. IsFiniteSet(Here(k))
  BY ClientAssumption, FS_Subset DEF Here
<1>2. LetIn(k) \in SUBSET Here(k)
  BY DEF LetIn
<1> QED BY <1>1, <1>2, FS_Subset, FS_CardinalityType

LEMMA VisitorsExactHere ==
    VisitorsExact <=>
        \A k \in Slots : /\ cnt[k] = Cardinality(Here(k))
                         /\ MaxVisitors > 0 => Cardinality(LetIn(k)) <= MaxVisitors
BY DEF VisitorsExact, Here, LetIn

(* A step keeps the count if for every slot it changes nothing.            *)
LEMMA NobodyCounted ==
    ASSUME VisitorsExact, UNCHANGED cnt, \A k \in Slots : Here(k)' = Here(k) /\ LetIn(k)' = LetIn(k)
    PROVE  VisitorsExact'
<1>1. ASSUME NEW k \in Slots
      PROVE  /\ cnt'[k] = Cardinality(Here(k)')
             /\ MaxVisitors > 0 => Cardinality(LetIn(k)') <= MaxVisitors
  BY VisitorsExactHere
<1> QED BY <1>1 DEF VisitorsExact, Here, LetIn

(* The end of an attempt, with what it does to the loop's variables.       *)
LEMMA AttemptEndsIn ==
    ASSUME ClientTypeOK, AttemptEnds
    PROVE  /\ cur' = 0 /\ age' = 0 /\ backoff' \in 1 .. BackoffMax
           /\ \/ phase' = "done" /\ cancelled /\ timer' = timer
              \/ phase' = "pause" /\ timer' = backoff'
BY ClientAssumption DEF AttemptEnds, ClientTypeOK

(* The steps of the loop, the sessions, the proxy and the outside that     *)
(* leave the connections alone.                                            *)
LoopStep ==
    \/ PauseOver \/ PauseCancelled \/ Dialled \/ HandshakeDone \/ AttemptFails
    \/ SessionLost \/ ServeReturns \/ HandshakeBroken \/ ClientTick \/ SessionCut \/ Cancel
    \/ \E k \in Slots : CtxCloses(k) \/ SocksListen(k) \/ SocksCloses(k)
    \/ \E n \in {"up", "down", "mute"} : NetChanges(n)
    \/ UNCHANGED clientVars

LEMMA LoopStepTyped ==
    ASSUME ClientTypeOK, Serving, LoopStep
    PROVE  ClientTypeOK' /\ Serving' /\ UNCHANGED <<conn, cnt>>
<1> USE ClientAssumption
<1>1. UNCHANGED <<conn, cnt>>
  BY DEF LoopStep, PauseOver, PauseCancelled, Dialled, HandshakeDone, Answered, AttemptFails, SessionLost,
         ServeReturns, HandshakeBroken, ClientTick, SessionCut, Cancel, CtxCloses, SocksListen, SocksCloses,
         NetChanges, clientVars
<1>2. CASE PauseOver \/ PauseCancelled \/ Dialled \/ HandshakeDone
  <2>1. /\ UNCHANGED <<tls, net, cur, cancelled, sess, gone, socks, events, outage>>
        /\ stale' \in BOOLEAN /\ age' \in {0, age}
        /\ phase' \in {"dial", "tls", "reply", "done"} /\ phase # "serve"
    BY <1>2 DEF PauseOver, PauseCancelled, Dialled, HandshakeDone, Answered, Enter, sessVars, ClientTypeOK
  <2>2. timer' \in Nat
    BY <1>2 DEF PauseOver, PauseCancelled, Dialled, HandshakeDone, Enter, ClientTypeOK
  <2>3. backoff' \in 1 .. BackoffMax
    BY <1>2 DEF PauseOver, PauseCancelled, Dialled, HandshakeDone, Enter, Least, ClientTypeOK
  <2> QED BY <1>1, <2>1, <2>2, <2>3 DEF ClientTypeOK, Serving
<1>3. CASE AttemptFails \/ HandshakeBroken \/ ServeReturns
  <2>1. AttemptEnds /\ UNCHANGED <<tls, net, stale, cancelled, sess, socks, events, outage>>
    BY <1>3 DEF AttemptFails, HandshakeBroken, ServeReturns, sessVars
  <2>2. /\ cur' = 0 /\ age' = 0 /\ backoff' \in 1 .. BackoffMax
        /\ \/ phase' = "done" /\ cancelled /\ timer' = timer
           \/ phase' = "pause" /\ timer' = backoff'
    BY <2>1, AttemptEndsIn
  <2>3. gone' \in SUBSET Slots
    <3>1. CASE ServeReturns
      <4>1. cur \in Slots /\ gone' = gone \cup {cur}
        BY <3>1 DEF ServeReturns, ClientTypeOK, Serving
      <4> QED BY <4>1 DEF ClientTypeOK
    <3>2. CASE AttemptFails \/ HandshakeBroken
      BY <3>2 DEF AttemptFails, HandshakeBroken, sessVars, ClientTypeOK
    <3> QED BY <1>3, <3>1, <3>2
  <2> QED BY <1>1, <2>1, <2>2, <2>3 DEF ClientTypeOK, Serving
<1>4. CASE SessionLost \/ SessionCut \/ Cancel \/ \E k \in Slots : CtxCloses(k) \/ SocksListen(k) \/ SocksCloses(k)
  <2>1. /\ UNCHANGED <<tls, net, stale, phase, timer, age, backoff, cur, gone, outage>>
        /\ cancelled' \in {cancelled, TRUE} /\ events' \in {events, events + 1} /\ (events' # events => events < MaxEvents)
    BY <1>4 DEF SessionLost, SessionCut, Cancel, CtxCloses, SocksListen, SocksCloses, Event, loopVars, sessVars, ClientTypeOK
  <2>2. cancelled' \in BOOLEAN /\ events' \in 0 .. MaxEvents
    <3>1. events \in 0 .. MaxEvents /\ MaxEvents \in Nat /\ cancelled \in BOOLEAN
      BY DEF ClientTypeOK
    <3>2. events' \in 0 .. MaxEvents
      <4>1. CASE events' = events
        BY <3>1, <4>1
      <4>2. CASE events' = events + 1 /\ events < MaxEvents
        BY <3>1, <4>2
      <4> QED BY <2>1, <4>1, <4>2
    <3> QED BY <2>1, <3>1, <3>2
  <2>3. sess' \in [Slots -> {"open", "closed"}]
    BY <1>4 DEF SessionLost, SessionCut, Cancel, CtxCloses, SocksListen, SocksCloses, sessVars, ClientTypeOK
  <2>4. socks' \in [Slots -> {"off", "starting", "listening", "failed"}]
    BY <1>4 DEF SessionLost, SessionCut, Cancel, CtxCloses, SocksListen, SocksCloses, sessVars, ClientTypeOK
  <2> QED BY <1>1, <2>1, <2>2, <2>3, <2>4 DEF ClientTypeOK, Serving
<1>5. CASE ClientTick
  <2>1. /\ UNCHANGED <<tls, net, stale, phase, backoff, cur, cancelled, sess, gone, socks>>
        /\ timer' \in Nat /\ events' = 0
    BY <1>5 DEF ClientTick, sessVars, ClientTypeOK
  <2>2. age' \in 0 .. BackoffMax + 1
    BY <1>5 DEF ClientTick, Least, ClientTypeOK
  <2>3. outage' \in Nat
    BY <1>5 DEF ClientTick, Least, Notice, Greatest, ClientTypeOK
  <2> QED BY <1>1, <2>1, <2>2, <2>3 DEF ClientTypeOK, Serving
<1>6. ASSUME NEW n \in {"up", "down", "mute"}, NetChanges(n) PROVE ClientTypeOK' /\ Serving'
  <2>1. /\ UNCHANGED <<tls, phase, age, backoff, cur, cancelled, sess, gone, socks>>
        /\ net' = n /\ timer' \in Nat /\ outage' = 0 /\ events' \in 0 .. MaxEvents
    BY <1>6 DEF NetChanges, Event, sessVars, ClientTypeOK
  <2>2. stale' \in BOOLEAN
    BY <1>6 DEF NetChanges, ClientTypeOK
  <2> QED BY <1>1, <2>1, <2>2 DEF ClientTypeOK, Serving
<1>7. CASE UNCHANGED clientVars
  BY <1>7 DEF clientVars, loopVars, sessVars, ClientTypeOK, Serving
<1> QED BY <1>1, <1>2, <1>3, <1>4, <1>5, <1>6, <1>7 DEF LoopStep

(* A connection goes on, without going to or coming from nobody.           *)
LEMMA MoveKeeps ==
    ASSUME ClientTypeOK, ConnInv, NEW c \in UserConns, NEW s \in {"opening", "relay"},
           conn[c].at # "none", Move(c, s)
    PROVE  /\ conn' \in [UserConns -> [at : {"none", "greet", "counted", "opening", "relay"},
                                       of : Slots \cup {0}, socks : BOOLEAN]]
           /\ ConnInv'
           /\ \A k \in Slots : Here(k)' = Here(k) /\ LetIn(k)' \in SUBSET (LetIn(k) \cup {c})
           /\ conn[c].at # "counted" \/ conn[c].socks => \A k \in Slots : LetIn(k)' = LetIn(k)
<1>1. /\ conn' \in [UserConns -> [at : {"none", "greet", "counted", "opening", "relay"},
                                  of : Slots \cup {0}, socks : BOOLEAN]]
      /\ conn'[c].at = s /\ conn'[c].of = conn[c].of /\ conn'[c].socks = conn[c].socks
      /\ \A d \in UserConns : d # c => conn'[d] = conn[d]
  BY DEF Move, ClientTypeOK
<1>2. \A d \in UserConns : conn'[d].of = conn[d].of /\ conn'[d].socks = conn[d].socks
  BY <1>1
<1>3. \A k \in Slots : Here(k)' = Here(k)
  BY <1>2 DEF Here
<1>4. ConnInv'
  BY <1>1 DEF ConnInv
<1> QED BY <1>1, <1>3, <1>4 DEF LetIn, Here

(* A connection ends: its slot's session no longer handles it.             *)
LEMMA ClosedLeaves ==
    ASSUME ClientTypeOK, ConnInv, NEW c \in UserConns, conn' = [conn EXCEPT ![c] = Closed]
    PROVE  /\ conn' \in [UserConns -> [at : {"none", "greet", "counted", "opening", "relay"},
                                       of : Slots \cup {0}, socks : BOOLEAN]]
           /\ ConnInv'
           /\ \A k \in Slots : Here(k)' = Here(k) \ {c} /\ LetIn(k)' = LetIn(k) \ {c}
<1>1. /\ conn' \in [UserConns -> [at : {"none", "greet", "counted", "opening", "relay"},
                                  of : Slots \cup {0}, socks : BOOLEAN]]
      /\ conn'[c].at = "none" /\ conn'[c].of = 0 /\ ~conn'[c].socks
      /\ \A d \in UserConns : d # c => conn'[d] = conn[d]
  BY DEF Closed, ClientTypeOK
<1>2. \A k \in Slots : k # 0
  BY ClientAssumption
<1>3. \A k \in Slots : Here(k)' = Here(k) \ {c}
  BY <1>1, <1>2 DEF Here
<1>4. ConnInv'
  BY <1>1 DEF ConnInv
<1> QED BY <1>1, <1>3, <1>4 DEF LetIn

(* Nobody else is counted when a connection leaves.                        *)
LEMMA LeavesExact ==
    ASSUME CountInv, NEW c \in UserConns, conn[c].at # "none", Leaves(c)
    PROVE  /\ conn' \in [UserConns -> [at : {"none", "greet", "counted", "opening", "relay"},
                                       of : Slots \cup {0}, socks : BOOLEAN]]
           /\ cnt' \in [Slots -> Nat] /\ ConnInv' /\ VisitorsExact'
<1>0. ClientTypeOK /\ ConnInv /\ VisitorsExact
  BY DEF CountInv
<1>1. /\ conn' \in [UserConns -> [at : {"none", "greet", "counted", "opening", "relay"},
                                  of : Slots \cup {0}, socks : BOOLEAN]]
      /\ ConnInv'
      /\ \A k \in Slots : Here(k)' = Here(k) \ {c} /\ LetIn(k)' = LetIn(k) \ {c}
  BY <1>0, ClosedLeaves DEF Leaves
<1>2. conn[c].of \in Slots
  BY <1>0 DEF ConnInv, ClientTypeOK
<1>3. ASSUME NEW k \in Slots
      PROVE  /\ cnt'[k] = Cardinality(Here(k)') /\ cnt'[k] \in Nat
             /\ MaxVisitors > 0 => Cardinality(LetIn(k)') <= MaxVisitors
  <2>1. cnt[k] = Cardinality(Here(k)) /\ cnt[k] \in Nat /\ (MaxVisitors > 0 => Cardinality(LetIn(k)) <= MaxVisitors)
    BY <1>0, VisitorsExactHere DEF ClientTypeOK
  <2>2. Cardinality(LetIn(k) \ {c}) <= Cardinality(LetIn(k)) /\ Cardinality(LetIn(k) \ {c}) \in Nat
    BY HereFinite, FS_Subset, FS_CardinalityType
  <2>3. MaxVisitors > 0 => Cardinality(LetIn(k)') <= MaxVisitors
    <3>1. LetIn(k)' = LetIn(k) \ {c}
      BY <1>1
    <3>2. Cardinality(LetIn(k)) \in Nat /\ MaxVisitors \in Nat
      BY HereFinite, ClientAssumption
    <3> QED BY <2>1, <2>2, <3>1, <3>2
  <2>4. CASE c \in Here(k)
    <3>1. Cardinality(Here(k) \ {c}) = Cardinality(Here(k)) - 1 /\ Cardinality(Here(k) \ {c}) \in Nat
      BY <2>4, HereFinite, FS_RemoveElement, FS_CardinalityType
    <3>2. cnt'[k] = cnt[k] - 1
      BY <1>0, <2>4 DEF Here, Leaves, ClientTypeOK
    <3> QED BY <1>1, <2>1, <2>3, <3>1, <3>2
  <2>5. CASE c \notin Here(k)
    <3>1. Here(k) \ {c} = Here(k)
      BY <2>5
    <3>2. cnt'[k] = cnt[k]
      BY <1>0, <2>5 DEF Here, Leaves, ClientTypeOK
    <3> QED BY <1>1, <2>1, <2>3, <3>1, <3>2
  <2> QED BY <2>4, <2>5
<1>4. cnt' \in [Slots -> Nat]
  <2>1. cnt' = cnt \/ cnt' = [cnt EXCEPT ![conn[c].of] = @ - 1]
    BY DEF Leaves
  <2>2. DOMAIN cnt' = Slots /\ cnt' = [k \in Slots |-> cnt'[k]]
    BY <1>0, <2>1 DEF ClientTypeOK
  <2> QED BY <1>3, <2>2
<1>5. VisitorsExact'
  BY <1>3 DEF VisitorsExact, Here, LetIn
<1> QED BY <1>1, <1>4, <1>5

(* The steps of the connections; the loop and the sessions stay.           *)
ConnStep(c) ==
    \/ Admit(c) \/ Open(c) \/ RelayCut(c) \/ Greeted(c) \/ GreetingFails(c) \/ RelayEnds(c)
    \/ \E k \in Slots : SocksAccept(c, k) \/ VisitorArrives(c, k)

LEMMA NextSteps ==
    ClientNext => LoopStep \/ Authenticated \/ \E c \in UserConns : ConnStep(c)
BY DEF ClientNext, LoopStep, Soon, ConnStep, openSocks, openReverse

LEMMA ConnStepFrame ==
    ASSUME ClientTypeOK, NEW c \in UserConns, ConnStep(c)
    PROVE  /\ UNCHANGED <<tls, net, stale, phase, timer, age, backoff, cur, cancelled, sess, gone, socks, outage>>
           /\ events' \in 0 .. MaxEvents
<1>1. /\ UNCHANGED <<tls, net, stale, phase, timer, age, backoff, cur, cancelled, sess, gone, socks, outage>>
      /\ events' = events \/ (events' = events + 1 /\ events < MaxEvents)
  BY DEF ConnStep, Admit, Open, RelayCut, Greeted, GreetingFails, RelayEnds, SocksAccept, VisitorArrives,
         Event, loopVars, sessVars
<1>2. events \in 0 .. MaxEvents /\ MaxEvents \in Nat
  BY ClientAssumption DEF ClientTypeOK
<1>3. events' \in 0 .. MaxEvents
  <2>1. CASE events' = events
    BY <1>2, <2>1
  <2>2. CASE events' = events + 1 /\ events < MaxEvents
    BY <1>2, <2>2
  <2> QED BY <1>1, <2>1, <2>2
<1> QED BY <1>1, <1>3

(* What a connection's step has to keep for the whole invariant to hold.   *)
LEMMA ConnStepKeeps ==
    ASSUME CountInv, NEW c \in UserConns, ConnStep(c),
           conn' \in [UserConns -> [at : {"none", "greet", "counted", "opening", "relay"},
                                    of : Slots \cup {0}, socks : BOOLEAN]],
           cnt' \in [Slots -> Nat], ConnInv', VisitorsExact'
    PROVE  CountInv'
<1>1. ClientTypeOK /\ Serving
  BY DEF CountInv
<1>2. /\ UNCHANGED <<tls, net, stale, phase, timer, age, backoff, cur, cancelled, sess, gone, socks, outage>>
      /\ events' \in 0 .. MaxEvents
  BY <1>1, ConnStepFrame
<1>3. ClientTypeOK' /\ Serving'
  BY <1>1, <1>2 DEF ClientTypeOK, Serving
<1> QED BY <1>3 DEF CountInv

LEMMA AdmitExact ==
    ASSUME CountInv, NEW c \in UserConns, conn[c].at = "counted", Move(c, "opening"), UNCHANGED cnt,
           MaxVisitors > 0 => cnt[conn[c].of] <= MaxVisitors
    PROVE  VisitorsExact'
<1>0. ClientTypeOK /\ ConnInv /\ VisitorsExact
  BY DEF CountInv
<1>1. \A k \in Slots : Here(k)' = Here(k) /\ LetIn(k)' \in SUBSET (LetIn(k) \cup {c})
  BY <1>0, MoveKeeps
<1>2. \A d \in UserConns : d # c => conn'[d] = conn[d]
  BY <1>0 DEF Move, ClientTypeOK
<1>3. ASSUME NEW k \in Slots
      PROVE  /\ cnt'[k] = Cardinality(Here(k)')
             /\ MaxVisitors > 0 => Cardinality(LetIn(k)') <= MaxVisitors
  <2>1. cnt[k] = Cardinality(Here(k)) /\ (MaxVisitors > 0 => Cardinality(LetIn(k)) <= MaxVisitors)
    BY <1>0, VisitorsExactHere
  <2>2. LetIn(k)' \in SUBSET Here(k)
    BY <1>1 DEF LetIn
  <2>3. CASE c \in Here(k)
    <3>1. Cardinality(LetIn(k)') <= Cardinality(Here(k)) /\ Cardinality(LetIn(k)') \in Nat
      BY <2>2, HereFinite, FS_Subset, FS_CardinalityType
    <3>2. MaxVisitors > 0 => cnt[k] <= MaxVisitors
      BY <2>3 DEF Here
    <3>3. MaxVisitors \in Nat /\ Cardinality(Here(k)) \in Nat
      BY HereFinite, ClientAssumption
    <3> QED BY <1>1, <2>1, <3>1, <3>2, <3>3
  <2>4. CASE c \notin Here(k)
    <3>1. LetIn(k)' = LetIn(k)
      <4>1. LetIn(k)' = {d \in Here(k) : conn'[d].at # "counted"}
        BY <1>1 DEF LetIn
      <4>2. \A d \in Here(k) : conn'[d] = conn[d]
        BY <1>2, <2>4 DEF Here
      <4> QED BY <4>1, <4>2 DEF LetIn
    <3> QED BY <1>1, <2>1, <3>1
  <2> QED BY <2>3, <2>4
<1> QED BY <1>3 DEF VisitorsExact, Here, LetIn

(***************************************************************************)
(* The visitors' count is exact: a visitor's handler counts itself, looks  *)
(* at the limit, opens its stream and leaves in steps of its own, while    *)
(* sessions come and go and their slots are used again.                    *)
(***************************************************************************)
LEMMA CountInvariant == ClientSpec => []CountInv
<1>1. ClientInit => CountInv
  <2> SUFFICES ASSUME ClientInit PROVE CountInv
    OBVIOUS
  <2>1. ClientTypeOK
    <3>1. timer \in Nat /\ age \in 0 .. BackoffMax + 1 /\ backoff \in 1 .. BackoffMax /\ events \in 0 .. MaxEvents
      BY ClientAssumption DEF ClientInit
    <3> QED BY <3>1 DEF ClientInit, ClientTypeOK, Closed
  <2>2. ConnInv /\ Serving
    BY DEF ClientInit, ConnInv, Serving, Closed
  <2>3. ASSUME NEW k \in Slots PROVE Here(k) = {} /\ LetIn(k) = {}
    BY ClientAssumption DEF ClientInit, Closed, Here, LetIn
  <2>4. \A k \in Slots : cnt[k] = 0
    BY DEF ClientInit
  <2>5. VisitorsExact
    BY <2>3, <2>4, VisitorsExactHere, FS_EmptySet, ClientAssumption
  <2> QED BY <2>1, <2>2, <2>5 DEF CountInv
<1>2. CountInv /\ [ClientNext]_clientVars => CountInv'
  <2> SUFFICES ASSUME CountInv, [ClientNext]_clientVars PROVE CountInv'
    OBVIOUS
  <2>0. ClientTypeOK /\ Serving /\ ConnInv /\ VisitorsExact
    BY DEF CountInv
  <2>1. CASE LoopStep
    <3>1. ClientTypeOK' /\ Serving' /\ UNCHANGED <<conn, cnt>>
      BY <2>0, <2>1, LoopStepTyped
    <3>2. ConnInv'
      BY <2>0, <3>1 DEF ConnInv
    <3>3. VisitorsExact'
      BY <2>0, <3>1, NobodyCounted DEF Here, LetIn
    <3> QED BY <3>1, <3>2, <3>3 DEF CountInv
  <2>2. CASE Authenticated
    <3>1. PICK k \in Slots :
            /\ Idle(k) /\ cur' = k /\ sess' = [sess EXCEPT ![k] = "open"] /\ gone' = gone \ {k}
            /\ socks' = [socks EXCEPT ![k] = "starting"] /\ cnt' = [cnt EXCEPT ![k] = 0]
      BY <2>2 DEF Authenticated
    <3>2. /\ UNCHANGED <<tls, net, stale, age, backoff, cancelled, conn, events>>
          /\ phase' = "serve" /\ timer' = KeepAlive /\ outage' = 0
      BY <2>2 DEF Authenticated
    <3>3. sess' \in [Slots -> {"open", "closed"}] /\ cnt' \in [Slots -> Nat] /\ gone' \in SUBSET Slots
      BY <2>0, <3>1 DEF ClientTypeOK
    <3>4. socks' \in [Slots -> {"off", "starting", "listening", "failed"}]
      BY <2>0, <3>1 DEF ClientTypeOK
    <3>5. ClientTypeOK'
      BY <2>0, <3>1, <3>2, <3>3, <3>4, ClientAssumption DEF ClientTypeOK
    <3>6. Serving' /\ ConnInv'
      BY <2>0, <3>1, <3>2, ClientAssumption DEF Serving, ConnInv
    <3>7. ASSUME NEW j \in Slots
          PROVE  /\ cnt'[j] = Cardinality(Here(j)')
                 /\ MaxVisitors > 0 => Cardinality(LetIn(j)') <= MaxVisitors
      <4>1. Here(j)' = Here(j) /\ LetIn(j)' = LetIn(j)
        BY <3>2 DEF Here, LetIn
      <4>2. cnt'[j] = cnt[j] \/ (Here(j) = {} /\ cnt'[j] = 0)
        BY <2>0, <3>1 DEF Idle, Here, ClientTypeOK
      <4> QED BY <2>0, <4>1, <4>2, VisitorsExactHere, FS_EmptySet
    <3>8. VisitorsExact'
      BY <3>7 DEF VisitorsExact, Here, LetIn
    <3> QED BY <3>5, <3>6, <3>8 DEF CountInv
  <2>3. ASSUME NEW c \in UserConns, Leaves(c), conn[c].at # "none", ConnStep(c) PROVE CountInv'
    BY <2>3, LeavesExact, ConnStepKeeps
  <2>4. ASSUME NEW c \in UserConns, NEW s \in {"opening", "relay"}, Move(c, s), UNCHANGED cnt, ConnStep(c),
               conn[c].at # "none", conn[c].at # "counted" \/ conn[c].socks
        PROVE  CountInv'
    <3>1. /\ conn' \in [UserConns -> [at : {"none", "greet", "counted", "opening", "relay"},
                                      of : Slots \cup {0}, socks : BOOLEAN]]
          /\ ConnInv' /\ \A k \in Slots : Here(k)' = Here(k) /\ LetIn(k)' = LetIn(k)
      BY <2>0, <2>4, MoveKeeps
    <3>2. VisitorsExact' /\ cnt' \in [Slots -> Nat]
      BY <2>0, <2>4, <3>1, NobodyCounted DEF ClientTypeOK
    <3> QED BY <2>4, <3>1, <3>2, ConnStepKeeps
  <2>5. ASSUME NEW c \in UserConns, Admit(c) PROVE CountInv'
    <3>1. conn[c].at = "counted" /\ ConnStep(c)
      BY <2>5 DEF Admit, ConnStep
    <3>2. CASE Leaves(c)
      BY <2>3, <3>1, <3>2
    <3>3. CASE Move(c, "opening") /\ UNCHANGED cnt /\ ~(MaxVisitors > 0 /\ cnt[conn[c].of] > MaxVisitors)
      <4>1. conn[c].of \in Slots
        BY <2>0, <3>1 DEF ConnInv, ClientTypeOK
      <4>2. cnt[conn[c].of] \in Nat /\ MaxVisitors \in Nat
        BY <2>0, <4>1, ClientAssumption DEF ClientTypeOK
      <4>3. VisitorsExact'
        BY <3>1, <3>3, <4>2, AdmitExact
      <4>4. /\ conn' \in [UserConns -> [at : {"none", "greet", "counted", "opening", "relay"},
                                        of : Slots \cup {0}, socks : BOOLEAN]]
            /\ ConnInv' /\ cnt' \in [Slots -> Nat]
        BY <2>0, <3>1, <3>3, MoveKeeps DEF ClientTypeOK
      <4> QED BY <3>1, <4>3, <4>4, ConnStepKeeps
    <3> QED BY <2>5, <3>2, <3>3 DEF Admit
  <2>6. ASSUME NEW c \in UserConns, Open(c) \/ Greeted(c) PROVE CountInv'
    <3>1. ConnStep(c) /\ conn[c].at \in {"opening", "greet"}
      BY <2>6 DEF ConnStep, Open, Greeted
    <3>2. Leaves(c) \/ (UNCHANGED cnt /\ \E s \in {"opening", "relay"} : Move(c, s))
      BY <2>6 DEF Open, Greeted
    <3> QED BY <2>3, <2>4, <3>1, <3>2
  <2>7. ASSUME NEW c \in UserConns, RelayCut(c) \/ RelayEnds(c) PROVE CountInv'
    <3>1. ConnStep(c) /\ conn[c].at = "relay" /\ Leaves(c)
      BY <2>7 DEF ConnStep, RelayCut, CutOff, RelayEnds
    <3> QED BY <2>3, <3>1
  <2>8. ASSUME NEW c \in UserConns, GreetingFails(c) PROVE CountInv'
    <3>1. ConnStep(c) /\ conn[c].at = "greet" /\ conn[c].socks
      BY <2>0, <2>8 DEF ConnStep, GreetingFails, ConnInv
    <3>2. Leaves(c)
      BY <2>8, <3>1 DEF GreetingFails, Leaves
    <3> QED BY <2>3, <3>1, <3>2
  <2>9. ASSUME NEW c \in UserConns, NEW k \in Slots, SocksAccept(c, k) PROVE CountInv'
    <3>1. ConnStep(c) /\ UNCHANGED cnt
      BY <2>9 DEF ConnStep, SocksAccept
    <3>2. /\ conn' \in [UserConns -> [at : {"none", "greet", "counted", "opening", "relay"},
                                      of : Slots \cup {0}, socks : BOOLEAN]]
          /\ conn'[c].at = "greet" /\ conn'[c].of = k /\ conn'[c].socks
          /\ \A d \in UserConns : d # c => conn'[d] = conn[d]
      BY <2>0, <2>9 DEF SocksAccept, ClientTypeOK
    <3>3. ConnInv'
      BY <2>0, <3>2, ClientAssumption DEF ConnInv
    <3>4. conn[c].of = 0
      BY <2>9 DEF SocksAccept, Closed
    <3>5. \A j \in Slots : j # 0
      BY ClientAssumption
    <3>6. ASSUME NEW j \in Slots PROVE Here(j)' = Here(j) /\ LetIn(j)' = LetIn(j)
      <4>1. c \notin Here(j) /\ c \notin Here(j)'
        BY <3>2, <3>4, <3>5 DEF Here
      <4>2. Here(j)' = Here(j)
        BY <3>2, <4>1 DEF Here
      <4> QED BY <3>2, <4>1, <4>2 DEF LetIn, Here
    <3>7. VisitorsExact' /\ cnt' \in [Slots -> Nat]
      BY <2>0, <3>1, <3>6, NobodyCounted DEF ClientTypeOK
    <3> QED BY <3>1, <3>2, <3>3, <3>7, ConnStepKeeps
  <2>10. ASSUME NEW c \in UserConns, NEW k \in Slots, VisitorArrives(c, k) PROVE CountInv'
    <3>1. ConnStep(c) /\ cnt' = [cnt EXCEPT ![k] = @ + 1]
      BY <2>10 DEF ConnStep, VisitorArrives
    <3>2. /\ conn' \in [UserConns -> [at : {"none", "greet", "counted", "opening", "relay"},
                                      of : Slots \cup {0}, socks : BOOLEAN]]
          /\ conn'[c].at = "counted" /\ conn'[c].of = k /\ ~conn'[c].socks
          /\ \A d \in UserConns : d # c => conn'[d] = conn[d]
      BY <2>0, <2>10 DEF VisitorArrives, ClientTypeOK
    <3>3. ConnInv'
      BY <2>0, <3>2, ClientAssumption DEF ConnInv
    <3>4. conn[c].of = 0
      BY <2>10 DEF VisitorArrives, Closed
    <3>5. \A j \in Slots : j # 0
      BY ClientAssumption
    <3>6. ASSUME NEW j \in Slots
          PROVE  /\ cnt'[j] = Cardinality(Here(j)')
                 /\ MaxVisitors > 0 => Cardinality(LetIn(j)') <= MaxVisitors
      <4>1. c \notin Here(j) /\ Here(j)' = IF j = k THEN Here(j) \cup {c} ELSE Here(j)
        BY <3>2, <3>4, <3>5 DEF Here
      <4>2. LetIn(j)' = LetIn(j)
        BY <3>2, <4>1 DEF LetIn, Here
      <4>3. Cardinality(Here(j) \cup {c}) = Cardinality(Here(j)) + 1
        BY <4>1, HereFinite, FS_AddElement
      <4>4. cnt'[j] = IF j = k THEN cnt[j] + 1 ELSE cnt[j]
        BY <2>0, <3>1 DEF ClientTypeOK
      <4> QED BY <2>0, <4>1, <4>2, <4>3, <4>4, VisitorsExactHere
    <3>7. VisitorsExact'
      BY <3>6 DEF VisitorsExact, Here, LetIn
    <3>8. cnt' \in [Slots -> Nat]
      BY <2>0, <3>1 DEF ClientTypeOK
    <3> QED BY <3>1, <3>2, <3>3, <3>7, <3>8, ConnStepKeeps
  <2> QED
    BY <2>1, <2>2, <2>5, <2>6, <2>7, <2>8, <2>9, <2>10, NextSteps DEF LoopStep, ConnStep
<1> QED BY <1>1, <1>2, PTL DEF ClientSpec

(***************************************************************************)
(* Every variable of the client keeps its type; no rule's count of         *)
(* visitors goes below zero.                                               *)
(***************************************************************************)
THEOREM ClientTypeCorrect == ClientSpec => []ClientTypeOK
BY CountInvariant, PTL DEF CountInv

(***************************************************************************)
(* A reverse rule at the client counts exactly the visitors it handles,    *)
(* and relays no more than max_conns of them, for any number of visitors,  *)
(* any limit, and whatever path each of them takes out of handleTCP.       *)
(***************************************************************************)
THEOREM ClientVisitorsExact == ClientSpec => []VisitorsExact
BY CountInvariant, PTL DEF CountInv

-----------------------------------------------------------------------------
(* A slot has to do with the proxy's address.                              *)
Live(k) == socks[k] \in {"starting", "listening"}

(* Only the session being served has its gone channel open, and only it    *)
(* can be open itself.                                                     *)
OneSession == \A k \in Slots : (k \notin gone <=> k = cur) /\ (sess[k] = "open" => k = cur)

(* One slot at a time has to do with the proxy's address; when its session *)
(* is over, Run has not yet paused as long as it will, or is done.         *)
OneProxy ==
    /\ \A k \in Slots : socks[k] # "failed"
    /\ \A j, k \in Slots : Live(j) /\ Live(k) => j = k
    /\ \A k \in Slots : Live(k) /\ k \in gone => (phase = "pause" /\ timer > 0) \/ phase = "done"

SlotInv == OneSession /\ OneProxy

LEMMA SlotInvariant == ClientSpec => []SlotInv
<1>1. ClientInit => SlotInv
  BY ClientAssumption DEF ClientInit, SlotInv, OneSession, OneProxy, Live
<1>2. CountInv /\ SlotInv /\ [ClientNext]_clientVars => SlotInv'
  <2> SUFFICES ASSUME CountInv, SlotInv, [ClientNext]_clientVars PROVE SlotInv'
    OBVIOUS
  <2>0. ClientTypeOK /\ Serving /\ OneSession /\ OneProxy
    BY DEF CountInv, SlotInv
  <2>1. CASE PauseOver \/ PauseCancelled \/ Dialled \/ HandshakeDone
    <3>1. UNCHANGED <<cur, sess, gone, socks>>
      BY <2>1 DEF PauseOver, PauseCancelled, Dialled, HandshakeDone, Answered, Enter, sessVars
    <3>2. phase' = "done" \/ (phase \in {"dial", "tls"} \/ (phase = "pause" /\ timer = 0))
      BY <2>1 DEF PauseOver, PauseCancelled, Dialled, HandshakeDone, Answered
    <3>3. OneSession'
      BY <2>0, <3>1 DEF OneSession
    <3>4. OneProxy'
      BY <2>0, <3>1, <3>2 DEF OneProxy, Live
    <3> QED BY <3>3, <3>4 DEF SlotInv
  <2>2. CASE AttemptFails \/ HandshakeBroken
    <3>1. AttemptEnds /\ UNCHANGED <<sess, gone, socks>> /\ phase \in {"dial", "tls", "reply"}
      BY <2>2 DEF AttemptFails, HandshakeBroken, sessVars
    <3>2. cur = 0 /\ cur' = 0
      BY <2>0, <3>1 DEF Serving, AttemptEnds
    <3>3. \A k \in Slots : ~Live(k)
      BY <2>0, <3>1, <3>2, ClientAssumption DEF OneSession, OneProxy
    <3>4. OneSession'
      BY <2>0, <3>1, <3>2 DEF OneSession
    <3>5. OneProxy'
      BY <2>0, <3>1, <3>3 DEF OneProxy, Live
    <3> QED BY <3>4, <3>5 DEF SlotInv
  <2>3. CASE ServeReturns
    <3>1. /\ AttemptEnds /\ UNCHANGED <<sess, socks>> /\ gone' = gone \cup {cur}
          /\ phase = "serve" /\ sess[cur] = "closed"
      BY <2>3 DEF ServeReturns
    <3>2. cur' = 0 /\ (phase' = "done" \/ (phase' = "pause" /\ timer' > 0))
      <4>1. /\ cur' = 0 /\ backoff' \in 1 .. BackoffMax
            /\ phase' = "done" \/ (phase' = "pause" /\ timer' = backoff')
        BY <2>0, <3>1, AttemptEndsIn
      <4> QED BY <4>1, ClientAssumption
    <3>3. OneSession'
      BY <2>0, <3>1, <3>2, ClientAssumption DEF OneSession, ClientTypeOK
    <3>4. OneProxy'
      BY <2>0, <3>1, <3>2 DEF OneProxy, Live
    <3> QED BY <3>3, <3>4 DEF SlotInv
  <2>4. CASE SessionLost \/ SessionCut \/ \E k \in Slots : CtxCloses(k)
    <3>1. UNCHANGED <<phase, timer, cur, gone, socks>> /\ \E k \in Slots \cup {cur} : sess' = [sess EXCEPT ![k] = "closed"]
      BY <2>4 DEF SessionLost, SessionCut, CtxCloses, loopVars
    <3>2. OneSession'
      BY <2>0, <3>1 DEF OneSession, ClientTypeOK
    <3>3. OneProxy'
      BY <2>0, <3>1 DEF OneProxy, Live
    <3> QED BY <3>2, <3>3 DEF SlotInv
  <2>5. ASSUME NEW k \in Slots, SocksListen(k) PROVE SlotInv'
    <3>1. UNCHANGED <<phase, timer, cur, gone, sess>> /\ socks[k] = "starting"
      BY <2>5 DEF SocksListen, loopVars
    <3>2. \A j \in Slots : socks[j] # "listening"
      BY <2>0, <3>1 DEF OneProxy, Live
    <3>3. socks' = [socks EXCEPT ![k] = "listening"]
      BY <2>5, <3>2 DEF SocksListen
    <3>4. OneSession'
      BY <2>0, <3>1 DEF OneSession
    <3>5. OneProxy'
      BY <2>0, <3>1, <3>3 DEF OneProxy, Live, ClientTypeOK
    <3> QED BY <3>4, <3>5 DEF SlotInv
  <2>6. ASSUME NEW k \in Slots, SocksCloses(k) PROVE SlotInv'
    <3>1. UNCHANGED <<phase, timer, cur, gone, sess>> /\ socks' = [socks EXCEPT ![k] = "off"]
      BY <2>6 DEF SocksCloses, loopVars
    <3>2. OneSession'
      BY <2>0, <3>1 DEF OneSession
    <3>3. OneProxy'
      BY <2>0, <3>1 DEF OneProxy, Live, ClientTypeOK
    <3> QED BY <3>2, <3>3 DEF SlotInv
  <2>7. CASE Authenticated
    <3>1. PICK k \in Slots :
            /\ cur' = k /\ sess' = [sess EXCEPT ![k] = "open"] /\ gone' = gone \ {k}
            /\ socks' = [socks EXCEPT ![k] = "starting"]
      BY <2>7 DEF Authenticated
    <3>2. phase = "reply" /\ cur = 0
      BY <2>0, <2>7 DEF Authenticated, Serving
    <3>3. \A j \in Slots : j \in gone /\ sess[j] # "open" /\ ~Live(j)
      BY <2>0, <3>2, ClientAssumption DEF OneSession, OneProxy
    <3>4. OneSession'
      BY <2>0, <3>1, <3>3 DEF OneSession, ClientTypeOK
    <3>5. OneProxy'
      BY <2>0, <3>1, <3>3 DEF OneProxy, Live, ClientTypeOK
    <3> QED BY <3>4, <3>5 DEF SlotInv
  <2>8. CASE ClientTick
    <3>1. UNCHANGED <<phase, cur, sess, gone, socks>> /\ ~Pending
      BY <2>8 DEF ClientTick, sessVars
    <3>2. \A k \in Slots : ~(Live(k) /\ k \in gone)
      BY <3>1 DEF Pending, Live
    <3>3. OneSession'
      BY <2>0, <3>1 DEF OneSession
    <3>4. OneProxy'
      BY <2>0, <3>1, <3>2 DEF OneProxy, Live
    <3> QED BY <3>3, <3>4 DEF SlotInv
  <2>9. ASSUME NEW n \in {"up", "down", "mute"}, NetChanges(n) PROVE SlotInv'
    <3>1. UNCHANGED <<phase, cur, sess, gone, socks>> /\ (phase # "serve" => timer' = timer)
      BY <2>9 DEF NetChanges, sessVars
    <3>2. OneSession'
      BY <2>0, <3>1 DEF OneSession
    <3>3. OneProxy'
      BY <2>0, <3>1 DEF OneProxy, Live
    <3> QED BY <3>2, <3>3 DEF SlotInv
  <2>10. CASE Cancel \/ UNCHANGED clientVars \/ \E c \in UserConns : ConnStep(c)
    <3>1. UNCHANGED <<phase, timer, cur, sess, gone, socks>>
      BY <2>0, <2>10, ConnStepFrame DEF Cancel, clientVars, loopVars, sessVars
    <3>2. OneSession'
      BY <2>0, <3>1 DEF OneSession
    <3>3. OneProxy'
      BY <2>0, <3>1 DEF OneProxy, Live
    <3> QED BY <3>2, <3>3 DEF SlotInv
  <2> QED
    BY <2>1, <2>2, <2>3, <2>4, <2>5, <2>6, <2>7, <2>8, <2>9, <2>10, NextSteps DEF LoopStep
<1> QED BY <1>1, <1>2, CountInvariant, PTL DEF ClientSpec

(***************************************************************************)
(* Every session gets its proxy: the listener of the session before it has *)
(* given up the address in time, for every order in which the goroutines   *)
(* of both run and any timeouts.  It rests on the pause between two        *)
(* attempts and on goroutines that run before time goes on.                *)
(***************************************************************************)
THEOREM ClientSocksReopens == ClientSpec => []SocksReopens
<1>1. SlotInv => SocksReopens
  BY DEF SlotInv, OneProxy, SocksReopens
<1> QED BY <1>1, SlotInvariant, PTL

-----------------------------------------------------------------------------
(* With more slots than connections one is always free for a new session.  *)
LEMMA SlotIsFree ==
    ASSUME ClientTypeOK, Serving, SlotInv, phase = "reply"
    PROVE  \E k \in Slots : Idle(k)
<1> DEFINE used == {conn[c].of : c \in UserConns}
<1>1. IsFiniteSet(used) /\ Cardinality(used) <= Cardinality(UserConns)
  <2> DEFINE slotOf == [c \in UserConns |-> conn[c].of]
  <2>1. slotOf \in Surjection(UserConns, used)
    BY DEF Surjection
  <2> HIDE DEF slotOf, used
  <2> QED BY <2>1, FS_Surjection, ClientAssumption
<1>2. Cardinality(used) \in Nat /\ Cardinality(UserConns) \in Nat /\ Cardinality(Slots) \in Nat
  BY <1>1, ClientAssumption, FS_CardinalityType
<1>3. PICK k \in Slots : k \notin used
  <2>1. CASE Slots \subseteq used
    <3>1. Cardinality(Slots) <= Cardinality(used)
      BY <1>1, <2>1, FS_Subset
    <3> QED BY <1>1, <1>2, <3>1, ClientAssumption
  <2> QED BY <2>1
<1>4. cur = 0 /\ k # 0
  BY ClientAssumption DEF Serving
<1>5. k \in gone /\ sess[k] # "open"
  BY <1>4 DEF SlotInv, OneSession
<1>6. socks[k] \in {"off", "failed"}
  BY <1>5 DEF SlotInv, OneProxy, Live, ClientTypeOK
<1> QED BY <1>3, <1>4, <1>5, <1>6 DEF Idle

(* Notice bounds each of the times that it is the longest of.              *)
LEMMA NoticeBounds ==
    /\ Notice \in Nat \ {0}
    /\ KeepAlive <= Notice /\ DialTimeout <= Notice /\ ReplyTimeout <= Notice
    /\ {KeepAlive, DialTimeout, ReplyTimeout, BackoffMax} \subseteq Nat \ {0}
BY ClientAssumption DEF Notice, Greatest

(* What of the time that outage counts may have gone by: nothing while the *)
(* server could not be reached or is reached; while the loop waits for an  *)
(* answer that will not come, what it has left still fits into Notice; in  *)
(* the pause, what is left of it fits into the whole.                      *)
TimeInv ==
    /\ outage <= Notice + BackoffMax
    /\ net # "up" => outage = 0
    /\ net = "mute" => stale
    /\ phase \in {"dial", "reply", "serve"} => timer <= Notice /\ (stale => outage + timer <= Notice)
    /\ phase \in {"dial", "reply"} /\ ~stale /\ timer = 0 => outage = 0
    /\ phase = "serve" /\ ~stale => outage = 0
    /\ phase = "tls" /\ stale => outage = 0
    /\ phase = "pause" => outage + timer <= Notice + BackoffMax
    /\ phase = "done" => cancelled

(* An attempt that ends after no more than Notice leaves time to pause.    *)
LEMMA EndsInTime ==
    ASSUME ClientTypeOK, TimeInv, AttemptEnds, outage <= Notice, UNCHANGED <<net, stale, cancelled, outage>>
    PROVE  TimeInv'
<1>1. /\ backoff' \in 1 .. BackoffMax
      /\ (phase' = "done" /\ cancelled) \/ (phase' = "pause" /\ timer' = backoff')
  BY AttemptEndsIn
<1>2. outage \in Nat
  BY DEF ClientTypeOK
<1>3. phase' = "pause" => outage + timer' <= Notice + BackoffMax
  BY <1>1, <1>2, NoticeBounds
<1>4. /\ outage' = outage /\ net' = net /\ stale' = stale /\ Notice' = Notice
      /\ outage <= Notice + BackoffMax /\ (net # "up" => outage = 0) /\ (net = "mute" => stale)
  BY DEF TimeInv, Notice, Greatest
<1> QED BY <1>1, <1>3, <1>4 DEF TimeInv

LEMMA TimeInvariant == ClientSpec => []TimeInv
<1>1. ClientInit => TimeInv
  BY NoticeBounds DEF ClientInit, TimeInv
<1>2. CountInv /\ SlotInv /\ TimeInv /\ [ClientNext]_clientVars => TimeInv'
  <2> SUFFICES ASSUME CountInv, SlotInv, TimeInv, [ClientNext]_clientVars PROVE TimeInv'
    OBVIOUS
  <2>0. ClientTypeOK /\ Serving
    BY DEF CountInv
  <2>0a. outage \in Nat /\ timer \in Nat
    BY <2>0 DEF ClientTypeOK
  <2>0b. Notice' = Notice
    BY DEF Notice, Greatest
  <2>1. CASE PauseOver
    <3>1. /\ phase = "pause" /\ phase' = "dial" /\ timer' = DialTimeout
          /\ stale' = (net = "mute") /\ net' = net /\ outage' = outage
      BY <2>1 DEF PauseOver
    <3>2. stale' => outage = 0
      BY <3>1 DEF TimeInv
    <3>3. timer' \in Nat \ {0} /\ timer' <= Notice /\ (stale' => outage' + timer' <= Notice)
      BY <2>0a, <3>1, <3>2, NoticeBounds
    <3> QED BY <2>0a, <2>0b, <3>1, <3>3 DEF TimeInv
  <2>2. CASE PauseCancelled \/ Cancel \/ UNCHANGED clientVars
    <3>1. /\ UNCHANGED <<net, stale, timer, outage>>
          /\ phase' = phase \/ (phase' = "done" /\ cancelled)
          /\ cancelled => cancelled'
      BY <2>2 DEF PauseCancelled, Cancel, clientVars, loopVars
    <3> QED BY <2>0b, <3>1 DEF TimeInv
  <2>3. CASE Dialled \/ HandshakeDone
    <3>1. /\ UNCHANGED <<net, stale, cancelled, outage>> /\ ~stale
          /\ \/ phase' = "tls" /\ timer' = 0
             \/ phase' = "reply" /\ timer' = ReplyTimeout
      BY <2>3 DEF Dialled, HandshakeDone, Answered, Enter
    <3> QED BY <2>0a, <2>0b, <3>1, NoticeBounds DEF TimeInv
  <2>4. CASE AttemptFails
    <3>1. AttemptEnds /\ UNCHANGED <<net, stale, cancelled, outage>>
      BY <2>4 DEF AttemptFails
    <3>2. outage <= Notice
      BY <2>0a, <2>4, NoticeBounds DEF AttemptFails, TimeInv
    <3> QED BY <2>0, <3>1, <3>2, EndsInTime
  <2>5. CASE HandshakeBroken
    <3>1. AttemptEnds /\ UNCHANGED <<net, stale, cancelled, outage>> /\ outage = 0
      BY <2>5 DEF HandshakeBroken, TimeInv
    <3>2. outage <= Notice
      BY <3>1, NoticeBounds
    <3> QED BY <2>0, <3>1, <3>2, EndsInTime
  <2>6. CASE ServeReturns
    <3>1. AttemptEnds /\ UNCHANGED <<net, stale, cancelled, outage>> /\ phase = "serve"
      BY <2>6 DEF ServeReturns
    <3>2. outage <= Notice
      BY <2>0a, <3>1, NoticeBounds DEF TimeInv
    <3> QED BY <2>0, <3>1, <3>2, EndsInTime
  <2>7. CASE Authenticated
    <3>1. UNCHANGED <<net, stale>> /\ ~stale /\ phase' = "serve" /\ timer' = KeepAlive /\ outage' = 0
      BY <2>7 DEF Authenticated
    <3> QED BY <2>0a, <2>0b, <3>1, NoticeBounds DEF TimeInv
  <2>8. CASE ClientTick
    <3>1. /\ UNCHANGED <<net, stale, phase>> /\ ~Pending
          /\ timer' = IF timer = 0 \/ Served THEN timer ELSE timer - 1
          /\ outage' = IF net # "up" \/ Served \/ cancelled \/ phase = "tls" THEN 0
                       ELSE Least(outage + 1, Notice + BackoffMax + 1)
          /\ cancelled' = cancelled
      BY <2>8 DEF ClientTick
    <3>2. timer' \in Nat /\ timer' <= timer /\ outage' \in Nat /\ outage' <= outage + 1
      BY <2>0a, <3>1, NoticeBounds DEF Least
    <3>3. CASE outage' = 0
      BY <2>0a, <2>0b, <3>1, <3>2, <3>3, NoticeBounds DEF TimeInv
    <3>4. CASE outage' # 0
      <4>1. net = "up" /\ ~Served /\ ~cancelled /\ phase # "tls"
        BY <3>1, <3>4
      <4>2. phase # "done"
        BY <4>1 DEF TimeInv
      <4>3. phase \in {"dial", "reply", "serve", "pause"}
        BY <2>0, <4>1, <4>2 DEF ClientTypeOK
      <4>4. phase \in {"dial", "reply", "serve"} => stale /\ timer > 0
        <5>1. CASE phase = "dial"
          BY <2>0a, <3>1, <5>1 DEF Pending
        <5>2. CASE phase = "reply"
          <6>1. \E k \in Slots : Idle(k)
            BY <2>0, <5>2, SlotIsFree
          <6> QED BY <2>0a, <3>1, <4>1, <5>2, <6>1 DEF Pending
        <5>3. CASE phase = "serve"
          <6>1. cur \in Slots
            BY <2>0, <5>3 DEF Serving, ClientTypeOK
          <6>2. sess[cur] = "open"
            BY <2>0, <3>1, <5>3, <6>1 DEF Pending, ClientTypeOK
          <6> QED BY <2>0a, <3>1, <4>1, <5>3, <6>2 DEF Pending, Served
        <5> QED BY <5>1, <5>2, <5>3
      <4>5. phase = "pause" => timer > 0
        BY <2>0a, <3>1 DEF Pending
      <4>6. timer > 0 /\ timer' = timer - 1 /\ outage' = outage + 1
        BY <2>0a, <3>1, <4>1, <4>3, <4>4, <4>5, NoticeBounds DEF TimeInv, Least
      <4>7. phase \in {"dial", "reply", "serve"} => outage' + timer' <= Notice /\ timer' <= Notice
        <5>1. phase \in {"dial", "reply", "serve"} => outage + timer <= Notice
          BY <4>4 DEF TimeInv
        <5> QED BY <2>0a, <4>6, <5>1, NoticeBounds
      <4>8. phase = "pause" => outage' + timer' <= Notice + BackoffMax
        BY <2>0a, <4>6, NoticeBounds DEF TimeInv
      <4>9. outage' <= Notice + BackoffMax
        BY <2>0a, <4>3, <4>6, <4>7, <4>8, NoticeBounds
      <4> QED BY <2>0b, <3>1, <4>1, <4>3, <4>4, <4>7, <4>8, <4>9 DEF TimeInv
    <3> QED BY <3>3, <3>4
  <2>9. ASSUME NEW n \in {"up", "down", "mute"}, NetChanges(n) PROVE TimeInv'
    <3>1. /\ net' = n /\ outage' = 0 /\ phase' = phase /\ cancelled' = cancelled
          /\ stale' \in IF n = "mute" THEN {TRUE} ELSE IF net = "mute" THEN BOOLEAN ELSE {stale}
          /\ timer' = IF phase = "serve" /\ ~stale THEN KeepAlive ELSE timer
      BY <2>9 DEF NetChanges
    <3>2. n = "mute" => stale'
      BY <3>1
    <3>3. timer' \in Nat /\ (phase \in {"dial", "reply", "serve"} => timer' <= Notice)
      BY <2>0a, <3>1, NoticeBounds DEF TimeInv
    <3>4. phase = "pause" => timer' <= Notice + BackoffMax
      BY <2>0a, <3>1, NoticeBounds DEF TimeInv
    <3> QED BY <2>0b, <3>1, <3>2, <3>3, <3>4, NoticeBounds DEF TimeInv
  <2>10. CASE SessionLost \/ SessionCut \/ (\E k \in Slots : CtxCloses(k) \/ SocksListen(k) \/ SocksCloses(k))
              \/ \E c \in UserConns : ConnStep(c)
    <3>1. UNCHANGED <<net, stale, phase, timer, cancelled, outage>>
      BY <2>0, <2>10, ConnStepFrame DEF SessionLost, SessionCut, CtxCloses, SocksListen, SocksCloses, loopVars
    <3> QED BY <2>0b, <3>1 DEF TimeInv
  <2> QED
    BY <2>1, <2>2, <2>3, <2>4, <2>5, <2>6, <2>7, <2>8, <2>9, <2>10, NextSteps DEF LoopStep
<1> QED BY <1>1, <1>2, CountInvariant, SlotInvariant, PTL DEF ClientSpec

(***************************************************************************)
(* Once the server can be reached again the client has a session within    *)
(* the time it takes to notice that its present connection is dead and one *)
(* full back-off, for any timeouts and any back-off.                       *)
(***************************************************************************)
THEOREM ClientRecoversWithin == ClientSpec => []RecoversWithin
<1>1. TimeInv => RecoversWithin
  BY DEF TimeInv, RecoversWithin
<1> QED BY <1>1, TimeInvariant, PTL
=============================================================================
