------------------------------- MODULE Tunnel -------------------------------
(***************************************************************************)
(* Tunnel connections at the server: handleTunnel, authToken,              *)
(* recordAuthFail and sweepAuthFails of server/server.go, and what         *)
(* AddClient, DeleteClient, ImportConfig and SetIPBlacklist of             *)
(* server/state.go do to them.  Each connection is a goroutine; every      *)
(* section under s.mu is a step.                                           *)
(***************************************************************************)
EXTENDS Naturals, FiniteSets

CONSTANTS
    Names,      \* client names
    Tokens,     \* tokens; a client has one, AddClient draws a new one
    NoToken,    \* no such client
    Hosts,      \* source addresses of connections
    Loopback,   \* the ones in 127.0.0.0/8, ::1
    Blacklists, \* blacklists the panel may set: sets of hosts
    Imports,    \* client lists an import may bring
    NoConn,     \* no registered session
    NoFail,     \* no authFail record
    FirstUsers, \* client list at the start
    MaxFails,   \* authMaxFails
    BlockFor,   \* authBlockFor, in ticks
    MaxConns,   \* bound: connections
    MaxTime,    \* bound: ticks
    MaxOps      \* bound: panel operations

Conns == 1 .. MaxConns
Users == [Names -> Tokens \cup {NoToken}]
FailRecord == [count : 0 .. MaxFails, lastFail : 0 .. MaxTime, until : 0 .. MaxTime + BlockFor]

ASSUME TunnelAssumption ==
    /\ NoToken \notin Tokens /\ NoConn \notin Conns /\ NoFail \notin FailRecord
    /\ Loopback \subseteq Hosts
    /\ Blacklists \subseteq SUBSET Hosts
    /\ FirstUsers \in Users /\ Imports \subseteq Users
    /\ MaxFails \in Nat \ {0} /\ BlockFor \in Nat
    /\ MaxConns \in Nat /\ MaxTime \in Nat /\ MaxOps \in Nat

VARIABLES
    now,        \* the clock
    users,      \* s.cfg.Clients: token of each name
    spent,      \* tokens ever handed out
    blacklist,  \* s.cfg.IPBlacklist
    authFails,  \* s.authFails
    pc,         \* per connection, what handleTunnel does next
    host, token, name, \* its source, the token it sent, the name found
    clients,    \* s.clients: the registered connection of a name
    closed,     \* connections whose smux session is closed
    ops         \* counter for MaxOps

vars == <<now, users, spent, blacklist, authFails, pc, host, token, name, clients, closed, ops>>

-----------------------------------------------------------------------------
Init ==
    /\ now = 0
    /\ users = FirstUsers
    /\ spent = {users[n] : n \in Names} \ {NoToken}
    /\ blacklist = {}
    /\ authFails = [h \in Hosts |-> NoFail]
    /\ pc = [c \in Conns |-> "idle"]
    /\ host \in [Conns -> Hosts]
    /\ token = [c \in Conns |-> NoToken]
    /\ name \in {[c \in Conns |-> n] : n \in Names}
    /\ clients = [n \in Names |-> NoConn]
    /\ closed = {}
    /\ ops = 0

Goto(c, l) == pc' = [pc EXCEPT ![c] = l]
Fixed == UNCHANGED <<now, users, spent, blacklist, ops>>

(* sweepAuthFails drops records whose lock and last failure are both over. *)
sweepAuthFails ==
    [h \in Hosts |-> LET f == authFails[h] IN
        IF f # NoFail /\ now > f.until /\ now - f.lastFail > BlockFor THEN NoFail ELSE f]

Locked(h) == authFails[h] # NoFail /\ now < authFails[h].until

(* First section: sweep, then a locked or blacklisted source is refused;   *)
(* loopback is exempt from both.                                           *)
Accept(c) ==
    /\ pc[c] = "idle"
    /\ authFails' = sweepAuthFails
    /\ Goto(c, IF host[c] \notin Loopback /\ (Locked(host[c]) \/ host[c] \in blacklist)
               THEN "over" ELSE "read")
    /\ Fixed /\ UNCHANGED <<host, token, name, clients, closed>>

(* The authentication frame arrives with some token ...                    *)
ReadAuth(c, t) ==
    /\ pc[c] = "read"
    /\ token' = [token EXCEPT ![c] = t]
    /\ Goto(c, "auth")
    /\ Fixed /\ UNCHANGED <<authFails, host, name, clients, closed>>

(* ... or not within 10 s.                                                 *)
ReadFails(c) ==
    /\ pc[c] = "read"
    /\ Goto(c, "over")
    /\ Fixed /\ UNCHANGED <<authFails, host, token, name, clients, closed>>

(* authToken looks the token up.                                           *)
authToken(c) ==
    /\ pc[c] = "auth"
    /\ \/ \E n \in Names : /\ users[n] = token[c]
                           /\ name' = [name EXCEPT ![c] = n]
                           /\ Goto(c, "clear")
       \/ /\ \A n \in Names : users[n] # token[c]
          /\ Goto(c, "fail") /\ UNCHANGED name
    /\ Fixed /\ UNCHANGED <<authFails, host, token, clients, closed>>

(* Mutant: a failure during a lock starts a record without it.             *)
FailedForgetsLock(f) ==
    LET n == IF f = NoFail THEN 1 ELSE f.count + 1
    IN IF n >= MaxFails
       THEN [count |-> 0, lastFail |-> now, until |-> now + BlockFor]
       ELSE [count |-> n, lastFail |-> now, until |-> 0]

(* recordAuthFail: the MaxFails-th failure locks the source and restarts   *)
(* the count.                                                              *)
Failed(f) ==
    LET n == IF f = NoFail THEN 1 ELSE f.count + 1
        u == IF f = NoFail THEN 0 ELSE f.until
    IN IF n >= MaxFails
       THEN [count |-> 0, lastFail |-> now, until |-> now + BlockFor]
       ELSE [count |-> n, lastFail |-> now, until |-> u]

recordAuthFail(c) ==
    /\ pc[c] = "fail"
    /\ authFails' = [authFails EXCEPT ![host[c]] = Failed(@)]
    /\ Goto(c, "over")
    /\ Fixed /\ UNCHANGED <<host, token, name, clients, closed>>

(* A good token clears the record of its source.                           *)
ClearFails(c) ==
    /\ pc[c] = "clear"
    /\ authFails' = [authFails EXCEPT ![host[c]] = NoFail]
    /\ Goto(c, "reply")
    /\ Fixed /\ UNCHANGED <<host, token, name, clients, closed>>

(* The reply and the smux session, either of which may fail.               *)
Reply(c) ==
    /\ pc[c] = "reply"
    /\ Goto(c, "register") \/ Goto(c, "over")
    /\ Fixed /\ UNCHANGED <<authFails, host, token, name, clients, closed>>

(* The new session replaces the registered one, which is closed.           *)
Register(c) ==
    /\ pc[c] = "register"
    /\ closed' = closed \cup ({clients[name[c]]} \ {NoConn})
    /\ clients' = [clients EXCEPT ![name[c]] = c]
    /\ Goto(c, "live")
    /\ Fixed /\ UNCHANGED <<authFails, host, token, name>>

(* The session dies: the client leaves, the network or the keep-alive      *)
(* fails.                                                                  *)
Drop(c) ==
    /\ pc[c] \in {"register", "live"} /\ c \notin closed
    /\ closed' = closed \cup {c}
    /\ Fixed /\ UNCHANGED <<authFails, pc, host, token, name, clients>>

(* Mutant: the name is removed whoever it belongs to by now.               *)
CleanupAny(c) ==
    /\ pc[c] = "live" /\ c \in closed
    /\ clients' = [clients EXCEPT ![name[c]] = NoConn]
    /\ Goto(c, "over")
    /\ Fixed /\ UNCHANGED <<authFails, host, token, name, closed>>

(* Mutant: the entry is never removed.                                     *)
CleanupNothing(c) ==
    /\ pc[c] = "live" /\ c \in closed
    /\ Goto(c, "over")
    /\ Fixed /\ UNCHANGED <<authFails, host, token, name, clients, closed>>

(* The poll sees the closed session; only its own entry is removed.        *)
Cleanup(c) ==
    /\ pc[c] = "live" /\ c \in closed
    /\ clients' = IF clients[name[c]] = c THEN [clients EXCEPT ![name[c]] = NoConn] ELSE clients
    /\ Goto(c, "over")
    /\ Fixed /\ UNCHANGED <<authFails, host, token, name, closed>>

-----------------------------------------------------------------------------
Panel == ops < MaxOps /\ ops' = ops + 1
Steady == UNCHANGED <<now, authFails, pc, host, token, name, clients>>

AddClient(n, t) ==
    /\ Panel
    /\ users[n] = NoToken /\ t \notin spent
    /\ users' = [users EXCEPT ![n] = t]
    /\ spent' = spent \cup {t}
    /\ Steady /\ UNCHANGED <<blacklist, closed>>

(* Mutant: the session of a removed client is left alone.                  *)
KickNobody(gone) == UNCHANGED closed

(* The sessions of removed clients are closed; handleTunnel deregisters.   *)
Kick(gone) == closed' = closed \cup ({clients[n] : n \in gone} \ {NoConn})

DeleteClient(n) ==
    /\ Panel
    /\ users[n] # NoToken
    /\ users' = [users EXCEPT ![n] = NoToken]
    /\ Kick({n})
    /\ Steady /\ UNCHANGED <<spent, blacklist>>

ImportConfig(us) ==
    LET gone == {n \in Names : us[n] = NoToken}
    IN /\ Panel
       /\ users' = us
       /\ spent' = spent \cup ({us[n] : n \in Names} \ {NoToken})
       /\ Kick(gone)
       /\ Steady /\ UNCHANGED blacklist

SetIPBlacklist(b) ==
    /\ Panel
    /\ blacklist' = b
    /\ Steady /\ UNCHANGED <<users, spent, closed>>

Tick ==
    /\ now < MaxTime /\ now' = now + 1
    /\ UNCHANGED <<users, spent, blacklist, authFails, pc, host, token, name, clients, closed, ops>>

-----------------------------------------------------------------------------
Handle(c) ==
    \/ Accept(c) \/ ReadFails(c) \/ authToken(c) \/ recordAuthFail(c)
    \/ ClearFails(c) \/ Reply(c) \/ Register(c)
    \/ \E t \in Tokens : ReadAuth(c, t)

Next ==
    \/ \E c \in Conns : Handle(c) \/ Drop(c) \/ Cleanup(c)
    \/ \E n \in Names, t \in Tokens : AddClient(n, t)
    \/ \E n \in Names : DeleteClient(n)
    \/ \E us \in Imports : ImportConfig(us)
    \/ \E b \in Blacklists : SetIPBlacklist(b)
    \/ Tick

Spec == Init /\ [][Next]_vars

-----------------------------------------------------------------------------
(* The type of every variable.                                             *)
TypeOK ==
    /\ now \in 0 .. MaxTime
    /\ users \in Users
    /\ spent \in SUBSET Tokens
    /\ blacklist \in SUBSET Hosts
    /\ authFails \in [Hosts -> FailRecord \cup {NoFail}]
    /\ pc \in [Conns -> {"idle", "read", "auth", "fail", "clear", "reply", "register", "live", "over"}]
    /\ host \in [Conns -> Hosts]
    /\ token \in [Conns -> Tokens \cup {NoToken}]
    /\ name \in [Conns -> Names]
    /\ clients \in [Names -> Conns \cup {NoConn}]
    /\ closed \in SUBSET Conns
    /\ ops \in 0 .. MaxOps

Online(c) == pc[c] = "live" /\ c \notin closed

(***************************************************************************)
(* A live session is the one s.clients holds for its name, so rules reach  *)
(* it, and a name never has two: an old session's late cleanup cannot      *)
(* remove the registration of the session that replaced it.                *)
(***************************************************************************)
LiveIsRegistered == \A c \in Conns : Online(c) => clients[name[c]] = c

(***************************************************************************)
(* s.clients only holds connections that have registered under that name   *)
(* and are still there to take themselves out: no entry is left behind.    *)
(***************************************************************************)
RegisteredIsLive ==
    \A n \in Names : clients[n] # NoConn => pc[clients[n]] = "live" /\ name[clients[n]] = n

(* The two together: s.clients and the live sessions agree.                *)
RegistryAgrees == LiveIsRegistered /\ RegisteredIsLive

(***************************************************************************)
(* A source that reached MaxFails failures stays locked for BlockFor       *)
(* unless a valid token comes from it: no other step of any connection     *)
(* (sweep, failures of connections accepted before) shortens a lock.       *)
(***************************************************************************)
LocksLast ==
    [][\A h \in Hosts :
        Locked(h) =>
            \/ authFails'[h] # NoFail /\ authFails'[h].until >= authFails[h].until
            \/ \E c \in Conns : host[c] = h /\ pc[c] = "clear" /\ pc'[c] = "reply"]_vars

(***************************************************************************)
(* server/state.go: a client that is online but removed is kicked out.  No *)
(* step that removes a client leaves a session of it online, whichever of  *)
(* its sessions that is and however many were replaced before.             *)
(***************************************************************************)
RemovalKicks ==
    [][\A c \in Conns :
        Online(c)' /\ users'[name'[c]] = NoToken => users[name'[c]] = NoToken]_vars
=============================================================================
