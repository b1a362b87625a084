------------------------------- MODULE Panel -------------------------------
(***************************************************************************)
(* Access to the web panel: handleLogin, auth and the session cookie of    *)
(* panel/panel.go, with IPAllowed, CheckPassword and the settings they     *)
(* read (password, whitelist, blacklist, no_auth) of server/state.go.      *)
(*                                                                         *)
(* Every HTTP request is a process; a section under p.mu or s.mu is a      *)
(* step, so IPAllowed is two steps and a login five.  Times are kept as    *)
(* ticks left or ticks passed.  A cookie is a signed expiry: the server    *)
(* keeps none, each address has a browser that does.                       *)
(***************************************************************************)
EXTENDS Naturals, FiniteSets

CONSTANTS
    IPs,        \* source addresses
    Loopback, HostAddrs, \* the ones that are loopback, the host's own
    Passwords, NoPassword, \* passwords, the empty one among them
    Lists,      \* white- and blacklists the panel may set: sets of addresses
    Imports,    \* settings an import may bring
    Reqs,       \* concurrent requests
    Admin, AdminIP, \* the request and address of a patient administrator
    NoFail,     \* no failure record
    MaxFails,   \* failures that lock an address (5)
    LockTime,   \* 10 minutes, in ticks
    TTL,        \* sessionTTL (24 h), in ticks
    MaxCrashes  \* bound: restarts

Settings == [password : Passwords, whitelist : SUBSET IPs, blacklist : SUBSET IPs, noAuth : BOOLEAN]
FailTrack == [count : 0 .. MaxFails - 1, quiet : 0 .. LockTime + 1, lock : 0 .. LockTime]

ASSUME PanelAssumption ==
    /\ Loopback \subseteq IPs /\ HostAddrs \subseteq IPs
    /\ \A l \in Lists : l \subseteq IPs
    /\ Imports \subseteq Settings /\ NoPassword \in Passwords
    /\ IsFiniteSet(Reqs) /\ Admin \in Reqs /\ AdminIP \in IPs
    /\ NoFail \notin FailTrack
    /\ MaxFails \in Nat \ {0} /\ LockTime \in Nat \ {0} /\ TTL \in Nat \ {0} /\ MaxCrashes \in Nat

VARIABLES
    cfg, disk,  \* the settings in s.cfg and in the file
    noAuth,     \* p.NoAuth, read when the program starts
    online,     \* source addresses of online clients
    fails,      \* p.fails: failures, ticks since the last one, ticks locked
    cookie,     \* ticks the cookie of an address's browser is good for
    req,        \* per request: program counter, kind, ip, password
    crashes,    \* counter for MaxCrashes
    ban,        \* history: ticks until ten minutes have passed since a lock
    extra       \* history: wrong passwords checked during the ban

vars == <<cfg, disk, noAuth, online, fails, cookie, req, crashes, ban, extra>>
settingVars == <<cfg, disk, noAuth>>
banVars == <<ban, extra>>

Idle == [pc |-> "idle", kind |-> "login", ip |-> AdminIP, password |-> CHOOSE p \in Passwords : TRUE]

Init ==
    /\ \E w \in Lists, p \in Passwords \ {NoPassword} :
        cfg = [password |-> p, whitelist |-> w, blacklist |-> {}, noAuth |-> FALSE]
    /\ disk = cfg /\ noAuth = cfg.noAuth
    /\ online = {}
    /\ fails = [ip \in IPs |-> NoFail]
    /\ cookie = [ip \in IPs |-> 0]
    /\ req = [q \in Reqs |-> Idle]
    /\ crashes = 0
    /\ ban = [ip \in IPs |-> 0] /\ extra = [ip \in IPs |-> 0]

-----------------------------------------------------------------------------
Goto(q, pc) == req' = [req EXCEPT ![q].pc = pc]
Done(q) == req' = [req EXCEPT ![q] = Idle]
At(q, pc) == req[q].pc = pc
IP(q) == req[q].ip
Allowed(q) == IF req[q].kind = "login" THEN "lock" ELSE "session"

(* A request arrives; IPAllowed starts.  Loopback is always allowed.       *)
Begin(q, ip, kind, p) ==
    /\ At(q, "idle")
    /\ LET passed == IF kind = "login" THEN "lock" ELSE "session"
       IN req' = [req EXCEPT ![q] = [pc |-> IF ip \in Loopback THEN passed ELSE "black",
                                     kind |-> kind, ip |-> ip, password |-> p]]
    /\ UNCHANGED <<settingVars, online, fails, cookie, crashes, banVars>>

(* IPAllowed's first section: the blacklist, before the host's addresses.  *)
Blacklist(q) ==
    /\ At(q, "black")
    /\ IF IP(q) \in cfg.blacklist THEN Done(q)
       ELSE Goto(q, IF IP(q) \in HostAddrs THEN Allowed(q) ELSE "white")
    /\ UNCHANGED <<settingVars, online, fails, cookie, crashes, banVars>>

(* Its second: whitelist and addresses of online clients.                  *)
Whitelist(q) ==
    /\ At(q, "white")
    /\ IF IP(q) \in cfg.whitelist \cup online THEN Goto(q, Allowed(q)) ELSE Done(q)
    /\ UNCHANGED <<settingVars, online, fails, cookie, crashes, banVars>>

(* sweepFails drops what is neither locked nor recent.                     *)
Swept(ip) == fails[ip] # NoFail /\ fails[ip].lock = 0 /\ fails[ip].quiet > LockTime

(* Mutant: an attempt during the lock starts its time over.                *)
LockCheckRenews(q) ==
    /\ At(q, "lock")
    /\ LET swept  == [ip \in IPs |-> IF Swept(ip) THEN NoFail ELSE fails[ip]]
           locked == swept[IP(q)] # NoFail /\ swept[IP(q)].lock > 0
       IN /\ fails' = IF locked THEN [swept EXCEPT ![IP(q)].lock = LockTime] ELSE swept
          /\ IF locked THEN Done(q) ELSE Goto(q, "check")
    /\ UNCHANGED <<settingVars, online, cookie, crashes, banVars>>

(* handleLogin under p.mu: sweep, then a locked address is turned away.    *)
LockCheck(q) ==
    /\ At(q, "lock")
    /\ fails' = [ip \in IPs |-> IF Swept(ip) THEN NoFail ELSE fails[ip]]
    /\ IF fails'[IP(q)] # NoFail /\ fails'[IP(q)].lock > 0 THEN Done(q) ELSE Goto(q, "check")
    /\ UNCHANGED <<settingVars, online, cookie, crashes, banVars>>

(* The body of a request does not decode.                                  *)
Abort(q) ==
    /\ At(q, "check") \/ At(q, "apply")
    /\ Done(q)
    /\ UNCHANGED <<settingVars, online, fails, cookie, crashes, banVars>>

(* CheckPassword, under s.mu.                                              *)
CheckPassword(q) ==
    /\ At(q, "check")
    /\ IF req[q].password = cfg.password
       THEN Goto(q, "clear") /\ UNCHANGED extra
       ELSE /\ Goto(q, "record")
            /\ extra' = [extra EXCEPT ![IP(q)] = IF ban[IP(q)] > 0 THEN @ + 1 ELSE @]
    /\ UNCHANGED <<settingVars, online, fails, cookie, crashes, ban>>

(* Mutant: a failure recorded during a lock ends it.                       *)
RecordUnlocks(q) ==
    /\ At(q, "record")
    /\ LET ft   == IF fails[IP(q)] = NoFail THEN [count |-> 0, quiet |-> 0, lock |-> 0] ELSE fails[IP(q)]
           full == ft.count + 1 >= MaxFails
       IN /\ fails' = [fails EXCEPT ![IP(q)] =
                [count |-> IF full THEN 0 ELSE ft.count + 1, quiet |-> 0, lock |-> IF full THEN LockTime ELSE 0]]
          /\ ban' = IF full THEN [ban EXCEPT ![IP(q)] = LockTime] ELSE ban
    /\ Done(q)
    /\ UNCHANGED <<settingVars, online, cookie, crashes, extra>>

(* A wrong password is recorded under p.mu; the fifth locks the address.   *)
Record(q) ==
    /\ At(q, "record")
    /\ LET ft   == IF fails[IP(q)] = NoFail THEN [count |-> 0, quiet |-> 0, lock |-> 0] ELSE fails[IP(q)]
           full == ft.count + 1 >= MaxFails
       IN /\ fails' = [fails EXCEPT ![IP(q)] =
                [count |-> IF full THEN 0 ELSE ft.count + 1, quiet |-> 0, lock |-> IF full THEN LockTime ELSE ft.lock]]
          /\ ban' = IF full THEN [ban EXCEPT ![IP(q)] = LockTime] ELSE ban
    /\ Done(q)
    /\ UNCHANGED <<settingVars, online, cookie, crashes, extra>>

(* The right one deletes the record, and the answer carries a new cookie.  *)
Clear(q) ==
    /\ At(q, "clear")
    /\ fails' = [fails EXCEPT ![IP(q)] = NoFail]
    /\ cookie' = [cookie EXCEPT ![IP(q)] = TTL]
    /\ ban' = [ban EXCEPT ![IP(q)] = 0] /\ extra' = [extra EXCEPT ![IP(q)] = 0]
    /\ Done(q)
    /\ UNCHANGED <<settingVars, online, crashes>>

(* handleLogout only takes the browser's cookie away.                      *)
Logout(ip) ==
    /\ cookie' = [cookie EXCEPT ![ip] = 0]
    /\ UNCHANGED <<settingVars, online, fails, req, crashes, banVars>>

-----------------------------------------------------------------------------
(* auth, after IPAllowed: a valid cookie, unless the program was started   *)
(* without passwords.                                                      *)
Session(q) ==
    /\ At(q, "session")
    /\ IF noAuth \/ cookie[IP(q)] > 0 THEN Goto(q, "apply") ELSE Done(q)
    /\ UNCHANGED <<settingVars, online, fails, cookie, crashes, banVars>>

(* Mutant: a failed save leaves the new settings in memory.                *)
CommitNoRollback(new) ==
    /\ cfg' = new
    /\ disk' = new \/ disk' = disk

(* An operation under s.mu: changed, saved, and put back when the save     *)
(* fails.                                                                  *)
Commit(new) ==
    \/ cfg' = new /\ disk' = new
    \/ UNCHANGED <<cfg, disk>>

Apply(q, new) ==
    /\ At(q, "apply")
    /\ Commit(new)
    /\ Done(q)
    /\ UNCHANGED <<noAuth, online, fails, cookie, crashes, banVars>>

SetPassword(q, p) == Apply(q, [cfg EXCEPT !.password = p])
SetIPWhitelist(q, l) == Apply(q, [cfg EXCEPT !.whitelist = l])
SetIPBlacklist(q, l) == Apply(q, [cfg EXCEPT !.blacklist = l])

(* An import is checked after it was put into s.cfg, and put back when a   *)
(* list is invalid or the save fails.  Its password may be empty, which    *)
(* SetPassword refuses.  p.NoAuth stays as it is.                          *)
ImportConfig(q, new) == Apply(q, new)

(* A client goes on- or offline.                                           *)
ClientMoves(ip) ==
    /\ online' = IF ip \in online THEN online \ {ip} ELSE online \cup {ip}
    /\ UNCHANGED <<settingVars, fails, cookie, req, crashes, banVars>>

Less(n) == IF n = 0 THEN 0 ELSE n - 1

Tick ==
    /\ fails' = [ip \in IPs |->
           IF fails[ip] = NoFail THEN NoFail
           ELSE [fails[ip] EXCEPT !.lock = Less(@), !.quiet = IF @ > LockTime THEN @ ELSE @ + 1]]
    /\ cookie' = [ip \in IPs |-> Less(cookie[ip])]
    /\ ban' = [ip \in IPs |-> Less(ban[ip])]
    /\ extra' = [ip \in IPs |-> IF ban[ip] <= 1 THEN 0 ELSE extra[ip]]
    /\ UNCHANGED <<settingVars, online, req, crashes>>

(* LoadServer: what is in the file.  An empty password that would count is *)
(* replaced by a random one.                                               *)
Loaded ==
    IF ~disk.noAuth /\ disk.password = NoPassword
    THEN {[disk EXCEPT !.password = p] : p \in Passwords \ {NoPassword}}
    ELSE {disk}

(* The program ends and starts again, as often as it takes: it goes on     *)
(* only when a password that LoadServer made up is saved.  Failure records *)
(* are gone, cookies stay good because the secret is in the file.          *)
Restart ==
    /\ crashes < MaxCrashes /\ crashes' = crashes + 1
    /\ cfg' \in Loaded /\ disk' = cfg' /\ noAuth' = disk.noAuth
    /\ fails' = [ip \in IPs |-> NoFail]
    /\ req' = [q \in Reqs |-> Idle]
    /\ online' = {}
    /\ ban' = [ip \in IPs |-> 0] /\ extra' = [ip \in IPs |-> 0]
    /\ UNCHANGED cookie

Check(q) == Blacklist(q) \/ Whitelist(q) \/ Session(q)
Login(q) == LockCheck(q) \/ CheckPassword(q) \/ Record(q) \/ Clear(q)
Operation(q) ==
    \/ \E p \in Passwords \ {NoPassword} : SetPassword(q, p)
    \/ \E l \in Lists : SetIPWhitelist(q, l) \/ SetIPBlacklist(q, l)
    \/ \E new \in Imports : ImportConfig(q, new)

(* The administrator asks for a session with the password in force.        *)
AdminLogin == cookie[AdminIP] = 0 /\ Begin(Admin, AdminIP, "login", cfg.password)

Next ==
    \/ AdminLogin
    \/ \E q \in Reqs \ {Admin}, ip \in IPs, p \in Passwords, k \in {"login", "op"} : Begin(q, ip, k, p)
    \/ \E q \in Reqs : Check(q) \/ Login(q) \/ Operation(q)
    \/ \E q \in Reqs \ {Admin} : Abort(q)
    \/ \E ip \in IPs : Logout(ip) \/ ClientMoves(ip)
    \/ Tick \/ Restart

Spec == Init /\ [][Next]_vars

(* Handlers run on, time passes, and the administrator asks again.         *)
FairSpec ==
    /\ Spec /\ WF_vars(AdminLogin) /\ WF_vars(Tick)
    /\ \A q \in Reqs : WF_vars(Check(q) \/ Login(q) \/ Operation(q))

-----------------------------------------------------------------------------
(* The type of every variable.                                             *)
TypeOK ==
    /\ cfg \in Settings /\ disk \in Settings /\ noAuth \in BOOLEAN
    /\ online \in SUBSET IPs
    /\ fails \in [IPs -> FailTrack \cup {NoFail}]
    /\ cookie \in [IPs -> 0 .. TTL]
    /\ req \in [Reqs -> [pc : {"idle", "black", "white", "lock", "check", "record", "clear", "session", "apply"},
                         kind : {"login", "op"}, ip : IPs, password : Passwords]]
    /\ crashes \in 0 .. MaxCrashes
    /\ ban \in [IPs -> 0 .. LockTime] /\ extra \in [IPs -> Nat]

(***************************************************************************)
(* docs/02: five failures lock the address for ten minutes.  The lock is   *)
(* looked at, the password checked and the failure recorded in three       *)
(* sections, and the sweep runs in between; still, in the ten minutes      *)
(* after a lock was set no more wrong passwords are checked than there     *)
(* were other requests under way when it was set.  A successful login from *)
(* the address and a restart, which forgets all locks, start afresh.       *)
(***************************************************************************)
FewGuessesWhileLocked == \A ip \in IPs : extra[ip] <= Cardinality(Reqs) - 1

(***************************************************************************)
(* The settings in force are the ones in the file, through failing saves   *)
(* and refused imports: a restart changes no list, and no password but an  *)
(* empty one that an import brought.                                       *)
(***************************************************************************)
SettingsDurable == cfg = disk

(* The administrator's address is allowed and nobody else asks anything.   *)
Undisturbed ==
    /\ AdminIP \notin cfg.blacklist /\ AdminIP \in cfg.whitelist
    /\ \A q \in Reqs \ {Admin} : At(q, "idle")

(***************************************************************************)
(* A lock comes to an end and nothing else keeps the right password out:   *)
(* when the disturbance is over, an administrator who asks again gets a    *)
(* session, whatever failures others have left on the address.             *)
(***************************************************************************)
RightPasswordGetsIn == <>[]Undisturbed => []<>(cookie[AdminIP] > 0)
=============================================================================
