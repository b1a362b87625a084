---------------------------- MODULE PanelProofs ----------------------------
(***************************************************************************)
(* Proofs about Panel for any addresses, requests and limits: settings in  *)
(* force are the ones in the file, and a lock leaves only the requests     *)
(* under way to guess with.                                                *)
(***************************************************************************)
EXTENDS Panel, FiniteSetTheorems, TLAPS

RequestType ==
    [pc : {"idle", "black", "white", "lock", "check", "record", "clear", "session", "apply"},
     kind : {"login", "op"}, ip : IPs, password : Passwords]

(* A request that is done is like one that never came.                     *)
LEMMA IdleTyped ==
    ASSUME NEW p \in Passwords
    PROVE  Idle \in RequestType /\ Idle.pc = "idle"
BY PanelAssumption DEF Idle, RequestType

(* What a step of one request does to the others: nothing.                 *)
OnlyMoves(q) == req' \in [Reqs -> RequestType] /\ \A r \in Reqs \ {q} : req'[r] = req[r]

LEMMA RequestStep ==
    ASSUME TypeOK, NEW q \in Reqs
    PROVE  /\ \A s \in {"black", "white", "lock", "check", "record", "clear", "session", "apply"} :
                  Goto(q, s) => OnlyMoves(q) /\ req'[q].pc = s /\ IP(q)' = IP(q)
           /\ Done(q) => OnlyMoves(q) /\ req'[q].pc = "idle"
<1>1. cfg.password \in Passwords
  BY DEF TypeOK, Settings
<1>2. Idle \in RequestType /\ Idle.pc = "idle"
  BY <1>1, IdleTyped
<1>3. req \in [Reqs -> RequestType]
  BY DEF TypeOK, RequestType
<1>4. Done(q) => OnlyMoves(q) /\ req'[q].pc = "idle"
  BY <1>2, <1>3 DEF Done, OnlyMoves
<1>5. ASSUME NEW s \in {"black", "white", "lock", "check", "record", "clear", "session", "apply"}, Goto(q, s)
      PROVE  OnlyMoves(q) /\ req'[q].pc = s /\ IP(q)' = IP(q)
  <2>1. req' = [req EXCEPT ![q] = [req[q] EXCEPT !.pc = s]]
    BY <1>5 DEF Goto
  <2>2. [req[q] EXCEPT !.pc = s] \in RequestType
    BY <1>3 DEF RequestType
  <2>3. req'[q] = [req[q] EXCEPT !.pc = s]
    BY <1>3, <2>1
  <2> QED BY <1>3, <2>1, <2>2, <2>3 DEF OnlyMoves, IP, RequestType
<1> QED BY <1>4, <1>5

-----------------------------------------------------------------------------
(* Requests past the lock check that have not had their password checked.  *)
Guessing(ip) == {q \in Reqs : At(q, "check") /\ IP(q) = ip}

LEMMA GuessingFinite ==
    ASSUME NEW ip
    PROVE  /\ IsFiniteSet(Guessing(ip)) /\ Cardinality(Guessing(ip)) \in Nat
           /\ Cardinality(Reqs) \in Nat
           /\ \A q \in Reqs : ~At(q, "check") => Cardinality(Guessing(ip)) <= Cardinality(Reqs) - 1
<1>1. IsFiniteSet(Reqs) /\ Cardinality(Reqs) \in Nat
  BY PanelAssumption, FS_CardinalityType
<1>2. Guessing(ip) \in SUBSET Reqs
  BY DEF Guessing
<1>3. IsFiniteSet(Guessing(ip)) /\ Cardinality(Guessing(ip)) \in Nat
  BY <1>1, <1>2, FS_Subset, FS_CardinalityType
<1>4. ASSUME NEW q \in Reqs, ~At(q, "check") PROVE Cardinality(Guessing(ip)) <= Cardinality(Reqs) - 1
  <2>1. Guessing(ip) \in SUBSET (Reqs \ {q})
    BY <1>4 DEF Guessing
  <2>2. IsFiniteSet(Reqs \ {q}) /\ Cardinality(Reqs \ {q}) = Cardinality(Reqs) - 1
    BY <1>1, FS_RemoveElement
  <2> QED BY <2>1, <2>2, FS_Subset
<1> QED BY <1>1, <1>3, <1>4

(* As long as a ban counts the address is locked, ...                      *)
BanLocks == \A ip \in IPs : ban[ip] > 0 => fails[ip] # NoFail /\ ban[ip] <= fails[ip].lock

(* ... guesses are counted in a ban only, and those made and those that    *)
(* may still be made are not more than the other requests.                 *)
NoBanNoGuess == \A ip \in IPs : ban[ip] = 0 => extra[ip] = 0
GuessesLeft ==
    \A ip \in IPs : ban[ip] > 0 => extra[ip] + Cardinality(Guessing(ip)) <= Cardinality(Reqs) - 1

PanelInv == TypeOK /\ SettingsDurable /\ BanLocks /\ NoBanNoGuess /\ GuessesLeft

LEMMA PanelInit == Init => PanelInv
<1> SUFFICES ASSUME Init PROVE PanelInv
  OBVIOUS
<1>1. PICK w \in Lists, p \in Passwords : cfg = [password |-> p, whitelist |-> w, blacklist |-> {}, noAuth |-> FALSE]
  BY DEF Init
<1>2. cfg \in Settings /\ disk = cfg /\ noAuth \in BOOLEAN
  BY <1>1, PanelAssumption DEF Init, Settings
<1>3. req \in [Reqs -> RequestType]
  BY IdleTyped DEF Init
<1>4. TypeOK
  BY <1>2, <1>3, PanelAssumption DEF Init, TypeOK, RequestType
<1> QED BY <1>2, <1>4 DEF Init, PanelInv, SettingsDurable, BanLocks, NoBanNoGuess, GuessesLeft

(* A step that touches no ban and lets nobody past a lock.                 *)
LEMMA NoMoreGuesses ==
    ASSUME PanelInv, UNCHANGED banVars,
           \A ip \in IPs : ban[ip] > 0 => Guessing(ip)' \subseteq Guessing(ip)
    PROVE  NoBanNoGuess' /\ GuessesLeft'
<1>1. ASSUME NEW ip \in IPs, ban[ip] > 0
      PROVE  extra[ip] + Cardinality(Guessing(ip)') <= Cardinality(Reqs) - 1
  <2>1. Cardinality(Guessing(ip)') <= Cardinality(Guessing(ip)) /\ Cardinality(Guessing(ip)') \in Nat
    BY <1>1, GuessingFinite, FS_Subset, FS_CardinalityType
  <2>2. extra[ip] + Cardinality(Guessing(ip)) <= Cardinality(Reqs) - 1
    BY <1>1 DEF PanelInv, GuessesLeft
  <2>3. extra[ip] \in Nat /\ Cardinality(Reqs) \in Nat /\ Cardinality(Guessing(ip)) \in Nat
    BY GuessingFinite DEF PanelInv, TypeOK
  <2> QED BY <2>1, <2>2, <2>3
<1> QED BY <1>1 DEF PanelInv, NoBanNoGuess, GuessesLeft, banVars

(* Who guesses changes with one request only.                              *)
LEMMA GuessingMoves ==
    ASSUME NEW q \in Reqs, OnlyMoves(q), NEW ip
    PROVE  /\ Guessing(ip)' \ {q} = Guessing(ip) \ {q}
           /\ req'[q].pc # "check" => Guessing(ip)' \subseteq Guessing(ip)
           /\ req'[q].pc = "check" /\ IP(q)' # ip => Guessing(ip)' \subseteq Guessing(ip)
BY DEF Guessing, OnlyMoves, At, IP

(* A request moves on without a look at a password or a failure record.    *)
LEMMA PassingStep ==
    ASSUME PanelInv, NEW q \in Reqs, OnlyMoves(q), req'[q].pc # "check",
           UNCHANGED <<noAuth, online, fails, cookie, crashes, banVars>>,
           cfg' \in Settings, cfg' = disk'
    PROVE  PanelInv'
<1>1. TypeOK'
  BY DEF PanelInv, TypeOK, OnlyMoves, RequestType, banVars
<1>2. NoBanNoGuess' /\ GuessesLeft'
  BY GuessingMoves, NoMoreGuesses
<1> QED BY <1>1, <1>2 DEF PanelInv, SettingsDurable, BanLocks, banVars

(* handleLogin looks at the lock: who is banned is turned away.            *)
LEMMA LockCheckStep ==
    ASSUME PanelInv, NEW q \in Reqs, LockCheck(q)
    PROVE  PanelInv'
<1>0. TypeOK /\ BanLocks
  BY DEF PanelInv
<1>1. IP(q) \in IPs
  BY <1>0 DEF TypeOK, IP
<1>2. \A ip \in IPs : fails'[ip] = IF Swept(ip) THEN NoFail ELSE fails[ip]
  BY DEF LockCheck
<1>3. fails' \in [IPs -> FailTrack \cup {NoFail}]
  BY <1>0 DEF LockCheck, TypeOK
<1>4. BanLocks'
  <2>1. \A ip \in IPs : ban[ip] > 0 => ~Swept(ip)
    BY <1>0, PanelAssumption DEF BanLocks, Swept, TypeOK
  <2> QED BY <1>0, <1>2, <2>1 DEF BanLocks, LockCheck, banVars
<1>5. OnlyMoves(q) /\ (req'[q].pc = "idle" \/ (req'[q].pc = "check" /\ IP(q)' = IP(q)))
  BY <1>0, RequestStep DEF LockCheck
<1>6. ban[IP(q)] > 0 => req'[q].pc = "idle"
  <2> SUFFICES ASSUME ban[IP(q)] > 0 PROVE req'[q].pc = "idle"
    OBVIOUS
  <2>1. fails'[IP(q)] # NoFail /\ ban[IP(q)] <= fails'[IP(q)].lock
    BY <1>1, <1>4 DEF BanLocks, LockCheck, banVars
  <2>2. fails'[IP(q)].lock > 0
    BY <1>0, <1>1, <1>3, <2>1, PanelAssumption DEF TypeOK, FailTrack
  <2> QED BY <1>0, <2>1, <2>2, RequestStep DEF LockCheck
<1>7. \A ip \in IPs : ban[ip] > 0 => Guessing(ip)' \subseteq Guessing(ip)
  BY <1>5, <1>6, GuessingMoves
<1>8. NoBanNoGuess' /\ GuessesLeft'
  BY <1>7, NoMoreGuesses DEF LockCheck
<1>9. TypeOK'
  BY <1>0, <1>3, <1>5 DEF LockCheck, TypeOK, OnlyMoves, RequestType, settingVars, banVars
<1> QED BY <1>4, <1>8, <1>9 DEF PanelInv, SettingsDurable, LockCheck, settingVars

(* CheckPassword: a guess that might be made becomes one that was made.    *)
LEMMA CheckPasswordStep ==
    ASSUME PanelInv, NEW q \in Reqs, CheckPassword(q)
    PROVE  PanelInv'
<1>0. TypeOK /\ BanLocks /\ NoBanNoGuess /\ GuessesLeft
  BY DEF PanelInv
<1>1. IP(q) \in IPs
  BY <1>0 DEF TypeOK, IP
<1>2. OnlyMoves(q) /\ req'[q].pc # "check"
  BY <1>0, RequestStep DEF CheckPassword
<1>3. /\ UNCHANGED <<settingVars, online, fails, cookie, crashes, ban>>
      /\ \A ip \in IPs : extra'[ip] = extra[ip] \/ (ip = IP(q) /\ ban[ip] > 0 /\ extra'[ip] = extra[ip] + 1)
      /\ extra' \in [IPs -> Nat]
  BY <1>0, <1>1 DEF CheckPassword, TypeOK
<1>4. GuessesLeft'
  <2> SUFFICES ASSUME NEW ip \in IPs, ban[ip] > 0
               PROVE  extra'[ip] + Cardinality(Guessing(ip)') <= Cardinality(Reqs) - 1
    BY <1>3 DEF GuessesLeft
  <2>1. extra[ip] + Cardinality(Guessing(ip)) <= Cardinality(Reqs) - 1 /\ extra[ip] \in Nat
    BY <1>0 DEF GuessesLeft, TypeOK
  <2>2. Guessing(ip)' \in SUBSET (Guessing(ip) \ {q})
    BY <1>2, GuessingMoves DEF Guessing, At
  <2>3. IsFiniteSet(Guessing(ip) \ {q}) /\ Cardinality(Guessing(ip)) \in Nat /\ Cardinality(Reqs) \in Nat
    BY GuessingFinite, FS_RemoveElement
  <2>4. Cardinality(Guessing(ip)') \in Nat /\ Cardinality(Guessing(ip)') <= Cardinality(Guessing(ip) \ {q})
    BY <2>2, <2>3, FS_Subset, FS_CardinalityType
  <2>5. CASE ip = IP(q)
    <3>1. q \in Guessing(ip)
      BY <2>5 DEF Guessing, CheckPassword
    <3>2. Cardinality(Guessing(ip) \ {q}) = Cardinality(Guessing(ip)) - 1
      BY <3>1, GuessingFinite, FS_RemoveElement
    <3>3. extra'[ip] = extra[ip] \/ extra'[ip] = extra[ip] + 1
      BY <1>3
    <3>4. Cardinality(Guessing(ip)') <= Cardinality(Guessing(ip)) - 1
      BY <2>4, <3>2
    <3>5. CASE extra'[ip] = extra[ip]
      BY <2>1, <2>3, <2>4, <3>4, <3>5
    <3>6. CASE extra'[ip] = extra[ip] + 1
      BY <2>1, <2>3, <2>4, <3>4, <3>6
    <3> QED BY <3>3, <3>5, <3>6
  <2>6. CASE ip # IP(q)
    <3>1. Guessing(ip) \ {q} = Guessing(ip)
      BY <2>6 DEF Guessing
    <3>2. extra'[ip] = extra[ip]
      BY <1>3, <2>6
    <3>3. Cardinality(Guessing(ip)') <= Cardinality(Guessing(ip))
      BY <2>4, <3>1
    <3> QED BY <2>1, <2>3, <2>4, <3>2, <3>3
  <2> QED BY <2>5, <2>6
<1>5. NoBanNoGuess' /\ BanLocks' /\ SettingsDurable'
  BY <1>0, <1>3, PanelAssumption DEF PanelInv, NoBanNoGuess, BanLocks, SettingsDurable, TypeOK, settingVars
<1>6. TypeOK'
  BY <1>0, <1>2, <1>3 DEF TypeOK, OnlyMoves, RequestType, settingVars
<1> QED BY <1>4, <1>5, <1>6 DEF PanelInv

(* Record: the failure that locks starts a ban, which all the others who   *)
(* are past the lock check may still use.                                  *)
LEMMA RecordStep ==
    ASSUME PanelInv, NEW q \in Reqs, Record(q)
    PROVE  PanelInv'
<1>0. TypeOK /\ BanLocks /\ NoBanNoGuess /\ GuessesLeft
  BY DEF PanelInv
<1> DEFINE ip == IP(q)
           ft == IF fails[ip] = NoFail THEN [count |-> 0, quiet |-> 0, lock |-> 0] ELSE fails[ip]
           full == ft.count + 1 >= MaxFails
           new == [count |-> IF full THEN 0 ELSE ft.count + 1, quiet |-> 0, lock |-> IF full THEN LockTime ELSE ft.lock]
<1>1. ip \in IPs
  BY <1>0 DEF TypeOK, IP
<1>2. OnlyMoves(q) /\ req'[q].pc = "idle"
  BY <1>0, RequestStep DEF Record
<1>3. /\ fails' = [fails EXCEPT ![ip] = new] /\ ban' = IF full THEN [ban EXCEPT ![ip] = LockTime] ELSE ban
      /\ UNCHANGED <<settingVars, online, cookie, crashes, extra>>
  BY DEF Record
<1>4. ft \in FailTrack
  BY <1>0, <1>1, PanelAssumption DEF TypeOK, FailTrack
<1>5. new \in FailTrack /\ new # NoFail
  BY <1>4, PanelAssumption DEF FailTrack
<1>6. fails' \in [IPs -> FailTrack \cup {NoFail}] /\ ban' \in [IPs -> 0 .. LockTime]
  <2>1. fails' \in [IPs -> FailTrack \cup {NoFail}]
    <3> HIDE DEF new
    <3> QED BY <1>0, <1>3, <1>5 DEF TypeOK
  <2>2. ban' \in [IPs -> 0 .. LockTime]
    <3>1. LockTime \in 0 .. LockTime
      BY PanelAssumption
    <3> QED BY <1>0, <1>3, <3>1 DEF TypeOK
  <2> QED BY <2>1, <2>2
<1>7. TypeOK'
  BY <1>0, <1>2, <1>3, <1>6 DEF TypeOK, OnlyMoves, RequestType, settingVars
<1>8. BanLocks'
  <2> SUFFICES ASSUME NEW a \in IPs, ban'[a] > 0 PROVE fails'[a] # NoFail /\ ban'[a] <= fails'[a].lock
    BY DEF BanLocks
  <2>1. CASE a # ip
    BY <1>0, <1>1, <1>3, <2>1 DEF BanLocks, TypeOK
  <2>2. CASE a = ip
    <3>1. fails'[a] = new
      BY <1>0, <1>1, <1>3, <2>2 DEF TypeOK
    <3>2. CASE full
      <4>1. ban'[a] = LockTime /\ new.lock = LockTime
        BY <1>0, <1>1, <1>3, <2>2, <3>2 DEF TypeOK
      <4> QED BY <1>5, <3>1, <4>1, PanelAssumption
    <3>3. CASE ~full
      <4>1. ban'[a] = ban[ip] /\ new.lock = ft.lock
        BY <1>3, <2>2, <3>3
      <4>2. ft = fails[ip] /\ ban[ip] <= ft.lock
        BY <1>0, <1>1, <2>2, <4>1 DEF BanLocks
      <4> QED BY <1>5, <3>1, <4>1, <4>2
    <3> QED BY <3>2, <3>3
  <2> QED BY <2>1, <2>2
<1>9. GuessesLeft'
  <2> SUFFICES ASSUME NEW a \in IPs, ban'[a] > 0
               PROVE  extra'[a] + Cardinality(Guessing(a)') <= Cardinality(Reqs) - 1
    BY DEF GuessesLeft
  <2>0. ban[a] \in Nat /\ extra[a] \in Nat /\ extra'[a] = extra[a]
    BY <1>0, <1>3, PanelAssumption DEF TypeOK
  <2>1. Guessing(a)' = Guessing(a)
    <3>1. Guessing(a)' \ {q} = Guessing(a) \ {q}
      BY <1>2, GuessingMoves
    <3>2. q \notin Guessing(a) /\ q \notin Guessing(a)'
      BY <1>2 DEF Guessing, At, Record
    <3> QED BY <3>1, <3>2
  <2>2. Cardinality(Guessing(a)) <= Cardinality(Reqs) - 1 /\ Cardinality(Guessing(a)) \in Nat
    BY GuessingFinite DEF Record, At
  <2>3. CASE ban[a] > 0
    BY <1>0, <2>0, <2>1, <2>3 DEF GuessesLeft
  <2>4. CASE ban[a] = 0
    <3>1. extra[a] = 0
      BY <1>0, <2>4 DEF NoBanNoGuess
    <3> QED BY <2>0, <2>1, <2>2, <3>1
  <2> QED BY <2>0, <2>3, <2>4
<1>10. NoBanNoGuess' /\ SettingsDurable'
  BY <1>0, <1>3, PanelAssumption DEF PanelInv, NoBanNoGuess, SettingsDurable, TypeOK, settingVars
<1> QED BY <1>7, <1>8, <1>9, <1>10 DEF PanelInv

(* The right password ends the ban and the count with it.                  *)
LEMMA ClearStep ==
    ASSUME PanelInv, NEW q \in Reqs, Clear(q)
    PROVE  PanelInv'
<1>0. TypeOK /\ BanLocks /\ NoBanNoGuess /\ GuessesLeft
  BY DEF PanelInv
<1>1. IP(q) \in IPs
  BY <1>0 DEF TypeOK, IP
<1>2. OnlyMoves(q) /\ req'[q].pc = "idle"
  BY <1>0, RequestStep DEF Clear
<1>3. \A ip \in IPs : IF ip = IP(q) THEN ban'[ip] = 0 /\ extra'[ip] = 0
                      ELSE ban'[ip] = ban[ip] /\ extra'[ip] = extra[ip] /\ fails'[ip] = fails[ip]
  BY <1>0, <1>1 DEF Clear, TypeOK
<1>4. /\ fails' \in [IPs -> FailTrack \cup {NoFail}] /\ cookie' \in [IPs -> 0 .. TTL]
      /\ ban' \in [IPs -> 0 .. LockTime] /\ extra' \in [IPs -> Nat]
  <2>1. 0 \in 0 .. LockTime /\ TTL \in 0 .. TTL
    BY PanelAssumption
  <2> QED BY <1>0, <2>1 DEF Clear, TypeOK
<1>5. TypeOK'
  BY <1>0, <1>2, <1>4 DEF Clear, TypeOK, OnlyMoves, RequestType, settingVars
<1>6. BanLocks' /\ NoBanNoGuess'
  BY <1>0, <1>3 DEF BanLocks, NoBanNoGuess
<1>7. GuessesLeft'
  <2>1. \A ip \in IPs : Guessing(ip)' \ {q} = Guessing(ip) \ {q}
    BY <1>2, GuessingMoves
  <2>2. \A ip \in IPs : q \notin Guessing(ip) /\ q \notin Guessing(ip)'
    BY <1>2 DEF Guessing, At, Clear
  <2>3. \A ip \in IPs : Guessing(ip)' = Guessing(ip)
    BY <2>1, <2>2
  <2> QED BY <1>0, <1>3, <2>3 DEF GuessesLeft
<1> QED BY <1>5, <1>6, <1>7 DEF PanelInv, Clear, SettingsDurable, settingVars

(* Time takes ban and lock down together.                                  *)
LEMMA TickStep ==
    ASSUME PanelInv, Tick
    PROVE  PanelInv'
<1>0. TypeOK /\ BanLocks /\ NoBanNoGuess /\ GuessesLeft
  BY DEF PanelInv
<1>1. \A n \in Nat : Less(n) \in Nat /\ Less(n) <= n /\ (n <= 1 <=> Less(n) = 0) /\ \A m \in Nat : m <= n => Less(m) <= Less(n)
  BY DEF Less
<1>2. \A ip \in IPs : /\ ban[ip] \in Nat /\ ban'[ip] = Less(ban[ip])
                      /\ extra'[ip] = IF ban[ip] <= 1 THEN 0 ELSE extra[ip]
  <2>1. \A ip \in IPs : ban[ip] \in Nat
    BY <1>0, PanelAssumption DEF TypeOK
  <2>2. \A ip \in IPs : ban'[ip] = Less(ban[ip]) /\ extra'[ip] = IF ban[ip] <= 1 THEN 0 ELSE extra[ip]
    BY DEF Tick
  <2> QED BY <2>1, <2>2
<1>3. \A ip \in IPs : /\ fails'[ip] \in FailTrack \cup {NoFail}
                      /\ fails[ip] # NoFail => fails'[ip] # NoFail /\ fails'[ip].lock = Less(fails[ip].lock)
  <2> SUFFICES ASSUME NEW ip \in IPs, fails[ip] # NoFail
               PROVE  /\ fails'[ip] \in FailTrack /\ fails'[ip].lock = Less(fails[ip].lock)
    BY <1>0, PanelAssumption DEF Tick
  <2>1. fails[ip] \in FailTrack
    BY <1>0 DEF TypeOK
  <2>2. fails'[ip] = [fails[ip] EXCEPT !.lock = Less(@), !.quiet = IF @ > LockTime THEN @ ELSE @ + 1]
    BY DEF Tick
  <2>3. Less(fails[ip].lock) \in 0 .. LockTime
    BY <1>1, <2>1, PanelAssumption DEF FailTrack
  <2>4. (IF fails[ip].quiet > LockTime THEN fails[ip].quiet ELSE fails[ip].quiet + 1) \in 0 .. LockTime + 1
    BY <2>1, PanelAssumption DEF FailTrack
  <2> QED BY <2>1, <2>2, <2>3, <2>4 DEF FailTrack
<1>4. BanLocks'
  BY <1>0, <1>1, <1>2, <1>3, PanelAssumption DEF BanLocks, TypeOK, FailTrack
<1>5. NoBanNoGuess'
  BY <1>1, <1>2 DEF NoBanNoGuess
<1>6. GuessesLeft'
  <2>1. \A ip \in IPs : Guessing(ip)' = Guessing(ip)
    BY DEF Guessing, At, IP, Tick
  <2>2. \A ip \in IPs : ban'[ip] > 0 => ban[ip] > 0 /\ extra'[ip] = extra[ip]
    BY <1>1, <1>2
  <2> QED BY <1>0, <2>1, <2>2 DEF GuessesLeft
<1>7. TypeOK'
  <2>1. fails' \in [IPs -> FailTrack \cup {NoFail}]
    BY <1>3 DEF Tick
  <2>2. cookie' \in [IPs -> 0 .. TTL]
    <3>1. \A ip \in IPs : Less(cookie[ip]) \in 0 .. TTL
      BY <1>0, <1>1, PanelAssumption DEF TypeOK
    <3> QED BY <3>1 DEF Tick
  <2>3. ban' \in [IPs -> 0 .. LockTime] /\ extra' \in [IPs -> Nat]
    <3>1. \A ip \in IPs : Less(ban[ip]) \in 0 .. LockTime
      BY <1>0, <1>1, PanelAssumption DEF TypeOK
    <3>2. \A ip \in IPs : (IF ban[ip] <= 1 THEN 0 ELSE extra[ip]) \in Nat
      BY <1>0 DEF TypeOK
    <3> QED BY <3>1, <3>2 DEF Tick
  <2> QED BY <1>0, <2>1, <2>2, <2>3 DEF Tick, TypeOK, settingVars
<1> QED BY <1>4, <1>5, <1>6, <1>7 DEF PanelInv, Tick, SettingsDurable, settingVars

LEMMA PanelInvariant == Spec => []PanelInv
<1>1. PanelInv /\ [Next]_vars => PanelInv'
  <2> SUFFICES ASSUME PanelInv, [Next]_vars PROVE PanelInv'
    OBVIOUS
  <2>0. TypeOK /\ SettingsDurable /\ BanLocks /\ NoBanNoGuess /\ GuessesLeft
    BY DEF PanelInv
  <2>1. ASSUME NEW q \in Reqs, NEW ip \in IPs, NEW kind \in {"login", "op"}, NEW p \in Passwords, Begin(q, ip, kind, p)
        PROVE  PanelInv'
    <3> DEFINE passed == IF kind = "login" THEN "lock" ELSE "session"
               new == [pc |-> IF ip \in Loopback THEN passed ELSE "black", kind |-> kind, ip |-> ip, password |-> p]
    <3>1. new \in RequestType /\ new.pc # "check"
      BY DEF RequestType
    <3>2. OnlyMoves(q) /\ req'[q].pc # "check"
      <4>1. req' = [req EXCEPT ![q] = new]
        BY <2>1 DEF Begin
      <4> HIDE DEF new
      <4> QED BY <2>0, <3>1, <4>1 DEF TypeOK, RequestType, OnlyMoves
    <3> QED BY <2>0, <2>1, <3>2, PassingStep DEF Begin, settingVars, SettingsDurable, TypeOK
  <2>2. ASSUME NEW q \in Reqs, Check(q) \/ Abort(q) PROVE PanelInv'
    <3>1. OnlyMoves(q) /\ req'[q].pc # "check"
      BY <2>0, <2>2, RequestStep DEF Check, Blacklist, Whitelist, Session, Abort, Allowed
    <3>2. UNCHANGED <<settingVars, online, fails, cookie, crashes, banVars>>
      BY <2>2 DEF Check, Blacklist, Whitelist, Session, Abort
    <3> QED BY <2>0, <3>1, <3>2, PassingStep DEF settingVars, SettingsDurable, TypeOK
  <2>3. ASSUME NEW q \in Reqs, NEW new \in Settings, Apply(q, new) PROVE PanelInv'
    <3>1. OnlyMoves(q) /\ req'[q].pc # "check"
      BY <2>0, <2>3, RequestStep DEF Apply
    <3>2. cfg' \in Settings /\ cfg' = disk'
      BY <2>0, <2>3 DEF Apply, Commit, SettingsDurable, TypeOK
    <3> QED BY <2>3, <3>1, <3>2, PassingStep DEF Apply
  <2>4. ASSUME NEW q \in Reqs, Operation(q) PROVE PanelInv'
    <3>1. \A p \in Passwords : [cfg EXCEPT !.password = p] \in Settings
      BY <2>0 DEF TypeOK, Settings
    <3>2. \A l \in Lists : [cfg EXCEPT !.whitelist = l] \in Settings /\ [cfg EXCEPT !.blacklist = l] \in Settings
      BY <2>0, PanelAssumption DEF TypeOK, Settings
    <3> QED BY <2>3, <2>4, <3>1, <3>2, PanelAssumption DEF Operation, SetPassword, SetIPWhitelist, SetIPBlacklist, ImportConfig
  <2>5. ASSUME NEW q \in Reqs, Login(q) PROVE PanelInv'
    BY <2>5, LockCheckStep, CheckPasswordStep, RecordStep, ClearStep DEF Login
  <2>6. ASSUME NEW ip \in IPs, Logout(ip) \/ ClientMoves(ip) PROVE PanelInv'
    <3>1. cookie' \in [IPs -> 0 .. TTL]
      <4>1. 0 \in 0 .. TTL
        BY PanelAssumption
      <4> QED BY <2>0, <2>6, <4>1 DEF Logout, ClientMoves, TypeOK
    <3>2. TypeOK'
      BY <2>0, <2>6, <3>1 DEF Logout, ClientMoves, TypeOK, settingVars, banVars
    <3>3. \A a \in IPs : Guessing(a)' = Guessing(a)
      BY <2>6 DEF Guessing, At, IP, Logout, ClientMoves
    <3>4. UNCHANGED <<settingVars, fails, banVars>>
      BY <2>6 DEF Logout, ClientMoves
    <3>5. NoBanNoGuess' /\ GuessesLeft'
      BY <3>3, <3>4, NoMoreGuesses
    <3> QED BY <2>0, <3>2, <3>4, <3>5 DEF PanelInv, SettingsDurable, BanLocks, settingVars, banVars
  <2>7. CASE Tick
    BY <2>7, TickStep
  <2>8. CASE Restart
    <3>1. Idle \in RequestType
      BY <2>0, IdleTyped DEF TypeOK, Settings
    <3>2. crashes' \in 0 .. MaxCrashes /\ 0 \in 0 .. LockTime
      BY <2>0, <2>8, PanelAssumption DEF Restart, TypeOK
    <3>3. disk.noAuth \in BOOLEAN /\ Loaded \subseteq Settings
      BY <2>0 DEF TypeOK, Settings, Loaded
    <3>4. TypeOK'
      BY <2>0, <2>8, <3>1, <3>2, <3>3 DEF Restart, TypeOK, RequestType
    <3> QED BY <2>8, <3>4 DEF Restart, PanelInv, SettingsDurable, BanLocks, NoBanNoGuess, GuessesLeft
  <2>9. CASE UNCHANGED vars
    <3>1. \A a \in IPs : Guessing(a)' = Guessing(a)
      BY <2>9 DEF Guessing, At, IP, vars
    <3> QED BY <2>0, <2>9, <3>1 DEF vars, PanelInv, TypeOK, SettingsDurable, BanLocks, NoBanNoGuess, GuessesLeft
  <2>10. CASE AdminLogin
    <3>1. Admin \in Reqs /\ AdminIP \in IPs /\ cfg.password \in Passwords
      BY <2>0, PanelAssumption DEF TypeOK, Settings
    <3> QED BY <2>1, <2>10, <3>1 DEF AdminLogin
  <2> QED BY <2>1, <2>2, <2>4, <2>5, <2>6, <2>7, <2>8, <2>9, <2>10 DEF Next
<1> QED BY <1>1, PanelInit, PTL DEF Spec

-----------------------------------------------------------------------------
(***************************************************************************)
(* Every variable keeps its type, whatever requests and restarts cross.    *)
(***************************************************************************)
THEOREM PanelTypeCorrect == Spec => []TypeOK
BY PanelInvariant, PTL DEF PanelInv

(***************************************************************************)
(* Memory and file agree on password and lists after every operation,      *)
(* failing save, import and restart.                                       *)
(***************************************************************************)
THEOREM PanelSettingsDurable == Spec => []SettingsDurable
BY PanelInvariant, PTL DEF PanelInv

(***************************************************************************)
(* While an address is locked, at most one wrong password is checked per   *)
(* other request, for any number of requests and any interleaving of the   *)
(* lock check, CheckPassword and the record of the failure: only those     *)
(* already past the check when the lock was set can still guess.           *)
(***************************************************************************)
THEOREM PanelFewGuessesWhileLocked == Spec => []FewGuessesWhileLocked
<1>1. PanelInv => FewGuessesWhileLocked
  <2> SUFFICES ASSUME PanelInv, NEW ip \in IPs PROVE extra[ip] <= Cardinality(Reqs) - 1
    BY DEF FewGuessesWhileLocked
  <2>1. ban[ip] \in Nat /\ extra[ip] \in Nat
    BY PanelAssumption DEF PanelInv, TypeOK
  <2>2. CASE ban[ip] > 0
    <3>1. extra[ip] + Cardinality(Guessing(ip)) <= Cardinality(Reqs) - 1
      BY <2>2 DEF PanelInv, GuessesLeft
    <3> QED BY <2>1, <3>1, GuessingFinite
  <2>3. CASE ban[ip] = 0
    <3>1. extra[ip] = 0
      BY <2>3 DEF PanelInv, NoBanNoGuess
    <3>2. IsFiniteSet(Reqs) /\ Cardinality(Reqs) \in Nat /\ Cardinality(Reqs) # 0
      BY PanelAssumption, FS_CardinalityType, FS_EmptySet
    <3> QED BY <3>1, <3>2
  <2> QED BY <2>1, <2>2, <2>3
<1> QED BY <1>1, PanelInvariant, PTL
=============================================================================
