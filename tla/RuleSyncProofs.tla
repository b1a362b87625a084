--------------------------- MODULE RuleSyncProofs ---------------------------
(***************************************************************************)
(* Proofs about RuleSync for any rules, panels, sessions and bounds, in    *)
(* every interleaving: no push is missed, a registered TCP listener is     *)
(* open and its rule's own, and a socket that is open without an entry, or *)
(* outlives its session, is one of a rule whose start a stop overtook.     *)
(***************************************************************************)
EXTENDS RuleSync, FiniteSetTheorems, SequenceTheorems, TLAPS

StartPCs == {"bind", "reg", "announce", "failed", "forget", "relay", "run", "done"}
StartType == [sess : Sess, id : Ids, spec : Specs, pc : StartPCs]

(***************************************************************************)
(* The start goroutines that apply spawns: one for each of the rules, and  *)
(* with the rule that was pushed.                                          *)
(***************************************************************************)
LEMMA SpawnedOnePerRule ==
    ASSUME NEW s \in Sess, NEW ids \in SUBSET Ids, NEW rs \in RuleSet, \A id \in ids : rs[id] # NoSpec
    PROVE  /\ Spawned(s, ids, rs) \in Seq(StartType)
           /\ \A i \in DOMAIN Spawned(s, ids, rs) :
                /\ Spawned(s, ids, rs)[i].sess = s /\ Spawned(s, ids, rs)[i].pc = "bind"
                /\ Spawned(s, ids, rs)[i].id \in ids
                /\ Spawned(s, ids, rs)[i].spec = rs[Spawned(s, ids, rs)[i].id]
           /\ \A i, j \in DOMAIN Spawned(s, ids, rs) :
                i # j => Spawned(s, ids, rs)[i].id # Spawned(s, ids, rs)[j].id
<1> DEFINE n == Cardinality(ids)
           Distinct(q) == \A i, j \in DOMAIN q : i # j => q[i] # q[j]
           order == CHOOSE q \in [1 .. n -> ids] : Distinct(q)
<1>1. n \in Nat /\ ExistsBijection(1 .. n, ids)
  BY SpecsAssumption, FS_Subset, FS_CardinalityType
<1>2. \E q \in [1 .. n -> ids] : Distinct(q)
  BY <1>1 DEF ExistsBijection, Bijection, Injection, IsInjective
<1>3. order \in [1 .. n -> ids] /\ Distinct(order)
  BY <1>2
<1>4. Spawned(s, ids, rs) = [i \in DOMAIN order |-> [sess |-> s, id |-> order[i], spec |-> rs[order[i]], pc |-> "bind"]]
  BY DEF Spawned
<1> HIDE DEF order, n
<1>5. DOMAIN order = 1 .. n
  BY <1>3
<1>6. \A i \in 1 .. n : [sess |-> s, id |-> order[i], spec |-> rs[order[i]], pc |-> "bind"] \in StartType
  BY <1>3 DEF StartType, StartPCs, RuleSet
<1>7. Spawned(s, ids, rs) \in Seq(StartType)
  BY <1>1, <1>4, <1>5, <1>6
<1>8. \A i \in 1 .. n : Spawned(s, ids, rs)[i] = [sess |-> s, id |-> order[i], spec |-> rs[order[i]], pc |-> "bind"]
  BY <1>4, <1>5
<1>9. DOMAIN Spawned(s, ids, rs) = 1 .. n
  BY <1>4, <1>5
<1> QED BY <1>3, <1>5, <1>7, <1>8, <1>9

(* What a push brings: the goroutines there were, and new ones behind.     *)
Grown(s, ids, rs) ==
    /\ \A g \in DOMAIN starts : g \in DOMAIN starts' /\ starts'[g] = starts[g]
    /\ \A g \in DOMAIN starts' \ DOMAIN starts :
        /\ starts'[g].sess = s /\ starts'[g].pc = "bind"
        /\ starts'[g].id \in ids /\ starts'[g].spec = rs[starts'[g].id]
    /\ \A g, h \in DOMAIN starts' \ DOMAIN starts : g # h => starts'[g].id # starts'[h].id

LEMMA StartsGrow ==
    ASSUME starts \in Seq(StartType),
           NEW s \in Sess, NEW ids \in SUBSET Ids, NEW rs \in RuleSet, \A id \in ids : rs[id] # NoSpec,
           starts' = starts \o Spawned(s, ids, rs)
    PROVE  starts' \in Seq(StartType) /\ Len(starts) <= Len(starts') /\ Grown(s, ids, rs)
<1> DEFINE new == Spawned(s, ids, rs)
<1>1. new \in Seq(StartType)
  BY SpawnedOnePerRule
<1>2. /\ starts' \in Seq(StartType) /\ Len(starts') = Len(starts) + Len(new)
      /\ \A i \in 1 .. Len(starts) + Len(new) : starts'[i] = IF i <= Len(starts) THEN starts[i] ELSE new[i - Len(starts)]
  BY <1>1, ConcatProperties
<1>3. /\ Len(starts) \in Nat /\ Len(new) \in Nat /\ DOMAIN starts = 1 .. Len(starts)
      /\ DOMAIN starts' = 1 .. Len(starts) + Len(new) /\ DOMAIN new = 1 .. Len(new)
  BY <1>1, <1>2, LenProperties
<1>4. \A g \in DOMAIN starts : g \in DOMAIN starts' /\ starts'[g] = starts[g]
  BY <1>2, <1>3
<1>5. \A g \in DOMAIN starts' \ DOMAIN starts :
          g - Len(starts) \in DOMAIN new /\ starts'[g] = new[g - Len(starts)]
  BY <1>2, <1>3
<1>6. \A g \in DOMAIN starts' \ DOMAIN starts :
          /\ starts'[g].sess = s /\ starts'[g].pc = "bind"
          /\ starts'[g].id \in ids /\ starts'[g].spec = rs[starts'[g].id]
  BY <1>5, SpawnedOnePerRule
<1>7. ASSUME NEW g \in DOMAIN starts' \ DOMAIN starts, NEW h \in DOMAIN starts' \ DOMAIN starts, g # h
      PROVE  starts'[g].id # starts'[h].id
  <2>1. g - Len(starts) # h - Len(starts)
    BY <1>3, <1>7
  <2>2. new[g - Len(starts)].id # new[h - Len(starts)].id
    BY <1>5, <2>1, SpawnedOnePerRule
  <2> QED BY <1>5, <2>2
<1>8. Len(starts) <= Len(starts')
  BY <1>2, <1>3
<1> QED BY <1>2, <1>4, <1>6, <1>7, <1>8 DEF Grown

(* A goroutine goes on: only its program counter changes.                  *)
LEMMA StartMoves ==
    ASSUME starts \in Seq(StartType), NEW g \in DOMAIN starts, NEW pc \in StartPCs, Goto(g, pc)
    PROVE  /\ starts' \in Seq(StartType) /\ DOMAIN starts' = DOMAIN starts /\ Len(starts') = Len(starts)
           /\ \A h \in DOMAIN starts : h # g => starts'[h] = starts[h]
           /\ starts'[g].sess = starts[g].sess /\ starts'[g].id = starts[g].id
           /\ starts'[g].spec = starts[g].spec /\ starts'[g].pc = pc
<1>1. DOMAIN starts = 1 .. Len(starts) /\ starts[g] \in StartType
  BY LenProperties, ElementOfSeq
<1> DEFINE new == [starts[g] EXCEPT !.pc = pc]
<1>2. new \in StartType /\ new.sess = starts[g].sess /\ new.id = starts[g].id /\ new.spec = starts[g].spec /\ new.pc = pc
  BY <1>1 DEF StartType
<1>3. starts' = [starts EXCEPT ![g] = new]
  BY DEF Goto
<1> HIDE DEF new
<1>4. /\ starts' \in Seq(StartType) /\ Len(starts') = Len(starts)
      /\ \A h \in 1 .. Len(starts) : starts'[h] = IF h = g THEN new ELSE starts[h]
  BY <1>1, <1>2, <1>3, ExceptSeq
<1>5. DOMAIN starts' = DOMAIN starts
  BY <1>3
<1> QED BY <1>1, <1>2, <1>4, <1>5

-----------------------------------------------------------------------------
PushPCs == {"idle", "collect", "start", "header", "snap", "write", "loop", "done"}
PushType == [pc : PushPCs, to : 0 .. MaxSess, rules : RuleSet]

(* TypeOK in four parts, by who changes the variables.                     *)
ServerType ==
    /\ prompt \in BOOLEAN /\ want \in RuleSet /\ changes \in 0 .. MaxChanges
    /\ cur \in 0 .. last /\ last \in 0 .. MaxSess
    /\ srvClosed \subseteq 1 .. last /\ cliClosed \subseteq 1 .. last
PusherType ==
    push \in [Pushers -> PushType] /\ cs \subseteq 1 .. last /\ sent \in [Sess -> SUBSET RuleSet]
StreamType ==
    /\ chan \in [Sess -> Seq(RuleSet \cup {Header})]
    /\ back \in [Sess -> Seq([id : Ids, st : {"ok", "fail"}])]
    /\ status \in [Sess -> [Ids -> {"none", "ok", "fail"}]]
ManagerType ==
    /\ mgr \in [Sess -> {"wait", "control", "ended"}] /\ mrules \in [Sess -> RuleSet]
    /\ lns \in [Sess -> [Protos \X Ids -> 0 .. Len(starts)]]
    /\ starts \in Seq(StartType) /\ open \subseteq DOMAIN starts
    /\ crossed \subseteq Sess \X Ids

LEMMA TypeInParts == TypeOK <=> ServerType /\ PusherType /\ StreamType /\ ManagerType
BY DEF TypeOK, ServerType, PusherType, StreamType, ManagerType, PushType, PushPCs, StartType, StartPCs

(* setupControl of a session only starts when the session is there, and    *)
(* pushes to no other.                                                     *)
SetupOwn == \A s \in Sess : push[s].pc # "idle" => s <= last /\ push[s].to = s

LEMMA NoRules == None \in RuleSet /\ \A s \in Sess : s \in 0 .. MaxSess /\ s \in Pushers
BY BoundsAssumption DEF None, RuleSet, Sess, Pushers

(* A pusher goes on.                                                       *)
LEMMA PusherMoves ==
    ASSUME push \in [Pushers -> PushType], NEW p \in Pushers, NEW pc \in PushPCs, NEW to \in 0 .. MaxSess,
           NEW rs \in RuleSet, SetPush(p, pc, to, rs)
    PROVE  /\ push' \in [Pushers -> PushType]
           /\ push'[p] = [pc |-> pc, to |-> to, rules |-> rs] /\ push'[p].to = to
           /\ \A r \in Pushers : r # p => push'[r] = push[r]
BY DEF SetPush, PushType

(* A frame that is written or lost.                                        *)
LEMMA DeliverTyped ==
    ASSUME StreamType, NEW s \in Sess, NEW frame \in RuleSet \cup {Header}, Deliver(s, frame)
    PROVE  chan' \in [Sess -> Seq(RuleSet \cup {Header})]
<1>1. Append(chan[s], frame) \in Seq(RuleSet \cup {Header})
  BY AppendProperties DEF StreamType
<1> QED BY <1>1 DEF StreamType, Deliver

PushInv == ServerType /\ PusherType /\ StreamType /\ SetupOwn

(* The section of broadcastRules or pushRulesTo a pusher is in.            *)
LEMMA PusherTyped ==
    ASSUME PushInv, NEW p \in Pushers, Pusher(p)
    PROVE  PushInv'
<1>0. /\ push \in [Pushers -> PushType] /\ want \in RuleSet /\ cur \in 0 .. MaxSess
      /\ None \in RuleSet /\ last \in 0 .. MaxSess /\ push[p] \in PushType
  BY NoRules, BoundsAssumption DEF PushInv, ServerType, PusherType
<1>1. push[p].to \in 0 .. MaxSess /\ push[p].rules \in RuleSet
  BY <1>0 DEF PushType
<1>2. /\ push' \in [Pushers -> PushType]
      /\ \A r \in Pushers : r # p => push'[r] = push[r]
      /\ p \in Sess => push[p].pc # "idle" /\ push'[p].to = push[p].to
  <2>1. CASE Collect(p)
    <3>1. PICK pc \in PushPCs, to \in 0 .. MaxSess : SetPush(p, pc, to, None)
      BY <1>0, <2>1, BoundsAssumption DEF Collect, PushPCs
    <3>2. p \notin Sess
      BY <2>1, BoundsAssumption DEF Collect
    <3> QED BY <1>0, <3>1, <3>2, PusherMoves
  <2>2. CASE Snap(p)
    <3>1. PICK pc \in PushPCs, rs \in RuleSet : SetPush(p, pc, push[p].to, rs)
      BY <1>0, <2>2 DEF Snap, PushPCs
    <3>2. push' \in [Pushers -> PushType] /\ push'[p].to = push[p].to /\ \A r \in Pushers : r # p => push'[r] = push[r]
      BY <1>0, <1>1, <3>1, PusherMoves
    <3> QED BY <2>2, <3>2 DEF Snap
  <2>3. CASE Write(p)
    <3>1. PICK pc \in PushPCs : SetPush(p, pc, push[p].to, None)
      BY <2>3 DEF Write, PushPCs
    <3>2. push' \in [Pushers -> PushType] /\ push'[p].to = push[p].to /\ \A r \in Pushers : r # p => push'[r] = push[r]
      BY <1>0, <1>1, <3>1, PusherMoves
    <3> QED BY <2>3, <3>2 DEF Write
  <2> QED BY <2>1, <2>2, <2>3 DEF Pusher
<1>3. UNCHANGED <<srvVars, cs, back, status>>
  BY DEF Pusher, Collect, Snap, Write, PushFrame, srvVars
<1>4. sent' \in [Sess -> SUBSET RuleSet]
  <2>1. CASE Collect(p) \/ Snap(p)
    BY <2>1 DEF Collect, Snap, PushInv, PusherType
  <2>2. CASE Write(p)
    BY <1>1, <2>2 DEF Write, PushInv, PusherType
  <2> QED BY <2>1, <2>2 DEF Pusher
<1>5. chan' \in [Sess -> Seq(RuleSet \cup {Header})]
  <2>1. CASE Collect(p) \/ Snap(p)
    BY <2>1 DEF Collect, Snap, PushInv, StreamType
  <2>2. CASE Write(p)
    <3>1. CASE push[p].to \in Sess
      BY <1>1, <2>2, <3>1, DeliverTyped DEF Write, PushInv
    <3>2. CASE push[p].to \notin Sess
      BY <2>2, <3>2 DEF Write, Deliver, PushInv, StreamType
    <3> QED BY <3>1, <3>2
  <2> QED BY <2>1, <2>2 DEF Pusher
<1>6. SetupOwn'
  BY <1>2, <1>3, NoRules DEF SetupOwn, PushInv, srvVars
<1> QED BY <1>2, <1>3, <1>4, <1>5, <1>6 DEF PushInv, ServerType, PusherType, StreamType, srvVars

(* A session is made, or ends at one end.                                  *)
LEMMA SessionTyped ==
    ASSUME PushInv, Connect \/ \E s \in Sess : CliClose(s) \/ SrvClose(s) \/ Deregister(s)
    PROVE  PushInv'
<1>0. ServerType /\ PusherType /\ StreamType /\ SetupOwn /\ MaxSess \in Nat
  BY BoundsAssumption DEF PushInv
<1>1. CASE Connect
  <2>1. last + 1 \in Sess /\ last' = last + 1 /\ last \in Nat /\ last + 1 \in 0 .. MaxSess /\ last + 1 \in Pushers
    BY <1>0, <1>1, NoRules DEF Connect, ServerType, Sess
  <2>2. SetPush(last + 1, "start", last + 1, None)
    BY <1>1 DEF Connect, SetPush
  <2>3. /\ push' \in [Pushers -> PushType]
        /\ push'[last + 1] = [pc |-> "start", to |-> last + 1, rules |-> None]
        /\ \A r \in Pushers : r # last + 1 => push'[r] = push[r]
    BY <1>0, <2>1, <2>2, NoRules, PusherMoves DEF PusherType, PushPCs
  <2>4. ServerType'
    <3>1. UNCHANGED <<prompt, want, changes, cliClosed>> /\ cur' = last + 1
          /\ srvClosed' = srvClosed \cup ({cur} \ {0})
      BY <1>1 DEF Connect
    <3>2. srvClosed' \subseteq 1 .. last' /\ cliClosed' \subseteq 1 .. last'
      BY <1>0, <2>1, <3>1 DEF ServerType
    <3>3. cur' \in 0 .. last' /\ last' \in 0 .. MaxSess
      BY <2>1, <3>1
    <3> QED BY <1>0, <3>1, <3>2, <3>3 DEF ServerType
  <2>5. PusherType' /\ StreamType'
    <3>1. UNCHANGED <<cs, sent, chan, back, status>>
      BY <1>1 DEF Connect
    <3>2. cs' \subseteq 1 .. last'
      BY <1>0, <2>1, <3>1 DEF PusherType
    <3> QED BY <1>0, <2>3, <3>1, <3>2 DEF PusherType, StreamType
  <2>6. SetupOwn'
    BY <1>0, <2>1, <2>3, NoRules DEF SetupOwn, Sess
  <2> QED BY <2>4, <2>5, <2>6 DEF PushInv
<1>2. CASE \E s \in Sess : CliClose(s) \/ SrvClose(s) \/ Deregister(s)
  <2>1. ServerType'
    <3> PICK s \in Sess : CliClose(s) \/ SrvClose(s) \/ Deregister(s)
      BY <1>2
    <3>1. CASE CliClose(s)
      BY <1>0, <3>1 DEF ServerType, CliClose
    <3>2. CASE SrvClose(s)
      BY <1>0, <3>2 DEF ServerType, SrvClose
    <3>3. CASE Deregister(s)
      BY <1>0, <3>3 DEF ServerType, Deregister
    <3> QED BY <3>1, <3>2, <3>3
  <2>2. UNCHANGED <<last, pushVars, chan, back, status>>
    BY <1>2 DEF CliClose, SrvClose, Deregister
  <2> QED BY <1>0, <2>1, <2>2 DEF PushInv, PusherType, StreamType, SetupOwn, pushVars
<1> QED BY <1>1, <1>2

(* A panel changes the rules.                                              *)
LEMMA ChangeTyped ==
    ASSUME PushInv, NEW p \in Panels, NEW rs \in Offered, Change(p, rs)
    PROVE  PushInv'
<1>0. ServerType /\ PusherType /\ StreamType /\ SetupOwn
  BY DEF PushInv
<1>1. rs \in RuleSet /\ p \in Pushers /\ p \notin Sess /\ 0 \in 0 .. MaxSess
  BY SpecsAssumption, BoundsAssumption DEF Offered, Pushers
<1>2. push' \in [Pushers -> PushType] /\ \A r \in Pushers : r # p => push'[r] = push[r]
  BY <1>0, <1>1, NoRules, PusherMoves DEF Change, PusherType, PushPCs
<1>3. ServerType'
  BY <1>0, <1>1, BoundsAssumption DEF Change, ServerType, PushFrame
<1>4. UNCHANGED <<last, cs, sent, chan, back, status>>
  BY DEF Change, PushFrame
<1>5. SetupOwn'
  BY <1>0, <1>1, <1>2, <1>4, NoRules DEF SetupOwn
<1> QED BY <1>0, <1>2, <1>3, <1>4, <1>5 DEF PushInv, PusherType, StreamType

(* setupControl goes on.                                                   *)
LEMMA SetupTyped ==
    ASSUME PushInv, NEW s \in Sess, SetupOpen(s) \/ SetupHeader(s) \/ SetupStatus(s) \/ SetupEnd(s)
    PROVE  PushInv'
<1>0. ServerType /\ PusherType /\ StreamType /\ SetupOwn /\ s \in Pushers /\ s \in 0 .. MaxSess
  BY NoRules DEF PushInv
<1>1. CASE SetupStatus(s)
  <2>1. back[s] \in Seq([id : Ids, st : {"ok", "fail"}]) /\ back[s] # <<>>
    BY <1>0, <1>1 DEF SetupStatus, StreamType
  <2>2. Head(back[s]) \in [id : Ids, st : {"ok", "fail"}] /\ Tail(back[s]) \in Seq([id : Ids, st : {"ok", "fail"}])
    BY <2>1, HeadTailProperties
  <2>3. Head(back[s]).id \in Ids /\ Head(back[s]).st \in {"none", "ok", "fail"}
    BY <2>2
  <2>4. StreamType'
    BY <1>0, <1>1, <2>2, <2>3 DEF SetupStatus, StreamType
  <2>5. UNCHANGED <<srvVars, pushVars>>
    BY <1>1 DEF SetupStatus
  <2> QED BY <1>0, <2>4, <2>5 DEF PushInv, ServerType, PusherType, SetupOwn, srvVars, pushVars
<1>2. CASE SetupOpen(s) \/ SetupHeader(s) \/ SetupEnd(s)
  <2>1. PICK pc \in PushPCs : SetPush(s, pc, s, None)
    BY <1>2 DEF SetupOpen, SetupHeader, SetupEnd, PushPCs
  <2>2. push' \in [Pushers -> PushType] /\ push'[s].to = s /\ \A r \in Pushers : r # s => push'[r] = push[r]
    BY <1>0, <2>1, NoRules, PusherMoves DEF PusherType
  <2>3. push[s].pc # "idle" /\ s \in 1 .. last
    BY <1>0, <1>2 DEF SetupOpen, SetupHeader, SetupEnd, SetupOwn, ServerType, Sess
  <2>4. UNCHANGED <<srvVars, status>>
    BY <1>2 DEF SetupOpen, SetupHeader, SetupEnd, PushFrame, srvVars
  <2>5. cs' \subseteq 1 .. last /\ sent' \in [Sess -> SUBSET RuleSet]
    BY <1>0, <1>2, <2>3 DEF SetupOpen, SetupHeader, SetupEnd, PusherType
  <2>6. StreamType'
    <3>1. CASE SetupOpen(s)
      BY <1>0, <3>1 DEF SetupOpen, PushFrame, StreamType
    <3>2. CASE SetupHeader(s)
      BY <1>0, <3>2, DeliverTyped DEF SetupHeader, PushFrame, StreamType
    <3>3. CASE SetupEnd(s)
      BY <1>0, <3>3, EmptySeq DEF SetupEnd, StreamType
    <3> QED BY <1>2, <3>1, <3>2, <3>3
  <2>7. SetupOwn'
    BY <1>0, <2>2, <2>3, <2>4, NoRules DEF SetupOwn, ServerType, srvVars
  <2> QED BY <1>0, <2>2, <2>4, <2>5, <2>6, <2>7 DEF PushInv, ServerType, PusherType, srvVars
<1> QED BY <1>1, <1>2

-----------------------------------------------------------------------------
(***************************************************************************)
(* The header is written once, so handleControl reads nothing but pushes,  *)
(* although pushes may be written before the header.                       *)
(***************************************************************************)
HeadersIn(s) == {i \in DOMAIN chan[s] : chan[s][i] = Header}
HeaderOnce ==
    \A s \in Sess :
        /\ \A i, j \in HeadersIn(s) : i = j
        /\ mgr[s] = "control" => HeadersIn(s) = {}
        /\ push[s].pc \in {"idle", "start", "header"} => HeadersIn(s) = {} /\ mgr[s] # "control"

LEMMA AppendFrame ==
    ASSUME StreamType, NEW s \in Sess, NEW frame \in RuleSet \cup {Header},
           chan' = [chan EXCEPT ![s] = Append(chan[s], frame)]
    PROVE  /\ frame # Header => HeadersIn(s)' = HeadersIn(s)
           /\ HeadersIn(s) = {} => \A i, j \in HeadersIn(s)' : i = j
<1> DEFINE q == chan[s]
           r == Append(q, frame)
<1>1. q \in Seq(RuleSet \cup {Header}) /\ chan'[s] = r
  BY DEF StreamType
<1> HIDE DEF q
<1>2. /\ r \in Seq(RuleSet \cup {Header}) /\ Len(r) = Len(q) + 1
      /\ \A i \in 1 .. Len(q) : r[i] = q[i]
      /\ r[Len(q) + 1] = frame
  BY <1>1, AppendProperties
<1> HIDE DEF r
<1>3. Len(q) \in Nat /\ DOMAIN q = 1 .. Len(q) /\ DOMAIN r = 1 .. Len(q) + 1
  BY <1>1, <1>2, LenProperties
<1>4. HeadersIn(s) = {i \in 1 .. Len(q) : q[i] = Header} /\ HeadersIn(s)' = {i \in 1 .. Len(q) + 1 : r[i] = Header}
  BY <1>1, <1>3 DEF HeadersIn, q
<1>5. frame # Header => HeadersIn(s)' = HeadersIn(s)
  BY <1>2, <1>3, <1>4
<1>6. HeadersIn(s) = {} => \A i \in HeadersIn(s)' : i = Len(q) + 1
  BY <1>2, <1>3, <1>4
<1> QED BY <1>5, <1>6

LEMMA TailFrame ==
    ASSUME StreamType, NEW s \in Sess, chan[s] # <<>>, \A i, j \in HeadersIn(s) : i = j,
           chan' = [chan EXCEPT ![s] = Tail(@)]
    PROVE  /\ chan' \in [Sess -> Seq(RuleSet \cup {Header})] /\ Head(chan[s]) \in RuleSet \cup {Header}
           /\ \A i, j \in HeadersIn(s)' : i = j
           /\ HeadersIn(s) = {} \/ Head(chan[s]) = Header => HeadersIn(s)' = {}
           /\ HeadersIn(s) = {} => Head(chan[s]) # Header
<1> DEFINE q == chan[s]
           r == Tail(q)
<1>1. q \in Seq(RuleSet \cup {Header}) /\ chan'[s] = r /\ q # <<>>
  BY DEF StreamType
<1> HIDE DEF q
<1>2. /\ r \in Seq(RuleSet \cup {Header}) /\ Len(r) = Len(q) - 1 /\ Head(q) \in RuleSet \cup {Header}
      /\ \A i \in 1 .. Len(r) : r[i] = q[i + 1]
  BY <1>1, HeadTailProperties
<1>3. Len(q) \in Nat \ {0} /\ Head(q) = q[1]
  BY <1>1, EmptySeq
<1> HIDE DEF r
<1>4. DOMAIN q = 1 .. Len(q) /\ DOMAIN r = 1 .. Len(q) - 1
  BY <1>1, <1>2, LenProperties
<1>5. HeadersIn(s) = {i \in 1 .. Len(q) : q[i] = Header} /\ HeadersIn(s)' = {i \in 1 .. Len(q) - 1 : r[i] = Header}
  BY <1>1, <1>4 DEF HeadersIn, q
<1>6. \A i \in HeadersIn(s)' : i \in Nat /\ i + 1 \in HeadersIn(s) /\ i + 1 # 1
  BY <1>2, <1>3, <1>5
<1>7. \A i, j \in HeadersIn(s)' : i = j
  BY <1>6
<1>8. Head(q) = Header <=> 1 \in HeadersIn(s)
  BY <1>3, <1>5
<1>9. HeadersIn(s) = {} \/ Head(q) = Header => HeadersIn(s)' = {}
  BY <1>6, <1>8
<1>10. chan' \in [Sess -> Seq(RuleSet \cup {Header})]
  BY <1>2 DEF StreamType, r, q
<1> QED BY <1>2, <1>7, <1>8, <1>9, <1>10 DEF q

(* What the server's processes leave of HeaderOnce.                        *)
LEMMA SameHeaders ==
    ASSUME HeaderOnce, UNCHANGED <<chan, mgr>>,
           \A s \in Sess : push'[s].pc \in {"idle", "start", "header"} => push[s].pc \in {"idle", "start", "header"}
    PROVE  HeaderOnce'
BY DEF HeaderOnce, HeadersIn

LEMMA ServerHeaderOnce ==
    ASSUME PushInv, HeaderOnce,
           \/ Connect
           \/ \E s \in Sess : CliClose(s) \/ SrvClose(s) \/ Server(s)
           \/ \E p \in Panels, rs \in Offered : Change(p, rs)
           \/ \E p \in Pushers : Pusher(p)
    PROVE  HeaderOnce'
<1>0. ServerType /\ PusherType /\ StreamType /\ SetupOwn /\ (\A s \in Sess : s \in Pushers) /\ push \in [Pushers -> PushType]
  BY NoRules DEF PushInv, PusherType
<1>1. CASE Connect
  <2>1. last + 1 \in Sess /\ last \in Nat /\ push' = [push EXCEPT ![last + 1] = [pc |-> "start", to |-> last + 1, rules |-> None]]
    BY <1>0, <1>1, BoundsAssumption DEF Connect, ServerType, Sess
  <2>2. push[last + 1].pc = "idle"
    BY <1>0, <2>1 DEF SetupOwn
  <2>3. UNCHANGED <<chan, mgr>>
    BY <1>1 DEF Connect, mgrVars
  <2> QED BY <1>0, <2>1, <2>2, <2>3, SameHeaders
<1>2. ASSUME NEW s \in Sess, CliClose(s) \/ SrvClose(s) \/ Deregister(s) \/ SetupStatus(s) PROVE HeaderOnce'
  <2>1. UNCHANGED <<chan, mgr, push>>
    BY <1>2 DEF CliClose, SrvClose, Deregister, SetupStatus, mgrVars, pushVars
  <2> QED BY <2>1, SameHeaders
<1>3. ASSUME NEW p \in Panels, NEW rs \in Offered, Change(p, rs) PROVE HeaderOnce'
  <2>1. UNCHANGED <<chan, mgr>> /\ push' = [push EXCEPT ![p] = [pc |-> "collect", to |-> 0, rules |-> None]]
    BY <1>3 DEF Change, SetPush, PushFrame, mgrVars
  <2> QED BY <1>0, <2>1, SameHeaders
<1>4. ASSUME NEW p \in Pushers, Collect(p) \/ Snap(p) PROVE HeaderOnce'
  <2>1. UNCHANGED <<chan, mgr>>
    BY <1>4 DEF Collect, Snap, PushFrame, mgrVars
  <2>2. \A s \in Sess : s # p => push'[s] = push[s]
    BY <1>0, <1>4 DEF Collect, Snap, SetPush
  <2>3. p \in Sess => push'[p].pc \in {"write", "loop"}
    BY <1>0, <1>4, BoundsAssumption DEF Collect, Snap, SetPush
  <2> QED BY <2>1, <2>2, <2>3, SameHeaders
<1>5. ASSUME NEW p \in Pushers, Write(p) PROVE HeaderOnce'
  <2>1. PICK s, f :
            /\ f \in RuleSet \cup {Header} /\ f # Header /\ mgr' = mgr
            /\ chan' = chan \/ chan' = [chan EXCEPT ![s] = Append(chan[s], f)]
    <3>1. push[p].rules \in RuleSet \cup {Header} /\ push[p].rules # Header
      BY <1>0, SpecsAssumption DEF PushType
    <3> QED BY <1>5, <3>1 DEF Write, Deliver, PushFrame, mgrVars
  <2>2. \A r \in Sess : push'[r].pc \in {"idle", "start", "header"} => push[r].pc \in {"idle", "start", "header"}
    <3>1. \A r \in Sess : r # p => push'[r] = push[r]
      BY <1>0, <1>5 DEF Write, SetPush
    <3>2. p \in Sess => push'[p].pc = "loop"
      BY <1>0, <1>5, BoundsAssumption DEF Write, SetPush
    <3> QED BY <3>1, <3>2
  <2>3. CASE chan' = chan \/ s \notin Sess
    <3>1. chan' = chan
      BY <1>0, <2>1, <2>3 DEF StreamType
    <3> QED BY <2>1, <2>2, <3>1, SameHeaders
  <2>4. CASE s \in Sess /\ chan' = [chan EXCEPT ![s] = Append(chan[s], f)]
    <3>1. HeadersIn(s)' = HeadersIn(s)
      BY <1>0, <2>1, <2>4, AppendFrame
    <3>2. \A r \in Sess : r # s => chan'[r] = chan[r]
      BY <1>0, <2>4 DEF StreamType
    <3>3. \A r \in Sess : r # s => HeadersIn(r)' = HeadersIn(r)
      BY <3>2 DEF HeadersIn
    <3>4. \A r \in Sess : HeadersIn(r)' = HeadersIn(r)
      BY <3>1, <3>3
    <3> QED BY <2>1, <2>2, <3>4 DEF HeaderOnce
  <2> QED BY <2>1, <2>3, <2>4
<1>6. ASSUME NEW s \in Sess, SetupOpen(s) \/ SetupEnd(s) PROVE HeaderOnce'
  <2>1. UNCHANGED <<chan, mgr>> /\ push[s].pc \in {"start", "loop"}
    BY <1>6 DEF SetupOpen, SetupEnd, PushFrame, mgrVars
  <2>2. \A r \in Sess : r # s => push'[r] = push[r]
    BY <1>0, <1>6 DEF SetupOpen, SetupEnd, SetPush
  <2>3. push'[s].pc = "done" \/ (push'[s].pc = "header" /\ push[s].pc = "start")
    BY <1>0, <1>6 DEF SetupOpen, SetupEnd, SetPush
  <2> QED BY <2>1, <2>2, <2>3, SameHeaders
<1>7. ASSUME NEW s \in Sess, SetupHeader(s) PROVE HeaderOnce'
  <2>1. mgr' = mgr /\ (chan' = chan \/ chan' = [chan EXCEPT ![s] = Append(chan[s], Header)]) /\ push[s].pc = "header"
    BY <1>7 DEF SetupHeader, Deliver, PushFrame, mgrVars
  <2>2. /\ \A r \in Sess : r # s => push'[r] = push[r]
        /\ push'[s].pc \in {"done", "snap"}
    BY <1>0, <1>7 DEF SetupHeader, SetPush
  <2>3. CASE chan' = chan
    BY <2>1, <2>2, <2>3, SameHeaders
  <2>4. CASE chan' = [chan EXCEPT ![s] = Append(chan[s], Header)]
    <3>1. HeadersIn(s) = {} /\ mgr[s] # "control"
      BY <2>1 DEF HeaderOnce
    <3>2. \A i, j \in HeadersIn(s)' : i = j
      BY <1>0, <2>4, <3>1, AppendFrame
    <3>3. \A r \in Sess : r # s => HeadersIn(r)' = HeadersIn(r)
      BY <1>0, <2>4 DEF StreamType, HeadersIn
    <3> QED BY <2>1, <2>2, <3>1, <3>2, <3>3 DEF HeaderOnce
  <2> QED BY <2>1, <2>3, <2>4
<1> QED BY <1>1, <1>2, <1>3, <1>4, <1>5, <1>6, <1>7 DEF Server, Pusher

-----------------------------------------------------------------------------
BaseInv == PushInv /\ ManagerType /\ HeaderOnce

(* What apply does with the rules of a push.                               *)
Applied(s, rs, gone, new) ==
    /\ gone = {id \in Ids : mrules[s][id] # NoSpec /\ (rs[id] = NoSpec \/ ~Same(rs[id], mrules[s][id]))}
    /\ new = {id \in Ids : rs[id] # NoSpec /\ (mrules[s][id] = NoSpec \/ id \in gone)}
    /\ open' = open \ Stopped(s, gone)
    /\ lns' = [lns EXCEPT ![s] = Unregister(s, gone)]
    /\ mrules' = [mrules EXCEPT ![s] = [id \in Ids |-> IF id \in new THEN rs[id]
                                        ELSE IF id \in gone THEN NoSpec ELSE mrules[s][id]]]
    /\ starts' = starts \o Spawned(s, new, rs)
    /\ crossed' = crossed \cup Overtaken(s, gone, Unfinished)

LEMMA PushIsApplied ==
    ASSUME BaseInv, NEW s \in Sess, ApplyPush(s)
    PROVE  /\ \E rs \in RuleSet, gone \in SUBSET Ids, new \in SUBSET Ids : Applied(s, rs, gone, new)
           /\ chan' \in [Sess -> Seq(RuleSet \cup {Header})] /\ HeadersIn(s)' = {}
           /\ \A r \in Sess : r # s => chan'[r] = chan[r]
<1> DEFINE rs == Head(chan[s])
           gone == {id \in Ids : mrules[s][id] # NoSpec /\ (rs[id] = NoSpec \/ ~Same(rs[id], mrules[s][id]))}
           new == {id \in Ids : rs[id] # NoSpec /\ (mrules[s][id] = NoSpec \/ id \in gone)}
<1>1. StreamType /\ HeadersIn(s) = {} /\ chan[s] # <<>> /\ chan' = [chan EXCEPT ![s] = Tail(@)]
  BY DEF BaseInv, PushInv, HeaderOnce, ApplyPush
<1>2. chan' \in [Sess -> Seq(RuleSet \cup {Header})] /\ rs \in RuleSet /\ HeadersIn(s)' = {}
  BY <1>1, TailFrame
<1>3. Applied(s, rs, gone, new)
  <2>1. mrules \in [Sess -> RuleSet]
    BY DEF BaseInv, ManagerType
  <2> QED BY <2>1 DEF ApplyPush, Applied
<1>4. \A r \in Sess : r # s => chan'[r] = chan[r]
  BY <1>1 DEF StreamType
<1> HIDE DEF rs, gone, new
<1>5. gone \in SUBSET Ids /\ new \in SUBSET Ids
  BY <1>3 DEF Applied
<1> QED BY <1>2, <1>3, <1>4, <1>5

(* The rules whose start a stop overtakes.                                 *)
LEMMA OvertakenTyped ==
    ASSUME NEW s \in Sess, NEW ids \in SUBSET Ids, NEW at
    PROVE  Overtaken(s, ids, at) \subseteq Sess \X Ids
BY DEF Overtaken

(* stopLocked keeps the map a map of the session's listeners.              *)
LEMMA UnregisterTyped ==
    ASSUME ManagerType, NEW s \in Sess, NEW ids \in SUBSET Ids
    PROVE  /\ Unregister(s, ids) \in [Protos \X Ids -> 0 .. Len(starts)]
           /\ \A k \in Protos \X Ids : Unregister(s, ids)[k] = IF k[2] \in ids THEN 0 ELSE lns[s][k]
<1>1. lns[s] \in [Protos \X Ids -> 0 .. Len(starts)] /\ Len(starts) \in Nat
  BY LenProperties DEF ManagerType
<1> QED BY <1>1 DEF Unregister

(* The client's control handler.                                           *)
LEMMA ClientTyped ==
    ASSUME BaseInv, NEW s \in Sess, Client(s)
    PROVE  BaseInv'
<1>0. /\ ServerType /\ PusherType /\ StreamType /\ SetupOwn /\ ManagerType /\ HeaderOnce
      /\ Len(starts) \in Nat /\ DOMAIN starts = 1 .. Len(starts)
  BY LenProperties DEF BaseInv, PushInv, ManagerType
<1>1. UNCHANGED <<srvVars, pushVars, status, back>>
  BY DEF Client, ReadHeader, ApplyPush, ControlEnd, MgrFrame
<1>2. ServerType' /\ PusherType' /\ SetupOwn'
  BY <1>0, <1>1 DEF ServerType, PusherType, SetupOwn, srvVars, pushVars
<1>3. /\ chan' \in [Sess -> Seq(RuleSet \cup {Header})] /\ mgr' \in [Sess -> {"wait", "control", "ended"}]
      /\ \A r \in Sess : r # s => chan'[r] = chan[r] /\ mgr'[r] = mgr[r]
      /\ \A i, j \in HeadersIn(s)' : i = j
      /\ mgr'[s] = "control" => HeadersIn(s)' = {} /\ push[s].pc \notin {"idle", "start", "header"}
      /\ HeadersIn(s) = {} => HeadersIn(s)' = {}
  <2>1. CASE ReadHeader(s)
    <3>1. CASE Head(chan[s]) = Header
      <4>1. mgr' = [mgr EXCEPT ![s] = "control"] /\ chan' = [chan EXCEPT ![s] = Tail(@)] /\ chan[s] # <<>>
        BY <2>1, <3>1 DEF ReadHeader
      <4>2. /\ chan' \in [Sess -> Seq(RuleSet \cup {Header})] /\ HeadersIn(s)' = {} /\ HeadersIn(s) # {}
            /\ \A i, j \in HeadersIn(s)' : i = j
        BY <1>0, <3>1, <4>1, TailFrame DEF HeaderOnce
      <4> QED BY <1>0, <4>1, <4>2 DEF ManagerType, StreamType, HeaderOnce
    <3>2. CASE Head(chan[s]) # Header
      <4>1. mgr' = [mgr EXCEPT ![s] = "ended"] /\ chan' = [chan EXCEPT ![s] = <<>>]
        BY <2>1, <3>2 DEF ReadHeader
      <4>2. chan' \in [Sess -> Seq(RuleSet \cup {Header})] /\ chan'[s] = <<>> /\ \A r \in Sess : r # s => chan'[r] = chan[r]
        BY <1>0, <4>1, EmptySeq DEF StreamType
      <4> QED BY <1>0, <4>1, <4>2 DEF ManagerType, HeadersIn
    <3> QED BY <3>1, <3>2
  <2>2. CASE ApplyPush(s)
    <3>1. chan' \in [Sess -> Seq(RuleSet \cup {Header})] /\ HeadersIn(s)' = {} /\ \A r \in Sess : r # s => chan'[r] = chan[r]
      BY <2>2, PushIsApplied
    <3>2. mgr' = mgr /\ mgr[s] = "control"
      BY <2>2 DEF ApplyPush
    <3> QED BY <1>0, <3>1, <3>2 DEF ManagerType, HeaderOnce
  <2>3. CASE ControlEnd(s)
    <3>1. mgr' = [mgr EXCEPT ![s] = "ended"] /\ chan' = [chan EXCEPT ![s] = <<>>]
      BY <2>3 DEF ControlEnd
    <3>2. chan' \in [Sess -> Seq(RuleSet \cup {Header})] /\ chan'[s] = <<>> /\ \A r \in Sess : r # s => chan'[r] = chan[r]
      BY <1>0, <3>1, EmptySeq DEF StreamType
    <3> QED BY <1>0, <3>1, <3>2 DEF ManagerType, HeadersIn
  <2> QED BY <2>1, <2>2, <2>3 DEF Client
<1>4. HeaderOnce'
  <2>1. \A r \in Sess : r # s => HeadersIn(r)' = HeadersIn(r)
    BY <1>3 DEF HeadersIn
  <2>2. \A r \in Sess : push'[r] = push[r]
    BY <1>1 DEF pushVars
  <2>3. push[s].pc \in {"idle", "start", "header"} => HeadersIn(s) = {}
    BY <1>0 DEF HeaderOnce
  <2>4. ASSUME NEW r \in Sess
        PROVE  /\ \A i, j \in HeadersIn(r)' : i = j
               /\ mgr'[r] = "control" => HeadersIn(r)' = {}
               /\ push'[r].pc \in {"idle", "start", "header"} => HeadersIn(r)' = {} /\ mgr'[r] # "control"
    <3>1. CASE r = s
      BY <1>3, <2>2, <2>3, <3>1
    <3>2. CASE r # s
      BY <1>0, <1>3, <2>1, <2>2, <3>2 DEF HeaderOnce
    <3> QED BY <3>1, <3>2
  <2> QED BY <2>4 DEF HeaderOnce
<1>5. ManagerType'
  <2>1. CASE ReadHeader(s)
    BY <1>0, <1>3, <2>1 DEF ReadHeader, ManagerType
  <2>2. CASE ApplyPush(s)
    <3>1. PICK rs \in RuleSet, gone \in SUBSET Ids, new \in SUBSET Ids : Applied(s, rs, gone, new)
      BY <2>2, PushIsApplied
    <3>2. starts' \in Seq(StartType) /\ Len(starts) <= Len(starts') /\ DOMAIN starts \subseteq DOMAIN starts'
      <4>1. starts' = starts \o Spawned(s, new, rs) /\ \A id \in new : rs[id] # NoSpec
        BY <3>1 DEF Applied
      <4>2. starts' \in Seq(StartType) /\ Len(starts) <= Len(starts') /\ Grown(s, new, rs)
        BY <1>0, <4>1, StartsGrow DEF ManagerType
      <4> QED BY <4>2 DEF Grown
    <3>3. lns' \in [Sess -> [Protos \X Ids -> 0 .. Len(starts')]]
      <4>1. Unregister(s, gone) \in [Protos \X Ids -> 0 .. Len(starts)] /\ Len(starts') \in Nat
        BY <1>0, <3>2, UnregisterTyped, LenProperties
      <4>2. lns' \in [Sess -> [Protos \X Ids -> 0 .. Len(starts)]]
        BY <1>0, <3>1, <4>1 DEF Applied, ManagerType
      <4> QED BY <1>0, <3>2, <4>1, <4>2
    <3>4. mrules' \in [Sess -> RuleSet]
      <4> DEFINE m == [id \in Ids |-> IF id \in new THEN rs[id] ELSE IF id \in gone THEN NoSpec ELSE mrules[s][id]]
      <4>1. m \in RuleSet
        BY <1>0 DEF ManagerType, RuleSet
      <4>2. mrules' = [mrules EXCEPT ![s] = m]
        BY <3>1 DEF Applied
      <4> HIDE DEF m
      <4> QED BY <1>0, <4>1, <4>2 DEF ManagerType
    <3>5. open' \subseteq DOMAIN starts'
      BY <1>0, <3>1, <3>2 DEF Applied, ManagerType
    <3>6. crossed' \subseteq Sess \X Ids
      BY <1>0, <3>1, OvertakenTyped DEF Applied, ManagerType
    <3> QED BY <1>3, <3>2, <3>3, <3>4, <3>5, <3>6 DEF ManagerType
  <2>3. CASE ControlEnd(s)
    <3>1. PICK ids \in SUBSET Ids : /\ open' = open \ Stopped(s, ids) /\ lns' = [lns EXCEPT ![s] = Unregister(s, ids)]
                                   /\ crossed' = crossed \cup Overtaken(s, ids, {"bind", "reg"})
      BY <2>3 DEF ControlEnd
    <3>2. lns' \in [Sess -> [Protos \X Ids -> 0 .. Len(starts)]]
      BY <1>0, <3>1, UnregisterTyped DEF ManagerType
    <3>3. mrules' \in [Sess -> RuleSet] /\ starts' = starts
      BY <1>0, <2>3, NoRules DEF ControlEnd, ManagerType
    <3>4. crossed' \subseteq Sess \X Ids
      BY <1>0, <3>1, OvertakenTyped DEF ManagerType
    <3> QED BY <1>0, <1>3, <3>1, <3>2, <3>3, <3>4 DEF ManagerType
  <2> QED BY <2>1, <2>2, <2>3 DEF Client
<1>6. StreamType'
  BY <1>0, <1>1, <1>3 DEF StreamType
<1> QED BY <1>2, <1>4, <1>5, <1>6 DEF BaseInv, PushInv

(* A start goroutine.                                                      *)
LEMMA StartTyped ==
    ASSUME BaseInv, NEW g \in Starts, Start(g)
    PROVE  /\ BaseInv' /\ g \in DOMAIN starts
           /\ \E pc \in StartPCs : Goto(g, pc)
<1>0. /\ ServerType /\ PusherType /\ StreamType /\ SetupOwn /\ ManagerType /\ HeaderOnce
      /\ Len(starts) \in Nat /\ DOMAIN starts = 1 .. Len(starts)
  BY LenProperties DEF BaseInv, PushInv, ManagerType
<1>1. UNCHANGED <<srvVars, pushVars, chan, mgr, crossed, status>>
  BY DEF Start, Proceed, StreamRefused, Bind, Register, Report, Forget, RelayOpen, RelayEnd, StartFrame
<1>2. PICK pc \in StartPCs : Goto(g, pc)
  BY DEF Start, Proceed, StreamRefused, Bind, Register, Report, Forget, RelayOpen, RelayEnd, StartPCs
<1>3. g \in DOMAIN starts
  BY DEF Start, Proceed, StreamRefused, Bind, Register, Report, Forget, RelayOpen, RelayEnd, At
<1>4. starts[g] \in StartType /\ starts[g].sess \in Sess /\ starts[g].id \in Ids /\ starts[g].spec \in Specs /\ Key(g) \in Protos \X Ids
  <2>1. starts[g] \in StartType
    BY <1>0, <1>3, ElementOfSeq DEF ManagerType
  <2> QED BY <2>1, SpecsAssumption DEF StartType, Key
<1>5. starts' \in Seq(StartType) /\ DOMAIN starts' = DOMAIN starts /\ Len(starts') = Len(starts)
  BY <1>0, <1>2, <1>3, StartMoves DEF ManagerType
<1>6. open' \subseteq DOMAIN starts
  BY <1>0, <1>3 DEF Start, Proceed, StreamRefused, Bind, Register, Report, Forget, RelayOpen, RelayEnd, ManagerType
<1>7. mrules' \in [Sess -> RuleSet]
  <2>1. CASE Forget(g)
    <3> DEFINE m == [mrules[starts[g].sess] EXCEPT ![starts[g].id] = NoSpec]
    <3>1. m \in RuleSet /\ mrules' = [mrules EXCEPT ![starts[g].sess] = m]
      BY <1>0, <1>4, <2>1 DEF Forget, ManagerType, RuleSet
    <3> QED BY <1>0, <3>1 DEF ManagerType
  <2>2. CASE ~Forget(g)
    BY <1>0, <2>2 DEF Start, Proceed, StreamRefused, Bind, Register, Report, RelayOpen, RelayEnd, ManagerType
  <2> QED BY <2>1, <2>2
<1>8. lns' \in [Sess -> [Protos \X Ids -> 0 .. Len(starts')]]
  <2>1. CASE Register(g)
    <3> DEFINE m == [lns[starts[g].sess] EXCEPT ![Key(g)] = g]
    <3>1. g \in 0 .. Len(starts)
      BY <1>0, <1>3
    <3>2. m \in [Protos \X Ids -> 0 .. Len(starts)] /\ lns' = [lns EXCEPT ![starts[g].sess] = m]
      BY <1>0, <1>4, <2>1, <3>1 DEF Register, ManagerType
    <3> QED BY <1>0, <1>5, <3>2 DEF ManagerType
  <2>2. CASE ~Register(g)
    BY <1>0, <1>5, <2>2 DEF Start, Proceed, StreamRefused, Bind, Report, Forget, RelayOpen, RelayEnd, ManagerType
  <2> QED BY <2>1, <2>2
<1>9. back' \in [Sess -> Seq([id : Ids, st : {"ok", "fail"}])]
  <2>1. CASE Report(g)
    <3>1. PICK f \in [id : Ids, st : {"ok", "fail"}] :
              back' = back \/ back' = [back EXCEPT ![starts[g].sess] = Append(@, f)]
      <4> DEFINE f == [id |-> starts[g].id, st |-> IF starts[g].pc = "announce" THEN "ok" ELSE "fail"]
      <4>1. f \in [id : Ids, st : {"ok", "fail"}]
        BY <1>4
      <4>2. back' = back \/ back' = [back EXCEPT ![starts[g].sess] = Append(@, f)]
        BY <2>1 DEF Report
      <4> HIDE DEF f
      <4> QED BY <4>1, <4>2
    <3>2. Append(back[starts[g].sess], f) \in Seq([id : Ids, st : {"ok", "fail"}])
      BY <1>0, <1>4, AppendProperties DEF StreamType
    <3> QED BY <1>0, <3>1, <3>2 DEF StreamType
  <2>2. CASE ~Report(g)
    BY <1>0, <2>2 DEF Start, Proceed, StreamRefused, Bind, Register, Forget, RelayOpen, RelayEnd, StreamType
  <2> QED BY <2>1, <2>2
<1>10. ManagerType'
  BY <1>0, <1>1, <1>5, <1>6, <1>7, <1>8 DEF ManagerType
<1>11. ServerType' /\ PusherType' /\ StreamType' /\ SetupOwn'
  BY <1>0, <1>1, <1>9 DEF ServerType, PusherType, StreamType, SetupOwn, srvVars, pushVars
<1>12. HeaderOnce'
  BY <1>0, <1>1, SameHeaders DEF pushVars
<1> QED BY <1>2, <1>3, <1>10, <1>11, <1>12 DEF BaseInv, PushInv

LEMMA BaseInitially == ASSUME Init PROVE BaseInv
<1>1. starts = <<>> /\ starts \in Seq(StartType) /\ Len(starts) = 0
  BY EmptySeq DEF Init
<1>2. ServerType
  BY SpecsAssumption, BoundsAssumption DEF Init, ServerType, Offered
<1>3. PusherType
  BY NoRules, BoundsAssumption DEF Init, PusherType, PushType, PushPCs
<1>4. StreamType
  <2>1. <<>> \in Seq(RuleSet \cup {Header}) /\ <<>> \in Seq([id : Ids, st : {"ok", "fail"}])
    BY EmptySeq
  <2> QED BY <2>1 DEF Init, StreamType
<1>5. ManagerType
  BY <1>1, NoRules DEF Init, ManagerType
<1>6. SetupOwn /\ HeaderOnce
  BY NoRules DEF Init, SetupOwn, HeaderOnce, HeadersIn
<1> QED BY <1>2, <1>3, <1>4, <1>5, <1>6 DEF BaseInv, PushInv

LEMMA BaseStep == ASSUME BaseInv, [Next]_vars PROVE BaseInv'
<1>0. PushInv /\ ManagerType /\ HeaderOnce
  BY DEF BaseInv
<1>1. CASE \/ Connect
           \/ \E s \in Sess : CliClose(s) \/ SrvClose(s) \/ Server(s)
           \/ \E p \in Panels, rs \in Offered : Change(p, rs)
           \/ \E p \in Pushers : Pusher(p)
  <2>1. PushInv'
    BY <1>0, <1>1, SessionTyped, SetupTyped, ChangeTyped, PusherTyped DEF Server
  <2>2. HeaderOnce'
    BY <1>0, <1>1, ServerHeaderOnce
  <2>3. UNCHANGED mgrVars
    BY <1>1 DEF Connect, CliClose, SrvClose, Server, Deregister, SetupOpen, SetupHeader, SetupStatus, SetupEnd,
                Change, Pusher, Collect, Snap, Write, PushFrame
  <2>4. ManagerType'
    BY <1>0, <2>3 DEF ManagerType, mgrVars
  <2> QED BY <2>1, <2>2, <2>4 DEF BaseInv
<1>2. CASE \E s \in Sess : Client(s)
  BY <1>2, ClientTyped
<1>3. CASE \E g \in Starts : Start(g)
  BY <1>3, StartTyped
<1>4. CASE UNCHANGED vars
  <2>1. PushInv'
    BY <1>0, <1>4 DEF PushInv, ServerType, PusherType, StreamType, SetupOwn, vars, srvVars, pushVars
  <2>2. ManagerType'
    BY <1>0, <1>4 DEF ManagerType, vars, mgrVars
  <2>3. HeaderOnce'
    BY <1>0, <1>4, SameHeaders DEF vars, mgrVars, pushVars
  <2> QED BY <2>1, <2>2, <2>3 DEF BaseInv
<1> QED BY <1>1, <1>2, <1>3, <1>4 DEF Next

LEMMA BaseInvariant == Spec => []BaseInv
BY BaseInitially, BaseStep, PTL DEF Spec

(***************************************************************************)
(* Every variable keeps its type: what apply takes for rules is a rule     *)
(* set, and no entry of m.tcpLns or m.udpConns is beyond the goroutines    *)
(* there are.                                                              *)
(***************************************************************************)
THEOREM SyncTypeCorrect == Spec => []TypeOK
<1>1. BaseInv => TypeOK
  BY TypeInParts DEF BaseInv, PushInv
<1> QED BY <1>1, BaseInvariant, PTL

-----------------------------------------------------------------------------
(* A push on its way that will bring the rules in force to the registered  *)
(* session: its rules are still to be read, or are the ones in force.      *)
Carries(p) ==
    \/ push[p].pc = "collect"
    \/ push[p].to = cur /\ push[p].pc \in {"header", "snap"}
    \/ push[p].to = cur /\ push[p].pc = "write" /\ push[p].rules = want

(* Once cc.cs is set: written, or on its way.                              *)
Covered == cur \in cs => want \in sent[cur] \/ \E p \in Pushers : Carries(p)

(* A step that moves no carrier and takes nothing back.                    *)
LEMMA StillCovered ==
    ASSUME Covered, UNCHANGED <<want, cur>>, cur \in cs' => cur \in cs /\ sent[cur] \subseteq sent'[cur],
           \A p \in Pushers : Carries(p) => push'[p] = push[p]
    PROVE  Covered'
<1>1. \A p \in Pushers : Carries(p) => Carries(p)'
  BY DEF Carries
<1> QED BY <1>1 DEF Covered

LEMMA PusherCovered ==
    ASSUME PushInv, Covered, NEW p \in Pushers, Pusher(p)
    PROVE  Covered'
<1>0. /\ push \in [Pushers -> PushType] /\ cs \subseteq 1 .. last /\ sent \in [Sess -> SUBSET RuleSet]
      /\ UNCHANGED <<want, cur, cs>>
  BY DEF PushInv, PusherType, Pusher, Collect, Snap, Write
<1>1. CASE Collect(p)
  <2>1. sent' = sent
    BY <1>1 DEF Collect
  <2>2. CASE cur = 0
    BY <1>0, <2>2 DEF Covered
  <2>3. CASE cur # 0
    <3>1. push'[p].to = cur /\ push'[p].pc = "snap"
      BY <1>0, <1>1, <2>3 DEF Collect, SetPush
    <3> QED BY <1>0, <3>1 DEF Covered, Carries
  <2> QED BY <2>2, <2>3
<1>2. CASE Snap(p)
  <2>1. sent' = sent /\ \A r \in Pushers : r # p => push'[r] = push[r]
    BY <1>0, <1>2 DEF Snap, SetPush
  <2>2. CASE push[p].to = cur /\ cur \in cs
    <3>1. push'[p].to = cur /\ push'[p].pc = "write" /\ push'[p].rules = want
      BY <1>0, <1>2, <2>2 DEF Snap, SetPush
    <3> QED BY <1>0, <3>1 DEF Covered, Carries
  <2>3. CASE ~(push[p].to = cur /\ cur \in cs)
    <3>1. CASE cur \in cs
      <4>1. ~Carries(p)
        BY <1>2, <2>3, <3>1 DEF Carries, Snap
      <4> QED BY <1>0, <2>1, <4>1, StillCovered
    <3>2. CASE cur \notin cs
      BY <1>0, <3>2 DEF Covered
    <3> QED BY <3>1, <3>2
  <2> QED BY <2>2, <2>3
<1>3. CASE Write(p)
  <2>1. /\ sent' = [sent EXCEPT ![push[p].to] = @ \cup {push[p].rules}] /\ push[p].pc = "write"
        /\ \A r \in Pushers : r # p => push'[r] = push[r]
    BY <1>0, <1>3 DEF Write, SetPush
  <2>2. cur \in cs => cur \in Sess
    BY <1>0, BoundsAssumption DEF PushInv, ServerType, Sess
  <2>3. cur \in cs => sent[cur] \subseteq sent'[cur]
    BY <1>0, <2>1, <2>2
  <2>4. CASE Carries(p) /\ cur \in cs
    <3>1. want \in sent'[cur]
      BY <1>0, <2>1, <2>2, <2>4 DEF Carries
    <3> QED BY <1>0, <3>1 DEF Covered
  <2>5. CASE ~Carries(p) \/ cur \notin cs
    <3>1. CASE ~Carries(p)
      BY <1>0, <2>1, <2>3, <3>1, StillCovered
    <3>2. CASE cur \notin cs
      BY <1>0, <3>2 DEF Covered
    <3> QED BY <2>5, <3>1, <3>2
  <2> QED BY <2>4, <2>5
<1> QED BY <1>1, <1>2, <1>3 DEF Pusher

LEMMA SetupCovered ==
    ASSUME PushInv, Covered, NEW s \in Sess, SetupOpen(s) \/ SetupHeader(s) \/ SetupStatus(s) \/ SetupEnd(s)
    PROVE  Covered'
<1>0. /\ push \in [Pushers -> PushType] /\ sent \in [Sess -> SUBSET RuleSet] /\ s \in Pushers
      /\ push[s].pc # "idle" => push[s].to = s
  BY NoRules DEF PushInv, PusherType, SetupOwn
<1>1. UNCHANGED <<want, cur>>
  BY DEF SetupOpen, SetupHeader, SetupStatus, SetupEnd, srvVars
<1>2. CASE SetupOpen(s)
  <2>1. sent' = sent /\ push[s].pc = "start" /\ \A r \in Pushers : r # s => push'[r] = push[r]
    BY <1>0, <1>2 DEF SetupOpen, SetPush
  <2>2. CASE s \notin srvClosed /\ s = cur
    <3>1. push'[s].to = cur /\ push'[s].pc = "header"
      BY <1>0, <1>2, <2>2 DEF SetupOpen, SetPush
    <3> QED BY <1>0, <1>1, <3>1 DEF Covered, Carries
  <2>3. CASE s \in srvClosed \/ s # cur
    <3>1. cur \in cs' => cur \in cs
      BY <1>2, <2>3 DEF SetupOpen
    <3>2. ~Carries(s)
      BY <2>1 DEF Carries
    <3> QED BY <1>1, <2>1, <3>1, <3>2, StillCovered
  <2> QED BY <2>2, <2>3
<1>3. CASE SetupHeader(s)
  <2>1. sent' = sent /\ push[s].pc = "header" /\ \A r \in Pushers : r # s => push'[r] = push[r]
    BY <1>0, <1>3 DEF SetupHeader, SetPush
  <2>2. CASE s \notin srvClosed /\ s = cur
    <3>1. push'[s].to = cur /\ push'[s].pc = "snap"
      BY <1>0, <1>3, <2>2 DEF SetupHeader, SetPush
    <3> QED BY <1>0, <1>1, <3>1 DEF Covered, Carries
  <2>3. CASE s \in srvClosed /\ s = cur
    BY <1>1, <1>3, <2>3 DEF SetupHeader, Covered
  <2>4. CASE s # cur
    <3>1. cur \in cs' => cur \in cs
      BY <1>3, <2>4 DEF SetupHeader
    <3>2. ~Carries(s)
      BY <1>0, <2>1, <2>4 DEF Carries
    <3> QED BY <1>1, <2>1, <3>1, <3>2, StillCovered
  <2> QED BY <2>2, <2>3, <2>4
<1>4. CASE SetupStatus(s)
  BY <1>1, <1>4, StillCovered DEF SetupStatus, pushVars
<1>5. CASE SetupEnd(s)
  <2>1. /\ cs' = cs \ {s} /\ sent' = [sent EXCEPT ![s] = {}] /\ push[s].pc = "loop"
        /\ \A r \in Pushers : r # s => push'[r] = push[r]
    BY <1>0, <1>5 DEF SetupEnd, SetPush
  <2>2. ~Carries(s)
    BY <2>1 DEF Carries
  <2>3. cur \in cs' => cur \in cs /\ sent[cur] \subseteq sent'[cur]
    BY <1>0, <2>1
  <2> QED BY <1>1, <2>1, <2>2, <2>3, StillCovered
<1> QED BY <1>2, <1>3, <1>4, <1>5

(***************************************************************************)
(* No change of the rules is lost between broadcastRules and setupControl, *)
(* whatever the order of the change, the registration, cc.cs = stream and  *)
(* the two snapshots: as soon as cc.cs is set, what is in force has been   *)
(* written or is on its way.                                               *)
(***************************************************************************)
THEOREM SyncNoPushMissed == Spec => []NoPushMissed
<1>1. Init => Covered
  BY DEF Init, Covered
<1>2. ASSUME BaseInv, Covered, [Next]_vars PROVE Covered'
  <2>0. ServerType /\ PusherType /\ PushInv
    BY <1>2 DEF BaseInv, PushInv
  <2>1. CASE Connect
    <3>1. cur' = last + 1 /\ cs' = cs
      BY <2>1 DEF Connect
    <3>2. cur' \notin cs'
      BY <2>0, <3>1 DEF ServerType, PusherType
    <3> QED BY <3>2 DEF Covered
  <2>2. ASSUME NEW s \in Sess, CliClose(s) \/ SrvClose(s) \/ Client(s) PROVE Covered'
    <3>1. UNCHANGED <<want, cur, pushVars>>
      BY <2>2 DEF CliClose, SrvClose, Client, ReadHeader, ApplyPush, ControlEnd, MgrFrame, srvVars
    <3> QED BY <1>2, <3>1, StillCovered DEF pushVars
  <2>3. ASSUME NEW s \in Sess, Deregister(s) PROVE Covered'
    BY <2>0, <2>3 DEF Deregister, pushVars, Covered, PusherType
  <2>4. ASSUME NEW s \in Sess, SetupOpen(s) \/ SetupHeader(s) \/ SetupStatus(s) \/ SetupEnd(s) PROVE Covered'
    BY <1>2, <2>0, <2>4, SetupCovered
  <2>5. ASSUME NEW p \in Panels, NEW rs \in Offered, Change(p, rs) PROVE Covered'
    <3>1. p \in Pushers /\ push'[p].pc = "collect"
      BY <2>0, <2>5 DEF Change, SetPush, Pushers, PusherType
    <3> QED BY <3>1 DEF Covered, Carries
  <2>6. ASSUME NEW p \in Pushers, Pusher(p) PROVE Covered'
    BY <1>2, <2>0, <2>6, PusherCovered
  <2>7. ASSUME NEW g \in Starts, Start(g) PROVE Covered'
    <3>1. UNCHANGED <<want, cur, pushVars>>
      BY <2>7 DEF Start, Proceed, StreamRefused, Bind, Register, Report, Forget, RelayOpen, RelayEnd, StartFrame, srvVars
    <3> QED BY <1>2, <3>1, StillCovered DEF pushVars
  <2>8. CASE UNCHANGED vars
    BY <1>2, <2>8, StillCovered DEF vars, srvVars, pushVars
  <2> QED BY <1>2, <2>1, <2>2, <2>3, <2>4, <2>5, <2>6, <2>7, <2>8 DEF Next, Server
<1>3. Covered => NoPushMissed
  BY DEF Covered, Carries, NoPushMissed, Pushing
<1> QED BY <1>1, <1>2, <1>3, BaseInvariant, PTL DEF Spec

-----------------------------------------------------------------------------
(***************************************************************************)
(* What an entry of the maps says of its goroutine, and which goroutines   *)
(* hold an open socket.                                                    *)
(***************************************************************************)
EntriesMatch ==
    \A s \in Sess, k \in Protos \X Ids, g \in Nat \ {0} : lns[s][k] = g =>
        /\ starts[g].sess = s /\ Key(g) = k
        /\ starts[g].pc \notin {"bind", "reg", "failed", "forget"}
        /\ k[1] = "tcp" => g \in open
SocketsOfStarts ==
    \A g \in DOMAIN starts :
        /\ starts[g].pc = "reg" => g \in open
        /\ starts[g].pc \in {"bind", "failed", "forget"} => g \notin open
MapsInv == EntriesMatch /\ SocketsOfStarts

(* The goroutines as ManagerType knows them.                               *)
LEMMA StartFields ==
    ASSUME ManagerType
    PROVE  /\ Len(starts) \in Nat /\ DOMAIN starts = 1 .. Len(starts)
           /\ \A g \in DOMAIN starts : starts[g] \in StartType /\ starts[g].sess \in Sess /\ Key(g) \in Protos \X Ids
           /\ \A s \in Sess, k \in Protos \X Ids : lns[s][k] # 0 => lns[s][k] \in DOMAIN starts
           /\ open \subseteq DOMAIN starts /\ 0 \notin open
<1>1. Len(starts) \in Nat /\ DOMAIN starts = 1 .. Len(starts)
  BY LenProperties DEF ManagerType
<1>2. \A g \in DOMAIN starts : starts[g] \in StartType /\ starts[g].sess \in Sess /\ Key(g) \in Protos \X Ids
  <2> TAKE g \in DOMAIN starts
  <2>1. starts[g] \in StartType
    BY <1>1, ElementOfSeq DEF ManagerType
  <2> QED BY <2>1, SpecsAssumption DEF StartType, Key
<1> QED BY <1>1, <1>2 DEF ManagerType

(* stopLocked closes sockets of its own session, and none that is not yet  *)
(* registered.                                                             *)
LEMMA StopsOwn ==
    ASSUME ManagerType, MapsInv, NEW s \in Sess, NEW ids \in SUBSET Ids
    PROVE  /\ \A g \in Stopped(s, ids) \ {0} :
                /\ g \in DOMAIN starts /\ starts[g].sess = s /\ starts[g].id \in ids /\ lns[s][Key(g)] = g
                /\ starts[g].pc \notin {"bind", "reg", "failed", "forget"}
           /\ \A k \in Protos \X ids : lns[s][k] \in Stopped(s, ids)
<1>1. \A k \in Protos \X ids : k \in Protos \X Ids /\ k[2] \in ids /\ lns[s][k] \in Stopped(s, ids)
  BY DEF Stopped
<1>2. ASSUME NEW g \in Stopped(s, ids) \ {0}
      PROVE  /\ g \in DOMAIN starts /\ starts[g].sess = s /\ starts[g].id \in ids /\ lns[s][Key(g)] = g
             /\ starts[g].pc \notin {"bind", "reg", "failed", "forget"}
  <2>1. PICK k \in Protos \X ids : g = lns[s][k]
    BY DEF Stopped
  <2>2. k \in Protos \X Ids /\ k[2] \in ids
    BY <1>1
  <2>3. g \in DOMAIN starts /\ starts[g].sess = s /\ Key(g) = k /\ starts[g].pc \notin {"bind", "reg", "failed", "forget"}
    BY <1>2, <2>1, <2>2, StartFields DEF MapsInv, EntriesMatch
  <2>4. starts[g].id = k[2]
    BY <2>3 DEF Key
  <2> QED BY <2>1, <2>2, <2>3, <2>4
<1> QED BY <1>1, <1>2

(* A stop, with or without new goroutines behind the old ones.             *)
LEMMA StopKeepsMaps ==
    ASSUME ManagerType, MapsInv, NEW s \in Sess, NEW ids \in SUBSET Ids,
           open' = open \ Stopped(s, ids), lns' = [lns EXCEPT ![s] = Unregister(s, ids)],
           \A g \in DOMAIN starts : g \in DOMAIN starts' /\ starts'[g] = starts[g],
           \A g \in DOMAIN starts' \ DOMAIN starts : starts'[g].pc = "bind"
    PROVE  MapsInv'
<1>1. \A k \in Protos \X Ids : lns'[s][k] = IF k[2] \in ids THEN 0 ELSE lns[s][k]
  <2>1. lns'[s] = Unregister(s, ids)
    BY DEF ManagerType
  <2> QED BY <2>1, UnregisterTyped
<1>2. \A r \in Sess : r # s => lns'[r] = lns[r]
  BY DEF ManagerType
<1>3. ASSUME NEW r \in Sess, NEW k \in Protos \X Ids, NEW g \in Nat \ {0}, lns'[r][k] = g
      PROVE  /\ starts'[g].sess = r /\ Key(g)' = k
             /\ starts'[g].pc \notin {"bind", "reg", "failed", "forget"}
             /\ k[1] = "tcp" => g \in open'
  <2>1. g = lns[r][k] /\ (r = s => k[2] \notin ids)
    BY <1>1, <1>2, <1>3
  <2>2. /\ g \in DOMAIN starts /\ starts[g].sess = r /\ Key(g) = k
        /\ starts[g].pc \notin {"bind", "reg", "failed", "forget"} /\ (k[1] = "tcp" => g \in open)
    BY <2>1, StartFields DEF MapsInv, EntriesMatch
  <2>3. starts'[g] = starts[g]
    BY <2>2
  <2>4. g \notin Stopped(s, ids)
    <3>1. starts[g].id = k[2]
      BY <2>2 DEF Key
    <3> QED BY <2>1, <2>2, <3>1, StopsOwn
  <2> QED BY <2>2, <2>3, <2>4 DEF Key
<1>4. EntriesMatch'
  BY <1>3 DEF EntriesMatch
<1>5. SocketsOfStarts'
  BY StopsOwn, StartFields DEF SocketsOfStarts, MapsInv
<1> QED BY <1>4, <1>5 DEF MapsInv

LEMMA ClientKeepsMaps ==
    ASSUME BaseInv, MapsInv, NEW s \in Sess, Client(s)
    PROVE  MapsInv'
<1>0. ManagerType
  BY DEF BaseInv
<1>1. CASE ReadHeader(s)
  BY <1>1 DEF ReadHeader, MapsInv, EntriesMatch, SocketsOfStarts, Key
<1>2. CASE ApplyPush(s)
  <2>1. PICK rs \in RuleSet, gone \in SUBSET Ids, new \in SUBSET Ids : Applied(s, rs, gone, new)
    BY <1>2, PushIsApplied
  <2>2. starts' = starts \o Spawned(s, new, rs) /\ \A id \in new : rs[id] # NoSpec
    BY <2>1 DEF Applied
  <2>3. /\ \A g \in DOMAIN starts : g \in DOMAIN starts' /\ starts'[g] = starts[g]
        /\ \A g \in DOMAIN starts' \ DOMAIN starts : starts'[g].pc = "bind"
    <3>1. Grown(s, new, rs)
      BY <1>0, <2>2, StartsGrow DEF ManagerType
    <3> QED BY <3>1 DEF Grown
  <2>4. open' = open \ Stopped(s, gone) /\ lns' = [lns EXCEPT ![s] = Unregister(s, gone)]
    BY <2>1 DEF Applied
  <2> QED BY <1>0, <2>3, <2>4, StopKeepsMaps
<1>3. CASE ControlEnd(s)
  <2>1. PICK ids \in SUBSET Ids : open' = open \ Stopped(s, ids) /\ lns' = [lns EXCEPT ![s] = Unregister(s, ids)]
    BY <1>3 DEF ControlEnd
  <2>2. starts' = starts
    BY <1>3 DEF ControlEnd
  <2> QED BY <1>0, <2>1, <2>2, StopKeepsMaps
<1> QED BY <1>1, <1>2, <1>3 DEF Client

(* What a start goroutine's step does to it, the sockets and the maps.     *)
Moved(g, pc) ==
    /\ DOMAIN starts' = DOMAIN starts /\ \A h \in DOMAIN starts : h # g => starts'[h] = starts[h]
    /\ starts'[g].sess = starts[g].sess /\ starts'[g].id = starts[g].id
    /\ starts'[g].spec = starts[g].spec /\ starts'[g].pc = pc
Goes(g, pc) ==
    \/ /\ starts[g].pc = "bind" /\ pc = "reg" /\ open' = open \cup {g} /\ UNCHANGED <<lns, mrules>>
    \/ /\ starts[g].pc = "bind" /\ pc = "failed" /\ UNCHANGED <<open, lns, mrules>>
    \/ /\ starts[g].pc = "reg" /\ pc = "announce" /\ UNCHANGED <<open, mrules>>
       /\ lns' = [lns EXCEPT ![starts[g].sess][Key(g)] = g]
    \/ /\ starts[g].pc = "announce" /\ pc \in {"run", "relay"} /\ UNCHANGED <<open, lns, mrules>>
    \/ /\ starts[g].pc = "failed" /\ pc = "forget" /\ UNCHANGED <<open, lns, mrules>>
    \/ /\ starts[g].pc = "forget" /\ pc = "done" /\ UNCHANGED <<open, lns>>
       /\ mrules' = [mrules EXCEPT ![starts[g].sess][starts[g].id] = NoSpec]
    \/ /\ starts[g].pc = "relay" /\ pc \in {"run", "done"} /\ UNCHANGED <<open, lns, mrules>>
    \/ /\ starts[g].pc = "run" /\ pc = "done" /\ starts[g].spec.proto = "udp"
       /\ open' = open \ {g} /\ UNCHANGED <<lns, mrules>>

LEMMA StartGoes ==
    ASSUME BaseInv, NEW g \in Starts, Start(g)
    PROVE  /\ g \in DOMAIN starts /\ \E pc \in StartPCs : Moved(g, pc) /\ Goes(g, pc)
           /\ UNCHANGED <<mgr, crossed>>
<1>0. ManagerType /\ g \in DOMAIN starts /\ g # 0
  BY StartTyped, StartFields DEF BaseInv
<1>1. PICK pc \in StartPCs : Goto(g, pc)
  BY StartTyped
<1>2. Moved(g, pc)
  BY <1>0, <1>1, StartMoves DEF ManagerType, Moved
<1>3. \A c \in StartPCs : Goto(g, c) => c = pc
  <2> TAKE c \in StartPCs
  <2> HAVE Goto(g, c)
  <2>1. starts'[g].pc = c
    BY <1>0, StartMoves DEF ManagerType
  <2> QED BY <1>2, <2>1 DEF Moved
<1>4. Goes(g, pc)
  <2>1. CASE Bind(g)
    BY <1>3, <2>1 DEF Bind, At, StartPCs, Goes
  <2>2. CASE Register(g)
    BY <1>3, <2>2 DEF Register, At, StartPCs, Goes
  <2>3. CASE Report(g)
    BY <1>3, <2>3 DEF Report, At, StartPCs, Goes
  <2>4. CASE Forget(g)
    BY <1>3, <2>4 DEF Forget, At, StartPCs, Goes
  <2>5. CASE RelayOpen(g)
    BY <1>3, <2>5 DEF RelayOpen, At, StartPCs, Goes
  <2>6. CASE RelayEnd(g)
    BY <1>3, <2>6 DEF RelayEnd, At, StartPCs, Goes
  <2>7. CASE StreamRefused(g)
    BY <1>3, <2>7 DEF StreamRefused, At, StartPCs, Goes
  <2> QED BY <2>1, <2>2, <2>3, <2>4, <2>5, <2>6, <2>7 DEF Start, Proceed
<1>5. UNCHANGED <<mgr, crossed>>
  BY DEF Start, Proceed, StreamRefused, Bind, Register, Report, Forget, RelayOpen, RelayEnd, StartFrame, srvVars
<1> QED BY <1>0, <1>2, <1>4, <1>5

(* A start goroutine registers what it holds and keeps what it registered. *)
LEMMA StartKeepsMaps ==
    ASSUME BaseInv, MapsInv, NEW g \in Starts, Start(g)
    PROVE  MapsInv'
<1>0. ManagerType /\ g \in DOMAIN starts /\ g # 0
  BY StartTyped, StartFields DEF BaseInv
<1>1. PICK pc \in StartPCs : Moved(g, pc) /\ Goes(g, pc)
  BY StartGoes
<1>2. /\ DOMAIN starts' = DOMAIN starts /\ \A h \in DOMAIN starts : h # g => starts'[h] = starts[h]
      /\ starts'[g].sess = starts[g].sess /\ starts'[g].id = starts[g].id
      /\ starts'[g].spec = starts[g].spec /\ starts'[g].pc = pc
  BY <1>1 DEF Moved
<1>3. \A h \in DOMAIN starts : starts'[h].sess = starts[h].sess /\ Key(h)' = Key(h)
  <2> TAKE h \in DOMAIN starts
  <2>1. starts'[h].sess = starts[h].sess /\ starts'[h].id = starts[h].id /\ starts'[h].spec = starts[h].spec
    BY <1>2
  <2> QED BY <2>1 DEF Key
<1>5. SocketsOfStarts'
  BY <1>0, <1>1, <1>2 DEF SocketsOfStarts, MapsInv, Goes
<1>6. EntriesMatch'
  <2> SUFFICES ASSUME NEW r \in Sess, NEW k \in Protos \X Ids, NEW h \in Nat \ {0}, lns'[r][k] = h
               PROVE  /\ starts'[h].sess = r /\ Key(h)' = k
                      /\ starts'[h].pc \notin {"bind", "reg", "failed", "forget"}
                      /\ k[1] = "tcp" => h \in open'
    BY DEF EntriesMatch
  <2>1. CASE h = lns[r][k]
    <3>1. /\ h \in DOMAIN starts /\ starts[h].sess = r /\ Key(h) = k
          /\ starts[h].pc \notin {"bind", "reg", "failed", "forget"} /\ (k[1] = "tcp" => h \in open)
      BY <1>0, <2>1, StartFields DEF MapsInv, EntriesMatch
    <3>2. starts'[h].sess = r /\ Key(h)' = k
      BY <1>3, <3>1
    <3>3. starts'[h].pc \notin {"bind", "reg", "failed", "forget"}
      BY <1>1, <1>2, <3>1 DEF Goes
    <3>4. k[1] = starts[h].spec.proto
      BY <3>1 DEF Key
    <3>5. k[1] = "tcp" => h \in open'
      BY <1>1, <3>1, <3>4 DEF Goes
    <3> QED BY <3>2, <3>3, <3>5
  <2>2. CASE h # lns[r][k]
    <3>1. /\ starts[g].pc = "reg" /\ pc = "announce" /\ open' = open
          /\ lns' = [lns EXCEPT ![starts[g].sess][Key(g)] = g]
      BY <1>1, <2>2 DEF Goes
    <3>2. h = g /\ r = starts[g].sess /\ k = Key(g)
      BY <1>0, <2>2, <3>1, StartFields DEF ManagerType
    <3>3. g \in open
      BY <1>0, <3>1 DEF MapsInv, SocketsOfStarts
    <3> QED BY <1>0, <1>2, <1>3, <3>1, <3>2, <3>3
  <2> QED BY <2>1, <2>2
<1> QED BY <1>5, <1>6 DEF MapsInv

(* The server's steps leave the client's maps and goroutines alone.        *)
LEMMA ServerLeavesClient ==
    ASSUME \/ Connect
           \/ \E s \in Sess : CliClose(s) \/ SrvClose(s) \/ Server(s)
           \/ \E p \in Panels, rs \in Offered : Change(p, rs)
           \/ \E p \in Pushers : Pusher(p)
           \/ UNCHANGED vars
    PROVE  UNCHANGED mgrVars
BY DEF Connect, CliClose, SrvClose, Server, Deregister, SetupOpen, SetupHeader, SetupStatus, SetupEnd,
       Change, Pusher, Collect, Snap, Write, PushFrame, vars, srvVars

LEMMA MapsInvariant == Spec => []MapsInv
<1>1. Init => MapsInv
  BY DEF Init, MapsInv, EntriesMatch, SocketsOfStarts
<1>2. ASSUME BaseInv, MapsInv, [Next]_vars PROVE MapsInv'
  <2>1. CASE \E s \in Sess : Client(s)
    BY <1>2, <2>1, ClientKeepsMaps
  <2>2. CASE \E g \in Starts : Start(g)
    BY <1>2, <2>2, StartKeepsMaps
  <2>3. CASE UNCHANGED mgrVars
    BY <1>2, <2>3 DEF MapsInv, EntriesMatch, SocketsOfStarts, Key, mgrVars
  <2> QED BY <1>2, <2>1, <2>2, <2>3, ServerLeavesClient DEF Next
<1> QED BY <1>1, <1>2, BaseInvariant, PTL DEF Spec

(***************************************************************************)
(* A registered TCP listener is open and is its rule's own, in every       *)
(* interleaving: what stopLocked closes is what apply means to close.      *)
(***************************************************************************)
THEOREM SyncRegisteredIsOpen == Spec => []RegisteredIsOpen
<1>1. BaseInv /\ MapsInv => RegisteredIsOpen
  <2> SUFFICES ASSUME BaseInv, MapsInv PROVE RegisteredIsOpen
    OBVIOUS
  <2>1. ASSUME NEW s \in Sess, NEW id \in Ids, lns[s][<<"tcp", id>>] # 0
        PROVE  /\ lns[s][<<"tcp", id>>] \in open /\ starts[lns[s][<<"tcp", id>>]].sess = s
               /\ starts[lns[s][<<"tcp", id>>]].id = id /\ starts[lns[s][<<"tcp", id>>]].spec.proto = "tcp"
    <3> DEFINE k == <<"tcp", id>>
    <3>1. k \in Protos \X Ids /\ k[1] = "tcp"
      BY DEF Protos
    <3>2. PICK g \in Nat \ {0} : g = lns[s][k]
      BY <2>1, <3>1, StartFields DEF BaseInv
    <3>3. g \in open /\ starts[g].sess = s /\ Key(g) = k
      BY <3>1, <3>2 DEF MapsInv, EntriesMatch
    <3>4. starts[g].id = id /\ starts[g].spec.proto = "tcp"
      BY <3>1, <3>3 DEF Key
    <3> QED BY <3>2, <3>3, <3>4
  <2> QED BY <2>1 DEF RegisteredIsOpen
<1> QED BY <1>1, BaseInvariant, MapsInvariant, PTL

-----------------------------------------------------------------------------
(***************************************************************************)
(* As long as no stop has overtaken a start of a rule: the rule of a       *)
(* goroutine in flight is the one in m.rules; one goroutine of the rule is *)
(* in flight or holds a socket; a socket that went through is registered   *)
(* for the rule in m.rules; after stopAll there is none and none to come.  *)
(***************************************************************************)
Busy(g) == starts[g].pc \in Unfinished
Spared(g) == <<starts[g].sess, starts[g].id>> \notin crossed
Recorded ==
    \A g \in DOMAIN starts : Busy(g) /\ Spared(g) /\ mgr[starts[g].sess] # "ended" =>
        mrules[starts[g].sess][starts[g].id] = starts[g].spec
OnePerRule ==
    \A g, h \in DOMAIN starts :
        /\ g # h /\ starts[g].sess = starts[h].sess /\ mgr[starts[g].sess] # "ended" /\ Spared(g)
        /\ Busy(g) \/ g \in open
        /\ Busy(h) \/ h \in open
        => starts[g].id # starts[h].id
Managed ==
    \A g \in open : starts[g].pc # "reg" /\ Spared(g) /\ mgr[starts[g].sess] # "ended" =>
        /\ lns[starts[g].sess][Key(g)] = g
        /\ mrules[starts[g].sess][starts[g].id] # NoSpec
        /\ Same(mrules[starts[g].sess][starts[g].id], starts[g].spec)
Holds(g) == starts[g].pc \in {"bind", "reg"} \/ g \in open
NoneLeft ==
    \A g \in DOMAIN starts :
        /\ mgr[starts[g].sess] # "wait"
        /\ Holds(g) /\ Spared(g) => mgr[starts[g].sess] # "ended"
AgreeInv == Recorded /\ OnePerRule /\ Managed /\ NoneLeft

(* apply and stopAll: a goroutine of a rule they stop is one they          *)
(* overtake, or its socket is found and closed.                            *)
LEMMA StopsAll ==
    ASSUME ManagerType, MapsInv, AgreeInv, NEW s \in Sess, NEW ids \in SUBSET Ids, NEW at,
           {"bind", "reg"} \subseteq at, at \subseteq Unfinished,
           mgr[s] # "ended", open' = open \ Stopped(s, ids),
           crossed' = crossed \cup Overtaken(s, ids, at)
    PROVE  /\ crossed \subseteq crossed'
           /\ \A g \in DOMAIN starts :
                starts[g].sess = s /\ starts[g].id \in ids /\ <<s, starts[g].id>> \notin crossed' =>
                    starts[g].pc \notin at /\ g \notin open'
           /\ \A r \in Sess, id \in Ids : r # s => (<<r, id>> \in crossed' <=> <<r, id>> \in crossed)
<1>1. ASSUME NEW g \in DOMAIN starts, starts[g].sess = s, starts[g].id \in ids, <<s, starts[g].id>> \notin crossed'
      PROVE  starts[g].pc \notin at /\ g \notin open'
  <2>1. starts[g].pc \notin at /\ Spared(g)
    BY <1>1 DEF Overtaken, Spared
  <2>2. CASE g \in open
    <3>1. starts[g].pc # "reg" /\ Key(g) \in Protos \X Ids
      BY <2>1, StartFields
    <3>2. lns[s][Key(g)] = g
      BY <1>1, <2>1, <2>2, <3>1 DEF AgreeInv, Managed
    <3>3. Key(g) \in Protos \X ids
      BY <1>1, <3>1 DEF Key
    <3> QED BY <2>1, <3>2, <3>3, StopsOwn
  <2>3. CASE g \notin open
    BY <2>1, <2>3
  <2> QED BY <2>2, <2>3
<1>2. ASSUME NEW r \in Sess, NEW id \in Ids, r # s PROVE <<r, id>> \in crossed' <=> <<r, id>> \in crossed
  BY <1>2 DEF Overtaken
<1> QED BY <1>1, <1>2

LEMMA ApplyAgrees ==
    ASSUME BaseInv, MapsInv, AgreeInv, NEW s \in Sess, ApplyPush(s)
    PROVE  AgreeInv'
<1>0. ManagerType /\ mgr[s] = "control" /\ mgr' = mgr /\ open \subseteq DOMAIN starts
  BY StartFields DEF BaseInv, ApplyPush, MgrFrame
<1>1. PICK rs \in RuleSet, gone \in SUBSET Ids, new \in SUBSET Ids : Applied(s, rs, gone, new)
  BY PushIsApplied
<1>2. /\ \A id \in gone : mrules[s][id] # NoSpec
      /\ \A id \in Ids \ gone : mrules[s][id] # NoSpec => id \notin new
      /\ \A id \in new : rs[id] # NoSpec
      /\ open' = open \ Stopped(s, gone) /\ lns' = [lns EXCEPT ![s] = Unregister(s, gone)]
      /\ starts' = starts \o Spawned(s, new, rs)
      /\ crossed' = crossed \cup Overtaken(s, gone, Unfinished)
  BY <1>1 DEF Applied
<1>3. /\ \A r \in Sess : r # s => mrules'[r] = mrules[r] /\ lns'[r] = lns[r]
      /\ \A id \in Ids : mrules'[s][id] = IF id \in new THEN rs[id] ELSE IF id \in gone THEN NoSpec ELSE mrules[s][id]
      /\ \A k \in Protos \X Ids : lns'[s][k] = IF k[2] \in gone THEN 0 ELSE lns[s][k]
  <2>1. lns'[s] = Unregister(s, gone) /\ \A r \in Sess : r # s => lns'[r] = lns[r]
    BY <1>0, <1>2 DEF ManagerType
  <2>2. \A k \in Protos \X Ids : lns'[s][k] = IF k[2] \in gone THEN 0 ELSE lns[s][k]
    BY <1>0, <2>1, UnregisterTyped
  <2>3. /\ \A r \in Sess : r # s => mrules'[r] = mrules[r]
        /\ \A id \in Ids : mrules'[s][id] = IF id \in new THEN rs[id] ELSE IF id \in gone THEN NoSpec ELSE mrules[s][id]
    BY <1>0, <1>1 DEF ManagerType, Applied
  <2> QED BY <2>1, <2>2, <2>3
<1>4. /\ \A g \in DOMAIN starts : g \in DOMAIN starts' /\ starts'[g] = starts[g]
      /\ \A g \in DOMAIN starts' \ DOMAIN starts :
            /\ starts'[g].sess = s /\ starts'[g].pc = "bind"
            /\ starts'[g].id \in new /\ starts'[g].spec = rs[starts'[g].id]
      /\ \A g, h \in DOMAIN starts' \ DOMAIN starts : g # h => starts'[g].id # starts'[h].id
  <2>1. starts \in Seq(StartType)
    BY <1>0 DEF ManagerType
  <2>2. starts' = starts \o Spawned(s, new, rs) /\ \A id \in new : rs[id] # NoSpec
    BY <1>2
  <2>3. Grown(s, new, rs)
    BY <2>1, <2>2, StartsGrow
  <2> QED BY <2>3 DEF Grown
<1>5. /\ crossed \subseteq crossed'
      /\ \A g \in DOMAIN starts :
            starts[g].sess = s /\ starts[g].id \in gone /\ <<s, starts[g].id>> \notin crossed' => ~Busy(g) /\ g \notin open'
      /\ \A r \in Sess, id \in Ids : r # s => (<<r, id>> \in crossed' <=> <<r, id>> \in crossed)
  <2>1. {"bind", "reg"} \subseteq Unfinished
    BY DEF Unfinished
  <2>2. mgr[s] # "ended"
    BY <1>0
  <2>3. open' = open \ Stopped(s, gone) /\ crossed' = crossed \cup Overtaken(s, gone, Unfinished)
    BY <1>2
  <2> QED BY <1>0, <2>1, <2>2, <2>3, StopsAll DEF Busy
<1>6. \A g \in DOMAIN starts : /\ starts[g].sess \in Sess /\ starts[g].id \in Ids /\ Key(g) \in Protos \X Ids
                               /\ Key(g)[2] = starts[g].id /\ (Busy(g)' <=> Busy(g)) /\ Key(g)' = Key(g)
                               /\ (Spared(g)' => Spared(g) /\ <<starts[g].sess, starts[g].id>> \notin crossed')
  <2> TAKE g \in DOMAIN starts
  <2>1. starts[g] \in StartType /\ starts[g].sess \in Sess /\ Key(g) \in Protos \X Ids /\ starts'[g] = starts[g]
    BY <1>0, <1>4, StartFields
  <2>2. starts[g].id \in Ids /\ Key(g)[2] = starts[g].id /\ (Busy(g)' <=> Busy(g)) /\ Key(g)' = Key(g)
    BY <2>1 DEF StartType, Key, Busy
  <2>3. Spared(g)' => Spared(g) /\ <<starts[g].sess, starts[g].id>> \notin crossed'
    BY <1>5, <2>1 DEF Spared
  <2> QED BY <2>1, <2>2, <2>3
<1>7. \A g \in open' : g \in open /\ g \in DOMAIN starts
  BY <1>0, <1>2
<1>8. \A g \in DOMAIN starts : starts[g].sess = s /\ Spared(g)' /\ (Busy(g) \/ g \in open') =>
          /\ starts[g].id \notin new /\ starts[g].id \notin gone
          /\ mrules'[s][starts[g].id] = mrules[s][starts[g].id]
          /\ lns'[s][Key(g)] = lns[s][Key(g)]
  <2> TAKE g \in DOMAIN starts
  <2> HAVE starts[g].sess = s /\ Spared(g)' /\ (Busy(g) \/ g \in open')
  <2>1. Spared(g) /\ starts[g].id \in Ids \ gone
    BY <1>5, <1>6
  <2>2. mrules[s][starts[g].id] # NoSpec
    <3>1. CASE Busy(g)
      <4>1. mrules[s][starts[g].id] = starts[g].spec
        BY <1>0, <2>1, <3>1 DEF AgreeInv, Recorded
      <4>2. starts[g].spec \in Specs
        BY <1>0, StartFields DEF StartType
      <4> QED BY <4>1, <4>2, SpecsAssumption
    <3>2. CASE ~Busy(g) /\ g \in open'
      <4>1. g \in open /\ starts[g].pc # "reg"
        BY <1>7, <3>2 DEF Busy, Unfinished
      <4> QED BY <1>0, <2>1, <4>1 DEF AgreeInv, Managed
    <3> QED BY <3>1, <3>2
  <2>3. starts[g].id \notin new
    BY <1>2, <2>1, <2>2
  <2> QED BY <1>3, <1>6, <2>1, <2>3
<1>9. Recorded'
  <2> SUFFICES ASSUME NEW g \in DOMAIN starts', Busy(g)', Spared(g)', mgr'[starts'[g].sess] # "ended"
               PROVE  mrules'[starts'[g].sess][starts'[g].id] = starts'[g].spec
    BY DEF Recorded
  <2>1. CASE g \in DOMAIN starts
    <3>1. Busy(g) /\ Spared(g) /\ starts'[g] = starts[g] /\ starts[g].sess \in Sess
      BY <1>4, <1>6, <2>1
    <3>2. mrules[starts[g].sess][starts[g].id] = starts[g].spec
      BY <1>0, <2>1, <3>1 DEF AgreeInv, Recorded
    <3>3. mrules'[starts[g].sess][starts[g].id] = mrules[starts[g].sess][starts[g].id]
      BY <1>3, <1>8, <2>1, <3>1
    <3> QED BY <3>1, <3>2, <3>3
  <2>2. CASE g \notin DOMAIN starts
    BY <1>3, <1>4, <2>2
  <2> QED BY <2>1, <2>2
<1>10. OnePerRule'
  <2> SUFFICES ASSUME NEW g \in DOMAIN starts', NEW h \in DOMAIN starts', g # h,
                      starts'[g].sess = starts'[h].sess, mgr'[starts'[g].sess] # "ended", Spared(g)',
                      Busy(g)' \/ g \in open', Busy(h)' \/ h \in open'
               PROVE  starts'[g].id # starts'[h].id
    BY DEF OnePerRule
  <2>1. CASE g \in DOMAIN starts /\ h \in DOMAIN starts
    <3>1. /\ (Busy(g) \/ g \in open) /\ (Busy(h) \/ h \in open) /\ Spared(g)
          /\ starts'[g] = starts[g] /\ starts'[h] = starts[h]
      BY <1>4, <1>6, <1>7, <2>1
    <3> QED BY <1>0, <2>1, <3>1 DEF AgreeInv, OnePerRule
  <2>2. CASE g \notin DOMAIN starts /\ h \notin DOMAIN starts
    BY <1>4, <2>2
  <2>3. ASSUME NEW a \in DOMAIN starts, NEW b \in DOMAIN starts' \ DOMAIN starts,
               starts'[a].sess = starts'[b].sess, Busy(a)' \/ a \in open', Spared(a)'
        PROVE  starts'[a].id # starts'[b].id
    <3>1. starts'[a] = starts[a] /\ starts[a].sess = s /\ starts'[b].id \in new
      BY <1>4, <2>3
    <3>2. Busy(a) \/ a \in open'
      BY <1>6, <2>3
    <3> QED BY <1>8, <2>3, <3>1, <3>2
  <2>4. starts'[g].id = starts'[h].id => Spared(h)'
    BY DEF Spared
  <2> QED BY <2>1, <2>2, <2>3, <2>4
<1>11. Managed'
  <2> SUFFICES ASSUME NEW g \in open', starts'[g].pc # "reg", Spared(g)', mgr'[starts'[g].sess] # "ended"
               PROVE  /\ lns'[starts'[g].sess][Key(g)'] = g
                      /\ mrules'[starts'[g].sess][starts'[g].id] # NoSpec
                      /\ Same(mrules'[starts'[g].sess][starts'[g].id], starts'[g].spec)
    BY DEF Managed, Same
  <2>1. /\ g \in open /\ g \in DOMAIN starts /\ starts'[g] = starts[g] /\ Key(g)' = Key(g)
        /\ starts[g].sess \in Sess /\ Spared(g)
    BY <1>4, <1>6, <1>7
  <2>2. /\ lns[starts[g].sess][Key(g)] = g
        /\ mrules[starts[g].sess][starts[g].id] # NoSpec
        /\ Same(mrules[starts[g].sess][starts[g].id], starts[g].spec)
    BY <1>0, <2>1 DEF AgreeInv, Managed
  <2>3. /\ lns'[starts[g].sess][Key(g)] = lns[starts[g].sess][Key(g)]
        /\ mrules'[starts[g].sess][starts[g].id] = mrules[starts[g].sess][starts[g].id]
    BY <1>3, <1>8, <2>1
  <2> QED BY <2>1, <2>2, <2>3
<1>12. NoneLeft'
  <2> SUFFICES ASSUME NEW g \in DOMAIN starts'
               PROVE  /\ mgr'[starts'[g].sess] # "wait"
                      /\ Holds(g)' /\ Spared(g)' => mgr'[starts'[g].sess] # "ended"
    BY DEF NoneLeft
  <2>1. CASE g \in DOMAIN starts
    <3>1. starts'[g] = starts[g] /\ (Holds(g)' => Holds(g)) /\ (Spared(g)' => Spared(g))
      BY <1>4, <1>6, <1>7, <2>1 DEF Holds
    <3> QED BY <1>0, <2>1, <3>1 DEF AgreeInv, NoneLeft
  <2>2. CASE g \notin DOMAIN starts
    BY <1>0, <1>4, <2>2
  <2> QED BY <2>1, <2>2
<1> QED BY <1>9, <1>10, <1>11, <1>12 DEF AgreeInv

LEMMA EndAgrees ==
    ASSUME BaseInv, MapsInv, AgreeInv, NEW s \in Sess, ReadHeader(s) \/ ControlEnd(s)
    PROVE  AgreeInv'
<1>0. ManagerType /\ open \subseteq DOMAIN starts /\ starts' = starts
  BY StartFields DEF BaseInv, ReadHeader, ControlEnd
<1>1. /\ \A r \in Sess : r # s => lns'[r] = lns[r] /\ mrules'[r] = mrules[r] /\ mgr'[r] = mgr[r]
      /\ open' \subseteq open /\ crossed \subseteq crossed'
      /\ \A g \in DOMAIN starts : starts[g].sess = s => mgr'[s] = "ended" /\ (Spared(g)' => ~Holds(g)')
  <2>1. CASE ReadHeader(s)
    <3>1. /\ mgr[s] = "wait" /\ UNCHANGED <<mrules, lns, open, crossed>>
          /\ \A r \in Sess : r # s => mgr'[r] = mgr[r]
      BY <1>0, <2>1 DEF ReadHeader, ManagerType
    <3>2. \A g \in DOMAIN starts : starts[g].sess # s
      BY <3>1 DEF AgreeInv, NoneLeft
    <3> QED BY <3>1, <3>2
  <2>2. CASE ControlEnd(s)
    <3> DEFINE all == {id \in Ids : mrules[s][id] # NoSpec}
    <3>1. /\ mgr[s] # "ended" /\ mgr' = [mgr EXCEPT ![s] = "ended"]
          /\ open' = open \ Stopped(s, all) /\ mrules' = [mrules EXCEPT ![s] = None]
          /\ lns' = [lns EXCEPT ![s] = Unregister(s, all)]
          /\ crossed' = crossed \cup Overtaken(s, all, {"bind", "reg"})
      BY <2>2 DEF ControlEnd
    <3>2. all \in SUBSET Ids /\ \A id \in Ids : id \notin all => mrules[s][id] = NoSpec
      OBVIOUS
    <3> HIDE DEF all
    <3>3. /\ crossed \subseteq crossed'
          /\ \A g \in DOMAIN starts :
                starts[g].sess = s /\ starts[g].id \in all /\ <<s, starts[g].id>> \notin crossed' =>
                    starts[g].pc \notin {"bind", "reg"} /\ g \notin open'
      <4>1. {"bind", "reg"} \subseteq {"bind", "reg"} /\ {"bind", "reg"} \subseteq Unfinished
        BY DEF Unfinished
      <4> QED BY <1>0, <3>1, <3>2, <4>1, StopsAll
    <3>4. ASSUME NEW g \in DOMAIN starts, starts[g].sess = s, Spared(g)' PROVE ~Holds(g)'
      <4>1. starts'[g] = starts[g] /\ <<s, starts[g].id>> \notin crossed' /\ Spared(g) /\ starts[g] \in StartType
        BY <1>0, <3>3, <3>4, StartFields DEF Spared
      <4>2. starts[g].id \in Ids /\ starts[g].spec # NoSpec
        BY <4>1, SpecsAssumption DEF StartType
      <4>3. CASE starts[g].id \in all
        BY <3>3, <3>4, <4>1, <4>3 DEF Holds
      <4>4. CASE starts[g].id \notin all
        <5>1. mrules[s][starts[g].id] = NoSpec
          BY <3>2, <4>2, <4>4
        <5>2. ~Busy(g)
          BY <3>1, <3>4, <4>1, <4>2, <5>1 DEF AgreeInv, Recorded
        <5>3. starts[g].pc \notin {"bind", "reg"}
          BY <5>2 DEF Busy, Unfinished
        <5>4. g \notin open
          BY <3>1, <3>4, <4>1, <5>1, <5>3 DEF AgreeInv, Managed
        <5> QED BY <3>1, <4>1, <5>3, <5>4 DEF Holds
      <4> QED BY <4>3, <4>4
    <3>5. \A r \in Sess : r # s => lns'[r] = lns[r] /\ mrules'[r] = mrules[r] /\ mgr'[r] = mgr[r]
      BY <1>0, <3>1 DEF ManagerType
    <3>6. mgr'[s] = "ended" /\ open' \subseteq open
      BY <1>0, <3>1 DEF ManagerType
    <3> QED BY <3>3, <3>4, <3>5, <3>6
  <2> QED BY <2>1, <2>2
<1>2. \A g \in DOMAIN starts :
          /\ starts[g].sess \in Sess /\ Key(g) \in Protos \X Ids /\ starts'[g] = starts[g]
          /\ (Busy(g)' <=> Busy(g)) /\ Key(g)' = Key(g) /\ (Spared(g)' => Spared(g)) /\ (Holds(g)' => Holds(g))
  BY <1>0, <1>1, StartFields DEF Busy, Key, Spared, Holds
<1>3. Recorded'
  BY <1>0, <1>1, <1>2 DEF AgreeInv, Recorded
<1>4. OnePerRule'
  BY <1>0, <1>1, <1>2 DEF AgreeInv, OnePerRule
<1>5. Managed'
  <2> SUFFICES ASSUME NEW g \in open', starts'[g].pc # "reg", Spared(g)', mgr'[starts'[g].sess] # "ended"
               PROVE  /\ lns'[starts'[g].sess][Key(g)'] = g
                      /\ mrules'[starts'[g].sess][starts'[g].id] # NoSpec
                      /\ Same(mrules'[starts'[g].sess][starts'[g].id], starts'[g].spec)
    BY DEF Managed, Same
  <2>1. /\ g \in open /\ g \in DOMAIN starts /\ starts'[g] = starts[g] /\ Key(g)' = Key(g)
        /\ starts[g].sess \in Sess /\ starts[g].sess # s /\ Spared(g)
    BY <1>0, <1>1, <1>2
  <2> QED BY <1>1, <2>1 DEF AgreeInv, Managed
<1>6. NoneLeft'
  BY <1>0, <1>1, <1>2 DEF AgreeInv, NoneLeft
<1> QED BY <1>3, <1>4, <1>5, <1>6 DEF AgreeInv

LEMMA StartAgrees ==
    ASSUME BaseInv, MapsInv, AgreeInv, NEW g \in Starts, Start(g)
    PROVE  AgreeInv'
<1>0. ManagerType /\ g \in DOMAIN starts /\ mgr' = mgr /\ crossed' = crossed /\ open \subseteq DOMAIN starts
  BY StartGoes, StartFields DEF BaseInv
<1>1. PICK pc \in StartPCs : Moved(g, pc) /\ Goes(g, pc)
  BY StartGoes
<1>2. /\ DOMAIN starts' = DOMAIN starts /\ \A h \in DOMAIN starts : h # g => starts'[h] = starts[h]
      /\ starts'[g].sess = starts[g].sess /\ starts'[g].id = starts[g].id
      /\ starts'[g].spec = starts[g].spec /\ starts'[g].pc = pc
  BY <1>1 DEF Moved
<1>3. \A h \in DOMAIN starts :
          /\ starts[h].sess \in Sess /\ starts[h].id \in Ids /\ starts[h].spec \in Specs
          /\ Key(h) \in Protos \X Ids /\ Key(h)[2] = starts[h].id
          /\ starts'[h].sess = starts[h].sess /\ starts'[h].id = starts[h].id /\ starts'[h].spec = starts[h].spec
          /\ Key(h)' = Key(h) /\ (Spared(h)' <=> Spared(h))
  <2> TAKE h \in DOMAIN starts
  <2>1. starts'[h].sess = starts[h].sess /\ starts'[h].id = starts[h].id /\ starts'[h].spec = starts[h].spec
    BY <1>2
  <2>2. starts[h] \in StartType /\ Key(h) \in Protos \X Ids
    BY <1>0, StartFields
  <2>3. Spared(h)' <=> Spared(h)
    BY <1>0, <2>1 DEF Spared
  <2> QED BY <2>1, <2>2, <2>3 DEF StartType, Key
<1>4. \A h \in DOMAIN starts : /\ (Busy(h)' => Busy(h)) /\ (Busy(h)' \/ h \in open' => Busy(h) \/ h \in open)
                               /\ (Holds(h)' => Holds(h))
  <2> TAKE h \in DOMAIN starts
  <2>1. CASE h = g
    BY <1>1, <1>2, <2>1 DEF Busy, Unfinished, Holds, Goes
  <2>2. CASE h # g
    BY <1>1, <1>2, <2>2 DEF Busy, Unfinished, Holds, Goes
  <2> QED BY <2>1, <2>2
<1>5. /\ \A s \in Sess, id \in Ids :
            mrules'[s][id] # mrules[s][id] => Busy(g) /\ starts[g].sess = s /\ starts[g].id = id /\ pc = "done" /\ g \notin open'
      /\ \A s \in Sess, k \in Protos \X Ids :
            lns'[s][k] # lns[s][k] => Busy(g) /\ starts[g].sess = s /\ Key(g) = k /\ pc = "announce" /\ lns'[s][k] = g
      /\ \A h \in open' : h \in open \/ (h = g /\ pc = "reg")
  <2>1. mrules \in [Sess -> [Ids -> Specs \cup {NoSpec}]] /\ lns \in [Sess -> [Protos \X Ids -> 0 .. Len(starts)]]
    BY <1>0 DEF ManagerType, RuleSet
  <2>2. ASSUME NEW s \in Sess, NEW id \in Ids, mrules'[s][id] # mrules[s][id]
        PROVE  Busy(g) /\ starts[g].sess = s /\ starts[g].id = id /\ pc = "done" /\ g \notin open'
    <3>1. /\ mrules' = [mrules EXCEPT ![starts[g].sess][starts[g].id] = NoSpec]
          /\ starts[g].pc = "forget" /\ pc = "done" /\ open' = open
      BY <1>1, <2>2 DEF Goes
    <3>2. starts[g].sess = s /\ starts[g].id = id
      BY <2>1, <2>2, <3>1
    <3>3. g \notin open
      BY <1>0, <3>1 DEF MapsInv, SocketsOfStarts
    <3> QED BY <3>1, <3>2, <3>3 DEF Busy, Unfinished
  <2>3. ASSUME NEW s \in Sess, NEW k \in Protos \X Ids, lns'[s][k] # lns[s][k]
        PROVE  Busy(g) /\ starts[g].sess = s /\ Key(g) = k /\ pc = "announce" /\ lns'[s][k] = g
    <3>1. /\ lns' = [lns EXCEPT ![starts[g].sess][Key(g)] = g]
          /\ starts[g].pc = "reg" /\ pc = "announce"
      BY <1>1, <2>3 DEF Goes
    <3>2. starts[g].sess = s /\ Key(g) = k
      BY <2>1, <2>3, <3>1
    <3>3. lns'[s][k] = g
      BY <2>1, <3>1, <3>2
    <3> QED BY <3>1, <3>2, <3>3 DEF Busy, Unfinished
  <2>4. \A h \in open' : h \in open \/ (h = g /\ pc = "reg")
    BY <1>1 DEF Goes
  <2> QED BY <2>2, <2>3, <2>4
<1>6. Recorded'
  <2> SUFFICES ASSUME NEW h \in DOMAIN starts, Busy(h)', Spared(h), mgr[starts[h].sess] # "ended"
               PROVE  mrules'[starts[h].sess][starts[h].id] = starts[h].spec
    BY <1>0, <1>2, <1>3 DEF Recorded
  <2>1. Busy(h) /\ mrules[starts[h].sess][starts[h].id] = starts[h].spec
    BY <1>4 DEF AgreeInv, Recorded
  <2>2. ASSUME mrules'[starts[h].sess][starts[h].id] # mrules[starts[h].sess][starts[h].id] PROVE FALSE
    <3>1. Busy(g) /\ starts[g].sess = starts[h].sess /\ starts[g].id = starts[h].id /\ pc = "done"
      BY <1>3, <1>5, <2>2
    <3>2. g # h
      BY <1>2, <3>1 DEF Busy, Unfinished
    <3> QED BY <1>0, <2>1, <3>1, <3>2 DEF AgreeInv, OnePerRule
  <2> QED BY <2>1, <2>2
<1>7. OnePerRule'
  <2> SUFFICES ASSUME NEW h \in DOMAIN starts, NEW i \in DOMAIN starts, h # i,
                      starts[h].sess = starts[i].sess, mgr[starts[h].sess] # "ended", Spared(h),
                      Busy(h)' \/ h \in open', Busy(i)' \/ i \in open'
               PROVE  starts[h].id # starts[i].id
    BY <1>0, <1>2, <1>3 DEF OnePerRule
  <2> QED BY <1>4 DEF AgreeInv, OnePerRule
<1>8. Managed'
  <2> SUFFICES ASSUME NEW h \in open', starts'[h].pc # "reg", Spared(h)', mgr'[starts'[h].sess] # "ended"
               PROVE  /\ lns'[starts'[h].sess][Key(h)'] = h
                      /\ mrules'[starts'[h].sess][starts'[h].id] # NoSpec
                      /\ Same(mrules'[starts'[h].sess][starts'[h].id], starts'[h].spec)
    BY DEF Managed, Same
  <2> DEFINE s == starts[h].sess
  <2>1. /\ h \in open /\ h \in DOMAIN starts /\ s \in Sess /\ mgr[s] # "ended" /\ starts[h].id \in Ids /\ Spared(h)
        /\ Key(h) \in Protos \X Ids
        /\ starts'[h].sess = s /\ starts'[h].id = starts[h].id /\ starts'[h].spec = starts[h].spec /\ Key(h)' = Key(h)
    BY <1>0, <1>2, <1>3, <1>5
  <2>2. mrules'[s][starts[h].id] = mrules[s][starts[h].id]
    <3>1. ASSUME mrules'[s][starts[h].id] # mrules[s][starts[h].id] PROVE FALSE
      <4>1. Busy(g) /\ starts[g].sess = s /\ starts[g].id = starts[h].id /\ g \notin open'
        BY <1>5, <2>1, <3>1
      <4>2. g # h
        BY <4>1
      <4> QED BY <1>0, <2>1, <4>1, <4>2 DEF AgreeInv, OnePerRule
    <3> QED BY <3>1
  <2>3. CASE h = g /\ pc = "announce"
    <3>1. Busy(g) /\ lns'[s][Key(g)] = g
      <4>1. starts[g].pc = "reg" /\ lns' = [lns EXCEPT ![s][Key(g)] = g]
        BY <1>1, <2>3 DEF Goes
      <4> QED BY <1>0, <2>1, <2>3, <4>1 DEF ManagerType, Busy, Unfinished
    <3>2. mrules[s][starts[g].id] = starts[g].spec
      BY <1>0, <2>1, <2>3, <3>1 DEF AgreeInv, Recorded
    <3>3. starts[g].spec # NoSpec
      BY <1>0, <1>3, SpecsAssumption
    <3> QED BY <2>1, <2>2, <2>3, <3>1, <3>2, <3>3 DEF Same
  <2>4. CASE ~(h = g /\ pc = "announce")
    <3>1. starts[h].pc # "reg"
      <4>1. CASE h # g
        BY <1>2, <2>1, <4>1
      <4>2. CASE h = g
        BY <1>1, <1>2, <2>4, <4>2 DEF Goes
      <4> QED BY <4>1, <4>2
    <3>2. /\ lns[s][Key(h)] = h /\ mrules[s][starts[h].id] # NoSpec
          /\ Same(mrules[s][starts[h].id], starts[h].spec)
      BY <2>1, <3>1 DEF AgreeInv, Managed
    <3>3. ASSUME lns'[s][Key(h)] # lns[s][Key(h)] PROVE FALSE
      <4>1. Busy(g) /\ starts[g].sess = s /\ Key(g) = Key(h) /\ pc = "announce"
        BY <1>5, <2>1, <3>3
      <4>2. g # h /\ starts[g].id = starts[h].id
        BY <1>0, <1>3, <2>1, <2>4, <4>1
      <4> QED BY <1>0, <2>1, <4>1, <4>2 DEF AgreeInv, OnePerRule
    <3> QED BY <2>1, <2>2, <3>2, <3>3
  <2> QED BY <2>3, <2>4
<1>9. NoneLeft'
  BY <1>0, <1>2, <1>3, <1>4 DEF AgreeInv, NoneLeft
<1> QED BY <1>6, <1>7, <1>8, <1>9 DEF AgreeInv

LEMMA AgreeInvariant == Spec => []AgreeInv
<1>1. Init => AgreeInv
  BY DEF Init, AgreeInv, Recorded, OnePerRule, Managed, NoneLeft
<1>2. ASSUME BaseInv, MapsInv, AgreeInv, [Next]_vars PROVE AgreeInv'
  <2>1. CASE \E s \in Sess : Client(s)
    BY <1>2, <2>1, ApplyAgrees, EndAgrees DEF Client
  <2>2. CASE \E g \in Starts : Start(g)
    BY <1>2, <2>2, StartAgrees
  <2>3. CASE UNCHANGED mgrVars
    BY <1>2, <2>3 DEF AgreeInv, Recorded, OnePerRule, Managed, NoneLeft, Busy, Spared, Holds, Key, Same, mgrVars
  <2> QED BY <1>2, <2>1, <2>2, <2>3, ServerLeavesClient DEF Next
<1> QED BY <1>1, <1>2, BaseInvariant, MapsInvariant, PTL DEF Spec

(***************************************************************************)
(* The client's maps and its open listeners agree: what is registered is   *)
(* open in every interleaving; what is open is registered and wanted       *)
(* unless a stop overtook a start of its rule.                             *)
(***************************************************************************)
THEOREM SyncListenersAgree == Spec => []ListenersAgree
<1>1. BaseInv /\ AgreeInv => OpenIsManaged
  BY DEF AgreeInv, Managed, OpenIsManaged, Spared
<1> QED BY <1>1, SyncRegisteredIsOpen, BaseInvariant, AgreeInvariant, PTL DEF ListenersAgree

(***************************************************************************)
(* The end of a session cleans up, with no start waited for: a socket that *)
(* is open after stopAll is one of a rule whose start a stop overtook.     *)
(***************************************************************************)
THEOREM SyncSessionEndCleans == Spec => []SessionEndCleans
<1>1. BaseInv /\ AgreeInv => SessionEndCleans
  BY StartFields DEF BaseInv, AgreeInv, NoneLeft, Holds, Spared, SessionEndCleans
<1> QED BY <1>1, BaseInvariant, AgreeInvariant, PTL
=============================================================================
