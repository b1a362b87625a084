-------------------------- MODULE TcpForwardProofs --------------------------
(***************************************************************************)
(* Proofs about the path of a TCP connection.  First TcpForward, which     *)
(* admits it, for every number of visitors, every max_conns and any        *)
(* blacklists: the connection counter is exact, the limit holds, and       *)
(* without imports a blacklisted visitor is never served.  Then Pipe,      *)
(* which relays it, for every rate, chunk size and idle timeout: the rate  *)
(* is kept and no chunk that was read is lost.                             *)
(***************************************************************************)
EXTENDS TcpForward, Pipe, FiniteSetTheorems, TLAPS

(* The accept loop holds a connection exactly between Accept and the       *)
(* decision, and that connection is not yet anybody else's.                *)
Holding ==
    IF lpc \in {"version", "reload", "decide"}
    THEN cand \in Visitors /\ pc[cand] = "queued"
    ELSE cand = NoVisitor

(* The strengthening: the counter is the number of counted handlers, all   *)
(* admitted ones are among them, and the loop's connection is not.         *)
CountInv == TypeOK /\ Holding /\ ConnsExact /\ WithinLimit

(* Counted is finite, and so is every subset of it.                        *)
LEMMA CountedFinite ==
    /\ IsFiniteSet(Counted) /\ Cardinality(Counted) \in Nat
    /\ IsFiniteSet(Admitted) /\ Cardinality(Admitted) \in Nat
    /\ Cardinality(Admitted) <= Cardinality(Counted)
<1>1. IsFiniteSet(Counted)
  BY VisitorsAssumption, FS_Subset DEF Counted
<1>2. Admitted \in SUBSET Counted
  BY DEF Counted, Admitted
<1> QED BY <1>1, <1>2, FS_Subset, FS_CardinalityType

(* A step that moves no visitor into or out of the handler keeps both the  *)
(* count and the admissions.                                               *)
LEMMA NothingCounted ==
    ASSUME ConnsExact, WithinLimit, Counted' = Counted, Admitted' = Admitted, conns' = conns
    PROVE  ConnsExact' /\ WithinLimit'
BY DEF ConnsExact, WithinLimit

(***************************************************************************)
(* The inductive invariant holds: a handler's Add(1), its look at the      *)
(* counter and its Add(-1) interleave with those of all others in any way. *)
(***************************************************************************)
LEMMA CountInvariant == Spec => []CountInv
<1>1. Init => CountInv
  <2> SUFFICES ASSUME Init PROVE CountInv
    OBVIOUS
  <2>1. TypeOK /\ Holding
    <3>1. cfgBl \in SUBSET Hosts /\ oldBl = cfgBl /\ inForce = cfgBl
      BY HostsAssumption DEF Init
    <3>2. mu \in BOOLEAN /\ listening \in BOOLEAN
      BY DEF Init
    <3>3. bl \in SUBSET Hosts /\ listed \in SUBSET Visitors /\ host \in [Visitors -> Hosts]
      BY DEF Init
    <3>4. blVer \in Nat /\ ver \in Nat /\ seen \in Nat /\ conns \in Nat /\ ops \in 0 .. MaxOps
      BY LimitAssumption DEF Init
    <3>5. pc \in [Visitors -> {"away", "queued", "enter", "check", "reject", "dial", "pipe", "leave", "closed"}]
      BY DEF Init
    <3> QED BY <3>1, <3>2, <3>3, <3>4, <3>5, Zenon DEF Init, TypeOK, Holding
  <2>2. Counted = {} /\ Admitted = {}
    BY DEF Init, Counted, Admitted
  <2> QED BY <2>1, <2>2, FS_EmptySet, LimitAssumption DEF Init, CountInv, ConnsExact, WithinLimit
<1>2. CountInv /\ [Next]_vars => CountInv'
  <2> SUFFICES ASSUME CountInv, [Next]_vars PROVE CountInv'
    OBVIOUS
  <2>0. TypeOK /\ Holding /\ ConnsExact /\ WithinLimit
    BY DEF CountInv
  <2>1. CASE Panel
    <3>0. cfgBl' \in SUBSET Hosts /\ inForce' \in SUBSET Hosts /\ oldBl' \in SUBSET Hosts
      BY <2>0, <2>1, HostsAssumption
         DEF TypeOK, Panel, SetIPBlacklist, ImportConfig, Saved, SaveFails
    <3>4. mu' \in BOOLEAN
      BY <2>0, <2>1 DEF TypeOK, Panel, SetIPBlacklist, ImportConfig, Saved, SaveFails
    <3>5. ops' \in 0 .. MaxOps /\ blVer' \in Nat /\ listed' \in SUBSET Visitors
      BY <2>0, <2>1, LimitAssumption
         DEF TypeOK, Panel, SetIPBlacklist, ImportConfig, Saved, SaveFails
    <3>6. UNCHANGED <<loopVars, host, pc, conns>>
      BY <2>1 DEF Panel, SetIPBlacklist, ImportConfig, Saved, SaveFails
    <3>1. TypeOK' /\ Holding'
      BY <2>0, <3>0, <3>4, <3>5, <3>6 DEF TypeOK, Holding, loopVars
    <3>2. pc' = pc /\ conns' = conns
      BY <2>1 DEF Panel, SetIPBlacklist, ImportConfig, Saved, SaveFails
    <3>3. Counted' = Counted /\ Admitted' = Admitted
      BY <3>2 DEF Counted, Admitted
    <3> QED BY <2>0, <3>1, <3>2, <3>3, NothingCounted DEF CountInv
  <2>2. CASE LoadBlacklist \/ CheckVersion \/ Reload \/ AcceptFails
    <3>1. TypeOK' /\ Holding'
      BY <2>0, <2>2
         DEF TypeOK, Holding, LoadBlacklist, CheckVersion, Reload, AcceptFails, LoopFrame, cfgVars
    <3>2. pc' = pc /\ conns' = conns
      BY <2>2 DEF LoadBlacklist, CheckVersion, Reload, AcceptFails, LoopFrame
    <3>3. Counted' = Counted /\ Admitted' = Admitted
      BY <3>2 DEF Counted, Admitted
    <3> QED BY <2>0, <3>1, <3>2, <3>3, NothingCounted DEF CountInv
  <2>3. ASSUME NEW v \in Visitors, AcceptConn(v) \/ Arrive(v) PROVE CountInv'
    <3>1. TypeOK' /\ Holding'
      BY <2>0, <2>3, VisitorsAssumption DEF TypeOK, Holding, AcceptConn, Arrive, LoopFrame, cfgVars
    <3>2. Counted' = Counted /\ Admitted' = Admitted /\ conns' = conns
      BY <2>0, <2>3 DEF AcceptConn, Arrive, LoopFrame, Counted, Admitted, TypeOK
    <3> QED BY <2>0, <3>1, <3>2, NothingCounted DEF CountInv
  <2>4. CASE Decide
    <3>1. TypeOK' /\ Holding'
      BY <2>0, <2>4 DEF TypeOK, Holding, Decide, LoopFrame, cfgVars
    <3>2. Counted' = Counted /\ Admitted' = Admitted /\ conns' = conns
      BY <2>0, <2>4 DEF Decide, LoopFrame, Counted, Admitted, TypeOK, Holding
    <3> QED BY <2>0, <3>1, <3>2, NothingCounted DEF CountInv
  <2>5. CASE Stop
    <3>1. TypeOK' /\ Holding'
      BY <2>0, <2>5 DEF TypeOK, Holding, Stop, cfgVars
    <3>2. Counted' = Counted /\ Admitted' = Admitted /\ conns' = conns
      BY <2>0, <2>5 DEF Stop, Counted, Admitted, TypeOK
    <3> QED BY <2>0, <3>1, <3>2, NothingCounted DEF CountInv
  <2>6. ASSUME NEW v \in Visitors, Enter(v) PROVE CountInv'
    <3>1. TypeOK' /\ Holding'
      BY <2>0, <2>6 DEF TypeOK, Holding, Enter, Goto, VisitorFrame, cfgVars, loopVars
    <3>2. Counted' = Counted \cup {v} /\ v \notin Counted /\ Admitted' = Admitted
      BY <2>0, <2>6 DEF Enter, Goto, Counted, Admitted, TypeOK
    <3>3. ConnsExact'
      BY <2>0, <2>6, <3>2, CountedFinite, FS_AddElement DEF ConnsExact, Enter
    <3> QED BY <2>0, <3>1, <3>2, <3>3 DEF CountInv, WithinLimit
  <2>7. ASSUME NEW v \in Visitors, Check(v) PROVE CountInv'
    <3>1. TypeOK' /\ Holding'
      BY <2>0, <2>7 DEF TypeOK, Holding, Check, Goto, VisitorFrame, cfgVars, loopVars
    <3>2. Counted' = Counted /\ conns' = conns
      BY <2>0, <2>7 DEF Check, Goto, Counted, TypeOK
    <3>3. WithinLimit'
      <4>1. CASE Limit > 0 /\ conns > Limit
        <5>1. Admitted' = Admitted
          BY <2>0, <2>7, <4>1 DEF Check, Goto, Admitted, TypeOK
        <5> QED BY <2>0, <5>1 DEF WithinLimit
      <4>2. CASE ~(Limit > 0 /\ conns > Limit)
        <5>1. Admitted' \in SUBSET Counted
          BY <2>0, <2>7 DEF Check, Goto, Admitted, Counted, TypeOK
        <5>2. Cardinality(Admitted') <= Cardinality(Counted) /\ Cardinality(Admitted') \in Nat
          BY <5>1, CountedFinite, FS_Subset, FS_CardinalityType
        <5> QED BY <2>0, <4>2, <5>2, CountedFinite, LimitAssumption DEF WithinLimit, ConnsExact
      <4> QED BY <4>1, <4>2
    <3> QED BY <2>0, <3>1, <3>2, <3>3 DEF CountInv, ConnsExact
  <2>8. ASSUME NEW v \in Visitors, Reject(v) \/ Leave(v) PROVE CountInv'
    <3>1. Counted' = Counted \ {v} /\ v \in Counted /\ Admitted' \in SUBSET Admitted
      BY <2>0, <2>8 DEF Reject, Leave, Goto, Counted, Admitted, TypeOK
    <3>2. Cardinality(Counted \ {v}) = Cardinality(Counted) - 1 /\ Cardinality(Counted \ {v}) \in Nat
      BY <3>1, CountedFinite, FS_RemoveElement, FS_CardinalityType
    <3>3. conns' = conns - 1 /\ conns' \in Nat /\ ConnsExact'
      BY <2>0, <2>8, <3>1, <3>2 DEF ConnsExact, Reject, Leave
    <3>4. TypeOK' /\ Holding'
      BY <2>0, <2>8, <3>3 DEF TypeOK, Holding, Reject, Leave, Goto, VisitorFrame, cfgVars, loopVars
    <3>5. Cardinality(Admitted') <= Cardinality(Admitted) /\ Cardinality(Admitted') \in Nat
      BY <3>1, CountedFinite, FS_Subset, FS_CardinalityType
    <3>6. WithinLimit'
      BY <2>0, <3>5, CountedFinite, LimitAssumption DEF WithinLimit
    <3> QED BY <3>3, <3>4, <3>6 DEF CountInv
  <2>9. ASSUME NEW v \in Visitors, Dial(v) \/ PipeEnds(v) PROVE CountInv'
    <3>1. TypeOK' /\ Holding'
      BY <2>0, <2>9 DEF TypeOK, Holding, Dial, PipeEnds, Goto, VisitorFrame, cfgVars, loopVars
    <3>2. Counted' = Counted /\ Admitted' = Admitted /\ conns' = conns
      BY <2>0, <2>9 DEF Dial, PipeEnds, Goto, Counted, Admitted, TypeOK
    <3> QED BY <2>0, <3>1, <3>2, NothingCounted DEF CountInv
  <2>10. CASE UNCHANGED vars
    <3>1. TypeOK' /\ Holding'
      BY <2>0, <2>10 DEF TypeOK, Holding, vars, cfgVars, loopVars
    <3>2. Counted' = Counted /\ Admitted' = Admitted /\ conns' = conns
      BY <2>10 DEF vars, Counted, Admitted
    <3> QED BY <2>0, <3>1, <3>2, NothingCounted DEF CountInv
  <2> QED
    BY <2>1, <2>2, <2>3, <2>4, <2>5, <2>6, <2>7, <2>8, <2>9, <2>10 DEF Next, Loop, Handle
<1> QED BY <1>1, <1>2, PTL DEF Spec

(***************************************************************************)
(* Every variable keeps its type; in particular st.Conns never goes below  *)
(* zero, which needs that it counts exactly.                               *)
(***************************************************************************)
THEOREM ForwardTypeCorrect == Spec => []TypeOK
BY CountInvariant, PTL DEF CountInv

(***************************************************************************)
(* st.Conns is the number of handlers inside handleTCP, whatever path each *)
(* of them takes out of it.                                                *)
(***************************************************************************)
THEOREM ForwardConnsExact == Spec => []ConnsExact
BY CountInvariant, PTL DEF CountInv

(***************************************************************************)
(* max_conns bounds the connections served, although Add and Load of the   *)
(* counter are separate steps.                                             *)
(***************************************************************************)
THEOREM ForwardWithinLimit == Spec => []WithinLimit
BY CountInvariant, PTL DEF CountInv

-----------------------------------------------------------------------------
(***************************************************************************)
(* Why the unlocked comparison of versions is enough.  Between operations  *)
(* cfgBl is the list in force, and while Save runs nobody else can read    *)
(* it; the loop never believes in a version that does not exist yet, and   *)
(* if it believes in the current one its list contains the one in force    *)
(* (an import that empties the list leaves it a larger one); so a held     *)
(* visitor that stayed blacklisted is in the list it is decided by.  No    *)
(* visitor is accepted twice.                                              *)
(***************************************************************************)
VersionInv ==
    /\ IF mu THEN oldBl = inForce ELSE cfgBl = inForce
    /\ ver <= blVer /\ seen <= blVer
    /\ lpc # "load" /\ ver = blVer => inForce \subseteq bl
    /\ cand \in listed => host[cand] \in inForce
    /\ lpc = "decide" /\ cand \in listed => host[cand] \in bl
    /\ \A v \in listed \ {cand} : pc[v] \notin {"away", "queued"}

(***************************************************************************)
(* As long as no import brings a blacklist, a visitor blacklisted by a     *)
(* finished operation before it was accepted, and still blacklisted when   *)
(* it is decided on, is never served.  (An import changes the list and not *)
(* the version: run tcp_forward_import.)                                   *)
(***************************************************************************)
THEOREM ForwardBlacklistEnforced ==
    ASSUME Imported \subseteq {{}}
    PROVE  Spec => []BlacklistEnforced
<1>1. Init => VersionInv /\ BlacklistEnforced
  BY DEF Init, VersionInv, BlacklistEnforced
<1>2. CountInv /\ VersionInv /\ BlacklistEnforced /\ [Next]_vars => VersionInv' /\ BlacklistEnforced'
  <2> SUFFICES ASSUME CountInv, VersionInv, BlacklistEnforced, [Next]_vars
               PROVE  VersionInv' /\ BlacklistEnforced'
    OBVIOUS
  <2>0. TypeOK /\ Holding
    BY DEF CountInv
  <2>1. ASSUME NEW b \in Blacklists, SetIPBlacklist(b) PROVE VersionInv' /\ BlacklistEnforced'
    BY <2>0, <2>1 DEF VersionInv, BlacklistEnforced, SetIPBlacklist, loopVars, TypeOK
  <2>2. CASE Saved
    BY <2>0, <2>2 DEF VersionInv, BlacklistEnforced, Saved, loopVars, TypeOK
  <2>3. CASE SaveFails
    BY <2>0, <2>3 DEF VersionInv, BlacklistEnforced, SaveFails, loopVars, TypeOK
  <2>4. CASE LoadBlacklist
    BY <2>0, <2>4 DEF VersionInv, BlacklistEnforced, LoadBlacklist, LoopFrame, cfgVars, TypeOK
  <2>5. CASE CheckVersion
    BY <2>0, <2>5 DEF VersionInv, BlacklistEnforced, CheckVersion, LoopFrame, cfgVars, TypeOK
  <2>6. CASE Reload
    BY <2>0, <2>6 DEF VersionInv, BlacklistEnforced, Reload, LoopFrame, cfgVars, TypeOK
  <2>7. CASE Decide
    <3>1. VersionInv'
      BY <2>0, <2>7, VisitorsAssumption DEF VersionInv, Decide, LoopFrame, cfgVars, TypeOK, Holding
    <3>2. BlacklistEnforced'
      BY <2>0, <2>7, VisitorsAssumption
         DEF VersionInv, BlacklistEnforced, Decide, visitorAllowed, LoopFrame, TypeOK, Holding
    <3> QED BY <3>1, <3>2
  <2>8. CASE AcceptFails
    BY <2>0, <2>8 DEF VersionInv, BlacklistEnforced, AcceptFails, LoopFrame, cfgVars, TypeOK
  <2>9. ASSUME NEW v \in Visitors, AcceptConn(v) PROVE VersionInv' /\ BlacklistEnforced'
    BY <2>0, <2>9, VisitorsAssumption DEF VersionInv, BlacklistEnforced, AcceptConn, LoopFrame, cfgVars, TypeOK, Holding
  <2>10. ASSUME NEW v \in Visitors, Arrive(v) PROVE VersionInv' /\ BlacklistEnforced'
    BY <2>0, <2>10 DEF VersionInv, BlacklistEnforced, Arrive, LoopFrame, cfgVars, TypeOK, Holding
  <2>11. CASE Stop
    BY <2>0, <2>11 DEF VersionInv, BlacklistEnforced, Stop, cfgVars, TypeOK
  <2>12. ASSUME NEW v \in Visitors, Handle(v) \/ PipeEnds(v) PROVE VersionInv' /\ BlacklistEnforced'
    <3>1. UNCHANGED <<cfgVars, loopVars, host, listed>>
      BY <2>12 DEF Handle, Enter, Check, Reject, Dial, Leave, PipeEnds, VisitorFrame
    <3>2. VersionInv'
      BY <2>0, <2>12, <3>1
         DEF VersionInv, Handle, Enter, Check, Reject, Dial, Leave, PipeEnds, Goto, TypeOK, cfgVars, loopVars
    <3>3. BlacklistEnforced'
      BY <2>0, <2>12, <3>1
         DEF BlacklistEnforced, Handle, Enter, Check, Reject, Dial, Leave, PipeEnds, Goto, TypeOK, loopVars
    <3> QED BY <3>2, <3>3
  <2>13. CASE UNCHANGED vars
    BY <2>13 DEF VersionInv, BlacklistEnforced, vars, cfgVars, loopVars
  <2>14. ASSUME NEW b \in Imported, ImportConfig(b) PROVE VersionInv' /\ BlacklistEnforced'
    <3>1. b = {}
      OBVIOUS
    <3> QED BY <2>0, <2>14, <3>1 DEF VersionInv, BlacklistEnforced, ImportConfig, loopVars, TypeOK
  <2> QED
    BY <2>1, <2>2, <2>3, <2>4, <2>5, <2>6, <2>7, <2>8, <2>9, <2>10, <2>11, <2>12, <2>13, <2>14
       DEF Next, Panel, Loop
<1> QED BY <1>1, <1>2, CountInvariant, PTL DEF Spec

-----------------------------------------------------------------------------
(* The pipe's longest idle timeout is one of them.                         *)
LEMMA LongestIdle == Longest \in Idles /\ (\A n \in Idles : n <= Longest) /\ Never \in Nat \ {0}
<1>1. Longest \in Idles /\ \A n \in Idles : n <= Longest
  BY PipeAssumption DEF Longest
<1> QED BY <1>1, PipeAssumption DEF Never

(* A chunk of one of the Sizes is in hand from the read to the write.      *)
InHands ==
    \A d \in Ends : IF at[d] \in {"wait", "write"} THEN hand[d] \in Sizes ELSE hand[d] = 0

(* A copy has ended if and only if it says how.                            *)
EndedSomehow == \A d \in Ends : how[d] = "no" <=> at[d] \in {"read", "blocked", "wait", "write"}

(* What a direction owes: the chunks that wait to be read and the one in   *)
(* hand; no fewer while its copy runs when its sender was lost, and more   *)
(* than that only if the last write failed.                                *)
Held(d) == pend[d] + (IF at[d] \in {"wait", "write"} THEN 1 ELSE 0)
Owing ==
    \A d \in Ends :
        /\ how[d] = "no" => owed[d] >= Held(d)
        /\ peer[d] # "gone" =>
              owed[d] = Held(d) \/ (how[d] = "error" /\ peer[Dst(d)] = "gone")

(* A write deadline, and without an idle timeout any deadline, was set by  *)
(* a copy that is through; so no copy that runs meets a cut end.           *)
CutByEnd ==
    \A d \in Ends :
        /\ Dst(d) \in cut => at[d] = "done"
        /\ idle = 0 /\ readBy[d] # Never => at[Dst(d)] = "done"
        /\ how[d] = "timeout" => idle > 0 \/ at[Dst(d)] = "done"

(* After a regular end the sender sends nothing more.                      *)
EofIsLast == \A d \in Ends : how[d] = "eof" => peer[d] # "open" /\ owed[d] = 0

(* What the bucket still holds and what it gave out that time has not yet  *)
(* made up for are the burst together, or less.                            *)
Budget == level + tokens <= Rate

PipeInv ==
    PipeTypeOK /\ InHands /\ EndedSomehow /\ Owing /\ EofIsLast /\ CutByEnd /\ (Rate > 0 => Budget)

(* The copy of one direction reads where the other one writes.             *)
LEMMA OtherEnd == \A d \in Ends : Dst(d) \in Ends /\ Dst(Dst(d)) = d /\ Dst(d) # d
BY DEF Ends, Dst

(***************************************************************************)
(* The inductive invariant of a pipe: its two copies, its peers and the    *)
(* clock take their steps in any order.                                    *)
(***************************************************************************)
LEMMA PipeInvariant == PipeSpec => []PipeInv
<1>1. PipeInit => PipeInv
  <2> SUFFICES ASSUME PipeInit PROVE PipeInv
    OBVIOUS
  <2>1. PipeTypeOK
    BY LongestIdle, PipeAssumption DEF PipeInit, PipeTypeOK
  <2>2. CutByEnd
    BY DEF PipeInit, CutByEnd
  <2>3. InHands /\ EndedSomehow /\ Owing /\ EofIsLast
    BY DEF PipeInit, InHands, EndedSomehow, Owing, Held, EofIsLast
  <2> QED BY <2>1, <2>2, <2>3, PipeAssumption DEF PipeInit, PipeInv, Budget
<1>2. PipeInv /\ [PipeNext]_pipeVars => PipeInv'
  <2> SUFFICES ASSUME PipeInv, [PipeNext]_pipeVars PROVE PipeInv'
    OBVIOUS
  <2>0. PipeTypeOK /\ InHands /\ EndedSomehow /\ Owing /\ EofIsLast /\ CutByEnd /\ (Rate > 0 => Budget)
    BY DEF PipeInv
  <2>a. CutByEnd'
    <3>1. ASSUME NEW d \in Ends, Interrupt(d) PROVE CutByEnd'
      <4>1. /\ at' = [at EXCEPT ![d] = "done"] /\ cut' = cut \cup {Dst(d)}
            /\ readBy' = [readBy EXCEPT ![Dst(d)] = 0] /\ UNCHANGED <<idle, how>>
        BY <3>1 DEF Interrupt, Moves, caseVars
      <4> QED BY <2>0, <4>1, OtherEnd DEF CutByEnd, PipeTypeOK
    <3>2. ASSUME NEW d \in Ends, StartRead(d) PROVE CutByEnd'
      <4>1. /\ at[d] = "read" /\ at' = [at EXCEPT ![d] = "blocked"] /\ UNCHANGED <<idle, cut, how>>
            /\ idle = 0 => readBy' = readBy
        BY <2>0, <3>2, PipeAssumption DEF StartRead, Moves, caseVars, PipeTypeOK
      <4> QED BY <2>0, <4>1, OtherEnd DEF CutByEnd, PipeTypeOK
    <3>3. ASSUME NEW d \in Ends, EndRead(d) PROVE CutByEnd'
      <4>1. at[d] = "blocked" /\ UNCHANGED <<idle, readBy, cut>>
        BY <3>3 DEF EndRead, caseVars
      <4>2. CASE Moves(d, "wait") /\ UNCHANGED how
        BY <2>0, <4>1, <4>2, OtherEnd DEF CutByEnd, PipeTypeOK, Moves
      <4>3. CASE readBy[d] = 0 /\ Ended(d, "timeout")
        <5>1. at' = [at EXCEPT ![d] = "end"] /\ how' = [how EXCEPT ![d] = "timeout"]
          BY <4>3 DEF Ended, Moves
        <5>2. idle > 0 \/ at[Dst(d)] = "done"
          BY <2>0, <4>3, LongestIdle, PipeAssumption DEF CutByEnd, PipeTypeOK
        <5> QED BY <2>0, <4>1, <5>1, <5>2, OtherEnd DEF CutByEnd, PipeTypeOK
      <4>4. CASE Ended(d, IF peer[d] = "eof" THEN "eof" ELSE "error")
        BY <2>0, <4>1, <4>4, OtherEnd DEF CutByEnd, PipeTypeOK, Ended, Moves
      <4> QED BY <3>3, <4>2, <4>3, <4>4 DEF EndRead
    <3>4. ASSUME NEW d \in Ends, Grant(d) PROVE CutByEnd'
      BY <2>0, <3>4, OtherEnd DEF CutByEnd, PipeTypeOK, Grant, Moves, caseVars, connVars
    <3>5. ASSUME NEW d \in Ends, Write(d) PROVE CutByEnd'
      BY <2>0, <3>5, OtherEnd DEF CutByEnd, PipeTypeOK, Write, Ended, Moves, caseVars, connVars
    <3>6. CASE Tick
      <4>1. UNCHANGED <<idle, cut, at, how>> /\ \A d \in Ends : readBy[d] = Never => readBy'[d] = Never
        BY <3>6 DEF Tick, caseVars
      <4> QED BY <2>0, <4>1, OtherEnd DEF CutByEnd
    <3>7. ASSUME NEW d \in Ends, Sends(d) \/ \E s \in {"eof", "gone"} : Closes(d, s) PROVE CutByEnd'
      BY <2>0, <3>7 DEF CutByEnd, Sends, Closes, caseVars
    <3>8. CASE UNCHANGED pipeVars
      BY <2>0, <3>8 DEF CutByEnd, pipeVars
    <3> QED BY <3>1, <3>2, <3>3, <3>4, <3>5, <3>6, <3>7, <3>8 DEF PipeNext, Copy
  <2>1. CASE Tick
    <3>1. UNCHANGED <<idle, streams, peer, pend, cut, at, hand, how, owed>>
      BY <2>1 DEF Tick, caseVars
    <3>2. readBy' \in [Ends -> 0 .. Never] /\ wake' \in [Ends -> 0 .. Rate]
      BY <2>0, <2>1, LongestIdle, PipeAssumption DEF Tick, Less, PipeTypeOK
    <3>3. tokens' \in 0 .. Rate /\ level' \in Nat
      BY <2>0, <2>1, PipeAssumption DEF Tick, Less, PipeTypeOK
    <3>4. Rate > 0 => Budget'
      BY <2>0, <2>1, PipeAssumption DEF Tick, Less, PipeTypeOK, Budget
    <3>5. PipeTypeOK'
      BY <2>0, <3>1, <3>2, <3>3 DEF PipeTypeOK
    <3> QED BY <2>0, <2>a, <3>1, <3>4, <3>5 DEF PipeInv, InHands, EndedSomehow, Owing, Held, EofIsLast
  <2>2. ASSUME NEW d \in Ends, Sends(d) PROVE PipeInv'
    <3>1. UNCHANGED <<idle, streams, peer, readBy, cut, at, hand, how, tokens, wake, level>>
      BY <2>2 DEF Sends, caseVars, limVars
    <3>2. pend' \in [Ends -> 0 .. MaxPend] /\ owed' \in [Ends -> Nat]
      BY <2>0, <2>2, PipeAssumption DEF Sends, PipeTypeOK
    <3>3. PipeTypeOK'
      BY <2>0, <3>1, <3>2 DEF PipeTypeOK
    <3>4. Owing' /\ EofIsLast'
      BY <2>0, <2>2, <3>1 DEF Sends, PipeTypeOK, Owing, Held, EofIsLast
    <3> QED BY <2>0, <2>a, <3>1, <3>3, <3>4 DEF PipeInv, InHands, EndedSomehow, Budget
  <2>3. ASSUME NEW d \in Ends, NEW s \in {"eof", "gone"}, Closes(d, s) PROVE PipeInv'
    <3>1. UNCHANGED <<idle, streams, readBy, cut, at, hand, how, owed, tokens, wake, level>>
      BY <2>3 DEF Closes, caseVars, limVars
    <3>2. peer' \in [Ends -> {"open", "eof", "gone"}] /\ pend' \in [Ends -> 0 .. MaxPend]
      BY <2>0, <2>3, PipeAssumption DEF Closes, PipeTypeOK
    <3>3. PipeTypeOK'
      BY <2>0, <3>1, <3>2 DEF PipeTypeOK
    <3>4. Owing' /\ EofIsLast'
      BY <2>0, <2>3, <3>1, OtherEnd DEF Closes, PipeTypeOK, Owing, Held, EofIsLast
    <3> QED BY <2>0, <2>a, <3>1, <3>3, <3>4 DEF PipeInv, InHands, EndedSomehow, Budget
  <2>4. ASSUME NEW d \in Ends, StartRead(d) PROVE PipeInv'
    <3>1. UNCHANGED <<idle, streams, peer, pend, cut, hand, how, owed, tokens, wake, level>>
      BY <2>4 DEF StartRead, caseVars, limVars
    <3>2. readBy' \in [Ends -> 0 .. Never]
      BY <2>0, <2>4, LongestIdle, PipeAssumption DEF StartRead, PipeTypeOK, Never
    <3>3. at' = [at EXCEPT ![d] = "blocked"] /\ at[d] = "read"
      BY <2>4 DEF StartRead, Moves
    <3>4. PipeTypeOK'
      BY <2>0, <3>1, <3>2, <3>3 DEF PipeTypeOK
    <3>5. InHands' /\ EndedSomehow' /\ Owing' /\ EofIsLast'
      BY <2>0, <3>1, <3>3 DEF PipeTypeOK, InHands, EndedSomehow, Owing, Held, EofIsLast
    <3> QED BY <2>0, <2>a, <3>1, <3>4, <3>5 DEF PipeInv, Budget
  <2>5. ASSUME NEW d \in Ends, EndRead(d) PROVE PipeInv'
    <3>1. at[d] = "blocked" /\ UNCHANGED <<idle, streams, peer, readBy, cut, owed, tokens, wake, level>>
      BY <2>5 DEF EndRead, caseVars, limVars
    <3>2. CASE /\ pend[d] > 0 /\ pend' = [pend EXCEPT ![d] = @ - 1]
               /\ \E n \in Sizes : hand' = [hand EXCEPT ![d] = n]
               /\ Moves(d, "wait") /\ UNCHANGED how
      <4>1. PICK n \in Sizes : hand' = [hand EXCEPT ![d] = n]
        BY <3>2
      <4>2. pend' \in [Ends -> 0 .. MaxPend] /\ hand' \in [Ends -> Sizes \cup {0}]
        BY <2>0, <3>2, <4>1, PipeAssumption DEF PipeTypeOK
      <4>3. PipeTypeOK'
        BY <2>0, <3>1, <3>2, <4>2 DEF PipeTypeOK, Moves
      <4>4. InHands'
        BY <2>0, <3>2, <4>1 DEF PipeTypeOK, Moves, InHands
      <4>5. EndedSomehow' /\ Owing' /\ EofIsLast'
        BY <2>0, <3>1, <3>2 DEF PipeTypeOK, Moves, EndedSomehow, Owing, Held, EofIsLast
      <4> QED BY <2>0, <2>a, <3>1, <4>3, <4>4, <4>5 DEF PipeInv, Budget
    <3>3. ASSUME NEW s \in {"timeout", "eof", "error"}, Ended(d, s), UNCHANGED <<pend, hand>>,
                 s = "eof" => pend[d] = 0 /\ peer[d] = "eof"
          PROVE  PipeInv'
      <4>1. at' = [at EXCEPT ![d] = "end"] /\ how' = [how EXCEPT ![d] = s]
        BY <3>3 DEF Ended, Moves
      <4>2. PipeTypeOK'
        BY <2>0, <3>1, <3>3, <4>1 DEF PipeTypeOK
      <4>3. InHands' /\ EndedSomehow' /\ Owing'
        BY <2>0, <3>1, <3>3, <4>1 DEF PipeTypeOK, InHands, EndedSomehow, Owing, Held
      <4>4. EofIsLast'
        BY <2>0, <3>1, <3>3, <4>1 DEF PipeTypeOK, EndedSomehow, Owing, Held, EofIsLast
      <4> QED BY <2>0, <2>a, <3>1, <4>2, <4>3, <4>4 DEF PipeInv, Budget
    <3>4. CASE Ended(d, "timeout") /\ UNCHANGED <<pend, hand>>
      BY <3>3, <3>4
    <3>5. CASE /\ pend[d] = 0 /\ Ended(d, IF peer[d] = "eof" THEN "eof" ELSE "error") /\ UNCHANGED <<pend, hand>>
      BY <3>3, <3>5
    <3> QED BY <2>5, <3>2, <3>4, <3>5 DEF EndRead
  <2>6. ASSUME NEW d \in Ends, Grant(d) PROVE PipeInv'
    <3>1. at[d] = "wait" /\ UNCHANGED <<idle, streams, peer, pend, readBy, cut, hand, how, owed>>
      BY <2>6 DEF Grant, caseVars, connVars
    <3>2. at' = [at EXCEPT ![d] = "write"] \/ at' = at
      BY <2>6 DEF Grant, Moves
    <3>3. hand[d] \in Nat /\ (Rate > 0 => hand[d] <= Rate)
      BY <2>0, <3>1, PipeAssumption DEF InHands
    <3>4. tokens' \in 0 .. Rate /\ level' \in Nat /\ (Rate > 0 => Budget')
      BY <2>0, <2>6, <3>3, PipeAssumption DEF Grant, limVars, PipeTypeOK, Budget
    <3>5. wake' \in [Ends -> 0 .. Rate]
      BY <2>0, <2>6, <3>3, PipeAssumption DEF Grant, limVars, PipeTypeOK
    <3>6. PipeTypeOK'
      BY <2>0, <3>1, <3>2, <3>4, <3>5 DEF PipeTypeOK
    <3>7. InHands' /\ EndedSomehow' /\ Owing' /\ EofIsLast'
      BY <2>0, <3>1, <3>2 DEF PipeTypeOK, InHands, EndedSomehow, Owing, Held, EofIsLast
    <3> QED BY <2>a, <3>4, <3>6, <3>7 DEF PipeInv
  <2>7. ASSUME NEW d \in Ends, Write(d) PROVE PipeInv'
    <3>1. /\ at[d] = "write" /\ hand' = [hand EXCEPT ![d] = 0]
          /\ UNCHANGED <<idle, streams, peer, pend, readBy, cut, tokens, wake, level>>
      BY <2>7 DEF Write, caseVars, connVars, limVars
    <3>2. CASE Ended(d, "error") /\ UNCHANGED owed
      <4>1. at' = [at EXCEPT ![d] = "end"] /\ how' = [how EXCEPT ![d] = "error"]
        BY <3>2 DEF Ended, Moves
      <4>2. PipeTypeOK'
        BY <2>0, <3>1, <3>2, <4>1 DEF PipeTypeOK
      <4>3. peer[Dst(d)] = "gone"
        BY <2>0, <2>7, <3>1, <3>2, <4>1 DEF Write, CutByEnd, PipeTypeOK, Moves
      <4>4. InHands' /\ EndedSomehow' /\ EofIsLast'
        BY <2>0, <3>1, <3>2, <4>1 DEF PipeTypeOK, InHands, EndedSomehow, EofIsLast
      <4>5. Owing'
        BY <2>0, <3>1, <3>2, <4>1, <4>3 DEF PipeTypeOK, Owing, Held
      <4> QED BY <2>0, <2>a, <3>1, <4>2, <4>4, <4>5 DEF PipeInv, Budget
    <3>3. CASE owed' = [owed EXCEPT ![d] = @ - 1] /\ Moves(d, "read") /\ UNCHANGED how
      <4>1. at' = [at EXCEPT ![d] = "read"] /\ how[d] = "no"
        BY <2>0, <3>1, <3>3 DEF Moves, EndedSomehow
      <4>2. owed[d] >= 1
        BY <2>0, <3>1, <4>1 DEF Owing, Held, PipeTypeOK
      <4>3. PipeTypeOK'
        BY <2>0, <3>1, <3>3, <4>1, <4>2 DEF PipeTypeOK
      <4>4. InHands' /\ EndedSomehow'
        BY <2>0, <3>1, <3>3, <4>1 DEF PipeTypeOK, InHands, EndedSomehow
      <4>5. Owing' /\ EofIsLast'
        BY <2>0, <3>1, <3>3, <4>1 DEF PipeTypeOK, Owing, Held, EofIsLast
      <4> QED BY <2>0, <2>a, <3>1, <4>3, <4>4, <4>5 DEF PipeInv, Budget
    <3> QED BY <2>7, <3>2, <3>3 DEF Write
  <2>8. ASSUME NEW d \in Ends, Interrupt(d) PROVE PipeInv'
    <3>1. /\ UNCHANGED <<idle, streams, peer, pend, hand, how, owed, tokens, wake, level>>
          /\ at' = [at EXCEPT ![d] = "done"] /\ at[d] = "end"
          /\ cut' \in SUBSET Ends /\ readBy' \in [Ends -> 0 .. Never]
      BY <2>0, <2>8, LongestIdle DEF Interrupt, Moves, caseVars, limVars, PipeTypeOK, Dst, Ends
    <3>2. PipeTypeOK'
      BY <2>0, <3>1 DEF PipeTypeOK
    <3>3. InHands' /\ EndedSomehow' /\ Owing' /\ EofIsLast'
      BY <2>0, <3>1 DEF PipeTypeOK, InHands, EndedSomehow, Owing, Held, EofIsLast
    <3> QED BY <2>0, <2>a, <3>1, <3>2, <3>3 DEF PipeInv, Budget
  <2>9. CASE UNCHANGED pipeVars
    BY <2>0, <2>a, <2>9 DEF pipeVars, PipeInv, PipeTypeOK, InHands, EndedSomehow, Owing, Held, EofIsLast, Budget
  <2> QED BY <2>1, <2>2, <2>3, <2>4, <2>5, <2>6, <2>7, <2>8, <2>9 DEF PipeNext, Copy
<1> QED BY <1>1, <1>2, PTL DEF PipeSpec

(***************************************************************************)
(* Every variable of a pipe keeps its type: the bucket holds between       *)
(* nothing and one burst, and no more chunks are delivered than were sent. *)
(***************************************************************************)
THEOREM PipeTypeCorrect == PipeSpec => []PipeTypeOK
BY PipeInvariant, PTL DEF PipeInv

(***************************************************************************)
(* Both directions together stay within the rate plus one burst, for every *)
(* rate and every chunk size up to the burst, although a waiter sleeps     *)
(* without the lock and may find the units gone.                           *)
(***************************************************************************)
THEOREM PipeRateBound == PipeSpec => []RateBound
<1>1. PipeInv => RateBound
  BY PipeAssumption DEF PipeInv, PipeTypeOK, Budget, RateBound
<1> QED BY <1>1, PipeInvariant, PTL

(***************************************************************************)
(* The end of one direction loses the other one nothing it has read, on    *)
(* connections and streams, with and without an idle timeout, wherever in  *)
(* its read, its sleep or its write it is hit; and a regular end has       *)
(* delivered everything.                                                   *)
(***************************************************************************)
THEOREM PipeReadIsDelivered == PipeSpec => []ReadIsDelivered
<1>1. PipeInv => ReadIsDelivered
  <2> SUFFICES ASSUME PipeInv, NEW d \in Ends
               PROVE  /\ peer[d] # "gone" /\ owed[d] # pend[d] + InHand(d)
                            => how[d] = "error" /\ peer[Dst(d)] = "gone"
                      /\ how[d] = "timeout" => idle > 0 \/ at[Dst(d)] = "done"
                      /\ how[d] = "eof" => owed[d] = 0
    BY DEF ReadIsDelivered
  <2>0. InHands /\ Owing /\ CutByEnd /\ EofIsLast
    BY DEF PipeInv
  <2>1. Held(d) = pend[d] + InHand(d)
    <3>1. CASE at[d] \in {"wait", "write"}
      <4>1. hand[d] \in Nat \ {0}
        BY <2>0, <3>1, PipeAssumption DEF InHands
      <4> QED BY <3>1, <4>1 DEF Held, InHand
    <3>2. CASE at[d] \notin {"wait", "write"}
      BY <2>0, <3>2 DEF InHands, Held, InHand
    <3> QED BY <3>1, <3>2
  <2> QED BY <2>0, <2>1 DEF Owing, CutByEnd, EofIsLast
<1> QED BY <1>1, PipeInvariant, PTL
=============================================================================
