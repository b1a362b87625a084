--------------------------- MODULE UdpTunnelProofs ---------------------------
(***************************************************************************)
(* Proofs about UdpTunnel for any visitors, any limit and any bounds: the  *)
(* relay implements the abstract UDP service, and the stream it writes to  *)
(* is the only one that is open and still read.                            *)
(***************************************************************************)
EXTENDS UdpTunnel, FiniteSetTheorems, TLAPS

(* The entries of a visitor table.                                         *)
Entries(vs) == {a \in Addrs : vs[a] # NoEntry}

(* A set of visitors is finite, and Size counts the entries of a table.    *)
LEMMA EntriesFinite ==
    ASSUME NEW vs
    PROVE  IsFiniteSet(Entries(vs)) /\ Size(vs) = Cardinality(Entries(vs)) /\ Size(vs) \in Nat
BY UdpAssumption, FS_Subset, FS_CardinalityType DEF Entries, Size

(***************************************************************************)
(* The section under mu, in the terms the invariants use: the visitor in   *)
(* hand keeps its connection ID or gets the next one, others keep their    *)
(* entry or lose their place, and the count moves with the table.          *)
(***************************************************************************)
Given(a) == IF visitors[a] = NoEntry THEN nextID + 1 ELSE visitors[a].id

LEMMA AdmitKeepsOrSweeps ==
    ASSUME TypeOK, NEW a \in Addrs, Admit(a)
    PROVE  /\ visitors' \in [Addrs -> Entry \cup {NoEntry}]
           /\ visitors'[a] = [id |-> Given(a), lastSeen |-> now]
           /\ \A b \in Addrs \ {a} : visitors'[b] = visitors[b] \/ visitors'[b] = NoEntry
           /\ held' = Given(a) /\ Given(a) \in 1 .. MaxIds
<1> DEFINE vs == [visitors EXCEPT ![a] = [id |-> Given(a), lastSeen |-> now]]
<1>1. Given(a) \in 1 .. MaxIds /\ held' = Given(a)
  BY UdpAssumption DEF Admit, TypeOK, Entry, Ids, Given
<1>2. [id |-> Given(a), lastSeen |-> now] \in Entry
  BY <1>1 DEF Entry, Ids, TypeOK
<1>3. vs \in [Addrs -> Entry \cup {NoEntry}]
  BY <1>2 DEF TypeOK
<1>4. visitors' = vs \/ visitors' = Sweep(vs)
  BY DEF Admit, Given
<1>5. ~Expired([id |-> Given(a), lastSeen |-> now])
  BY UdpAssumption DEF Expired, TypeOK
<1>6. Sweep(vs) \in [Addrs -> Entry \cup {NoEntry}]
  BY <1>3 DEF Sweep
<1>7. Sweep(vs)[a] = [id |-> Given(a), lastSeen |-> now]
  BY <1>5 DEF Sweep, TypeOK
<1>8. \A b \in Addrs \ {a} : Sweep(vs)[b] = visitors[b] \/ Sweep(vs)[b] = NoEntry
  BY DEF Sweep, TypeOK
<1> QED BY <1>1, <1>3, <1>4, <1>6, <1>7, <1>8 DEF TypeOK

(* The relay's session count is the size of its table.                     *)
Counted == conns = Size(visitors)

LEMMA AdmitCounts ==
    ASSUME TypeOK, Counted, NEW a \in Addrs, Admit(a)
    PROVE  Counted'
<1> DEFINE vs == [visitors EXCEPT ![a] = [id |-> Given(a), lastSeen |-> now]]
           fresh == visitors[a] = NoEntry
<1>1. [id |-> Given(a), lastSeen |-> now] # NoEntry
  <2>1. Given(a) \in 1 .. MaxIds
    BY AdmitKeepsOrSweeps
  <2> QED BY <2>1, UdpAssumption DEF Entry, Ids, TypeOK
<1>2. Entries(vs) = Entries(visitors) \cup {a} /\ (fresh <=> a \notin Entries(visitors))
  BY <1>1 DEF Entries, TypeOK
<1>3. Size(vs) = Size(visitors) + (IF fresh THEN 1 ELSE 0)
  <2>1. IsFiniteSet(Entries(visitors)) /\ Size(visitors) = Cardinality(Entries(visitors)) /\ Size(visitors) \in Nat
    BY EntriesFinite
  <2>2. Size(vs) = Cardinality(Entries(vs))
    BY EntriesFinite
  <2>3. Cardinality(Entries(vs)) = IF fresh THEN Size(visitors) + 1 ELSE Size(visitors)
    BY <1>2, <2>1, FS_AddElement
  <2> QED BY <2>1, <2>2, <2>3
<1>4. conns' = conns + (IF fresh THEN 1 ELSE 0) - (Size(vs) - Size(visitors'))
  BY DEF Admit, Given
<1>5. Size(visitors) \in Nat /\ Size(visitors') \in Nat /\ Size(vs) \in Nat
  BY EntriesFinite
<1>6. conns' = Size(visitors')
  BY <1>3, <1>4, <1>5 DEF Counted
<1> QED BY <1>6 DEF Counted, Size

(* The new counters of the section stay in their ranges.                   *)
LEMMA AdmitTyped ==
    ASSUME TypeOK, Counted, NEW a \in Addrs, Admit(a)
    PROVE  /\ nextID' \in 0 .. MaxIds /\ owner' \in [1 .. nextID' -> Addrs]
           /\ packets' \in 0 .. SweepEvery - 1 /\ conns' \in Nat
<1>1. nextID' \in 0 .. MaxIds /\ nextID' \in {nextID, Given(a)}
  BY UdpAssumption DEF Admit, TypeOK, Given
<1>2. owner' = [i \in 1 .. nextID' |-> IF i = Given(a) THEN a ELSE owner[i]]
  BY DEF Admit, Given
<1>3. \A i \in 1 .. nextID' : i # Given(a) => i \in 1 .. nextID
  BY <1>1 DEF TypeOK, Admit, Given
<1>4. owner' \in [1 .. nextID' -> Addrs]
  BY <1>2, <1>3 DEF TypeOK
<1>5. packets' \in 0 .. SweepEvery - 1
  BY UdpAssumption DEF Admit, TypeOK
<1>6. conns' \in Nat
  BY AdmitCounts, EntriesFinite DEF Counted, Size
<1> QED BY <1>1, <1>4, <1>5, <1>6

(***************************************************************************)
(* Every connection ID in the table was given to the visitor that holds    *)
(* it.                                                                     *)
(***************************************************************************)
IdsOwned == \A a \in Known : visitors[a].id \in 1 .. nextID /\ owner[visitors[a].id] = a

TunnelInv == TypeOK /\ Counted /\ IdsOwned /\ OneStream

LEMMA InitInv == Init => TunnelInv
<1> SUFFICES ASSUME Init PROVE TunnelInv
  OBVIOUS
<1>1. Known = {} /\ Entries(visitors) = {}
  BY DEF Init, Known, Entries
<1>2. conns = 0 /\ Counted
  BY <1>1, EntriesFinite, FS_EmptySet DEF Init, Counted
<1>3. owner \in [1 .. nextID -> Addrs]
  <2>1. nextID = 0 /\ 1 .. nextID = {}
    BY DEF Init
  <2> QED BY <2>1 DEF Init
<1>4. TypeOK
  <2>1. 0 \in 0 .. MaxTime /\ 0 \in 0 .. MaxIds /\ 0 \in 0 .. SweepEvery - 1 /\ 0 \in 0 .. MaxStreams
    BY UdpAssumption
  <2>2. visitors \in [Addrs -> Entry \cup {NoEntry}] /\ live \in SUBSET (1 .. streams) /\ readers \in SUBSET (1 .. streams) /\ answered \in SUBSET (Addrs \X Addrs)
    BY DEF Init
  <2>3. online \in BOOLEAN /\ stopped \in BOOLEAN /\ cleaned \in BOOLEAN
    BY DEF Init
  <2> QED BY <1>2, <1>3, <2>1, <2>2, <2>3 DEF Init, TypeOK
<1> QED BY <1>1, <1>2, <1>4 DEF Init, TunnelInv, IdsOwned, OneStream

(* A packet that is admitted.                                              *)
LEMMA AdmittedInv ==
    ASSUME TunnelInv, NEW a \in Addrs, Admit(a), pc' = "ensure", drops' = drops,
           UNCHANGED <<now, online, streamVars, stopVars>>, answered' = {}
    PROVE  TunnelInv'
<1>1. TypeOK /\ Counted /\ IdsOwned /\ OneStream
  BY DEF TunnelInv
<1>2. /\ visitors' \in [Addrs -> Entry \cup {NoEntry}]
      /\ visitors'[a] = [id |-> Given(a), lastSeen |-> now]
      /\ \A b \in Addrs \ {a} : visitors'[b] = visitors[b] \/ visitors'[b] = NoEntry
      /\ held' = Given(a) /\ Given(a) \in 1 .. MaxIds
  BY <1>1, AdmitKeepsOrSweeps
<1>3. TypeOK'
  <2>1. held' \in 0 .. MaxIds
    BY <1>2
  <2>2. /\ nextID' \in 0 .. MaxIds /\ owner' \in [1 .. nextID' -> Addrs]
        /\ packets' \in 0 .. SweepEvery - 1 /\ conns' \in Nat
    BY <1>1, AdmitTyped
  <2> QED BY <1>1, <1>2, <2>1, <2>2 DEF TypeOK, streamVars, stopVars
<1>4. Counted'
  BY <1>1, AdmitCounts
<1>5. IdsOwned'
  <2> SUFFICES ASSUME NEW b \in Addrs, visitors'[b] # NoEntry
               PROVE  visitors'[b].id \in 1 .. nextID' /\ owner'[visitors'[b].id] = b
    BY DEF IdsOwned, Known
  <2>1. owner' = [i \in 1 .. nextID' |-> IF i = Given(a) THEN a ELSE owner[i]]
    BY DEF Admit, Given
  <2>2. nextID' = IF visitors[a] = NoEntry THEN nextID + 1 ELSE nextID
    BY DEF Admit
  <2>3. Given(a) \in 1 .. nextID'
    BY <1>1, <2>2 DEF Given, IdsOwned, Known, TypeOK
  <2>4. CASE b = a
    BY <1>2, <2>1, <2>3, <2>4
  <2>5. CASE b # a
    <3>1. visitors'[b] = visitors[b] /\ b \in Known
      BY <1>2, <2>5 DEF Known
    <3>2. visitors[b].id \in 1 .. nextID /\ owner[visitors[b].id] = b
      BY <1>1, <3>1 DEF IdsOwned
    <3>3. visitors[b].id # Given(a)
      BY <1>1, <2>5, <3>2 DEF Given, IdsOwned, Known, TypeOK
    <3>4. visitors[b].id \in 1 .. nextID'
      BY <1>1, <2>2, <3>2 DEF TypeOK
    <3> QED BY <2>1, <3>1, <3>2, <3>3, <3>4
  <2> QED BY <2>4, <2>5
<1>6. OneStream'
  BY <1>1 DEF OneStream, streamVars, stopVars
<1> QED BY <1>3, <1>4, <1>5, <1>6 DEF TunnelInv

(* Steps that leave the visitor table alone only concern the streams.      *)
LEMMA StreamStepInv ==
    ASSUME TunnelInv, UNCHANGED tableVars, TypeOK', OneStream'
    PROVE  TunnelInv'
BY DEF TunnelInv, tableVars, Counted, Size, IdsOwned, Known

LEMMA TunnelInvariant == Spec => []TunnelInv
<1>1. TunnelInv /\ [Next]_vars => TunnelInv'
  <2> SUFFICES ASSUME TunnelInv, [Next]_vars PROVE TunnelInv'
    OBVIOUS
  <2>0. TypeOK /\ OneStream
    BY DEF TunnelInv
  <2>1. ASSUME NEW a \in Addrs, Packet(a) PROVE TunnelInv'
    <3>1. CASE Admit(a) /\ pc' = "ensure" /\ UNCHANGED drops
      BY <2>1, <3>1, AdmittedInv DEF Packet
    <3>2. CASE drops' = 1 - drops /\ UNCHANGED <<visitors, nextID, owner, packets, conns, held, pc>>
      <4>1. UNCHANGED <<tableVars, pc>> \/ (drops' = 1 - drops /\ UNCHANGED <<visitors, nextID, owner, packets, conns, held, pc>>)
        BY <3>2
      <4>2. drops' \in {0, 1}
        BY <2>0, <3>2 DEF TypeOK
      <4>3. TypeOK' /\ OneStream'
        BY <2>0, <2>1, <3>2, <4>2 DEF Packet, TypeOK, OneStream, streamVars, stopVars
      <4> QED BY <3>2, <4>3 DEF TunnelInv, Counted, Size, IdsOwned, Known
    <3> QED BY <2>1, <3>1, <3>2 DEF Packet
  <2>2. CASE Ensure
    <3>1. UNCHANGED <<now, online, tableVars, stopVars>> /\ answered' = {} /\ pc' \in {"read", "write"}
      BY <2>2 DEF Ensure
    <3>2. CASE UNCHANGED streamVars
      <4>1. TypeOK' /\ OneStream'
        BY <2>0, <3>1, <3>2 DEF TypeOK, OneStream, tableVars, streamVars, stopVars
      <4> QED BY <3>1, <4>1, StreamStepInv
    <3>3. CASE stream = 0 /\ streams < MaxStreams /\ streams' = streams + 1 /\ stream' = streams + 1
               /\ live' = live \cup {streams + 1} /\ readers' = readers \cup {streams + 1}
      <4>1. live \cap readers = {} /\ streams + 1 \notin live \cup readers
        BY <2>0, <3>3 DEF TypeOK, OneStream
      <4>2. live' \cap readers' = {streams + 1} /\ streams + 1 \in 1 .. MaxStreams /\ streams + 1 # 0
        <5>1. streams \in Nat /\ MaxStreams \in Nat
          BY <2>0, UdpAssumption DEF TypeOK
        <5>2. streams + 1 \in 1 .. MaxStreams /\ streams + 1 # 0
          BY <3>3, <5>1
        <5> QED BY <3>3, <4>1, <5>2
      <4>3. OneStream'
        BY <3>3, <4>2 DEF OneStream
      <4>4. TypeOK'
        BY <2>0, <3>1, <3>3, <4>2, UdpAssumption DEF TypeOK, tableVars, stopVars
      <4> QED BY <3>1, <4>3, <4>4, StreamStepInv
    <3> QED BY <2>2, <3>2, <3>3 DEF Ensure
  <2>3. CASE WritePacket \/ LoopExits \/ Toggle \/ Tick \/ Stop
    <3>1. UNCHANGED tableVars /\ OneStream'
      BY <2>0, <2>3 DEF WritePacket, LoopExits, Toggle, Tick, Stop, OneStream, streamVars, stopVars
    <3>2. now' \in 0 .. MaxTime
      BY <2>0, <2>3, UdpAssumption DEF WritePacket, LoopExits, Toggle, Tick, Stop, TypeOK
    <3>3. online' \in BOOLEAN /\ stopped' \in BOOLEAN /\ cleaned' \in BOOLEAN
      BY <2>0, <2>3 DEF WritePacket, LoopExits, Toggle, Tick, Stop, TypeOK, stopVars
    <3>4. pc' \in {"read", "ensure", "write", "exit"} /\ answered' = {} /\ UNCHANGED <<tableVars, streamVars>>
      BY <2>0, <2>3 DEF WritePacket, LoopExits, Toggle, Tick, Stop, TypeOK
    <3>5. TypeOK'
      BY <2>0, <3>2, <3>3, <3>4 DEF TypeOK, tableVars, streamVars
    <3> QED BY <3>1, <3>5, StreamStepInv
  <2>4. CASE CleanStream
    <3>1. live' \cap readers' = {} /\ stream' = 0
      BY <2>0, <2>4 DEF CleanStream, OneStream
    <3>2. UNCHANGED tableVars /\ OneStream'
      BY <2>4, <3>1 DEF CleanStream, OneStream
    <3>3. TypeOK'
      BY <2>0, <2>4 DEF CleanStream, TypeOK, tableVars
    <3> QED BY <3>2, <3>3, StreamStepInv
  <2>5. ASSUME NEW s \in Streams, ReaderEnds(s) \/ ReaderCloses(s) PROVE TunnelInv'
    <3>1. live' \cap readers' = {stream'} \ {0}
      <4>1. CASE ReaderEnds(s)
        <5>1. live' \cap readers' = (live \cap readers) \ {s} /\ stream' = IF stream = s THEN 0 ELSE stream
          BY <4>1 DEF ReaderEnds, streamVars
        <5> QED BY <2>0, <5>1 DEF OneStream
      <4>2. CASE ReaderCloses(s)
        BY <2>0, <4>2 DEF ReaderCloses, OneStream
      <4> QED BY <2>5, <4>1, <4>2
    <3>2. UNCHANGED tableVars /\ OneStream'
      BY <2>5, <3>1 DEF ReaderEnds, ReaderCloses, OneStream
    <3>3. TypeOK'
      <4>1. CASE ReaderEnds(s)
        <5>1. stream' \in 0 .. streams /\ readers' \in SUBSET (1 .. streams)
          BY <2>0, <4>1 DEF ReaderEnds, TypeOK
        <5> QED BY <2>0, <4>1, <5>1 DEF ReaderEnds, TypeOK, tableVars, stopVars
      <4>2. CASE ReaderCloses(s)
        BY <2>0, <4>2 DEF ReaderCloses, TypeOK, tableVars, stopVars
      <4> QED BY <2>5, <4>1, <4>2
    <3> QED BY <3>2, <3>3, StreamStepInv
  <2>6. ASSUME NEW s \in Streams, NEW i \in Ids, Deliver(s, i) PROVE TunnelInv'
    <3>1. answered' \in SUBSET (Addrs \X Addrs)
      BY <2>0, <2>6 DEF Deliver, TypeOK, Known
    <3>2. UNCHANGED <<now, online, tableVars, pc, streamVars, stopVars>>
      BY <2>6 DEF Deliver
    <3>3. TypeOK' /\ OneStream'
      BY <2>0, <3>1, <3>2 DEF TypeOK, OneStream, tableVars, streamVars, stopVars
    <3> QED BY <3>2, <3>3, StreamStepInv
  <2>7. CASE UNCHANGED vars
    BY <2>7 DEF vars, TunnelInv, TypeOK, Counted, Size, IdsOwned, Known, OneStream
  <2> QED BY <2>1, <2>2, <2>3, <2>4, <2>5, <2>6, <2>7 DEF Next, Loop
<1> QED
  BY <1>1, InitInv, PTL DEF Spec

-----------------------------------------------------------------------------
(***************************************************************************)
(* The stream the loop writes to is the only one that is open and not      *)
(* about to be closed by its reader, through every reconnect and every     *)
(* stop of the rule.                                                       *)
(***************************************************************************)
THEOREM TunnelOneStream == Spec => []OneStream
<1>1. TunnelInv => OneStream
  BY DEF TunnelInv
<1> QED
  BY <1>1, TunnelInvariant, PTL

(* UdpService's copy of Cardinality is the same operator.                  *)
LEMMA SameCardinality == \A S : Service!Cardinality(S) = Cardinality(S)
BY Zenon DEF Cardinality, Service!Cardinality

(***************************************************************************)
(* The tunnelled relay implements the abstract UDP service: max_conns      *)
(* bounds the places, and an answer goes to the visitor its connection ID  *)
(* was given to.                                                           *)
(***************************************************************************)
THEOREM TunnelImplementsService == Spec => TunnelIsService
<1>1. Init => Service!Init
  BY DEF Init, Service!Init, Known
<1>2. TunnelInv /\ [Next]_vars => [Service!Next]_<<Known, answered>>
  <2> SUFFICES ASSUME TunnelInv, [Next]_vars PROVE Service!Next \/ UNCHANGED <<Known, answered>>
    BY DEF Service!Next
  <2>1. ASSUME UNCHANGED visitors, answered' = {} PROVE Service!Next
    <3>1. Known' = Known \ {}
      BY <2>1 DEF Known
    <3>2. Service!Leave({})
      BY <2>1, <3>1 DEF Service!Leave
    <3> QED BY <3>2 DEF Service!Next
  <2>2. ASSUME NEW a \in Addrs, Packet(a) PROVE Service!Next
    <3>1. CASE UNCHANGED visitors
      BY <2>1, <2>2, <3>1 DEF Packet
    <3>2. CASE ~Full(a) /\ Admit(a)
      <4> DEFINE gone == Known \ Known'
      <4>1. TypeOK /\ gone \in SUBSET Addrs /\ answered' = {}
        BY <2>2 DEF TunnelInv, Known, Packet
      <4>2. visitors'[a] \in Entry
        <5>1. visitors'[a] = [id |-> Given(a), lastSeen |-> now] /\ Given(a) \in Ids
          BY <3>2, <4>1, AdmitKeepsOrSweeps DEF Ids
        <5> QED BY <4>1, <5>1 DEF Entry, TypeOK
      <4>3. Known' = (Known \ gone) \cup {a}
        BY <3>2, <4>1, <4>2, AdmitKeepsOrSweeps, UdpAssumption DEF Known
      <4>4. CASE a \in Known
        <5>1. Known' = Known \ gone
          BY <4>2, <4>3, <4>4, UdpAssumption DEF Known
        <5>2. Service!Leave(gone)
          BY <4>1, <5>1 DEF Service!Leave
        <5> QED BY <4>1, <5>2 DEF Service!Next
      <4>5. CASE a \notin Known
        <5>1. Limit > 0 => Cardinality(Known) < Limit
          <6>1. Cardinality(Known) \in Nat
            BY UdpAssumption, FS_Subset, FS_CardinalityType DEF Known
          <6> QED BY <3>2, <4>5, <6>1, UdpAssumption DEF Full, Known
        <5>2. Service!Enter(a, gone)
          BY <4>1, <4>3, <4>5, <5>1, SameCardinality DEF Service!Enter
        <5> QED BY <4>1, <5>2 DEF Service!Next
      <4> QED BY <4>4, <4>5
    <3> QED BY <2>2, <3>1, <3>2 DEF Packet
  <2>3. ASSUME NEW s \in Streams, NEW i \in Ids, Deliver(s, i) PROVE Service!Next
    <3> DEFINE found == {b \in Known : visitors[b].id = i /\ ~stopped}
    <3>1. answered' = {<<owner[i], a>> : a \in found} /\ UNCHANGED visitors
      BY <2>3 DEF Deliver, tableVars
    <3>2. \A a \in found : owner[i] = a
      BY DEF TunnelInv, IdsOwned
    <3>3. CASE found = {}
      BY <2>1, <3>1, <3>3
    <3>4. CASE found # {}
      <4>1. owner[i] \in Known /\ found = {owner[i]}
        BY <3>2, <3>4
      <4>2. answered' = {<<owner[i], owner[i]>>} /\ Known' = Known
        BY <3>1, <4>1 DEF Known
      <4>3. Service!Answer(owner[i]) /\ owner[i] \in Addrs
        BY <4>1, <4>2 DEF Service!Answer, Known
      <4> QED BY <4>3 DEF Service!Next
    <3> QED BY <3>3, <3>4
  <2>4. CASE Loop \/ Stop \/ CleanStream \/ Toggle \/ Tick \/ \E s \in Streams : ReaderEnds(s) \/ ReaderCloses(s)
    BY <2>1, <2>4 DEF Loop, Ensure, WritePacket, LoopExits, Stop, CleanStream, Toggle, Tick, ReaderEnds, ReaderCloses, tableVars
  <2>5. CASE UNCHANGED vars
    BY <2>5 DEF vars, Known
  <2> QED BY <2>2, <2>3, <2>4, <2>5 DEF Next
<1> QED
  BY <1>1, <1>2, TunnelInvariant, PTL DEF Spec, TunnelIsService, Service!Spec

(* What the service allows bounds the places.                              *)
Within == Limit > 0 => Cardinality(Known) <= Limit

(***************************************************************************)
(* The visitor table never holds more than max_conns visitors, through     *)
(* every mix of new visitors, drops and sweeps: read off the service that  *)
(* the relay implements.                                                   *)
(***************************************************************************)
THEOREM TunnelTableBounded == Spec => []Within
<1>1. IsFiniteSet(Known) /\ IsFiniteSet(Known') /\ Cardinality(Known) \in Nat
  BY UdpAssumption, FS_Subset, FS_CardinalityType DEF Known
<1>2. Service!Init => Within
  BY UdpAssumption, FS_EmptySet DEF Service!Init, Within
<1>3. Within /\ [Service!Next]_<<Known, answered>> => Within'
  <2> SUFFICES ASSUME Within, Service!Next \/ UNCHANGED <<Known, answered>>, Limit > 0
               PROVE  Cardinality(Known') <= Limit
    BY DEF Within
  <2>0. Cardinality(Known) \in Nat /\ Cardinality(Known) <= Limit
    BY <1>1 DEF Within
  <2>1. ASSUME NEW gone, Service!Leave(gone) PROVE Cardinality(Known') <= Limit
    <3>1. Known' \in SUBSET Known
      BY <2>1 DEF Service!Leave
    <3>2. Cardinality(Known') <= Cardinality(Known) /\ Cardinality(Known') \in Nat
      BY <1>1, <3>1, FS_Subset, FS_CardinalityType
    <3> QED BY <2>0, <3>2, UdpAssumption
  <2>2. ASSUME NEW gone, NEW v, Service!Enter(v, gone) PROVE Cardinality(Known') <= Limit
    <3>1. Known' \in SUBSET (Known \cup {v})
      BY <2>2 DEF Service!Enter
    <3>2. IsFiniteSet(Known \cup {v}) /\ Cardinality(Known \cup {v}) = Cardinality(Known) + 1
      BY <1>1, <2>2, FS_AddElement DEF Service!Enter
    <3>3. Cardinality(Known') <= Cardinality(Known) + 1 /\ Cardinality(Known') \in Nat
      BY <1>1, <3>1, <3>2, FS_Subset, FS_CardinalityType
    <3>4. Cardinality(Known) < Limit
      BY <2>2, SameCardinality DEF Service!Enter
    <3> QED BY <2>0, <3>3, <3>4, UdpAssumption
  <2>3. ASSUME Known' = Known PROVE Cardinality(Known') <= Limit
    BY <2>0, <2>3
  <2> QED BY <2>1, <2>2, <2>3 DEF Service!Next, Service!Answer
<1> QED
  BY <1>2, <1>3, TunnelImplementsService, PTL DEF TunnelIsService, Service!Spec
=============================================================================
