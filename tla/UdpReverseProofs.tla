-------------------------- MODULE UdpReverseProofs --------------------------
(***************************************************************************)
(* Proofs about UdpReverse for any visitors, connection IDs, limits and    *)
(* bounds.  The backends first, on their own: the table only holds open    *)
(* sockets of the right session, and the session count is exact, although  *)
(* two goroutines give up a socket whose write failed.  Then the relay and *)
(* the backends together: they implement the abstract UDP service.         *)
(***************************************************************************)
EXTENDS UdpReverse, FiniteSetTheorems, SequenceTheorems, TLAPS

Sessions == {b \in Socks : reader[b] # "gone"}

(* A socket that was never dialled has no reader.                          *)
Fresh == \A b \in Socks : b > last => reader[b] = "gone"

(* The number of sockets is finite.                                        *)
LEMMA SessionsFinite == IsFiniteSet(Sessions) /\ Cardinality(Sessions) \in Nat
<1>1. IsFiniteSet(Socks)
  BY BackendsAssumption, FS_Interval DEF Socks
<1> QED BY <1>1, FS_Subset, FS_CardinalityType DEF Sessions

(* What a dial does, apart from the other two outcomes of Packet.          *)
Dialled(i) ==
    /\ pc = "read" /\ pc' = "write" /\ id' = i
    /\ backends[i] = 0 /\ last \in 0 .. MaxSocks - 1 /\ last + 1 \in Socks
    /\ last' = last + 1 /\ sock' = last + 1
    /\ backends' = [backends EXCEPT ![i] = last + 1]
    /\ owner' = [owner EXCEPT ![last + 1] = i]
    /\ reader' = [reader EXCEPT ![last + 1] = "reading"]
    /\ open' = open \cup {last + 1}
    /\ conns' = conns + 1

(* A packet finds its socket, dials one, or is lost.                       *)
LEMMA PacketCases ==
    ASSUME TypeOK, NEW i \in Ids, Packet(i)
    PROVE  \/ Dialled(i)
           \/ /\ UNCHANGED <<backends, last, owner, reader, open, conns>>
              /\ \/ pc' = "write" /\ id' = i /\ backends[i] # 0 /\ sock' = backends[i]
                 \/ pc' = "read" /\ id' = id /\ sock' = sock
BY BackendsAssumption DEF Packet, Dialled, TypeOK, Socks, vars

CountInv == TypeOK /\ Fresh /\ ConnsExact

(***************************************************************************)
(* The session count is exact and every variable keeps its type.           *)
(***************************************************************************)
LEMMA CountInvariant == Spec => []CountInv
<1>1. Init => CountInv
  <2> SUFFICES ASSUME Init PROVE CountInv
    OBVIOUS
  <2>1. TypeOK
    BY BackendsAssumption DEF Init, TypeOK, Socks
  <2>2. Sessions = {} /\ Fresh
    BY DEF Init, Sessions, Fresh
  <2> QED BY <2>1, <2>2, FS_EmptySet DEF Init, CountInv, ConnsExact, Sessions
<1>2. CountInv /\ [Next]_vars => CountInv'
  <2> SUFFICES ASSUME CountInv, [Next]_vars PROVE CountInv'
    OBVIOUS
  <2>0. TypeOK /\ Fresh /\ ConnsExact
    BY DEF CountInv
  <2>1. CASE Loop \/ StreamEnds
    <3>1. TypeOK'
      <4>1. pc' \in {"read", "write", "drop", "close", "done"} /\ UNCHANGED <<last, owner, reader, conns>>
        BY <2>1 DEF Loop, Write, Drop, CloseSock, StreamEnds
      <4>4. id' \in {id, 0} /\ sock' \in {sock, 0}
        BY <2>1 DEF Loop, Write, Drop, CloseSock, StreamEnds
      <4>2. backends' \in [Ids -> 0 .. last]
        BY <2>0, <2>1 DEF TypeOK, Loop, Write, Drop, CloseSock, StreamEnds
      <4>3. open' \in SUBSET (1 .. last)
        BY <2>0, <2>1 DEF TypeOK, Loop, Write, Drop, CloseSock, StreamEnds
      <4> QED BY <2>0, <4>1, <4>2, <4>3, <4>4 DEF TypeOK
    <3>2. UNCHANGED <<last, reader, conns>>
      BY <2>1 DEF Loop, Write, Drop, CloseSock, StreamEnds
    <3> QED BY <2>0, <3>1, <3>2 DEF CountInv, Fresh, ConnsExact
  <2>2. ASSUME NEW i \in Ids, Packet(i) PROVE CountInv'
    <3>1. CASE Dialled(i)
      <4>1. TypeOK'
        <5>1. last' \in 0 .. MaxSocks /\ sock' \in 0 .. last'
          BY <2>0, <3>1, BackendsAssumption DEF TypeOK, Dialled
        <5>2. backends' \in [Ids -> 0 .. last'] /\ owner' \in [Socks -> Ids \cup {0}]
          BY <2>0, <3>1 DEF TypeOK, Dialled
        <5>3. open' \in SUBSET (1 .. last')
          BY <2>0, <3>1 DEF TypeOK, Dialled
        <5>4. reader' \in [Socks -> {"reading", "broken", "deleted", "gone"}] /\ conns' \in Nat
          BY <2>0, <3>1 DEF TypeOK, Dialled
        <5>5. pc' = "write" /\ id' \in Ids
          BY <3>1 DEF Dialled
        <5> QED BY <5>1, <5>2, <5>3, <5>4, <5>5 DEF TypeOK
      <4>2. Fresh'
        BY <2>0, <3>1 DEF Fresh, TypeOK, Socks, Dialled
      <4>3. Sessions' = Sessions \cup {last + 1} /\ last + 1 \notin Sessions
        BY <2>0, <3>1 DEF Sessions, Fresh, TypeOK, Socks, Dialled
      <4>4. ConnsExact'
        <5>1. Cardinality(Sessions') = Cardinality(Sessions) + 1
          BY <4>3, SessionsFinite, FS_AddElement
        <5> QED BY <2>0, <3>1, <5>1 DEF ConnsExact, Sessions, Dialled
      <4> QED BY <4>1, <4>2, <4>4 DEF CountInv
    <3>2. CASE ~ Dialled(i)
      <4>1. /\ UNCHANGED <<backends, last, owner, reader, open, conns>> /\ id' \in {id, i}
            /\ pc' \in {"read", "write"} /\ sock' \in {sock, backends[i]}
        BY <2>0, <2>2, <3>2, PacketCases
      <4>2. TypeOK'
        BY <2>0, <4>1 DEF TypeOK
      <4> QED BY <2>0, <4>1, <4>2 DEF CountInv, Fresh, ConnsExact
    <3> QED BY <3>1, <3>2
  <2>3. ASSUME NEW b \in Socks, ReadFails(b) \/ ReaderDeletes(b) PROVE CountInv'
    <3>1. TypeOK'
      <4>1. backends' \in [Ids -> 0 .. last]
        BY <2>0, <2>3 DEF TypeOK, ReadFails, ReaderDeletes
      <4>2. reader' \in [Socks -> {"reading", "broken", "deleted", "gone"}]
        BY <2>0, <2>3 DEF TypeOK, ReadFails, ReaderDeletes, Becomes
      <4>3. UNCHANGED <<loopVars, last, owner, open, conns>>
        BY <2>3 DEF ReadFails, ReaderDeletes
      <4> QED BY <2>0, <4>1, <4>2, <4>3 DEF TypeOK, loopVars
    <3>2. Sessions' = Sessions /\ conns' = conns /\ last' = last
      BY <2>0, <2>3 DEF TypeOK, ReadFails, ReaderDeletes, Becomes, Sessions
    <3>3. Fresh'
      BY <2>0, <2>3, <3>2 DEF Fresh, TypeOK, ReadFails, ReaderDeletes, Becomes, Socks
    <3> QED BY <2>0, <3>1, <3>2, <3>3 DEF CountInv, ConnsExact, Sessions
  <2>4. ASSUME NEW b \in Socks, ReaderEnds(b) PROVE CountInv'
    <3>1. Sessions' = Sessions \ {b} /\ b \in Sessions
      BY <2>0, <2>4 DEF TypeOK, ReaderEnds, Becomes, Sessions
    <3>2. Cardinality(Sessions \ {b}) = Cardinality(Sessions) - 1 /\ Cardinality(Sessions \ {b}) \in Nat
      BY <3>1, SessionsFinite, FS_RemoveElement, FS_CardinalityType
    <3>3. conns' \in Nat /\ ConnsExact'
      BY <2>0, <2>4, <3>1, <3>2 DEF ConnsExact, ReaderEnds, Sessions
    <3>4. TypeOK'
      BY <2>0, <2>4, <3>3 DEF TypeOK, ReaderEnds, Becomes, loopVars
    <3>5. Fresh'
      BY <2>0, <2>4 DEF Fresh, TypeOK, ReaderEnds, Becomes, Socks
    <3> QED BY <3>3, <3>4, <3>5 DEF CountInv
  <2>5. CASE UNCHANGED vars
    BY <2>0, <2>5 DEF CountInv, TypeOK, Fresh, ConnsExact, vars
  <2> QED
    BY <2>1, <2>2, <2>3, <2>4, <2>5 DEF Next, Reader
<1> QED BY <1>1, <1>2, PTL DEF Spec

(***************************************************************************)
(* Every variable keeps its type; st.Conns never goes below zero.          *)
(***************************************************************************)
THEOREM BackendsTypeCorrect == Spec => []TypeOK
BY CountInvariant, PTL DEF CountInv

(***************************************************************************)
(* st.Conns counts exactly the sockets whose reader has not ended, also    *)
(* when the main loop gives up a socket and its reader does so as well.    *)
(***************************************************************************)
THEOREM BackendsConnsExact == Spec => []ConnsExact
BY CountInvariant, PTL DEF CountInv

-----------------------------------------------------------------------------
(* An entry's reader has yet to delete it, so nobody but the main loop can *)
(* have closed its socket.                                                 *)
EntriesOwned ==
    \A i \in Ids : backends[i] # 0 =>
        reader[backends[i]] \in {"reading", "broken"} /\ owner[backends[i]] = i

(* The socket in the main loop's hands was dialled for the packet's ID;    *)
(* when it is about to be closed, that ID has no entry.                    *)
InHand ==
    /\ pc \in {"write", "drop", "close"} => id \in Ids /\ sock # 0 /\ owner[sock] = id
    /\ pc = "close" => backends[id] = 0

OpenInv == EntriesOwned /\ InHand /\ TableIsOpen

LEMMA OpenInvariant == Spec => []OpenInv
<1>1. Init => OpenInv
  BY DEF Init, OpenInv, EntriesOwned, InHand, TableIsOpen
<1>2. TypeOK /\ Fresh /\ OpenInv /\ [Next]_vars => OpenInv'
  <2> SUFFICES ASSUME TypeOK, Fresh, OpenInv, [Next]_vars PROVE OpenInv'
    OBVIOUS
  <2>0. \A i \in Ids : backends[i] # 0 => backends[i] \in 1 .. last /\ backends[i] \in Socks
    <3> SUFFICES ASSUME NEW i \in Ids, backends[i] # 0 PROVE backends[i] \in 1 .. last /\ backends[i] \in Socks
      OBVIOUS
    <3>1. backends[i] \in 0 .. last /\ last \in 0 .. MaxSocks
      BY DEF TypeOK
    <3> QED BY <3>1, BackendsAssumption DEF Socks
  <2>1. CASE Write \/ Drop
    <3>1. /\ UNCHANGED <<owner, reader, open>>
          /\ pc' # "read" => UNCHANGED <<id, sock>>
      BY <2>1 DEF Write, Drop
    <3>2. EntriesOwned'
      BY <2>1, <3>1 DEF Write, Drop, OpenInv, EntriesOwned, TypeOK
    <3>3. InHand'
      BY <2>1, <3>1 DEF Write, Drop, OpenInv, InHand, TypeOK
    <3>4. TableIsOpen'
      BY <2>1, <3>1 DEF Write, Drop, OpenInv, TableIsOpen, TypeOK
    <3> QED BY <3>2, <3>3, <3>4 DEF OpenInv
  <2>2. CASE CloseSock
    <3>1. \A i \in Ids : backends[i] # 0 => backends[i] # sock
      BY <2>2 DEF CloseSock, OpenInv, EntriesOwned, InHand
    <3> QED BY <2>2, <3>1 DEF CloseSock, OpenInv, EntriesOwned, InHand, TableIsOpen
  <2>3. CASE StreamEnds
    BY <2>3 DEF StreamEnds, OpenInv, EntriesOwned, InHand, TableIsOpen
  <2>4. ASSUME NEW i \in Ids, Packet(i) PROVE OpenInv'
    <3>1. CASE Dialled(i)
      <4>1. \A j \in Ids : backends'[j] = IF j = i THEN last + 1 ELSE backends[j]
        BY <3>1 DEF Dialled, TypeOK
      <4>2. \A j \in Ids : backends[j] # 0 => backends[j] # last + 1
        BY <2>0 DEF TypeOK
      <4>3. /\ reader'[last + 1] = "reading" /\ owner'[last + 1] = i
            /\ \A b \in Socks : b # last + 1 => reader'[b] = reader[b] /\ owner'[b] = owner[b]
        BY <3>1 DEF Dialled, TypeOK
      <4>4. EntriesOwned'
        BY <2>0, <4>1, <4>2, <4>3 DEF OpenInv, EntriesOwned
      <4>5. InHand'
        BY <3>1, <4>3 DEF Dialled, InHand, TypeOK
      <4>6. TableIsOpen'
        BY <2>0, <3>1, <4>1, <4>2, <4>3 DEF OpenInv, TableIsOpen, Dialled
      <4> QED BY <4>4, <4>5, <4>6 DEF OpenInv
    <3>2. CASE ~ Dialled(i)
      <4>1. /\ UNCHANGED <<backends, last, owner, reader, open, conns>>
            /\ \/ pc' = "write" /\ id' = i /\ backends[i] # 0 /\ sock' = backends[i]
               \/ pc' = "read" /\ id' = id /\ sock' = sock
        BY <2>4, <3>2, PacketCases
      <4>2. pc = "read"
        BY <2>4 DEF Packet
      <4> QED BY <4>1, <4>2 DEF OpenInv, EntriesOwned, InHand, TableIsOpen
    <3> QED BY <3>1, <3>2
  <2>5. ASSUME NEW b \in Socks, ReadFails(b) \/ ReaderDeletes(b) PROVE OpenInv'
    <3>1. /\ UNCHANGED <<pc, id, sock, owner, open>>
          /\ \A i \in Ids : backends'[i] \in {0, backends[i]}
          /\ \A c \in Socks : c # b => reader'[c] = reader[c]
      BY <2>5 DEF ReadFails, ReaderDeletes, Becomes, loopVars, TypeOK
    <3>2. reader'[b] = "broken" \/ \A i \in Ids : backends'[i] # b
      <4>1. CASE ReadFails(b)
        BY <4>1 DEF ReadFails, Becomes, TypeOK
      <4>2. CASE ReaderDeletes(b)
        <5>1. b # 0 /\ \A i \in Ids : i = owner[b] => backends'[i] = 0
          BY <4>2 DEF ReaderDeletes, TypeOK, Socks
        <5>2. \A i \in Ids : backends[i] = b => i = owner[b]
          BY <5>1 DEF OpenInv, EntriesOwned
        <5> QED BY <3>1, <5>1, <5>2
      <4> QED BY <2>5, <4>1, <4>2
    <3>3. EntriesOwned'
      BY <2>0, <3>1, <3>2 DEF OpenInv, EntriesOwned
    <3>4. InHand' /\ TableIsOpen'
      BY <3>1 DEF OpenInv, InHand, TableIsOpen, TypeOK
    <3> QED BY <3>3, <3>4 DEF OpenInv
  <2>6. ASSUME NEW b \in Socks, ReaderEnds(b) PROVE OpenInv'
    <3>1. /\ UNCHANGED <<pc, id, sock, owner, backends>> /\ open' = open \ {b}
          /\ reader[b] = "deleted" /\ \A c \in Socks : c # b => reader'[c] = reader[c]
      BY <2>6 DEF ReaderEnds, Becomes, loopVars, TypeOK
    <3>2. \A i \in Ids : backends[i] # b
      BY <3>1 DEF OpenInv, EntriesOwned, Socks
    <3> QED BY <2>0, <3>1, <3>2 DEF OpenInv, EntriesOwned, InHand, TableIsOpen
  <2>7. CASE UNCHANGED vars
    BY <2>7 DEF OpenInv, EntriesOwned, InHand, TableIsOpen, vars
  <2> QED
    BY <2>1, <2>2, <2>3, <2>4, <2>5, <2>6, <2>7 DEF Next, Loop, Reader
<1>3. Spec => [](TypeOK /\ Fresh)
  BY CountInvariant, PTL DEF CountInv
<1> QED BY <1>1, <1>2, <1>3, PTL DEF Spec

(***************************************************************************)
(* While the stream lives a packet never meets a socket that was closed    *)
(* before it was looked up, nor one of another session, for every order in *)
(* which the main loop and the readers give sockets up.                    *)
(***************************************************************************)
THEOREM BackendsTableIsOpen == Spec => []TableIsOpen
BY OpenInvariant, PTL DEF OpenInv

-----------------------------------------------------------------------------
(* What is in a queue, and what the operations on one do to it.            *)
Elements(q) == {q[k] : k \in DOMAIN q}

LEMMA AppendQueue ==
    ASSUME NEW S, NEW q \in Seq(S), NEW x \in S
    PROVE  Append(q, x) \in Seq(S) /\ Elements(Append(q, x)) \subseteq Elements(q) \cup {x}
<1>1. Append(q, x) \in Seq(S) /\ Len(Append(q, x)) = Len(q) + 1 /\ Append(q, x)[Len(q) + 1] = x
  BY AppendProperties
<1>2. \A k \in 1 .. Len(q) : Append(q, x)[k] = q[k]
  BY AppendProperties
<1>3. DOMAIN Append(q, x) = 1 .. Len(q) + 1 /\ DOMAIN q = 1 .. Len(q) /\ Len(q) \in Nat
  BY <1>1, LenProperties
<1> QED BY <1>1, <1>2, <1>3 DEF Elements

LEMMA TakeFromQueue ==
    ASSUME NEW S, NEW q \in Seq(S), q # <<>>
    PROVE  /\ Head(q) \in S /\ Head(q) \in Elements(q)
           /\ Tail(q) \in Seq(S) /\ Elements(Tail(q)) \subseteq Elements(q)
<1>1. Head(q) \in S /\ Tail(q) \in Seq(S) /\ Len(Tail(q)) = Len(q) - 1
  BY HeadTailProperties
<1>2. \A k \in 1 .. Len(Tail(q)) : Tail(q)[k] = q[k + 1]
  BY HeadTailProperties
<1>3. DOMAIN q = 1 .. Len(q) /\ Len(q) \in Nat /\ DOMAIN Tail(q) = 1 .. Len(Tail(q))
  BY <1>1, LenProperties
<1>4. Len(q) # 0 /\ Head(q) = q[1]
  BY EmptySeq
<1> QED BY <1>1, <1>2, <1>3, <1>4 DEF Elements

LEMMA CutQueue ==
    ASSUME NEW S, NEW q \in Seq(S), NEW n \in 0 .. Len(q)
    PROVE  SubSeq(q, 1, n) \in Seq(S) /\ Elements(SubSeq(q, 1, n)) \subseteq Elements(q)
<1>1. Len(q) \in Nat /\ DOMAIN q = 1 .. Len(q) /\ \A k \in 1 .. n : k \in 1 .. Len(q) /\ q[k] \in S
  BY LenProperties
<1>2. n \in Int /\ 1 \in Int
  BY <1>1
<1>3. SubSeq(q, 1, n) \in Seq(S) /\ Len(SubSeq(q, 1, n)) = n
  BY <1>1, <1>2, SubSeqProperties
<1>4. \A k \in 1 .. n : SubSeq(q, 1, n)[k] = q[k]
  BY <1>1, <1>2, SubSeqProperties
<1>5. DOMAIN SubSeq(q, 1, n) = 1 .. n
  BY <1>3, LenProperties
<1> QED BY <1>1, <1>3, <1>4, <1>5 DEF Elements

(* What the relay keeps to itself is well typed, the packet in its hands   *)
(* has a visitor with an ID, and only such IDs go into the stream.         *)
RelayInv ==
    /\ RelayTypeOK
    /\ loop = "write" => src \in Known
    /\ out \in Seq([id : Ids, from : Addrs])

(* A packet that is taken: its visitor has an ID then, a new one the next, *)
(* and others keep theirs or lose their place.                             *)
LEMMA TakeKeepsOrSweeps ==
    ASSUME RelayTypeOK, NEW a \in Addrs, Take(a)
    PROVE  /\ visitors' \in [Addrs -> Ids \cup {0}] /\ idle' \in SUBSET Addrs
           /\ nextID' \in Nat /\ nextID <= nextID' /\ packets' \in 0 .. SweepEvery - 1
           /\ visitors'[a] = IF visitors[a] = 0 THEN nextID + 1 ELSE visitors[a]
           /\ visitors'[a] # 0 /\ (visitors[a] = 0 => nextID' = nextID + 1)
           /\ \A v \in Addrs \ {a} : visitors'[v] \in {visitors[v], 0}
<1>1. nextID' \in Ids /\ nextID' = IF visitors[a] = 0 THEN nextID + 1 ELSE nextID
  BY DEF Take
<1>2. nextID' \in Nat /\ nextID <= nextID' /\ (visitors[a] = 0 => nextID' = nextID + 1)
  BY <1>1 DEF RelayTypeOK
<1>3. packets' \in 0 .. SweepEvery - 1
  BY ReverseAssumption DEF Take, RelayTypeOK
<1>4. visitors' \in [Addrs -> Ids \cup {0}]
  BY <1>1 DEF Take, RelayTypeOK
<1>5. /\ visitors'[a] = IF visitors[a] = 0 THEN nextID + 1 ELSE visitors[a]
      /\ \A v \in Addrs \ {a} : visitors'[v] \in {visitors[v], 0}
  BY DEF Take, RelayTypeOK
<1>6. visitors'[a] # 0
  BY <1>1, <1>5, BackendsAssumption
<1>7. idle' \in SUBSET Addrs
  BY DEF Take, RelayTypeOK
<1> QED BY <1>2, <1>3, <1>4, <1>5, <1>6, <1>7

(***************************************************************************)
(* The relay's own invariant, which needs nothing of the backends.         *)
(***************************************************************************)
LEMMA RelayInvariant == ReverseSpec => []RelayInv
<1>1. ReverseInit => RelayInv
  <2> SUFFICES ASSUME ReverseInit PROVE RelayInv
    OBVIOUS
  <2>1. out \in Seq([id : Ids, from : Addrs])
    BY EmptySeq DEF ReverseInit
  <2>2. RelayTypeOK
    BY ReverseAssumption DEF ReverseInit, RelayTypeOK
  <2> QED BY <2>1, <2>2 DEF ReverseInit, RelayInv
<1>2. RelayInv /\ [ReverseNext]_reverseVars => RelayInv'
  <2> SUFFICES ASSUME RelayInv, [ReverseNext]_reverseVars PROVE RelayInv'
    OBVIOUS
  <2> DEFINE Packets == [id : Ids, from : Addrs]
  <2>0. RelayTypeOK /\ out \in Seq(Packets) /\ (loop = "write" => src \in Known)
    BY DEF RelayInv
  <2>1. ASSUME NEW a \in Addrs, Receive(a) PROVE RelayInv'
    <3>1. Take(a) /\ src' = a /\ loop' = "write" /\ out' = out
      BY <2>1 DEF Receive, dataVars
    <3>2. RelayTypeOK' /\ a \in Known'
      BY <2>0, <3>1, TakeKeepsOrSweeps DEF RelayTypeOK, Known
    <3> QED BY <2>0, <3>1, <3>2 DEF RelayInv
  <2>2. ASSUME UNCHANGED relayVars, out' \in Seq(Packets) PROVE RelayInv'
    BY <2>0, <2>2 DEF RelayInv, RelayTypeOK, relayVars, Known
  <2>3. ASSUME LoopReturns, out' = out PROVE RelayInv'
    BY <2>0, <2>3, ReverseAssumption DEF RelayInv, RelayTypeOK, LoopReturns
  <2>4. CASE FallIdle
    BY <2>0, <2>4 DEF FallIdle, RelayInv, RelayTypeOK, Known, dataVars
  <2>5. CASE Send
    <3>1. CASE LoopReturns /\ UNCHANGED out
      BY <2>3, <3>1
    <3>2. CASE out' = Append(out, [id |-> visitors[src], from |-> src]) /\ loop' = "read" /\ src' = 0
               /\ UNCHANGED <<visitors, nextID, idle, packets>>
      <4>1. [id |-> visitors[src], from |-> src] \in Packets
        BY <2>0, <2>5 DEF Send, Known, RelayTypeOK
      <4>2. out' \in Seq(Packets)
        BY <2>0, <3>2, <4>1, AppendQueue
      <4> QED BY <2>0, <3>2, <4>2 DEF RelayInv, RelayTypeOK
    <3> QED BY <2>5, <3>1, <3>2 DEF Send
  <2>6. CASE LoopEnds
    BY <2>3, <2>6 DEF LoopEnds, dataVars
  <2>7. CASE LoseSession
    <3>1. PICK k \in 0 .. Len(out) : out' = SubSeq(out, 1, k)
      BY <2>7 DEF LoseSession
    <3>2. out' \in Seq(Packets)
      BY <2>0, <3>1, CutQueue
    <3> QED BY <2>2, <2>7, <3>2 DEF LoseSession
  <2>8. CASE TakePacket
    <3>1. out' \in Seq(Packets)
      BY <2>0, <2>8, TakeFromQueue DEF TakePacket
    <3> QED BY <2>2, <2>8, <3>1 DEF TakePacket
  <2>9. CASE StopRule \/ StreamReader \/ WritePacket \/ GiveUp \/ EndOfStream
             \/ \E b \in Socks : Reply(b) \/ SockReader(b)
    <3>1. UNCHANGED <<relayVars, out>>
      BY <2>9 DEF StopRule, StreamReader, Deliver, ReaderStops, WritePacket, GiveUp, EndOfStream, Reply, SockReader, dataVars
    <3> QED BY <2>0, <2>2, <3>1
  <2>10. CASE UNCHANGED reverseVars
    BY <2>0, <2>2, <2>10 DEF reverseVars, dataVars
  <2> QED BY <2>1, <2>4, <2>5, <2>6, <2>7, <2>8, <2>9, <2>10 DEF ReverseNext, RelayLoop, ServerLoop
<1> QED BY <1>1, <1>2, PTL DEF ReverseSpec

(***************************************************************************)
(* Behind the stream the backends run as they do on their own: every step  *)
(* of the whole is one of theirs or leaves them alone.  So whatever holds  *)
(* of them for any packets holds of a reverse rule from end to end.        *)
(***************************************************************************)
THEOREM ReverseRunsBackends == ReverseSpec => Spec
<1>1. ReverseInit => Init
  BY DEF ReverseInit
<1>2. RelayInv /\ [ReverseNext]_reverseVars => [Next]_vars
  <2> SUFFICES ASSUME RelayInv, [ReverseNext]_reverseVars PROVE Next \/ UNCHANGED vars
    OBVIOUS
  <2>1. CASE TakePacket
    <3>1. Head(out) \in [id : Ids, from : Addrs]
      BY <2>1, TakeFromQueue DEF TakePacket, RelayInv
    <3>2. Head(out).id \in Ids /\ Packet(Head(out).id)
      BY <2>1, <3>1 DEF TakePacket
    <3> QED BY <3>2 DEF Next
  <2>2. CASE WritePacket \/ GiveUp \/ EndOfStream
    BY <2>2 DEF WritePacket, GiveUp, EndOfStream, Next, Loop
  <2>3. ASSUME NEW b \in Socks, SockReader(b) PROVE Next
    BY <2>3 DEF SockReader, Next
  <2>4. CASE (\E a \in Addrs : Receive(a)) \/ FallIdle \/ StopRule \/ LoseSession \/ RelayLoop \/ StreamReader
             \/ \E b \in Socks : Reply(b)
    BY <2>4 DEF Receive, FallIdle, StopRule, LoseSession, RelayLoop, Send, LoopEnds, StreamReader, Deliver, ReaderStops, Reply
  <2>5. CASE UNCHANGED reverseVars
    BY <2>5 DEF reverseVars
  <2> QED BY <2>1, <2>2, <2>3, <2>4, <2>5 DEF ReverseNext, ServerLoop
<1> QED BY <1>1, <1>2, RelayInvariant, PTL DEF ReverseSpec, Spec

(***************************************************************************)
(* Under a reverse rule too the server's table holds open sockets of the   *)
(* right session only and st.Conns is exact, also when the stream breaks   *)
(* with packets under way.                                                 *)
(***************************************************************************)
THEOREM ReverseBackendsSound == ReverseSpec => [](TableIsOpen /\ ConnsExact)
BY ReverseRunsBackends, BackendsTableIsOpen, BackendsConnsExact, PTL

-----------------------------------------------------------------------------
(* Connection ID i stands with visitor a: in the client's table, on a      *)
(* packet in flight, in the server's hands or at one of its sockets.       *)
InTable(i, a) == visitors[a] = i
InFlight(i, a) == [id |-> i, from |-> a] \in Elements(out) \cup Elements(back)
AtServer(i, a) ==
    \/ from = a /\ id = i
    \/ \E b \in Socks : owner[b] = i /\ a \in heard[b]
Recorded(i, a) == InTable(i, a) \/ InFlight(i, a) \/ AtServer(i, a)

(* The packet in the server's hands has a sender.                          *)
SenderInHand == pc = "write" => from \in Addrs

(* Only a socket that was dialled has been written to.                     *)
HeardDialled == \A b \in Socks : b > last => heard[b] = {}

(* An ID stands with one visitor, in whatever order packets, sweeps and    *)
(* answers cross; while the loop runs it has given out every ID there is.  *)
OneVisitor == \A i \in Ids, a, b \in Addrs : Recorded(i, a) /\ Recorded(i, b) => a = b
GivenOut == loop # "done" => \A i \in Ids, a \in Addrs : Recorded(i, a) => i <= nextID

DataInv == DataTypeOK /\ SenderInHand /\ HeardDialled /\ OneVisitor /\ GivenOut

(* A step that records nothing and gives out no ID.                        *)
LEMMA NothingNew ==
    ASSUME OneVisitor, GivenOut,
           \A i \in Ids, a \in Addrs : Recorded(i, a)' => Recorded(i, a),
           loop' = "done" \/ (loop # "done" /\ nextID' = nextID)
    PROVE  OneVisitor' /\ GivenOut'
BY DEF OneVisitor, GivenOut

(* A packet arrives: only a new visitor is recorded, with a new ID.        *)
LEMMA ReceiveKeepsIDs ==
    ASSUME RelayTypeOK, OneVisitor, GivenOut, NEW a \in Addrs, Receive(a)
    PROVE  OneVisitor' /\ GivenOut'
<1>1. Take(a) /\ UNCHANGED <<id, owner, out, back, from, heard>> /\ loop = "read" /\ loop' = "write"
  BY DEF Receive, vars, dataVars
<1>2. \A i \in Ids, v \in Addrs : InFlight(i, v)' = InFlight(i, v) /\ AtServer(i, v)' = AtServer(i, v)
  BY <1>1 DEF InFlight, AtServer, Elements
<1>3. \A i \in Ids, v \in Addrs : Recorded(i, v)' =>
          Recorded(i, v) \/ (visitors[a] = 0 /\ i = nextID + 1 /\ v = a)
  <2>1. \A i \in Ids, v \in Addrs : InTable(i, v)' =>
            InTable(i, v) \/ (visitors[a] = 0 /\ i = nextID + 1 /\ v = a)
    BY <1>1, TakeKeepsOrSweeps, BackendsAssumption DEF InTable
  <2> QED BY <1>2, <2>1 DEF Recorded
<1>4. nextID' \in Nat /\ nextID <= nextID' /\ (visitors[a] = 0 => nextID' = nextID + 1)
  BY <1>1, TakeKeepsOrSweeps
<1>5. nextID \in Nat /\ \A i \in Ids : i \in Nat
  BY ReverseAssumption DEF RelayTypeOK
<1>6. \A i \in Ids, v \in Addrs : Recorded(i, v) => i <= nextID
  BY <1>1 DEF GivenOut
<1>7. OneVisitor'
  <2> SUFFICES ASSUME NEW i \in Ids, NEW v \in Addrs, NEW w \in Addrs, Recorded(i, v)', Recorded(i, w)'
               PROVE  v = w
    BY DEF OneVisitor
  <2>1. CASE i = nextID + 1
    <3>1. ~ Recorded(i, v) /\ ~ Recorded(i, w)
      BY <1>5, <1>6, <2>1
    <3> QED BY <1>3, <3>1
  <2>2. CASE i # nextID + 1
    BY <1>3, <2>2 DEF OneVisitor
  <2> QED BY <2>1, <2>2
<1>8. GivenOut'
  BY <1>3, <1>4, <1>5, <1>6 DEF GivenOut
<1> QED BY <1>7, <1>8

(***************************************************************************)
(* The server takes a packet, finds or dials its socket, writes to it.     *)
(***************************************************************************)
LEMMA ServerStepInv ==
    ASSUME TypeOK, InHand, RelayInv, DataInv, TakePacket \/ WritePacket
    PROVE  DataInv'
<1>0. DataTypeOK /\ SenderInHand /\ HeardDialled /\ OneVisitor /\ GivenOut
  BY DEF DataInv
<1>1. UNCHANGED <<loop, visitors, nextID, back>>
  BY DEF TakePacket, WritePacket, relayVars
<1>2. \A i \in Ids, a \in Addrs : InTable(i, a)' = InTable(i, a)
  BY <1>1 DEF InTable
<1>3. loop' = "done" \/ (loop # "done" /\ nextID' = nextID)
  BY <1>1, <1>0
<1>4. CASE TakePacket
  <2> DEFINE p == Head(out)
  <2>1. /\ p \in [id : Ids, from : Addrs] /\ p \in Elements(out)
        /\ out' = Tail(out) /\ out' \in Seq([id : Ids, from : Addrs]) /\ Elements(out') \subseteq Elements(out)
    BY <1>4, TakeFromQueue DEF TakePacket, RelayInv
  <2>2. p.id \in Ids /\ p.from \in Addrs /\ p = [id |-> p.id, from |-> p.from] /\ Packet(p.id)
    BY <1>4, <2>1 DEF TakePacket
  <2>3. /\ heard' = heard /\ from' = (IF pc' = "write" THEN p.from ELSE 0) /\ (pc' = "write" => id' = p.id)
        /\ pc' \in {"read", "write"} /\ last' \in {last, last + 1} /\ last \in Nat
    BY <1>4, <2>2, BackendsAssumption DEF TakePacket, Packet, vars, TypeOK
  <2>4. DataTypeOK' /\ SenderInHand'
    BY <1>0, <1>1, <2>1, <2>2, <2>3 DEF DataTypeOK, SenderInHand
  <2>5. HeardDialled'
    BY <1>0, <2>3 DEF HeardDialled, Socks
  <2>6. \A b \in Socks : heard[b] # {} => owner'[b] = owner[b]
    <3>1. \A b \in Socks : b # last + 1 => owner'[b] = owner[b]
      BY <2>2, PacketCases DEF Dialled, TypeOK
    <3>2. \A b \in Socks : b = last + 1 => heard[b] = {}
      BY <1>0, <2>3 DEF HeardDialled
    <3> QED BY <3>1, <3>2
  <2>7. \A i \in Ids, a \in Addrs : Recorded(i, a)' => Recorded(i, a)
    <3> SUFFICES ASSUME NEW i \in Ids, NEW a \in Addrs, Recorded(i, a)' PROVE Recorded(i, a)
      OBVIOUS
    <3>1. CASE InTable(i, a)' \/ InFlight(i, a)'
      BY <1>1, <1>2, <2>1, <3>1 DEF Recorded, InFlight
    <3>2. CASE from' = a /\ id' = i
      <4>1. pc' = "write" /\ p.from = a /\ p.id = i
        BY <2>3, <3>2, ReverseAssumption
      <4>2. [id |-> i, from |-> a] \in Elements(out)
        BY <2>1, <2>2, <4>1
      <4> QED BY <4>2 DEF Recorded, InFlight
    <3>3. CASE \E b \in Socks : owner'[b] = i /\ a \in heard'[b]
      BY <2>3, <2>6, <3>3 DEF Recorded, AtServer
    <3> QED BY <3>1, <3>2, <3>3 DEF Recorded, AtServer
  <2> QED BY <1>0, <1>3, <2>4, <2>5, <2>7, NothingNew DEF DataInv
<1>5. CASE WritePacket
  <2>1. /\ pc = "write" /\ pc' \in {"read", "drop"} /\ from' = 0
        /\ UNCHANGED <<out, last, owner>>
    BY <1>5 DEF WritePacket, Write
  <2>2. sock \in 1 .. last /\ sock \in Socks /\ owner[sock] = id /\ from \in Addrs /\ id \in Ids
    BY <1>0, <2>1, BackendsAssumption DEF InHand, SenderInHand, TypeOK, Socks
  <2>3. \A b \in Socks : heard'[b] = heard[b] \/ (b = sock /\ heard'[b] = heard[b] \cup {from})
    BY <1>0, <1>5 DEF WritePacket, DataTypeOK
  <2>4. heard' \in [Socks -> SUBSET Addrs]
    BY <1>0, <1>5, <2>2 DEF WritePacket, DataTypeOK
  <2>5. DataTypeOK' /\ SenderInHand'
    BY <1>0, <1>1, <2>1, <2>4 DEF DataTypeOK, SenderInHand
  <2>6. HeardDialled'
    BY <1>0, <2>1, <2>2, <2>3 DEF HeardDialled, TypeOK, Socks
  <2>7. \A i \in Ids, a \in Addrs : Recorded(i, a)' => Recorded(i, a)
    <3> SUFFICES ASSUME NEW i \in Ids, NEW a \in Addrs, Recorded(i, a)' PROVE Recorded(i, a)
      OBVIOUS
    <3>1. CASE InTable(i, a)' \/ InFlight(i, a)'
      BY <1>1, <1>2, <2>1, <3>1 DEF Recorded, InFlight
    <3>2. CASE from' = a /\ id' = i
      BY <2>1, <3>2, ReverseAssumption
    <3>3. CASE \E b \in Socks : owner'[b] = i /\ a \in heard'[b]
      <4>1. PICK b \in Socks : owner[b] = i /\ a \in heard'[b]
        BY <2>1, <3>3
      <4>2. CASE a \in heard[b]
        BY <4>1, <4>2 DEF Recorded, AtServer
      <4>3. CASE b = sock /\ a = from
        BY <2>2, <4>1, <4>3 DEF Recorded, AtServer
      <4> QED BY <2>3, <4>1, <4>2, <4>3
    <3> QED BY <3>1, <3>2, <3>3 DEF Recorded, AtServer
  <2> QED BY <1>0, <1>3, <2>5, <2>6, <2>7, NothingNew DEF DataInv
<1> QED BY <1>4, <1>5

(* A step at either end that leaves the server's packet alone.             *)
LEMMA QueueStepInv ==
    ASSUME DataInv, DataTypeOK', UNCHANGED <<owner, last, from>>,
           \A b \in Socks : heard'[b] \subseteq heard[b],
           id' = id \/ id' = 0, pc' = "write" => pc = "write",
           visitors' = visitors \/ visitors' = [a \in Addrs |-> 0],
           \A i \in Ids, a \in Addrs : InFlight(i, a)' => Recorded(i, a),
           loop' = "done" \/ (loop # "done" /\ nextID' = nextID)
    PROVE  DataInv'
<1>1. SenderInHand' /\ HeardDialled'
  BY DEF DataInv, SenderInHand, HeardDialled
<1>2. \A i \in Ids, a \in Addrs : Recorded(i, a)' => Recorded(i, a)
  BY BackendsAssumption DEF Recorded, InTable, AtServer
<1> QED BY <1>1, <1>2, NothingNew DEF DataInv

LEMMA DataInvariant == ReverseSpec => []DataInv
<1>1. ReverseInit => DataInv
  <2> SUFFICES ASSUME ReverseInit PROVE DataInv
    OBVIOUS
  <2>1. DataTypeOK
    BY EmptySeq DEF ReverseInit, DataTypeOK
  <2>2. SenderInHand /\ HeardDialled
    BY DEF ReverseInit, Init, SenderInHand, HeardDialled
  <2>3. \A i \in Ids, a \in Addrs : ~ Recorded(i, a)
    BY BackendsAssumption, ReverseAssumption DEF ReverseInit, Recorded, InTable, InFlight, AtServer, Elements
  <2> QED BY <2>1, <2>2, <2>3 DEF DataInv, OneVisitor, GivenOut
<1>2. TypeOK /\ InHand /\ RelayInv /\ DataInv /\ [ReverseNext]_reverseVars => DataInv'
  <2> SUFFICES ASSUME TypeOK, InHand, RelayInv, DataInv, [ReverseNext]_reverseVars PROVE DataInv'
    OBVIOUS
  <2> DEFINE Outbound == [id : Ids, from : Addrs]
             Inbound == [id : Ids \cup {0}, from : Addrs]
  <2>0. DataTypeOK /\ RelayTypeOK /\ OneVisitor /\ GivenOut /\ (loop = "write" => src \in Known)
        /\ out \in Seq(Outbound) /\ back \in Seq(Inbound)
    BY DEF DataInv, RelayInv, DataTypeOK
  <2>1. ASSUME NEW a \in Addrs, Receive(a) PROVE DataInv'
    <3>1. OneVisitor' /\ GivenOut'
      BY <2>0, <2>1, ReceiveKeepsIDs
    <3> QED BY <2>1, <3>1 DEF Receive, DataInv, DataTypeOK, SenderInHand, HeardDialled, vars, dataVars
  <2>2. CASE FallIdle \/ StopRule \/ LoopEnds \/ ReaderStops \/ UNCHANGED reverseVars
    <3>1. UNCHANGED <<vars, dataVars>>
      BY <2>2 DEF FallIdle, StopRule, LoopEnds, ReaderStops, reverseVars
    <3>2. UNCHANGED <<loop, visitors, nextID>> \/ LoopReturns
      BY <2>2 DEF FallIdle, StopRule, LoopEnds, ReaderStops, reverseVars, relayVars
    <3>3. loop' = "done" \/ (loop # "done" /\ nextID' = nextID)
      BY <3>2 DEF LoopReturns
    <3>4. DataTypeOK'
      BY <2>0, <3>1 DEF DataTypeOK, dataVars
    <3>5. \A i \in Ids, a \in Addrs : InFlight(i, a)' = InFlight(i, a)
      BY <3>1 DEF InFlight, dataVars
    <3> QED BY <3>1, <3>2, <3>3, <3>4, <3>5, QueueStepInv DEF LoopReturns, Recorded, vars, dataVars
  <2>3. CASE Send
    <3>1. UNCHANGED <<pc, id, owner, last, back, from, heard>>
      BY <2>3 DEF Send, vars
    <3>2. CASE LoopReturns /\ UNCHANGED out
      <4>1. DataTypeOK' /\ \A i \in Ids, a \in Addrs : InFlight(i, a)' = InFlight(i, a)
        BY <2>0, <3>1, <3>2 DEF DataTypeOK, InFlight
      <4>2. loop' = "done" /\ visitors' = [a \in Addrs |-> 0]
        BY <3>2 DEF LoopReturns
      <4>3. \A i \in Ids, a \in Addrs : InFlight(i, a)' => Recorded(i, a)
        BY <4>1 DEF Recorded
      <4> QED BY <3>1, <4>1, <4>2, <4>3, QueueStepInv
    <3>3. CASE out' = Append(out, [id |-> visitors[src], from |-> src]) /\ UNCHANGED <<visitors, nextID>>
      <4> DEFINE p == [id |-> visitors[src], from |-> src]
      <4>1. src \in Addrs /\ visitors[src] \in Ids /\ p \in Outbound
        BY <2>0, <2>3 DEF Send, Known, RelayTypeOK
      <4>2. out' \in Seq(Outbound) /\ Elements(out') \subseteq Elements(out) \cup {p}
        <5> HIDE DEF p, Outbound
        <5>1. out' = Append(out, p)
          BY <3>3 DEF p
        <5> QED BY <2>0, <4>1, <5>1, AppendQueue
      <4>3. DataTypeOK'
        BY <2>0, <3>1, <4>2 DEF DataTypeOK
      <4>4. \A i \in Ids, a \in Addrs : InFlight(i, a)' => Recorded(i, a)
        BY <3>1, <4>2 DEF InFlight, Recorded, InTable
      <4>5. loop' = "done" \/ (loop # "done" /\ nextID' = nextID)
        BY <2>3, <3>3 DEF Send
      <4> QED BY <3>1, <3>3, <4>3, <4>4, <4>5, QueueStepInv
    <3> QED BY <2>3, <3>2, <3>3 DEF Send
  <2>4. CASE Deliver \/ LoseSession
    <3>1. UNCHANGED <<vars, relayVars, from, heard>>
      BY <2>4 DEF Deliver, LoseSession
    <3>2. out' \in Seq(Outbound) /\ Elements(out') \subseteq Elements(out)
      <4>1. CASE Deliver
        BY <2>0, <4>1 DEF Deliver
      <4>2. CASE LoseSession
        <5>1. PICK k \in 0 .. Len(out) : out' = SubSeq(out, 1, k)
          BY <4>2 DEF LoseSession
        <5> QED BY <2>0, <5>1, CutQueue
      <4> QED BY <2>4, <4>1, <4>2
    <3>3. back' \in Seq(Inbound) /\ Elements(back') \subseteq Elements(back)
      <4>1. CASE Deliver
        BY <2>0, <4>1, TakeFromQueue DEF Deliver
      <4>2. CASE LoseSession
        <5>1. PICK k \in 0 .. Len(back) : back' = SubSeq(back, 1, k)
          BY <4>2 DEF LoseSession
        <5> QED BY <2>0, <5>1, CutQueue
      <4> QED BY <2>4, <4>1, <4>2
    <3>4. DataTypeOK' /\ \A i \in Ids, a \in Addrs : InFlight(i, a)' => Recorded(i, a)
      BY <2>0, <3>1, <3>2, <3>3 DEF DataTypeOK, InFlight, Recorded
    <3> QED BY <3>1, <3>4, QueueStepInv DEF vars, relayVars
  <2>5. CASE TakePacket \/ WritePacket
    BY <2>5, ServerStepInv
  <2>6. CASE GiveUp \/ EndOfStream
    <3>1. UNCHANGED <<relayVars, dataVars, owner, last>> /\ pc' # "write" /\ (id' = id \/ id' = 0)
      BY <2>6 DEF GiveUp, EndOfStream, Drop, CloseSock, StreamEnds
    <3>2. DataTypeOK' /\ \A i \in Ids, a \in Addrs : InFlight(i, a)' => Recorded(i, a)
      BY <2>0, <3>1 DEF DataTypeOK, InFlight, Recorded, dataVars
    <3> QED BY <3>1, <3>2, QueueStepInv DEF relayVars, dataVars
  <2>7. ASSUME NEW b \in Socks, Reply(b) PROVE DataInv'
    <3>1. UNCHANGED <<vars, relayVars, out, from, heard>>
      BY <2>7 DEF Reply
    <3>2. PICK a \in heard[b] : back' = Append(back, [id |-> owner[b], from |-> a])
      BY <2>7 DEF Reply
    <3> DEFINE p == [id |-> owner[b], from |-> a]
    <3>3. a \in Addrs /\ p \in Inbound
      BY <2>0, <3>2 DEF DataTypeOK, TypeOK
    <3>4. back' \in Seq(Inbound) /\ Elements(back') \subseteq Elements(back) \cup {p}
      <4> HIDE DEF p, Inbound
      <4>1. back' = Append(back, p)
        BY <3>2 DEF p
      <4> QED BY <2>0, <3>3, <4>1, AppendQueue
    <3>5. DataTypeOK'
      BY <2>0, <3>1, <3>4 DEF DataTypeOK
    <3>6. \A i \in Ids, v \in Addrs : InFlight(i, v)' => Recorded(i, v)
      BY <3>1, <3>2, <3>4 DEF InFlight, AtServer, Recorded
    <3> QED BY <3>1, <3>5, <3>6, QueueStepInv DEF vars, relayVars
  <2>8. ASSUME NEW b \in Socks, SockReader(b) PROVE DataInv'
    <3>1. UNCHANGED <<relayVars, out, back, from, loopVars, owner, last>>
      BY <2>8 DEF SockReader, Reader, ReadFails, ReaderDeletes, ReaderEnds
    <3>2. heard' \in [Socks -> SUBSET Addrs] /\ \A c \in Socks : heard'[c] \subseteq heard[c]
      BY <2>0, <2>8 DEF SockReader, DataTypeOK
    <3>3. DataTypeOK' /\ \A i \in Ids, a \in Addrs : InFlight(i, a)' => Recorded(i, a)
      BY <2>0, <3>1, <3>2 DEF DataTypeOK, InFlight, Recorded
    <3> QED BY <3>1, <3>2, <3>3, QueueStepInv DEF relayVars, loopVars
  <2> QED BY <2>1, <2>2, <2>3, <2>4, <2>5, <2>6, <2>7, <2>8 DEF ReverseNext, RelayLoop, StreamReader, ServerLoop
<1>3. ReverseSpec => [](TypeOK /\ InHand)
  BY ReverseRunsBackends, BackendsTypeCorrect, OpenInvariant, PTL DEF OpenInv
<1> QED BY <1>1, <1>2, <1>3, RelayInvariant, PTL DEF ReverseSpec

(***************************************************************************)
(* Every variable of a reverse UDP rule keeps its type, the queues of the  *)
(* stream included: what comes out was put in as a packet.                 *)
(***************************************************************************)
THEOREM ReverseTypeCorrect == ReverseSpec => []ReverseTypeOK
<1> DEFINE LinkTypeOK ==
              /\ reading \in BOOLEAN /\ upOpen \in BOOLEAN /\ streamOpen \in BOOLEAN /\ alive \in BOOLEAN
              /\ answered \in SUBSET (Addrs \X Addrs)
<1>1. ReverseInit => LinkTypeOK
  BY DEF ReverseInit
<1>2. DataTypeOK /\ LinkTypeOK /\ [ReverseNext]_reverseVars => LinkTypeOK'
  <2> SUFFICES ASSUME DataTypeOK, LinkTypeOK, [ReverseNext]_reverseVars PROVE LinkTypeOK'
    OBVIOUS
  <2>1. CASE Deliver
    <3>1. Head(back) \in [id : Ids \cup {0}, from : Addrs]
      BY <2>1, TakeFromQueue DEF Deliver, DataTypeOK
    <3> QED BY <2>1, <3>1 DEF Deliver, linkVars, Known
  <2>2. CASE (\E a \in Addrs : Receive(a)) \/ FallIdle \/ LoopEnds \/ TakePacket \/ WritePacket \/ GiveUp
             \/ EndOfStream \/ \E b \in Socks : Reply(b) \/ SockReader(b)
    BY <2>2 DEF Receive, FallIdle, LoopEnds, TakePacket, WritePacket, GiveUp, EndOfStream, Reply, SockReader, linkVars
  <2>3. CASE StopRule \/ LoseSession \/ Send \/ ReaderStops \/ UNCHANGED reverseVars
    BY <2>3 DEF StopRule, LoseSession, Send, ReaderStops, reverseVars, linkVars
  <2> QED BY <2>1, <2>2, <2>3 DEF ReverseNext, RelayLoop, StreamReader, ServerLoop
<1>3. ReverseSpec => []DataTypeOK /\ []RelayTypeOK /\ []TypeOK
  BY DataInvariant, RelayInvariant, ReverseRunsBackends, BackendsTypeCorrect, PTL DEF DataInv, RelayInv
<1>4. LinkTypeOK /\ DataTypeOK /\ RelayTypeOK /\ TypeOK => ReverseTypeOK
  BY DEF ReverseTypeOK
<1> HIDE DEF LinkTypeOK
<1> QED BY <1>1, <1>2, <1>3, <1>4, PTL DEF ReverseSpec

-----------------------------------------------------------------------------
(* UdpService's copy of Cardinality is the same operator.                  *)
LEMMA SameCardinality == \A S : Service!Cardinality(S) = Cardinality(S)
BY Zenon DEF Cardinality, Service!Cardinality

(***************************************************************************)
(* A reverse UDP rule, client, stream and server together, implements the  *)
(* abstract UDP service: max_conns bounds the places, and an answer goes   *)
(* to the visitor whose packet it answers, for every order in which        *)
(* packets, answers, sweeps, redials and the end of the session cross.     *)
(***************************************************************************)
THEOREM ReverseImplementsService == ReverseSpec => ReverseIsService
<1>1. ReverseInit => Service!Init
  BY DEF ReverseInit, Service!Init, Known
<1>2. RelayInv /\ DataInv /\ [ReverseNext]_reverseVars => [Service!Next]_<<Known, answered>>
  <2> SUFFICES ASSUME RelayInv, DataInv, [ReverseNext]_reverseVars
               PROVE  Service!Next \/ UNCHANGED <<Known, answered>>
    BY DEF Service!Next
  <2>0. RelayTypeOK /\ DataTypeOK /\ OneVisitor
    BY DEF RelayInv, DataInv
  <2>1. ASSUME visitors' = visitors \/ visitors' = [a \in Addrs |-> 0], answered' = {} PROVE Service!Next
    <3>1. PICK gone \in {{}, Addrs} : Known' = Known \ gone
      BY <2>1 DEF Known
    <3>2. Service!Leave(gone) /\ gone \in SUBSET Addrs
      BY <2>1, <3>1 DEF Service!Leave
    <3> QED BY <3>2 DEF Service!Next
  <2>2. ASSUME NEW a \in Addrs, Receive(a) PROVE Service!Next
    <3> DEFINE gone == Known \ Known'
    <3>1. Take(a) /\ answered' = {} /\ gone \in SUBSET Addrs
      BY <2>2 DEF Receive, Known
    <3>2. Known' = (Known \ gone) \cup {a}
      BY <2>0, <3>1, TakeKeepsOrSweeps DEF Known
    <3>3. CASE a \in Known
      <4>1. Service!Leave(gone)
        BY <3>1, <3>2, <3>3 DEF Service!Leave, Known
      <4> QED BY <3>1, <4>1 DEF Service!Next
    <3>4. CASE a \notin Known
      <4>1. MaxConns > 0 => Service!Cardinality(Known) < MaxConns
        BY <2>2, <3>4, SameCardinality DEF Receive, Known
      <4>2. Service!Enter(a, gone)
        BY <3>1, <3>2, <3>4, <4>1 DEF Service!Enter
      <4> QED BY <3>1, <4>2 DEF Service!Next
    <3> QED BY <3>3, <3>4
  <2>3. CASE Deliver
    <3> DEFINE p == Head(back)
               found == {v \in Known : upOpen /\ visitors[v] = p.id}
    <3>1. answered' = {<<p.from, a>> : a \in found} /\ UNCHANGED visitors
      BY <2>3 DEF Deliver, relayVars
    <3>2. \A a \in found : p.from = a
      <4> SUFFICES ASSUME NEW a \in Known, visitors[a] = p.id PROVE p.from = a
        OBVIOUS
      <4>1. p \in [id : Ids \cup {0}, from : Addrs] /\ p \in Elements(back)
        BY <2>0, <2>3, TakeFromQueue DEF Deliver, DataTypeOK
      <4>2. a \in Addrs /\ p.id \in Ids /\ p.from \in Addrs /\ p = [id |-> p.id, from |-> p.from]
        BY <4>1 DEF Known
      <4>3. InFlight(p.id, p.from)
        BY <4>1, <4>2 DEF InFlight
      <4>4. Recorded(p.id, p.from) /\ Recorded(p.id, a)
        BY <4>3 DEF Recorded, InTable
      <4> QED BY <2>0, <4>2, <4>4 DEF OneVisitor
    <3>3. CASE found = {}
      BY <2>1, <3>1, <3>3
    <3>4. CASE found # {}
      <4>1. p.from \in Known /\ found = {p.from}
        BY <3>2, <3>4
      <4>2. answered' = {<<p.from, p.from>>} /\ Known' = Known
        BY <3>1, <4>1 DEF Known
      <4>3. Service!Answer(p.from) /\ p.from \in Addrs
        BY <4>1, <4>2 DEF Service!Answer, Known
      <4> QED BY <4>3 DEF Service!Next
    <3> QED BY <3>3, <3>4
  <2>4. CASE FallIdle \/ StopRule \/ LoseSession \/ RelayLoop \/ ReaderStops \/ ServerLoop
             \/ \E b \in Socks : Reply(b) \/ SockReader(b)
    <3>1. answered' = {}
      BY <2>4 DEF FallIdle, StopRule, LoseSession, RelayLoop, Send, LoopEnds, ReaderStops, ServerLoop,
                  TakePacket, WritePacket, GiveUp, EndOfStream, Reply, SockReader
    <3>2. visitors' = visitors \/ visitors' = [a \in Addrs |-> 0]
      BY <2>4 DEF FallIdle, StopRule, LoseSession, RelayLoop, Send, LoopEnds, ReaderStops, ServerLoop,
                  TakePacket, WritePacket, GiveUp, EndOfStream, Reply, SockReader, LoopReturns, relayVars
    <3> QED BY <2>1, <3>1, <3>2
  <2>5. CASE UNCHANGED reverseVars
    BY <2>5 DEF reverseVars, relayVars, Known
  <2> QED BY <2>2, <2>3, <2>4, <2>5 DEF ReverseNext, StreamReader
<1> QED
  BY <1>1, <1>2, RelayInvariant, DataInvariant, PTL DEF ReverseSpec, ReverseIsService, Service!Spec

-----------------------------------------------------------------------------
(* Only a socket whose reader has yet to end is open.                      *)
OpenIsRead == \A b \in open : reader[b] # "gone"

LEMMA OpenIsReadInvariant == Spec => []OpenIsRead
<1>1. Init => OpenIsRead
  BY DEF Init, OpenIsRead
<1>2. TypeOK /\ OpenIsRead /\ [Next]_vars => OpenIsRead'
  <2> SUFFICES ASSUME TypeOK, OpenIsRead, [Next]_vars PROVE OpenIsRead'
    OBVIOUS
  <2>0. open \subseteq Socks
    BY BackendsAssumption DEF TypeOK, Socks
  <2>1. CASE Loop \/ StreamEnds \/ UNCHANGED vars
    <3>1. open' \subseteq open /\ reader' = reader
      BY <2>1 DEF Loop, Write, Drop, CloseSock, StreamEnds, vars
    <3> QED BY <3>1 DEF OpenIsRead
  <2>2. ASSUME NEW i \in Ids, Packet(i) PROVE OpenIsRead'
    <3>1. CASE Dialled(i)
      <4>1. reader'[last + 1] = "reading" /\ \A b \in Socks : b # last + 1 => reader'[b] = reader[b]
        BY <3>1 DEF Dialled, TypeOK
      <4> QED BY <2>0, <3>1, <4>1 DEF Dialled, OpenIsRead
    <3>2. CASE UNCHANGED <<open, reader>>
      BY <3>2 DEF OpenIsRead
    <3> QED BY <2>2, <3>1, <3>2, PacketCases
  <2>3. ASSUME NEW b \in Socks, Reader(b) PROVE OpenIsRead'
    <3>1. \A c \in Socks : c # b => reader'[c] = reader[c]
      BY <2>3 DEF Reader, ReadFails, ReaderDeletes, ReaderEnds, Becomes, TypeOK
    <3>2. CASE ReadFails(b) \/ ReaderDeletes(b)
      <4>1. open' = open /\ reader'[b] # "gone"
        BY <3>2 DEF ReadFails, ReaderDeletes, Becomes, TypeOK
      <4> QED BY <2>0, <3>1, <4>1 DEF OpenIsRead
    <3>3. CASE ReaderEnds(b)
      BY <2>0, <3>1, <3>3 DEF ReaderEnds, OpenIsRead
    <3> QED BY <2>3, <3>2, <3>3 DEF Reader
  <2> QED BY <2>1, <2>2, <2>3 DEF Next
<1> QED BY <1>1, <1>2, BackendsTypeCorrect, PTL DEF Spec

(* Who has ended has seen to it that the others can: the client's loop     *)
(* closes the stream, and the server's ends only when the stream is lost.  *)
EndsHandedOn ==
    /\ loop = "done" => ~streamOpen
    /\ pc = "done" => ~(alive /\ streamOpen)

LEMMA EndsHandedOnInvariant == ReverseSpec => []EndsHandedOn
<1>1. ReverseInit => EndsHandedOn
  BY DEF ReverseInit, Init, EndsHandedOn
<1>2. EndsHandedOn /\ [ReverseNext]_reverseVars => EndsHandedOn'
  <2> SUFFICES ASSUME EndsHandedOn, [ReverseNext]_reverseVars PROVE EndsHandedOn'
    OBVIOUS
  <2>1. CASE (\E a \in Addrs : Receive(a)) \/ FallIdle \/ StopRule \/ LoseSession \/ StreamReader
             \/ \E b \in Socks : Reply(b)
    BY <2>1 DEF Receive, FallIdle, StopRule, LoseSession, StreamReader, Deliver, ReaderStops, Reply,
                EndsHandedOn, vars, relayVars, linkVars
  <2>2. CASE RelayLoop
    BY <2>2 DEF RelayLoop, Send, LoopEnds, LoopReturns, EndsHandedOn, vars
  <2>3. CASE ServerLoop \/ \E b \in Socks : SockReader(b)
    <3>1. UNCHANGED <<loop, streamOpen, alive>>
      BY <2>3 DEF ServerLoop, TakePacket, WritePacket, GiveUp, EndOfStream, SockReader, relayVars, linkVars
    <3>2. pc' = "done" => pc = "done" \/ ~(alive /\ streamOpen)
      BY <2>3 DEF ServerLoop, TakePacket, Packet, WritePacket, Write, GiveUp, Drop, CloseSock, EndOfStream,
                  SockReader, Reader, ReadFails, ReaderDeletes, ReaderEnds, vars, loopVars
    <3> QED BY <3>1, <3>2 DEF EndsHandedOn
  <2>4. CASE UNCHANGED reverseVars
    BY <2>4 DEF reverseVars, vars, relayVars, linkVars, EndsHandedOn
  <2> QED BY <2>1, <2>2, <2>3, <2>4 DEF ReverseNext
<1> QED BY <1>1, <1>2, PTL DEF ReverseSpec

(***************************************************************************)
(* Nothing outlives a reverse rule's socket: when up is closed and nobody  *)
(* can take a step, the client's two goroutines and the server's loop have *)
(* ended, and every socket is closed and discounted; none of them waits    *)
(* for another, however stop, errors and the end of the session fell.      *)
(***************************************************************************)
THEOREM ReverseNoLeftovers == ReverseSpec => []NoLeftovers
<1>1. RelayInv /\ TypeOK /\ ConnsExact /\ OpenIsRead /\ EndsHandedOn => NoLeftovers
  <2> SUFFICES ASSUME RelayInv, TypeOK, ConnsExact, OpenIsRead, EndsHandedOn, ~upOpen, AtRest
               PROVE  loop = "done" /\ ~reading /\ pc = "done" /\ open = {} /\ conns = 0
    BY DEF NoLeftovers
  <2>1. loop # "write"
    <3> SUFFICES ASSUME loop = "write" PROVE FALSE
      OBVIOUS
    <3>1. alive /\ streamOpen /\ Len(out) >= MaxQueue
      BY DEF AtRest
    <3>2. Len(out) > 0
      BY <3>1, ReverseAssumption DEF RelayInv
    <3>3. out # <<>>
      BY <3>2
    <3> QED BY <3>1, <3>3 DEF AtRest, EndsHandedOn
  <2>2. loop = "done" /\ ~streamOpen
    BY <2>1 DEF AtRest, EndsHandedOn, RelayInv, RelayTypeOK
  <2>3. ~reading /\ pc = "done"
    BY <2>2 DEF AtRest
  <2>4. open = {}
    BY BackendsAssumption DEF AtRest, OpenIsRead, TypeOK, Socks
  <2>5. {b \in Socks : reader[b] # "gone"} = {}
    BY DEF AtRest
  <2>6. conns = 0
    BY <2>5, FS_EmptySet DEF ConnsExact
  <2> QED BY <2>2, <2>3, <2>4, <2>6
<1> QED
  BY <1>1, RelayInvariant, ReverseRunsBackends, BackendsTypeCorrect, BackendsConnsExact,
     OpenIsReadInvariant, EndsHandedOnInvariant, PTL
=============================================================================
