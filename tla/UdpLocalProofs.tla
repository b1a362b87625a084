--------------------------- MODULE UdpLocalProofs ---------------------------
(***************************************************************************)
(* Proofs about UdpLocal, for any visitors, any max_conns and any number   *)
(* of sockets: the table is bounded although the limit is checked in one   *)
(* section of mu and the session is added in another, a reader only ever   *)
(* deletes its own entry, and the session count is exact.                  *)
(***************************************************************************)
EXTENDS UdpLocal, FiniteSetTheorems, TLAPS

Sessions == {b \in Socks : reader[b] # "gone"}

(* The converse of EntryIsOwn: an entry has a reader that will delete it.  *)
EntriesOwned ==
    \A a \in Addrs : backends[a] # 0 =>
        reader[backends[a]] \in {"reading", "broken"} /\ owner[backends[a]] = a

(* A socket that was never dialled has no reader.                          *)
Fresh == \A b \in Socks : b > last => reader[b] = "gone"

(* What Check established still holds when getBackend acts on it: the      *)
(* visitor has an entry, or there is room for one.                         *)
Room == pc = "get" /\ Limit > 0 => backends[src] # 0 \/ Cardinality(Known) < Limit

Owned == EntryIsOwn /\ EntriesOwned /\ Fresh

(* Both sets that are counted are finite.                                  *)
LEMMA Finite ==
    /\ IsFiniteSet(Known) /\ Cardinality(Known) \in Nat
    /\ IsFiniteSet(Sessions) /\ Cardinality(Sessions) \in Nat
<1>1. IsFiniteSet(Known)
  BY LocalAssumption, FS_Subset DEF Known
<1>2. IsFiniteSet(Socks)
  BY LocalAssumption, FS_Interval DEF Socks
<1>3. IsFiniteSet(Sessions)
  BY <1>2, FS_Subset DEF Sessions
<1> QED BY <1>1, <1>3, FS_CardinalityType

(* The inductive invariant for the count: the type of conns needs that it  *)
(* is exact, and exactness that a new socket had no reader.                *)
CountInv == TypeOK /\ Fresh /\ ConnsExact

(***************************************************************************)
(* The session count is exact and every variable keeps its type.           *)
(***************************************************************************)
LEMMA CountInvariant == Spec => []CountInv
<1>1. Init => CountInv
  <2> SUFFICES ASSUME Init PROVE CountInv
    OBVIOUS
  <2>1. TypeOK
    <3>1. /\ backends \in [Addrs -> 0 .. last] /\ owner \in [Socks -> Addrs]
          /\ reader \in [Socks -> {"reading", "broken", "deleted", "gone"}]
          /\ open \in SUBSET (1 .. last) /\ last \in 0 .. MaxSocks /\ conns \in Nat
      BY LocalAssumption DEF Init
    <3>2. stopping \in BOOLEAN /\ upClosed \in BOOLEAN /\ cleaned \in BOOLEAN
      BY DEF Init
    <3> QED BY <3>1, <3>2 DEF Init, TypeOK
  <2>2. Sessions = {} /\ Fresh
    BY DEF Init, Sessions, Fresh
  <2> QED BY <2>1, <2>2, FS_EmptySet DEF Init, CountInv, ConnsExact, Sessions
<1>2. CountInv /\ [Next]_vars => CountInv'
  <2> SUFFICES ASSUME CountInv, [Next]_vars PROVE CountInv'
    OBVIOUS
  <2>0. TypeOK /\ Fresh /\ ConnsExact
    BY DEF CountInv
  <2>1. CASE Check \/ Write \/ LoopExits \/ \E a \in Addrs : Receive(a)
    <3>1. TypeOK'
      BY <2>0, <2>1 DEF TypeOK, Check, Write, LoopExits, Receive, sockVars, stopVars
    <3>2. UNCHANGED <<last, reader, conns>>
      BY <2>1 DEF Check, Write, LoopExits, Receive, sockVars
    <3> QED BY <2>0, <3>1, <3>2 DEF CountInv, Fresh, ConnsExact
  <2>2. CASE Stop \/ CloseUp \/ Cleanup
    <3>1. TypeOK'
      BY <2>0, <2>2 DEF TypeOK, Stop, CloseUp, Cleanup, sockVars, loopVars
    <3>2. UNCHANGED <<last, reader, conns>>
      BY <2>2 DEF Stop, CloseUp, Cleanup, sockVars
    <3> QED BY <2>0, <3>1, <3>2 DEF CountInv, Fresh, ConnsExact
  <2>3. CASE getBackend
    <3>1. CASE UNCHANGED sockVars
      <4>1. TypeOK'
        BY <2>0, <2>3, <3>1 DEF TypeOK, getBackend, sockVars, stopVars
      <4> QED BY <2>0, <4>1, <3>1 DEF CountInv, Fresh, ConnsExact, sockVars
    <3>2. CASE ~ UNCHANGED sockVars
      <4>1. /\ last < MaxSocks /\ last' = last + 1 /\ last' \in Socks
            /\ reader' = [reader EXCEPT ![last + 1] = "reading"]
            /\ conns' = conns + 1
        BY <2>0, <2>3, <3>2, LocalAssumption DEF getBackend, Socks, TypeOK
      <4>2. TypeOK'
        <5>1. /\ backends' = [backends EXCEPT ![src] = last + 1]
              /\ owner' = [owner EXCEPT ![last + 1] = src]
              /\ open' = open \cup {last + 1} /\ pc' = "write" /\ UNCHANGED <<src, stopVars>>
          BY <2>3, <3>2 DEF getBackend
        <5>2. last' \in 0 .. MaxSocks /\ 0 .. last \subseteq 0 .. last' /\ last + 1 \in 0 .. last'
          BY <2>0, <4>1, LocalAssumption DEF TypeOK
        <5>3. backends' \in [Addrs -> 0 .. last'] /\ owner' \in [Socks -> Addrs]
          BY <2>0, <5>1, <5>2 DEF TypeOK
        <5>4. open' \in SUBSET (1 .. last')
          BY <2>0, <4>1, <5>1 DEF TypeOK
        <5>5. reader' \in [Socks -> {"reading", "broken", "deleted", "gone"}] /\ conns' \in Nat
          BY <2>0, <4>1 DEF TypeOK
        <5> QED BY <2>0, <5>1, <5>2, <5>3, <5>4, <5>5 DEF TypeOK, stopVars
      <4>3. Fresh'
        BY <2>0, <4>1 DEF Fresh, TypeOK, Socks
      <4>4. Sessions' = Sessions \cup {last + 1} /\ last + 1 \notin Sessions
        BY <2>0, <4>1 DEF Sessions, Fresh, TypeOK, Socks
      <4>5. ConnsExact'
        BY <2>0, <4>1, <4>4, Finite, FS_AddElement DEF ConnsExact, Sessions
      <4> QED BY <4>2, <4>3, <4>5 DEF CountInv
    <3> QED BY <3>1, <3>2
  <2>4. ASSUME NEW b \in Socks, ReaderBreaks(b) \/ ReaderDeletes(b) PROVE CountInv'
    <3>1. TypeOK'
      <4>1. backends' \in [Addrs -> 0 .. last]
        BY <2>0, <2>4 DEF TypeOK, ReaderBreaks, ReaderDeletes
      <4>2. reader' \in [Socks -> {"reading", "broken", "deleted", "gone"}]
        BY <2>0, <2>4 DEF TypeOK, ReaderBreaks, ReaderDeletes, Becomes
      <4>3. UNCHANGED <<loopVars, last, owner, open, conns, stopVars>>
        BY <2>4 DEF ReaderBreaks, ReaderDeletes
      <4> QED BY <2>0, <4>1, <4>2, <4>3 DEF TypeOK, loopVars, stopVars
    <3>2. Sessions' = Sessions /\ conns' = conns /\ last' = last
      BY <2>0, <2>4 DEF TypeOK, ReaderBreaks, ReaderDeletes, Becomes, Sessions
    <3>3. Fresh'
      BY <2>0, <2>4, <3>2 DEF Fresh, TypeOK, ReaderBreaks, ReaderDeletes, Becomes, Socks
    <3> QED BY <2>0, <3>1, <3>2, <3>3 DEF CountInv, ConnsExact, Sessions
  <2>5. ASSUME NEW b \in Socks, ReaderEnds(b) PROVE CountInv'
    <3>1. Sessions' = Sessions \ {b} /\ b \in Sessions
      BY <2>0, <2>5 DEF TypeOK, ReaderEnds, Becomes, Sessions
    <3>2. Cardinality(Sessions \ {b}) = Cardinality(Sessions) - 1 /\ Cardinality(Sessions \ {b}) \in Nat
      BY <3>1, Finite, FS_RemoveElement, FS_CardinalityType
    <3>3. conns' \in Nat /\ ConnsExact'
      BY <2>0, <2>5, <3>1, <3>2 DEF ConnsExact, ReaderEnds, Sessions
    <3>4. TypeOK'
      BY <2>0, <2>5, <3>3 DEF TypeOK, ReaderEnds, Becomes, loopVars, stopVars
    <3>5. Fresh'
      BY <2>0, <2>5 DEF Fresh, TypeOK, ReaderEnds, Becomes, Socks
    <3> QED BY <3>3, <3>4, <3>5 DEF CountInv
  <2>6. CASE UNCHANGED vars
    BY <2>0, <2>6 DEF CountInv, TypeOK, Fresh, ConnsExact, vars
  <2> QED
    BY <2>1, <2>2, <2>3, <2>4, <2>5, <2>6 DEF Next, Loop, Reader
<1> QED BY <1>1, <1>2, PTL DEF Spec

(***************************************************************************)
(* Every variable keeps its type; st.Conns never goes below zero.          *)
(***************************************************************************)
THEOREM LocalTypeCorrect == Spec => []TypeOK
BY CountInvariant, PTL DEF CountInv

(***************************************************************************)
(* st.Conns counts exactly the sessions whose reader has not ended, for    *)
(* any interleaving of new sessions, readers ending and stop().            *)
(***************************************************************************)
THEOREM LocalConnsExact == Spec => []ConnsExact
BY CountInvariant, PTL DEF CountInv

(***************************************************************************)
(* An entry belongs to its reader until that reader deletes it: the delete *)
(* by visitor address in getBackend's goroutine never hits a later socket. *)
(***************************************************************************)
THEOREM LocalEntryIsOwn == Spec => []EntryIsOwn
<1>1. Init => Owned
  BY DEF Init, Owned, EntryIsOwn, EntriesOwned, Fresh
<1>2. TypeOK /\ Owned /\ [Next]_vars => Owned'
  <2> SUFFICES ASSUME TypeOK, Owned, [Next]_vars PROVE Owned'
    OBVIOUS
  <2>1. CASE Check \/ Write \/ LoopExits \/ Stop \/ CloseUp \/ Cleanup \/ \E a \in Addrs : Receive(a)
    <3>1. UNCHANGED <<backends, last, owner, reader>>
      BY <2>1 DEF Check, Write, LoopExits, Receive, Stop, CloseUp, Cleanup, sockVars
    <3> QED BY <3>1 DEF Owned, EntryIsOwn, EntriesOwned, Fresh
  <2>2. CASE getBackend
    <3>1. CASE UNCHANGED sockVars
      BY <3>1 DEF Owned, EntryIsOwn, EntriesOwned, Fresh, sockVars
    <3>2. CASE ~ UNCHANGED sockVars
      <4>1. /\ last' = last + 1 /\ last + 1 \in Socks /\ backends[src] = 0
            /\ reader' = [reader EXCEPT ![last + 1] = "reading"]
            /\ owner' = [owner EXCEPT ![last + 1] = src]
            /\ backends' = [backends EXCEPT ![src] = last + 1]
        BY <2>2, <3>2, LocalAssumption DEF getBackend, Socks, TypeOK
      <4>2. \A b \in Socks : reader[b] \in {"reading", "broken"} => b # last + 1 /\ owner[b] # src
        BY <4>1 DEF Owned, EntryIsOwn, Fresh, TypeOK, Socks
      <4>3. EntryIsOwn'
        BY <4>1, <4>2 DEF Owned, EntryIsOwn, TypeOK
      <4>4. EntriesOwned'
        <5> SUFFICES ASSUME NEW a \in Addrs, backends'[a] # 0
                     PROVE  reader'[backends'[a]] \in {"reading", "broken"} /\ owner'[backends'[a]] = a
          BY DEF EntriesOwned
        <5>1. CASE a = src
          BY <4>1, <5>1 DEF TypeOK
        <5>2. CASE a # src
          <6>1. backends'[a] = backends[a] /\ backends[a] \in 1 .. last
            BY <4>1, <5>2 DEF TypeOK
          <6> QED BY <4>1, <6>1 DEF TypeOK, Owned, EntriesOwned, Socks
        <5> QED BY <5>1, <5>2
      <4>5. Fresh'
        BY <4>1 DEF Owned, Fresh, TypeOK, Socks
      <4> QED BY <4>3, <4>4, <4>5 DEF Owned
    <3> QED BY <3>1, <3>2
  <2>3. ASSUME NEW b \in Socks, ReaderBreaks(b) PROVE Owned'
    <3>1. /\ UNCHANGED <<backends, last, owner>> /\ reader[b] = "reading"
          /\ reader' = [reader EXCEPT ![b] = "broken"]
      BY <2>3 DEF ReaderBreaks, Becomes
    <3>2. EntryIsOwn' /\ EntriesOwned'
      BY <3>1 DEF Owned, EntryIsOwn, EntriesOwned, TypeOK, Socks
    <3>3. Fresh'
      BY <3>1 DEF Owned, Fresh, TypeOK, Socks
    <3> QED BY <3>2, <3>3 DEF Owned
  <2>4. ASSUME NEW b \in Socks, ReaderDeletes(b) PROVE Owned'
    <3>1. /\ UNCHANGED <<last, owner>> /\ reader[b] = "broken"
          /\ reader' = [reader EXCEPT ![b] = "deleted"]
          /\ backends' = [backends EXCEPT ![owner[b]] = 0]
      BY <2>4 DEF ReaderDeletes, Becomes
    <3>2. \A c \in Socks : c # b /\ reader[c] \in {"reading", "broken"} => owner[c] # owner[b]
      BY <3>1 DEF Owned, EntryIsOwn
    <3>3. EntryIsOwn'
      BY <3>1, <3>2 DEF Owned, EntryIsOwn, TypeOK
    <3>4. EntriesOwned'
      BY <3>1 DEF Owned, EntriesOwned, TypeOK, Socks
    <3>5. Fresh'
      BY <3>1 DEF Owned, Fresh, TypeOK, Socks
    <3> QED BY <3>3, <3>4, <3>5 DEF Owned
  <2>5. ASSUME NEW b \in Socks, ReaderEnds(b) PROVE Owned'
    <3>1. /\ UNCHANGED <<backends, last, owner>> /\ reader[b] = "deleted"
          /\ reader' = [reader EXCEPT ![b] = "gone"]
      BY <2>5 DEF ReaderEnds, Becomes
    <3>2. EntryIsOwn' /\ EntriesOwned'
      BY <3>1 DEF Owned, EntryIsOwn, EntriesOwned, TypeOK, Socks
    <3>3. Fresh'
      BY <3>1 DEF Owned, Fresh, TypeOK, Socks
    <3> QED BY <3>2, <3>3 DEF Owned
  <2>6. CASE UNCHANGED vars
    BY <2>6 DEF Owned, EntryIsOwn, EntriesOwned, Fresh, vars
  <2> QED
    BY <2>1, <2>2, <2>3, <2>4, <2>5, <2>6 DEF Next, Loop, Reader
<1> QED BY <1>1, <1>2, LocalTypeCorrect, PTL DEF Spec, Owned

(***************************************************************************)
(* max_conns bounds the session table: what the limit check has seen may   *)
(* be outdated when getBackend inserts, but only on the safe side.         *)
(***************************************************************************)
THEOREM LocalTableBounded == Spec => []TableBounded
<1>1. Init => TableBounded /\ Room
  <2> SUFFICES ASSUME Init PROVE TableBounded /\ Room
    OBVIOUS
  <2>1. Known = {}
    BY DEF Init, Known
  <2> QED BY <2>1, FS_EmptySet, LocalAssumption DEF Init, TableBounded, Room
<1>2. TypeOK /\ TableBounded /\ Room /\ [Next]_vars => TableBounded' /\ Room'
  <2> SUFFICES ASSUME TypeOK, TableBounded, Room, [Next]_vars PROVE TableBounded' /\ Room'
    OBVIOUS
  <2>1. CASE Check
    <3>1. Known' = Known /\ backends' = backends /\ src' = src
      BY <2>1 DEF Check, sockVars, Known
    <3> QED BY <2>1, <3>1, Finite, LocalAssumption DEF TableBounded, Room, Check
  <2>2. CASE Write \/ LoopExits \/ \E a \in Addrs : Receive(a)
    <3>1. Known' = Known /\ pc' # "get"
      BY <2>2 DEF Write, LoopExits, Receive, sockVars, Known
    <3> QED BY <3>1 DEF TableBounded, Room
  <2>3. CASE Stop \/ CloseUp \/ Cleanup \/ (\E b \in Socks : ReaderBreaks(b) \/ ReaderEnds(b)) \/ UNCHANGED vars
    <3>1. Known' = Known /\ UNCHANGED <<backends, pc, src>>
      BY <2>3 DEF Stop, CloseUp, Cleanup, ReaderBreaks, ReaderEnds, sockVars, loopVars, vars, Known
    <3> QED BY <3>1 DEF TableBounded, Room
  <2>4. CASE getBackend
    <3>1. pc' # "get"
      BY <2>4 DEF getBackend
    <3>2. CASE UNCHANGED sockVars
      BY <3>1, <3>2 DEF sockVars, TableBounded, Room, Known
    <3>3. CASE ~ UNCHANGED sockVars
      <4>1. pc = "get" /\ backends[src] = 0 /\ backends' = [backends EXCEPT ![src] = last + 1]
        BY <2>4, <3>3 DEF getBackend
      <4>2. Known' = Known \cup {src} /\ src \notin Known
        BY <4>1 DEF Known, TypeOK
      <4>3. Cardinality(Known') = Cardinality(Known) + 1
        BY <4>2, Finite, FS_AddElement
      <4> QED BY <3>1, <4>1, <4>3, Finite, LocalAssumption DEF TableBounded, Room
    <3> QED BY <3>2, <3>3
  <2>5. ASSUME NEW b \in Socks, ReaderDeletes(b) PROVE TableBounded' /\ Room'
    <3>1. /\ backends' = [backends EXCEPT ![owner[b]] = 0] /\ owner[b] \in Addrs
          /\ pc' = pc /\ src' = src
      BY <2>5 DEF ReaderDeletes, loopVars, TypeOK
    <3>2. Known' = Known \ {owner[b]}
      BY <3>1 DEF Known, TypeOK
    <3>3. CASE owner[b] \in Known
      <4>1. Cardinality(Known') = Cardinality(Known) - 1
        BY <3>2, <3>3, Finite, FS_RemoveElement
      <4> QED BY <3>1, <4>1, Finite, LocalAssumption DEF TableBounded, Room
    <3>4. CASE owner[b] \notin Known
      <4>1. Known' = Known /\ backends' = backends
        BY <3>1, <3>2, <3>4 DEF Known, TypeOK
      <4> QED BY <3>1, <4>1 DEF TableBounded, Room
    <3> QED BY <3>3, <3>4
  <2> QED
    BY <2>1, <2>2, <2>3, <2>4, <2>5 DEF Next, Loop, Reader
<1> QED BY <1>1, <1>2, LocalTypeCorrect, PTL DEF Spec
=============================================================================
