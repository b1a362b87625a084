----------------------------- MODULE UdpTunnel -----------------------------
(***************************************************************************)
(* A tunnelled UDP rule at the server: udpTunnelRelay of                   *)
(* server/forward.go.  The relay loop handles one packet at a time, in a   *)
(* section under mu (visitor table and lazy sweep), then ensure, then the  *)
(* write; a reader goroutine per tunnel stream carries packets back, and a *)
(* goroutine waits for the runner's stop().                                *)
(*                                                                         *)
(* The source checks (allow_from, blacklist) of the loop are those of      *)
(* module TcpForward; here a visitor is one that passes them.              *)
(***************************************************************************)
EXTENDS Naturals, FiniteSets

CONSTANTS
    Addrs,      \* visitor addresses
    NoEntry,    \* no entry in the visitor table
    Knocker,    \* a visitor whose program sends for ever (liveness only)
    Limit,      \* the rule's max_conns; 0 is no limit
    SweepEvery, \* packets between two sweeps (64)
    Idle,       \* udpIdle (90 s), in ticks
    MaxTime,    \* bound: ticks
    MaxIds,     \* bound: connection IDs given out
    MaxStreams  \* bound: tunnel streams opened

Ids == 1 .. MaxIds
Streams == 1 .. MaxStreams
Entry == [id : Ids, lastSeen : 0 .. MaxTime]

ASSUME UdpAssumption ==
    /\ IsFiniteSet(Addrs) /\ Knocker \in Addrs /\ NoEntry \notin Entry
    /\ Limit \in Nat /\ SweepEvery \in Nat \ {0} /\ Idle \in Nat
    /\ MaxTime \in Nat /\ MaxIds \in Nat /\ MaxStreams \in Nat

VARIABLES
    now,
    online,     \* the client is in s.clients with a working session
    visitors,   \* the visitor table
    nextID,     \* the last connection ID given out
    owner,      \* history: the address each connection ID was given to
    packets,    \* packets since the last sweep
    drops,      \* parity of the packets dropped: makes a drop a step
    conns,      \* st.Conns
    pc,         \* the relay loop: "read", "ensure", "write", "exit"
    held,       \* the connection ID of the packet in hand
    stream,     \* the current tunnel stream, 0 for none
    streams,    \* streams opened so far
    live,       \* streams that are open
    readers,    \* streams whose reader goroutine has not yet met its end
    stopped,    \* stop() was called: done and up are closed
    cleaned,    \* the goroutine waiting for done has run
    answered    \* history: <<asker, receiver>> of the answer the last step gave out

vars == <<now, online, visitors, nextID, owner, packets, drops, conns, pc, held,
          stream, streams, live, readers, stopped, cleaned, answered>>

tableVars == <<visitors, nextID, owner, packets, drops, conns, held>>
streamVars == <<stream, streams, live, readers>>
stopVars == <<stopped, cleaned>>

Known == {a \in Addrs : visitors[a] # NoEntry}

Init ==
    /\ now = 0 /\ online \in BOOLEAN
    /\ visitors = [a \in Addrs |-> NoEntry]
    /\ nextID = 0 /\ owner = [i \in {} |-> NoEntry]
    /\ packets = 0 /\ drops = 0 /\ conns = 0
    /\ pc = "read" /\ held = 0
    /\ stream = 0 /\ streams = 0 /\ live = {} /\ readers = {}
    /\ stopped = FALSE /\ cleaned = FALSE
    /\ answered = {}

-----------------------------------------------------------------------------
Expired(e) == now - e.lastSeen > Idle

(* Mutant: the sweep finds idle visitors and leaves them.                  *)
SweepNothing(vs) == vs

(* The sweep every SweepEvery packets removes idle visitors.               *)
Sweep(vs) == [a \in Addrs |-> IF vs[a] # NoEntry /\ Expired(vs[a]) THEN NoEntry ELSE vs[a]]
Size(vs) == Cardinality({a \in Addrs : vs[a] # NoEntry})

(* A new visitor finds the table full: the packet is dropped, before it is *)
(* counted.                                                                *)
Full(a) == visitors[a] = NoEntry /\ Limit > 0 /\ Cardinality(Known) >= Limit

(* Mutant: the ID is the table's size, so a sweep sets IDs free again.     *)
AdmitReuseID(a) ==
    LET fresh == visitors[a] = NoEntry
        id    == IF fresh THEN Cardinality(Known) + 1 ELSE visitors[a].id
        vs    == [visitors EXCEPT ![a] = [id |-> id, lastSeen |-> now]]
        swept == IF packets + 1 = SweepEvery THEN Sweep(vs) ELSE vs
    IN /\ nextID' = IF id > nextID THEN id ELSE nextID
       /\ owner' = [i \in 1 .. nextID' |-> IF i = id THEN a ELSE owner[i]]
       /\ visitors' = swept
       /\ packets' = (packets + 1) % SweepEvery
       /\ conns' = conns + (IF fresh THEN 1 ELSE 0) - (Size(vs) - Size(swept))
       /\ held' = id

(* The section under mu for a packet that is not dropped: a new visitor    *)
(* gets the next ID, the entry is refreshed, and the packet may be the one *)
(* that sweeps.                                                            *)
Admit(a) ==
    LET fresh == visitors[a] = NoEntry
        id    == IF fresh THEN nextID + 1 ELSE visitors[a].id
        vs    == [visitors EXCEPT ![a] = [id |-> id, lastSeen |-> now]]
        swept == IF packets + 1 = SweepEvery THEN Sweep(vs) ELSE vs
    IN /\ id <= MaxIds
       /\ nextID' = IF fresh THEN id ELSE nextID
       /\ owner' = [i \in 1 .. nextID' |-> IF i = id THEN a ELSE owner[i]]
       /\ visitors' = swept
       /\ packets' = (packets + 1) % SweepEvery
       /\ conns' = conns + (IF fresh THEN 1 ELSE 0) - (Size(vs) - Size(swept))
       /\ held' = id

(* A packet arrives at up.                                                 *)
Packet(a) ==
    /\ pc = "read" /\ ~stopped
    /\ \/ Full(a) /\ drops' = 1 - drops /\ UNCHANGED <<visitors, nextID, owner, packets, conns, held, pc>>
       \/ ~Full(a) /\ Admit(a) /\ pc' = "ensure" /\ UNCHANGED drops
    /\ UNCHANGED <<now, online, streamVars, stopVars>>
    /\ answered' = {}

(* ensure keeps the stream there is, or opens one to an online client; the *)
(* packet is dropped when that fails.  It does not look at done.           *)
Ensure ==
    /\ pc = "ensure"
    /\ \/ stream # 0 /\ pc' = "write" /\ UNCHANGED streamVars
       \/ /\ stream = 0 /\ online /\ streams < MaxStreams
          /\ streams' = streams + 1 /\ stream' = streams + 1
          /\ live' = live \cup {streams + 1} /\ readers' = readers \cup {streams + 1}
          /\ pc' = "write"
       \/ stream = 0 /\ pc' = "read" /\ UNCHANGED streamVars
    /\ UNCHANGED <<now, online, tableVars, stopVars>>
    /\ answered' = {}

(* The packet goes out, or the stream has died meanwhile; next packet.     *)
WritePacket ==
    /\ pc = "write" /\ pc' = "read"
    /\ UNCHANGED <<now, online, tableVars, streamVars, stopVars>>
    /\ answered' = {}

(* ReadFromUDP fails once up is closed.                                    *)
LoopExits ==
    /\ pc = "read" /\ stopped /\ pc' = "exit"
    /\ UNCHANGED <<now, online, tableVars, streamVars, stopVars>>
    /\ answered' = {}

(* A reader goroutine gets a packet for some ID in use at the client and   *)
(* looks for the visitor with that ID; a closed up takes no packet.  The   *)
(* answer goes out after the lookup's section: it is for the visitor that  *)
(* held the place then.                                                    *)
Deliver(s, i) ==
    /\ s \in readers /\ i \in 1 .. nextID
    /\ answered' = {<<owner[i], a>> : a \in {b \in Known : visitors[b].id = i /\ ~stopped}}
    /\ UNCHANGED <<now, online, tableVars, pc, streamVars, stopVars>>

(* Mutant: the reader gives up the current stream, its own or not.         *)
ReaderEndsAny(s) ==
    /\ s \in readers
    /\ readers' = readers \ {s}
    /\ stream' = 0
    /\ UNCHANGED <<now, online, tableVars, pc, streams, live, stopVars>>
    /\ answered' = {}

(* The read fails: the stream ended with its session, which another may    *)
(* have replaced in s.clients by then, or it was closed here.  In a        *)
(* section under mu the reader gives its stream up, so that the loop opens *)
(* a new one, unless that has happened ...                                 *)
ReaderEnds(s) ==
    /\ s \in readers
    /\ readers' = readers \ {s}
    /\ stream' = IF stream = s THEN 0 ELSE stream
    /\ UNCHANGED <<now, online, tableVars, pc, streams, live, stopVars>>
    /\ answered' = {}

(* ... and then closes it.                                                 *)
ReaderCloses(s) ==
    /\ s \in live \ readers
    /\ live' = live \ {s}
    /\ UNCHANGED <<now, online, tableVars, pc, stream, streams, readers, stopVars>>
    /\ answered' = {}

(* stop(): done and up are closed ...                                      *)
Stop ==
    /\ ~stopped /\ stopped' = TRUE
    /\ UNCHANGED <<now, online, tableVars, pc, streamVars, cleaned>>
    /\ answered' = {}

(* ... and the goroutine waiting for done closes the stream.               *)
CleanStream ==
    /\ stopped /\ ~cleaned /\ cleaned' = TRUE
    /\ live' = live \ {stream}
    /\ stream' = 0
    /\ UNCHANGED <<now, online, tableVars, pc, streams, readers, stopped>>
    /\ answered' = {}

Toggle ==
    /\ online' = ~online
    /\ UNCHANGED <<now, tableVars, pc, streamVars, stopVars>>
    /\ answered' = {}

(* At the bound the clock stands still; Idle is far smaller.               *)
Tick ==
    /\ now < MaxTime /\ now' = now + 1
    /\ UNCHANGED <<online, tableVars, pc, streamVars, stopVars>>
    /\ answered' = {}

Loop == Ensure \/ WritePacket \/ LoopExits

Next ==
    \/ \E a \in Addrs : Packet(a)
    \/ Loop \/ Stop \/ CleanStream \/ Toggle \/ Tick
    \/ \E s \in Streams : ReaderEnds(s) \/ ReaderCloses(s) \/ \E i \in Ids : Deliver(s, i)

Spec == Init /\ [][Next]_vars

(* The goroutines run on, time passes, and Knocker goes on sending.        *)
FairSpec ==
    /\ Spec /\ WF_vars(Packet(Knocker)) /\ WF_vars(Loop) /\ WF_vars(CleanStream) /\ WF_vars(Tick)

-----------------------------------------------------------------------------
(* The type of every variable.                                             *)
TypeOK ==
    /\ now \in 0 .. MaxTime /\ online \in BOOLEAN
    /\ visitors \in [Addrs -> Entry \cup {NoEntry}]
    /\ nextID \in 0 .. MaxIds
    /\ owner \in [1 .. nextID -> Addrs]
    /\ packets \in 0 .. SweepEvery - 1 /\ drops \in {0, 1}
    /\ conns \in Nat
    /\ pc \in {"read", "ensure", "write", "exit"}
    /\ held \in 0 .. MaxIds
    /\ stream \in 0 .. streams /\ streams \in 0 .. MaxStreams
    /\ live \in SUBSET (1 .. streams) /\ readers \in SUBSET (1 .. streams)
    /\ stopped \in BOOLEAN /\ cleaned \in BOOLEAN
    /\ answered \in SUBSET (Addrs \X Addrs)

(***************************************************************************)
(* The relay is a UDP service for its visitors (UdpService): max_conns     *)
(* bounds the table through every mix of new visitors, drops and sweeps,   *)
(* and an answer goes to the visitor its connection ID was given to, while *)
(* that visitor holds a place.  IDs are not used again after a sweep, so a *)
(* late answer for an expired visitor never goes to a newcomer.            *)
(***************************************************************************)
Service == INSTANCE UdpService WITH Visitors <- Addrs, inside <- Known
TunnelIsService == Service!Spec

(***************************************************************************)
(* The stream the loop writes to is open and read, and no other one is:    *)
(* every other open stream is about to be closed by its reader.  A         *)
(* reconnect of the client, or a stop of the rule that falls between a     *)
(* packet and its stream, leaves no stream that nobody gives up, although  *)
(* an old stream's reader may still be ending when the next one is there.  *)
(***************************************************************************)
OneStream == live \cap readers = {stream} \ {0}

(***************************************************************************)
(* docs/04: a UDP visitor idle for 90 s gives up its place.  While a       *)
(* visitor keeps sending, every expired entry is removed or refreshed.     *)
(***************************************************************************)
IdleIsReleased ==
    \A a \in Addrs :
        (visitors[a] # NoEntry /\ Expired(visitors[a]) /\ ~stopped)
            ~> (visitors[a] = NoEntry \/ ~Expired(visitors[a]) \/ stopped)

(***************************************************************************)
(* While a visitor that holds a place keeps sending, every expired entry   *)
(* is removed or refreshed: its packets reach the sweep even when the      *)
(* table is full.                                                          *)
(***************************************************************************)
KnownReleaseIdle == <>[](visitors[Knocker] # NoEntry) => IdleIsReleased
=============================================================================
