----------------------------- MODULE UdpReverse -----------------------------
(***************************************************************************)
(* A reverse UDP rule from end to end: udpRelay of client/reverse.go reads *)
(* the rule's socket `up`, numbers the visitors and sends their packets    *)
(* through one stream to udpBackendFromStream of server/reverse.go, which  *)
(* is module UdpBackends; answers come back on the same stream.  Packets   *)
(* keep their order in each direction of the stream.                       *)
(*                                                                         *)
(* The relay starts with its stream open; that opening it may fail is in   *)
(* module RuleSync.  A visitor here is one that acl allows.                *)
(***************************************************************************)
EXTENDS UdpBackends, Sequences

CONSTANTS
    Addrs,      \* visitor addresses
    MaxConns,   \* the rule's max_conns; 0 is no limit
    SweepEvery, \* packets between two sweeps (64)
    MaxQueue    \* bound: packets in flight in a direction of the stream

ASSUME ReverseAssumption ==
    /\ IsFiniteSet(Addrs) /\ 0 \notin Addrs
    /\ MaxConns \in Nat /\ {SweepEvery, MaxQueue} \subseteq Nat \ {0}
    /\ Ids \subseteq Nat

VARIABLES
    loop,       \* the client's relay loop: "read", "write", "done"
    src,        \* the visitor of its packet in hand, 0 for none
    visitors,   \* the visitor table: address -> connection ID, 0 for none
    nextID,     \* the last connection ID given out
    idle,       \* visitors not seen for more than udpIdleTimeout
    packets,    \* packets since the last sweep
    reading,    \* the goroutine reading the stream is there
    upOpen,     \* the rule's socket at the client is open
    streamOpen, \* the client has not closed its stream
    alive,      \* the session under the stream is alive
    out, back,  \* packets in flight: records id, from
    from,       \* the sender of the server's packet in hand, 0 for none
    heard,      \* senders of the packets written to each socket in use
    answered    \* <<asker, receiver>> of the answer the last step gave out

relayVars == <<loop, src, visitors, nextID, idle, packets>>
linkVars == <<reading, upOpen, streamOpen, alive>>
dataVars == <<out, back, from, heard>>
reverseVars == <<vars, relayVars, linkVars, dataVars, answered>>

Known == {a \in Addrs : visitors[a] # 0}

ReverseInit ==
    /\ Init
    /\ loop = "read" /\ src = 0
    /\ visitors = [a \in Addrs |-> 0] /\ nextID = 0 /\ idle = {} /\ packets = 0
    /\ reading = TRUE /\ upOpen = TRUE /\ streamOpen = TRUE /\ alive = TRUE
    /\ out = <<>> /\ back = <<>> /\ from = 0
    /\ heard = [b \in Socks |-> {}]
    /\ answered = {}

-----------------------------------------------------------------------------
(* Mutant: the ID is the table's size, so a sweep sets IDs free again.     *)
TakeReuseID(a) ==
    LET fresh == visitors[a] = 0
        vs    == IF fresh THEN [visitors EXCEPT ![a] = Cardinality(Known) + 1] ELSE visitors
        sweep == packets + 1 = SweepEvery
        swept == IF sweep THEN idle \ {a} ELSE {}
    IN /\ nextID' = IF fresh THEN Cardinality(Known) + 1 ELSE nextID
       /\ nextID' \in Ids
       /\ visitors' = [v \in Addrs |-> IF v \in swept THEN 0 ELSE vs[v]]
       /\ idle' = idle \ (swept \cup {a})
       /\ packets' = IF sweep THEN 0 ELSE packets + 1

(* A packet that is not dropped, under mu: a new visitor gets the next ID, *)
(* the entry is refreshed, and the packet may be the one that sweeps.      *)
Take(a) ==
    LET fresh == visitors[a] = 0
        vs    == IF fresh THEN [visitors EXCEPT ![a] = nextID + 1] ELSE visitors
        sweep == packets + 1 = SweepEvery
        swept == IF sweep THEN idle \ {a} ELSE {}
    IN /\ nextID' = IF fresh THEN nextID + 1 ELSE nextID
       /\ nextID' \in Ids
       /\ visitors' = [v \in Addrs |-> IF v \in swept THEN 0 ELSE vs[v]]
       /\ idle' = idle \ (swept \cup {a})
       /\ packets' = IF sweep THEN 0 ELSE packets + 1

(* A packet arrives at up.  With a full table a new visitor's packet is    *)
(* dropped before anything is recorded, which is a step that changes       *)
(* nothing.                                                                *)
Receive(a) ==
    /\ loop = "read" /\ upOpen
    /\ visitors[a] = 0 /\ MaxConns > 0 => Cardinality(Known) < MaxConns
    /\ Take(a)
    /\ src' = a /\ loop' = "write"
    /\ answered' = {} /\ UNCHANGED <<vars, linkVars, dataVars>>

(* 90 s pass without a packet.                                             *)
FallIdle ==
    /\ idle' = Known
    /\ answered' = {} /\ UNCHANGED <<vars, loop, src, visitors, nextID, packets, linkVars, dataVars>>

(* The table goes with the loop.                                           *)
LoopReturns ==
    /\ loop' = "done" /\ src' = 0
    /\ visitors' = [a \in Addrs |-> 0] /\ nextID' = 0 /\ idle' = {} /\ packets' = 0

(* The packet goes into the stream; on an error stream and up are closed.  *)
Send ==
    /\ loop = "write"
    /\ \/ /\ alive /\ streamOpen /\ Len(out) < MaxQueue
          /\ out' = Append(out, [id |-> visitors[src], from |-> src])
          /\ loop' = "read" /\ src' = 0
          /\ UNCHANGED <<visitors, nextID, idle, packets, upOpen, streamOpen>>
       \/ /\ ~(alive /\ streamOpen)
          /\ streamOpen' = FALSE /\ upOpen' = FALSE
          /\ LoopReturns /\ UNCHANGED out
    /\ answered' = {} /\ UNCHANGED <<vars, reading, alive, back, from, heard>>

(* Mutant: the loop returns without closing its stream.                    *)
LoopEndsOnly ==
    /\ loop = "read" /\ ~upOpen
    /\ LoopReturns
    /\ answered' = {} /\ UNCHANGED <<vars, linkVars, dataVars>>

(* Once up is closed the loop closes the stream and returns.               *)
LoopEnds ==
    /\ loop = "read" /\ ~upOpen
    /\ streamOpen' = FALSE /\ LoopReturns
    /\ answered' = {} /\ UNCHANGED <<vars, reading, upOpen, alive, dataVars>>

(* An answer comes out of the stream and goes to the visitor with its ID,  *)
(* if there is one and up is open.                                         *)
Deliver ==
    /\ reading /\ back # <<>>
    /\ back' = Tail(back)
    /\ LET p == Head(back)
       IN answered' = {<<p.from, a>> : a \in {v \in Known : upOpen /\ visitors[v] = p.id}}
    /\ UNCHANGED <<vars, relayVars, linkVars, out, from, heard>>

(* The stream is closed, or lost with its session: up is closed.           *)
ReaderStops ==
    /\ reading /\ back = <<>> /\ ~(alive /\ streamOpen)
    /\ reading' = FALSE /\ upOpen' = FALSE
    /\ answered' = {} /\ UNCHANGED <<vars, relayVars, streamOpen, alive, dataVars>>

(* stopLocked: the rule is gone or changed, or the session has ended.      *)
StopRule ==
    /\ upOpen /\ upOpen' = FALSE
    /\ answered' = {} /\ UNCHANGED <<vars, relayVars, reading, streamOpen, alive, dataVars>>

(* The session breaks; what had not arrived is lost.                       *)
LoseSession ==
    /\ alive /\ alive' = FALSE
    /\ \E k \in 0 .. Len(out) : out' = SubSeq(out, 1, k)
    /\ \E k \in 0 .. Len(back) : back' = SubSeq(back, 1, k)
    /\ answered' = {} /\ UNCHANGED <<vars, relayVars, reading, upOpen, streamOpen, from, heard>>

-----------------------------------------------------------------------------
(* The server's loop takes the next packet, ...                            *)
TakePacket ==
    /\ out # <<>> /\ Packet(Head(out).id)
    /\ from' = (IF pc' = "write" THEN Head(out).from ELSE 0) /\ out' = Tail(out)
    /\ answered' = {} /\ UNCHANGED <<relayVars, linkVars, back, heard>>

(* ... writes it to its socket, ...                                        *)
WritePacket ==
    /\ Write
    /\ heard' = IF pc' = "read" THEN [heard EXCEPT ![sock] = @ \cup {from}] ELSE heard
    /\ from' = 0
    /\ answered' = {} /\ UNCHANGED <<relayVars, linkVars, out, back>>

(* ... gives up a socket that failed, and ends with the stream.            *)
GiveUp ==
    /\ Drop \/ CloseSock
    /\ answered' = {} /\ UNCHANGED <<relayVars, linkVars, dataVars>>

EndOfStream ==
    /\ out = <<>> /\ ~(alive /\ streamOpen) /\ StreamEnds
    /\ answered' = {} /\ UNCHANGED <<relayVars, linkVars, dataVars>>

(* The target answers a packet; an answer to a closed stream is lost.      *)
Reply(b) ==
    /\ reader[b] = "reading" /\ b \in open
    /\ alive /\ streamOpen /\ Len(back) < MaxQueue
    /\ \E a \in heard[b] : back' = Append(back, [id |-> owner[b], from |-> a])
    /\ answered' = {} /\ UNCHANGED <<vars, relayVars, linkVars, out, from, heard>>

SockReader(b) ==
    /\ Reader(b)
    /\ heard' = IF reader'[b] = "gone" THEN [heard EXCEPT ![b] = {}] ELSE heard
    /\ answered' = {} /\ UNCHANGED <<relayVars, linkVars, out, back, from>>

RelayLoop == Send \/ LoopEnds
StreamReader == Deliver \/ ReaderStops
ServerLoop == TakePacket \/ WritePacket \/ GiveUp \/ EndOfStream

ReverseNext ==
    \/ \E a \in Addrs : Receive(a)
    \/ FallIdle \/ StopRule \/ LoseSession
    \/ RelayLoop \/ StreamReader \/ ServerLoop
    \/ \E b \in Socks : Reply(b) \/ SockReader(b)

ReverseSpec == ReverseInit /\ [][ReverseNext]_reverseVars

-----------------------------------------------------------------------------
(* The type of every variable that is not the backends'.                   *)
RelayTypeOK ==
    /\ loop \in {"read", "write", "done"} /\ src \in Addrs \cup {0}
    /\ visitors \in [Addrs -> Ids \cup {0}] /\ idle \in SUBSET Addrs
    /\ nextID \in Nat /\ packets \in 0 .. SweepEvery - 1

DataTypeOK ==
    /\ out \in Seq([id : Ids, from : Addrs])
    /\ back \in Seq([id : Ids \cup {0}, from : Addrs])
    /\ from \in Addrs \cup {0}
    /\ heard \in [Socks -> SUBSET Addrs]

ReverseTypeOK ==
    /\ TypeOK /\ RelayTypeOK /\ DataTypeOK
    /\ reading \in BOOLEAN /\ upOpen \in BOOLEAN /\ streamOpen \in BOOLEAN /\ alive \in BOOLEAN
    /\ answered \in SUBSET (Addrs \X Addrs)

-----------------------------------------------------------------------------
(***************************************************************************)
(* Client and server together are the service a UDP rule promises: places  *)
(* are bounded by max_conns, and whatever is swept, dialled anew or in     *)
(* flight, an answer is given only to the visitor whose packet it answers. *)
(***************************************************************************)
Service == INSTANCE UdpService WITH Visitors <- Addrs, Limit <- MaxConns, inside <- Known
ReverseIsService == Service!Spec

(* No goroutine of the relay, at either end, can take a step: the loop     *)
(* waits for a packet or for room in the stream, the reader and the        *)
(* server's loop for something to come out of it.  A reader of a socket    *)
(* always can go on: its deadline fires.                                   *)
AtRest ==
    LET lasting == alive /\ streamOpen IN
    /\ loop = "read" => upOpen
    /\ loop = "write" => lasting /\ Len(out) >= MaxQueue
    /\ reading => lasting /\ back = <<>>
    /\ pc = "done" \/ (pc = "read" /\ lasting /\ out = <<>>)
    /\ \A b \in Socks : reader[b] = "gone"

(***************************************************************************)
(* Nothing outlives the rule's socket: once up is closed, by a stop of the *)
(* rule or with the session, no goroutine is left waiting for another:     *)
(* when none can go on, the client's two have ended, the server's loop has *)
(* ended with the stream, and every socket is closed and discounted.       *)
(***************************************************************************)
NoLeftovers ==
    ~upOpen /\ AtRest => loop = "done" /\ ~reading /\ pc = "done" /\ open = {} /\ conns = 0
=============================================================================
