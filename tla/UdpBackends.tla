---------------------------- MODULE UdpBackends ----------------------------
(***************************************************************************)
(* The far end of a UDP stream: udpBackendFromStream of server/reverse.go  *)
(* (reverse rules) and its twin handleUDPStream of client/client.go        *)
(* (tunnelled rules).  The main loop takes packets off the stream and      *)
(* gives each connection ID a socket to the target; a goroutine per socket *)
(* carries the answers back.  The table is only touched under mu, sockets  *)
(* are written, read and closed outside it.                                *)
(***************************************************************************)
EXTENDS Naturals, FiniteSets

CONSTANTS
    Ids,        \* connection IDs on the stream
    MaxSocks    \* bound: sockets dialled

Socks == 1 .. MaxSocks

ASSUME BackendsAssumption == MaxSocks \in Nat /\ 0 \notin Ids

VARIABLES
    pc,         \* main loop: "read", "write", "drop", "close", "done"
    id, sock,   \* the packet in hand and the socket found for it, 0 for none
    backends,   \* the table: connection ID -> socket, 0 for none
    last,       \* sockets dialled so far
    owner,      \* the ID each was dialled for, 0 before
    reader,     \* its goroutine: "reading", "broken", "deleted", "gone"
    open,       \* sockets that are open
    conns       \* st.Conns (the server's copy)

vars == <<pc, id, sock, backends, last, owner, reader, open, conns>>
loopVars == <<pc, id, sock>>

Init ==
    /\ pc = "read" /\ id = 0 /\ sock = 0
    /\ backends = [i \in Ids |-> 0]
    /\ last = 0
    /\ owner = [b \in Socks |-> 0] /\ reader = [b \in Socks |-> "gone"]
    /\ open = {} /\ conns = 0

-----------------------------------------------------------------------------
(* A packet arrives: its socket is looked up, or dialled and put into the  *)
(* table with a reader of its own; when the dial fails the packet is lost. *)
Packet(i) ==
    /\ pc = "read"
    /\ \/ /\ backends[i] # 0
          /\ id' = i /\ sock' = backends[i] /\ pc' = "write"
          /\ UNCHANGED <<backends, last, owner, reader, open, conns>>
       \/ /\ backends[i] = 0 /\ last < MaxSocks
          /\ last' = last + 1 /\ id' = i /\ sock' = last + 1 /\ pc' = "write"
          /\ backends' = [backends EXCEPT ![i] = last + 1]
          /\ owner' = [owner EXCEPT ![last + 1] = i]
          /\ reader' = [reader EXCEPT ![last + 1] = "reading"]
          /\ open' = open \cup {last + 1}
          /\ conns' = conns + 1
       \/ /\ backends[i] = 0
          /\ UNCHANGED vars

(* The packet is written.  A closed socket fails, an open one may (an      *)
(* earlier packet was refused).                                            *)
Write ==
    /\ pc = "write"
    /\ \/ sock \in open /\ pc' = "read" /\ id' = 0 /\ sock' = 0
       \/ pc' = "drop" /\ UNCHANGED <<id, sock>>
    /\ UNCHANGED <<backends, last, owner, reader, open, conns>>

(* Mutant: the failed socket stays in the table.                           *)
DropNothing ==
    /\ pc = "drop" /\ pc' = "close"
    /\ UNCHANGED <<id, sock, backends, last, owner, reader, open, conns>>

(* Mutant: the failed session is discounted here and by its reader.        *)
DropDiscounts ==
    /\ pc = "drop" /\ pc' = "close"
    /\ backends' = [backends EXCEPT ![id] = 0]
    /\ conns' = IF conns = 0 THEN 0 ELSE conns - 1
    /\ UNCHANGED <<id, sock, last, owner, reader, open>>

(* After a failed write the entry is deleted under mu, ...                 *)
Drop ==
    /\ pc = "drop" /\ pc' = "close"
    /\ backends' = [backends EXCEPT ![id] = 0]
    /\ UNCHANGED <<id, sock, last, owner, reader, open, conns>>

(* ... then the socket is closed.                                          *)
CloseSock ==
    /\ pc = "close" /\ pc' = "read" /\ id' = 0 /\ sock' = 0
    /\ open' = open \ {sock}
    /\ UNCHANGED <<backends, last, owner, reader, conns>>

(* The stream ends: the deferred call closes every socket in the table.    *)
StreamEnds ==
    /\ pc = "read" /\ pc' = "done"
    /\ open' = open \ {backends[i] : i \in Ids}
    /\ UNCHANGED <<id, sock, backends, last, owner, reader, conns>>

-----------------------------------------------------------------------------
Becomes(b, state) == reader' = [reader EXCEPT ![b] = state]

(* A reader's Read fails: 90 s without an answer, an error, or the socket  *)
(* was closed.                                                             *)
ReadFails(b) ==
    /\ reader[b] = "reading" /\ Becomes(b, "broken")
    /\ UNCHANGED <<loopVars, backends, last, owner, open, conns>>

(* It deletes the entry of its connection ID, whatever it holds by now.    *)
ReaderDeletes(b) ==
    /\ reader[b] = "broken" /\ Becomes(b, "deleted")
    /\ backends' = [backends EXCEPT ![owner[b]] = 0]
    /\ UNCHANGED <<loopVars, last, owner, open, conns>>

(* It closes its socket and discounts itself.                              *)
ReaderEnds(b) ==
    /\ reader[b] = "deleted" /\ Becomes(b, "gone")
    /\ open' = open \ {b}
    /\ conns' = conns - 1
    /\ UNCHANGED <<loopVars, backends, last, owner>>

Loop == Write \/ Drop \/ CloseSock
Reader(b) == ReadFails(b) \/ ReaderDeletes(b) \/ ReaderEnds(b)

Next == Loop \/ StreamEnds \/ (\E i \in Ids : Packet(i)) \/ (\E b \in Socks : Reader(b))

Spec == Init /\ [][Next]_vars

-----------------------------------------------------------------------------
(* The type of every variable.                                             *)
TypeOK ==
    /\ pc \in {"read", "write", "drop", "close", "done"}
    /\ id \in Ids \cup {0} /\ last \in 0 .. MaxSocks /\ sock \in 0 .. last
    /\ backends \in [Ids -> 0 .. last]
    /\ owner \in [Socks -> Ids \cup {0}]
    /\ reader \in [Socks -> {"reading", "broken", "deleted", "gone"}]
    /\ open \in SUBSET (1 .. last)
    /\ conns \in Nat

(***************************************************************************)
(* While the stream lives, the table only holds open sockets, dialled for  *)
(* the ID they are found under: a packet never meets a socket that was     *)
(* closed before it was looked up, nor another session's.                  *)
(***************************************************************************)
TableIsOpen ==
    pc # "done" => \A i \in Ids : backends[i] # 0 => backends[i] \in open /\ owner[backends[i]] = i

(***************************************************************************)
(* st.Conns counts the sockets whose reader has not ended, on every path   *)
(* by which one is given up (idle, failed write, end of the stream).       *)
(***************************************************************************)
ConnsExact == conns = Cardinality({b \in Socks : reader[b] # "gone"})
=============================================================================
