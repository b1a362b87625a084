------------------------------ MODULE UdpLocal ------------------------------
(***************************************************************************)
(* A forward UDP rule at the server: udpLocalRelay of server/forward.go.   *)
(* The main loop reads the rule's socket `up` and gives each visitor a     *)
(* socket to the target; a goroutine per socket carries the answers back;  *)
(* another one waits for the runner's stop().  The table is only touched   *)
(* under mu, but the limit is checked in one section and the session is    *)
(* added in a later one.                                                   *)
(*                                                                         *)
(* The source checks of the loop are those of module TcpForward; here a    *)
(* visitor is one that passes them.  The limiter only delays the loop,     *)
(* which any pause between Check and getBackend stands for.                *)
(***************************************************************************)
EXTENDS Naturals, FiniteSets

CONSTANTS
    Addrs,      \* visitor addresses
    Limit,      \* the rule's max_conns; 0 is no limit
    MaxSocks    \* bound: sockets dialled

Socks == 1 .. MaxSocks

ASSUME LocalAssumption ==
    /\ IsFiniteSet(Addrs) /\ 0 \notin Addrs
    /\ Limit \in Nat /\ MaxSocks \in Nat

VARIABLES
    pc,         \* main loop: "read", "check", "get", "write", "exit"
    src,        \* the visitor of the packet in hand
    backends,   \* the table: visitor -> socket, 0 for none
    last,       \* sockets dialled so far
    owner,      \* the visitor each was dialled for
    reader,     \* its goroutine: "reading", "broken", "deleted", "gone"
    open,       \* sockets that are open
    conns,      \* st.Conns
    stopping,   \* stop() was called: done is closed, ...
    upClosed,   \* ... and then up
    cleaned     \* the goroutine waiting for done has run

vars == <<pc, src, backends, last, owner, reader, open, conns, stopping, upClosed, cleaned>>
loopVars == <<pc, src>>
stopVars == <<stopping, upClosed, cleaned>>
sockVars == <<backends, last, owner, reader, open, conns>>

Known == {a \in Addrs : backends[a] # 0}

Init ==
    /\ pc = "read" /\ src \in Addrs
    /\ backends = [a \in Addrs |-> 0]
    /\ last = 0
    /\ owner = [b \in Socks |-> src] /\ reader = [b \in Socks |-> "gone"]
    /\ open = {} /\ conns = 0
    /\ stopping = FALSE /\ upClosed = FALSE /\ cleaned = FALSE

-----------------------------------------------------------------------------
Receive(a) ==
    /\ pc = "read" /\ ~upClosed
    /\ pc' = "check" /\ src' = a
    /\ UNCHANGED <<sockVars, stopVars>>

(* Mutant: the limit is one too generous.                                  *)
CheckOffByOne ==
    /\ pc = "check"
    /\ LET full == Limit > 0 /\ Cardinality(Known) > Limit /\ backends[src] = 0
       IN  pc' = IF full THEN "read" ELSE "get"
    /\ UNCHANGED <<src, sockVars, stopVars>>

(* A new visitor's packet is dropped when the table is full.               *)
Check ==
    /\ pc = "check"
    /\ LET full == Limit > 0 /\ Cardinality(Known) >= Limit /\ backends[src] = 0
       IN  pc' = IF full THEN "read" ELSE "get"
    /\ UNCHANGED <<src, sockVars, stopVars>>

(* getBackend: the visitor's socket, or a new one with a reader of its     *)
(* own; when the dial fails the packet is lost.                            *)
getBackend ==
    /\ pc = "get"
    /\ \/ /\ backends[src] # 0 /\ pc' = "write"
          /\ UNCHANGED sockVars
       \/ /\ backends[src] = 0 /\ last < MaxSocks /\ pc' = "write"
          /\ last' = last + 1
          /\ backends' = [backends EXCEPT ![src] = last + 1]
          /\ owner' = [owner EXCEPT ![last + 1] = src]
          /\ reader' = [reader EXCEPT ![last + 1] = "reading"]
          /\ open' = open \cup {last + 1}
          /\ conns' = conns + 1
       \/ /\ backends[src] = 0 /\ pc' = "read"
          /\ UNCHANGED sockVars
    /\ UNCHANGED <<src, stopVars>>

(* Mutant: after a failed write the entry is deleted, for a fresh dial.    *)
WriteDrops ==
    /\ pc = "write" /\ pc' = "read"
    /\ \/ UNCHANGED backends
       \/ backends' = [backends EXCEPT ![src] = 0]
    /\ UNCHANGED <<src, last, owner, reader, open, conns, stopVars>>

(* The packet is written; a failure only loses it.                         *)
Write ==
    /\ pc = "write" /\ pc' = "read"
    /\ UNCHANGED <<src, sockVars, stopVars>>

LoopExits ==
    /\ pc = "read" /\ upClosed /\ pc' = "exit"
    /\ UNCHANGED <<src, sockVars, stopVars>>

-----------------------------------------------------------------------------
Becomes(b, state) == reader' = [reader EXCEPT ![b] = state]

(* A reader breaks off: 90 s without an answer, an error, its socket was   *)
(* closed, or up was when it handed the visitor an answer.                 *)
ReaderBreaks(b) ==
    /\ reader[b] = "reading" /\ Becomes(b, "broken")
    /\ UNCHANGED <<loopVars, backends, last, owner, open, conns, stopVars>>

(* It deletes its visitor's entry, ...                                     *)
ReaderDeletes(b) ==
    /\ reader[b] = "broken" /\ Becomes(b, "deleted")
    /\ backends' = [backends EXCEPT ![owner[b]] = 0]
    /\ UNCHANGED <<loopVars, last, owner, open, conns, stopVars>>

(* Mutant: the session is discounted only while the rule runs.             *)
ReaderEndsUncounted(b) ==
    /\ reader[b] = "deleted" /\ Becomes(b, "gone")
    /\ open' = open \ {b}
    /\ conns' = IF stopping THEN conns ELSE conns - 1
    /\ UNCHANGED <<loopVars, backends, last, owner, stopVars>>

(* Mutant: the socket is left to whoever stops the rule.                   *)
ReaderKeepsOpen(b) ==
    /\ reader[b] = "deleted" /\ Becomes(b, "gone")
    /\ conns' = conns - 1
    /\ UNCHANGED <<loopVars, backends, last, owner, open, stopVars>>

(* ... closes its socket and discounts the session.                        *)
ReaderEnds(b) ==
    /\ reader[b] = "deleted" /\ Becomes(b, "gone")
    /\ open' = open \ {b}
    /\ conns' = conns - 1
    /\ UNCHANGED <<loopVars, backends, last, owner, stopVars>>

-----------------------------------------------------------------------------
(* The runner's stop(): close(done), then up.Close().                      *)
Stop ==
    /\ ~stopping /\ stopping' = TRUE
    /\ UNCHANGED <<loopVars, sockVars, upClosed, cleaned>>

CloseUp ==
    /\ stopping /\ ~upClosed /\ upClosed' = TRUE
    /\ UNCHANGED <<loopVars, sockVars, stopping, cleaned>>

(* The goroutine waiting for done closes every socket in the table.        *)
Cleanup ==
    /\ stopping /\ ~cleaned /\ cleaned' = TRUE
    /\ open' = open \ {backends[a] : a \in Addrs}
    /\ UNCHANGED <<loopVars, backends, last, owner, reader, conns, stopping, upClosed>>

Loop == Check \/ getBackend \/ Write \/ LoopExits
Reader(b) == ReaderBreaks(b) \/ ReaderDeletes(b) \/ ReaderEnds(b)

Next ==
    \/ Loop \/ Stop \/ CloseUp \/ Cleanup
    \/ \E a \in Addrs : Receive(a)
    \/ \E b \in Socks : Reader(b)

Spec == Init /\ [][Next]_vars

(* Goroutines run on.  A reader is only sure to break off once up is       *)
(* closed: the next answer fails on it, or none comes within 90 s.  Before *)
(* that a target may keep a session alive for ever, and nothing forces     *)
(* stop().                                                                 *)
FairSpec ==
    /\ Spec
    /\ WF_vars(Loop) /\ WF_vars(CloseUp) /\ WF_vars(Cleanup)
    /\ \A b \in Socks :
        /\ WF_vars(upClosed /\ ReaderBreaks(b))
        /\ WF_vars(ReaderDeletes(b)) /\ WF_vars(ReaderEnds(b))

-----------------------------------------------------------------------------
(* The type of every variable.                                             *)
TypeOK ==
    /\ pc \in {"read", "check", "get", "write", "exit"}
    /\ src \in Addrs /\ last \in 0 .. MaxSocks
    /\ backends \in [Addrs -> 0 .. last]
    /\ owner \in [Socks -> Addrs]
    /\ reader \in [Socks -> {"reading", "broken", "deleted", "gone"}]
    /\ open \in SUBSET (1 .. last)
    /\ conns \in Nat
    /\ stopping \in BOOLEAN /\ upClosed \in BOOLEAN /\ cleaned \in BOOLEAN

(***************************************************************************)
(* max_conns bounds the table although the check and the insertion are two *)
(* sections of mu: in between readers only remove entries, also the one    *)
(* that let a known visitor pass the check of a full table.                *)
(***************************************************************************)
TableBounded == Limit > 0 => Cardinality(Known) <= Limit

(***************************************************************************)
(* An entry belongs to its reader until the reader deletes it, so that the *)
(* delete by visitor address never hits a later socket of the same         *)
(* visitor, and no two sockets serve one visitor at a time.                *)
(***************************************************************************)
EntryIsOwn == \A b \in Socks : reader[b] \in {"reading", "broken"} => backends[owner[b]] = b

(***************************************************************************)
(* st.Conns counts the sockets whose reader has not ended, also through a  *)
(* stop of the rule with packets and answers under way.                    *)
(***************************************************************************)
ConnsExact == conns = Cardinality({b \in Socks : reader[b] # "gone"})

(***************************************************************************)
(* A stopped rule releases everything in the end, also the session of a    *)
(* packet that was in the loop's hands when stop() was called.             *)
(***************************************************************************)
StopReleasesAll == stopping ~> (pc = "exit" /\ open = {} /\ conns = 0)
=============================================================================
