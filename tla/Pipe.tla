-------------------------------- MODULE Pipe --------------------------------
(***************************************************************************)
(* A relayed TCP connection: Pipe of relay/relay.go and the token bucket   *)
(* of relay/limiter.go.  Two goroutines copy chunk by chunk, one in each   *)
(* direction; the one that ends first sets a deadline of "now" on the      *)
(* connection it was writing to, which is meant to interrupt the other.    *)
(*                                                                         *)
(* One tick is the time in which the bucket earns one unit.  A deadline is *)
(* kept as ticks left.  The peers send and close as they like.             *)
(***************************************************************************)
EXTENDS Naturals

CONSTANTS
    Idles,      \* idle timeouts to look at, in ticks; 0 is none
    Streams,    \* sets of ends to look at that are smux streams
    Sizes,      \* sizes of a chunk, in units
    Rate,       \* units per second, the burst; 0 is no limiter
    MaxPend     \* bound: chunks waiting to be read from an end

(* The two connections; a direction goes by the end it reads from.         *)
Ends == {"a", "b"}
Dst(d) == IF d = "a" THEN "b" ELSE "a"

Longest == CHOOSE n \in Idles : \A k \in Idles : k <= n
Never == Longest + 1

ASSUME PipeAssumption ==
    /\ Idles \subseteq Nat /\ \E n \in Idles : \A k \in Idles : k <= n
    /\ Rate \in Nat /\ MaxPend \in Nat \ {0}
    /\ Sizes \subseteq Nat \ {0} /\ (Rate > 0 => \A n \in Sizes : n <= Rate)
    /\ \A s \in Streams : s \subseteq Ends

VARIABLES
    idle,       \* the rule's idle timeout
    streams,    \* the ends that are smux streams
    peer,       \* the other side of an end: "open", "eof" or "gone"
    pend,       \* chunks that wait to be read from an end
    readBy,     \* ticks until an end's read deadline; Never for none
    cut,        \* ends whose write deadline has passed
    at,         \* per direction: "read", "blocked", "wait", "write", "end", "done"
    hand,       \* size of the chunk in hand, 0 for none
    how,        \* how a copy ended: "no", "eof", "timeout", "error"
    owed,       \* history: chunks sent on a direction and not delivered
    tokens,     \* the limiter's bucket
    wake,       \* ticks a direction still sleeps in Wait
    level       \* history: units granted, draining one per tick

pipeVars == <<idle, streams, peer, pend, readBy, cut, at, hand, how, owed, tokens, wake, level>>
caseVars == <<idle, streams>>
connVars == <<peer, pend, readBy, cut>>
limVars == <<tokens, wake, level>>

PipeInit ==
    /\ idle \in Idles /\ streams \in Streams
    /\ peer = [e \in Ends |-> "open"] /\ pend = [e \in Ends |-> 0]
    /\ readBy = [e \in Ends |-> Never] /\ cut = {}
    /\ at = [d \in Ends |-> "read"] /\ hand = [d \in Ends |-> 0] /\ how = [d \in Ends |-> "no"]
    /\ owed = [d \in Ends |-> 0]
    /\ tokens = Rate /\ wake = [d \in Ends |-> 0] /\ level = 0

-----------------------------------------------------------------------------
Sends(d) ==
    /\ peer[d] = "open" /\ pend[d] < MaxPend
    /\ pend' = [pend EXCEPT ![d] = @ + 1]
    /\ owed' = [owed EXCEPT ![d] = @ + 1]
    /\ UNCHANGED <<caseVars, peer, readBy, cut, at, hand, how, limVars>>

(* A peer closes its side (the chunks under way still arrive), or is lost. *)
Closes(e, s) ==
    /\ peer[e] # "gone" /\ peer[e] # s
    /\ peer' = [peer EXCEPT ![e] = s]
    /\ pend' = IF s = "gone" THEN [pend EXCEPT ![e] = 0] ELSE pend
    /\ UNCHANGED <<caseVars, readBy, cut, at, hand, how, owed, limVars>>

-----------------------------------------------------------------------------
Moves(d, s) == at' = [at EXCEPT ![d] = s]
Ended(d, s) == Moves(d, "end") /\ how' = [how EXCEPT ![d] = s]

(* reader.Read: with an idle timeout every read starts its time over, also *)
(* when the deadline was put there to interrupt it.                        *)
StartRead(d) ==
    /\ at[d] = "read" /\ Moves(d, "blocked")
    /\ readBy' = IF idle > 0 THEN [readBy EXCEPT ![d] = idle] ELSE readBy
    /\ UNCHANGED <<caseVars, peer, pend, cut, hand, how, owed, limVars>>

(* The read returns.  A connection whose deadline has passed reads nothing *)
(* more; a stream first gives out what it has.                             *)
EndRead(d) ==
    LET late == readBy[d] = 0 IN
    /\ at[d] = "blocked"
    /\ \/ /\ pend[d] > 0 /\ (late => d \in streams)
          /\ pend' = [pend EXCEPT ![d] = @ - 1]
          /\ \E n \in Sizes : hand' = [hand EXCEPT ![d] = n]
          /\ Moves(d, "wait") /\ UNCHANGED how
       \/ /\ late /\ (d \in streams => pend[d] = 0)
          /\ Ended(d, "timeout") /\ UNCHANGED <<pend, hand>>
       \/ /\ ~late /\ pend[d] = 0 /\ peer[d] # "open"
          /\ Ended(d, IF peer[d] = "eof" THEN "eof" ELSE "error") /\ UNCHANGED <<pend, hand>>
    /\ UNCHANGED <<caseVars, peer, readBy, cut, owed, limVars>>

(* Mutant: the units are taken whether they are there or not.              *)
GrantAlways(d) ==
    /\ at[d] = "wait" /\ wake[d] = 0
    /\ tokens' = IF hand[d] > tokens THEN 0 ELSE tokens - hand[d]
    /\ level' = level + hand[d] /\ Moves(d, "write") /\ UNCHANGED wake
    /\ UNCHANGED <<caseVars, connVars, hand, how, owed>>

(* Limiter.Wait under l.mu: the units are taken, or the goroutine sleeps   *)
(* until they could be there, and looks again.                             *)
Grant(d) ==
    /\ at[d] = "wait" /\ wake[d] = 0
    /\ \/ Rate = 0 /\ Moves(d, "write") /\ UNCHANGED limVars
       \/ /\ Rate > 0 /\ tokens >= hand[d]
          /\ tokens' = tokens - hand[d] /\ level' = level + hand[d]
          /\ Moves(d, "write") /\ UNCHANGED wake
       \/ /\ Rate > 0 /\ tokens < hand[d]
          /\ wake' = [wake EXCEPT ![d] = hand[d] - tokens]
          /\ UNCHANGED <<at, tokens, level>>
    /\ UNCHANGED <<caseVars, connVars, hand, how, owed>>

(* The chunk is written, or an error ends the copy.                        *)
Write(d) ==
    LET e == Dst(d) IN
    /\ at[d] = "write"
    /\ hand' = [hand EXCEPT ![d] = 0]
    /\ IF e \in cut \/ peer[e] = "gone"
       THEN Ended(d, "error") /\ UNCHANGED owed
       ELSE owed' = [owed EXCEPT ![d] = @ - 1] /\ Moves(d, "read") /\ UNCHANGED how
    /\ UNCHANGED <<caseVars, connVars, limVars>>

(* Mutant: only writes are interrupted.                                    *)
InterruptWrites(d) ==
    /\ at[d] = "end" /\ Moves(d, "done")
    /\ cut' = cut \cup {Dst(d)}
    /\ UNCHANGED <<caseVars, peer, pend, readBy, hand, how, owed, limVars>>

(* Mutant: the deadline is set on both ends, also on the one that the      *)
(* other copy writes to.                                                   *)
InterruptBoth(d) ==
    /\ at[d] = "end" /\ Moves(d, "done")
    /\ readBy' = [e \in Ends |-> 0]
    /\ cut' = Ends
    /\ UNCHANGED <<caseVars, peer, pend, hand, how, owed, limVars>>

(* The copy has returned: SetDeadline(now) on the end it wrote to.         *)
Interrupt(d) ==
    /\ at[d] = "end" /\ Moves(d, "done")
    /\ readBy' = [readBy EXCEPT ![Dst(d)] = 0]
    /\ cut' = cut \cup {Dst(d)}
    /\ UNCHANGED <<caseVars, peer, pend, hand, how, owed, limVars>>

(* Pipe returns when both copies are through.                              *)
Returned == \A d \in Ends : at[d] = "done"

Less(n) == IF n = 0 THEN 0 ELSE n - 1

Tick ==
    /\ readBy' = [e \in Ends |-> IF readBy[e] = Never THEN Never ELSE Less(readBy[e])]
    /\ wake' = [d \in Ends |-> Less(wake[d])]
    /\ tokens' = IF tokens < Rate THEN tokens + 1 ELSE tokens
    /\ level' = Less(level)
    /\ UNCHANGED <<caseVars, peer, pend, cut, at, hand, how, owed>>

Copy(d) == StartRead(d) \/ EndRead(d) \/ Grant(d) \/ Write(d) \/ Interrupt(d)

PipeNext ==
    \/ Tick
    \/ \E d \in Ends : Copy(d) \/ Sends(d) \/ \E s \in {"eof", "gone"} : Closes(d, s)

PipeSpec == PipeInit /\ [][PipeNext]_pipeVars

(* Goroutines run on and time passes; a write ends at some time, because   *)
(* the peer reads or the system gives the connection up.  Peers need not   *)
(* send or close.                                                          *)
PipeFairSpec == PipeSpec /\ WF_pipeVars(Tick) /\ \A d \in Ends : WF_pipeVars(Copy(d))

-----------------------------------------------------------------------------
(* The type of every variable.                                             *)
PipeTypeOK ==
    /\ idle \in Idles /\ streams \in Streams
    /\ peer \in [Ends -> {"open", "eof", "gone"}] /\ pend \in [Ends -> 0 .. MaxPend]
    /\ readBy \in [Ends -> 0 .. Never] /\ cut \in SUBSET Ends
    /\ at \in [Ends -> {"read", "blocked", "wait", "write", "end", "done"}]
    /\ hand \in [Ends -> Sizes \cup {0}]
    /\ how \in [Ends -> {"no", "eof", "timeout", "error"}]
    /\ owed \in [Ends -> Nat]
    /\ tokens \in 0 .. Rate /\ wake \in [Ends -> 0 .. Rate] /\ level \in Nat

(***************************************************************************)
(* The limiter of a rule bounds both directions together: in any stretch   *)
(* of time what was let through is at most one second's quota more than    *)
(* the rate times the time, although waiters sleep without the lock and    *)
(* find others' units gone when they look again.                           *)
(***************************************************************************)
RateBound == Rate > 0 => level <= Rate

InHand(d) == IF hand[d] > 0 THEN 1 ELSE 0

(***************************************************************************)
(* What the end of one direction may do to the other (relay.go:28, 32): it *)
(* keeps it from reading more and takes nothing from it that it has read.  *)
(* Of the chunks a live peer sent, those that were neither delivered nor   *)
(* are in hand still wait to be read, unless a write found the other peer  *)
(* gone and ended the copy.  A direction is cut only by the end of the     *)
(* other or for want of data, and one that its sender closed has delivered *)
(* everything.                                                             *)
(***************************************************************************)
ReadIsDelivered ==
    \A d \in Ends :
        /\ peer[d] # "gone" /\ owed[d] # pend[d] + InHand(d)
           => how[d] = "error" /\ peer[Dst(d)] = "gone"
        /\ how[d] = "timeout" => idle > 0 \/ at[Dst(d)] = "done"
        /\ how[d] = "eof" => owed[d] = 0

Silent == \A e \in Ends : pend[e] = 0

(***************************************************************************)
(* relay.go: the end of one direction interrupts the other.  Without an    *)
(* idle timeout and between plain connections the pipe returns, whatever   *)
(* the peers send.  With one, or on a stream, an interrupt that finds the  *)
(* other goroutine in Wait or in a write is lost; the pipe still returns   *)
(* when the peers fall silent.                                             *)
(***************************************************************************)
EndPropagates ==
    (idle = 0 /\ streams = {}) \/ <>[]Silent => \A d \in Ends : at[d] = "done" ~> Returned
=============================================================================
