------------------------------- MODULE Client -------------------------------
(***************************************************************************)
(* The client's connection loop (client/client.go: Run, dialServer and     *)
(* serveOnce), the SOCKS5 proxy it opens for each session                  *)
(* (client/socks5.go) and the connections that live on a session: those of *)
(* the proxy and the visitors of a reverse TCP rule (handleTCP of          *)
(* client/reverse.go).                                                     *)
(*                                                                         *)
(* Time is counted in ticks of backoffStart.  A goroutine that can run     *)
(* does so before the next tick; within a tick every order is possible.    *)
(* Only a relay may outlast its session by any number of ticks.            *)
(* A finished session keeps its slot until its goroutines have ended, so   *)
(* that those of an old session run beside those of the next.              *)
(***************************************************************************)
EXTENDS FiniteSets, Naturals

CONSTANTS
    Slots,          \* sessions that still have a goroutine, 1 .. n
    UserConns,      \* connections to the proxy or a reverse rule
    DialTimeout, ReplyTimeout, BackoffMax,
    KeepAlive,      \* external: smux's keep-alive timeout
    MaxVisitors,    \* the reverse rule's max_conns; 0 is no limit
    MaxEvents       \* bound: what the outside does within one tick

ASSUME ClientAssumption ==
    /\ Slots \subseteq Nat \ {0} /\ IsFiniteSet(Slots) /\ IsFiniteSet(UserConns)
    /\ {DialTimeout, ReplyTimeout, BackoffMax, KeepAlive, MaxEvents} \subseteq Nat \ {0}
    /\ MaxVisitors \in Nat
    /\ Cardinality(UserConns) < Cardinality(Slots)

VARIABLES
    tls,        \* the configuration: TLS or no_tls
    net,        \* the way to the server: "up", "down" (it refuses) or "mute"
    stale,      \* nothing sent on the present connection is answered
    phase,      \* Run: "dial", "tls", "reply", "serve", "pause", "done"
    timer,      \* ticks until the phase's time is up
    age,        \* ticks since this attempt began
    backoff,
    cancelled,  \* ctx
    cur,        \* slot of the session being served, 0 for none
    sess,       \* per slot, the smux session: "open" or "closed"
    gone,       \* slots whose gone channel is closed, or not yet used
    socks,      \* per slot, startSocks5: "off", "starting", "listening" or "failed"
    conn,       \* connections: where they are, their slot, and if they came by the proxy
    cnt,        \* per slot, the reverse rule's connection count
    events,     \* what the outside did in this tick
    outage      \* history: ticks without a session though the server was up

loopVars == <<phase, timer, age, backoff, cur>>
sessVars == <<sess, gone, socks>>
clientVars == <<tls, net, stale, loopVars, cancelled, sessVars, conn, cnt, events, outage>>

Closed == [at |-> "none", of |-> 0, socks |-> FALSE]
Least(a, b) == IF a < b THEN a ELSE b
Greatest(a, b) == IF a < b THEN b ELSE a

(* The longest that Run takes to notice that its connection is dead.       *)
Notice == Greatest(KeepAlive, Greatest(DialTimeout, ReplyTimeout))

ClientInit ==
    /\ tls \in BOOLEAN
    /\ net = "up" /\ stale = FALSE
    /\ phase = "dial" /\ timer = DialTimeout /\ age = 0 /\ backoff = 1
    /\ cancelled = FALSE /\ cur = 0
    /\ sess = [k \in Slots |-> "closed"] /\ gone = Slots
    /\ socks = [k \in Slots |-> "off"]
    /\ conn = [c \in UserConns |-> Closed] /\ cnt = [k \in Slots |-> 0]
    /\ events = 0 /\ outage = 0

-----------------------------------------------------------------------------
(* Run: the end of an attempt, and the pause before the next one.          *)
AttemptEnds ==
    /\ cur' = 0
    /\ IF cancelled
       THEN phase' = "done" /\ UNCHANGED <<timer, backoff>>
       ELSE /\ backoff' = IF age > BackoffMax THEN 1 ELSE backoff
            /\ phase' = "pause" /\ timer' = backoff'
    /\ age' = 0

(* Mutant: the back-off is not capped.                                     *)
PauseOverUncapped ==
    /\ phase = "pause" /\ timer = 0
    /\ backoff' = Least(2 * backoff, 4 * BackoffMax)
    /\ phase' = "dial" /\ timer' = DialTimeout /\ age' = 0
    /\ stale' = (net = "mute")
    /\ UNCHANGED <<tls, net, cur, cancelled, sessVars, conn, cnt, events, outage>>

PauseOver ==
    /\ phase = "pause" /\ timer = 0
    /\ backoff' = Least(2 * backoff, BackoffMax)
    /\ phase' = "dial" /\ timer' = DialTimeout /\ age' = 0
    /\ stale' = (net = "mute")
    /\ UNCHANGED <<tls, net, cur, cancelled, sessVars, conn, cnt, events, outage>>

PauseCancelled ==
    /\ phase = "pause" /\ cancelled
    /\ phase' = "done"
    /\ UNCHANGED <<tls, net, stale, timer, age, backoff, cur, cancelled, sessVars, conn, cnt, events, outage>>

(* dialServer and the exchange of serveOnce.  DialTimeout bounds the       *)
(* dialling and a read deadline the reply; the handshake has no deadline   *)
(* and runs under context.Background().                                    *)
Enter(p, t) == phase' = p /\ timer' = t /\ UNCHANGED <<age, backoff, cur>>

Answered(p) ==
    /\ phase = p /\ ~stale
    /\ UNCHANGED <<tls, net, stale, cancelled, sessVars, conn, cnt, events, outage>>

Dialled ==
    /\ Answered("dial")
    /\ IF tls THEN Enter("tls", 0) ELSE Enter("reply", ReplyTimeout)

HandshakeDone ==
    /\ Answered("tls")
    /\ Enter("reply", ReplyTimeout)

(* The dial is refused, the handshake or the fingerprint fails, the reply  *)
(* says no, or the time for it is up.                                      *)
AttemptFails ==
    /\ phase \in {"dial", "tls", "reply"}
    /\ \/ net = "down" /\ ~stale
       \/ phase # "tls" /\ timer = 0
    /\ AttemptEnds
    /\ UNCHANGED <<tls, net, stale, cancelled, sessVars, conn, cnt, events, outage>>

(* A handshake nobody answers ends if the kernel gives the connection up.  *)
HandshakeBroken ==
    /\ phase = "tls" /\ stale
    /\ AttemptEnds
    /\ UNCHANGED <<tls, net, stale, cancelled, sessVars, conn, cnt, events, outage>>

Idle(k) ==
    /\ sess[k] # "open" /\ cur # k /\ socks[k] \in {"off", "failed"}
    /\ \A c \in UserConns : conn[c].of # k

Authenticated ==
    /\ phase = "reply" /\ ~stale /\ net = "up"
    /\ \E k \in Slots :
        /\ Idle(k) /\ \A j \in Slots : Idle(j) => k <= j
        /\ cur' = k
        /\ sess' = [sess EXCEPT ![k] = "open"]
        /\ gone' = gone \ {k}
        /\ socks' = [socks EXCEPT ![k] = "starting"]
        /\ cnt' = [cnt EXCEPT ![k] = 0]
    /\ phase' = "serve" /\ timer' = KeepAlive /\ outage' = 0
    /\ UNCHANGED <<tls, net, stale, age, backoff, cancelled, conn, events>>

(* External: smux closes a session that has heard nothing for KeepAlive.   *)
SessionLost ==
    /\ phase = "serve" /\ stale /\ timer = 0 /\ sess[cur] = "open"
    /\ sess' = [sess EXCEPT ![cur] = "closed"]
    /\ UNCHANGED <<tls, net, stale, loopVars, cancelled, gone, socks, conn, cnt, events, outage>>

(* Mutant: nobody watches ctx during a session.                            *)
CtxIgnored(k) == FALSE

(* The goroutine that closes the session when ctx ends.                    *)
CtxEnded(k) == cancelled /\ k \notin gone /\ sess[k] = "open"

CtxCloses(k) ==
    /\ CtxEnded(k)
    /\ sess' = [sess EXCEPT ![k] = "closed"]
    /\ UNCHANGED <<tls, net, stale, loopVars, cancelled, gone, socks, conn, cnt, events, outage>>

(* Mutant: gone is left open.                                              *)
ServeReturnsNotGone ==
    /\ phase = "serve" /\ sess[cur] = "closed"
    /\ AttemptEnds
    /\ UNCHANGED <<tls, net, stale, cancelled, sessVars, conn, cnt, events, outage>>

(* AcceptStream fails: close(gone), sess.Close, conn.Close, and back in    *)
(* Run.                                                                    *)
ServeReturns ==
    /\ phase = "serve" /\ sess[cur] = "closed"
    /\ gone' = gone \cup {cur}
    /\ AttemptEnds
    /\ UNCHANGED <<tls, net, stale, cancelled, sess, socks, conn, cnt, events, outage>>

-----------------------------------------------------------------------------
(* startSocks5: net.Listen fails while an earlier session's listener has   *)
(* the address, and is not tried again.                                    *)
SocksListen(k) ==
    /\ socks[k] = "starting"
    /\ socks' = [socks EXCEPT ![k] =
                    IF \E j \in Slots : socks[j] = "listening" THEN "failed" ELSE "listening"]
    /\ UNCHANGED <<tls, net, stale, loopVars, cancelled, sess, gone, conn, cnt, events, outage>>

SocksCloses(k) ==
    /\ socks[k] = "listening" /\ k \in gone
    /\ socks' = [socks EXCEPT ![k] = "off"]
    /\ UNCHANGED <<tls, net, stale, loopVars, cancelled, sess, gone, conn, cnt, events, outage>>

(* handleSocks: the greeting and request within 30 seconds, then a stream. *)
Move(c, s) == conn' = [conn EXCEPT ![c].at = s]

GreetingFails(c) ==
    /\ conn[c].at = "greet"
    /\ conn' = [conn EXCEPT ![c] = Closed]
    /\ UNCHANGED <<tls, net, stale, loopVars, cancelled, sessVars, cnt, events, outage>>

(* handleTCP: the count goes up before it is looked at.                    *)
Leaves(c) ==
    /\ conn' = [conn EXCEPT ![c] = Closed]
    /\ cnt' = IF conn[c].socks THEN cnt ELSE [cnt EXCEPT ![conn[c].of] = @ - 1]

(* Mutant: a refused visitor stays counted.                                *)
AdmitKeepsCount(c) ==
    /\ conn[c].at = "counted"
    /\ IF MaxVisitors > 0 /\ cnt[conn[c].of] > MaxVisitors
       THEN conn' = [conn EXCEPT ![c] = Closed]
       ELSE Move(c, "opening")
    /\ UNCHANGED <<tls, net, stale, loopVars, cancelled, sessVars, cnt, events, outage>>

Admit(c) ==
    /\ conn[c].at = "counted"
    /\ IF MaxVisitors > 0 /\ cnt[conn[c].of] > MaxVisitors
       THEN Leaves(c)
       ELSE Move(c, "opening") /\ UNCHANGED cnt
    /\ UNCHANGED <<tls, net, stale, loopVars, cancelled, sessVars, events, outage>>

(* A stream on this manager's own session and its header; without one the  *)
(* connection is closed.                                                   *)
Open(c) ==
    /\ conn[c].at = "opening"
    /\ IF sess[conn[c].of] = "open"
       THEN Move(c, "relay") /\ UNCHANGED cnt
       ELSE Leaves(c)
    /\ UNCHANGED <<tls, net, stale, loopVars, cancelled, sessVars, events, outage>>

openSocks(c) == conn[c].socks /\ Open(c)
openReverse(c) == ~conn[c].socks /\ Open(c)

(* Mutant: a proxy's relay does not end with its session.                  *)
CutOffTcpOnly(c) == conn[c].at = "relay" /\ sess[conn[c].of] = "closed" /\ ~conn[c].socks

(* The session is gone under a relay.  The read from its stream ends at    *)
(* once; the other copy only when the user sends or closes, the idle time  *)
(* is up, or a write to a user who does not read ends (Pipe.tla).          *)
CutOff(c) == conn[c].at = "relay" /\ sess[conn[c].of] = "closed"

RelayCut(c) ==
    /\ CutOff(c) /\ Leaves(c)
    /\ UNCHANGED <<tls, net, stale, loopVars, cancelled, sessVars, events, outage>>

-----------------------------------------------------------------------------
(* The outside: the network, the users of the proxy, the rule's visitors.  *)
Event == events < MaxEvents /\ events' = events + 1

(* Silence loses what is under way; when it ends, the connection may carry *)
(* on or never be answered again.                                          *)
NetChanges(n) ==
    /\ Event /\ n # net /\ net' = n
    /\ stale' \in IF n = "mute" THEN {TRUE} ELSE IF net = "mute" THEN BOOLEAN ELSE {stale}
    /\ timer' = IF phase = "serve" /\ ~stale THEN KeepAlive ELSE timer
    /\ outage' = 0
    /\ UNCHANGED <<tls, phase, age, backoff, cur, cancelled, sessVars, conn, cnt>>

(* The server ends the session, or its connection is reset.                *)
SessionCut ==
    /\ Event /\ phase = "serve" /\ ~stale /\ sess[cur] = "open"
    /\ sess' = [sess EXCEPT ![cur] = "closed"]
    /\ UNCHANGED <<tls, net, stale, loopVars, cancelled, gone, socks, conn, cnt, outage>>

Cancel ==
    /\ ~cancelled /\ cancelled' = TRUE
    /\ UNCHANGED <<tls, net, stale, loopVars, sessVars, conn, cnt, events, outage>>

SocksAccept(c, k) ==
    /\ Event /\ conn[c] = Closed /\ socks[k] = "listening"
    /\ conn' = [conn EXCEPT ![c] = [at |-> "greet", of |-> k, socks |-> TRUE]]
    /\ UNCHANGED <<tls, net, stale, loopVars, cancelled, sessVars, cnt, outage>>

Greeted(c) ==
    /\ Event /\ conn[c].at = "greet"
    /\ Move(c, "opening")
    /\ UNCHANGED <<tls, net, stale, loopVars, cancelled, sessVars, cnt, outage>>

(* A visitor the ACL lets in; the rule's listener is RuleSync's.           *)
VisitorArrives(c, k) ==
    /\ Event /\ conn[c] = Closed /\ cur = k
    /\ conn' = [conn EXCEPT ![c] = [at |-> "counted", of |-> k, socks |-> FALSE]]
    /\ cnt' = [cnt EXCEPT ![k] = @ + 1]
    /\ UNCHANGED <<tls, net, stale, loopVars, cancelled, sessVars, outage>>

RelayEnds(c) ==
    /\ Event /\ conn[c].at = "relay"
    /\ Leaves(c)
    /\ UNCHANGED <<tls, net, stale, loopVars, cancelled, sessVars, outage>>

-----------------------------------------------------------------------------
(* What a goroutine does without waiting for the outside or for time, ...  *)
Soon ==
    \/ PauseOver \/ PauseCancelled \/ Dialled \/ HandshakeDone \/ AttemptFails
    \/ Authenticated \/ SessionLost \/ ServeReturns
    \/ \E k \in Slots : CtxCloses(k) \/ SocksListen(k) \/ SocksCloses(k)
    \/ \E c \in UserConns : Admit(c) \/ openSocks(c) \/ openReverse(c)

(* ... and that one can: Soon is enabled.                                  *)
Pending ==
    \/ phase = "pause" /\ (timer = 0 \/ cancelled)
    \/ phase \in {"dial", "tls"} /\ ~stale
    \/ phase \in {"dial", "reply"} /\ timer = 0
    \/ phase = "reply" /\ ~stale /\ net = "down"
    \/ phase = "reply" /\ ~stale /\ net = "up" /\ \E k \in Slots : Idle(k)
    \/ phase = "serve" /\ (sess[cur] = "closed" \/ (stale /\ timer = 0))
    \/ \E k \in Slots : CtxEnded(k) \/ socks[k] = "starting" \/ (socks[k] = "listening" /\ k \in gone)
    \/ \E c \in UserConns : conn[c].at \in {"counted", "opening"}

Served == phase = "serve" /\ ~stale /\ sess[cur] = "open"

(* In a handshake, which nothing bounds, outage starts anew at zero.       *)
ClientTick ==
    /\ ~Pending
    /\ timer' = IF timer = 0 \/ Served THEN timer ELSE timer - 1
    /\ age' = IF phase \in {"pause", "done"} THEN 0 ELSE Least(age + 1, BackoffMax + 1)
    /\ events' = 0
    /\ outage' = IF net # "up" \/ Served \/ cancelled \/ phase = "tls" THEN 0
                 ELSE Least(outage + 1, Notice + BackoffMax + 1)
    /\ UNCHANGED <<tls, net, stale, phase, backoff, cur, cancelled, sessVars, conn, cnt>>

ClientNext ==
    \/ Soon \/ ClientTick \/ HandshakeBroken \/ SessionCut \/ Cancel
    \/ \E n \in {"up", "down", "mute"} : NetChanges(n)
    \/ \E c \in UserConns : Greeted(c) \/ GreetingFails(c) \/ RelayEnds(c) \/ RelayCut(c)
    \/ \E c \in UserConns, k \in Slots : SocksAccept(c, k) \/ VisitorArrives(c, k)

ClientSpec == ClientInit /\ [][ClientNext]_clientVars

(* Time goes on, goroutines run, the deadline of a greeting passes, and a  *)
(* relay whose session is gone ends some time: its read is interrupted or  *)
(* meets its idle deadline, and a write to its user ends at some time.     *)
Fairness ==
    /\ WF_clientVars(Soon) /\ WF_clientVars(ClientTick)
    /\ \A c \in UserConns : WF_clientVars(GreetingFails(c) \/ RelayCut(c))

ClientFairSpec == ClientSpec /\ Fairness

-----------------------------------------------------------------------------
(* The type of every variable.                                             *)
ClientTypeOK ==
    /\ tls \in BOOLEAN /\ net \in {"up", "down", "mute"} /\ stale \in BOOLEAN
    /\ phase \in {"dial", "tls", "reply", "serve", "pause", "done"}
    /\ timer \in Nat /\ age \in 0 .. BackoffMax + 1 /\ backoff \in 1 .. BackoffMax
    /\ cancelled \in BOOLEAN
    /\ cur \in Slots \cup {0} /\ gone \in SUBSET Slots
    /\ sess \in [Slots -> {"open", "closed"}]
    /\ socks \in [Slots -> {"off", "starting", "listening", "failed"}]
    /\ conn \in [UserConns -> [at : {"none", "greet", "counted", "opening", "relay"},
                               of : Slots \cup {0}, socks : BOOLEAN]]
    /\ cnt \in [Slots -> Nat]
    /\ events \in 0 .. MaxEvents /\ outage \in Nat

(* Once the server can be reached again, Run has a session within the time *)
(* it takes to notice that its present connection is dead and one full     *)
(* back-off.  A TLS handshake is excepted: the time counts from its end,   *)
(* and against a server that says nothing it has none.                     *)
RecoversWithin == outage <= Notice + BackoffMax

(* The proxy's listener is closed with its session and opened again with   *)
(* the next (socks5.go): no session goes without a proxy because the one   *)
(* before still holds the address.                                         *)
SocksReopens == \A k \in Slots : socks[k] # "failed"

(* A reverse rule counts exactly the visitors it handles, on every way out *)
(* of handleTCP, and no more than max_conns of them are relayed.           *)
VisitorsExact ==
    \A k \in Slots : LET here == {c \in UserConns : conn[c].of = k /\ ~conn[c].socks} IN
        /\ cnt[k] = Cardinality(here)
        /\ MaxVisitors > 0 => Cardinality({c \in here : conn[c].at # "counted"}) <= MaxVisitors

(* When ctx is cancelled, Run returns, whatever the server does, unless it *)
(* hangs in a TLS handshake for good.                                      *)
CancelEnds == <>cancelled => <>(phase = "done") \/ <>[](phase = "tls")

(* Nothing outlives its session for good: its proxy listener closes, and   *)
(* each of its connections ends, in whatever session the client is by      *)
(* then.  Reverse rules' listeners are RuleSync's.                         *)
SessionReleased ==
    /\ []<>(\A k \in gone : socks[k] # "listening")
    /\ \A c \in UserConns : []<>(conn[c].of \notin gone)
=============================================================================
