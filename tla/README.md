# Verification of caochuan

caochuan is a port forwarder: a public server listens on ports and forwards
them to targets it reaches itself (forward rules) or through a tunnel to a
client (tunnelled rules); reverse rules listen at the client and reach targets
through the server. A web panel changes rules, clients and settings while
everything runs. This directory holds TLA+ models of the parts of caochuan
where goroutines, failures and ordering matter, TLC configurations that check
them on small instances, and TLAPS proofs of the main safety properties.

## The system

| part | state | operations | interacts with |
|---|---|---|---|
| rule store (`server/state.go`, `server/server.go`, `config`) | `s.cfg`, the file on disk, `s.runners` | add, edit, delete, enable, import rules; add, delete clients; `applyRulesLocked`; start, shutdown | listeners (starts and stops them), tunnel (kicks), synchronisation (broadcast) |
| tunnel (`server/server.go`) | `s.clients`, `s.authFails` | `handleTunnel`, `authToken`, `recordAuthFail`, sweep, clean-up | store (tokens), synchronisation (one control stream per session) |
| reverse rule synchronisation (`server/reverse.go`, `client/reverse.go`) | `cc.cs`, the control stream, `m.rules`, `m.tcpLns`, `m.udpConns` | `broadcastRules`, `pushRulesTo`, `setupControl`; at the client `handleControl`, `apply`, `start`, `stopAll`, `report` | tunnel sessions, store |
| TCP listener (`server/forward.go`) | compiled blacklist and its version, `st.Conns` | `acceptTCP`, `visitorAllowed`, `handleTCP` | store (blacklist, stop) |
| UDP relays (`server/forward.go`) | visitor or backend table, tunnel stream, `st.Conns` | `udpLocalRelay`, `udpTunnelRelay` | store (stop), tunnel (streams) |
| UDP stream backends (`server/reverse.go`, `client/client.go`) | socket per connection ID, `st.Conns` | `udpBackendFromStream`, `handleUDPStream` | the relay at the other end of the stream |
| client (`client/`) | session, reverse manager, SOCKS5 listener, UDP visitor table, connection count | `Run`, `serveOnce`, `startSocks5`, `handleSocks`, `handleTCP`, `udpRelay` | tunnel, synchronisation |
| pipe, limiter, PROXY header (`relay/`) | tokens, deadlines | copy, wait | all TCP and UDP paths |
| panel (`panel/panel.go`, settings in `server/state.go`) | login failures, cookies, password, lists | `handleLogin`, `auth`, `SetPassword`, `SetIPWhitelist`, `SetIPBlacklist`, `ImportConfig` | store |
| probes, notifications, history, logs | last results, samples, files | periodic goroutines | store (read-mostly) |

What is hard here: one lock (`s.mu`) is released between a change and its
broadcast, and not held while a token is turned into a session; listeners copy
their rule; sockets are registered after they are opened and closed after they
are removed; counters are added to before they are compared; every relay has a
reader goroutine that outlives the loop that started it. `PROJECT.json` lists
these places under `hazards`, each with the properties aimed at it.

## Modules

| module | models | abstract about it |
|---|---|---|
| `RuleStore` | panel operations, save and roll-back, `applyRulesLocked` one rule at a time, crash, shutdown, restart | a rule is a form (side, protocol, port, target, client, other options, valid fields) and `Enabled`; `fields` stands for all checks of `validateRule` that look at one field |
| `RuleSync` | control stream of successive sessions of one client, pushes of concurrent panel requests, start goroutines and status reports | a frame is the header or a rule set; the streams are FIFO |
| `Tunnel` | every connection from accept to clean-up, failure records and locks, clients added, deleted, imported | time in ticks; TLS, deadline and read errors are one failure |
| `TcpForward` | one accept loop, its visitors' handlers, the panel's blacklist operations | the pipe is one step that ends some time |
| `UdpTunnel` | `udpTunnelRelay`: section under `mu`, `ensure`, write, reader, stop | a visitor passed the source checks; the client is online or not |
| `UdpLocal` | `udpLocalRelay`: limit check, `getBackend`, readers, stop | as above; the limiter is a pause |
| `UdpBackends` | the far end of a UDP stream, at the server and at the client (same control) | a packet is its connection ID |
| `UdpReverse` | a reverse UDP rule from end to end: `udpRelay` of the client, the stream, and `UdpBackends` at the server, which it extends | a packet is its connection ID and, as history, its sender; idleness of a visitor is a set |
| `UdpService` | abstract: what a UDP rule promises its visitors | implemented by `UdpTunnel` and `UdpReverse` |
| `Panel` | `handleLogin`, `handleLogout`, `auth`, `IPAllowed`, failure records, cookies, and the operations on password and lists | a request carries an address and a password; cookies cannot be forged; a save succeeds or fails |
| `Pipe` | `relay.Pipe`, its reader and writer, `Limiter.Wait` | a chunk is its size; one tick earns the bucket one unit |
| `Client` | `Run`, `dialServer`, `serveOnce`, the SOCKS5 proxy, and connections on a session (`handleSocks`, `handleTCP`) | time in ticks of `backoffStart`; the network is up, refusing or silent; the SOCKS handshake is one event |
| `*Proofs` | theorems about the module of that name; `UdpReverseProofs` also has those about `UdpBackends`, `TcpForwardProofs` those about `Pipe`, which `handleTCP` runs, and `TunnelProofs` those about `Client`, the other end of a tunnel | |
| `MC_*` | constants for TLC | |

Each action is one section under a lock, or one step between two points where
another goroutine can be seen to act. Definitions carry the names of the
functions they model where there is one; `map` in `PROJECT.json` gives the
lines. Operators introduced by a comment "Mutant:" are plausible wrong versions
of the definition below them. They are used by nothing in the specifications:
substituted for that definition, they make the property named in `mutants`
fail, which shows that the property depends on this part of the code.

Points of the models that are worth knowing:

- **RuleStore.** `Save` is atomic (temporary file and rename) when the process is
  killed; the file is not synced, so nothing is said of a power failure. The
  panel is started before `Run` applies the loaded rules, and an operation may
  come first (`fresh`). A handler that
  panics is recovered by `net/http`; a second `stop()` of a UDP runner (a closed
  channel closed again) therefore leaves `s.mu` locked, phase `"stuck"`. The
  shutdown loop of `Run` works on the map it saw, without the lock. A panic of
  `Run` itself there is covered by `Crash`. IDs may be used again after a
  deletion, which the code's random IDs make unlikely. Duplicate IDs inside one
  import are not modelled.
- **RuleSync.** The variable `prompt`, chosen at the start, is a timing
  assumption on which only `Converges` rests: no two pushes overlap between
  their snapshot and their write (or, in `setupControl`, between publishing
  `cc.cs` and the first push), and a client that lost its session (at least 1 s
  of back-off) finds the goroutines of the old one at an end. Starts, stops,
  pushes and the end of the session meet in any order with and without it.
  `crossed` is history: the rules of a session of which a stop (`stopLocked` or
  `stopAll`) overtook a start goroutine. The server may refuse the stream of a
  UDP relay (`StreamRefused`: its header came after 30 s, or the rule has no
  target). A push above 64 KB is not modelled.
- **Tunnel.** The source checks, the token, the clearing of the record, the
  reply and the registration are separate steps of each connection.
- **TcpForward.** `st.Conns` is per rule ID and survives a restart of the rule;
  the model has one running rule.
- **UdpTunnel.** Opening a stream may fail at any time. The reader of a stream
  that failed gives it up in one step and closes it in another. An answer is
  delivered in the step that looks its visitor up; the write that follows
  without the lock goes to the address found. IDs are bounded by
  `MaxIds`; the code's 32-bit counter does not wrap in any reachable time.
- **UdpLocal, UdpBackends.** `MaxSocks` bounds the sockets dialled; a dial may
  fail at any time.
- **UdpReverse.** The stream holds at most `MaxQueue` packets each way; a
  session that breaks loses any suffix of what is under way. Neither sockets
  nor connection IDs are used again while the loop runs. `AtRest` says of each
  goroutine what it waits for; TLC found it to be what `~ENABLED` of their
  actions says, in every state of an instance.
- **Panel.** `IPAllowed` has two sections of `s.mu`, a login five steps. `ban`
  and `extra` are history: the time since a lock was set and the wrong
  passwords checked in it. `p.NoAuth` is read at the start of the program only.
  A cookie is not bound to a password, so changing it ends no session. A restart
  makes up a new password when the file holds an empty one (`Loaded`), which
  only an import can bring. A successful login and a restart reset the history.
- **Pipe.** The two kinds of connection differ in what a passed deadline does:
  a TCP connection reads nothing more, a smux stream first gives out what it
  has. `level` is history: what was let through, draining at the rate.
- **Client.** A goroutine that can run does so before the next tick, so a
  pause of at least one tick lets the goroutines of an ended session finish;
  within a tick every order is possible. Only relays may outlast their session
  by any time (`RelayCut`): an idle timeout may set its deadline over the
  interrupting one, and a write to a user who does not read goes on.
  `Pending` says when one can run, that
  is when `Soon` is enabled; it is written out because proofs cannot use
  `ENABLED`, and TLC found the two to agree on the constants of the run and on a
  larger instance. `outage` is history: ticks without a session while the server
  was up; it starts anew while a TLS handshake is unanswered. The dial and the reply have their time, the
  TLS handshake has none. Reverse rules' listeners are `RuleSync`'s; here a
  visitor may come at any time while its session is being served. There are more
  slots than connections, since the code puts no bound on the sessions whose
  goroutines are still about.

### The abstract UDP service

`UdpService` has the visitors that hold a place and the answer the last step
gave out. A visitor enters when the limit allows, places are given up at any
time, and an answer goes to the visitor that asked, while it holds a place.
`UdpTunnel` maps its visitor table to the places and pairs each answer with the
address its connection ID was given to; `UdpReverse` does so with the client's
table and follows each packet's sender through the stream, the server's socket
and back. The abstract specification is checked as a property of both, so a
connection ID that is used again too early, a sweep that counts wrongly or a
socket that ends up under another ID is a step the service does not have.

## Runs

Deadlock is checked in `client_loop`, where time always goes on. Elsewhere it is
not: with a bounded number of operations, sessions or sockets the models end in
states where nothing is left to do, and a pipe ends.

| run | bounds | shows |
|---|---|---|
| `rule_store` | 2 rule IDs, 9 forms on 2 free ports and a taken one, 2 clients, 5 imports without a clash in themselves, 5 operations, before or after the first apply, 2 crashes or shutdowns | `PortsUnique`, `EnabledRulesRun` (with no operation in flight every enabled rule whose port no other program holds listens, unless the last change was an import), `RunnersMatchConfig`, `RefsValid`, `LiveRulesDurable`, `StuckOnlyInShutdown`, `RulesComeBack` |
| `rule_sync` | 1 rule that comes, goes, changes protocol or meets a taken port; 2 sessions, 1 change; 4 starts, or 2 when every interleaving is allowed | `NoPushMissed`, `ListenersAgree`, `SessionEndCleans` in every interleaving (the latter and the second half of `ListenersAgree` for the rules of which no stop overtook a start); `Converges` under `prompt` |
| `tunnel_server` | 1 name, 2 tokens, 2 sources, 3 connections, locks after 2 failures, 2 ticks, 2 operations | `RegistryAgrees`, `LocksLast`, `RemovalKicks` |
| `tcp_forward_rule` | 2 visitors from 3 kinds of source, limit 1, 2 blacklist operations | `BlacklistEnforced`, `ConnsExact`, `WithinLimit`, `QueuedAreDecided` |
| `udp_tunnel_relay` | 3 visitors, limit 2, sweep every 2 packets, expiry after a tick, 4 IDs, 2 streams | `TunnelIsService`, `OneStream`, `KnownReleaseIdle` |
| `udp_reverse` | 3 visitors (symmetric), limit 2, 3 IDs, a sweep at every packet, 2 sockets, 1 packet under way each way | `ReverseIsService`, `TableIsOpen`, `ConnsExact`, `NoLeftovers` |
| `udp_local_relay` | 3 visitors, limit 2, 3 sockets | `TableBounded`, `EntryIsOwn`, `ConnsExact`, `StopReleasesAll` |
| `panel_login` | 1 address shared by the administrator and another, 2 passwords and the empty one, which an import may bring, locks of 2 ticks after 2 failures, 1 restart | `FewGuessesWhileLocked`, `SettingsDurable`, `RightPasswordGetsIn` |
| `pipe_relay` | idle timeout 0 or 2, both ends connections or one a stream, chunks of 1 and 2 at rate 2 | `RateBound`, `ReadIsDelivered`, `EndPropagates` |
| `client_loop` | 3 sessions that still have goroutines, 2 connections, back-off 1 to 2, timeouts of 1, 2 outside events per tick, with TLS and without | `RecoversWithin`, `SocksReopens`, `VisitorsExact`, `CancelEnds`, `SessionReleased` |
| `tcp_forward_import` | 1 visitor, 1 import | violated: `BlacklistEnforced` when an import brings a blacklist |
| `udp_tunnel_full` | 2 visitors, limit 1 | violated: `IdleIsReleased` |

The bounds are the smallest at which each race has all its parties: two rules
competing for a port, a session replaced by another while a third fails, a
visitor more than the limit, a socket dialled anew while the old one is being
given up, a login under way when another locks the address, an old session's
goroutines beside those of the next. `panel_login` has no loopback or own
address: those only skip the list checks. The theorems below remove most of the
bounds for the safety properties.

### Fairness

- `RuleStore`: `applyRulesLocked` and the shutdown loop go on, `Run` gets `s.mu`
  when the panel leaves it, and the process is started again (the service
  manager of `deploy/`).
- `RuleSync`: as long as some goroutine can run, the client's reconnect loop
  (`Client.Run`) can connect, or the end of a session has not reached the other
  side (smux keep-alive), one such step is taken (`Progress`); which one is left
  open. Panel operations, ends of sessions and refused streams are not forced.
- `TcpForward`: the accept loop and the handlers go on and a save ends. No pipe
  is forced to end.
- `UdpTunnel`: the loop and the clean-up go on, time passes, and one visitor
  (`Knocker`) keeps sending. The sweep is driven by packets, so nothing can be
  promised without one.
- `UdpLocal`: goroutines go on; a reader is only sure to stop once `up` is
  closed, since its next answer fails there and silence ends it after 90 s.
- `Panel`: handlers go on, time passes, and the administrator asks again while
  there is no session. Nobody else need do anything.
- `Pipe`: the two goroutines go on and time passes; a write ends some time. No
  peer need send or close.
- `Client`: goroutines go on, time passes, the 30 s deadline of a SOCKS
  handshake fires, and a relay whose session is closed ends some time: its write
  to a user who has stopped reading is assumed to end, as in `Pipe`, although
  the code sets no deadline for it. The network owes nothing: it may change for ever, and a
  handshake may hang.

`UdpReverse` states no fairness: `NoLeftovers` is about the states in which no
goroutine can go on.

## Where code and documents disagree

Two disagreements are runs with a finding each: a blacklist that an import
changes without raising the version, and a full UDP table that its own limit
check keeps from being swept. The models show others, which no run asserts:

- A start that is under way when its rule is stopped, by a push or by the end of
  the session, registers its listener afterwards (`client/reverse.go:153`), and
  nobody closes it until the program ends; docs/04:87 says that rules that are
  gone are stopped and that the end of a session cleans up everything.
  `SessionEndCleans` and `ListenersAgree` hold for every rule of which no stop
  overtook a start, so this is the only way to leave a listener behind.
- docs/04:116 says that UDP visitors never expire and the table grows with the
  number of addresses; docs/04:102 and the code (`forward.go:386`) drop them
  after 90 s idle. The models follow the code.
- A target of separators only (`,`) passes `validateRule`. For a reverse UDP rule
  the server then gives the stream up at once (`server/reverse.go:69`) and the
  client closes the socket, while the panel has been told that the rule listens
  (`Refused` in `Converged`).
- The end of one direction of a pipe sets a deadline for the other one as well,
  `relay.go:28`, so what a half-closed connection's peer still sends and the
  other direction has not read is given up. `ReadIsDelivered` says that nothing
  that was read is lost, and that a direction its sender closed delivers
  everything.
- The end of one direction of a pipe does not always interrupt the other
  (`relay.go:1` says it does): with an idle timeout the reader sets its own
  deadline over the interrupting one (`relay.go:64`), and a smux stream gives out
  what it has before it looks at its deadline. `EndPropagates` has the
  conditions under which it does. Each direction has its own idle deadline, so
  traffic in one direction only is cut as well (`relay.go:23` says so; docs/03:27
  speaks of a connection without data).
- The TLS handshake of the client has no deadline and ignores `ctx`
  (`client.go:82`): against a server that accepts and says nothing, the client
  neither reconnects nor stops. `RecoversWithin` and `CancelEnds` except it.
- `max_conns` of a reverse TCP rule is counted per start (`client/reverse.go:143`):
  after an edit or a reconnect the connections of the old start count no more.
- `DeleteRule`, `AddClient` and `DeleteClient` do not roll back when the save
  fails (`state.go:232`, `296`, `313`): a deleted rule returns at the next
  restart. `LiveRulesDurable` is the direction that holds. docs/02:85 says that
  every change is on disk at once.
- `sameAs` (`server.go:54`; likewise `client/reverse.go:97`) ignores everything
  but protocol, port, target and client: an edit of `allow_from`, `max_conns`,
  `max_mbps` or the PROXY protocol is saved and not applied. docs/03:39 says
  that edits take effect at once. `RunnersMatchConfig` is stated with `sameAs`.
- `ImportConfig` never calls `portConflict` (`state.go:408`), and
  `applyRulesLocked` starts listeners before it stops the old ones
  (`server.go:339`), so an imported rule on a port in use stays down until the
  next operation. `PortsUnique` and `EnabledRulesRun` are for stores without
  imports (the theorem: without imports that clash).
- `setupControl` publishes `cc.cs` before the header (`reverse.go:148`), and two
  pushes may be written in the wrong order (`reverse.go:200`): `Converges` holds
  under `prompt` only.
- A client deleted between `authToken` and its registration stays online
  (`server.go:266`). `RemovalKicks` is what holds.
- A packet in the loop's hands when a UDP rule is stopped opens a stream that
  nobody closes (`forward.go:399`) or a socket that lives for up to 90 s
  (`forward.go:229`), and a stopped tunnelled relay keeps its sessions counted
  (`forward.go:356`).
- After a failed write the old reader may delete the entry of the new socket
  (`client.go:275`, `reverse.go:121`), which then escapes `closeAll` and lives
  until its target is silent. `TableIsOpen` and `NoLeftovers` are what holds.

## Proofs

Every theorem is for all values of the constants that satisfy the named
assumptions of the module; the bounds are constants too, so they are arbitrary
natural numbers.

| theorem | statement | why it holds |
|---|---|---|
| `StoreTypeCorrect` | `[]TypeOK` | inductive |
| `StoreRefsValid` | `[]RefsValid` | inductive with the type; an import is validated against its own clients |
| `StoreLiveRulesDurable` | `[]LiveRulesDurable` | inductive: a rule enters memory together with its save or is rolled back |
| `StorePortsUnique` | `[]PortsUnique`, if no import clashes | `Compete` is symmetric, so one check against all others is enough |
| `StoreRunnersMatchConfig`, `StoreStuckOnlyInShutdown` | `[]RunnersMatchConfig`, `[]StuckOnlyInShutdown` | strengthened to all phases: rules `applyRulesLocked` has visited match, those to do may not, and outside shutdown no runner is stopped and still in the map |
| `StoreEnabledRulesRun` | `[]EnabledRulesRun`, if no import clashes with itself | `NoClash`: one operation changes one rule and ports stay unique, so no runner of the old configuration holds the port of another rule of the new one, in whatever order the rules are visited |
| `SyncTypeCorrect` | `[]TypeOK` | needs `HeaderOnce`: the header is in the stream at most once and never behind the first frame the control handler reads, so `apply` is given rule sets only |
| `SyncNoPushMissed` | `[]NoPushMissed` | `Covered`: once `cc.cs` is set, the rules in force were written to the stream, or a pusher carries them: it has still to read them, or has read these and not yet written |
| `SyncRegisteredIsOpen` | `[]RegisteredIsOpen`, in every interleaving | `EntriesMatch`: an entry names a goroutine of its session, protocol and ID that is past `reg`; with it, `stopLocked` closes no stranger's socket |
| `SyncListenersAgree`, `SyncSessionEndCleans` | `[]ListenersAgree`, `[]SessionEndCleans`, in every interleaving | `AgreeInv`, for the rules not in `crossed`: a goroutine in flight has its rule in `m.rules`; a rule has one goroutine that is in flight or holds a socket; a socket that is through is registered, so `apply` and `stopAll` find it; a stop that finds one in flight puts its rule into `crossed` |
| `ForwardTypeCorrect`, `ForwardConnsExact`, `ForwardWithinLimit` | `[]TypeOK`, `[]ConnsExact`, `[]WithinLimit` | together: whoever passes the check was counted, and so was everybody it could compete with |
| `ForwardBlacklistEnforced` | `[]BlacklistEnforced`, if imports bring no blacklist | the list in force is contained in the compiled one whenever the loop believes in the current version, and the list is raised and read under one lock |
| `TunnelTypeCorrect`, `TunnelRegistryAgrees` | `[]TypeOK`, `[]RegistryAgrees` | the two directions are inductive together |
| `TunnelLocksLast` | `LocksLast` | no lock reaches further than `BlockFor` from now, so a new lock never ends earlier |
| `TunnelRemovalKicks` | `RemovalKicks` | the kick goes through `s.clients`, which holds every live session |
| `LocalTypeCorrect`, `LocalConnsExact` | `[]TypeOK`, `[]ConnsExact` | a socket that was never dialled has no reader |
| `LocalEntryIsOwn` | `[]EntryIsOwn` | with its converse: an entry has a reader that will delete it |
| `LocalTableBounded` | `[]TableBounded` | strengthened by `Room`: what the limit check saw is outdated only on the safe side |
| `BackendsTypeCorrect`, `BackendsConnsExact` | `[]TypeOK`, `[]ConnsExact` of `UdpBackends` | as for `UdpLocal` |
| `BackendsTableIsOpen` | `[]TableIsOpen` of `UdpBackends` | the socket the loop is about to close has no entry any more, and a reader that closes its socket has deleted its entry |
| `ReverseRunsBackends`, `ReverseBackendsSound` | `ReverseSpec => Spec`; `[](TableIsOpen /\ ConnsExact)` | every step of the joined system is one of the backends or leaves them alone, so their theorems carry over |
| `ReverseTypeCorrect` | `[]ReverseTypeOK` | the relay's variables (`RelayInv`) and the packets' (`DataInv`) separately |
| `ReverseImplementsService` | `ReverseIsService` | a connection ID recorded anywhere (table, packets under way, the server's table, its sockets) stands with one visitor, and is not above the last one given out: a new ID is nowhere yet |
| `TunnelOneStream` | `[]OneStream` | inductive with the type and the position of the loop; the reader's guard `stream == sc` keeps an old reader from giving up its successor |
| `TunnelImplementsService`, `TunnelTableBounded` | `TunnelIsService`; `max_conns` bounds the table | entries of the table hold distinct IDs, all of them given out, and `Admit` makes room or refuses; the bound is read off the service |
| `ReverseNoLeftovers` | `[]NoLeftovers` | `EndsHandedOn`: the loop closes the stream when it ends, and the server's loop ends only with the stream, so no goroutine can wait for another when all are at rest; `OpenIsRead`: every open socket has a reader that will close it, and the count is exact |
| `PipeTypeCorrect`, `PipeRateBound` | `[]PipeTypeOK`, `[]RateBound` | `Budget`: what the bucket holds and what it gave out that time has not made up for are one burst together, or less; a sleeper takes nothing until it looks again |
| `PipeReadIsDelivered` | `[]ReadIsDelivered` | `Owing`: while a copy runs it owes the chunks waiting at its source and the one in hand, and exactly those unless the source was lost; `CutByEnd`: an end of the pipe gets its deadline from the copy that writes to it, when that copy is through, so no running copy writes to a cut end, and without an idle timeout none is cut before the other is at its end; an orderly end finds none waiting, and nothing is sent after it (`EofIsLast`) |
| `ClientTypeCorrect`, `ClientVisitorsExact` | `[]ClientTypeOK`, `[]VisitorsExact` | as for `TcpForward`, for the sessions of one client at once: a slot used again has no visitors |
| `ClientSocksReopens` | `[]SocksReopens` | `OneProxy`: one slot at a time has to do with the proxy's address, and if its session is over, the pause has not run out; goroutines that can run do so before a tick, so a pause that has has let the old listener close |
| `ClientRecoversWithin` | `[]RecoversWithin` | `TimeInv`: while the loop waits for an answer that will not come, the outage so far and the time left fit into `Notice`; in the pause they fit into `Notice + BackoffMax`. A slot is free for the new session, by counting |
| `PanelTypeCorrect`, `PanelSettingsDurable` | `[]TypeOK`, `[]SettingsDurable` | an operation that cannot save takes its change back |
| `PanelFewGuessesWhileLocked` | `[]FewGuessesWhileLocked` | guesses made since the lock and requests past the lock check together are fewer than the requests; while the ban lasts the address stays locked at least as long, so none is added |

Two of these theorems are what the bounded runs could least show: the relays
implement the service for any number of visitors, IDs and reconnects, and
`NoPushMissed` and `RegisteredIsOpen` hold for any number of rules, sessions
and concurrent panel requests. `Ids` of `RuleSync` is assumed finite, as a
configuration is. `MaxQueue` of `UdpReverse` is positive (a stream that can hold
no packet carries none), `Pipe` has a longest idle timeout, and `Client` more
slots than connections; the other assumptions only give the constants their
types.
`StorePortsUnique` and `StoreEnabledRulesRun` assume that no import holds two
rules that compete, which the code does not check (see above).

The type invariants are conjuncts of these inductive invariants and are proved,
not listed in a run. Where an inductive invariant was not evident, TLC
checked it on an instance before it was proved.

Model-checked only: the liveness properties (`RulesComeBack`, `Converges`,
`QueuedAreDecided`, `KnownReleaseIdle`, `StopReleasesAll`, `RightPasswordGetsIn`,
`EndPropagates`, `CancelEnds`, `SessionReleased`), which need fairness and with it
`ENABLED`, beyond the prover; and that `AtRest` and `Pending` are what `ENABLED`
would say. Every invariant and every action property of a passing run is a
theorem, and so are both refinements.

## Not modelled

- Dialling of targets (`dialBalanced`, `DialUDPBalanced`): a round over a list,
  reduced to success or failure.
- Health probes and notifications: their results are shown or sent and never
  read by anything else; a probe's result may be of the rule before an edit
  until the next probe.
- The traffic history, metrics and the web UI: formatting and samples.
- The log buffer and its rotation (file I/O), the server certificate, the
  PROXY header, the wire format as bytes, the Windows service wrapper.
- Loops of the server that only hand out work (`acceptReverse`, the HTTP
  routes).

## Extending it

- Larger instances of `RuleSync`, with two rules that swap ports: the theorems
  cover them for safety, `Converges` is checked for one rule.
- Several rules sharing a client in `Client`: `cnt` is that of one reverse rule.
