# LibertyGSM: models and proofs

LibertyGSM keeps TLS connections working on networks whose middlebox (DPI)
resets them by host name. It resolves names over HTTPS (DoH) and re-emits each
TLS ClientHello as several TLS records, cut through the host name. There are
three engines that share these two ideas:

* **Windows** (`divert_engine.py`): WinDivert captures every application's
  packets; TCP connections to a list of ports are turned round to a local relay,
  DNS queries are answered over DoH.
* **macOS and Linux** (`bypass_proxy.py`, `engines/portable_proxy.py`,
  `system_proxy.py`): a local HTTP proxy and the system setting that points at it.
* **Android and iOS** (`core-go/`, `android/`, `apple/`): a userspace TCP/IP stack
  behind a VPN interface.

This directory holds TLA+ models of the parts below, the TLC configurations that
check them, and TLAPS proofs. Line numbers refer to the files of the repository.

## 1. Inventory

| Component | State | Operations | Interacts with | What is hard |
|---|---|---|---|---|
| DoH failover, `core-go/doh/doh.go` | index of the active endpoint, under a mutex | `Resolve`, `activeEndpoint`, `rotate`, `post` | called by one goroutine per query | concurrent failures all want to rotate the index; it is used outside the lock for a whole round trip |
| `DohClient`, `divert_engine.py` | active resolver; queue of idle connections | `resolve`, `_borrow`, `_release`, `_rotate_ip`, `close` | 32 workers of the engine; `close` from `stop` | stale kept-alive connections, check-then-put, close against workers |
| `DivertEngine`, `divert_engine.py` | stop flag, WinDivert handle, executor, `conn_map`, relay server | `start`, `stop`, `_run_loop`, `_dispatch`, `_redirect_443`, `_rewrite_relay_reply`, `_handle_udp_dns` | capture thread, DNS workers and relay handlers share it; the GUI runs `start` and `stop` in threads of their own, and `stop` in the main thread when it quits | source ports are reused; packets wait in the driver; `stop` waits for nobody and may overtake `start` |
| `_RelayHandler`, `divert_engine.py` | two sockets, first reply, byte count; `no_frag_hosts` shared | `handle`, `_relay`, `_send_fragmented`, `_pump` | client, server, DPI, the reverse thread | probe timeout against reply and reset, retry on a second socket, two copying threads |
| Upstream ports and filter, `divert_engine.py` | shared port counter | `_connect_upstream`, `_build_filter` | every handler thread | the relay must never capture its own traffic; wrap-around; ports in TIME_WAIT |
| ClientHello fragmentation, `tls_frag.py`, `tlsfrag.go` | none (pure), except the bytes collected | `_read_client_hello`, `readFirstPayload`, `fragment_client_hello` | all engines | segmentation by the client, boundaries, rounding |
| Tunnel session, `core-go/tunnel/tunnel.go` | mode, exclusions, learned hosts; per flow two connections | `Connect`, `Stop`, `pipeTCP`, `dialAndSend`, `pipeUDP`, `handleDNS` | gVisor stack, TUN, the native app | ends of streams, idle timeouts, stop with flows open |
| Local proxy, `bypass_proxy.py` | listening socket, `running`, DNS cache | `start`, `stop`, `_accept_loop`, `_handle_client`, `_pipe` | one thread per client and two relay threads | sockets closed under a thread that uses them |
| System proxy, `system_proxy.py` | `_applied`, backup of the user's settings | `apply`, `revert` | settings of the operating system, which outlive the process | failure part way, restart, quitting at the wrong moment |
| GUI, `gui.py` | `engine`, `is_running`, `_cleaned` | `start_bypass`, `stop_bypass`, `_finish_start`, `_cleanup` | start worker and stop threads, result queue | daemon threads die with the process |
| Port diagnostic, `divert_engine.py`, `gui.py` | a capture handle of its own, a timer | `sniff_outbound_ports`, `find_game_port` | worker thread, result queue | only the timer ends it; the timer outlives the window |
| Android app, `LibertyVpnService.kt`, `MainActivity.kt` | `session`, `isRunning`; `running` of the window | `onStartCommand`, `stopTunnel`, `onDestroy`, `onRevoke`; START, STOP, `onResume` | the system's service manager, Go core | intents are queued, `onRevoke` comes on another thread, the descriptor blocks |
| Apple app, `TunnelManager.swift`, `ContentView.swift`, `PacketTunnelProvider.swift` | `state`, `manager`; the profiles in the preferences; `session` of the provider | `load`, `start`, `stop`, `syncState`; `startTunnel`, `stopTunnel` | two processes and the connection that the system keeps between them | every step awaits the system, and others run in between |

For each component, what makes it correct:

* **DoH**: a lookup fails only when every resolver has failed; failures stop once
  the network settles; every call and `close` return; connections stay bounded.
* **DivertEngine**: a client reaches the server it asked for, also when its source
  port was used before; replies look as if they came from that server; no DNS query
  leaves in clear text; `stop` completes.
* **Relay and Go session**: the stream arrives in order and whole across probe,
  retry and copying; a name is shown to the DPI only where a server has rejected
  fragments; no socket and no thread outlives its connection.
* **Upstream ports**: the relay never captures itself.
* **Fragmentation**: the name is cut, no record is empty.
* **Desktop application**: the window tells the truth, neither the system's setting nor
  an open capture points at a port nobody listens on, what comes back after STOP is the
  user's own setting, and every start, diagnostic and quit comes to an end.
* **Mobile apps**: a session that runs is one that STOP reaches; when all is quiet the
  tunnel is up exactly if START was pressed last, and the window says so; a session that
  is stopped gives its descriptor back.

## 2. Modules

| Module | Models | State and its counterpart | Actions and their counterpart |
|---|---|---|---|
| `DohFailover` | `doh.go` | `active` = `c.active`; per caller `pc`, `round`, `idx` = loop variable and index of `Resolve`; `answering` = reachability | `Pick` = `activeEndpoint`, `Answered`/`Refused` = outcome of `post`, `Rotate` = `rotate` |
| `DohClient` | class `DohClient` | `pool` = tags of `_pool`; `conn` = connection of a worker; `closer` = main thread in `close` | one action per branch of `_borrow`, both attempts of a round, `_release` in two steps, one connection per step of `close` |
| `DivertEngine` | class `DivertEngine` | `queue` = packets in the driver; `connMap` = `conn_map`; `starter`, `stopper` = places in `start` and `stop`; `process` = the program from `_cleanup` to its end; `cap` = capture thread and its packet; `work`, `job` = executor; `app`, `relay` = the two ends of a connection | `start` and `stop` step by step, `PressStop` and `Quit` = the two callers of `stop`, `Exit` and `Gone` = the end of the program, `Capture` = `_run_loop` with `_dispatch`, `Worker` = `_handle_udp_dns`, `Lookup` = `_RelayHandler.handle` |
| `RelayConn` | class `_RelayHandler` | one record per connection: handler, reverse thread, sockets, timeouts set, both peers; `noFrag` = `no_frag_hosts` | each step of `_relay` and `_pump` |
| `UpstreamPorts` | `_connect_upstream`, `_build_filter` | `nextPort`; per handler `pc`, `port`, `tries`; `busy` = ports taken | the steps of `_connect_upstream` |
| `ClientHello` | `_read_client_hello`, `readFirstPayload`, `fragment_client_hello` (Python and Go) | `hello` = size, place and length of the name; `got` = bytes in hand; `cuts` = offsets | segments, silence, `Send` |
| `Tunnel` | `tunnel.go` | one record per TCP connection and per UDP flow: goroutines, sockets, channel; `hosts`, `noFrag`; `session` = how far `Stop` has come | `Accept` .. `CopyDown` = `pipeTCP` with `dialAndSend`; `DialUdp` .. `EndUdp` = `pipeUDP`; `HandleDns` |
| `DesktopApp` | `gui.py`, `factory.py`, `portable_proxy.py`, the socket of `bypass_proxy.py`, `system_proxy.py`; `start` and `stop` of `divert_engine.py`, `sniff_outbound_ports` | `os` = the system's setting, which survives the process; `eng` = per engine its worker, its stopper, socket, accept loop, capture handle, `_applied` and backup; `diag` = the diagnostic; `gui`, `engine`, `results` = the main thread | buttons, quit, exit, crash, each command of `apply` and `revert`, `OpenCapture`, `Release`, `Shutdown`, `AcceptLoop`, `CloseServer`, `SniffOpens` .. `FinishSniff` |
| `ProxyConn` | the connections of `bypass_proxy.py` | `cached` = keys of `dns_cache`; `stats` = counters and gauge; per connection: handler, two relay threads, both sockets, both peers | `Begin` .. `Close` = `_handle_client` with `_resolve_host`, `_handle_https_tunnel`, `_handle_http_request`, `_send_fragmented_tls`; `RelayChecks` .. `RelaySends` = `_relay` |
| `TunSession` | `Connect`, `Stop` and the two loops on the TUN descriptor of `tunnel.go` | `tun` = per descriptor its session, `s.ctx`, `s.tun` and both loops; `route` = the descriptor packets arrive on | `InboundTop` .. `OutboundEnds` = `inboundLoop`, `outboundLoop`; `Connect`, `Stop` are called by the apps |
| `AndroidApp` | `LibertyVpnService.kt`, `MainActivity.kt` | `svc` = the service, its queued intents, the place of the main and of a binder thread; `ui` = the activity | `EstablishVpn` .. `Destroy` = the service's callbacks; `PressStart` .. `Resume` = the activity; `BringDown`, `Revoke`, `Kill` = the system |
| `AppleApp` | `TunnelManager.swift`, `ContentView.swift`, `PacketTunnelProvider.swift` | `tm` = the main actor's queue, `state`, `manager` (which profile, or none) and what awaits the system; `prefs` = the profiles in the preferences; `vpn` = the connection of the profile that is up, the one that is to follow, and the provider | one action per job between two awaits; `TunnelStarts`, `TunnelFails`, `StopTunnelApple` = the provider; `AnswerLoad`, `AnswerSave`, `UtunUp`, `ProviderEnds`, `FromSettings` = the system and the user in Settings |
| `MobileApps` | a phone: one of the two apps with `TunSession` | `platform` | the app's steps and those of the loops |

`MC*` modules only add symmetry sets and the requests of an instance. `MobileApps`
composes `AndroidApp` or `AppleApp` with the `TunSession` that both extend; `*_proofs` modules hold the theorems,
those about `UpstreamPorts` at the end of `DivertEngine_proofs`, those about `ClientHello` at
the end of `RelayConn_proofs`. `DohFailover`
is also the abstract specification of `DohClient`: `DohClient!Failover` instantiates
it with the steps on the pool as stutters, and `RefinesFailover` is its `Spec`.

Definitions named as faulty variants are not part of any specification. They are
plausible mistakes in the code, and each property has been seen to fail when one of
them takes the place of the correct definition.

### What is abstracted

* Data is reduced to what properties tell apart. A packet is its kind, flow and
  server; piece *n* on upstream socket *u* is `<<u, n>>`; a hello in `RelayConn` and
  `Tunnel` is "in pieces" or "whole". How it is cut is `ClientHello`'s subject.
* WinDivert, the TCP stacks, servers, the DPI and applications are environments
  that may do at any time whatever their protocol lets them.
* `RelayConn` takes the hello as complete; `ClientHello` covers incomplete ones.
* `TunSession` reduces what a session does with packets to the two loops; `Tunnel` is the
  rest. A write to the TUN device is not a step of its own. `AppleApp` drops a
  notification of the status that follows another one still waiting, since the job reads
  the status when it runs.
* `DesktopApp` takes `start` and `stop` of `divert_engine.py` in the steps that the GUI can
  tell apart; `DivertEngine` has them statement by statement, for one engine.
* Modes that only change the number of records (`UpdateMode`, `_on_mode_change`)
  appear in `ClientHello` only.

### Assumptions about the environment

* `DivertEngine`: a source port is used again only when nothing of its last
  connection is under way; closing the handle drops what is queued; submitting to an
  executor that is not shut down succeeds until the interpreter begins to end, and fails
  then. Each engine object is started once and stopped once, as the GUI does, but the stop
  may come at any moment of the start.
* `UpstreamPorts`: `bind` succeeds iff the port is not in `busy`.
* `RelayConn`: closing the upstream socket wakes a thread that reads from it.
* `ProxyConn`: the client waits for the 200 before it sends its hello; sending a few
  hundred bytes does not time out; a `server_sock` that no clause closes goes with its
  last reference, as in CPython.
* `Tunnel`: closing the network stack aborts every endpoint. A TLS server that has
  said nothing resets a connection only because of fragments or of the DPI; chance
  resets are covered by `RelayConn`'s flaky hosts.
* `DesktopApp`: nobody else uses port 10809 or changes the setting meanwhile; one
  network service on macOS; closing a socket wakes a blocked `accept` on macOS, not on
  Linux; on Windows sockets with `allow_reuse_address` may share a port, and closing a
  capture handle wakes its `recv`.
* `AndroidApp`: the system is bound to the service while the VPN's device is open, and
  destroys it when it is neither started nor bound; a killed service that was started
  comes back with a null intent. `AppleApp`: `startVPNTunnel` does nothing while
  that profile has a connection, and takes another profile's tunnel down first, since the
  system runs one VPN at a time; every start of the provider is a process of its own that
  takes its descriptors with it. `loadAllFromPreferences` may return the profiles in any
  order, and nobody deletes one. A descriptor is closed by `os.File` when no read uses it; one
  that nobody refers to is closed by the collector.

## 3. Runs

| Run | Properties | What it shows | Bounds, and why they are enough |
|---|---|---|---|
| `doh_failover` | `FailoverInv`, `ErrorMeansAllRefused`, `FailuresCease` | callers that all saw the same endpoint fail move the index by one; a call fails only if every endpoint has | 3 endpoints, 3 callers: an index can be overtaken twice; the safety part is proved for all sizes |
| `doh_client` | `PoolInv`, `RefinesFailover`, `CallsReturn` | the pooled client implements the failover protocol; never more connections than workers, though the size check of `_release` races with the put | 2 resolvers, 2 workers, pool of 1: overfull, stale and drained pools all occur |
| `divert_nat` | `TypeInv`, `RelayServesItsClient`, `ReplyFromRightServer`, `AbortedFlowForgotten` | `conn_map` is right for the handler, which finds its entry, and for replies, none of which is dropped, when ports are reused and packets are late | 2 ports, 2 servers, 2 packets in the driver and one being dispatched: one of each direction and one of another port; the theorems cover a queue of any length |
| `divert_dns` | `NoPlaintextDns`, `DnsSettles`, `StopCompletes` | a start, a STOP or a quit at any place of it, and the end of the program, against capture thread and workers | 2 queries, 1 worker, 1 packet in the driver: one query waits in the executor and one in the capture thread's hands when the executor is shut down |
| `relay_stream` | `TypeOK`, `Faithful`, `WholeOnlyAfterCut`, `CutIsRetried`, `EndsClean`, `HandlerEnds` | connections one after the other to hosts of each kind: ordinary, rejecting, blocked, both, nameless, excluded, flaky; what is learned stays | 3 pieces of reply: one peeked at, one copied, one late; 1 slot, since connections share only `noFrag`, which outlives them |
| `upstream_ports` | `PortInv`, `OwnTrafficPasses`, `PortsRest` | the counter, its wrap-around and the filter | 3 handlers, 3 ports: the counter wraps under every interleaving |
| `client_hello` | `NameNeverWhole`, `RecordsWellFormed`, `RecordsAsPromised` | every hello with up to 16 bytes of body, a name anywhere, any segmentation, both languages, all modes | 16 bytes exceed twice the 8 records of Extreme mode, so every rounding occurs |
| `tunnel` | `TunnelInv`, `WholeOnlyAfterCut`, `StopDrains`, `UdpTornDown` | connections of every kind one after the other beside a UDP or DNS flow; whitelist replaced and session stopped at any moment | 1 slot each; they interact only through the session and `noFrag`, which outlives a connection |
| `proxy_conn` | `ProxyInv`, `HelloCut`, `Faithful`, `HandlersEnd` | a connection of every kind beside one that only shares cache and counters | 2 pieces of reply: one held by the relay thread while another is unread; 1 piece behind the hello; 1 endpoint, asked verified and unverified |
| `desktop_app` | `AppInv`, `NoDeadPort`, `PriorKept`, `Settles` | stop overlapping the next start on every platform, beside the diagnostic, with timeouts, crashes, quits in the middle | 3 presses of START: one engine stopping, one starting, one after both |
| `desktop_restore` | `PriorRestored` (violated) | see section 6 | 1 press |
| `mobile_apps` | `MobileInv`, `LastPressWins`, `StopReleases` | presses, consent, revocation, kills, failures, the Settings app, in every order that the queues and threads allow | 2 descriptors: one being replaced by the next; 3 presses on Android: start, stop, start; 2 on Apple, those in Settings included; 3 profiles: one in the preferences, one that a START makes and one that a load makes; the user and Settings act while no job is queued, but while answers are awaited |

`NoDeadPort` and `PriorKept` carry the history variable `clean`: no command has timed
out, the process has not been killed, and nobody has quit during a start or a stop.
Without it they are false, because nothing is persisted: a start after a crash takes
this program's own address for the user's setting. `AppInv` and `Settles` hold with all
these faults.

The properties of `DivertEngine` but `TypeInv`, `DnsSettles` and `StopCompletes` carry the
history variable `missed`: the handle was opened when `stop` had already tried to close it,
or was open when the program began to end. `stop` will not come back for that handle, and
section 6 says what happens then. Short of that `stop` may overtake `start` at any
statement: it may find no handle, no pool or the old flag. `StopCompletes` needs no such excuse:
whatever `stop` has missed ends with the program, which is why its second alternative is
there.

`LastPressWins` leaves out, by its history fields `last` and `stale`, what the code does not
give: see section 6. `StopReleases` names the one case in which a stopped session keeps its
descriptor: a reader in a blocking descriptor, until a packet arrives or another VPN takes
over. `MobileInv` leaves out sessions that came up after their own stop (`raced`): such a
session runs until its process ends, on Android also beside a later one, which TLC reaches
within these bounds. The second half of `LastPressWins`, what the window shows on Apple and
which profile the manager holds, is stated for at most one profile in the preferences.

Deadlock checking is off where the system may really stop: an engine, a connection or
a session that has ended, or a phone whose user does nothing more.

### Fairness

Weak fairness on the threads and goroutines of the program only: they keep being
scheduled, and each of their waits that fairness covers ends by a timeout or by its
socket being closed. `RelayConn` assumes nothing of servers and clients, and
`HandlerEnds` therefore starts from a client that is gone. `Tunnel` does not make a
busy UDP direction go idle, nor a server speak: `StopDrains` speaks of connections
whose server has sent something or has ended. `DohClient` states `CallsReturn`,
which includes `close`, for the case that no further call comes. `ProxyConn` assumes
nothing of its peers, and not that closing a socket wakes a blocked `recv`:
`HandlersEnd` therefore starts from two peers that are gone. `DivertEngine` has it for `stop`,
the capture thread and the workers, not for `start`; and, once the program quits, for the
main thread, which returns after `_cleanup`, and for the end of the interpreter, which joins
the executor's threads only (the others are daemons). `DesktopApp` has no fairness
for buttons, clients and faults; `Settles` needs it for the workers, the timer of the
diagnostic, the relay's loop, which looks for a shutdown twice a second, and the window's
polling. `MobileApps` has it for the two Go loops and the collector, which the Go run-time
forces every two minutes; packets, the user and the system owe nothing.

## 4. Proofs

The theorems hold for every value of the constants that satisfies the `ASSUME`s of the
modules: any number of connections, flows, callers and workers, any host set and server
behaviour, driver queues and replies of any length. The `ASSUME`s only exclude instances without
an endpoint, a DNS worker, a port or a host, infinite sets of workers (connections are
counted) and, in `ProxyConn`, of connections (its counters count them), and ports of the
relay or of others inside its reserved range. The bounds on presses and taps that TLC needs
are any natural numbers.

Each proof shows that an inductive invariant holds at first and is kept by every action,
one lemma or step per action, and derives the properties from it. All of these
invariants were also evaluated by TLC on the instances of section 3.

* `DohFailover_proofs`: `TypeCorrect`; `IndexNeverPasses` (`FailoverInv`); `FailureIsTotal`
  (`ErrorMeansAllRefused`). "Every endpoint has failed" says nothing of the shared index,
  so it is not inductive. `FailoverInv` adds that the index never passes an endpoint that
  has never failed (`NeverPassed`), that each round of a call is paid for by a step of the
  index (`RoundsProgress`), and that whoever rotates has seen its endpoint fail. The only
  step that needs thought is `Rotate`.
* `DohClient_proofs`: `TypeCorrect`; `ConnectionsBounded` (`PoolInv`); `Refinement`
  (`RefinesFailover`): every step is one of `DohFailover` or leaves its variables alone.
  The size of the pool alone is no invariant, since `_release` checks and puts in two
  steps; what is kept is the sum of pooled connections and of workers that hold one
  (`Bounded`). The mapping of a request needs that its connection belongs to the resolver
  of the round (`AsksItsResolver`), that of a failed call that the loop has a round left
  (`InLoop`). `FailureIsTotal` then follows from the theorem of the same name about
  `DohFailover`'s specification.
* `DivertEngine_proofs`: `TypeCorrect` (`TypeInv`), with `EndsKnown` as strengthening, since
  a segment carries the server of its sender; `FailClosed` (`NoPlaintextDns`) and
  `PoolOrder` (`PoolOutlivesHandle`) from their conjunction: a query could only leak
  through a `submit` that fails while the handle is open, and `PoolOutlivesHandle`, which
  ties pool and handle to the places of `start` and of `stop`, excludes it, unless the handle
  is missed. `EndOrder` adds how far `stop` and the program are when one waits for the other.
  `missed` is never taken back (`MissedStays`), so the other invariants only have to be kept
  by steps before it. `ClientsServed`
  (`RelayServesItsClient`), `RepliesFromRightServer` (`ReplyFromRightServer`) and
  `AbortedForgotten` (`AbortedFlowForgotten`) come from `missed \/ FlowInv`, which relates, per source
  port, the packets under way (`Wire`: the one in dispatch, then the driver's queue), the
  two ends of the connection and the entry of `conn_map`: all of them name one server
  (`SameServer`); a SYN is the first of its connection and finds the previous relay gone
  (`SynFirst`); nothing follows the relay's FIN or RST (`FinLast`); the entry stays while it
  is needed (`EntryKept`); what each end of a connection leaves behind (`Closing`, `Aborting`).
  `SameServer` holds also after the handle is closed, the others only while it is open.
* `RelayConn_proofs`: `TypeCorrect` (`TypeOK`); `NameShownAfterCut` (`WholeOnlyAfterCut`);
  `CutRetried` (`CutIsRetried`); `StreamIsFaithful` (`Faithful`); `LeavesNothingOpen`
  (`EndsClean`, an action property). The invariant is a predicate on the record of one
  connection and `noFrag`, which only grows, so other connections cannot break it. Its
  parts: which socket goes with which place of the handler (`Socket`), what the server can
  have said after what it was sent (`Server`), what has been read and passed on
  (`Passed`), who ended the connection once the pumps stop (`Stopped`), when the client has
  its FIN (`Ending`), how a second try comes about (`Retry`) and why a name was shown
  (`Shown`). `Faithful` alone says nothing of a piece between two `recv`s.
* `DivertEngine_proofs`, second part, about `UpstreamPorts`: `PortsTypeCorrect` (`PortInv`);
  `NoSelfCapture` (`OwnTrafficPasses`); `PortsAreRested` (`PortsRest`). `PortInv` keeps every
  port that a handler has taken in the range that the filter leaves out. That the last ports
  are different is not inductive; `GivenInTurn` describes each of them by its distance from
  the counter.
* `RelayConn_proofs`, second part, about `ClientHello`: `NameIsCut` (`NameNeverWhole`),
  `NoEmptyRecord` (`RecordsWellFormed`) and `PromisedRecords` (`RecordsAsPromised`), for hellos
  of every size. The invariant `Chosen` says that the cuts, once sent, are among those that
  `fragment_client_hello` may choose; lemmas bound these, and show that eighths of eight bytes
  or more never round to the same offset, in Python or in Go.
* `Tunnel_proofs`: `ReturnsHoldingNothing` (`TunnelInv`); `NameShownAfterCut`
  (`WholeOnlyAfterCut`). As for the relay, a predicate on one connection: `Sockets`,
  `Server`, `Stream`, `Retry`, `Shown`, with `Learned` for the hosts. The step that needs
  thought is `Repeek`: a reply to the whole hello comes from a server that rejects
  fragments and lets the name pass, since only such a connection gets there.
* `ProxyConn_proofs`: `CountersAgree` (`ProxyInv`); `NameLeavesCut` (`HelloCut`);
  `CopiesFaithfully` (`Faithful`). The parts that speak of one connection (`ConnInv`) say which
  sockets and what has been sent go with each place of the handler (`Place`, `Cut`), what the
  two relay threads may be doing (`Relays`), that what is read, held, sent and heard is one
  numbered stream in each direction (`Upward`, `Downward`), and how a relay comes to an end
  (`Ended`: by an end of stream, an error, or `stop`, hence `running`). `Faithful` alone says
  nothing of the piece in a thread's hand, nor why the second thread ends. The counters
  are sums over all connections (`Counts`); each step tells which of four counted sets its
  connection enters or leaves. That no more lookups are counted than connections are is not
  inductive: it needs `Asked`, the connections that have been through `_resolve_host`.
* `DesktopApp_proofs`: `Truth` (`AppInv`); `DeadPort` (`NoDeadPort`); `Kept` (`PriorKept`), from
  one invariant, `IInv` (`Inductive`). None of the three is inductive: that the setting is not
  left at a dead port depends on the order of start and stop in an engine that is neither
  shown nor serving. Per engine: steps and handles that belong to the platform (`Fits`), an
  engine that has not started holds nothing (`Fresh`), what it holds at each step of its start
  (`Up`) and of its stop (`Down`, which needs that nothing has gone wrong). Between engines:
  which ones the window and the results still hold (`Held`, `Threads`, `Reported`), that the
  port admits one at a time except on Windows (`Lock`), and who is altering the setting and
  what it was before (`Setting`). `Lock` is what keeps two engines from each taking the other's
  address for the user's setting.
* `MobileApps_proofs`: `InReach` (`MobileInv`); `LastPress` (`LastPressWins`), from `IInv`
  (`Inductive`). `LastPressWins` speaks of quiet states only; in between, the invariant tells
  who will still act on the last press. On Android (`AppOK`): when the service has a session
  and says that it runs (`Fields`), which intent waits for the main thread at each of its
  places, or that the last press is done (`Intent`), what the window shows meanwhile
  (`Shown`), and that a running session is the service's own (`Reached`). On Apple
  (`LinkOK`), for any number of profiles: how the status of the connection goes with the
  provider and its profile (`Linked`), which profiles the preferences and the jobs can know
  of (`Known`, `After`), that the manager, once it has a profile, has a saved one or one whose
  start has been saved and will claim it (`Owned`), which job will still correct the window (`Told`) or carry out the
  tap (`Asked`), and that the provider holds the session that runs (`Stoppable`).

Only model-checked:

* liveness (`FailuresCease`, `CallsReturn`, `DnsSettles`, `StopCompletes`, `HandlerEnds`,
  `StopDrains`, `UdpTornDown`, `HandlersEnd`, `Settles`, `StopReleases`), and so the fairness
  that `RefinesFailover` does not speak of: the proof system does not handle `ENABLED`.

Every safety property of a passing run is proved. `PriorRestored` is false of the code
(section 6).

## 5. Not modelled

Left out: `sys_proxy.py` (called by no engine), the matching of exclusion patterns, the walk
through the TLS extensions and the framing of `mobile.go` (pure functions of bytes with unit
tests), the change of mode while running (it changes the number of pieces only), widgets,
toasts, tray icon, elevation and the unloading of the driver's DLL, network settings and
interface binding of the mobile apps, build and release scripts.

A command of `system_proxy.py` that exits with an error: `_run` passes `check=False` (23), so it
counts as done, and `_applied` is set although the setting has not changed. `DesktopApp` knows
commands that work and commands that time out.

## 6. Where code and text disagree

Shown by a run:

* **System proxy on Linux** (`desktop_restore`). `system_proxy.py:5-6` promises to restore
  "the prior settings on stop". `_apply_linux` overwrites host and port (124-127) but backs
  up the mode only (121-123). A GNOME user whose mode was `manual` is left pointing at
  127.0.0.1:10809 after STOP.

Part of the models, without a run of their own:

* The comment at `bypass_proxy.py:235` says that stop connects to itself "to break the
  accept() block". The code only closes the socket (236), which does not wake another
  thread's `accept` on Linux (`CloseServer`, `AcceptLoop` in `DesktopApp`). The port
  stays bound and the next START fails until some client connects.
* Likewise `_relay` closes its peer's socket (597-605) and `_pipe` waits for both
  threads. Where closing does not wake a blocked `recv`, the handler of a client that
  has gone stays until its server speaks or closes, also after STOP.
* A tunnel whose client leaves before the reply counts as blocked by the DPI
  (`bypass_proxy.py:446-460`, "NOT a code bug"): `Faithful` bounds what the verdict means.
* `_send_fragmented_tls` sends the whole hello again behind the records that have left
  when a send fails with an error other than the connection's (558-561).
* An endpoint whose answer is JSON of another form ends the lookup with a 502 although
  `_resolve_host` promises a "local fallback" (251, 291-293).
* The HTTP branch looks at the first request of a connection only (468-513); later ones
  follow it to the same server. `ProxyConn` has one request per connection.

* A reset between two pieces of a hello makes the send raise before the probe: no
  retry (`divert_engine.py:398`, `tunnel.go:410`), although the comments speak of any
  immediate reset.
* On Windows a START right after a STOP opens a second relay on the same port while the
  first one still listens (`divert_engine.py:479`, `allow_reuse_address`): for up to half a
  second a new connection may reach the relay of the stopped engine, whose `conn_map` does
  not know it, and be dropped.
* Quitting while the port diagnostic runs closes the window, but the process stays until
  its timer of 30 seconds, which is no daemon thread, has run (`divert_engine.py:127`).
* `LibertyVpnService.kt:62` says that Go "closes it on Session.stop()". The descriptor is set
  to blocking (54), so `Close` does not interrupt `inboundLoop`'s read: the device, and with
  it the VPN, stays until one more packet arrives (`StopReleases`).
* `LibertyVpnService.kt:130-132` says that the window "reflects the real tunnel state". When
  the user has just consented, `onResume` runs before the service has seen the intent, so
  the window shows "off" beside a running tunnel; the same with any intent still queued.
* `stopSelf()` without a start id (79) takes back a START that is queued behind the STOP: the
  service may be destroyed under the tunnel it has just started.
* `onRevoke` runs on a binder thread without a lock. If it passes `session?.stop()` before
  `Connect` has returned, its `session = null` may overwrite the new session, which then
  runs until the process ends, also beside the session of a later START (`raced` in `AndroidApp`; likewise a `stopTunnel` before the
  callback of the settings in `AppleApp`).
* Quitting while `start` runs (`gui.py:438`, 499-501): if `stop`'s `close()` comes before
  `start` has opened the handle (`divert_engine.py:566-569`, 545), `start` goes on with a handle
  that nobody closes. If `stop` then finds the new pool, it shuts it, and the next query is
  re-injected in clear text (603), against the comment "fail-closed" (639). The same may
  happen when the program ends while the thread that STOP has started has not closed the
  handle yet, since `submit` raises once the interpreter ends (`missed` in `DivertEngine`).
* Quitting after `start` has opened the handle and before it clears `_stop` (545-555): `stop`
  closes the handle, `start` takes the flag back, and the capture thread raises and retries on
  the closed handle (592-599), without a pause, until the program ends.
* START before `load` has answered (`TunnelManager.swift:53`) saves a second profile beside the
  one in the preferences; a load may then put the other one, or a fresh one, in `manager` (41).
  The window shows "disconnected" beside a running tunnel, or STOP acts on the profile that is
  not up: `.disconnecting`, and no notification follows.
* A load, save or start that fails shows its error beside a tunnel that is up
  (`TunnelManager.swift:47`, 74), and the button then says START (`ContentView.swift:36`).
* `TunnelManager.stop` (79-82) sets `.disconnecting` also where it has nothing to stop, and
  `start` sets `.connecting` also where the tunnel is up: no notification follows, and the
  button stays disabled (`ContentView.swift:43`).
* A first segment of fewer than five bytes ends the collection of the hello
  (`tunnel.go:342`, `divert_engine.py:299-300`), which leaves uncut.
* The relay handler waits two seconds for its reverse thread after the client has
  half-closed (`divert_engine.py:456`), so a longer reply is cut off although `_pump` copies
  "until EOF".
* The Go tunnel reads the client first (`tunnel.go:306`): protocols whose server speaks
  first time out.
* `android/README.md:14` says QUIC is dropped; `tunnel.go` forwards it.
* `conn_map` keeps one entry per source port after a graceful close, because the
  client's last acknowledgement arrives behind the `pop` (651, 668).
