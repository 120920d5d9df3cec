---------------------------- MODULE DivertEngine ----------------------------
(***************************************************************************)
(* The whole-system engine of Windows: class DivertEngine of               *)
(* divert_engine.py, with the connection table it shares with the handler  *)
(* threads of its local relay.                                             *)
(*                                                                         *)
(* Threads: a worker of gui.py runs start; stop runs in another thread,    *)
(* which the STOP button starts, or in the main thread, when the program   *)
(* quits, and may then overtake start; one capture thread takes the        *)
(* packets diverted by WinDivert one at a time; a pool of workers resolves *)
(* the captured DNS queries; one relay handler per redirected connection   *)
(* looks up where its client meant to go.  The applications and the TCP    *)
(* stack of the host are the environment.                                  *)
(*                                                                         *)
(* A packet is a record: its kind, its flow (the source address and port   *)
(* of the application, or the identity of a DNS query) and `dst`, the      *)
(* server the connection it belongs to is meant for.  WinDivert is         *)
(* external: while its handle is open the packets that match the filter    *)
(* are queued for recv; once it is closed, recv and send raise.            *)
(***************************************************************************)
EXTENDS Naturals, Sequences, FiniteSets

CONSTANTS
    Flows,      \* (source address, source port) pairs of applications
    Servers,    \* (destination address, destination port) pairs
    Queries,    \* DNS queries
    DnsWorkers, \* max_workers of the executor
    BlockQuic,  \* self.block_quic when the filter is built
    QueueMax,   \* bound: packets the environment lets wait in the driver
    NoServer    \* None

ASSUME DnsWorkersAssumption == DnsWorkers \in Nat \ {0}
ASSUME NoServerAssumption == NoServer \notin Servers
ASSUME KindsAssumption == BlockQuic \in BOOLEAN /\ QueueMax \in Nat

VARIABLES
    starter,    \* where start is
    stopper,    \* where stop is
    process,    \* the program: "up", "quitting" (_cleanup), "exiting", "gone"
    stop,       \* self._stop
    handle,     \* self._w: "none" before open, then "open" and "closed"
    pool,       \* self._pool: "none", "up" or "shut" (down, not yet None)
    listening,  \* the relay server accepts connections
    queue,      \* packets WinDivert holds for recv
    cap,        \* the capture thread: place in _run_loop, and its packet
    connMap,    \* self.conn_map
    work,       \* the executor's queue of submitted queries
    job,        \* per query: what a pool thread is doing with it
    missed,     \* history: a handle opened behind stop's back, or left open
                \* when the program began to end
    leaked,     \* history: packets re-injected unchanged by _run_loop
    app,        \* per flow: the application's TCP connection
    relay       \* per flow: the relay's end of it and its handler

engineVars == <<starter, stopper, process, stop, handle, pool, listening, missed>>
dnsVars == <<work, job>>
vars == <<engineVars, queue, cap, connMap, dnsVars, leaked, app, relay>>

-----------------------------------------------------------------------------
(* Packets. "ack" is a segment the relay's stack sends after its own FIN.  *)

ClientKinds == {"syn", "data", "fin", "rst"}
ReplyKinds == {"reply", "replyFin", "replyRst", "ack"}

TcpPackets == [kind : ClientKinds \cup ReplyKinds, flow : Flows, dst : Servers]
DnsPackets == [kind : {"dns"}, flow : Queries, dst : {NoServer}]
QuicPacket == [kind |-> "quic", flow |-> NoServer, dst |-> NoServer]
Packets == TcpPackets \cup DnsPackets \cup {QuicPacket}

TcpPacket(k, f, s) == [kind |-> k, flow |-> f, dst |-> s]
DnsPacket(q) == [kind |-> "dns", flow |-> q, dst |-> NoServer]
NoPacket == QuicPacket

(* Ends of a connection.  The application: `st` is its TCP state, `ack`    *)
(* says that it owes the acknowledgement of a FIN.  The relay: `for` is    *)
(* the server the accepted SYN was meant for, `to` the one the handler     *)
(* found in conn_map.                                                      *)

AppStates == {"closed", "open", "finSent", "finRcvd", "aborted"}
AppEnds == [st : AppStates, dst : Servers \cup {NoServer}, ack : BOOLEAN]
NoApp == [st |-> "closed", dst |-> NoServer, ack |-> FALSE]

RelayStates == {"none", "accepted", "serving", "leaving"}
RelayEnds == [st : RelayStates, for : Servers \cup {NoServer},
              to : Servers \cup {NoServer}, finSent : BOOLEAN, finRcvd : BOOLEAN]
NoRelay == [st |-> "none", for |-> NoServer, to |-> NoServer,
            finSent |-> FALSE, finRcvd |-> FALSE]

StarterStates == {"off", "probed", "relayUp", "opened", "pooled", "running", "refused", "dead"}
StopperStates == {"idle", "stop1", "stop2", "stop3", "stop4", "stop5", "stop6", "stopped", "dead"}
CapStates == {"off", "top", "recv", "dispatch", "reinject", "exited"}

TypeOK ==
    /\ starter \in StarterStates
    /\ stopper \in StopperStates
    /\ process \in {"up", "quitting", "exiting", "gone"}
    /\ stop \in BOOLEAN /\ missed \in BOOLEAN
    /\ handle \in {"none", "open", "closed"}
    /\ pool \in {"none", "up", "shut"}
    /\ listening \in BOOLEAN
    /\ queue \in Seq(Packets)
    /\ cap \in [pc : CapStates, pkt : Packets]
    /\ connMap \in [Flows -> Servers \cup {NoServer}]
    /\ work \in Seq(Queries)
    /\ job \in [Queries -> {"none", "queued", "resolving", "answering"}]
    /\ leaked \in SUBSET Packets
    /\ app \in [Flows -> AppEnds]
    /\ relay \in [Flows -> RelayEnds]

\* Whoever may send a segment knows the server it belongs to.
EndsKnown ==
    \A f \in Flows :
        /\ app[f].st # "closed" \/ app[f].ack => app[f].dst \in Servers
        /\ relay[f].st # "none" => relay[f].for \in Servers

TypeInv == TypeOK /\ EndsKnown

Init ==
    /\ starter = "off" /\ stopper = "idle" /\ process = "up"
    /\ stop = FALSE /\ missed = FALSE
    /\ handle = "none"
    /\ pool = "none"
    /\ listening = FALSE
    /\ queue = <<>>
    /\ cap = [pc |-> "off", pkt |-> NoPacket]
    /\ connMap = [f \in Flows |-> NoServer]
    /\ work = <<>>
    /\ job = [q \in Queries |-> "none"]
    /\ leaked = {}
    /\ app = [f \in Flows |-> NoApp]
    /\ relay = [f \in Flows |-> NoRelay]

-----------------------------------------------------------------------------
(* start *)

restOfStart == <<stopper, process, queue, connMap, dnsVars, leaked, app, relay>>

\* The resolver answers the probe, or start gives up before anything is open.
Probe ==
    /\ starter = "off"
    /\ starter' \in {"probed", "refused"}
    /\ UNCHANGED <<stop, handle, pool, listening, missed, cap, restOfStart>>

StartRelay ==
    /\ starter = "probed"
    /\ starter' = "relayUp"
    /\ listening' = TRUE
    /\ UNCHANGED <<stop, handle, pool, missed, cap, restOfStart>>

\* WinDivert opens: from here on packets are captured.  A stop that has been
\* past its close will not come back for this handle.
OpenDivert ==
    /\ starter = "relayUp"
    /\ starter' = "opened"
    /\ handle' = "open"
    /\ missed' = (missed \/ stopper \notin {"idle", "stop1"})
    /\ UNCHANGED <<stop, pool, listening, cap, restOfStart>>

\* ... or it does not (no administrator), and the relay is taken down again.
OpenFails ==
    /\ starter = "relayUp"
    /\ starter' = "refused"
    /\ listening' = FALSE
    /\ UNCHANGED <<stop, handle, pool, missed, cap, restOfStart>>

\* Also when a stop has set the flag already: start clears it.  (One step: no
\* other thread reads the flag before the capture thread is there.)
MakePool ==
    /\ starter = "opened"
    /\ starter' = "pooled"
    /\ pool' = "up"
    /\ stop' = FALSE
    /\ UNCHANGED <<handle, listening, missed, cap, restOfStart>>

StartCapture ==
    /\ starter = "pooled"
    /\ starter' = "running"
    /\ cap' = [cap EXCEPT !.pc = "top"]
    /\ UNCHANGED <<stop, handle, pool, listening, missed, restOfStart>>

Start == Probe \/ StartRelay \/ OpenDivert \/ OpenFails \/ MakePool \/ StartCapture

-----------------------------------------------------------------------------
(* stop: it runs beside start and beside everything else, and waits        *)
(* neither for the capture thread nor for the workers.                     *)

restOfStop == <<starter, missed, cap, dnsVars, leaked, app, relay>>

\* Faulty variant: shut the pool before closing the handle.
PressStopShutsPool ==
    /\ process = "up" /\ starter = "running" /\ stopper = "idle"
    /\ stopper' = "stop1"
    /\ stop' = TRUE
    /\ pool' = "shut"
    /\ UNCHANGED <<process, handle, listening, queue, connMap, restOfStop>>

SetStop ==
    /\ process = "up" /\ stopper = "idle"
    /\ stopper' = "stop1"
    /\ stop' = TRUE
    /\ UNCHANGED <<handle, pool, listening, queue, connMap, restOfStop>>

\* The button says STOP once start has returned; a thread of its own stops.
PressStop == SetStop /\ starter = "running" /\ UNCHANGED process

\* _cleanup stops from the main thread, wherever start is by then.
Quit == SetStop /\ process' = "quitting"

\* The driver drops what it still holds for recv.  A handle that start has
\* not opened yet raises, and that is swallowed.
CloseHandle ==
    /\ stopper = "stop1"
    /\ stopper' = "stop2"
    /\ IF handle = "open" THEN handle' = "closed" /\ queue' = <<>>
                          ELSE UNCHANGED <<handle, queue>>
    /\ UNCHANGED <<process, stop, pool, listening, connMap, restOfStop>>

ShutPool ==
    /\ stopper = "stop2"
    /\ IF pool = "none" THEN stopper' = "stop4" /\ UNCHANGED pool
                        ELSE stopper' = "stop3" /\ pool' = "shut"
    /\ UNCHANGED <<process, stop, handle, listening, queue, connMap, restOfStop>>

ForgetPool ==
    /\ stopper = "stop3"
    /\ stopper' = "stop4"
    /\ pool' = "none"
    /\ UNCHANGED <<process, stop, handle, listening, queue, connMap, restOfStop>>

\* Faulty variant: wait for the handler threads (daemon_threads not set).
StopRelayJoins ==
    /\ stopper = "stop4" /\ \A f \in Flows : relay[f].st = "none"
    /\ stopper' = "stop5"
    /\ listening' = FALSE
    /\ UNCHANGED <<process, stop, handle, pool, queue, connMap, restOfStop>>

StopRelay ==
    /\ stopper = "stop4"
    /\ stopper' = "stop5"
    /\ listening' = FALSE
    /\ UNCHANGED <<process, stop, handle, pool, queue, connMap, restOfStop>>

\* self.doh.close(): see DohClient.
CloseDoh ==
    /\ stopper = "stop5"
    /\ stopper' = "stop6"
    /\ UNCHANGED <<process, stop, handle, pool, listening, queue, connMap, restOfStop>>

ClearMap ==
    /\ stopper = "stop6"
    /\ stopper' = "stopped"
    /\ connMap' = [f \in Flows |-> NoServer]
    /\ UNCHANGED <<process, stop, handle, pool, listening, queue, restOfStop>>

Finish == CloseHandle \/ ShutPool \/ ForgetPool \/ StopRelay \/ CloseDoh \/ ClearMap

-----------------------------------------------------------------------------
(* The end of the program.                                                 *)

\* The main thread returns: after _cleanup has stopped this engine, or, if a
\* STOP or a failed start has left it no engine to stop, at any time.  From
\* here on submit raises.
Exit ==
    /\ \/ process = "quitting" /\ stopper = "stopped"
       \/ process = "up" /\ (stopper # "idle" \/ starter = "refused")
    /\ process' = "exiting"
    /\ missed' = (missed \/ handle = "open")
    /\ UNCHANGED <<starter, stopper, stop, handle, pool, listening, queue, cap,
                   connMap, dnsVars, leaked, app, relay>>

\* The interpreter joins the executor's threads, no daemon thread; the system
\* closes what is left open.
Gone ==
    /\ process = "exiting" /\ \A q \in Queries : job[q] = "none"
    /\ process' = "gone"
    /\ starter' = "dead" /\ stopper' = "dead"
    /\ handle' = "closed" /\ queue' = <<>> /\ listening' = FALSE
    /\ cap' = [pc |-> "exited", pkt |-> NoPacket]
    /\ relay' = [f \in Flows |-> NoRelay]
    /\ UNCHANGED <<stop, pool, missed, connMap, dnsVars, leaked, app>>

-----------------------------------------------------------------------------
(* What a packet does when _send puts it back; nothing once the handle is  *)
(* closed, since _send swallows the exception.                             *)

\* A client packet arrives at the relay's port: a SYN opens a connection, a
\* RST ends it, a FIN half-closes it.
AtRelay(p) ==
    LET f == p.flow IN
    relay' = CASE p.kind = "syn" /\ relay[f].st = "none" /\ listening ->
                    [relay EXCEPT ![f] = [NoRelay EXCEPT !.st = "accepted", !.for = p.dst]]
               [] p.kind = "rst" -> [relay EXCEPT ![f] = NoRelay]
               [] p.kind = "fin" /\ relay[f].st # "none" ->
                    [relay EXCEPT ![f] = IF @.finSent THEN NoRelay
                                                      ELSE [@ EXCEPT !.finRcvd = TRUE]]
               [] OTHER -> relay

\* A reply that claims to come from `src` arrives at the application.
AtApp(p, src) ==
    LET f == p.flow
        mine == app[f].dst = src /\ app[f].st \in {"open", "finSent", "finRcvd"}
    IN  app' = CASE mine /\ p.kind = "replyRst" -> [app EXCEPT ![f] = NoApp]
                 [] mine /\ p.kind = "replyFin" ->
                      [app EXCEPT ![f].st = IF @ = "open" THEN "finRcvd" ELSE "closed",
                                  ![f].ack = TRUE]
                 [] OTHER -> app

-----------------------------------------------------------------------------
(* The capture thread: _run_loop and _dispatch *)

\* while not self._stop.is_set()
LoopTop ==
    /\ cap.pc = "top"
    /\ cap' = [cap EXCEPT !.pc = IF stop THEN "exited" ELSE "recv"]
    /\ UNCHANGED <<engineVars, queue, connMap, dnsVars, leaked, app, relay>>

Recv ==
    /\ cap.pc = "recv"
    /\ handle = "open" /\ queue # <<>>
    /\ cap' = [pc |-> "dispatch", pkt |-> Head(queue)]
    /\ queue' = Tail(queue)
    /\ UNCHANGED <<engineVars, connMap, dnsVars, leaked, app, relay>>

\* recv raises on the closed handle.
RecvRaises ==
    /\ cap.pc = "recv"
    /\ handle # "open"
    /\ cap' = [cap EXCEPT !.pc = IF stop THEN "exited" ELSE "top"]
    /\ UNCHANGED <<engineVars, queue, connMap, dnsVars, leaked, app, relay>>

NextPacket == cap' = [pc |-> "top", pkt |-> NoPacket]

\* A query is handed to the executor; submit raises once the executor is shut
\* down or the program exits, and None has no submit.
DispatchDns ==
    /\ cap.pc = "dispatch" /\ cap.pkt.kind = "dns"
    /\ IF pool = "up" /\ process # "exiting"
         THEN /\ work' = Append(work, cap.pkt.flow)
              /\ job' = [job EXCEPT ![cap.pkt.flow] = "queued"]
              /\ NextPacket
         ELSE /\ cap' = [cap EXCEPT !.pc = "reinject"]
              /\ UNCHANGED dnsVars
    /\ UNCHANGED <<engineVars, queue, connMap, leaked, app, relay>>

\* The handler of the exception in _run_loop sends the packet as it is.
Reinject ==
    /\ cap.pc = "reinject"
    /\ leaked' = IF handle = "open" THEN leaked \cup {cap.pkt} ELSE leaked
    /\ NextPacket
    /\ UNCHANGED <<engineVars, queue, connMap, dnsVars, app, relay>>

\* QUIC is dropped: the application falls back to TCP.
DispatchQuic ==
    /\ cap.pc = "dispatch" /\ cap.pkt.kind = "quic"
    /\ NextPacket
    /\ UNCHANGED <<engineVars, queue, connMap, dnsVars, leaked, app, relay>>

\* Faulty variant: the destination is noted after it has been overwritten.
TurnRoundOverwrites(map) ==
    /\ cap.pc = "dispatch" /\ cap.pkt.kind \in ClientKinds
    /\ connMap' = [map EXCEPT ![cap.pkt.flow] = NoServer]
    /\ IF handle = "open" THEN AtRelay([cap.pkt EXCEPT !.dst = NoServer]) ELSE UNCHANGED relay
    /\ NextPacket
    /\ UNCHANGED <<engineVars, queue, dnsVars, leaked, app>>

\* Turn a client packet round to the relay, leaving `map` as the table.
TurnRound(map) ==
    /\ cap.pc = "dispatch" /\ cap.pkt.kind \in ClientKinds
    /\ connMap' = map
    /\ IF handle = "open" THEN AtRelay(cap.pkt) ELSE UNCHANGED relay
    /\ NextPacket
    /\ UNCHANGED <<engineVars, queue, dnsVars, leaked, app>>

Noted(p, forgotten) ==
    [connMap EXCEPT ![p.flow] = IF p.kind \in forgotten THEN NoServer ELSE p.dst]

\* Faulty variants of Redirect: forget the entry on a FIN too; never forget
\* it; keep one that is there already.
RedirectForgetsOnFin == TurnRound(Noted(cap.pkt, {"rst", "fin"}))
RedirectNeverForgets == TurnRound(Noted(cap.pkt, {}))
RedirectKeepsEntry ==
    TurnRound(IF cap.pkt.kind # "rst" /\ connMap[cap.pkt.flow] # NoServer
                THEN connMap ELSE Noted(cap.pkt, {"rst"}))

\* _redirect_443: note the destination, and forget it again on a RST.
Redirect == TurnRound(Noted(cap.pkt, {"rst"}))

\* Drop the packet of an unknown connection; let any other come from the
\* noted destination, and forget that after a packet of the kinds `last`.
PassBack(last) ==
    LET p == cap.pkt
        server == connMap[p.flow]
    IN  /\ cap.pc = "dispatch" /\ p.kind \in ReplyKinds
        /\ IF server = NoServer
             THEN UNCHANGED <<app, connMap>>
             ELSE /\ IF handle = "open" THEN AtApp(p, server) ELSE UNCHANGED app
                  /\ connMap' = [connMap EXCEPT ![p.flow] = IF p.kind \in last
                                                              THEN NoServer ELSE server]
        /\ NextPacket
        /\ UNCHANGED <<engineVars, queue, dnsVars, leaked, relay>>

\* _rewrite_relay_reply
RewriteReply == PassBack({"replyRst", "replyFin"})

Capture ==
    \/ LoopTop \/ Recv \/ RecvRaises
    \/ DispatchDns \/ Reinject \/ DispatchQuic \/ Redirect \/ RewriteReply

-----------------------------------------------------------------------------
(* The workers: _handle_udp_dns *)

Busy == {q \in Queries : job[q] \in {"resolving", "answering"}}

\* A pool thread takes the oldest query; a shut-down executor still works off
\* what it holds (shutdown(wait=False) cancels nothing).
TakeJob ==
    /\ work # <<>> /\ Cardinality(Busy) < DnsWorkers
    /\ job' = [job EXCEPT ![Head(work)] = "resolving"]
    /\ work' = Tail(work)
    /\ UNCHANGED <<engineVars, queue, cap, connMap, leaked, app, relay>>

\* Faulty variant: a query that could not be resolved is submitted again.
ResolvedRetries(q) ==
    /\ job[q] = "resolving"
    /\ \/ job' = [job EXCEPT ![q] = "answering"] /\ UNCHANGED work
       \/ job' = [job EXCEPT ![q] = "queued"] /\ work' = Append(work, q)
    /\ UNCHANGED <<engineVars, queue, cap, connMap, leaked, app, relay>>

\* DohClient.resolve returns an answer, or raises and the query is dropped.
Resolved(q) ==
    /\ job[q] = "resolving"
    /\ job' \in {[job EXCEPT ![q] = "answering"], [job EXCEPT ![q] = "none"]}
    /\ UNCHANGED <<engineVars, queue, cap, connMap, work, leaked, app, relay>>

\* The reply built in place is injected, if the handle is still open.
Answer(q) ==
    /\ job[q] = "answering"
    /\ job' = [job EXCEPT ![q] = "none"]
    /\ UNCHANGED <<engineVars, queue, cap, connMap, work, leaked, app, relay>>

-----------------------------------------------------------------------------
(* The relay's end of a connection: its handler and the host's TCP stack.  *)

Room == handle = "open" /\ Len(queue) < QueueMax
Emit(p) == queue' = Append(queue, p)
restOfRelay == <<engineVars, cap, connMap, dnsVars, leaked, app>>

\* handle: look up where the accepted client was going; a client without an
\* entry is left (and the server closes its socket).
Lookup(f) ==
    /\ relay[f].st = "accepted"
    /\ relay' = [relay EXCEPT ![f] =
                    [@ EXCEPT !.to = connMap[f],
                              !.st = IF connMap[f] = NoServer THEN "leaving" ELSE "serving"]]
    /\ UNCHANGED <<restOfRelay, queue>>

\* A segment other than FIN and RST: SYN-ACK, data or acknowledgement.
RelaySegment(f) ==
    /\ Room /\ relay[f].st # "none"
    /\ Emit(TcpPacket(IF relay[f].finSent THEN "ack" ELSE "reply", f, relay[f].for))
    /\ UNCHANGED <<restOfRelay, relay>>

RelayFin(f) ==
    /\ Room /\ relay[f].st \in {"serving", "leaving"} /\ ~relay[f].finSent
    /\ Emit(TcpPacket("replyFin", f, relay[f].for))
    /\ relay' = [relay EXCEPT ![f] = IF @.finRcvd THEN NoRelay
                                                  ELSE [@ EXCEPT !.finSent = TRUE]]
    /\ UNCHANGED restOfRelay

\* The handler closes its socket with unread data in it.
RelayRst(f) ==
    /\ Room /\ relay[f].st \in {"serving", "leaving"}
    /\ Emit(TcpPacket("replyRst", f, relay[f].for))
    /\ relay' = [relay EXCEPT ![f] = NoRelay]
    /\ UNCHANGED restOfRelay

-----------------------------------------------------------------------------
(* The applications *)

Quiet(f) ==
    /\ cap.pc = "dispatch" => cap.pkt.flow # f
    /\ \A i \in DOMAIN queue : queue[i].flow # f

restOfApp == <<engineVars, cap, connMap, dnsVars, leaked, relay>>

\* The host gives a source port to a new connection only when nothing of the
\* previous one is still under way inside the host.
Connect(f) ==
    /\ Room /\ Quiet(f) /\ ~app[f].ack /\ app[f].st \in {"closed", "aborted"}
    /\ \E s \in Servers :
          /\ app' = [app EXCEPT ![f] = [st |-> "open", dst |-> s, ack |-> FALSE]]
          /\ Emit(TcpPacket("syn", f, s))
    /\ UNCHANGED restOfApp

\* Data or an acknowledgement; also the one that a FIN is owed.
AppSegment(f) ==
    /\ Room
    /\ app[f].st \in {"open", "finRcvd"} \/ app[f].ack
    /\ Emit(TcpPacket("data", f, app[f].dst))
    /\ app' = [app EXCEPT ![f].ack = FALSE]
    /\ UNCHANGED restOfApp

AppFin(f) ==
    /\ Room /\ app[f].st \in {"open", "finRcvd"}
    /\ Emit(TcpPacket("fin", f, app[f].dst))
    /\ app' = [app EXCEPT ![f].st = IF @ = "open" THEN "finSent" ELSE "closed",
                          ![f].ack = FALSE]
    /\ UNCHANGED restOfApp

AppRst(f) ==
    /\ Room /\ app[f].st \in {"open", "finSent", "finRcvd"}
    /\ Emit(TcpPacket("rst", f, app[f].dst))
    /\ app' = [app EXCEPT ![f].st = "aborted", ![f].ack = FALSE]
    /\ UNCHANGED restOfApp

Ask(q) ==
    /\ Room /\ Quiet(q) /\ job[q] = "none"
    /\ Emit(DnsPacket(q))
    /\ UNCHANGED <<restOfApp, app>>

\* Without block_quic the filter leaves UDP port 443 in the kernel.
SendQuic ==
    /\ Room /\ BlockQuic
    /\ Emit(QuicPacket)
    /\ UNCHANGED <<restOfApp, app>>

-----------------------------------------------------------------------------
Worker(q) == Resolved(q) \/ Answer(q)
RelaySide(f) == Lookup(f) \/ RelaySegment(f) \/ RelayFin(f) \/ RelayRst(f)
AppSide(f) == Connect(f) \/ AppSegment(f) \/ AppFin(f) \/ AppRst(f)

Next ==
    \/ Start \/ PressStop \/ Quit \/ Finish
    \/ Exit \/ Gone
    \/ Capture
    \/ TakeJob \/ \E q \in Queries : Worker(q)
    \/ \E f \in Flows : RelaySide(f) \/ AppSide(f)
    \/ \E q \in Queries : Ask(q)
    \/ SendQuic

\* Threads keep being scheduled, resolve returns by its timeouts, and main
\* returns after _cleanup.  The user may never press STOP or quit, a start may
\* take for ever, and applications may never send anything.
Fairness ==
    /\ WF_vars(Finish)
    /\ WF_vars(process = "quitting" /\ Exit) /\ WF_vars(Gone)
    /\ WF_vars(Capture)
    /\ WF_vars(TakeJob)
    /\ \A q \in Queries : WF_vars(Worker(q))

Spec == Init /\ [][Next]_vars
FairSpec == Spec /\ Fairness

-----------------------------------------------------------------------------
(* Properties *)

\* No captured DNS query is sent on in clear text, as long as no handle is
\* opened that stop will not close and none is open when the program ends: the
\* re-injection of _run_loop (602-603) meets a query only when submit has
\* failed, and stop closes the handle before it shuts the pool (565-572), also
\* when it overtakes start.  Stated by the comment "fail-closed" of line 639.
NoPlaintextDns == ~missed => \A q \in Queries : DnsPacket(q) \notin leaked

\* As long as no handle is missed, the pool accepts queries while packets can
\* be sent, from before the capture thread runs until after the handle is
\* closed: the orders of start (545, 554, 558) and of stop (567, 571) keep
\* that up however the two overlap.
PoolOutlivesHandle ==
    /\ cap.pc # "off" => starter \in {"running", "dead"}
    /\ starter \in {"pooled", "running"} /\ stopper \in {"idle", "stop1"} => pool = "up"
    /\ handle = "open" =>
          /\ starter \in {"opened", "pooled", "running"}
          /\ ~missed => stopper \in {"idle", "stop1"} /\ process \in {"up", "quitting"}
    /\ cap.pc = "reinject" /\ ~missed => handle # "open"

\* The relay connects every client to the server the client asked for,
\* although the entry its handler reads belongs to whoever used the source
\* port last and the capture thread rewrites it meanwhile (340-343, 649-653);
\* and while the engine captures, no handler is turned away for want of an
\* entry, however late it runs.  A stop that misses the handle clears the
\* table of an engine that goes on capturing: nothing is said of that one.
RelayServesItsClient ==
    ~missed =>
        \A f \in Flows :
            /\ relay[f].st = "serving" => relay[f].to = relay[f].for
            /\ relay[f].st = "accepted" /\ handle = "open" => connMap[f] = relay[f].for

Waiting(f, s) == app[f].st \in {"open", "finSent", "finRcvd"} /\ app[f].dst = s

\* Every reply is passed off as coming from the server its connection was
\* opened to, never from the one an earlier connection of that port had; and
\* none up to and including the relay's FIN is dropped while its application
\* waits for it, also after the application has half-closed (659-668).  That
\* does not extend to a RST that follows the FIN: the entry is gone then until
\* the application sends its next segment; nor to a missed handle.
ReplyFromRightServer ==
    cap.pc = "dispatch" /\ cap.pkt.kind \in ReplyKinds /\ ~missed =>
        LET f == cap.pkt.flow IN
        /\ connMap[f] \in {cap.pkt.dst, NoServer}
        /\ cap.pkt.kind \in {"reply", "replyFin"} /\ Waiting(f, cap.pkt.dst)
              /\ handle = "open" => connMap[f] # NoServer

\* The application's RST removes the entry for good: nothing that was still
\* under way puts it back (652-653).
AbortedFlowForgotten ==
    \A f \in Flows :
        app[f].st = "aborted" /\ Quiet(f) /\ handle = "open" /\ ~missed
            => connMap[f] = NoServer

\* stop comes to an end and so does the capture thread, which stop does not
\* wait for: the flag is set before the handle is closed, so the exception of
\* recv always finds it set (562-568, 592-599).  When the program quits while
\* start is under way, start may clear the flag again (555), and the capture
\* thread ends with the program, which no thread holds up.
StopCompletes ==
    stopper # "idle" ~> \/ stopper = "stopped" /\ cap.pc = "exited"
                        \/ process = "gone"

\* Every query handed to the executor is worked off, also one that is still
\* queued when stop shuts the executor down.
DnsSettles == \A q \in Queries : job[q] # "none" ~> job[q] = "none"
=============================================================================
