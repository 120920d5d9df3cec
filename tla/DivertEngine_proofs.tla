------------------------ MODULE DivertEngine_proofs ------------------------
(***************************************************************************)
(* Proofs about DivertEngine, for every number of flows, servers, queries  *)
(* and workers and for a driver queue of any length; then, at the end of   *)
(* the module, about UpstreamPorts, which keeps the relay's own            *)
(* connections out of the engine's capture filter.                         *)
(***************************************************************************)
EXTENDS DivertEngine, UpstreamPorts, SequenceTheorems, TLAPS

(***************************************************************************)
(* Packets are told apart by their kind.                                   *)
(***************************************************************************)
LEMMA PacketKinds ==
    ASSUME NEW p \in Packets
    PROVE  /\ p.kind \in ClientKinds \cup ReplyKinds =>
                 p \in TcpPackets /\ p.flow \in Flows /\ p.dst \in Servers
           /\ p.kind = "dns" => p \in DnsPackets /\ p.flow \in Queries /\ p = DnsPacket(p.flow)
           /\ p.kind \in ClientKinds \cup ReplyKinds \cup {"dns", "quic"}
  BY DEF Packets, TcpPackets, DnsPackets, QuicPacket, DnsPacket, ClientKinds, ReplyKinds

LEMMA TcpPacketType ==
    \A k \in ClientKinds \cup ReplyKinds, f \in Flows, s \in Servers :
        TcpPacket(k, f, s) \in Packets
  BY DEF TcpPacket, TcpPackets, Packets

LEMMA OtherPacketTypes ==
    /\ \A q \in Queries : DnsPacket(q) \in Packets
    /\ QuicPacket \in Packets /\ NoPacket \in Packets
  BY DEF DnsPacket, DnsPackets, Packets, QuicPacket, NoPacket

LEMMA EmptyTypes == NoApp \in AppEnds /\ NoRelay \in RelayEnds
  BY DEF NoApp, NoRelay, AppEnds, RelayEnds, AppStates, RelayStates

-----------------------------------------------------------------------------
(***************************************************************************)
(* Type correctness.  EndsKnown is needed: a segment carries the server of *)
(* its connection, so whoever sends one must have a server.                *)
(***************************************************************************)
LEMMA TypeInit == Init => TypeInv
  <1> SUFFICES ASSUME Init PROVE TypeInv
    OBVIOUS
  <1>1. TypeOK
    BY OtherPacketTypes, EmptyTypes, EmptySeq DEF Init, TypeOK, StarterStates, StopperStates, CapStates
  <1>2. EndsKnown
    BY DEF Init, EndsKnown, NoApp, NoRelay
  <1> QED BY <1>1, <1>2 DEF TypeInv

\* start, stop and the end of the program: no packet is sent.
LEMMA TypeCtl == TypeInv /\ (Start \/ PressStop \/ Quit \/ Finish \/ Exit \/ Gone) => TypeInv'
  <1> SUFFICES ASSUME TypeInv, Start \/ PressStop \/ Quit \/ Finish \/ Exit \/ Gone PROVE TypeInv'
    OBVIOUS
  <1> USE DEF TypeInv, TypeOK, StarterStates, StopperStates, CapStates
  <1>1. CASE Start
    <2>1. UNCHANGED <<queue, connMap, work, job, leaked, app, relay, stopper, process>>
      BY <1>1 DEF Start, Probe, StartRelay, OpenDivert, OpenFails, MakePool,
         StartCapture, restOfStart, dnsVars
    <2>2. /\ starter' \in StarterStates /\ stop' \in BOOLEAN /\ listening' \in BOOLEAN
          /\ handle' \in {"none", "open", "closed"} /\ pool' \in {"none", "up", "shut"}
          /\ cap' \in [pc : CapStates, pkt : Packets]
      BY <1>1 DEF Start, Probe, StartRelay, OpenDivert, OpenFails, MakePool, StartCapture
    <2>3. missed' \in BOOLEAN
      BY <1>1 DEF Start, Probe, StartRelay, OpenDivert, OpenFails, MakePool, StartCapture
    <2> QED BY <2>1, <2>2, <2>3 DEF EndsKnown
  <1>2. CASE PressStop \/ Quit \/ Finish
    <2>1. UNCHANGED <<starter, missed, cap, work, job, leaked, app, relay>>
      BY <1>2 DEF PressStop, Quit, SetStop, Finish, CloseHandle, ShutPool, ForgetPool, StopRelay,
         CloseDoh, ClearMap, restOfStop, dnsVars
    <2>2. /\ stop' \in BOOLEAN /\ listening' \in BOOLEAN
          /\ handle' \in {"none", "open", "closed"} /\ pool' \in {"none", "up", "shut"}
          /\ connMap' \in [Flows -> Servers \cup {NoServer}]
      BY <1>2 DEF PressStop, Quit, SetStop, Finish, CloseHandle, ShutPool, ForgetPool, StopRelay,
         CloseDoh, ClearMap
    <2>3. queue' \in Seq(Packets)
      BY <1>2, EmptySeq DEF PressStop, Quit, SetStop, Finish, CloseHandle, ShutPool, ForgetPool,
         StopRelay, CloseDoh, ClearMap
    <2>4. stopper' \in StopperStates /\ process' \in {"up", "quitting", "exiting", "gone"}
      BY <1>2 DEF PressStop, Quit, SetStop, Finish, CloseHandle, ShutPool, ForgetPool, StopRelay,
         CloseDoh, ClearMap
    <2> QED BY <2>1, <2>2, <2>3, <2>4 DEF EndsKnown
  <1>3. CASE Exit
    BY <1>3 DEF Exit, EndsKnown, dnsVars
  <1>4. CASE Gone
    <2>1. relay' \in [Flows -> RelayEnds] /\ EndsKnown'
      BY <1>4, EmptyTypes DEF Gone, EndsKnown, NoRelay
    <2>2. cap' \in [pc : CapStates, pkt : Packets] /\ queue' \in Seq(Packets)
      BY <1>4, OtherPacketTypes, EmptySeq DEF Gone
    <2> QED BY <1>4, <2>1, <2>2 DEF Gone, dnsVars
  <1> QED BY <1>1, <1>2, <1>3, <1>4

\* A packet put back by _send leaves both ends well formed.
LEMMA AtRelayType ==
    ASSUME TypeInv, NEW p \in Packets, p.kind \in ClientKinds, AtRelay(p), app' = app
    PROVE  relay' \in [Flows -> RelayEnds] /\ EndsKnown'
  <1>1. p.flow \in Flows /\ p.dst \in Servers
    BY PacketKinds
  <1> DEFINE r == relay[p.flow]
  <1>2. r \in RelayEnds
    BY <1>1 DEF TypeInv, TypeOK
  <1>3. /\ [NoRelay EXCEPT !.st = "accepted", !.for = p.dst] \in RelayEnds
        /\ [NoRelay EXCEPT !.st = "accepted", !.for = p.dst].for = p.dst
    BY <1>1 DEF NoRelay, RelayEnds, RelayStates
  <1>4. /\ [r EXCEPT !.finRcvd = TRUE] \in RelayEnds
        /\ [r EXCEPT !.finRcvd = TRUE].st = r.st
        /\ [r EXCEPT !.finRcvd = TRUE].for = r.for
    BY <1>2 DEF RelayEnds
  <1>5. NoRelay \in RelayEnds /\ NoRelay.st = "none"
    BY EmptyTypes DEF NoRelay
  <1>6. PICK x : /\ x \in RelayEnds
                 /\ x.st # "none" => x.for \in Servers
                 /\ relay' = [relay EXCEPT ![p.flow] = x] \/ relay' = relay
    <2>1. CASE p.kind = "syn" /\ relay[p.flow].st = "none" /\ listening
      BY <2>1, <1>1, <1>3 DEF AtRelay
    <2>2. CASE p.kind = "rst"
      BY <2>2, <1>5 DEF AtRelay
    <2>3. CASE p.kind = "fin" /\ relay[p.flow].st # "none"
      <3>1. r.for \in Servers
        BY <2>3, <1>1 DEF TypeInv, EndsKnown
      <3> QED BY <2>3, <3>1, <1>4, <1>5 DEF AtRelay
    <2>4. CASE /\ ~(p.kind = "syn" /\ relay[p.flow].st = "none" /\ listening)
               /\ p.kind # "rst"
               /\ ~(p.kind = "fin" /\ relay[p.flow].st # "none")
      BY <2>4, <1>5 DEF AtRelay
    <2> QED BY <2>1, <2>2, <2>3, <2>4
  <1>7. relay \in [Flows -> RelayEnds] /\ EndsKnown
    BY DEF TypeInv, TypeOK
  <1>8. relay' \in [Flows -> RelayEnds]
    BY <1>1, <1>6, <1>7
  <1> QED BY <1>1, <1>6, <1>7, <1>8 DEF EndsKnown

LEMMA AtAppType ==
    ASSUME TypeInv, NEW p \in Packets, p.kind \in ReplyKinds,
           NEW src \in Servers, AtApp(p, src), relay' = relay
    PROVE  app' \in [Flows -> AppEnds] /\ EndsKnown'
  <1>1. p.flow \in Flows
    BY PacketKinds
  <1> DEFINE a == app[p.flow]
             b == [a EXCEPT !.st = IF a.st = "open" THEN "finRcvd" ELSE "closed",
                            !.ack = TRUE]
  <1>2. a \in AppEnds
    BY <1>1 DEF TypeInv, TypeOK
  <1>3. b \in AppEnds /\ b.dst = a.dst
    BY <1>2 DEF AppEnds, AppStates
  <1>5. NoApp.st = "closed" /\ NoApp.ack = FALSE /\ NoApp \in AppEnds
    BY EmptyTypes DEF NoApp
  <1>4. PICK x : /\ x \in AppEnds
                 /\ x.st # "closed" \/ x.ack => x.dst \in Servers
                 /\ app' = [app EXCEPT ![p.flow] = x] \/ app' = app
    <2> DEFINE mine == a.dst = src /\ a.st \in {"open", "finSent", "finRcvd"}
    <2>1. CASE mine /\ p.kind = "replyRst"
      <3>1. app' = [app EXCEPT ![p.flow] = NoApp]
        BY <2>1 DEF AtApp
      <3> QED BY <3>1, <1>5
    <2>2. CASE mine /\ p.kind = "replyFin"
      <3>1. app' = [app EXCEPT ![p.flow] = b]
        BY <2>2, <1>1, <1>2 DEF AtApp, AppEnds, TypeInv, TypeOK
      <3> QED BY <2>2, <3>1, <1>3
    <2>3. CASE ~(mine /\ p.kind = "replyRst") /\ ~(mine /\ p.kind = "replyFin")
      <3>1. app' = app
        BY <2>3 DEF AtApp
      <3> QED BY <3>1, <1>5
    <2> QED BY <2>1, <2>2, <2>3
  <1> QED BY <1>1, <1>4 DEF TypeInv, TypeOK, EndsKnown

LEMMA TypeCapture == TypeInv /\ Capture => TypeInv'
  <1> SUFFICES ASSUME TypeInv, Capture PROVE TypeInv'
    OBVIOUS
  <1> DEFINE p == cap.pkt
  <1>0. /\ TypeOK /\ EndsKnown /\ p \in Packets
        /\ [pc |-> "top", pkt |-> NoPacket] \in [pc : CapStates, pkt : Packets]
    BY OtherPacketTypes DEF TypeInv, TypeOK, CapStates
  <1>1. CASE LoopTop \/ RecvRaises \/ Reinject
    <2>1. UNCHANGED <<engineVars, queue, connMap, dnsVars, app, relay>>
      BY <1>1 DEF LoopTop, RecvRaises, Reinject
    <2>2. cap' \in [pc : CapStates, pkt : Packets] /\ leaked' \in SUBSET Packets
      BY <1>0, <1>1 DEF LoopTop, RecvRaises, Reinject, NextPacket, TypeOK, CapStates
    <2> QED BY <1>0, <2>1, <2>2 DEF TypeInv, TypeOK, EndsKnown, engineVars, dnsVars
  <1>2. CASE Recv
    <2>1. queue \in Seq(Packets) /\ queue # <<>>
      BY <1>0, <1>2 DEF Recv, TypeOK
    <2>2. Head(queue) \in Packets /\ Tail(queue) \in Seq(Packets)
      BY <2>1
    <2> QED BY <1>0, <1>2, <2>2 DEF Recv, TypeInv, TypeOK, EndsKnown, engineVars, dnsVars,
               CapStates
  <1>3. CASE DispatchDns
    <2>1. p.flow \in Queries
      BY <1>3, <1>0, PacketKinds DEF DispatchDns
    <2>2. work' \in Seq(Queries)
      <3>1. work \in Seq(Queries) /\ Append(work, p.flow) \in Seq(Queries)
        BY <1>0, <2>1, AppendProperties DEF TypeOK
      <3> QED BY <1>3, <3>1 DEF DispatchDns, dnsVars
    <2>3. job' \in [Queries -> {"none", "queued", "resolving", "answering"}]
      BY <1>3, <1>0, <2>1 DEF DispatchDns, TypeOK, dnsVars
    <2>4. cap' \in [pc : CapStates, pkt : Packets]
      BY <1>3, <1>0 DEF DispatchDns, NextPacket, TypeOK, CapStates
    <2> QED BY <1>0, <1>3, <2>2, <2>3, <2>4
            DEF DispatchDns, TypeInv, TypeOK, EndsKnown, engineVars
  <1>4. CASE DispatchQuic
    BY <1>0, <1>4 DEF DispatchQuic, NextPacket, TypeInv, TypeOK, EndsKnown, engineVars, dnsVars
  <1>5. CASE Redirect
    <2>1. p.kind \in ClientKinds /\ p.flow \in Flows /\ p.dst \in Servers
      BY <1>0, <1>5, PacketKinds DEF Redirect, TurnRound, Noted
    <2>2. connMap' \in [Flows -> Servers \cup {NoServer}]
      BY <1>0, <1>5, <2>1 DEF Redirect, TurnRound, Noted, TypeOK
    <2>3. relay' \in [Flows -> RelayEnds] /\ EndsKnown'
      <3>1. app' = app
        BY <1>5 DEF Redirect, TurnRound, Noted
      <3>2. CASE handle = "open"
        BY <1>0, <1>5, <2>1, <3>1, <3>2, AtRelayType DEF Redirect, TurnRound, Noted
      <3>3. CASE handle # "open"
        BY <1>0, <1>5, <3>1, <3>3 DEF Redirect, TurnRound, Noted, TypeOK, EndsKnown
      <3> QED BY <3>2, <3>3
    <2> QED BY <1>0, <1>5, <2>2, <2>3 DEF Redirect, TurnRound, Noted, NextPacket, TypeInv, TypeOK, engineVars, dnsVars
  <1>6. CASE RewriteReply
    <2>1. p.kind \in ReplyKinds /\ p.flow \in Flows
      BY <1>0, <1>6, PacketKinds DEF RewriteReply, PassBack
    <2>2. connMap' \in [Flows -> Servers \cup {NoServer}]
      BY <1>0, <1>6, <2>1 DEF RewriteReply, PassBack, TypeOK
    <2>3. app' \in [Flows -> AppEnds] /\ EndsKnown'
      <3>1. relay' = relay
        BY <1>6 DEF RewriteReply, PassBack
      <3>2. CASE connMap[p.flow] # NoServer /\ handle = "open"
        <4>1. connMap[p.flow] \in Servers
          BY <1>0, <2>1, <3>2 DEF TypeOK
        <4>2. AtApp(p, connMap[p.flow])
          BY <1>6, <3>2 DEF RewriteReply, PassBack
        <4> QED BY <1>0, <2>1, <3>1, <4>1, <4>2, AtAppType
      <3>3. CASE ~(connMap[p.flow] # NoServer /\ handle = "open")
        BY <1>0, <1>6, <3>1, <3>3 DEF RewriteReply, PassBack, TypeOK, EndsKnown
      <3> QED BY <3>2, <3>3
    <2> QED BY <1>0, <1>6, <2>2, <2>3
            DEF RewriteReply, PassBack, NextPacket, TypeInv, TypeOK, engineVars, dnsVars
  <1> QED BY <1>1, <1>2, <1>3, <1>4, <1>5, <1>6 DEF Capture

\* The workers touch only the executor's queue and their own job.
LEMMA TypeWorkers == TypeInv /\ (TakeJob \/ \E q \in Queries : Worker(q)) => TypeInv'
  <1> SUFFICES ASSUME TypeInv, TakeJob \/ \E q \in Queries : Worker(q) PROVE TypeInv'
    OBVIOUS
  <1> USE DEF TypeInv, TypeOK, EndsKnown, engineVars
  <1>1. CASE TakeJob
    <2>1. work \in Seq(Queries) /\ work # <<>>
      BY <1>1 DEF TakeJob
    <2>2. Head(work) \in Queries /\ Tail(work) \in Seq(Queries)
      BY <2>1
    <2> QED BY <1>1, <2>2 DEF TakeJob
  <1>2. ASSUME NEW q \in Queries, Resolved(q) PROVE TypeInv'
    BY <1>2 DEF Resolved
  <1>3. ASSUME NEW q \in Queries, Answer(q) PROVE TypeInv'
    BY <1>3 DEF Answer
  <1> QED BY <1>1, <1>2, <1>3 DEF Worker

LEMMA EmitType ==
    ASSUME TypeInv, NEW p \in Packets, Emit(p)
    PROVE  queue' \in Seq(Packets)
  BY AppendProperties DEF TypeInv, TypeOK, Emit

LEMMA TypeRelay == ASSUME TypeInv, NEW f \in Flows, RelaySide(f) PROVE TypeInv'
  <1> DEFINE r == relay[f]
  <1>1. TypeOK /\ EndsKnown /\ r \in RelayEnds /\ (r.st # "none" => r.for \in Servers)
    BY DEF TypeInv, TypeOK, EndsKnown
  <1>2. NoRelay \in RelayEnds /\ NoRelay.st = "none"
    BY EmptyTypes DEF NoRelay
  <1>3. CASE Lookup(f)
    <2> DEFINE x == [r EXCEPT !.to = connMap[f],
                              !.st = IF connMap[f] = NoServer THEN "leaving" ELSE "serving"]
    <2>1. relay' = [relay EXCEPT ![f] = x] /\ r.st = "accepted"
      BY <1>3 DEF Lookup
    <2>2. x \in RelayEnds /\ x.for = r.for
      BY <1>1 DEF RelayEnds, RelayStates, TypeOK
    <2>3. relay' \in [Flows -> RelayEnds]
      BY <1>1, <2>1, <2>2 DEF TypeOK
    <2>4. EndsKnown'
      BY <1>1, <1>3, <2>1, <2>2 DEF Lookup, restOfRelay, EndsKnown, TypeOK
    <2> QED BY <1>1, <1>3, <2>3, <2>4 DEF Lookup, restOfRelay, TypeInv, TypeOK, engineVars, dnsVars
  <1>4. CASE RelaySegment(f)
    <2>1. Emit(TcpPacket(IF r.finSent THEN "ack" ELSE "reply", f, r.for)) /\ r.for \in Servers
      BY <1>1, <1>4 DEF RelaySegment
    <2>2. TcpPacket(IF r.finSent THEN "ack" ELSE "reply", f, r.for) \in Packets
      BY <2>1, TcpPacketType DEF ReplyKinds
    <2>3. queue' \in Seq(Packets)
      BY <2>1, <2>2, EmitType
    <2> QED BY <1>1, <1>4, <2>3
            DEF RelaySegment, restOfRelay, TypeInv, TypeOK, EndsKnown, engineVars, dnsVars
  <1>5. CASE RelayFin(f) \/ RelayRst(f)
    <2>1. PICK k \in {"replyFin", "replyRst"} : Emit(TcpPacket(k, f, r.for)) /\ r.for \in Servers
      BY <1>1, <1>5 DEF RelayFin, RelayRst
    <2>2. TcpPacket(k, f, r.for) \in Packets
      BY <2>1, TcpPacketType DEF ReplyKinds
    <2>3. queue' \in Seq(Packets)
      BY <2>1, <2>2, EmitType
    <2>4. PICK x \in RelayEnds : /\ relay' = [relay EXCEPT ![f] = x]
                                 /\ x.st # "none" => x.for \in Servers
      <3> DEFINE y == [r EXCEPT !.finSent = TRUE]
      <3>1. y \in RelayEnds /\ y.for = r.for
        BY <1>1 DEF RelayEnds
      <3> QED BY <1>2, <1>5, <2>1, <3>1 DEF RelayFin, RelayRst
    <2> QED BY <1>1, <1>5, <2>3, <2>4
            DEF RelayFin, RelayRst, restOfRelay, TypeInv, TypeOK, EndsKnown, engineVars, dnsVars
  <1> QED BY <1>3, <1>4, <1>5 DEF RelaySide

LEMMA TypeApp == ASSUME TypeInv, NEW f \in Flows, AppSide(f) PROVE TypeInv'
  <1> DEFINE a == app[f]
  <1>1. TypeOK /\ EndsKnown /\ a \in AppEnds
        /\ (a.st # "closed" \/ a.ack => a.dst \in Servers)
    BY DEF TypeInv, TypeOK, EndsKnown
  <1>2. PICK k \in ClientKinds, s \in Servers : Emit(TcpPacket(k, f, s))
    BY <1>1 DEF AppSide, Connect, AppSegment, AppFin, AppRst, ClientKinds
  <1>3. queue' \in Seq(Packets)
    BY <1>2, TcpPacketType, EmitType
  <1>4. PICK x \in AppEnds : /\ app' = [app EXCEPT ![f] = x]
                             /\ x.st # "closed" \/ x.ack => x.dst \in Servers
    <2>1. CASE Connect(f)
      <3>1. PICK t \in Servers :
                app' = [app EXCEPT ![f] = [st |-> "open", dst |-> t, ack |-> FALSE]]
        BY <2>1 DEF Connect
      <3> DEFINE y == [st |-> "open", dst |-> t, ack |-> FALSE]
      <3>2. y \in AppEnds /\ y.dst \in Servers
        BY DEF AppEnds, AppStates
      <3> QED BY <3>1, <3>2
    <2>2. CASE AppSegment(f)
      <3> DEFINE y == [a EXCEPT !.ack = FALSE]
      <3>1. y \in AppEnds /\ y.dst = a.dst /\ a.dst \in Servers
        BY <1>1, <2>2 DEF AppEnds, AppSegment
      <3>2. app' = [app EXCEPT ![f] = y]
        BY <2>2 DEF AppSegment
      <3> QED BY <3>1, <3>2
    <2>3. CASE AppFin(f)
      <3> DEFINE y == [a EXCEPT !.st = IF a.st = "open" THEN "finSent" ELSE "closed",
                                !.ack = FALSE]
      <3>1. y \in AppEnds /\ y.dst = a.dst /\ a.dst \in Servers
        BY <1>1, <2>3 DEF AppEnds, AppStates, AppFin
      <3>2. app' = [app EXCEPT ![f] = y]
        BY <1>1, <2>3 DEF AppFin, TypeOK, AppEnds
      <3> QED BY <3>1, <3>2
    <2>4. CASE AppRst(f)
      <3> DEFINE y == [a EXCEPT !.st = "aborted", !.ack = FALSE]
      <3>1. y \in AppEnds /\ y.dst = a.dst /\ a.dst \in Servers
        BY <1>1, <2>4 DEF AppEnds, AppStates, AppRst
      <3>2. app' = [app EXCEPT ![f] = y]
        BY <1>1, <2>4 DEF AppRst, TypeOK, AppEnds
      <3> QED BY <3>1, <3>2
    <2> QED BY <2>1, <2>2, <2>3, <2>4 DEF AppSide
  <1>5. UNCHANGED <<engineVars, cap, connMap, dnsVars, leaked, relay>>
    BY DEF AppSide, Connect, AppSegment, AppFin, AppRst, restOfApp
  <1> QED BY <1>1, <1>3, <1>4, <1>5 DEF TypeInv, TypeOK, EndsKnown, engineVars, dnsVars

LEMMA TypeTraffic == TypeInv /\ ((\E q \in Queries : Ask(q)) \/ SendQuic) => TypeInv'
  <1> SUFFICES ASSUME TypeInv, (\E q \in Queries : Ask(q)) \/ SendQuic PROVE TypeInv'
    OBVIOUS
  <1>1. PICK p \in Packets : Emit(p)
    BY OtherPacketTypes DEF Ask, SendQuic
  <1>2. queue' \in Seq(Packets)
    BY <1>1, EmitType
  <1>3. UNCHANGED <<engineVars, cap, connMap, dnsVars, leaked, relay, app>>
    BY DEF Ask, SendQuic, restOfApp
  <1> QED BY <1>2, <1>3 DEF TypeInv, TypeOK, EndsKnown, engineVars, dnsVars

LEMMA TypeStep == TypeInv /\ [Next]_vars => TypeInv'
  <1>1. TypeInv /\ UNCHANGED vars => TypeInv'
    BY DEF vars, engineVars, dnsVars, TypeInv, TypeOK, EndsKnown
  <1> QED
    BY <1>1, TypeCtl, TypeCapture, TypeWorkers, TypeRelay, TypeApp, TypeTraffic DEF Next

(***************************************************************************)
(* The state keeps its types: in particular every packet that is ever put  *)
(* back names a server, the table maps ports to servers only, and whoever  *)
(* may send a segment knows the server it belongs to (640-668).            *)
(***************************************************************************)
THEOREM TypeCorrect == Spec => []TypeInv
  BY TypeInit, TypeStep, PTL DEF Spec

-----------------------------------------------------------------------------
(***************************************************************************)
(* No plaintext DNS.  The packet that _run_loop re-injects is a query, and *)
(* it is there only because submit has failed.  PoolOutlivesHandle says    *)
(* that submit cannot fail while a handle is open that is not missed.  It  *)
(* needs EndOrder: before start has returned, the program ends only after  *)
(* the stop of _cleanup.                                                   *)
(***************************************************************************)
EndOrder ==
    /\ process = "gone" => starter = "dead"
    /\ process = "up" /\ stopper # "idle" => starter = "running"
    /\ process = "exiting" => stopper = "stopped" \/ starter \in {"running", "refused"}

DnsInv == TypeOK /\ PoolOutlivesHandle /\ EndOrder /\ NoPlaintextDns

LEMMA DnsInit == Init => PoolOutlivesHandle /\ EndOrder /\ NoPlaintextDns
  BY DEF Init, PoolOutlivesHandle, EndOrder, NoPlaintextDns

\* A missed handle stays missed.
LEMMA MissedStays == ASSUME TypeOK, [Next]_vars, missed PROVE missed'
  <1>1. CASE Start
    BY <1>1 DEF Start, Probe, StartRelay, OpenDivert, OpenFails, MakePool, StartCapture
  <1>2. CASE PressStop \/ Quit \/ Finish
    BY <1>2 DEF PressStop, Quit, SetStop, Finish, CloseHandle, ShutPool, ForgetPool, StopRelay,
       CloseDoh, ClearMap, restOfStop
  <1>3. CASE Exit \/ Gone
    BY <1>3 DEF Exit, Gone
  <1>4. CASE Capture
    BY <1>4 DEF Capture, LoopTop, Recv, RecvRaises, DispatchDns, Reinject, DispatchQuic,
       Redirect, TurnRound, RewriteReply, PassBack, engineVars
  <1>5. CASE TakeJob \/ \E q \in Queries : Worker(q)
    BY <1>5 DEF TakeJob, Worker, Resolved, Answer, engineVars
  <1>6. CASE \E f \in Flows : RelaySide(f) \/ AppSide(f)
    BY <1>6 DEF RelaySide, Lookup, RelaySegment, RelayFin, RelayRst, restOfRelay,
       AppSide, Connect, AppSegment, AppFin, AppRst, restOfApp, engineVars
  <1>7. CASE (\E q \in Queries : Ask(q)) \/ SendQuic
    BY <1>7 DEF Ask, SendQuic, restOfApp, engineVars
  <1>8. CASE UNCHANGED vars
    BY <1>8 DEF vars, engineVars
  <1> QED BY <1>1, <1>2, <1>3, <1>4, <1>5, <1>6, <1>7, <1>8 DEF Next

LEMMA DnsStep == DnsInv /\ [Next]_vars => (PoolOutlivesHandle /\ EndOrder /\ NoPlaintextDns)'
  <1> SUFFICES ASSUME DnsInv, [Next]_vars PROVE (PoolOutlivesHandle /\ EndOrder /\ NoPlaintextDns)'
    OBVIOUS
  <1>0. TypeOK /\ cap \in [pc : CapStates, pkt : Packets]
    BY DEF DnsInv, TypeOK
  <1> USE DEF DnsInv, PoolOutlivesHandle, EndOrder, NoPlaintextDns
  <1>a. missed => missed'
    BY MissedStays DEF DnsInv
  <1>1. CASE Start
    <2>1. leaked' = leaked
      BY <1>1 DEF Start, Probe, StartRelay, OpenDivert, OpenFails, MakePool,
         StartCapture, restOfStart
    <2>2. PoolOutlivesHandle' /\ EndOrder'
      BY <1>0, <1>1 DEF Start, Probe, StartRelay, OpenDivert, OpenFails, MakePool, StartCapture,
         restOfStart, TypeOK, StarterStates, StopperStates
    <2> QED BY <1>a, <2>1, <2>2
  <1>2. CASE PressStop \/ Quit \/ Finish
    <2>1. leaked' = leaked /\ cap' = cap /\ starter' = starter /\ missed' = missed
      BY <1>2 DEF PressStop, Quit, SetStop, Finish, CloseHandle, ShutPool, ForgetPool, StopRelay,
         CloseDoh, ClearMap, restOfStop
    <2>2. PoolOutlivesHandle' /\ EndOrder'
      BY <1>2, <2>1 DEF PressStop, Quit, SetStop, Finish, CloseHandle, ShutPool, ForgetPool,
         StopRelay, CloseDoh, ClearMap
    <2> QED BY <2>1, <2>2
  <1>8. CASE Exit \/ Gone
    <2>1. leaked' = leaked
      BY <1>8 DEF Exit, Gone
    <2>2. PoolOutlivesHandle' /\ EndOrder'
      BY <1>0, <1>8 DEF Exit, Gone, TypeOK
    <2> QED BY <1>a, <2>1, <2>2
  <1>3. CASE Capture
    <2>1. UNCHANGED engineVars /\ cap.pc # "off"
      BY <1>3 DEF Capture, LoopTop, Recv, RecvRaises, DispatchDns, Reinject, DispatchQuic,
         Redirect, TurnRound, RewriteReply, PassBack
    <2>2. CASE Reinject
      BY <2>1, <2>2 DEF Reinject, NextPacket, engineVars
    <2>3. CASE DispatchDns
      BY <1>0, <2>1, <2>3 DEF DispatchDns, NextPacket, engineVars
    <2>4. CASE LoopTop \/ Recv \/ RecvRaises \/ DispatchQuic \/ Redirect \/ RewriteReply
      <3>1. cap'.pc # "reinject" /\ leaked' = leaked
        BY <1>0, <2>4 DEF LoopTop, Recv, RecvRaises, DispatchQuic, Redirect, TurnRound,
           RewriteReply, PassBack, NextPacket
      <3> QED BY <2>1, <3>1 DEF engineVars
    <2> QED BY <1>3, <2>2, <2>3, <2>4 DEF Capture
  <1>4. CASE TakeJob \/ \E q \in Queries : Worker(q)
    <2>1. UNCHANGED <<engineVars, cap, leaked>>
      BY <1>4 DEF TakeJob, Worker, Resolved, Answer
    <2> QED BY <2>1 DEF engineVars
  <1>5. CASE \E f \in Flows : RelaySide(f) \/ AppSide(f)
    <2>1. UNCHANGED <<engineVars, cap, leaked>>
      BY <1>5 DEF RelaySide, Lookup, RelaySegment, RelayFin, RelayRst, restOfRelay,
         AppSide, Connect, AppSegment, AppFin, AppRst, restOfApp
    <2> QED BY <2>1 DEF engineVars
  <1>6. CASE (\E q \in Queries : Ask(q)) \/ SendQuic
    <2>1. UNCHANGED <<engineVars, cap, leaked>>
      BY <1>6 DEF Ask, SendQuic, restOfApp
    <2> QED BY <2>1 DEF engineVars
  <1>7. CASE UNCHANGED vars
    BY <1>7 DEF vars, engineVars
  <1> QED
    BY <1>1, <1>2, <1>3, <1>4, <1>5, <1>6, <1>7, <1>8 DEF Next

(***************************************************************************)
(* Fail-closed (divert_engine.py:639): no interleaving of the capture      *)
(* thread, the workers, start, stop and the end of the program ever puts a *)
(* captured query back on the wire, for any number of queries, workers and *)
(* flows, unless a handle is missed: opened after stop's close, or open    *)
(* when the program begins to end.                                         *)
(***************************************************************************)
THEOREM FailClosed == Spec => []NoPlaintextDns
  <1>1. TypeInv /\ PoolOutlivesHandle /\ EndOrder /\ NoPlaintextDns /\ [Next]_vars
           => (TypeInv /\ PoolOutlivesHandle /\ EndOrder /\ NoPlaintextDns)'
    BY TypeStep, DnsStep DEF DnsInv, TypeInv
  <1> QED BY <1>1, TypeInit, DnsInit, PTL DEF Spec

(***************************************************************************)
(* The ordering invariant itself (start 543-558, stop 562-572), with stop  *)
(* beside start at any step, and a missed handle as the exception.         *)
(***************************************************************************)
THEOREM PoolOrder == Spec => []PoolOutlivesHandle
  <1>1. TypeInv /\ PoolOutlivesHandle /\ EndOrder /\ NoPlaintextDns /\ [Next]_vars
           => (TypeInv /\ PoolOutlivesHandle /\ EndOrder /\ NoPlaintextDns)'
    BY TypeStep, DnsStep DEF DnsInv, TypeInv
  <1> QED BY <1>1, TypeInit, DnsInit, PTL DEF Spec

-----------------------------------------------------------------------------
(***************************************************************************)
(* Flows.  What the packets of one source port that are still under way    *)
(* say together with the two ends of its connection and its entry in       *)
(* conn_map.  `Wire` is everything under way, oldest first: the packet in  *)
(* dispatch, then the driver's queue.                                      *)
(***************************************************************************)
TcpKinds == ClientKinds \cup ReplyKinds
Wire == IF cap.pc = "dispatch" THEN <<cap.pkt>> \o queue ELSE queue

\* Where on the wire `w` the packets of flow f of one of the kinds K are.
Slots(w, f, K) == {i \in 1 .. Len(w) : w[i].flow = f /\ w[i].kind \in K}

\* The relay may still send segments that its client waits for.
RelayLive(r) == r.st # "none" /\ ~r.finSent
Live(w, r, f) == RelayLive(r) \/ Slots(w, f, {"reply", "replyFin"}) # {}

\* Everything that belongs to a connection of a flow names the same server,
\* and so does the entry as soon as the relay has a part in it.
SameServer(s, w, m, a, r, f) ==
    /\ r.st # "none" => r.for = s
    /\ a.st # "closed" \/ a.ack => a.dst = s
    /\ \A i \in Slots(w, f, TcpKinds) : w[i].dst = s
    /\ r.st # "none" \/ Slots(w, f, ReplyKinds) # {} => m \in {s, NoServer}

HandlerOK(r) ==
    /\ r.st = "serving" => r.to = r.for
    /\ r.st = "accepted" => ~r.finSent
    /\ r.st = "none" => ~r.finRcvd
    /\ ~(r.finSent /\ r.finRcvd)

\* While the engine captures.  A SYN is the first packet of its flow, and
\* finds the relay's end of the previous connection gone ...
SynFirst(w, a, r, f) ==
    \A i \in Slots(w, f, {"syn"}) :
        /\ \A j \in Slots(w, f, TcpKinds) : i <= j
        /\ Slots(w, f, ReplyKinds) = {}
        /\ r.st = "none"
        /\ a.st \notin {"closed", "finRcvd"}

\* ... no data follow the relay's FIN or RST ...
FinLast(w, r, f) ==
    \A i \in Slots(w, f, {"replyFin", "replyRst"}) :
        /\ ~RelayLive(r)
        /\ w[i].kind = "replyRst" => r.st = "none"
        /\ \A j \in Slots(w, f, {"reply", "replyFin"}) : j <= i

\* ... the entry is there while it is needed ...
EntryKept(w, m, a, r, f) ==
    /\ Live(w, r, f) /\ a.st \in {"open", "finSent", "finRcvd"} => m # NoServer
    /\ r.st = "accepted" => m = r.for

\* ... a connection closed by both FINs leaves nothing behind ...
Closing(w, a, r, f) ==
    /\ a.st = "finSent" =>
          \/ Slots(w, f, {"fin"}) # {} \/ r.finRcvd
          \/ r.st = "none" /\ Slots(w, f, {"syn"}) = {}
    /\ a.st \in {"closed", "finRcvd"} => ~Live(w, r, f)
    /\ a.st = "closed" => r.st = "none" \/ Slots(w, f, {"fin"}) # {}

\* ... and an RST of the application, its last packet, removes the rest.
Aborting(w, m, a, r, f) ==
    /\ Slots(w, f, {"rst"}) # {} => a.st = "aborted"
    /\ a.st = "aborted" =>
        /\ ~a.ack
        /\ \A i \in Slots(w, f, ClientKinds) : \E j \in Slots(w, f, {"rst"}) : i <= j
        /\ Slots(w, f, ClientKinds) = {} => m = NoServer /\ r.st = "none"

FlowOK(w, m, a, r, f) ==
    /\ SynFirst(w, a, r, f) /\ FinLast(w, r, f) /\ EntryKept(w, m, a, r, f)
    /\ Closing(w, a, r, f) /\ Aborting(w, m, a, r, f)

\* `on` says that the handle has not been closed.
FlowGood(on, w, m, a, r, f) ==
    /\ \E s \in Servers \cup {NoServer} : SameServer(s, w, m, a, r, f)
    /\ HandlerOK(r)
    /\ on => FlowOK(w, m, a, r, f)

FlowInv ==
    \A f \in Flows : FlowGood(handle # "closed", Wire, connMap[f], app[f], relay[f], f)

(***************************************************************************)
(* Slots when a packet joins the wire and when the oldest one leaves it.   *)
(***************************************************************************)
LEMMA SlotsAppend ==
    ASSUME NEW w \in Seq(Packets), NEW p \in Packets
    PROVE  /\ Len(w) \in Nat
           /\ \A f, K : Slots(w, f, K) \subseteq 1 .. Len(w)
           /\ \A f, K : Slots(Append(w, p), f, K) =
                 IF p.flow = f /\ p.kind \in K THEN Slots(w, f, K) \cup {Len(w) + 1}
                                               ELSE Slots(w, f, K)
           /\ \A i \in 1 .. Len(w) : Append(w, p)[i] = w[i]
           /\ Append(w, p)[Len(w) + 1] = p
  <1>1. Len(w) \in Nat /\ Len(Append(w, p)) = Len(w) + 1
        /\ (\A i \in 1 .. Len(w) : Append(w, p)[i] = w[i])
        /\ Append(w, p)[Len(w) + 1] = p
    BY LenProperties, AppendProperties
  <1> HIDE DEF Packets
  <1>2. ASSUME NEW f, NEW K
        PROVE  Slots(Append(w, p), f, K) =
                 IF p.flow = f /\ p.kind \in K THEN Slots(w, f, K) \cup {Len(w) + 1}
                                               ELSE Slots(w, f, K)
    BY <1>1 DEF Slots
  <1>3. \A f, K : Slots(w, f, K) \subseteq 1 .. Len(w)
    BY DEF Slots
  <1> QED BY <1>1, <1>2, <1>3

LEMMA SlotsTail ==
    ASSUME NEW w \in Seq(Packets), w # <<>>
    PROVE  /\ \A f, K, i : i \in Slots(Tail(w), f, K) <=>
                 i \in Nat \ {0} /\ i + 1 \in Slots(w, f, K)
           /\ \A f, K : \A i \in Slots(w, f, K) : i # 1 => i - 1 \in Slots(Tail(w), f, K)
           /\ \A i \in Nat \ {0} : i + 1 \in 1 .. Len(w) => Tail(w)[i] = w[i + 1]
           /\ \A f, K : 1 \in Slots(w, f, K) <=> Head(w).flow = f /\ Head(w).kind \in K
           /\ \A f, K : Slots(w, f, K) \subseteq Nat \ {0}
           /\ \A f, K : Slots(w, f, K) \subseteq 1 .. Len(w)
           /\ w[1] = Head(w)
  <1>1. /\ Len(w) \in Nat \ {0} /\ Len(Tail(w)) = Len(w) - 1
        /\ \A i \in 1 .. Len(Tail(w)) : Tail(w)[i] = w[i + 1]
        /\ Head(w) = w[1]
    BY LenProperties, HeadTailProperties, EmptySeq
  <1>2. ASSUME NEW f, NEW K, NEW i
        PROVE  i \in Slots(Tail(w), f, K) <=> i \in Nat \ {0} /\ i + 1 \in Slots(w, f, K)
    BY <1>1 DEF Slots
  <1> QED BY <1>1, <1>2 DEF Slots

\* A packet of another flow, or none of TCP, changes nothing for f.
LEMMA FrameAppend ==
    ASSUME NEW w \in Seq(Packets), NEW p \in Packets, NEW f, NEW m, NEW a, NEW r,
           NEW on \in BOOLEAN,
           p.flow # f \/ p.kind \notin TcpKinds, FlowGood(on, w, m, a, r, f)
    PROVE  FlowGood(on, Append(w, p), m, a, r, f)
  <1>1. \A K \in SUBSET TcpKinds : Slots(Append(w, p), f, K) = Slots(w, f, K)
    BY SlotsAppend
  <1>2. \A i \in 1 .. Len(w) : Append(w, p)[i] = w[i]
    BY SlotsAppend
  <1>3. \A K : Slots(w, f, K) \subseteq 1 .. Len(w)
    BY SlotsAppend
  <1>4. \A s : SameServer(s, w, m, a, r, f) => SameServer(s, Append(w, p), m, a, r, f)
    BY <1>1, <1>2, <1>3 DEF SameServer, TcpKinds
  <1>5. FlowOK(w, m, a, r, f) => FlowOK(Append(w, p), m, a, r, f)
    BY <1>1, <1>2, <1>3 DEF FlowOK, SynFirst, FinLast, EntryKept, Closing, Aborting, Live,
       TcpKinds, ClientKinds, ReplyKinds
  <1> QED BY <1>4, <1>5 DEF FlowGood

LEMMA FrameTail ==
    ASSUME NEW w \in Seq(Packets), w # <<>>, NEW f, NEW m, NEW a, NEW r, NEW on \in BOOLEAN,
           Head(w).flow # f \/ Head(w).kind \notin TcpKinds, FlowGood(on, w, m, a, r, f)
    PROVE  FlowGood(on, Tail(w), m, a, r, f)
  <1> DEFINE t == Tail(w)
  <1>1. \A K \in SUBSET TcpKinds : 1 \notin Slots(w, f, K)
    BY SlotsTail
  <1>2. \A K, i : i \in Slots(t, f, K) => i \in Nat /\ i + 1 \in Slots(w, f, K)
    BY SlotsTail
  <1>3. \A K \in SUBSET TcpKinds : \A i \in Slots(w, f, K) : i \in Nat /\ i - 1 \in Slots(t, f, K)
    BY <1>1, SlotsTail
  <1>4. \A K \in SUBSET TcpKinds : Slots(t, f, K) = {} <=> Slots(w, f, K) = {}
    BY <1>2, <1>3
  <1>5. \A K, i : i \in Slots(t, f, K) => t[i] = w[i + 1]
    BY <1>2, SlotsTail
  <1> HIDE DEF t
  <1>6. ASSUME NEW s, SameServer(s, w, m, a, r, f) PROVE SameServer(s, t, m, a, r, f)
    <2>1. Slots(t, f, ReplyKinds) # {} => Slots(w, f, ReplyKinds) # {}
      BY <1>4 DEF TcpKinds
    <2>2. \A i \in Slots(t, f, TcpKinds) : t[i].dst = s
      BY <1>2, <1>5, <1>6 DEF SameServer
    <2> QED BY <1>6, <2>1, <2>2 DEF SameServer
  <1>7. ASSUME FlowOK(w, m, a, r, f) PROVE FlowOK(t, m, a, r, f)
    <2> USE <1>2, <1>4, <1>5, <1>7 DEF FlowOK, TcpKinds, ClientKinds, ReplyKinds
    <2>1. SynFirst(t, a, r, f)
      BY DEF SynFirst
    <2>2. FinLast(t, r, f)
      BY DEF FinLast
    <2>3. EntryKept(t, m, a, r, f) /\ Closing(t, a, r, f)
      BY DEF EntryKept, Closing, Live
    <2>4. Aborting(t, m, a, r, f)
      BY <1>3 DEF Aborting
    <2> QED BY <2>1, <2>2, <2>3, <2>4
  <1> QED BY <1>6, <1>7 DEF FlowGood, t

(***************************************************************************)
(* What the steps of a flow do to its wire: its oldest packet p is taken,  *)
(* or p joins at the end.                                                  *)
(***************************************************************************)
Takes(w, p, t, f) ==
    /\ p.flow = f /\ p.kind \in TcpKinds /\ w[1] = p
    /\ \A K, i : i \in Slots(t, f, K) =>
          i \in Nat /\ i >= 1 /\ i + 1 \in Slots(w, f, K) /\ t[i] = w[i + 1]
    /\ \A K : \A i \in Slots(w, f, K) :
          i \in Nat /\ i >= 1 /\ (i # 1 => i - 1 \in Slots(t, f, K))
    /\ \A K : 1 \in Slots(w, f, K) <=> p.kind \in K

Joins(w, p, v, f) ==
    /\ p.flow = f /\ p.kind \in TcpKinds
    /\ \E n \in Nat :
          /\ v[n + 1] = p
          /\ \A K : \A i \in Slots(w, f, K) : i \in 1 .. n /\ v[i] = w[i]
          /\ \A K : Slots(v, f, K) = IF p.kind \in K THEN Slots(w, f, K) \cup {n + 1}
                                                     ELSE Slots(w, f, K)

LEMMA TailTakes ==
    ASSUME NEW w \in Seq(Packets), w # <<>>, NEW f, Head(w).flow = f, Head(w).kind \in TcpKinds
    PROVE  Takes(w, Head(w), Tail(w), f)
  <1> DEFINE t == Tail(w)
             p == Head(w)
  <1>1. /\ \A K, i : i \in Slots(t, f, K) =>
              i \in Nat /\ i >= 1 /\ i + 1 \in Slots(w, f, K)
        /\ \A K : \A i \in Slots(w, f, K) :
              i \in Nat /\ i >= 1 /\ (i # 1 => i - 1 \in Slots(t, f, K))
    BY SlotsTail
  <1>2. \A K : 1 \in Slots(w, f, K) <=> p.kind \in K
    BY SlotsTail
  <1>3. w[1] = p
    BY SlotsTail
  <1>4. ASSUME NEW K, NEW i \in Slots(t, f, K) PROVE t[i] = w[i + 1]
    <2>1. i \in Nat \ {0} /\ i + 1 \in 1 .. Len(w)
      BY <1>1, SlotsTail
    <2> QED BY <2>1, SlotsTail
  <1> HIDE DEF t, p
  <1>5. \A K, i : i \in Slots(t, f, K) =>
          i \in Nat /\ i >= 1 /\ i + 1 \in Slots(w, f, K) /\ t[i] = w[i + 1]
    BY <1>1, <1>4
  <1>6. p.flow = f /\ p.kind \in TcpKinds
    BY DEF p
  <1>7. Takes(w, p, t, f)
    BY <1>1, <1>2, <1>3, <1>5, <1>6 DEF Takes
  <1> QED BY <1>7 DEF p, t

LEMMA AppendJoins ==
    ASSUME NEW w \in Seq(Packets), NEW p \in Packets, NEW f, p.flow = f, p.kind \in TcpKinds
    PROVE  Joins(w, p, Append(w, p), f)
  <1> DEFINE v == Append(w, p)
  <1>1. /\ Len(w) \in Nat /\ v[Len(w) + 1] = p
        /\ \A i \in 1 .. Len(w) : v[i] = w[i]
        /\ \A K : Slots(v, f, K) = IF p.flow = f /\ p.kind \in K
                                     THEN Slots(w, f, K) \cup {Len(w) + 1} ELSE Slots(w, f, K)
        /\ \A K : Slots(w, f, K) \subseteq 1 .. Len(w)
    BY SlotsAppend
  <1> HIDE DEF v
  <1>2. \A K : \A i \in Slots(w, f, K) : i \in 1 .. Len(w) /\ v[i] = w[i]
    BY <1>1
  <1>3. \A K : Slots(v, f, K) = IF p.kind \in K THEN Slots(w, f, K) \cup {Len(w) + 1}
                                                ELSE Slots(w, f, K)
    BY <1>1
  <1>4. Joins(w, p, v, f)
    BY <1>1, <1>2, <1>3 DEF Joins
  <1> QED BY <1>4 DEF v

(***************************************************************************)
(* A packet is taken: no SYN is left, and the entry and the ends keep      *)
(* naming one server.                                                      *)
(***************************************************************************)
LEMMA TakenKinds ==
    ASSUME NEW w, NEW p, NEW t, NEW f, Takes(w, p, t, f)
    PROVE  /\ \A K : p.kind \notin K => (Slots(t, f, K) = {} <=> Slots(w, f, K) = {})
           /\ \A K : Slots(t, f, K) # {} => Slots(w, f, K) # {}
           /\ \A a, r : SynFirst(w, a, r, f) => Slots(t, f, {"syn"}) = {}
  <1>1. ASSUME NEW K, p.kind \notin K PROVE Slots(t, f, K) = {} <=> Slots(w, f, K) = {}
    BY <1>1 DEF Takes
  <1>2. ASSUME NEW a, NEW r, SynFirst(w, a, r, f), NEW i \in Slots(t, f, {"syn"})
        PROVE  FALSE
    <2>1. i + 1 \in Slots(w, f, {"syn"}) /\ i \in Nat /\ i >= 1
      BY DEF Takes
    <2>2. 1 \in Slots(w, f, TcpKinds)
      BY DEF Takes
    <2>3. i + 1 <= 1
      BY <2>1, <2>2, <1>2 DEF SynFirst
    <2> QED BY <2>1, <2>3
  <1>3. ASSUME NEW K, Slots(t, f, K) # {} PROVE Slots(w, f, K) # {}
    BY <1>3 DEF Takes
  <1> QED BY <1>1, <1>2, <1>3

LEMMA TakenServer ==
    ASSUME NEW w, NEW p, NEW t, NEW f, Takes(w, p, t, f),
           NEW m, NEW a, NEW r, NEW s, SameServer(s, w, m, a, r, f)
    PROVE  /\ p.dst = s
           /\ SameServer(s, t, m, a, r, f)
           /\ SameServer(s, t, s, a, r, f)
           /\ SameServer(s, t, NoServer, a, r, f)
  <1>1. 1 \in Slots(w, f, TcpKinds) /\ w[1] = p
    BY DEF Takes
  <1>2. p.dst = s
    BY <1>1 DEF SameServer
  <1>3. \A i \in Slots(t, f, TcpKinds) : t[i].dst = s
    BY DEF SameServer, Takes
  <1>4. Slots(t, f, ReplyKinds) # {} => Slots(w, f, ReplyKinds) # {}
    BY TakenKinds
  <1> QED BY <1>2, <1>3, <1>4 DEF SameServer

(***************************************************************************)
(* What stays of FlowOK whenever the oldest packet goes and the ends only  *)
(* lose: no new reply, the application as it was.                          *)
(***************************************************************************)
LEMMA TakenFin ==
    ASSUME NEW w, NEW p, NEW t, NEW f, Takes(w, p, t, f), NEW r, FinLast(w, r, f)
    PROVE  FinLast(t, r, f)
  BY DEF Takes, FinLast

LEMMA TakenLive ==
    ASSUME NEW w, NEW p, NEW t, NEW f, Takes(w, p, t, f), NEW r, Live(t, r, f)
    PROVE  Live(w, r, f)
  BY TakenKinds DEF Live

\* A client packet other than a RST: whoever aborted is still to say so.
LEMMA TakenAborting ==
    ASSUME NEW w, NEW p, NEW t, NEW f, Takes(w, p, t, f), p.kind \in ClientKinds \ {"rst"},
           NEW m, NEW a, NEW r, Aborting(w, m, a, r, f), NEW m2, NEW r2
    PROVE  Aborting(t, m2, a, r2, f)
  <1>1. Slots(t, f, {"rst"}) # {} => a.st = "aborted"
    BY TakenKinds DEF Aborting
  <1>2. ASSUME a.st = "aborted"
        PROVE  /\ \A i \in Slots(t, f, ClientKinds) : \E j \in Slots(t, f, {"rst"}) : i <= j
               /\ Slots(t, f, ClientKinds) # {}
    <2>1. 1 \in Slots(w, f, ClientKinds)
      BY DEF Takes
    <2>2. ASSUME NEW i \in Slots(w, f, ClientKinds)
          PROVE  \E j \in Slots(t, f, {"rst"}) : i <= j + 1
      <3>1. PICK j \in Slots(w, f, {"rst"}) : i <= j
        BY <1>2 DEF Aborting
      <3>2. j # 1
        BY DEF Takes
      <3>3. j \in Nat /\ i \in Nat /\ j - 1 \in Slots(t, f, {"rst"})
        BY <3>2 DEF Takes
      <3> QED BY <3>1, <3>3
    <2>3. ASSUME NEW i \in Slots(t, f, ClientKinds)
          PROVE  \E j \in Slots(t, f, {"rst"}) : i <= j
      <3>1. i + 1 \in Slots(w, f, ClientKinds) /\ i \in Nat
        BY DEF Takes
      <3>2. PICK j \in Slots(t, f, {"rst"}) : i + 1 <= j + 1
        BY <2>2, <3>1
      <3>3. j \in Nat
        BY DEF Takes
      <3> QED BY <3>1, <3>2, <3>3
    <2>4. PICK j \in Slots(t, f, {"rst"}) : 1 <= j + 1
      BY <2>1, <2>2
    <2>5. j \in Slots(t, f, ClientKinds)
      BY DEF Slots, ClientKinds
    <2> QED BY <2>3, <2>5
  <1> QED BY <1>1, <1>2 DEF Aborting

\* A packet of the relay: nothing changes for an application that aborted.
LEMMA TakenReplyAborting ==
    ASSUME NEW w, NEW p, NEW t, NEW f, Takes(w, p, t, f), p.kind \in ReplyKinds,
           NEW m, NEW a, NEW r, Aborting(w, m, a, r, f), NEW m2, m2 \in {m, NoServer},
           NEW a2, Slots(t, f, {"rst"}) # {} \/ a2.st = "aborted" => a2 = a
    PROVE  Aborting(t, m2, a2, r, f)
  <1>0. p.kind \notin ClientKinds /\ p.kind # "rst"
    BY DEF ReplyKinds, ClientKinds
  <1>1. /\ Slots(t, f, {"rst"}) = {} <=> Slots(w, f, {"rst"}) = {}
        /\ Slots(t, f, ClientKinds) = {} <=> Slots(w, f, ClientKinds) = {}
    BY <1>0, TakenKinds
  <1>2. Slots(t, f, {"rst"}) # {} => a2.st = "aborted"
    BY <1>1 DEF Aborting
  <1>3. ASSUME a2.st = "aborted", NEW i \in Slots(t, f, ClientKinds)
        PROVE  \E j \in Slots(t, f, {"rst"}) : i <= j
    <2>1. i + 1 \in Slots(w, f, ClientKinds) /\ i \in Nat
      BY DEF Takes
    <2>2. PICK j \in Slots(w, f, {"rst"}) : i + 1 <= j
      BY <1>3, <2>1 DEF Aborting
    <2>3. j \in Nat /\ j - 1 \in Slots(t, f, {"rst"})
      BY <2>1, <2>2 DEF Takes
    <2> QED BY <2>1, <2>2, <2>3
  <1>4. a2.st = "aborted" => ~a2.ack /\ (Slots(t, f, ClientKinds) = {} => m2 = NoServer /\ r.st = "none")
    BY <1>1 DEF Aborting
  <1> QED BY <1>2, <1>3, <1>4 DEF Aborting

(***************************************************************************)
(* The capture thread takes a client packet and notes its destination      *)
(* (AtRelay says what becomes of the relay's end).                         *)
(***************************************************************************)
LEMMA FlowData ==
    ASSUME NEW w, NEW p, NEW t, NEW f, Takes(w, p, t, f), p.kind = "data", p.dst \in Servers,
           NEW m, NEW a, NEW r, FlowGood(TRUE, w, m, a, r, f)
    PROVE  FlowGood(TRUE, t, p.dst, a, r, f)
  <1>1. PICK s \in Servers \cup {NoServer} : SameServer(s, w, m, a, r, f)
    BY DEF FlowGood
  <1>2. p.dst = s /\ SameServer(s, t, s, a, r, f)
    BY <1>1, TakenServer
  <1>3. FlowOK(w, m, a, r, f) /\ HandlerOK(r)
    BY DEF FlowGood
  <1>4. p.kind \in ClientKinds \ {"rst"} /\ p.dst # NoServer
    BY NoServerAssumption DEF ClientKinds
  <1>5. Slots(t, f, {"syn"}) = {} /\ SynFirst(t, a, r, f)
    BY <1>3, TakenKinds DEF FlowOK, SynFirst
  <1>6. FinLast(t, r, f)
    BY <1>3, TakenFin DEF FlowOK
  <1>7. EntryKept(t, p.dst, a, r, f)
    <2>1. r.st = "accepted" => p.dst = r.for
      BY <1>1, <1>2 DEF SameServer
    <2> QED BY <2>1, <1>4 DEF EntryKept
  <1>8. Closing(t, a, r, f)
    <2>1. Slots(t, f, {"fin"}) = {} <=> Slots(w, f, {"fin"}) = {}
      BY TakenKinds
    <2>2. Live(t, r, f) => Live(w, r, f)
      BY TakenLive
    <2> QED BY <1>3, <1>5, <2>1, <2>2 DEF FlowOK, Closing
  <1>9. Aborting(t, p.dst, a, r, f)
    BY <1>3, <1>4, TakenAborting DEF FlowOK
  <1> QED BY <1>1, <1>2, <1>3, <1>5, <1>6, <1>7, <1>8, <1>9 DEF FlowGood, FlowOK

LEMMA FlowSyn ==
    ASSUME NEW w, NEW p, NEW t, NEW f, Takes(w, p, t, f), p.kind = "syn", p.dst \in Servers,
           NEW m, NEW a, NEW r, FlowGood(TRUE, w, m, a, r, f), NEW r2,
           \/ r2 = r
           \/ /\ r.st = "none"
              /\ r2.st = "accepted" /\ r2.for = p.dst /\ ~r2.finSent /\ ~r2.finRcvd
    PROVE  FlowGood(TRUE, t, p.dst, a, r2, f)
  <1>1. PICK s \in Servers \cup {NoServer} : SameServer(s, w, m, a, r, f)
    BY DEF FlowGood
  <1>2. p.dst = s /\ SameServer(s, t, s, a, r, f)
    BY <1>1, TakenServer
  <1>a. SameServer(s, t, s, a, r2, f)
    BY <1>2 DEF SameServer
  <1>3. FlowOK(w, m, a, r, f) /\ HandlerOK(r) /\ HandlerOK(r2)
    BY DEF FlowGood, HandlerOK
  <1>4. p.kind \in ClientKinds \ {"rst"} /\ p.dst # NoServer
    BY NoServerAssumption DEF ClientKinds
  <1>b. 1 \in Slots(w, f, {"syn"})
    BY DEF Takes
  <1>c. Slots(w, f, ReplyKinds) = {} /\ r.st = "none" /\ a.st \notin {"closed", "finRcvd"}
    BY <1>b, <1>3 DEF FlowOK, SynFirst
  <1>5. Slots(t, f, {"syn"}) = {} /\ SynFirst(t, a, r2, f)
    BY <1>3, TakenKinds DEF FlowOK, SynFirst
  <1>6. FinLast(t, r2, f)
    <2>1. Slots(t, f, ReplyKinds) = {}
      BY <1>c, TakenKinds
    <2>2. Slots(t, f, {"replyFin", "replyRst"}) = {}
      BY <2>1 DEF Slots, ReplyKinds
    <2> QED BY <2>2 DEF FinLast
  <1>7. EntryKept(t, p.dst, a, r2, f)
    BY <1>4, <1>c DEF EntryKept
  <1>8. Closing(t, a, r2, f)
    <2>1. Slots(t, f, {"fin"}) = {} <=> Slots(w, f, {"fin"}) = {}
      BY TakenKinds
    <2>2. a.st = "finSent" => Slots(w, f, {"fin"}) # {}
      BY <1>3, <1>b, <1>c DEF FlowOK, Closing, HandlerOK
    <2> QED BY <1>c, <2>1, <2>2 DEF Closing
  <1>9. Aborting(t, p.dst, a, r2, f)
    BY <1>3, <1>4, TakenAborting DEF FlowOK
  <1> QED BY <1>1, <1>2, <1>a, <1>3, <1>5, <1>6, <1>7, <1>8, <1>9 DEF FlowGood, FlowOK

LEMMA FlowFin ==
    ASSUME NEW w, NEW p, NEW t, NEW f, Takes(w, p, t, f), p.kind = "fin", p.dst \in Servers,
           NEW m, NEW a, NEW r, FlowGood(TRUE, w, m, a, r, f), NEW r2,
           \/ r.st = "none" /\ r2 = r
           \/ r.finSent /\ r2 = NoRelay
           \/ /\ r.st # "none" /\ ~r.finSent
              /\ r2.st = r.st /\ r2.for = r.for /\ r2.to = r.to /\ ~r2.finSent /\ r2.finRcvd
    PROVE  FlowGood(TRUE, t, p.dst, a, r2, f)
  <1>1. PICK s \in Servers \cup {NoServer} : SameServer(s, w, m, a, r, f)
    BY DEF FlowGood
  <1>2. p.dst = s /\ SameServer(s, t, s, a, r, f)
    BY <1>1, TakenServer
  <1>a. SameServer(s, t, s, a, r2, f)
    BY <1>2 DEF SameServer, NoRelay
  <1>3. FlowOK(w, m, a, r, f) /\ HandlerOK(r) /\ HandlerOK(r2)
    BY DEF FlowGood, HandlerOK, NoRelay
  <1>4. p.kind \in ClientKinds \ {"rst"} /\ p.dst # NoServer
    BY NoServerAssumption DEF ClientKinds
  <1>5. Slots(t, f, {"syn"}) = {} /\ SynFirst(t, a, r2, f)
    BY <1>3, TakenKinds DEF FlowOK, SynFirst
  <1>b. /\ RelayLive(r2) => RelayLive(r)
        /\ r.st = "none" => r2.st = "none"
        /\ r2.st # "none" => r2.st = r.st
    BY DEF RelayLive, NoRelay
  <1>6. FinLast(t, r2, f)
    <2>1. FinLast(t, r, f)
      BY <1>3, TakenFin DEF FlowOK
    <2> QED BY <2>1, <1>b DEF FinLast
  <1>7. EntryKept(t, p.dst, a, r2, f)
    <2>1. r2.st = "accepted" => p.dst = r2.for
      BY <1>a, <1>2 DEF SameServer
    <2> QED BY <2>1, <1>4 DEF EntryKept
  <1>8. Closing(t, a, r2, f)
    <2>1. r2.st = "none" \/ r2.finRcvd
      BY DEF NoRelay
    <2>2. Live(t, r2, f) => Live(w, r, f)
      BY <1>b, TakenKinds DEF Live
    <2>3. a.st = "closed" => r2.st = "none"
      BY <1>3 DEF FlowOK, Closing, Live, RelayLive, NoRelay
    <2> QED BY <1>3, <1>5, <2>1, <2>2, <2>3 DEF FlowOK, Closing
  <1>9. Aborting(t, p.dst, a, r2, f)
    BY <1>3, <1>4, TakenAborting DEF FlowOK
  <1> QED BY <1>1, <1>2, <1>a, <1>3, <1>5, <1>6, <1>7, <1>8, <1>9 DEF FlowGood, FlowOK

LEMMA FlowRst ==
    ASSUME NEW w, NEW p, NEW t, NEW f, Takes(w, p, t, f), p.kind = "rst",
           NEW m, NEW a, NEW r, FlowGood(TRUE, w, m, a, r, f)
    PROVE  FlowGood(TRUE, t, NoServer, a, NoRelay, f)
  <1> DEFINE r2 == NoRelay
  <1>0. r2.st = "none" /\ ~r2.finSent /\ ~r2.finRcvd
    BY DEF NoRelay
  <1> HIDE DEF r2
  <1>1. PICK s \in Servers \cup {NoServer} : SameServer(s, w, m, a, r, f)
    BY DEF FlowGood
  <1>2. SameServer(s, t, NoServer, a, r2, f)
    <2>1. SameServer(s, t, NoServer, a, r, f)
      BY <1>1, TakenServer
    <2> QED BY <2>1, <1>0 DEF SameServer
  <1>3. FlowOK(w, m, a, r, f) /\ HandlerOK(r2)
    BY <1>0 DEF FlowGood, HandlerOK
  <1>a. a.st = "aborted" /\ ~a.ack
    <2>1. 1 \in Slots(w, f, {"rst"})
      BY DEF Takes
    <2> QED BY <2>1, <1>3 DEF FlowOK, Aborting
  <1>5. Slots(t, f, {"syn"}) = {} /\ SynFirst(t, a, r2, f)
    BY <1>3, TakenKinds DEF FlowOK, SynFirst
  <1>6. FinLast(t, r2, f)
    <2>1. FinLast(t, r, f)
      BY <1>3, TakenFin DEF FlowOK
    <2> QED BY <2>1, <1>0 DEF FinLast, RelayLive
  <1>7. EntryKept(t, NoServer, a, r2, f) /\ Closing(t, a, r2, f)
    BY <1>0, <1>a DEF EntryKept, Closing
  <1>8. Aborting(t, NoServer, a, r2, f)
    <2>1. ASSUME NEW i \in Slots(t, f, ClientKinds)
          PROVE  \E j \in Slots(t, f, {"rst"}) : i <= j
      <3>1. i + 1 \in Slots(w, f, ClientKinds) /\ i \in Nat /\ i >= 1
        BY DEF Takes
      <3>2. PICK j \in Slots(w, f, {"rst"}) : i + 1 <= j
        BY <1>3, <1>a, <3>1 DEF FlowOK, Aborting
      <3>3. j \in Nat /\ j # 1 /\ j - 1 \in Slots(t, f, {"rst"})
        BY <3>1, <3>2 DEF Takes
      <3> QED BY <3>1, <3>2, <3>3
    <2> QED BY <2>1, <1>0, <1>a DEF Aborting
  <1>9. FlowGood(TRUE, t, NoServer, a, r2, f)
    BY <1>1, <1>2, <1>3, <1>5, <1>6, <1>7, <1>8 DEF FlowGood, FlowOK
  <1> QED BY <1>9 DEF r2

(***************************************************************************)
(* The capture thread takes a packet of the relay (AtApp says what becomes *)
(* of the application's end).                                              *)
(***************************************************************************)
LEMMA FlowReply ==
    ASSUME NEW w, NEW p, NEW t, NEW f, Takes(w, p, t, f), p.kind \in {"reply", "ack"},
           NEW m, NEW a, NEW r, FlowGood(TRUE, w, m, a, r, f)
    PROVE  FlowGood(TRUE, t, m, a, r, f)
  <1>1. PICK s \in Servers \cup {NoServer} : SameServer(s, w, m, a, r, f)
    BY DEF FlowGood
  <1>2. SameServer(s, t, m, a, r, f)
    BY <1>1, TakenServer
  <1>3. FlowOK(w, m, a, r, f) /\ HandlerOK(r)
    BY DEF FlowGood
  <1>4. p.kind \in ReplyKinds /\ p.kind # "fin"
    BY DEF ReplyKinds
  <1>5. Slots(t, f, {"syn"}) = {} /\ SynFirst(t, a, r, f)
    BY <1>3, TakenKinds DEF FlowOK, SynFirst
  <1>6. FinLast(t, r, f)
    BY <1>3, TakenFin DEF FlowOK
  <1>7. Live(t, r, f) => Live(w, r, f)
    BY TakenLive
  <1>8. Slots(t, f, {"fin"}) = {} <=> Slots(w, f, {"fin"}) = {}
    BY <1>4, TakenKinds
  <1>9. EntryKept(t, m, a, r, f) /\ Closing(t, a, r, f)
    BY <1>3, <1>5, <1>7, <1>8 DEF FlowOK, EntryKept, Closing
  <1>10. Aborting(t, m, a, r, f)
    BY <1>3, <1>4, TakenReplyAborting DEF FlowOK
  <1> QED BY <1>1, <1>2, <1>3, <1>5, <1>6, <1>9, <1>10 DEF FlowGood, FlowOK

\* A FIN or RST: the last reply of its connection, whose entry goes with it.
LEMMA FlowLastReply ==
    ASSUME NEW w, NEW p, NEW t, NEW f, Takes(w, p, t, f), p.kind \in {"replyFin", "replyRst"},
           NEW m, NEW a, NEW r, FlowGood(TRUE, w, m, a, r, f), NEW a2,
           \/ a2 = a
           \/ /\ p.kind = "replyRst" /\ a.st \in {"open", "finSent", "finRcvd"}
              /\ a2.st = "closed" /\ ~a2.ack
           \/ /\ p.kind = "replyFin" /\ a.st \in {"open", "finSent", "finRcvd"}
              /\ a2.st = (IF a.st = "open" THEN "finRcvd" ELSE "closed")
              /\ a2.dst = a.dst
    PROVE  FlowGood(TRUE, t, NoServer, a2, r, f)
  <1>1. PICK s \in Servers \cup {NoServer} : SameServer(s, w, m, a, r, f)
    BY DEF FlowGood
  <1>2. SameServer(s, t, NoServer, a2, r, f)
    <2>1. SameServer(s, t, NoServer, a, r, f)
      BY <1>1, TakenServer
    <2> QED BY <2>1 DEF SameServer
  <1>3. FlowOK(w, m, a, r, f) /\ HandlerOK(r)
    BY DEF FlowGood
  <1>4. p.kind \in ReplyKinds /\ p.kind # "fin"
    BY DEF ReplyKinds
  <1>5. Slots(t, f, {"syn"}) = {} /\ SynFirst(t, a2, r, f)
    BY <1>3, TakenKinds DEF FlowOK, SynFirst
  <1>6. FinLast(t, r, f)
    BY <1>3, TakenFin DEF FlowOK
  <1>7. ~RelayLive(r) /\ (p.kind = "replyRst" => r.st = "none")
    <2>1. 1 \in Slots(w, f, {"replyFin", "replyRst"}) /\ w[1] = p
      BY DEF Takes
    <2> QED BY <2>1, <1>3 DEF FlowOK, FinLast
  <1>8. Slots(t, f, {"reply", "replyFin"}) = {}
    <2>1. SUFFICES ASSUME NEW i \in Slots(t, f, {"reply", "replyFin"}) PROVE FALSE
      OBVIOUS
    <2>2. i + 1 \in Slots(w, f, {"reply", "replyFin"}) /\ i \in Nat /\ i >= 1
      BY DEF Takes
    <2>3. 1 \in Slots(w, f, {"replyFin", "replyRst"})
      BY DEF Takes
    <2>4. i + 1 <= 1
      BY <2>2, <2>3, <1>3 DEF FlowOK, FinLast
    <2> QED BY <2>2, <2>4
  <1>9. ~Live(t, r, f)
    BY <1>7, <1>8 DEF Live
  <1>10. EntryKept(t, NoServer, a2, r, f)
    BY <1>3, <1>7, <1>9 DEF EntryKept, RelayLive, FlowOK, HandlerOK
  <1>11. Closing(t, a2, r, f)
    <2>1. Slots(t, f, {"fin"}) = {} <=> Slots(w, f, {"fin"}) = {}
      BY <1>4, TakenKinds
    <2>2. a.st = "finSent" => r.st = "none" \/ Slots(w, f, {"fin"}) # {}
      BY <1>3, <1>7 DEF FlowOK, Closing, HandlerOK, RelayLive
    <2>3. p.kind = "replyFin" => a.st # "finRcvd"
      <3>1. p.kind = "replyFin" => 1 \in Slots(w, f, {"reply", "replyFin"})
        BY DEF Takes
      <3> QED BY <3>1, <1>3 DEF FlowOK, Closing, Live
    <2> QED BY <1>3, <1>5, <1>7, <1>9, <2>1, <2>2, <2>3 DEF FlowOK, Closing
  <1>12. Aborting(t, NoServer, a2, r, f)
    <2>1. Slots(t, f, {"rst"}) # {} => a.st = "aborted"
      BY <1>3, TakenKinds DEF FlowOK, Aborting
    <2>2. Slots(t, f, {"rst"}) # {} \/ a2.st = "aborted" => a2 = a
      BY <2>1
    <2> QED BY <1>3, <1>4, <2>2, TakenReplyAborting DEF FlowOK
  <1> QED BY <1>1, <1>2, <1>3, <1>5, <1>6, <1>10, <1>11, <1>12 DEF FlowGood, FlowOK

(***************************************************************************)
(* The handle is closed: packets only leave, and entries only go.          *)
(***************************************************************************)
LEMMA FlowTakenClosed ==
    ASSUME NEW w, NEW p, NEW t, NEW f, Takes(w, p, t, f),
           NEW m, NEW a, NEW r, FlowGood(FALSE, w, m, a, r, f)
    PROVE  /\ FlowGood(FALSE, t, m, a, r, f)
           /\ FlowGood(FALSE, t, p.dst, a, r, f)
           /\ FlowGood(FALSE, t, NoServer, a, r, f)
  <1>1. PICK s \in Servers \cup {NoServer} : SameServer(s, w, m, a, r, f)
    BY DEF FlowGood
  <1>2. /\ p.dst = s /\ SameServer(s, t, m, a, r, f) /\ SameServer(s, t, s, a, r, f)
        /\ SameServer(s, t, NoServer, a, r, f)
    BY <1>1, TakenServer
  <1> QED BY <1>1, <1>2 DEF FlowGood

(***************************************************************************)
(* A packet joins the wire.                                                *)
(***************************************************************************)
LEMMA JoinedSlots ==
    ASSUME NEW w, NEW p, NEW v, NEW f, Joins(w, p, v, f)
    PROVE  /\ \A K : p.kind \notin K => Slots(v, f, K) = Slots(w, f, K)
           /\ \A K : p.kind \in K => Slots(v, f, K) # {}
           /\ \A K : Slots(w, f, K) \subseteq Slots(v, f, K)
           /\ \A K : \A i \in Slots(w, f, K) : i \in Nat /\ v[i] = w[i]
           /\ \E n \in Nat : /\ v[n] = p
                             /\ \A K : p.kind \in K => n \in Slots(v, f, K)
                             /\ \A K : \A i \in Slots(v, f, K) :
                                   i \in Nat /\ i <= n /\ (i = n \/ i \in Slots(w, f, K))
                             /\ \A K : n \notin Slots(w, f, K)
  <1>1. PICK n \in Nat :
          /\ v[n + 1] = p
          /\ \A K : \A i \in Slots(w, f, K) : i \in 1 .. n /\ v[i] = w[i]
          /\ \A K : Slots(v, f, K) = IF p.kind \in K THEN Slots(w, f, K) \cup {n + 1}
                                                     ELSE Slots(w, f, K)
    BY DEF Joins
  <1>2. \A K : \A i \in Slots(v, f, K) :
            i \in Nat /\ i <= n + 1 /\ (i = n + 1 \/ i \in Slots(w, f, K))
    BY <1>1
  <1>3. \A K : n + 1 \notin Slots(w, f, K)
    BY <1>1
  <1>4. n + 1 \in Nat
    OBVIOUS
  <1>5. \A K : p.kind \in K => n + 1 \in Slots(v, f, K)
    BY <1>1
  <1>6. \E x \in Nat : /\ v[x] = p
                       /\ \A K : p.kind \in K => x \in Slots(v, f, K)
                       /\ \A K : \A i \in Slots(v, f, K) :
                                   i \in Nat /\ i <= x /\ (i = x \/ i \in Slots(w, f, K))
                       /\ \A K : x \notin Slots(w, f, K)
    <2>1. WITNESS n + 1 \in Nat
    <2> QED BY <1>1, <1>2, <1>3, <1>5
  <1> QED BY <1>1, <1>6

LEMMA JoinedAt ==
    ASSUME NEW w, NEW p, NEW v, NEW f, Joins(w, p, v, f), NEW K, NEW i \in Slots(v, f, K)
    PROVE  v[i] = p \/ (i \in Slots(w, f, K) /\ v[i] = w[i])
  BY DEF Joins

LEMMA JoinedServer ==
    ASSUME NEW w, NEW p, NEW v, NEW f, Joins(w, p, v, f),
           NEW m, NEW a, NEW r, NEW s, SameServer(s, w, m, a, r, f), p.dst = s,
           p.kind \in ReplyKinds => m \in {s, NoServer}
    PROVE  SameServer(s, v, m, a, r, f)
  <1>1. \A i \in Slots(v, f, TcpKinds) : v[i].dst = s
    <2>1. \A i \in Slots(w, f, TcpKinds) : w[i].dst = s
      BY DEF SameServer
    <2>2. ASSUME NEW i \in Slots(v, f, TcpKinds) PROVE v[i].dst = s
      <3>1. v[i] = p \/ (i \in Slots(w, f, TcpKinds) /\ v[i] = w[i])
        BY JoinedAt
      <3> QED BY <2>1, <3>1
    <2> QED BY <2>2
  <1>2. Slots(v, f, ReplyKinds) # {} => p.kind \in ReplyKinds \/ Slots(w, f, ReplyKinds) # {}
    BY JoinedSlots
  <1> QED BY <1>1, <1>2 DEF SameServer

\* Nothing but a SYN ends up behind a SYN, and the relay sends nothing then.
LEMMA JoinedSyn ==
    ASSUME NEW w, NEW p, NEW v, NEW f, Joins(w, p, v, f), p.kind # "syn",
           NEW a, NEW r, SynFirst(w, a, r, f), NEW a2, NEW r2,
           p.kind \in ClientKinds \/ Slots(w, f, {"syn"}) = {},
           r.st = "none" => r2.st = "none",
           a2.st \in {"closed", "finRcvd"} => a.st \in {"closed", "finRcvd"}
    PROVE  SynFirst(v, a2, r2, f)
  <1>1. SUFFICES ASSUME NEW i \in Slots(w, f, {"syn"})
        PROVE  /\ \A j \in Slots(v, f, TcpKinds) : i <= j
               /\ Slots(v, f, ReplyKinds) = {}
    BY JoinedSlots DEF SynFirst
  <1>2. /\ \A j \in Slots(w, f, TcpKinds) : i <= j
        /\ Slots(w, f, ReplyKinds) = {}
    BY DEF SynFirst
  <1>3. p.kind \in ClientKinds /\ p.kind \notin ReplyKinds
    BY DEF ClientKinds, ReplyKinds
  <1>4. Slots(v, f, ReplyKinds) = {}
    BY <1>2, <1>3, JoinedSlots
  <1>5. ASSUME NEW j \in Slots(v, f, TcpKinds) PROVE i <= j
    <2>1. i \in Slots(v, f, {"syn"})
      BY JoinedSlots
    <2>2. j \in Slots(w, f, TcpKinds) \/ i <= j
      <3>1. PICK n \in Nat :
              \A K : \A k \in Slots(v, f, K) : k <= n /\ (k = n \/ k \in Slots(w, f, K))
        BY JoinedSlots
      <3> QED BY <2>1, <3>1
    <2> QED BY <2>2, <1>2
  <1> QED BY <1>4, <1>5

\* An application that has not aborted sends, or the relay does.
LEMMA JoinedAborting ==
    ASSUME NEW w, NEW p, NEW v, NEW f, Joins(w, p, v, f), p.kind # "rst",
           NEW m, NEW a, NEW r, Aborting(w, m, a, r, f), NEW a2, NEW r2,
           a.st # "aborted" \/ p.kind \notin ClientKinds,
           a.st # "aborted" => a2.st # "aborted",
           a.st = "aborted" => a2 = a /\ (r.st = "none" => r2.st = "none")
    PROVE  Aborting(v, m, a2, r2, f)
  <1>1. CASE a.st # "aborted"
    <2>1. Slots(w, f, {"rst"}) = {} /\ Slots(v, f, {"rst"}) = {}
      BY <1>1, JoinedSlots DEF Aborting
    <2> QED BY <1>1, <2>1 DEF Aborting
  <1>2. CASE a.st = "aborted" /\ p.kind \notin ClientKinds
    <2>1. Slots(v, f, {"rst"}) = Slots(w, f, {"rst"})
          /\ Slots(v, f, ClientKinds) = Slots(w, f, ClientKinds)
      BY <1>2, JoinedSlots
    <2> QED BY <1>2, <2>1 DEF Aborting
  <1> QED BY <1>1, <1>2

(***************************************************************************)
(* The application sends.                                                  *)
(***************************************************************************)
LEMMA FlowConnect ==
    ASSUME NEW w, NEW p, NEW v, NEW f, Joins(w, p, v, f), p.kind = "syn",
           \A K : Slots(w, f, K) = {},
           NEW m, NEW a, NEW r, FlowGood(TRUE, w, m, a, r, f),
           ~a.ack, a.st \in {"closed", "aborted"},
           NEW a2, a2.st = "open", a2.dst = p.dst, ~a2.ack, p.dst \in Servers
    PROVE  FlowGood(TRUE, v, m, a2, r, f)
  <1>1. FlowOK(w, m, a, r, f) /\ HandlerOK(r)
    BY DEF FlowGood
  <1>2. r.st = "none"
    BY <1>1 DEF FlowOK, Closing, Aborting
  <1>3. p.kind \notin ReplyKinds
    BY DEF ReplyKinds
  <1>4. /\ \A K : p.kind \notin K => Slots(v, f, K) = {}
        /\ \A K : \A i \in Slots(v, f, K) : v[i] = p
        /\ \A K, J : \A i \in Slots(v, f, K), j \in Slots(v, f, J) : i = j /\ i \in Nat
    BY JoinedSlots
  <1>5. SameServer(p.dst, v, m, a2, r, f)
    BY <1>2, <1>3, <1>4 DEF SameServer
  <1>6. SynFirst(v, a2, r, f)
    BY <1>2, <1>3, <1>4 DEF SynFirst
  <1>7. FinLast(v, r, f)
    BY <1>4 DEF FinLast
  <1>8. EntryKept(v, m, a2, r, f) /\ Closing(v, a2, r, f)
    BY <1>2, <1>4 DEF EntryKept, Closing, Live, RelayLive
  <1>9. Aborting(v, m, a2, r, f)
    BY <1>4 DEF Aborting
  <1> QED BY <1>1, <1>5, <1>6, <1>7, <1>8, <1>9 DEF FlowGood, FlowOK

LEMMA FlowSegment ==
    ASSUME NEW w, NEW p, NEW v, NEW f, Joins(w, p, v, f), p.kind = "data",
           NEW m, NEW a, NEW r, FlowGood(TRUE, w, m, a, r, f),
           a.st \in {"open", "finRcvd"} \/ a.ack, p.dst = a.dst,
           NEW a2, a2.st = a.st, a2.dst = a.dst, ~a2.ack
    PROVE  FlowGood(TRUE, v, m, a2, r, f)
  <1>1. PICK s \in Servers \cup {NoServer} : SameServer(s, w, m, a, r, f)
    BY DEF FlowGood
  <1>2. SameServer(s, v, m, a2, r, f)
    <2>1. p.dst = s /\ p.kind \notin ReplyKinds
      BY <1>1 DEF SameServer, ReplyKinds
    <2>2. SameServer(s, v, m, a, r, f)
      BY <1>1, <2>1, JoinedServer
    <2> QED BY <2>2 DEF SameServer
  <1>3. FlowOK(w, m, a, r, f) /\ HandlerOK(r)
    BY DEF FlowGood
  <1>4. p.kind \in ClientKinds
    BY DEF ClientKinds
  <1>5. SynFirst(v, a2, r, f)
    BY <1>3, <1>4, JoinedSyn DEF FlowOK
  <1>6. FinLast(v, r, f)
    BY <1>3, JoinedSlots DEF FlowOK, FinLast
  <1>7. /\ Live(v, r, f) <=> Live(w, r, f)
        /\ Slots(v, f, {"fin"}) = Slots(w, f, {"fin"})
        /\ Slots(v, f, {"syn"}) = Slots(w, f, {"syn"})
    BY JoinedSlots DEF Live
  <1>8. EntryKept(v, m, a2, r, f) /\ Closing(v, a2, r, f)
    BY <1>3, <1>7 DEF FlowOK, EntryKept, Closing
  <1>9. a.st # "aborted"
    BY <1>3 DEF FlowOK, Aborting
  <1>10. Aborting(v, m, a2, r, f)
    BY <1>3, <1>9, JoinedAborting DEF FlowOK
  <1> QED BY <1>1, <1>2, <1>3, <1>5, <1>6, <1>8, <1>10 DEF FlowGood, FlowOK

LEMMA FlowAppFin ==
    ASSUME NEW w, NEW p, NEW v, NEW f, Joins(w, p, v, f), p.kind = "fin",
           NEW m, NEW a, NEW r, FlowGood(TRUE, w, m, a, r, f),
           a.st \in {"open", "finRcvd"}, p.dst = a.dst,
           NEW a2, a2.st = (IF a.st = "open" THEN "finSent" ELSE "closed"),
           a2.dst = a.dst, ~a2.ack
    PROVE  FlowGood(TRUE, v, m, a2, r, f)
  <1>1. PICK s \in Servers \cup {NoServer} : SameServer(s, w, m, a, r, f)
    BY DEF FlowGood
  <1>2. SameServer(s, v, m, a2, r, f)
    <2>1. p.dst = s /\ p.kind \notin ReplyKinds
      BY <1>1 DEF SameServer, ReplyKinds
    <2>2. SameServer(s, v, m, a, r, f)
      BY <1>1, <2>1, JoinedServer
    <2> QED BY <2>2 DEF SameServer
  <1>3. FlowOK(w, m, a, r, f) /\ HandlerOK(r)
    BY DEF FlowGood
  <1>4. p.kind \in ClientKinds
    BY DEF ClientKinds
  <1>5. SynFirst(v, a2, r, f)
    BY <1>3, <1>4, JoinedSyn DEF FlowOK
  <1>6. FinLast(v, r, f)
    BY <1>3, JoinedSlots DEF FlowOK, FinLast
  <1>7. Live(v, r, f) <=> Live(w, r, f)
    BY JoinedSlots DEF Live
  <1>8. Slots(v, f, {"fin"}) # {}
    BY JoinedSlots
  <1>9. EntryKept(v, m, a2, r, f) /\ Closing(v, a2, r, f)
    BY <1>3, <1>7, <1>8 DEF FlowOK, EntryKept, Closing
  <1>10. Aborting(v, m, a2, r, f)
    BY <1>3, JoinedAborting DEF FlowOK
  <1> QED BY <1>1, <1>2, <1>3, <1>5, <1>6, <1>9, <1>10 DEF FlowGood, FlowOK

LEMMA FlowAppRst ==
    ASSUME NEW w, NEW p, NEW v, NEW f, Joins(w, p, v, f), p.kind = "rst",
           NEW m, NEW a, NEW r, FlowGood(TRUE, w, m, a, r, f),
           a.st \in {"open", "finSent", "finRcvd"}, p.dst = a.dst,
           NEW a2, a2.st = "aborted", a2.dst = a.dst, ~a2.ack
    PROVE  FlowGood(TRUE, v, m, a2, r, f)
  <1>1. PICK s \in Servers \cup {NoServer} : SameServer(s, w, m, a, r, f)
    BY DEF FlowGood
  <1>2. SameServer(s, v, m, a2, r, f)
    <2>1. p.dst = s /\ p.kind \notin ReplyKinds
      BY <1>1 DEF SameServer, ReplyKinds
    <2>2. SameServer(s, v, m, a, r, f)
      BY <1>1, <2>1, JoinedServer
    <2> QED BY <2>2 DEF SameServer
  <1>3. FlowOK(w, m, a, r, f) /\ HandlerOK(r)
    BY DEF FlowGood
  <1>4. p.kind \in ClientKinds
    BY DEF ClientKinds
  <1>5. SynFirst(v, a2, r, f)
    BY <1>3, <1>4, JoinedSyn DEF FlowOK
  <1>6. FinLast(v, r, f)
    BY <1>3, JoinedSlots DEF FlowOK, FinLast
  <1>7. EntryKept(v, m, a2, r, f) /\ Closing(v, a2, r, f)
    BY <1>3 DEF FlowOK, EntryKept, Closing
  <1>8. Aborting(v, m, a2, r, f)
    <2>1. PICK n \in Nat : /\ \A K : p.kind \in K => n \in Slots(v, f, K)
                           /\ \A K : \A i \in Slots(v, f, K) : i <= n
      BY JoinedSlots
    <2> QED BY <1>4, <2>1 DEF Aborting
  <1> QED BY <1>1, <1>2, <1>3, <1>5, <1>6, <1>7, <1>8 DEF FlowGood, FlowOK

(***************************************************************************)
(* The relay sends.                                                        *)
(***************************************************************************)
LEMMA FlowRelaySegment ==
    ASSUME NEW w, NEW p, NEW v, NEW f, Joins(w, p, v, f),
           NEW m, NEW a, NEW r, FlowGood(TRUE, w, m, a, r, f),
           r.st # "none", p.dst = r.for, p.kind = (IF r.finSent THEN "ack" ELSE "reply")
    PROVE  FlowGood(TRUE, v, m, a, r, f)
  <1>1. PICK s \in Servers \cup {NoServer} : SameServer(s, w, m, a, r, f)
    BY DEF FlowGood
  <1>2. SameServer(s, v, m, a, r, f)
    <2>1. p.dst = s /\ m \in {s, NoServer}
      BY <1>1 DEF SameServer
    <2> QED BY <1>1, <2>1, JoinedServer
  <1>3. FlowOK(w, m, a, r, f) /\ HandlerOK(r)
    BY DEF FlowGood
  <1>4. p.kind \notin ClientKinds /\ p.kind \notin {"syn", "rst", "fin", "replyFin", "replyRst"}
    BY DEF ClientKinds
  <1>5. Slots(w, f, {"syn"}) = {} /\ SynFirst(v, a, r, f)
    BY <1>3, <1>4, JoinedSlots DEF FlowOK, SynFirst
  <1>6. FinLast(v, r, f)
    <2>1. SUFFICES ASSUME NEW i \in Slots(v, f, {"replyFin", "replyRst"})
          PROVE  /\ ~RelayLive(r) /\ v[i].kind # "replyRst"
                 /\ \A j \in Slots(v, f, {"reply", "replyFin"}) : j <= i
      BY DEF FinLast
    <2>2. i \in Slots(w, f, {"replyFin", "replyRst"}) /\ v[i] = w[i]
      BY <1>4, JoinedSlots
    <2>3. ~RelayLive(r) /\ v[i].kind # "replyRst"
      BY <2>2, <1>3 DEF FlowOK, FinLast
    <2>4. Slots(v, f, {"reply", "replyFin"}) = Slots(w, f, {"reply", "replyFin"})
      BY <2>3, JoinedSlots DEF RelayLive
    <2> QED BY <2>2, <2>3, <2>4, <1>3 DEF FlowOK, FinLast
  <1>7. /\ Live(v, r, f) <=> Live(w, r, f)
        /\ Slots(v, f, {"fin"}) = Slots(w, f, {"fin"})
        /\ Slots(v, f, {"syn"}) = Slots(w, f, {"syn"})
    BY <1>4, JoinedSlots DEF Live, RelayLive
  <1>8. EntryKept(v, m, a, r, f) /\ Closing(v, a, r, f)
    BY <1>3, <1>7 DEF FlowOK, EntryKept, Closing
  <1>9. Aborting(v, m, a, r, f)
    BY <1>3, <1>4, JoinedAborting DEF FlowOK
  <1> QED BY <1>1, <1>2, <1>3, <1>5, <1>6, <1>8, <1>9 DEF FlowGood, FlowOK

\* A FIN or a RST: the end goes, or waits for the client's FIN.
LEMMA FlowRelayEnds ==
    ASSUME NEW w, NEW p, NEW v, NEW f, Joins(w, p, v, f),
           NEW m, NEW a, NEW r, FlowGood(TRUE, w, m, a, r, f),
           r.st \in {"serving", "leaving"}, p.dst = r.for, NEW r2,
           \/ p.kind = "replyRst" /\ r2.st = "none" /\ ~r2.finSent /\ ~r2.finRcvd
           \/ /\ p.kind = "replyFin" /\ ~r.finSent
              /\ IF r.finRcvd
                   THEN r2.st = "none" /\ ~r2.finSent /\ ~r2.finRcvd
                   ELSE /\ r2.st = r.st /\ r2.for = r.for /\ r2.to = r.to
                        /\ r2.finSent /\ ~r2.finRcvd
    PROVE  FlowGood(TRUE, v, m, a, r2, f)
  <1>1. PICK s \in Servers \cup {NoServer} : SameServer(s, w, m, a, r, f)
    BY DEF FlowGood
  <1>2. SameServer(s, v, m, a, r2, f)
    <2>1. p.dst = s /\ m \in {s, NoServer}
      BY <1>1 DEF SameServer
    <2>2. SameServer(s, v, m, a, r, f)
      BY <1>1, <2>1, JoinedServer
    <2> QED BY <2>1, <2>2 DEF SameServer
  <1>3. FlowOK(w, m, a, r, f) /\ HandlerOK(r) /\ HandlerOK(r2)
    BY DEF FlowGood, HandlerOK
  <1>4. p.kind \notin ClientKinds /\ p.kind \notin {"syn", "rst", "fin"}
    BY DEF ClientKinds
  <1>5. Slots(w, f, {"syn"}) = {} /\ Slots(v, f, {"syn"}) = {} /\ SynFirst(v, a, r2, f)
    BY <1>3, <1>4, JoinedSlots DEF FlowOK, SynFirst
  <1>a. ~RelayLive(r2)
    BY DEF RelayLive
  <1>6. FinLast(v, r2, f)
    <2>1. SUFFICES ASSUME NEW i \in Slots(v, f, {"replyFin", "replyRst"})
          PROVE  /\ v[i].kind = "replyRst" => r2.st = "none"
                 /\ \A j \in Slots(v, f, {"reply", "replyFin"}) : j <= i
      BY <1>a DEF FinLast
    <2>2. PICK n \in Nat : /\ v[n] = p
                           /\ \A K : \A j \in Slots(v, f, K) :
                                 j \in Nat /\ j <= n /\ (j = n \/ j \in Slots(w, f, K))
      BY JoinedSlots
    <2>3. CASE i = n
      BY <2>2, <2>3
    <2>4. CASE i \in Slots(w, f, {"replyFin", "replyRst"})
      <3>1. v[i] = w[i]
        BY <2>4, JoinedSlots
      <3>2. ~RelayLive(r) /\ w[i].kind # "replyRst"
            /\ \A j \in Slots(w, f, {"reply", "replyFin"}) : j <= i
        BY <2>4, <1>3 DEF FlowOK, FinLast
      <3>3. p.kind = "replyRst"
        BY <3>2 DEF RelayLive
      <3>4. Slots(v, f, {"reply", "replyFin"}) = Slots(w, f, {"reply", "replyFin"})
        BY <3>3, JoinedSlots
      <3> QED BY <3>1, <3>2, <3>4
    <2> QED BY <2>2, <2>3, <2>4
  <1>7. Live(v, r2, f) => Live(w, r, f)
    BY <1>a, JoinedSlots DEF Live, RelayLive
  <1>8. Slots(v, f, {"fin"}) = Slots(w, f, {"fin"})
    BY <1>4, JoinedSlots
  <1>9. EntryKept(v, m, a, r2, f)
    BY <1>3, <1>7 DEF FlowOK, EntryKept
  <1>10. Closing(v, a, r2, f)
    <2>1. a.st = "finSent" => Slots(v, f, {"fin"}) # {} \/ r2.finRcvd \/ r2.st = "none"
      BY <1>3, <1>5, <1>8 DEF FlowOK, Closing
    <2>2. a.st \in {"closed", "finRcvd"} => ~RelayLive(r) /\ ~Live(v, r2, f)
      BY <1>3, <1>7 DEF FlowOK, Closing, Live
    <2>3. a.st = "closed" => r2.st = "none" \/ Slots(v, f, {"fin"}) # {}
      BY <1>3, <1>8 DEF FlowOK, Closing
    <2> QED BY <1>5, <2>1, <2>2, <2>3 DEF Closing
  <1>11. Aborting(v, m, a, r2, f)
    BY <1>3, <1>4, JoinedAborting DEF FlowOK
  <1> QED BY <1>1, <1>2, <1>3, <1>5, <1>6, <1>9, <1>10, <1>11 DEF FlowGood, FlowOK

\* The handler reads the entry.
LEMMA FlowLookup ==
    ASSUME NEW w, NEW f, NEW on \in BOOLEAN, NEW m, NEW a, NEW r,
           FlowGood(on, w, m, a, r, f), r.st = "accepted", m \in Servers \cup {NoServer},
           NEW r2, r2.st = (IF m = NoServer THEN "leaving" ELSE "serving"), r2.to = m,
           r2.for = r.for, r2.finSent = r.finSent, r2.finRcvd = r.finRcvd
    PROVE  FlowGood(on, w, m, a, r2, f)
  <1>1. PICK s \in Servers \cup {NoServer} : SameServer(s, w, m, a, r, f)
    BY DEF FlowGood
  <1>2. SameServer(s, w, m, a, r2, f)
    BY <1>1 DEF SameServer
  <1>3. HandlerOK(r) /\ HandlerOK(r2)
    BY <1>1 DEF FlowGood, HandlerOK, SameServer
  <1>4. RelayLive(r2) <=> RelayLive(r)
    BY DEF RelayLive
  <1>5. ASSUME on PROVE FlowOK(w, m, a, r2, f)
    <2>1. FlowOK(w, m, a, r, f)
      BY <1>5 DEF FlowGood
    <2>2. r2.st \notin {"none", "accepted"}
      OBVIOUS
    <2>3. SynFirst(w, a, r2, f) /\ FinLast(w, r2, f)
      BY <1>4, <2>1 DEF FlowOK, SynFirst, FinLast
    <2>4. EntryKept(w, m, a, r2, f) /\ Closing(w, a, r2, f) /\ Aborting(w, m, a, r2, f)
      BY <1>4, <2>1, <2>2 DEF FlowOK, EntryKept, Closing, Aborting, Live
    <2> QED BY <2>3, <2>4 DEF FlowOK
  <1> QED BY <1>1, <1>2, <1>3, <1>5 DEF FlowGood

-----------------------------------------------------------------------------
(***************************************************************************)
(* The steps of the module.                                                *)
(***************************************************************************)

\* Nothing is captured before the handle is open.
CapStarted ==
    /\ handle = "none" => cap.pc = "off" /\ connMap = [f \in Flows |-> NoServer]
    /\ handle = "none" <=> starter \in {"off", "probed", "relayUp", "refused"}

LEMMA WireType == TypeInv => Wire \in Seq(Packets)
  <1> SUFFICES ASSUME TypeInv PROVE Wire \in Seq(Packets)
    OBVIOUS
  <1>1. queue \in Seq(Packets) /\ cap.pkt \in Packets
    BY DEF TypeInv, TypeOK
  <1> HIDE DEF Packets
  <1>2. <<cap.pkt>> \in Seq(Packets)
    BY <1>1
  <1>3. <<cap.pkt>> \o queue \in Seq(Packets)
    BY <1>1, <1>2, ConcatProperties
  <1> QED BY <1>1, <1>3 DEF Wire

LEMMA WireEmit ==
    ASSUME TypeInv, NEW p \in Packets, Emit(p), cap' = cap
    PROVE  Wire' = Append(Wire, p)
  <1>1. queue \in Seq(Packets) /\ cap.pkt \in Packets
    BY DEF TypeInv, TypeOK
  <1> HIDE DEF Packets
  <1>2. <<cap.pkt>> \o Append(queue, p) = Append(<<cap.pkt>> \o queue, p)
    BY <1>1, AppendIsConcat, ConcatAssociative
  <1> QED BY <1>2 DEF Wire, Emit

LEMMA WireTaken ==
    ASSUME TypeInv, cap.pc = "dispatch", cap'.pc # "dispatch", queue' = queue
    PROVE  Wire # <<>> /\ Head(Wire) = cap.pkt /\ Wire' = Tail(Wire)
  <1>1. queue \in Seq(Packets) /\ cap.pkt \in Packets
    BY DEF TypeInv, TypeOK
  <1> HIDE DEF Packets
  <1>2. /\ <<cap.pkt>> \o queue # <<>>
        /\ Head(<<cap.pkt>> \o queue) = cap.pkt
        /\ Tail(<<cap.pkt>> \o queue) = queue
    BY <1>1
  <1> QED BY <1>2 DEF Wire

LEMMA WireReceived ==
    ASSUME TypeInv, Recv PROVE Wire' = Wire
  <1>1. queue \in Seq(Packets) /\ queue # <<>>
    BY DEF TypeInv, TypeOK, Recv
  <1> HIDE DEF Packets
  <1>2. queue = <<Head(queue)>> \o Tail(queue)
    BY <1>1
  <1> QED BY <1>2 DEF Wire, Recv

LEMMA CapStartedStep ==
    ASSUME TypeInv, CapStarted, [Next]_vars PROVE CapStarted'
  <1> USE DEF CapStarted
  <1>1. CASE Start
    BY <1>1 DEF Start, Probe, StartRelay, OpenDivert, OpenFails, MakePool, StartCapture,
       restOfStart
  <1>2. CASE PressStop \/ Quit \/ Finish
    BY <1>2 DEF PressStop, Quit, SetStop, Finish, CloseHandle, ShutPool, ForgetPool, StopRelay,
       CloseDoh, ClearMap, restOfStop
  <1>8. CASE Exit \/ Gone
    BY <1>8 DEF Exit, Gone
  <1>3. CASE Capture
    BY <1>3 DEF Capture, LoopTop, Recv, RecvRaises, DispatchDns, Reinject, DispatchQuic,
       Redirect, TurnRound, RewriteReply, PassBack, engineVars
  <1>4. CASE TakeJob \/ \E q \in Queries : Worker(q)
    BY <1>4 DEF TakeJob, Worker, Resolved, Answer, engineVars
  <1>5. CASE \E f \in Flows : RelaySide(f) \/ AppSide(f)
    BY <1>5 DEF RelaySide, Lookup, RelaySegment, RelayFin, RelayRst, restOfRelay,
       AppSide, Connect, AppSegment, AppFin, AppRst, restOfApp, engineVars
  <1>6. CASE (\E q \in Queries : Ask(q)) \/ SendQuic
    BY <1>6 DEF Ask, SendQuic, restOfApp, engineVars
  <1>7. CASE UNCHANGED vars
    BY <1>7 DEF vars, engineVars
  <1> QED BY <1>1, <1>2, <1>3, <1>4, <1>5, <1>6, <1>7, <1>8 DEF Next

\* Steps that touch neither the wire nor anything of a connection.
LEMMA FlowIdle ==
    ASSUME FlowInv, UNCHANGED <<Wire, connMap, app, relay>>,
           handle = "closed" <=> handle' = "closed"
    PROVE  FlowInv'
  BY DEF FlowInv

LEMMA FlowInit == Init => FlowInv /\ CapStarted
  <1> SUFFICES ASSUME Init PROVE FlowInv /\ CapStarted
    OBVIOUS
  <1>1. \A f, K : Slots(<<>>, f, K) = {}
    BY EmptySeq DEF Slots
  <1>2. Wire = <<>>
    BY DEF Init, Wire
  <1>3. ASSUME NEW f \in Flows
        PROVE  FlowGood(handle # "closed", Wire, connMap[f], app[f], relay[f], f)
    <2>1. /\ app[f].st = "closed" /\ ~app[f].ack /\ relay[f].st = "none"
          /\ ~relay[f].finSent /\ ~relay[f].finRcvd
      BY DEF Init, NoApp, NoRelay
    <2>2. SameServer(NoServer, Wire, connMap[f], app[f], relay[f], f) /\ HandlerOK(relay[f])
      BY <1>1, <1>2, <2>1 DEF SameServer, HandlerOK
    <2>3. FlowOK(Wire, connMap[f], app[f], relay[f], f)
      BY <1>1, <1>2, <2>1 DEF FlowOK, SynFirst, FinLast, EntryKept, Closing, Aborting, Live,
         RelayLive
    <2> QED BY <2>2, <2>3 DEF FlowGood
  <1> QED BY <1>3 DEF FlowInv, Init, CapStarted

\* start, stop and the end of the program.  Closing the handle drops what the
\* driver holds; the table is cleared after that, or while it is still empty.
LEMMA FlowCtl ==
    ASSUME TypeInv, PoolOutlivesHandle, CapStarted, FlowInv, ~missed,
           Start \/ PressStop \/ Quit \/ Finish \/ Exit \/ Gone
    PROVE  FlowInv'
  <1>1. CASE Start
    <2>1. UNCHANGED <<queue, connMap, app, relay>>
      BY <1>1 DEF Start, Probe, StartRelay, OpenDivert, OpenFails, MakePool, StartCapture,
         restOfStart
    <2>2. handle = "closed" <=> handle' = "closed"
      BY <1>1 DEF Start, Probe, StartRelay, OpenDivert, OpenFails, MakePool, StartCapture,
         TypeInv, TypeOK, CapStarted, PoolOutlivesHandle
    <2>3. cap' = cap \/ (cap.pc = "off" /\ cap'.pc = "top")
      BY <1>1 DEF Start, Probe, StartRelay, OpenDivert, OpenFails, MakePool, StartCapture,
         TypeInv, TypeOK, PoolOutlivesHandle
    <2>4. Wire' = Wire
      BY <2>1, <2>3 DEF Wire
    <2> QED BY <2>1, <2>2, <2>4, FlowIdle
  <1>2. CASE PressStop \/ Quit \/ Exit \/ ShutPool \/ ForgetPool \/ StopRelay \/ CloseDoh
    <2>1. UNCHANGED <<queue, cap, connMap, app, relay, handle>>
      BY <1>2 DEF PressStop, Quit, SetStop, Exit, ShutPool, ForgetPool, StopRelay, CloseDoh,
         restOfStop
    <2> QED BY <2>1, FlowIdle DEF Wire
  <1>3. CASE CloseHandle /\ handle # "open"
    <2>1. UNCHANGED <<queue, cap, connMap, app, relay, handle>>
      BY <1>3 DEF CloseHandle, restOfStop
    <2> QED BY <2>1, FlowIdle DEF Wire
  <1>4. CASE CloseHandle /\ handle = "open"
    <2>1. /\ handle' = "closed" /\ queue' = <<>>
          /\ UNCHANGED <<cap, connMap, app, relay>>
      BY <1>4 DEF CloseHandle, restOfStop
    <2>2. /\ Len(Wire') <= Len(Wire) /\ Len(Wire) \in Nat /\ Len(Wire') \in Nat
          /\ \A i \in 1 .. Len(Wire') : Wire'[i] = Wire[i]
      <3>1. queue \in Seq(Packets) /\ cap.pkt \in Packets
        BY DEF TypeInv, TypeOK
      <3> HIDE DEF Packets
      <3>2. /\ Len(<<cap.pkt>> \o queue) = 1 + Len(queue) /\ Len(<<cap.pkt>> \o <<>>) = 1
            /\ (<<cap.pkt>> \o queue)[1] = cap.pkt /\ (<<cap.pkt>> \o <<>>)[1] = cap.pkt
            /\ Len(queue) \in Nat /\ Len(<<>>) = 0
        BY <3>1
      <3>3. CASE cap.pc = "dispatch"
        BY <2>1, <3>2, <3>3 DEF Wire
      <3>4. CASE cap.pc # "dispatch"
        BY <2>1, <3>2, <3>4 DEF Wire
      <3> QED BY <3>3, <3>4
    <2> DEFINE w == Wire
               v == Wire'
    <2>3. \A f, K : \A i \in Slots(v, f, K) : i \in Slots(w, f, K) /\ v[i] = w[i]
      BY <2>2 DEF Slots
    <2> HIDE DEF w, v
    <2>4. ASSUME NEW f, NEW m, NEW a, NEW r, FlowGood(handle # "closed", w, m, a, r, f)
          PROVE  FlowGood(FALSE, v, m, a, r, f)
      <3>1. PICK s \in Servers \cup {NoServer} : SameServer(s, w, m, a, r, f)
        BY <2>4 DEF FlowGood
      <3>2. \A i \in Slots(v, f, TcpKinds) : v[i].dst = s
        BY <2>3, <3>1 DEF SameServer
      <3>3. Slots(v, f, ReplyKinds) # {} => Slots(w, f, ReplyKinds) # {}
        BY <2>3
      <3>4. SameServer(s, v, m, a, r, f)
        BY <3>1, <3>2, <3>3 DEF SameServer
      <3> QED BY <2>4, <3>4 DEF FlowGood
    <2>5. \A f \in Flows : FlowGood(FALSE, v, connMap[f], app[f], relay[f], f)
      BY <2>4 DEF FlowInv, w
    <2>6. (handle' # "closed") = FALSE
      BY <2>1
    <2> QED BY <2>1, <2>5, <2>6 DEF FlowInv, v
  <1>5. CASE ClearMap
    <2>1. /\ UNCHANGED <<queue, cap, app, relay, handle>>
          /\ connMap' = [f \in Flows |-> NoServer]
      BY <1>5 DEF ClearMap, restOfStop
    <2>2. CASE handle = "none"
      <3>1. connMap' = connMap
        BY <2>1, <2>2 DEF CapStarted
      <3> QED BY <2>1, <3>1, FlowIdle DEF Wire
    <2>3. CASE handle = "closed"
      <3>1. ASSUME NEW f \in Flows
            PROVE  FlowGood(FALSE, Wire, NoServer, app[f], relay[f], f)
        <4>1. FlowGood(FALSE, Wire, connMap[f], app[f], relay[f], f)
          <5>1. (handle # "closed") = FALSE
            BY <2>3
          <5> QED BY <5>1 DEF FlowInv
        <4>2. PICK s \in Servers \cup {NoServer} :
                  SameServer(s, Wire, connMap[f], app[f], relay[f], f)
          BY <4>1 DEF FlowGood
        <4>3. SameServer(s, Wire, NoServer, app[f], relay[f], f)
          BY <4>2 DEF SameServer
        <4> QED BY <4>1, <4>3 DEF FlowGood
      <3>2. (handle' # "closed") = FALSE /\ Wire' = Wire
        BY <2>1, <2>3 DEF Wire
      <3> QED BY <2>1, <3>1, <3>2 DEF FlowInv
    <2>4. handle # "open"
      BY <1>5 DEF ClearMap, PoolOutlivesHandle
    <2> QED BY <2>2, <2>3, <2>4 DEF TypeInv, TypeOK
  <1>6. CASE Gone
    <2>1. /\ handle' = "closed" /\ UNCHANGED <<connMap, app>>
          /\ Wire' = <<>> /\ relay' = [f \in Flows |-> NoRelay]
      BY <1>6 DEF Gone, Wire
    <2>2. \A f, K : Slots(<<>>, f, K) = {}
      BY EmptySeq DEF Slots
    <2>3. NoRelay.st = "none" /\ ~NoRelay.finSent /\ ~NoRelay.finRcvd
      BY DEF NoRelay
    <2>4. ASSUME NEW f \in Flows
          PROVE  FlowGood(FALSE, <<>>, connMap[f], app[f], NoRelay, f)
      <3>1. PICK s \in Servers \cup {NoServer} :
                SameServer(s, Wire, connMap[f], app[f], relay[f], f)
        BY DEF FlowInv, FlowGood
      <3>2. SameServer(s, <<>>, connMap[f], app[f], NoRelay, f)
        BY <2>2, <2>3, <3>1 DEF SameServer
      <3>3. HandlerOK(NoRelay)
        BY <2>3 DEF HandlerOK
      <3> QED BY <3>2, <3>3 DEF FlowGood
    <2>5. (handle' # "closed") = FALSE
      BY <2>1
    <2> QED BY <2>1, <2>4, <2>5 DEF FlowInv
  <1> QED BY <1>1, <1>2, <1>3, <1>4, <1>5, <1>6 DEF Finish

\* The other flows when a packet of flow f is taken from the wire, or joins it.
LEMMA OthersTaken ==
    ASSUME TypeInv, FlowInv, cap.pc = "dispatch", cap'.pc # "dispatch", queue' = queue,
           handle' = handle, NEW g \in Flows,
           cap.pkt.flow # g \/ cap.pkt.kind \notin TcpKinds,
           connMap'[g] = connMap[g], app'[g] = app[g], relay'[g] = relay[g]
    PROVE  FlowGood(handle # "closed", Wire, connMap[g], app[g], relay[g], g)'
  <1>1. Wire \in Seq(Packets) /\ Wire # <<>> /\ Head(Wire) = cap.pkt /\ Wire' = Tail(Wire)
    BY WireType, WireTaken
  <1>2. FlowGood(handle # "closed", Wire, connMap[g], app[g], relay[g], g)
    BY DEF FlowInv
  <1>3. (handle # "closed") \in BOOLEAN
    OBVIOUS
  <1>4. FlowGood(handle # "closed", Tail(Wire), connMap[g], app[g], relay[g], g)
    BY <1>1, <1>2, <1>3, FrameTail
  <1> QED BY <1>1, <1>4

LEMMA OthersJoined ==
    ASSUME TypeInv, FlowInv, NEW p \in Packets, Emit(p), cap' = cap, handle' = handle,
           NEW g \in Flows, p.flow # g \/ p.kind \notin TcpKinds,
           connMap'[g] = connMap[g], app'[g] = app[g], relay'[g] = relay[g]
    PROVE  FlowGood(handle # "closed", Wire, connMap[g], app[g], relay[g], g)'
  <1>1. Wire \in Seq(Packets) /\ Wire' = Append(Wire, p)
    BY WireType, WireEmit
  <1>2. FlowGood(handle # "closed", Wire, connMap[g], app[g], relay[g], g)
    BY DEF FlowInv
  <1>3. (handle # "closed") \in BOOLEAN
    OBVIOUS
  <1>4. FlowGood(handle # "closed", Append(Wire, p), connMap[g], app[g], relay[g], g)
    BY <1>1, <1>2, <1>3, FrameAppend
  <1> QED BY <1>1, <1>4

\* An ordinary capture step changes neither the wire nor a connection.
LEMMA FlowCaptureIdle ==
    ASSUME TypeInv, FlowInv, LoopTop \/ Recv \/ RecvRaises \/ Reinject
    PROVE  FlowInv'
  <1>1. UNCHANGED <<connMap, app, relay, handle>>
    BY DEF LoopTop, Recv, RecvRaises, Reinject, engineVars
  <1>2. Wire' = Wire
    <2>1. CASE Recv
      BY <2>1, WireReceived
    <2>2. CASE LoopTop \/ RecvRaises \/ Reinject
      <3>1. queue' = queue /\ cap.pc # "dispatch" /\ cap'.pc # "dispatch"
        BY <2>2 DEF LoopTop, RecvRaises, Reinject, NextPacket, TypeInv, TypeOK
      <3> QED BY <3>1 DEF Wire
    <2> QED BY <2>1, <2>2
  <1> QED BY <1>1, <1>2, FlowIdle

\* A packet of no connection is taken.
LEMMA FlowDispatch ==
    ASSUME TypeInv, FlowInv, DispatchDns \/ DispatchQuic
    PROVE  FlowInv'
  <1>1. /\ UNCHANGED <<connMap, app, relay, handle, queue>> /\ cap.pc = "dispatch"
        /\ cap.pkt.kind \in {"dns", "quic"}
    BY DEF DispatchDns, DispatchQuic, engineVars
  <1>2. cap'.pc # "dispatch"
    BY DEF DispatchDns, DispatchQuic, NextPacket, TypeInv, TypeOK
  <1>3. cap.pkt.kind \notin TcpKinds
    BY <1>1 DEF TcpKinds, ClientKinds, ReplyKinds
  <1> QED BY <1>1, <1>2, <1>3, OthersTaken DEF FlowInv

LEMMA FlowRedirect ==
    ASSUME TypeInv, CapStarted, FlowInv, Redirect
    PROVE  FlowInv'
  <1>0. PICK p, f : p = cap.pkt /\ f = cap.pkt.flow
    OBVIOUS
  <1> DEFINE r == relay[f]
  <1>1. /\ p \in Packets /\ p.kind \in ClientKinds /\ p.kind \in TcpKinds
        /\ f \in Flows /\ p.dst \in Servers /\ cap.pc = "dispatch"
        /\ relay \in [Flows -> RelayEnds] /\ connMap \in [Flows -> Servers \cup {NoServer}]
    BY <1>0, PacketKinds DEF Redirect, TurnRound, TypeInv, TypeOK, TcpKinds
  <1>2. /\ UNCHANGED <<queue, app, handle>>
        /\ connMap' = [connMap EXCEPT ![f] = IF p.kind = "rst" THEN NoServer ELSE p.dst]
        /\ IF handle = "open" THEN AtRelay(p) ELSE relay' = relay
    BY <1>0 DEF Redirect, TurnRound, Noted, engineVars
  <1>3. cap'.pc # "dispatch"
    BY DEF Redirect, TurnRound, NextPacket
  <1>4. Wire \in Seq(Packets) /\ Wire # <<>> /\ Head(Wire) = p /\ Wire' = Tail(Wire)
    BY <1>0, <1>1, <1>2, <1>3, WireType, WireTaken
  <1>5. Takes(Wire, p, Wire', f)
    BY <1>0, <1>1, <1>4, TailTakes
  <1>6. handle \in {"open", "closed"}
    BY <1>1 DEF CapStarted, TypeInv, TypeOK
  <1>7. \A g \in Flows : g # f => /\ connMap'[g] = connMap[g] /\ app'[g] = app[g]
                                  /\ relay'[g] = relay[g]
    BY <1>0, <1>1, <1>2 DEF AtRelay
  <1>8. \A g \in Flows : g # f =>
            FlowGood(handle # "closed", Wire, connMap[g], app[g], relay[g], g)'
    BY <1>0, <1>1, <1>2, <1>3, <1>7, OthersTaken
  <1>9. FlowGood(handle # "closed", Wire, connMap[f], app[f], relay[f], f)
    BY <1>1 DEF FlowInv
  <1>10. /\ connMap'[f] = (IF p.kind = "rst" THEN NoServer ELSE p.dst)
         /\ app'[f] = app[f] /\ handle' = handle
    BY <1>1, <1>2
  <1>11. FlowGood(handle # "closed", Wire, connMap[f], app[f], relay[f], f)'
    <2>1. CASE handle = "closed"
      <3>1. (handle # "closed") = FALSE /\ (handle' # "closed") = FALSE
        BY <2>1, <1>2
      <3>2. relay'[f] = r
        BY <2>1, <1>2
      <3>3. FlowGood(FALSE, Wire, connMap[f], app[f], r, f)
        BY <3>1, <1>9
      <3>4. FlowGood(FALSE, Wire', p.dst, app[f], r, f) /\ FlowGood(FALSE, Wire', NoServer, app[f], r, f)
        BY <1>5, <3>3, FlowTakenClosed
      <3> QED BY <3>1, <3>2, <3>4, <1>10
    <2>2. CASE handle = "open"
      <3>1. (handle # "closed") = TRUE /\ (handle' # "closed") = TRUE
        BY <2>2, <1>2
      <3>2. AtRelay(p) /\ r \in RelayEnds
        BY <2>2, <1>1, <1>2
      <3>3. FlowGood(TRUE, Wire, connMap[f], app[f], r, f)
        BY <3>1, <1>9
      <3>4. CASE p.kind = "data"
        <4>1. relay'[f] = r
          BY <3>2, <3>4, <1>0, <1>1 DEF AtRelay
        <4>2. FlowGood(TRUE, Wire', p.dst, app[f], r, f)
          BY <3>3, <3>4, <1>1, <1>5, FlowData
        <4> QED BY <3>1, <3>4, <4>1, <4>2, <1>10
      <3>5. CASE p.kind = "syn"
        <4>1. \/ relay'[f] = r
              \/ /\ r.st = "none"
                 /\ relay'[f].st = "accepted" /\ relay'[f].for = p.dst
                 /\ ~relay'[f].finSent /\ ~relay'[f].finRcvd
          BY <3>2, <3>5, <1>0, <1>1 DEF AtRelay, NoRelay
        <4>2. FlowGood(TRUE, Wire', p.dst, app[f], relay'[f], f)
          BY <3>3, <3>5, <4>1, <1>1, <1>5, FlowSyn
        <4> QED BY <3>1, <3>5, <4>2, <1>10
      <3>6. CASE p.kind = "fin"
        <4>1. \/ r.st = "none" /\ relay'[f] = r
              \/ r.finSent /\ relay'[f] = NoRelay
              \/ /\ r.st # "none" /\ ~r.finSent
                 /\ relay'[f] = [r EXCEPT !.finRcvd = TRUE]
          BY <3>2, <3>6, <1>0, <1>1 DEF AtRelay
        <4>2. ~r.finSent => LET x == [r EXCEPT !.finRcvd = TRUE] IN
                 /\ x.st = r.st /\ x.for = r.for /\ x.to = r.to /\ ~x.finSent /\ x.finRcvd
          BY <3>2 DEF RelayEnds
        <4>3. FlowGood(TRUE, Wire', p.dst, app[f], relay'[f], f)
          BY <3>3, <3>6, <4>1, <4>2, <1>1, <1>5, FlowFin
        <4> QED BY <3>1, <3>6, <4>3, <1>10
      <3>7. CASE p.kind = "rst"
        <4>1. relay'[f] = NoRelay
          BY <3>2, <3>7, <1>0, <1>1 DEF AtRelay
        <4>2. FlowGood(TRUE, Wire', NoServer, app[f], NoRelay, f)
          BY <3>3, <3>7, <1>5, FlowRst
        <4> QED BY <3>1, <3>7, <4>1, <4>2, <1>10
      <3> QED BY <3>4, <3>5, <3>6, <3>7, <1>1 DEF ClientKinds
    <2> QED BY <2>1, <2>2, <1>6
  <1> QED BY <1>8, <1>11 DEF FlowInv

LEMMA FlowRewriteReply ==
    ASSUME TypeInv, CapStarted, FlowInv, RewriteReply
    PROVE  FlowInv'
  <1>0. PICK p, f : p = cap.pkt /\ f = cap.pkt.flow
    OBVIOUS
  <1> DEFINE m == connMap[f]
             a == app[f]
  <1>1. /\ p \in Packets /\ p.kind \in ReplyKinds /\ p.kind \in TcpKinds
        /\ f \in Flows /\ p.dst \in Servers /\ cap.pc = "dispatch"
        /\ app \in [Flows -> AppEnds] /\ connMap \in [Flows -> Servers \cup {NoServer}]
    BY <1>0, PacketKinds DEF RewriteReply, PassBack, TypeInv, TypeOK, TcpKinds
  <1>2. /\ UNCHANGED <<queue, relay, handle>>
        /\ m = NoServer => connMap' = connMap /\ app' = app
        /\ m # NoServer =>
              /\ IF handle = "open" THEN AtApp(p, m) ELSE app' = app
              /\ connMap' = [connMap EXCEPT ![f] =
                                IF p.kind \in {"replyRst", "replyFin"} THEN NoServer ELSE m]
    BY <1>0 DEF RewriteReply, PassBack, engineVars
  <1>3. cap'.pc # "dispatch"
    BY DEF RewriteReply, PassBack, NextPacket
  <1>4. Wire \in Seq(Packets) /\ Wire # <<>> /\ Head(Wire) = p /\ Wire' = Tail(Wire)
    BY <1>0, <1>1, <1>2, <1>3, WireType, WireTaken
  <1>5. Takes(Wire, p, Wire', f)
    BY <1>0, <1>1, <1>4, TailTakes
  <1>6. handle \in {"open", "closed"}
    BY <1>1 DEF CapStarted, TypeInv, TypeOK
  <1>7. \A g \in Flows : g # f => /\ connMap'[g] = connMap[g] /\ app'[g] = app[g]
                                  /\ relay'[g] = relay[g]
    BY <1>0, <1>1, <1>2 DEF AtApp
  <1>8. \A g \in Flows : g # f =>
            FlowGood(handle # "closed", Wire, connMap[g], app[g], relay[g], g)'
    BY <1>0, <1>1, <1>2, <1>3, <1>7, OthersTaken
  <1>9. FlowGood(handle # "closed", Wire, m, a, relay[f], f)
    BY <1>1 DEF FlowInv
  <1>10. /\ connMap'[f] = (IF p.kind \in {"replyRst", "replyFin"} THEN NoServer ELSE m)
         /\ relay'[f] = relay[f] /\ handle' = handle
    BY <1>1, <1>2
  <1>11. FlowGood(handle # "closed", Wire, connMap[f], app[f], relay[f], f)'
    <2>1. CASE handle = "closed"
      <3>1. (handle # "closed") = FALSE /\ (handle' # "closed") = FALSE
        BY <2>1, <1>2
      <3>2. app'[f] = a
        BY <2>1, <1>2
      <3>3. FlowGood(FALSE, Wire, m, a, relay[f], f)
        BY <3>1, <1>9
      <3>4. FlowGood(FALSE, Wire', m, a, relay[f], f)
            /\ FlowGood(FALSE, Wire', NoServer, a, relay[f], f)
        BY <1>5, <3>3, FlowTakenClosed
      <3> QED BY <3>1, <3>2, <3>4, <1>10
    <2>2. CASE handle = "open"
      <3>1. (handle # "closed") = TRUE /\ (handle' # "closed") = TRUE
        BY <2>2, <1>2
      <3>2. app'[f] = a \/ AtApp(p, m)
        BY <2>2, <1>2
      <3>3. FlowGood(TRUE, Wire, m, a, relay[f], f) /\ a \in AppEnds
        BY <3>1, <1>1, <1>9
      <3>4. CASE p.kind \in {"reply", "ack"}
        <4>1. app'[f] = a
          BY <3>2, <3>4, <1>0, <1>1 DEF AtApp
        <4>2. FlowGood(TRUE, Wire', m, a, relay[f], f)
          BY <3>3, <3>4, <1>5, FlowReply
        <4> QED BY <3>1, <3>4, <4>1, <4>2, <1>10
      <3>5. CASE p.kind \in {"replyFin", "replyRst"}
        <4>1. \/ app'[f] = a
              \/ /\ p.kind = "replyRst" /\ a.st \in {"open", "finSent", "finRcvd"}
                 /\ app'[f].st = "closed" /\ ~app'[f].ack
              \/ /\ p.kind = "replyFin" /\ a.st \in {"open", "finSent", "finRcvd"}
                 /\ app'[f].st = (IF a.st = "open" THEN "finRcvd" ELSE "closed")
                 /\ app'[f].dst = a.dst
          BY <3>2, <3>3, <3>5, <1>0, <1>1 DEF AtApp, NoApp, AppEnds
        <4>2. FlowGood(TRUE, Wire', NoServer, app'[f], relay[f], f)
          BY <3>3, <3>5, <4>1, <1>5, FlowLastReply
        <4> QED BY <3>1, <3>5, <4>2, <1>10
      <3> QED BY <3>4, <3>5, <1>1 DEF ReplyKinds
    <2> QED BY <2>1, <2>2, <1>6
  <1> QED BY <1>8, <1>11 DEF FlowInv

\* A segment of flow f is sent: what is left to show is FlowGood of f itself.
LEMMA FlowEmit ==
    ASSUME TypeInv, FlowInv, NEW f \in Flows, NEW k \in TcpKinds, NEW s \in Servers,
           Room, Emit(TcpPacket(k, f, s)), UNCHANGED <<cap, connMap, handle>>,
           \A g \in Flows : g # f => app'[g] = app[g] /\ relay'[g] = relay[g]
    PROVE  /\ FlowGood(TRUE, Wire, connMap[f], app[f], relay[f], f)
           /\ Joins(Wire, TcpPacket(k, f, s), Wire', f)
           /\ FlowGood(TRUE, Wire', connMap[f], app'[f], relay'[f], f) => FlowInv'
  <1> DEFINE p == TcpPacket(k, f, s)
  <1>1. p \in Packets /\ p.flow = f /\ p.kind = k
    BY TcpPacketType DEF TcpPacket, TcpKinds
  <1> HIDE DEF p
  <1>2. Emit(p)
    BY DEF p
  <1>3. Wire \in Seq(Packets) /\ Wire' = Append(Wire, p)
    BY <1>1, <1>2, WireType, WireEmit
  <1>4. Joins(Wire, p, Wire', f)
    BY <1>1, <1>3, AppendJoins
  <1>5. (handle # "closed") = TRUE /\ (handle' # "closed") = TRUE
    BY DEF Room
  <1>6. FlowGood(TRUE, Wire, connMap[f], app[f], relay[f], f)
    BY <1>5 DEF FlowInv
  <1>7. \A g \in Flows : g # f =>
            FlowGood(handle # "closed", Wire, connMap[g], app[g], relay[g], g)'
    BY <1>1, <1>2, OthersJoined
  <1>8. ASSUME FlowGood(TRUE, Wire', connMap[f], app'[f], relay'[f], f) PROVE FlowInv'
    BY <1>5, <1>7, <1>8 DEF FlowInv
  <1> QED BY <1>4, <1>6, <1>8 DEF p

LEMMA FlowRelay ==
    ASSUME TypeInv, FlowInv, NEW f \in Flows, RelaySide(f)
    PROVE  FlowInv'
  <1> DEFINE r == relay[f]
  <1>1. /\ relay \in [Flows -> RelayEnds] /\ r \in RelayEnds
        /\ connMap[f] \in Servers \cup {NoServer} /\ (r.st # "none" => r.for \in Servers)
    BY DEF TypeInv, TypeOK, EndsKnown
  <1>2. UNCHANGED <<cap, connMap, handle, app>>
    BY DEF RelaySide, Lookup, RelaySegment, RelayFin, RelayRst, restOfRelay, engineVars
  <1>3. CASE Lookup(f)
    <2> DEFINE x == [r EXCEPT !.to = connMap[f],
                              !.st = IF connMap[f] = NoServer THEN "leaving" ELSE "serving"]
    <2>1. relay' = [relay EXCEPT ![f] = x] /\ r.st = "accepted" /\ queue' = queue
      BY <1>3 DEF Lookup
    <2>2. /\ x.st = (IF connMap[f] = NoServer THEN "leaving" ELSE "serving")
          /\ x.to = connMap[f] /\ x.for = r.for
          /\ x.finSent = r.finSent /\ x.finRcvd = r.finRcvd
      BY <1>1 DEF RelayEnds
    <2> HIDE DEF x
    <2>3. Wire' = Wire
      BY <1>2, <2>1 DEF Wire
    <2>4. (handle # "closed") \in BOOLEAN
      OBVIOUS
    <2>5. FlowGood(handle # "closed", Wire, connMap[f], app[f], r, f)
      BY DEF FlowInv
    <2>6. FlowGood(handle # "closed", Wire, connMap[f], app[f], x, f)
      BY <1>1, <2>1, <2>2, <2>4, <2>5, FlowLookup
    <2> QED BY <1>1, <1>2, <2>1, <2>3, <2>6 DEF FlowInv
  <1>4. CASE RelaySegment(f)
    <2>1. PICK k \in TcpKinds : /\ k = (IF r.finSent THEN "ack" ELSE "reply")
                                /\ Emit(TcpPacket(k, f, r.for))
      BY <1>4 DEF RelaySegment, TcpKinds, ReplyKinds
    <2>2. Room /\ r.st # "none" /\ r.for \in Servers /\ relay' = relay
      BY <1>1, <1>4 DEF RelaySegment
    <2>3. TcpPacket(k, f, r.for).kind = k /\ TcpPacket(k, f, r.for).dst = r.for
      BY DEF TcpPacket
    <2>4. /\ FlowGood(TRUE, Wire, connMap[f], app[f], r, f)
          /\ Joins(Wire, TcpPacket(k, f, r.for), Wire', f)
          /\ FlowGood(TRUE, Wire', connMap[f], app'[f], relay'[f], f) => FlowInv'
      BY <1>2, <2>1, <2>2, FlowEmit
    <2>5. FlowGood(TRUE, Wire', connMap[f], app[f], r, f)
      BY <2>1, <2>2, <2>3, <2>4, FlowRelaySegment
    <2> QED BY <1>2, <2>2, <2>4, <2>5
  <1>5. CASE RelayFin(f) \/ RelayRst(f)
    <2>1. PICK k \in TcpKinds :
            /\ Emit(TcpPacket(k, f, r.for))
            /\ \/ /\ k = "replyRst"
                  /\ relay' = [relay EXCEPT ![f] = NoRelay]
               \/ /\ k = "replyFin" /\ ~r.finSent
                  /\ relay' = [relay EXCEPT ![f] = IF r.finRcvd THEN NoRelay
                                                    ELSE [r EXCEPT !.finSent = TRUE]]
      BY <1>5 DEF RelayFin, RelayRst, TcpKinds, ReplyKinds
    <2>2. Room /\ r.st \in {"serving", "leaving"} /\ r.for \in Servers
      BY <1>1, <1>5 DEF RelayFin, RelayRst
    <2>3. TcpPacket(k, f, r.for).kind = k /\ TcpPacket(k, f, r.for).dst = r.for
      BY DEF TcpPacket
    <2>4. \A g \in Flows : g # f => relay'[g] = relay[g]
      BY <1>1, <2>1
    <2>5. /\ FlowGood(TRUE, Wire, connMap[f], app[f], r, f)
          /\ Joins(Wire, TcpPacket(k, f, r.for), Wire', f)
          /\ FlowGood(TRUE, Wire', connMap[f], app'[f], relay'[f], f) => FlowInv'
      BY <1>2, <2>1, <2>2, <2>4, FlowEmit
    <2>6. NoRelay.st = "none" /\ ~NoRelay.finSent /\ ~NoRelay.finRcvd
      BY DEF NoRelay
    <2>7. LET x == [r EXCEPT !.finSent = TRUE] IN
             /\ x.st = r.st /\ x.for = r.for /\ x.to = r.to /\ x.finSent
             /\ x.finRcvd = r.finRcvd
      BY <1>1 DEF RelayEnds
    <2>8. \/ /\ k = "replyRst"
             /\ relay'[f].st = "none" /\ ~relay'[f].finSent /\ ~relay'[f].finRcvd
          \/ /\ k = "replyFin" /\ ~r.finSent
             /\ IF r.finRcvd
                  THEN relay'[f].st = "none" /\ ~relay'[f].finSent /\ ~relay'[f].finRcvd
                  ELSE /\ relay'[f].st = r.st /\ relay'[f].for = r.for
                       /\ relay'[f].to = r.to
                       /\ relay'[f].finSent /\ ~relay'[f].finRcvd
      BY <1>1, <2>1, <2>6, <2>7
    <2>9. FlowGood(TRUE, Wire', connMap[f], app[f], relay'[f], f)
      BY <2>2, <2>3, <2>5, <2>8, FlowRelayEnds
    <2> QED BY <1>2, <2>5, <2>9
  <1> QED BY <1>3, <1>4, <1>5 DEF RelaySide

LEMMA FlowApp ==
    ASSUME TypeInv, FlowInv, NEW f \in Flows, AppSide(f)
    PROVE  FlowInv'
  <1> DEFINE a == app[f]
  <1>1. /\ app \in [Flows -> AppEnds] /\ a \in AppEnds
        /\ (a.st # "closed" \/ a.ack => a.dst \in Servers)
    BY DEF TypeInv, TypeOK, EndsKnown
  <1>2. UNCHANGED <<cap, connMap, handle, relay>> /\ Room
    BY DEF AppSide, Connect, AppSegment, AppFin, AppRst, restOfApp, engineVars
  <1>3. \A g \in Flows : g # f => app'[g] = app[g]
    BY <1>1 DEF AppSide, Connect, AppSegment, AppFin, AppRst
  <1>4. ASSUME NEW k \in TcpKinds, NEW s \in Servers, Emit(TcpPacket(k, f, s))
        PROVE  /\ TcpPacket(k, f, s).kind = k /\ TcpPacket(k, f, s).dst = s
               /\ FlowGood(TRUE, Wire, connMap[f], a, relay[f], f)
               /\ Joins(Wire, TcpPacket(k, f, s), Wire', f)
               /\ FlowGood(TRUE, Wire', connMap[f], app'[f], relay[f], f) => FlowInv'
    <2>1. TcpPacket(k, f, s).kind = k /\ TcpPacket(k, f, s).dst = s
      BY DEF TcpPacket
    <2> QED BY <2>1, <1>2, <1>3, <1>4, FlowEmit
  <1>5. {"syn", "data", "fin", "rst"} \subseteq TcpKinds
    BY DEF TcpKinds, ClientKinds
  <1>6. CASE Connect(f)
    <2>1. PICK s \in Servers :
            /\ app' = [app EXCEPT ![f] = [st |-> "open", dst |-> s, ack |-> FALSE]]
            /\ Emit(TcpPacket("syn", f, s))
      BY <1>6 DEF Connect
    <2>2. app'[f].st = "open" /\ app'[f].dst = s /\ ~app'[f].ack
      BY <1>1, <2>1
    <2>3. ~a.ack /\ a.st \in {"closed", "aborted"}
      BY <1>6 DEF Connect
    <2>4. \A K : Slots(Wire, f, K) = {}
      <3>1. queue \in Seq(Packets) /\ cap.pkt \in Packets
        BY DEF TypeInv, TypeOK
      <3> HIDE DEF Packets
      <3>2. /\ cap.pc = "dispatch" => cap.pkt.flow # f
            /\ \A i \in 1 .. Len(queue) : queue[i].flow # f
        BY <1>6, <3>1, LenProperties DEF Connect, Quiet
      <3>3. /\ Len(queue) \in Nat /\ Len(<<cap.pkt>> \o queue) = 1 + Len(queue)
            /\ (<<cap.pkt>> \o queue)[1] = cap.pkt
            /\ \A i \in 2 .. 1 + Len(queue) : (<<cap.pkt>> \o queue)[i] = queue[i - 1]
        BY <3>1
      <3>4. \A i \in 1 .. Len(Wire) : Wire[i].flow # f
        <4>1. CASE cap.pc = "dispatch"
          BY <3>2, <3>3, <4>1 DEF Wire
        <4>2. CASE cap.pc # "dispatch"
          BY <3>2, <4>2 DEF Wire
        <4> QED BY <4>1, <4>2
      <3> QED BY <3>4 DEF Slots
    <2>5. /\ TcpPacket("syn", f, s).kind = "syn" /\ TcpPacket("syn", f, s).dst = s
          /\ FlowGood(TRUE, Wire, connMap[f], a, relay[f], f)
          /\ Joins(Wire, TcpPacket("syn", f, s), Wire', f)
          /\ FlowGood(TRUE, Wire', connMap[f], app'[f], relay[f], f) => FlowInv'
      BY <1>4, <1>5, <2>1
    <2>6. FlowGood(TRUE, Wire', connMap[f], app'[f], relay[f], f)
      BY <2>2, <2>3, <2>4, <2>5, FlowConnect
    <2> QED BY <2>5, <2>6
  <1>7. CASE AppSegment(f)
    <2>1. /\ Emit(TcpPacket("data", f, a.dst)) /\ a.dst \in Servers
          /\ a.st \in {"open", "finRcvd"} \/ a.ack
          /\ app' = [app EXCEPT ![f] = [a EXCEPT !.ack = FALSE]]
      BY <1>1, <1>7 DEF AppSegment
    <2>2. app'[f].st = a.st /\ app'[f].dst = a.dst /\ ~app'[f].ack
      BY <1>1, <2>1 DEF AppEnds
    <2>3. /\ TcpPacket("data", f, a.dst).kind = "data" /\ TcpPacket("data", f, a.dst).dst = a.dst
          /\ FlowGood(TRUE, Wire, connMap[f], a, relay[f], f)
          /\ Joins(Wire, TcpPacket("data", f, a.dst), Wire', f)
          /\ FlowGood(TRUE, Wire', connMap[f], app'[f], relay[f], f) => FlowInv'
      BY <1>4, <1>5, <2>1
    <2>4. ASSUME NEW p, p = TcpPacket("data", f, a.dst), NEW b, b = app'[f]
          PROVE  FlowGood(TRUE, Wire', connMap[f], b, relay[f], f)
      <3>1. /\ Joins(Wire, p, Wire', f) /\ p.kind = "data" /\ p.dst = a.dst
            /\ FlowGood(TRUE, Wire, connMap[f], a, relay[f], f)
        BY <2>3, <2>4
      <3>2. a.st \in {"open", "finRcvd"} \/ a.ack
        BY <2>1
      <3>3. b.st = a.st /\ b.dst = a.dst /\ ~b.ack
        BY <2>2, <2>4
      <3> HIDE DEF a
      <3> QED BY <3>1, <3>2, <3>3, FlowSegment
    <2> QED BY <2>3, <2>4
  <1>8. CASE AppFin(f)
    <2>1. /\ Emit(TcpPacket("fin", f, a.dst)) /\ a.dst \in Servers
          /\ a.st \in {"open", "finRcvd"}
      BY <1>1, <1>8 DEF AppFin
    <2>2. /\ app'[f].st = (IF a.st = "open" THEN "finSent" ELSE "closed")
          /\ app'[f].dst = a.dst /\ ~app'[f].ack
      BY <1>1, <1>8 DEF AppFin, AppEnds
    <2>3. /\ TcpPacket("fin", f, a.dst).kind = "fin" /\ TcpPacket("fin", f, a.dst).dst = a.dst
          /\ FlowGood(TRUE, Wire, connMap[f], a, relay[f], f)
          /\ Joins(Wire, TcpPacket("fin", f, a.dst), Wire', f)
          /\ FlowGood(TRUE, Wire', connMap[f], app'[f], relay[f], f) => FlowInv'
      BY <1>4, <1>5, <2>1
    <2>4. FlowGood(TRUE, Wire', connMap[f], app'[f], relay[f], f)
      BY <2>1, <2>2, <2>3, FlowAppFin
    <2> QED BY <2>3, <2>4
  <1>9. CASE AppRst(f)
    <2>1. /\ Emit(TcpPacket("rst", f, a.dst)) /\ a.dst \in Servers
          /\ a.st \in {"open", "finSent", "finRcvd"}
      BY <1>1, <1>9 DEF AppRst
    <2>2. app'[f].st = "aborted" /\ app'[f].dst = a.dst /\ ~app'[f].ack
      BY <1>1, <1>9 DEF AppRst, AppEnds
    <2>3. /\ TcpPacket("rst", f, a.dst).kind = "rst" /\ TcpPacket("rst", f, a.dst).dst = a.dst
          /\ FlowGood(TRUE, Wire, connMap[f], a, relay[f], f)
          /\ Joins(Wire, TcpPacket("rst", f, a.dst), Wire', f)
          /\ FlowGood(TRUE, Wire', connMap[f], app'[f], relay[f], f) => FlowInv'
      BY <1>4, <1>5, <2>1
    <2>4. FlowGood(TRUE, Wire', connMap[f], app'[f], relay[f], f)
      BY <2>1, <2>2, <2>3, FlowAppRst
    <2> QED BY <2>3, <2>4
  <1> QED BY <1>6, <1>7, <1>8, <1>9 DEF AppSide

LEMMA FlowTraffic ==
    ASSUME TypeInv, FlowInv, (\E q \in Queries : Ask(q)) \/ SendQuic
    PROVE  FlowInv'
  <1>1. PICK p \in Packets : Emit(p) /\ p.kind \in {"dns", "quic"}
    BY OtherPacketTypes DEF Ask, SendQuic, DnsPacket, QuicPacket
  <1>2. UNCHANGED <<cap, connMap, handle, app, relay>>
    BY DEF Ask, SendQuic, restOfApp, engineVars
  <1>3. p.kind \notin TcpKinds
    BY <1>1 DEF TcpKinds, ClientKinds, ReplyKinds
  <1> QED BY <1>1, <1>2, <1>3, OthersJoined DEF FlowInv

LEMMA FlowStep ==
    ASSUME TypeInv, PoolOutlivesHandle, CapStarted, FlowInv, ~missed, [Next]_vars
    PROVE  FlowInv'
  <1>1. CASE Start \/ PressStop \/ Quit \/ Finish \/ Exit \/ Gone
    BY <1>1, FlowCtl
  <1>2. CASE Capture
    BY <1>2, FlowCaptureIdle, FlowDispatch, FlowRedirect, FlowRewriteReply DEF Capture
  <1>3. CASE (TakeJob \/ \E q \in Queries : Worker(q)) \/ UNCHANGED vars
    <2>1. UNCHANGED <<queue, cap, connMap, app, relay, handle>>
      BY <1>3 DEF TakeJob, Worker, Resolved, Answer, vars, engineVars
    <2> QED BY <2>1, FlowIdle DEF Wire
  <1>4. CASE \E f \in Flows : RelaySide(f) \/ AppSide(f)
    BY <1>4, FlowRelay, FlowApp
  <1>5. CASE (\E q \in Queries : Ask(q)) \/ SendQuic
    BY <1>5, FlowTraffic
  <1> QED BY <1>1, <1>2, <1>3, <1>4, <1>5 DEF Next

-----------------------------------------------------------------------------
(***************************************************************************)
(* What the invariant says of one state.  Of an engine whose stop has      *)
(* missed the handle nothing is claimed.                                   *)
(***************************************************************************)
LEMMA FlowGives ==
    ASSUME TypeInv, missed \/ FlowInv
    PROVE  RelayServesItsClient /\ ReplyFromRightServer /\ AbortedFlowForgotten
  <1>0. queue \in Seq(Packets) /\ cap.pkt \in Packets
    BY DEF TypeInv, TypeOK
  <1>1. ASSUME NEW f \in Flows, ~missed
        PROVE  /\ \E s : SameServer(s, Wire, connMap[f], app[f], relay[f], f)
               /\ HandlerOK(relay[f])
               /\ handle = "open" => FlowOK(Wire, connMap[f], app[f], relay[f], f)
    BY <1>1 DEF FlowInv, FlowGood
  <1>2. RelayServesItsClient
    BY <1>1 DEF RelayServesItsClient, HandlerOK, FlowOK, EntryKept
  <1>3. ReplyFromRightServer
    <2>1. SUFFICES ASSUME cap.pc = "dispatch", cap.pkt.kind \in ReplyKinds, ~missed,
                          NEW f, f = cap.pkt.flow
          PROVE  /\ connMap[f] \in {cap.pkt.dst, NoServer}
                 /\ cap.pkt.kind \in {"reply", "replyFin"} /\ Waiting(f, cap.pkt.dst)
                       /\ handle = "open" => connMap[f] # NoServer
      BY DEF ReplyFromRightServer
    <2>2. f \in Flows /\ cap.pkt.kind \in TcpKinds
      BY <1>0, <2>1, PacketKinds DEF TcpKinds
    <2>3. Len(Wire) \in Nat \ {0} /\ Wire[1] = cap.pkt
      <3> HIDE DEF Packets
      <3>1. /\ Len(queue) \in Nat /\ Len(<<cap.pkt>> \o queue) = 1 + Len(queue)
            /\ (<<cap.pkt>> \o queue)[1] = cap.pkt
        BY <1>0
      <3> QED BY <2>1, <3>1 DEF Wire
    <2>4. \A K : cap.pkt.kind \in K => 1 \in Slots(Wire, f, K)
      BY <2>1, <2>3 DEF Slots
    <2>5. connMap[f] \in {cap.pkt.dst, NoServer}
      <3>1. PICK s : SameServer(s, Wire, connMap[f], app[f], relay[f], f)
        BY <1>1, <2>1, <2>2
      <3>2. Wire[1].dst = s /\ connMap[f] \in {s, NoServer}
        BY <2>1, <2>2, <2>4, <3>1 DEF SameServer
      <3> QED BY <2>3, <3>2
    <2>6. ASSUME cap.pkt.kind \in {"reply", "replyFin"}, Waiting(f, cap.pkt.dst),
                 handle = "open"
          PROVE  connMap[f] # NoServer
      <3>1. Live(Wire, relay[f], f)
        BY <2>4, <2>6 DEF Live
      <3> QED BY <1>1, <2>1, <2>2, <2>6, <3>1 DEF FlowOK, EntryKept, Waiting
    <2> QED BY <2>5, <2>6
  <1>4. AbortedFlowForgotten
    <2>1. SUFFICES ASSUME NEW f \in Flows, app[f].st = "aborted", Quiet(f), handle = "open",
                          ~missed
          PROVE  connMap[f] = NoServer
      BY DEF AbortedFlowForgotten
    <2>2. Slots(Wire, f, ClientKinds) = {}
      <3> HIDE DEF Packets
      <3>1. /\ cap.pc = "dispatch" => cap.pkt.flow # f
            /\ \A i \in 1 .. Len(queue) : queue[i].flow # f
        BY <1>0, <2>1, LenProperties DEF Quiet
      <3>2. /\ Len(queue) \in Nat /\ Len(<<cap.pkt>> \o queue) = 1 + Len(queue)
            /\ (<<cap.pkt>> \o queue)[1] = cap.pkt
            /\ \A i \in 2 .. 1 + Len(queue) : (<<cap.pkt>> \o queue)[i] = queue[i - 1]
        BY <1>0
      <3>3. \A i \in 1 .. Len(Wire) : Wire[i].flow # f
        <4>1. CASE cap.pc = "dispatch"
          BY <3>1, <3>2, <4>1 DEF Wire
        <4>2. CASE cap.pc # "dispatch"
          BY <3>1, <4>2 DEF Wire
        <4> QED BY <4>1, <4>2
      <3> QED BY <3>3 DEF Slots
    <2> QED BY <1>1, <2>1, <2>2 DEF FlowOK, Aborting
  <1> QED BY <1>2, <1>3, <1>4

EngineInv ==
    /\ TypeInv /\ PoolOutlivesHandle /\ EndOrder /\ NoPlaintextDns /\ CapStarted
    /\ missed \/ FlowInv

LEMMA EngineAlways == Spec => []EngineInv
  <1>1. Init => EngineInv
    BY TypeInit, DnsInit, FlowInit DEF EngineInv
  <1>2. EngineInv /\ [Next]_vars => EngineInv'
    BY TypeStep, DnsStep, CapStartedStep, FlowStep, MissedStays DEF EngineInv, DnsInv, TypeInv
  <1> QED BY <1>1, <1>2, PTL DEF Spec

(***************************************************************************)
(* The relay connects every client to the server that client asked for     *)
(* (340-343, 649-653), whoever else uses the source port before or after,  *)
(* however late the handler looks, for any number of flows and servers, as *)
(* long as no handle is missed.                                            *)
(***************************************************************************)
THEOREM ClientsServed == Spec => []RelayServesItsClient
  <1>1. EngineInv => RelayServesItsClient
    BY FlowGives DEF EngineInv
  <1> QED BY <1>1, EngineAlways, PTL

(***************************************************************************)
(* A reply is passed off as coming from the server of its own connection,  *)
(* and none up to the relay's FIN is dropped while its application waits   *)
(* (659-668), as long as no handle is missed.                              *)
(***************************************************************************)
THEOREM RepliesFromRightServer == Spec => []ReplyFromRightServer
  <1>1. EngineInv => ReplyFromRightServer
    BY FlowGives DEF EngineInv
  <1> QED BY <1>1, EngineAlways, PTL

(***************************************************************************)
(* An aborted connection leaves no entry behind (652-653), as long as no   *)
(* handle is missed.                                                       *)
(***************************************************************************)
THEOREM AbortedForgotten == Spec => []AbortedFlowForgotten
  <1>1. EngineInv => AbortedFlowForgotten
    BY FlowGives DEF EngineInv
  <1> QED BY <1>1, EngineAlways, PTL

-----------------------------------------------------------------------------
(***************************************************************************)
(* The source ports that keep the relay's own connections out of the       *)
(* filter: UpstreamPorts, for every reserved range and every number of     *)
(* handler threads.                                                        *)
(***************************************************************************)

(***************************************************************************)
(* The counter stays in the range (wrap of line 269).                      *)
(***************************************************************************)
LEMMA NextPortInRange ==
    ASSUME nextPort \in PortRange
    PROVE  (IF nextPort + 1 <= Hi THEN nextPort + 1 ELSE Base) \in PortRange
  BY RangeAssumption DEF PortRange, Hi

LEMMA PortInit == PortsInit => PortInv
  <1>1. Base \in PortRange /\ Count > 0 /\ Count \in Nat
    BY RangeAssumption DEF PortRange, Hi
  <1> QED BY <1>1, EmptySeq DEF PortsInit, PortInv, PortsTypeOK, InLoop

LEMMA PortStep == PortInv /\ [PortsNext]_portVars => PortInv'
  <1> SUFFICES ASSUME PortInv, [PortsNext]_portVars PROVE PortInv'
    OBVIOUS
  <1> USE RangeAssumption DEF PortInv, PortsTypeOK, InLoop
  <1>1. CASE PortsChange
    <2>1. busy' \in SUBSET PortRange
      BY <1>1 DEF PortsChange
    <2> QED BY <1>1, <2>1 DEF PortsChange
  <1>2. ASSUME NEW t \in Threads, Begin(t) PROVE PortInv'
    BY <1>2 DEF Begin
  <1>3. ASSUME NEW t \in Threads, TakePort(t) PROVE PortInv'
    <2>1. nextPort' \in PortRange
      BY <1>3, NextPortInRange DEF TakePort, TakePortUpTo
    <2>2. given' \in Seq(PortRange)
      <3> DEFINE g == Append(given, nextPort)
      <3>1. g \in Seq(PortRange) /\ g # <<>>
        BY AppendProperties
      <3>2. Tail(g) \in Seq(PortRange)
        BY <3>1, HeadTailProperties
      <3>3. given' = g \/ given' = Tail(g)
        BY <1>3 DEF TakePort, TakePortUpTo
      <3> QED BY <3>1, <3>2, <3>3
    <2> QED BY <1>3, <2>1, <2>2 DEF TakePort, TakePortUpTo
  <1>4. ASSUME NEW t \in Threads, Bind(t) PROVE PortInv'
    BY <1>4 DEF Bind
  <1>5. ASSUME NEW t \in Threads, BindFails(t) PROVE PortInv'
    <2>1. tries[t] \in 0 .. Count /\ tries[t] + 1 \in 0 .. Count
      BY <1>5 DEF BindFails
    <2>2. tries' = [tries EXCEPT ![t] = tries[t] + 1] /\ tries'[t] = tries[t] + 1
      BY <1>5 DEF BindFails
    <2>3. PortsTypeOK'
      BY <1>5, <2>1, <2>2 DEF BindFails
    <2>4. InLoop'
      BY <1>5, <2>1, <2>2 DEF BindFails
    <2> QED BY <2>3, <2>4
  <1>6. ASSUME NEW t \in Threads, Connected(t) PROVE PortInv'
    BY <1>6 DEF Connected
  <1>7. ASSUME NEW t \in Threads, Close(t) PROVE PortInv'
    BY <1>7 DEF Close
  <1>8. CASE UNCHANGED portVars
    BY <1>8 DEF portVars
  <1> QED
    BY <1>1, <1>2, <1>3, <1>4, <1>5, <1>6, <1>7, <1>8 DEF PortsNext, Step

(***************************************************************************)
(* Types: the counter and every port taken from it stay in the reserved    *)
(* range, and no call makes more than Count attempts.                      *)
(***************************************************************************)
THEOREM PortsTypeCorrect == PortsSpec => []PortInv
  BY PortInit, PortStep, PTL DEF PortsSpec

(***************************************************************************)
(* The relay never captures its own connections, and captures those of     *)
(* everybody else (comments of lines 60-64 and 261-263): the bounds of the *)
(* filter and those of the counter agree.                                  *)
(***************************************************************************)
THEOREM NoSelfCapture == PortsSpec => []OwnTrafficPasses
  <1>1. PortInv => OwnTrafficPasses
    BY RangeAssumption, RelayPortAssumption, OtherPortsAssumption
       DEF PortInv, PortsTypeOK, OwnTrafficPasses, CapturesTcp, PortRange, Hi
  <1> QED BY <1>1, PortInit, PortStep, PTL DEF PortsSpec

-----------------------------------------------------------------------------
(***************************************************************************)
(* Ports rest.  The ports handed out are the last Len(given) ones before   *)
(* nextPort, counted backwards round the range: two different ones of at   *)
(* most Count are never the same.  This needs no induction over `given`,   *)
(* since each is described from nextPort and not from its neighbour.       *)
(***************************************************************************)
Before(p, d) == IF p - d >= Base THEN p - d ELSE p - d + Count

GivenInTurn ==
    /\ Len(given) <= Count
    /\ \A i \in 1 .. Len(given) : given[i] = Before(nextPort, Len(given) + 1 - i)

\* One step back from the next counter value is the counter value taken.
LEMMA BeforeNext ==
    ASSUME NEW p \in PortRange, NEW q, q = IF p + 1 <= Hi THEN p + 1 ELSE Base
    PROVE  /\ Before(q, 1) = p
           /\ \A d \in 1 .. Count - 1 : Before(q, d + 1) = Before(p, d)
  BY RangeAssumption DEF PortRange, Hi, Before

\* Going back by fewer than Count steps never meets the same port again.
LEMMA BeforeDistinct ==
    ASSUME NEW p \in PortRange, NEW d \in 1 .. Count, NEW e \in 1 .. Count, d # e
    PROVE  Before(p, d) # Before(p, e)
  BY RangeAssumption DEF PortRange, Hi, Before

LEMMA GivenStep == PortInv /\ GivenInTurn /\ [PortsNext]_portVars => GivenInTurn'
  <1> SUFFICES ASSUME PortInv, GivenInTurn, [PortsNext]_portVars PROVE GivenInTurn'
    OBVIOUS
  <1>1. ASSUME NEW t \in Threads, TakePort(t) PROVE GivenInTurn'
    <2> DEFINE g == Append(given, nextPort)
    <2>1. /\ given \in Seq(PortRange) /\ nextPort \in PortRange
          /\ nextPort' = (IF nextPort + 1 <= Hi THEN nextPort + 1 ELSE Base)
          /\ given' = (IF Len(g) > Count THEN Tail(g) ELSE g)
      BY <1>1 DEF PortInv, PortsTypeOK, TakePort, TakePortUpTo
    <2>2. /\ Len(given) \in Nat /\ g \in Seq(PortRange)
          /\ Len(g) = Len(given) + 1 /\ g # <<>>
          /\ \A i \in 1 .. Len(given) : g[i] = given[i]
          /\ g[Len(given) + 1] = nextPort
      BY <2>1, LenProperties, AppendProperties
    <2>3. ASSUME NEW i \in 1 .. Len(g), Len(g) + 1 - i <= Count
          PROVE  g[i] = Before(nextPort', Len(g) + 1 - i)
      <3> DEFINE d == Len(given) + 1 - i
      <3>1. CASE i = Len(g)
        BY <3>1, <2>1, <2>2, BeforeNext
      <3>2. CASE i # Len(g)
        <4>1. i \in 1 .. Len(given) /\ d \in 1 .. Count - 1 /\ d + 1 = Len(g) + 1 - i
          BY <3>2, <2>2, <2>3, RangeAssumption
        <4>2. g[i] = Before(nextPort, d)
          BY <4>1, <2>2 DEF GivenInTurn
        <4>3. Before(nextPort', d + 1) = Before(nextPort, d)
          BY <4>1, <2>1, BeforeNext
        <4> QED BY <4>1, <4>2, <4>3
      <3> QED BY <3>1, <3>2
    <2>4. CASE Len(g) > Count
      <3>1. /\ given' = Tail(g) /\ Len(Tail(g)) = Len(g) - 1 /\ Len(g) = Count + 1
            /\ \A i \in 1 .. Len(Tail(g)) : Tail(g)[i] = g[i + 1]
        BY <2>1, <2>2, <2>4, HeadTailProperties, RangeAssumption DEF GivenInTurn
      <3>2. ASSUME NEW i \in 1 .. Len(given')
            PROVE  given'[i] = Before(nextPort', Len(given') + 1 - i)
        <4>1. /\ i + 1 \in 1 .. Len(g) /\ Len(g) + 1 - (i + 1) <= Count
              /\ Len(g) + 1 - (i + 1) = Len(given') + 1 - i
          BY <3>1, <2>2, RangeAssumption
        <4>2. given'[i] = g[i + 1]
          BY <3>1
        <4>3. g[i + 1] = Before(nextPort', Len(g) + 1 - (i + 1))
          BY <2>3, <4>1
        <4> QED BY <4>1, <4>2, <4>3
      <3> QED BY <3>1, <3>2, <2>2, RangeAssumption DEF GivenInTurn
    <2>5. CASE ~(Len(g) > Count)
      <3>1. given' = g /\ Len(g) <= Count
        BY <2>1, <2>2, <2>5, RangeAssumption
      <3>2. \A i \in 1 .. Len(g) : Len(g) + 1 - i <= Count
        BY <3>1, <2>2, RangeAssumption
      <3> QED BY <2>3, <3>1, <3>2 DEF GivenInTurn
    <2> QED BY <2>4, <2>5
  <1>2. ASSUME UNCHANGED <<given, nextPort>> PROVE GivenInTurn'
    BY <1>2 DEF GivenInTurn
  <1>3. ASSUME NEW t \in Threads, Step(t), ~TakePort(t) PROVE UNCHANGED <<given, nextPort>>
    BY <1>3 DEF Step, Begin, Bind, BindFails, Connected, Close
  <1> QED BY <1>1, <1>2, <1>3 DEF PortsNext, PortsChange, portVars

(***************************************************************************)
(* A port that lingers is tried again only after all the others (lines     *)
(* 268-269), for every range and every interleaving of handlers.           *)
(***************************************************************************)
THEOREM PortsAreRested == PortsSpec => []PortsRest
  <1>1. PortsInit => GivenInTurn
    BY EmptySeq, RangeAssumption DEF PortsInit, GivenInTurn
  <1>2. PortInv /\ GivenInTurn => PortsRest
    <2> SUFFICES ASSUME PortInv, GivenInTurn, NEW i \in DOMAIN given, NEW j \in DOMAIN given,
                        i # j
                 PROVE  given[i] # given[j]
      BY DEF PortsRest
    <2>1. given \in Seq(PortRange) /\ nextPort \in PortRange
      BY DEF PortInv, PortsTypeOK
    <2>2. Len(given) \in Nat /\ i \in 1 .. Len(given) /\ j \in 1 .. Len(given)
      BY <2>1, LenProperties
    <2>3. /\ Len(given) + 1 - i \in 1 .. Count /\ Len(given) + 1 - j \in 1 .. Count
          /\ Len(given) + 1 - i # Len(given) + 1 - j
      BY <2>2, RangeAssumption DEF GivenInTurn
    <2> QED BY <2>1, <2>2, <2>3, BeforeDistinct DEF GivenInTurn
  <1> QED BY <1>1, <1>2, PortInit, PortStep, GivenStep, PTL DEF PortsSpec
=============================================================================
