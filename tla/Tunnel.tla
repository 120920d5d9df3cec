------------------------------- MODULE Tunnel -------------------------------
(***************************************************************************)
(* The session of the Android and Apple engine: core-go/tunnel/tunnel.go.  *)
(* The userspace network stack hands every TCP connection, UDP flow and    *)
(* DNS query of the device to a goroutine: pipeTCP, pipeUDP, handleDNS.    *)
(* Each copying needs one or two goroutines more.  Stop ends the session:  *)
(* it cancels the context, which only dialing looks at, closes the TUN     *)
(* device and then aborts the device's side of every flow.  It waits for   *)
(* no goroutine and closes no upstream socket.                             *)
(*                                                                         *)
(* Shared by the goroutines under a lock: the whitelist, read once at the  *)
(* start of a connection, and the hosts found not to take fragments.       *)
(*                                                                         *)
(* Servers, the filtering middlebox (DPI), the applications of the device  *)
(* and the network stack are the environment.                              *)
(***************************************************************************)
EXTENDS Naturals, Sequences

CONSTANTS
    Conns,      \* TCP connections
    Flows,      \* UDP flows, DNS among them
    Hosts,      \* host names
    NoSni,      \* labels that stand for the lack of a name
    Rejects,    \* hosts whose server resets a fragmented hello
    Blocked,    \* hosts whose name in one piece makes the DPI reset
    Whitelists, \* the whitelists the application may set
    MaxData     \* bound: pieces of data a server sends on one connection

ASSUME HostsAssumption ==
    /\ Hosts # {}
    /\ NoSni \subseteq Hosts /\ Rejects \subseteq Hosts /\ Blocked \subseteq Hosts
ASSUME WhitelistsAssumption == Whitelists \subseteq SUBSET Hosts
ASSUME MaxDataAssumption == MaxData \in Nat \ {0}

VARIABLES
    session,    \* how far Stop has come
    hosts,      \* s.hosts: the whitelist
    noFrag,     \* s.noFrag
    conn,       \* per TCP connection: its goroutines, sockets and peers
    flow        \* per UDP flow: its goroutines and the channel `done`

vars == <<session, hosts, noFrag, conn, flow>>
shared == <<session, hosts, noFrag>>

\* What a connection carries decides how its first bytes are sent.
Kinds == {"tls", "http", "other"}

ConnRecords ==
    [pc : {"none", "first", "dial", "send", "sending", "peek", "redial", "resend",
           "repeek", "forward", "copy", "done"},    \* pipeTCP
     copyUp : {"off", "run", "done"},               \* the goroutine io.Copy(up, local)
     kind : Kinds, host : Hosts,                    \* the host of a hello
     white : BOOLEAN,                               \* it is in the whitelist read at the start
     local : {"none", "open", "closed", "aborted"}, \* the device's side
     client : {"open", "half", "gone"},             \* the application
     up : {"none", "open", "closed"}, nup : 0 .. 2, \* the upstream socket, how many so far
     hello : {"none", "part", "cut", "whole"},      \* what this server has been sent
     srv : {"quiet", "talking", "eof", "reset"},
     sent : 0 .. MaxData, read : 0 .. MaxData,      \* pieces sent by it, and read from it
     got : Seq((1 .. 2) \X (1 .. MaxData)),         \* what the application has received
     rejected : BOOLEAN]                            \* history: cut before the first peek was over

Sides == {"up", "down"}
FlowRecords ==
    [pc : {"none", "read", "resolve",               \* handleDNS
           "dial", "wait", "done"},                 \* pipeUDP
     copy : [Sides -> {"off", "run", "signal", "done"}],
     queued : 0 .. 2]                               \* values in `done`

TypeOK ==
    /\ session \in {"running", "cancelled", "stopped"}
    /\ hosts \in Whitelists /\ noFrag \in SUBSET Hosts
    /\ conn \in [Conns -> ConnRecords]
    /\ flow \in [Flows -> FlowRecords]

NewConn ==
    [pc |-> "none", copyUp |-> "off", kind |-> "other", host |-> CHOOSE h \in Hosts : TRUE,
     white |-> FALSE, local |-> "none", client |-> "open", up |-> "none", nup |-> 0,
     hello |-> "none", srv |-> "quiet", sent |-> 0, read |-> 0, got |-> <<>>,
     rejected |-> FALSE]

\* Connect: the whitelist it is given, and nothing learned.
Init ==
    /\ session = "running"
    /\ hosts \in Whitelists
    /\ noFrag = {}
    /\ conn = [c \in Conns |-> NewConn]
    /\ flow = [f \in Flows |-> [pc |-> "none", copy |-> [d \in Sides |-> "off"], queued |-> 0]]

-----------------------------------------------------------------------------
(* The session *)

SetExcludeHosts ==
    /\ hosts' \in Whitelists
    /\ UNCHANGED <<session, noFrag, conn, flow>>

Cancel ==
    /\ session = "running"
    /\ session' = "cancelled"
    /\ UNCHANGED <<hosts, noFrag, conn, flow>>

\* Faulty variant: the stack is left open.
LeaveStackOpen ==
    /\ session = "cancelled"
    /\ session' = "stopped"
    /\ UNCHANGED <<hosts, noFrag, conn, flow>>

\* stack.Close aborts the local side of every flow.
CloseStack ==
    /\ session = "cancelled"
    /\ session' = "stopped"
    /\ conn' = [c \in Conns |->
                  [conn[c] EXCEPT !.local = IF @ = "open" THEN "aborted" ELSE @]]
    /\ UNCHANGED <<hosts, noFrag, flow>>

-----------------------------------------------------------------------------
(* pipeTCP *)

Goto(c, l) == conn' = [conn EXCEPT ![c].pc = l]

\* Every return of pipeTCP closes what is open of both sides (defer).
Return(c) ==
    conn' = [conn EXCEPT ![c].pc = "done",
                         ![c].up = IF @ = "open" THEN "closed" ELSE @,
                         ![c].local = IF @ = "open" THEN "closed" ELSE @]

\* handleTCP, and the snapshot at the start of pipeTCP.  A connection that is
\* over makes room for the next one.
Accept(c) ==
    /\ session # "stopped"
    /\ conn[c].pc \in {"none", "done"} /\ conn[c].copyUp # "run"
    /\ \E k \in Kinds, h \in Hosts :
          /\ k # "tls" => h = NewConn.host
          /\ conn' = [conn EXCEPT ![c] = [NewConn EXCEPT !.pc = "first", !.local = "open",
                                !.kind = k, !.host = h, !.white = k = "tls" /\ h \in hosts]]
    /\ UNCHANGED shared

\* readFirstPayload returns what the application has sent; nothing in time,
\* or an end of the stream, ends the connection.
ReadFirst(c) ==
    /\ conn[c].pc = "first"
    /\ (conn[c].local = "open" /\ Goto(c, "dial")) \/ Return(c)
    /\ UNCHANGED shared

Dialled(c, l) ==
    conn' = [conn EXCEPT ![c].pc = l, ![c].up = "open", ![c].nup = @ + 1, ![c].hello = "none",
                         ![c].srv = "quiet", ![c].sent = 0, ![c].read = 0]

Dial(c) ==
    /\ \/ conn[c].pc = "dial" /\ session = "running" /\ Dialled(c, "send")
       \/ conn[c].pc = "redial" /\ session = "running" /\ Dialled(c, "resend")
    /\ UNCHANGED shared

\* The server does not answer in time, or the context is cancelled.
DialFails(c) ==
    /\ conn[c].pc \in {"dial", "redial"}
    /\ Return(c)
    /\ UNCHANGED shared

\* HTTP is cut inside its Host header; a hello is cut unless its host is in
\* the whitelist or known not to take fragments.
Cuts(c) ==
    \/ conn[c].kind = "http"
    \/ conn[c].kind = "tls" /\ ~conn[c].white /\ conn[c].host \notin noFrag

StartCopy(c, first) ==
    conn' = [conn EXCEPT ![c].pc = "copy", ![c].copyUp = "run", ![c].hello = first]

SendWhole(c) ==
    /\ conn[c].pc = "send" /\ ~Cuts(c)
    /\ IF conn[c].srv = "reset" THEN Return(c) ELSE StartCopy(c, "whole")
    /\ UNCHANGED shared

\* writeSegments: a pause between the pieces, in which a reset may arrive.
SendFirstPieces(c) ==
    /\ conn[c].pc = "send" /\ Cuts(c)
    /\ conn' = [conn EXCEPT ![c].pc = "sending", ![c].hello = "part"]
    /\ UNCHANGED shared

\* Only a hello is followed by a look at the reply.
SendLastPiece(c) ==
    /\ conn[c].pc = "sending"
    /\ IF conn[c].srv = "reset" THEN Return(c)
       ELSE IF conn[c].kind = "http" THEN StartCopy(c, "cut")
       ELSE conn' = [conn EXCEPT ![c].pc = "peek", ![c].hello = "cut"]
    /\ UNCHANGED shared

DataReady(c) == conn[c].read < conn[c].sent
Ended(c) == conn[c].srv = "reset" \/ (conn[c].srv = "eof" /\ ~DataReady(c))

\* peekReply: a piece of the reply, nothing within three seconds, or a reset
\* or the end of the stream.
Verdicts(c) ==
    {v \in {"data", "timeout", "reset"} :
        CASE v = "data"    -> DataReady(c)
          [] v = "reset"   -> Ended(c)
          [] v = "timeout" -> ~DataReady(c) /\ ~Ended(c)}

\* Faulty variant: the timeout is taken for a reset.
PeekTimeoutRetries(c) ==
    /\ conn[c].pc = "peek"
    /\ \E v \in Verdicts(c) :
          IF v = "data" THEN conn' = [conn EXCEPT ![c].pc = "forward", ![c].read = @ + 1]
                        ELSE conn' = [conn EXCEPT ![c].pc = "redial", ![c].up = "closed"]
    /\ UNCHANGED shared

Peek(c) ==
    /\ conn[c].pc = "peek"
    /\ \E v \in Verdicts(c) :
          CASE v = "data"    -> conn' = [conn EXCEPT ![c].pc = "forward", ![c].read = @ + 1]
            [] v = "timeout" -> StartCopy(c, "cut")
            [] v = "reset"   -> conn' = [conn EXCEPT ![c].pc = "redial", ![c].up = "closed"]
    /\ UNCHANGED shared

\* Faulty variant: the second socket is not closed when the write fails.
ResendLeaves(c) ==
    /\ conn[c].pc = "resend"
    /\ IF conn[c].srv = "reset" THEN Goto(c, "done")
         ELSE conn' = [conn EXCEPT ![c].pc = "repeek", ![c].hello = "whole"]
    /\ UNCHANGED shared

\* The retry, once, with the hello whole.
Resend(c) ==
    /\ conn[c].pc = "resend"
    /\ IF conn[c].srv = "reset" THEN Return(c)
         ELSE conn' = [conn EXCEPT ![c].pc = "repeek", ![c].hello = "whole"]
    /\ UNCHANGED shared

RememberNoFrag(h) == noFrag' = IF h \in NoSni THEN noFrag ELSE noFrag \cup {h}

Repeek(c) ==
    /\ conn[c].pc = "repeek"
    /\ \E v \in Verdicts(c) :
          IF v = "data"
            THEN /\ conn' = [conn EXCEPT ![c].pc = "forward", ![c].read = @ + 1]
                 /\ RememberNoFrag(conn[c].host)
            ELSE StartCopy(c, "whole") /\ UNCHANGED noFrag
    /\ UNCHANGED <<session, hosts>>

\* Can the application still be written to?
Takes(c) == conn[c].local = "open" /\ conn[c].client # "gone"

\* What has been peeked at goes out before the copying starts.
Forward(c) ==
    /\ conn[c].pc = "forward"
    /\ IF Takes(c)
         THEN conn' = [conn EXCEPT ![c].pc = "copy", ![c].copyUp = "run",
                                   ![c].got = Append(@, <<conn[c].nup, conn[c].read>>)]
         ELSE Return(c)
    /\ UNCHANGED shared

\* io.Copy(local, up) in pipeTCP itself.
CopyDown(c) ==
    /\ conn[c].pc = "copy"
    /\ \/ /\ DataReady(c) /\ Takes(c)
          /\ conn' = [conn EXCEPT ![c].read = @ + 1,
                                  ![c].got = Append(@, <<conn[c].nup, conn[c].read + 1>>)]
       \/ Ended(c) /\ Return(c)
       \/ DataReady(c) /\ ~Takes(c) /\ Return(c)
    /\ UNCHANGED shared

\* io.Copy(up, local): its end is passed on to nobody.
CopyUpEnds(c) ==
    /\ conn[c].copyUp = "run"
    /\ conn[c].client # "open" \/ conn[c].local # "open" \/ conn[c].srv = "reset"
    /\ conn' = [conn EXCEPT ![c].copyUp = "done"]
    /\ UNCHANGED shared

-----------------------------------------------------------------------------
(* handleUDP, handleDNS, pipeUDP *)

\* Port 53 or another one.
AcceptUdp(f) ==
    /\ flow[f].pc = "none" /\ session # "stopped"
    /\ \E l \in {"read", "dial"} : flow' = [flow EXCEPT ![f].pc = l]

\* A query is read and resolved; an error or a timeout drops it (fail closed).
HandleDns(f) ==
    \/ flow[f].pc = "read"
       /\ \E l \in {"resolve", "done"} : flow' = [flow EXCEPT ![f].pc = l]
    \/ flow[f].pc = "resolve" /\ flow' = [flow EXCEPT ![f].pc = "done"]

DialUdp(f) ==
    /\ flow[f].pc = "dial"
    /\ \/ flow' = [flow EXCEPT ![f].pc = "done"]
       \/ /\ session = "running"
          /\ flow' = [flow EXCEPT ![f].pc = "wait", ![f].copy = [d \in Sides |-> "run"]]

\* A direction has been idle for a minute, whatever the other one carries.
IdleUdp(f, d) ==
    /\ flow[f].copy[d] = "run"
    /\ flow' = [flow EXCEPT ![f].copy[d] = "signal"]

\* The sockets are closed, or the session has been stopped: reads fail, and
\* so do writes to the device.
CopyUdpFails(f, d) ==
    /\ flow[f].copy[d] = "run"
    /\ flow[f].pc = "done" \/ session = "stopped"
    /\ flow' = [flow EXCEPT ![f].copy[d] = "signal"]

\* Faulty variant: the channel has no buffer, and pipeUDP receives once.
SignalWaits(f, d) ==
    /\ flow[f].copy[d] = "signal" /\ flow[f].pc = "wait" /\ flow[f].queued = 0
    /\ flow' = [flow EXCEPT ![f].copy[d] = "done", ![f].queued = @ + 1]

\* done <- struct{}{}, into a channel of two places.
Signal(f, d) ==
    /\ flow[f].copy[d] = "signal" /\ flow[f].queued < 2
    /\ flow' = [flow EXCEPT ![f].copy[d] = "done", ![f].queued = @ + 1]

\* <-done, and both sockets are closed.
EndUdp(f) ==
    /\ flow[f].pc = "wait" /\ flow[f].queued > 0
    /\ flow' = [flow EXCEPT ![f].pc = "done", ![f].queued = @ - 1]

-----------------------------------------------------------------------------
(* The environment *)

\* A server answers what it has been sent completely and what has got through.
Answers(c) ==
    \/ conn[c].hello = "cut" /\ (conn[c].kind = "tls" => conn[c].host \notin Rejects)
    \/ conn[c].hello = "whole" /\ (conn[c].kind = "tls" => conn[c].host \notin Blocked)

ServerSends(c) ==
    /\ conn[c].up = "open" /\ Answers(c)
    /\ conn[c].srv \in {"quiet", "talking"} /\ conn[c].sent < MaxData
    /\ conn' = [conn EXCEPT ![c].srv = "talking", ![c].sent = @ + 1]

\* It ends the connection, but not before the first peek is over unless it
\* has said something.
ServerEnds(c) ==
    /\ conn[c].up = "open" /\ conn[c].srv \in {"quiet", "talking"}
    /\ conn[c].read > 0 \/ conn[c].pc = "copy"
    /\ \E s \in {"eof", "reset"} : conn' = [conn EXCEPT ![c].srv = s]

\* A server that rejects fragments resets the hello, the DPI one with a name
\* it blocks; the second connection may be refused at once, and anything but
\* TLS at any time.
Cut(c) ==
    /\ conn[c].up = "open" /\ conn[c].srv = "quiet"
    /\ \/ conn[c].kind # "tls"
       \/ conn[c].hello \in {"part", "cut"} /\ conn[c].host \in Rejects
       \/ conn[c].hello = "whole" /\ conn[c].host \in Blocked
       \/ conn[c].hello = "none" /\ conn[c].nup = 2
    /\ conn' = [conn EXCEPT ![c].srv = "reset",
                            ![c].rejected = @ \/ conn[c].pc \in {"sending", "peek"}]

ClientEnds(c) ==
    /\ conn[c].local = "open" /\ conn[c].client # "gone"
    /\ \E s \in {"half", "gone"} : conn' = [conn EXCEPT ![c].client = s]

-----------------------------------------------------------------------------
PipeTcp(c) ==
    \/ ReadFirst(c) \/ Dial(c) \/ DialFails(c) \/ SendWhole(c) \/ SendFirstPieces(c)
    \/ SendLastPiece(c) \/ Peek(c) \/ Resend(c) \/ Repeek(c) \/ Forward(c) \/ CopyDown(c)

Tcp(c) ==
    /\ \/ Accept(c) \/ PipeTcp(c) \/ CopyUpEnds(c)
       \/ (ServerSends(c) \/ ServerEnds(c) \/ Cut(c) \/ ClientEnds(c)) /\ UNCHANGED shared
    /\ UNCHANGED flow

UdpForced(f) ==
    \/ HandleDns(f) \/ DialUdp(f) \/ EndUdp(f)
    \/ \E d \in Sides : CopyUdpFails(f, d) \/ Signal(f, d)

Udp(f) ==
    /\ AcceptUdp(f) \/ UdpForced(f) \/ \E d \in Sides : IdleUdp(f, d)
    /\ UNCHANGED <<shared, conn>>

Next ==
    \/ SetExcludeHosts \/ Cancel \/ CloseStack
    \/ \E c \in Conns : Tcp(c)
    \/ \E f \in Flows : Udp(f)

\* Stop runs to its end once called, and goroutines keep being scheduled:
\* reading the first bytes, dialing, peeking and resolving have timeouts.  A
\* UDP direction that carries something need not go idle, and servers and
\* applications owe nothing.
Fairness ==
    /\ WF_vars(CloseStack)
    /\ \A c \in Conns : WF_vars(PipeTcp(c) /\ UNCHANGED flow)
                        /\ WF_vars(CopyUpEnds(c) /\ UNCHANGED flow)
    /\ \A f \in Flows : WF_vars(UdpForced(f) /\ UNCHANGED <<shared, conn>>)

Spec == Init /\ [][Next]_vars
FairSpec == Spec /\ Fairness

-----------------------------------------------------------------------------
(* Properties *)

\* Types; a pipeTCP that has returned holds no socket, whichever way it
\* returned (dialAndSend, tunnel.go:365-439); and the application receives
\* the stream of the last server without a gap across peek and copying.
TunnelInv ==
    /\ TypeOK
    /\ \A c \in Conns :
          /\ conn[c].pc = "done" => conn[c].up # "open" /\ conn[c].local # "open"
          /\ \A i \in DOMAIN conn[c].got : conn[c].got[i] = <<conn[c].nup, i>>

\* The hello of a host that the whitelist did not name when the connection
\* began goes out whole only where a server has cut a fragmented one, here
\* or, answering the whole one, before: a slow server is never shown to the
\* DPI (comments of tunnel.go:70-73 and 420-422).
WholeOnlyAfterCut ==
    /\ noFrag \subseteq Rejects \ Blocked
    /\ \A c \in Conns :
          conn[c].kind = "tls" /\ conn[c].hello = "whole" /\ ~conn[c].white
              => conn[c].host \in noFrag \/ (conn[c].rejected /\ conn[c].nup = 2)

\* Goroutines of a connection and of a flow that have not ended.
TcpRuns(c) == conn[c].pc \notin {"none", "done"} \/ conn[c].copyUp = "run"
UdpRuns(f) ==
    \/ flow[f].pc \notin {"none", "done"}
    \/ \E d \in Sides : flow[f].copy[d] \notin {"off", "done"}

\* Stop leaves no goroutine behind but those whose server is silent: those of
\* UDP and DNS end whatever the network does, and those of a TCP connection
\* as soon as its server sends anything or ends it (Stop, tunnel.go:173-178).
StopDrains ==
    /\ session = "stopped" ~> \A f \in Flows : ~UdpRuns(f)
    /\ \A c \in Conns :
          session = "stopped" /\ conn[c].pc \in {"copy", "done"}
                /\ (conn[c].pc = "copy" => DataReady(c) \/ Ended(c))
              ~> ~TcpRuns(c)

\* Once one direction of a UDP flow has gone idle, the whole flow is torn
\* down and both its copying goroutines end, although pipeUDP receives only
\* the first of their signals (tunnel.go:602-621).
UdpTornDown ==
    \A f \in Flows :
        (\E d \in Sides : flow[f].copy[d] = "signal") ~> flow[f].pc = "done" /\ ~UdpRuns(f)
=============================================================================
