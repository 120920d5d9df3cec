----------------------------- MODULE ProxyConn -----------------------------
(***************************************************************************)
(* The connections of the local HTTP proxy that the portable engine runs:  *)
(* class BypassProxyServer of bypass_proxy.py, from the moment its accept  *)
(* loop has started a handler thread (DesktopApp models start, stop and    *)
(* the accept loop itself).                                                *)
(*                                                                         *)
(* A handler reads the request, resolves the host (cache, DoH endpoints    *)
(* verified, the same unverified, local DNS), connects, and then either    *)
(* sends an HTTP request in pieces or, for CONNECT, reads the ClientHello  *)
(* and sends it as two TLS records.  _pipe then starts one relay thread    *)
(* per direction and waits for both; the first to end closes both sockets, *)
(* also under a recv in which the other one is blocked.                    *)
(*                                                                         *)
(* The client's stream is the numbers 1, 2, 3 ...: 1 and 2 are the hello   *)
(* (or the HTTP request), the host name reaching from 1 into 2.            *)
(***************************************************************************)
EXTENDS Naturals, Sequences, FiniteSets

CONSTANTS
    Conns,      \* accepted connections
    Hosts,      \* names in the requests
    Literal,    \* those that are IP addresses
    Excluded,   \* those matched by exclude_hosts
    Requests,   \* [Conns -> SUBSET RequestRecords]: what each client may ask
    Refused,    \* connections whose server cannot be reached
    UseDoh,     \* use_doh
    Endpoints,  \* number of DoH endpoints
    SoftErrors, \* may sendall fail with an error that leaves the socket usable?
    MaxUp,      \* bound: length of a client's stream
    MaxDown     \* bound: pieces in a server's reply

\* A hello comes in one segment, in two, in two of which the first is shorter
\* than the header of a record, or is not TLS at all.
RequestRecords ==
    [kind : {"https", "http"}, host : Hosts,
     shape : {"one", "split", "tiny", "plain"}]

ASSUME ConnsAssumption == IsFiniteSet(Conns)
ASSUME HostsAssumption == Literal \subseteq Hosts /\ Excluded \subseteq Hosts /\ Refused \subseteq Conns
ASSUME RequestsAssumption == Requests \in [Conns -> SUBSET RequestRecords]
ASSUME SwitchAssumption == UseDoh \in BOOLEAN /\ SoftErrors \in BOOLEAN
ASSUME BoundAssumption ==
    Endpoints \in Nat \ {0} /\ MaxUp \in Nat \ {0, 1} /\ MaxDown \in Nat \ {0}

VARIABLES
    running,    \* self.running
    cached,     \* the keys of self.dns_cache
    stats,      \* self.stats and self.active_connections
    conn        \* per connection: its handler, its relay threads and both peers

vars == <<running, cached, stats, conn>>

PCs == {"new", "read", "resolve", "doh", "local", "connect", "hello", "more",
        "send", "pipe", "join", "account", "close", "done"}
Threads == {"up", "down"}

ConnRecords ==
    [pc : PCs,                                  \* the handler thread
     req : RequestRecords,
     rung : 0 .. 2 * Endpoints - 1,             \* DoH requests made in this lookup
     cli : {"open", "closed"},                  \* client_sock
     srv : {"none", "open", "closed"},          \* server_sock
     taken : 0 .. MaxUp,                        \* read from the client
     sent : Seq(1 .. MaxUp),                    \* sent to the server
     heard : 0 .. MaxDown,                      \* read from the server, stats["down"]
     got : 0 .. MaxDown,                        \* sent to the client
     relay : [Threads -> {"off", "check", "recv", "send", "done"}],
     verdict : {"none", "success", "fail"},     \* the event reported
     uncut : BOOLEAN,                           \* history: the name left in one record
     stalled : BOOLEAN,                         \* history: the hello stopped half way
     soft : BOOLEAN,                            \* history: such an error occurred
     client : {"open", "half", "gone"},         \* the client's side
     server : {"quiet", "talking", "fin", "reset"},
     replied : 0 .. MaxDown]                    \* sent by the server

NewConn(r) ==
    [pc |-> "new", req |-> r, rung |-> 0, cli |-> "open", srv |-> "none",
     taken |-> 0, sent |-> <<>>, heard |-> 0, got |-> 0,
     relay |-> [t \in Threads |-> "off"], verdict |-> "none",
     uncut |-> FALSE, stalled |-> FALSE, soft |-> FALSE,
     client |-> "open", server |-> "quiet", replied |-> 0]

Init ==
    /\ running = TRUE /\ cached = {}
    /\ stats = [active |-> 0, dns |-> 0, total |-> 0, reset |-> 0]
    /\ conn \in {f \in [Conns -> {NewConn(r) : r \in RequestRecords}] :
                    \A c \in Conns : f[c].req \in Requests[c]}

-----------------------------------------------------------------------------
(* The handler thread *)

At(c, l) == conn[c].pc = l
Goto(c, l) == conn' = [conn EXCEPT ![c].pc = l]

\* A return or an exception; the socket to the server goes with its last
\* reference.
Leave(c) ==
    conn' = [conn EXCEPT ![c].pc = "close", ![c].rung = 0,
                         ![c].srv = IF @ = "open" THEN "closed" ELSE @]

Private == UNCHANGED <<running, cached, stats>>

Begin(c) ==
    /\ At(c, "new") /\ running
    /\ Goto(c, "read")
    /\ stats' = [stats EXCEPT !.active = @ + 1]
    /\ UNCHANGED <<running, cached>>

ReadRequest(c) ==
    /\ At(c, "read")
    /\ Goto(c, "resolve")
    /\ Private

\* Every wait may end otherwise: no request or one that is answered by 400 or
\* by nothing; an answer of an endpoint that is JSON of another form (502,
\* without the endpoints and the local DNS that are left); a local lookup that
\* fails, a server that refuses, a client that takes no 200; no hello within
\* five seconds, or a reset in the middle of one.
GiveUp(c) ==
    /\ \/ conn[c].pc \in {"read", "doh", "local", "connect", "hello"}
       \/ At(c, "more") /\ conn[c].client = "gone"
    /\ Leave(c)
    /\ Private

Host(c) == conn[c].req.host

\* A literal address and a cached one are used as they are.
Resolve(c) ==
    /\ At(c, "resolve")
    /\ Goto(c, IF Host(c) \in Literal \cup cached THEN "connect"
               ELSE IF UseDoh THEN "doh" ELSE "local")
    /\ Private

\* An endpoint or the local DNS answers with an address ...
Learn(c) ==
    /\ conn[c].pc \in {"doh", "local"}
    /\ conn' = [conn EXCEPT ![c].pc = "connect", ![c].rung = 0]
    /\ cached' = cached \cup {Host(c)}
    /\ stats' = [stats EXCEPT !.dns = @ + 1]
    /\ UNCHANGED running

\* ... or an endpoint fails or has none and the next one is asked, all of
\* them verified and then all of them unverified.
EndpointFails(c) ==
    /\ At(c, "doh")
    /\ conn' = IF conn[c].rung + 1 = 2 * Endpoints
                 THEN [conn EXCEPT ![c].rung = 0, ![c].pc = "local"]
                 ELSE [conn EXCEPT ![c].rung = @ + 1]
    /\ Private

Connect(c) ==
    /\ At(c, "connect") /\ c \notin Refused
    /\ conn' = [conn EXCEPT ![c].srv = "open",
                            ![c].pc = IF conn[c].req.kind = "https" THEN "hello" ELSE "send",
                            ![c].taken = IF conn[c].req.kind = "https" THEN @ ELSE 2]
    /\ Private

\* The first recv of _read_client_hello.  A TLS record that is not complete
\* is waited for, fewer than five bytes are not.
ReadHello(c) ==
    /\ At(c, "hello") /\ conn[c].client = "open"
    /\ conn' = [conn EXCEPT ![c].taken = IF conn[c].req.shape = "one" THEN 2 ELSE 1,
                            ![c].pc = IF conn[c].req.shape = "split" THEN "more" ELSE "send"]
    /\ Private

\* Faulty variant: the hello is sent on as far as it has come.
ReadOnce(c) ==
    /\ At(c, "more") /\ conn[c].client = "open"
    /\ Goto(c, "send")
    /\ Private

ReadMore(c) ==
    /\ At(c, "more") /\ conn[c].client = "open"
    /\ conn' = [conn EXCEPT ![c].taken = 2, ![c].pc = "send"]
    /\ Private

\* A timeout or the end of the stream: what has come is sent.
StopsHalfWay(c) ==
    /\ At(c, "more")
    /\ conn' = [conn EXCEPT ![c].stalled = TRUE, ![c].pc = "send"]
    /\ Private

InHand(c) == [i \in 1 .. conn[c].taken |-> i]

Raw(c) ==
    \/ conn[c].req.shape \in {"plain", "tiny"}
    \/ Host(c) \in Excluded /\ conn[c].taken = 2

\* Excluded hosts and what is not TLS: one sendall.
SendRaw(c) ==
    /\ At(c, "send") /\ conn[c].req.kind = "https" /\ Raw(c)
    /\ IF conn[c].server = "reset"
         THEN Leave(c)
         ELSE conn' = [conn EXCEPT ![c].sent = InHand(c), ![c].uncut = TRUE, ![c].pc = "pipe"]
    /\ Private

\* _send_fragmented_tls, record by record with pauses.  A hello that is not
\* complete is a single record.  A reset is swallowed.
SendRecord(c) ==
    /\ At(c, "send") /\ conn[c].req.kind = "https" /\ ~Raw(c)
    /\ IF conn[c].server = "reset"
         THEN Goto(c, "pipe")
         ELSE conn' = [conn EXCEPT ![c].sent = Append(@, Len(@) + 1),
                                   ![c].uncut = conn[c].taken = 1,
                                   ![c].pc = IF Len(conn[c].sent) + 1 = conn[c].taken
                                               THEN "pipe" ELSE "send"]
    /\ Private

\* Any other error: the whole hello is sent after the records that have
\* left already, and an error in that is swallowed too.
SendFallback(c) ==
    /\ At(c, "send") /\ conn[c].req.kind = "https" /\ ~Raw(c)
    /\ SoftErrors
    /\ \E ok \in BOOLEAN :
          conn' = [conn EXCEPT ![c].sent = IF ok THEN @ \o InHand(c) ELSE @,
                               ![c].uncut = @ \/ ok, ![c].soft = TRUE, ![c].pc = "pipe"]
    /\ Private

\* The HTTP request in pieces; here an error ends the connection.
SendPiece(c) ==
    /\ At(c, "send") /\ conn[c].req.kind = "http"
    /\ IF conn[c].server = "reset"
         THEN Leave(c)
         ELSE conn' = [conn EXCEPT ![c].sent = Append(@, Len(@) + 1),
                                   ![c].pc = IF Len(conn[c].sent) + 1 = conn[c].taken
                                               THEN "pipe" ELSE "send"]
    /\ Private

\* _pipe starts both relay threads ...
Pipe(c) ==
    /\ At(c, "pipe")
    /\ conn' = [conn EXCEPT ![c].relay = [t \in Threads |-> "check"], ![c].pc = "join"]
    /\ Private

Joined(c) == Goto(c, IF conn[c].req.kind = "https" THEN "account" ELSE "close")

\* Faulty variant: it waits for the thread it has started first.
JoinFirst(c) ==
    /\ At(c, "join") /\ conn[c].relay["up"] = "done"
    /\ Joined(c)
    /\ Private

\* ... and waits for both.
Join(c) ==
    /\ At(c, "join") /\ \A t \in Threads : conn[c].relay[t] = "done"
    /\ Joined(c)
    /\ Private

\* Faulty variant: only failures are counted in the total.
AccountFailures(c) ==
    /\ At(c, "account")
    /\ LET fail == conn[c].heard = 0 IN
       /\ conn' = [conn EXCEPT ![c].verdict = IF fail THEN "fail" ELSE "success",
                               ![c].pc = "close"]
       /\ stats' = IF fail THEN [stats EXCEPT !.total = @ + 1, !.reset = @ + 1] ELSE stats
    /\ UNCHANGED <<running, cached>>

Account(c) ==
    /\ At(c, "account")
    /\ LET fail == conn[c].heard = 0 IN
       /\ conn' = [conn EXCEPT ![c].verdict = IF fail THEN "fail" ELSE "success",
                               ![c].pc = "close"]
       /\ stats' = [stats EXCEPT !.total = @ + 1, !.reset = IF fail THEN @ + 1 ELSE @]
    /\ UNCHANGED <<running, cached>>

\* The finally clause of _handle_client.
Close(c) ==
    /\ At(c, "close")
    /\ conn' = [conn EXCEPT ![c].cli = "closed", ![c].pc = "done",
                            ![c].srv = IF @ = "open" THEN "closed" ELSE @]
    /\ stats' = [stats EXCEPT !.active = @ - 1]
    /\ UNCHANGED <<running, cached>>

-----------------------------------------------------------------------------
(* The relay threads: _relay(client_sock, server_sock, stats, "up") and     *)
(* _relay(server_sock, client_sock, stats, "down")                          *)

SrcOpen(c, t) == IF t = "up" THEN conn[c].cli = "open" ELSE conn[c].srv = "open"
DstOpen(c, t) == IF t = "up" THEN conn[c].srv = "open" ELSE conn[c].cli = "open"
DstAlive(c, t) == IF t = "up" THEN conn[c].server # "reset" ELSE conn[c].client # "gone"

\* The finally clause: both sockets are closed.
RelayLeaves(c, t) ==
    conn' = [conn EXCEPT ![c].relay[t] = "done", ![c].cli = "closed",
                         ![c].srv = "closed"]

\* while self.running, and recv on a socket that is still open.
RelayChecks(c, t) ==
    /\ conn[c].relay[t] = "check"
    /\ IF running /\ SrcOpen(c, t)
         THEN conn' = [conn EXCEPT ![c].relay[t] = "recv"]
         ELSE RelayLeaves(c, t)

RelayReads(c, t) ==
    /\ conn[c].relay[t] = "recv"
    /\ \/ /\ t = "up" /\ conn[c].client = "open" /\ conn[c].taken < MaxUp
          /\ conn' = [conn EXCEPT ![c].relay[t] = "send", ![c].taken = @ + 1]
       \/ /\ t = "down" /\ conn[c].server # "reset" /\ conn[c].heard < conn[c].replied
          /\ conn' = [conn EXCEPT ![c].relay[t] = "send", ![c].heard = @ + 1]

\* Faulty variant: an empty read does not end the loop.
RelaySpins(c, t) ==
    /\ conn[c].relay[t] = "recv"
    /\ IF t = "up" THEN conn[c].client # "open"
       ELSE \/ conn[c].server = "reset"
            \/ conn[c].server = "fin" /\ conn[c].heard = conn[c].replied
    /\ conn' = [conn EXCEPT ![c].relay[t] = "check"]

\* The end of the stream, or an error.
RelayEnds(c, t) ==
    /\ conn[c].relay[t] = "recv"
    /\ IF t = "up" THEN conn[c].client # "open"
       ELSE \/ conn[c].server = "reset"
            \/ conn[c].server = "fin" /\ conn[c].heard = conn[c].replied
    /\ RelayLeaves(c, t)

\* Some systems let a recv fail when its socket is closed by another thread.
RelayWoken(c, t) ==
    /\ conn[c].relay[t] = "recv" /\ ~SrcOpen(c, t)
    /\ RelayLeaves(c, t)

RelaySends(c, t) ==
    /\ conn[c].relay[t] = "send"
    /\ IF DstOpen(c, t) /\ DstAlive(c, t)
         THEN conn' = [conn EXCEPT ![c].relay[t] = "check",
                                   ![c].sent = IF t = "up" THEN Append(@, conn[c].taken) ELSE @,
                                   ![c].got = IF t = "down" THEN @ + 1 ELSE @]
         ELSE RelayLeaves(c, t)

-----------------------------------------------------------------------------
(* The environment *)

\* A blocked recv keeps a connection alive after its socket is closed.
Linked(c) == conn[c].srv = "open" \/ conn[c].relay["down"] = "recv"

ServerReplies(c) ==
    /\ Linked(c) /\ Len(conn[c].sent) >= 2
    /\ conn[c].server \in {"quiet", "talking"} /\ conn[c].replied < MaxDown
    /\ conn' = [conn EXCEPT ![c].server = "talking", ![c].replied = @ + 1]

\* The server ends its stream, or the connection is reset, perhaps by a
\* middlebox and perhaps after the server has ended its stream.
ServerEnds(c) ==
    /\ Linked(c)
    /\ \/ /\ conn[c].server = "talking"
          /\ conn' = [conn EXCEPT ![c].server = "fin"]
       \/ /\ conn[c].server # "reset"
          /\ conn' = [conn EXCEPT ![c].server = "reset"]

\* The client has sent its last byte, or drops the connection.  The handler
\* does not look at it before it is connected: GiveUp stands for a client
\* that has gone earlier.
ClientEnds(c) ==
    /\ conn[c].srv # "none" /\ ~At(c, "done")
    /\ \/ /\ conn[c].client = "open"
          /\ conn' = [conn EXCEPT ![c].client = "half"]
       \/ /\ conn[c].client # "gone"
          /\ conn' = [conn EXCEPT ![c].client = "gone"]

Stop ==
    /\ running
    /\ running' = FALSE
    /\ UNCHANGED <<cached, stats, conn>>

-----------------------------------------------------------------------------
Handler(c) ==
    \/ Begin(c) \/ ReadRequest(c) \/ Resolve(c) \/ Learn(c) \/ EndpointFails(c)
    \/ Connect(c) \/ ReadHello(c) \/ ReadMore(c) \/ StopsHalfWay(c) \/ GiveUp(c)
    \/ SendRaw(c) \/ SendRecord(c) \/ SendFallback(c) \/ SendPiece(c)
    \/ Pipe(c) \/ Join(c) \/ Account(c) \/ Close(c)

RelaySteps(c, t) ==
    RelayChecks(c, t) \/ RelayReads(c, t) \/ RelayEnds(c, t) \/ RelaySends(c, t)
Relay(c, t) == RelaySteps(c, t) /\ Private

Environment(c) ==
    /\ \/ ServerReplies(c) \/ ServerEnds(c) \/ ClientEnds(c)
       \/ \E t \in Threads : RelayWoken(c, t)
    /\ Private

Next ==
    \/ \E c \in Conns : Handler(c) \/ (\E t \in Threads : Relay(c, t)) \/ Environment(c)
    \/ Stop

\* All threads are scheduled, and every wait of a handler but the join has a
\* timeout.  Nobody owes the proxy that a recv is woken.
Fairness ==
    \A c \in Conns : WF_vars(Handler(c)) /\ \A t \in Threads : WF_vars(Relay(c, t))

Spec == Init /\ [][Next]_vars
FairSpec == Spec /\ Fairness

-----------------------------------------------------------------------------
(* Properties *)

TypeOK ==
    /\ running \in BOOLEAN /\ cached \subseteq Hosts \ Literal
    /\ stats \in [active : Nat, dns : Nat, total : Nat, reset : Nat]
    /\ conn \in [Conns -> ConnRecords]

\* The counters the window shows agree with the connections, however they
\* end: the gauge returns to zero, every tunnel that has reached the relays is
\* counted once, and a name is looked up anew only while no answer to it is
\* stored (259-262, 294-296, 303-305, 313-314, 390-396,
\* 449-463).
Counters ==
    /\ stats.active = Cardinality({c \in Conns : conn[c].pc \notin {"new", "done"}})
    /\ stats.total = Cardinality({c \in Conns : conn[c].verdict # "none"})
    /\ stats.reset = Cardinality({c \in Conns : conn[c].verdict = "fail"})
    /\ Cardinality(cached) <= stats.dns /\ stats.dns <= Cardinality(Conns)
    /\ stats.dns > 0 => cached # {}

ProxyInv == TypeOK /\ Counters

\* The host name leaves in one record only for an excluded host, for a hello
\* whose first segment shows no record header, for one that stopped half way,
\* and after an error that is none of the connection's (426-437, 523-563).
HelloCut ==
    \A c \in Conns :
        conn[c].uncut => \/ Host(c) \in Excluded
                         \/ conn[c].req.shape \in {"plain", "tiny"}
                         \/ conn[c].stalled
                         \/ conn[c].soft

\* What the relays copy is what was sent.  The server receives the client's
\* stream in order and once, but for the fallback of _send_fragmented_tls.  The
\* handler leaves the sockets to the relays until both have ended (docstring
\* of _pipe, 566-572) and reports a tunnel dead only when its client has heard
\* nothing.  A client that keeps its side open has the whole reply of a server
\* that ends its stream before the proxy closes the connection.
Faithful ==
    \A c \in Conns :
        LET r == conn[c] IN
        /\ ~r.soft => \A i \in DOMAIN r.sent : r.sent[i] = i
        /\ r.pc # "join" => \A t \in Threads : r.relay[t] \in {"off", "done"}
        /\ r.verdict = "fail" => r.got = 0
        /\ r.relay["down"] = "done" /\ r.client = "open" /\ r.server = "fin" /\ running
              => r.got = r.replied

\* A connection both of whose peers are gone is given up, also where closing
\* a socket does not wake the thread that is blocked in it.
HandlersEnd ==
    \A c \in Conns :
        conn[c].client = "gone" /\ conn[c].server \in {"fin", "reset"} ~> conn[c].pc = "done"
=============================================================================
