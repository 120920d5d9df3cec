----------------------------- MODULE RelayConn -----------------------------
(***************************************************************************)
(* The relay of the Windows engine: class _RelayHandler of                 *)
(* divert_engine.py, one handler thread per redirected connection, plus a  *)
(* second thread that pumps the server's replies.                          *)
(*                                                                         *)
(* A handler reads the ClientHello, connects to the server, and sends the  *)
(* hello as several TLS records, or whole when the host is excluded or is  *)
(* known not to take fragments.  After a fragmented hello it waits for the *)
(* first reply; a reset makes it try once more with the hello whole, and a *)
(* reply to that makes it remember the host in engine.no_frag_hosts, which *)
(* all handlers share.  Then it copies both directions until the client    *)
(* stops sending.                                                          *)
(*                                                                         *)
(* The servers, the filtering middlebox (DPI) and the clients are the      *)
(* environment.  The n-th piece of data sent on the u-th upstream socket   *)
(* of a connection is <<u, n>>.                                            *)
(***************************************************************************)
EXTENDS Naturals, Sequences, FiniteSets

CONSTANTS
    Conns,      \* redirected connections
    Hosts,      \* host names in the hellos
    Excluded,   \* hosts matched by engine.exclude_hosts
    NoSni,      \* labels that stand for the lack of a name
    Rejects,    \* hosts whose server resets a fragmented hello
    Blocked,    \* hosts whose name in one piece makes the DPI cut the connection
    Flaky,      \* hosts some of whose connections are cut for another reason
    MaxData     \* bound: pieces of data a server sends on one connection

ASSUME HostsAssumption ==
    /\ Excluded \subseteq Hosts /\ NoSni \subseteq Hosts /\ Rejects \subseteq Hosts
    /\ Blocked \subseteq Hosts /\ Flaky \subseteq Hosts
ASSUME MaxDataAssumption == MaxData \in Nat \ {0}

VARIABLES
    conn,       \* per connection: its handler, its threads and both peers
    noFrag      \* engine.no_frag_hosts

vars == <<conn, noFrag>>

PCs == {"hello", "connect", "send", "sending", "probe", "retry", "reconnect",
        "resend", "reprobe", "forward", "pump", "join", "close", "account",
        "shut", "done"}

ConnRecords ==
    [pc : PCs,                                  \* the handler thread
     tls : BOOLEAN, host : Hosts,               \* is_tls, host
     up : {"none", "open", "closed"},           \* the upstream socket
     nup : 0 .. 2,                              \* upstream sockets opened so far
     first : {"none", "data", "empty"},         \* first: None, bytes, b""
     read : 0 .. MaxData,                       \* pieces taken from the upstream socket
     rev : {"off", "recv", "send", "done"},     \* the reverse thread in _pump
     down : Nat,                                \* stats["down"], in pieces
     counted : {"no", "success", "reset"},      \* the entry made in engine.stats
     timed : SUBSET {"client", "up"},           \* sockets with a timeout set
     hello : {"none", "part", "frag", "whole"}, \* what this server has been sent
     srv : {"quiet", "talking", "eof", "reset"},
     sent : 0 .. MaxData,                       \* pieces sent by the server
     cut : {"no", "sending", "probe"},          \* history: cut while this was under way
     cutoff : BOOLEAN,                          \* history: the join has timed out
     client : {"open", "half", "gone"},         \* the client's side of its socket
     got : Seq((1 .. 2) \X (1 .. MaxData)),     \* what the client has received
     eof : BOOLEAN]                             \* the client has been sent a FIN

TypeOK == conn \in [Conns -> ConnRecords] /\ noFrag \in SUBSET Hosts

NewConn(tls, h) ==
    [pc |-> "hello", tls |-> tls, host |-> h, up |-> "none", nup |-> 0,
     first |-> "none", read |-> 0, rev |-> "off", down |-> 0, counted |-> "no",
     timed |-> {"client"}, hello |-> "none", srv |-> "quiet", sent |-> 0,
     cut |-> "no", cutoff |-> FALSE, client |-> "open", got |-> <<>>, eof |-> FALSE]

Init ==
    /\ conn \in [Conns -> {NewConn(t, h) : t \in BOOLEAN, h \in Hosts}]
    /\ noFrag = {}

-----------------------------------------------------------------------------
(* Helpers *)

Goto(c, l) == conn' = [conn EXCEPT ![c].pc = l]

\* A socket to the server, as _connect_upstream returns it.
Opened(c, l) ==
    conn' = [conn EXCEPT ![c].pc = l, ![c].up = "open", ![c].nup = @ + 1,
                         ![c].read = 0, ![c].sent = 0,
                         ![c].hello = "none", ![c].srv = "quiet"]

\* What recv on the upstream socket can do now: return data, fail or return
\* the end of the stream, or wait.
DataReady(c) == conn[c].up = "open" /\ conn[c].read < conn[c].sent
Ended(c) ==
    \/ conn[c].up # "open"
    \/ conn[c].srv = "reset"
    \/ conn[c].srv = "eof" /\ conn[c].read = conn[c].sent
NothingYet(c) == ~DataReady(c) /\ ~Ended(c)

RememberNoFrag(h) == noFrag' = IF h \in NoSni THEN noFrag ELSE noFrag \cup {h}

-----------------------------------------------------------------------------
(* The handler thread *)

\* _read_client_hello returns nothing and so does the handler ...
NoHello(c) ==
    /\ conn[c].pc = "hello"
    /\ Goto(c, "shut")

\* ... or the hello; the timeout it has set on the client's socket when it
\* began is cleared.
ReadHello(c) ==
    /\ conn[c].pc = "hello"
    /\ conn' = [conn EXCEPT ![c].pc = "connect", ![c].timed = {}]

Connect(c) ==
    /\ conn[c].pc = "connect"
    /\ Opened(c, "send")

ConnectFails(c) ==
    /\ conn[c].pc = "connect"
    /\ Goto(c, "shut")

SkipFrag(c) == ~conn[c].tls \/ conn[c].host \in Excluded \/ conn[c].host \in noFrag

SendWhole(c) ==
    /\ conn[c].pc = "send" /\ SkipFrag(c)
    /\ conn' = [conn EXCEPT ![c].pc = IF conn[c].srv = "reset" THEN "close" ELSE "forward",
                            ![c].hello = "whole"]

\* _send_fragmented sends the records one by one with pauses between them; a
\* reset that arrives in a pause makes the next sendall raise, and the
\* handler goes straight to its finally clause.
SendFirstRecords(c) ==
    /\ conn[c].pc = "send" /\ ~SkipFrag(c)
    /\ conn' = [conn EXCEPT ![c].pc = IF conn[c].srv = "reset" THEN "close" ELSE "sending",
                            ![c].hello = "part"]

SendLastRecord(c) ==
    /\ conn[c].pc = "sending"
    /\ conn' = IF conn[c].srv = "reset"
                 THEN [conn EXCEPT ![c].pc = "close"]
                 ELSE [conn EXCEPT ![c].pc = "probe", ![c].hello = "frag"]

\* The first reply after a hello, up to FRAG_REPLY_TIMEOUT: data, the timeout
\* (None: slow but alive), or b"" for a reset or the end of the stream.  The
\* timeout on the upstream socket is cleared in each case.
Replies == {"data", "none", "empty"}

FirstReply(c, reply) ==
    CASE reply = "data"  -> DataReady(c)
      [] reply = "none"  -> NothingYet(c)
      [] reply = "empty" -> Ended(c)

\* Faulty variant: the timeout stays on the upstream socket.
TakeReplyKeepsTimeout(c, reply, l) ==
    /\ FirstReply(c, reply)
    /\ conn' = [conn EXCEPT ![c].first = reply, ![c].timed = {"up"}, ![c].pc = l,
                            ![c].read = IF reply = "data" THEN @ + 1 ELSE @]

TakeReply(c, reply, l) ==
    /\ FirstReply(c, reply)
    /\ conn' = [conn EXCEPT ![c].first = reply, ![c].timed = {}, ![c].pc = l,
                            ![c].read = IF reply = "data" THEN @ + 1 ELSE @]

\* Faulty variant: the timeout is taken for a reset (the except clauses in
\* the wrong order).
ProbeTimeoutIsReset(c) ==
    /\ conn[c].pc = "probe"
    /\ \E reply \in Replies :
          TakeReply(c, reply, IF reply = "data" THEN "forward" ELSE "retry")

\* Faulty variant: a reset is passed on as if it were the end of the stream.
ProbeGivesUp(c) ==
    /\ conn[c].pc = "probe"
    /\ \E reply \in Replies : TakeReply(c, reply, "forward")

Probe(c) ==
    /\ conn[c].pc = "probe"
    /\ \E reply \in Replies :
          TakeReply(c, reply, IF reply = "empty" THEN "retry" ELSE "forward")

\* Faulty variant: the rejected socket is not closed.
LeaveRejectedOpen(c) ==
    /\ conn[c].pc = "retry"
    /\ Goto(c, "reconnect")

CloseRejected(c) ==
    /\ conn[c].pc = "retry"
    /\ conn' = [conn EXCEPT ![c].pc = "reconnect", ![c].up = "closed"]

Reconnect(c) ==
    /\ conn[c].pc = "reconnect"
    /\ Opened(c, "resend")

\* up is None and the handler returns: the finally clause calls None.close(),
\* the exception ends the thread and the connection is not counted.
ReconnectFails(c) ==
    /\ conn[c].pc = "reconnect"
    /\ conn' = [conn EXCEPT ![c].pc = "shut", ![c].up = "none"]

Resend(c) ==
    /\ conn[c].pc = "resend"
    /\ conn' = [conn EXCEPT ![c].pc = IF conn[c].srv = "reset" THEN "close" ELSE "reprobe",
                            ![c].hello = "whole"]

\* Faulty variant: retry again and again.
ReprobeRetries(c) ==
    /\ conn[c].pc = "reprobe"
    /\ \E reply \in Replies :
          TakeReply(c, reply, IF reply = "empty" THEN "retry" ELSE "forward")
    /\ UNCHANGED noFrag

\* The reply to the plain retry; only data makes the host a no-fragment host.
Reprobe(c) ==
    /\ conn[c].pc = "reprobe"
    /\ \E reply \in Replies :
          /\ TakeReply(c, reply, "forward")
          /\ IF reply = "data" THEN RememberNoFrag(conn[c].host) ELSE UNCHANGED noFrag

\* Pass the first reply on, then start the reverse thread.
Forward(c) ==
    /\ conn[c].pc = "forward"
    /\ conn' =
         IF conn[c].first # "data"
           THEN [conn EXCEPT ![c].pc = "pump", ![c].rev = "recv"]
           ELSE IF conn[c].client = "gone"
             THEN [conn EXCEPT ![c].pc = "close", ![c].down = @ + 1]
             ELSE [conn EXCEPT ![c].pc = "pump", ![c].rev = "recv", ![c].down = @ + 1,
                               ![c].got = Append(@, <<conn[c].nup, conn[c].read>>)]

\* _pump(client, up) returns when the client has stopped sending, or when
\* the server's socket takes no more of what the client sends.
PumpEnds(c) ==
    /\ conn[c].pc = "pump"
    /\ \/ conn[c].client # "open"
       \/ conn[c].srv = "reset"
       \/ "client" \in conn[c].timed
    /\ Goto(c, "join")

\* Faulty variant: wait for the reverse thread without a timeout.
JoinForever(c) ==
    /\ conn[c].pc = "join" /\ conn[c].rev = "done"
    /\ Goto(c, "close")

\* reverse.join(timeout=2.0) returns when the reverse thread has ended, or
\* after two seconds.
Join(c) ==
    /\ conn[c].pc = "join"
    /\ conn' = [conn EXCEPT ![c].pc = "close", ![c].cutoff = conn[c].rev # "done"]

CloseUpstream(c) ==
    /\ conn[c].pc = "close"
    /\ conn' = [conn EXCEPT ![c].pc = "account", ![c].up = "closed"]

\* The statistics; a connection without a byte back counts as reset.
Account(c) ==
    /\ conn[c].pc = "account"
    /\ conn' = [conn EXCEPT ![c].pc = "shut",
                            ![c].counted = IF conn[c].down = 0 THEN "reset" ELSE "success"]

\* The server framework closes the client's socket.
Shut(c) ==
    /\ conn[c].pc = "shut"
    /\ conn' = [conn EXCEPT ![c].pc = "done", ![c].eof = TRUE]

-----------------------------------------------------------------------------
(* The reverse thread: _pump(up, client, stats) *)

RevRecv(c) ==
    /\ conn[c].rev = "recv" /\ DataReady(c)
    /\ conn' = [conn EXCEPT ![c].rev = "send", ![c].read = @ + 1, ![c].down = @ + 1]

RevSend(c) ==
    /\ conn[c].rev = "send"
    /\ conn' = IF conn[c].client = "gone" \/ conn[c].pc = "done"
                 THEN [conn EXCEPT ![c].rev = "done"]
                 ELSE [conn EXCEPT ![c].rev = "recv",
                                   ![c].got = Append(@, <<conn[c].nup, conn[c].read>>)]

\* The end of the stream, an error or a timeout: half-close the client.
RevEnds(c) ==
    /\ conn[c].rev = "recv"
    /\ Ended(c) \/ "up" \in conn[c].timed
    /\ conn' = [conn EXCEPT ![c].rev = "done", ![c].eof = TRUE]

-----------------------------------------------------------------------------
(* The environment *)

\* A server answers a complete hello, unless it rejects it or never sees it.
Answers(c) ==
    \/ conn[c].hello = "frag" /\ conn[c].host \notin Rejects
    \/ conn[c].hello = "whole" /\ (conn[c].tls => conn[c].host \notin Blocked)

ServerSends(c) ==
    /\ conn[c].up = "open" /\ Answers(c)
    /\ conn[c].srv \in {"quiet", "talking"} /\ conn[c].sent < MaxData
    /\ conn' = [conn EXCEPT ![c].srv = "talking", ![c].sent = @ + 1]

\* A reset that the handler meets before it has seen a reply.
ResetBefore(c) ==
    conn' = [conn EXCEPT ![c].srv = "reset",
                         ![c].cut = IF conn[c].pc \in {"sending", "probe"}
                                      THEN conn[c].pc ELSE @]

\* It ends its reply, or breaks it off; a reset may overtake what has not
\* been read yet, which for the very first piece is a cut of a flaky host.
ServerEnds(c) ==
    /\ conn[c].up = "open" /\ conn[c].srv = "talking"
    /\ \E s \in {"eof", "reset"} :
          IF s = "reset" /\ conn[c].read = 0
            THEN conn[c].host \in Flaky /\ ResetBefore(c)
            ELSE conn' = [conn EXCEPT ![c].srv = s]

\* A hello the server rejects, one the DPI recognises, or any connection of a
\* flaky host is cut before the server has said anything.
Cut(c) ==
    /\ conn[c].up = "open" /\ conn[c].srv = "quiet"
    /\ \/ conn[c].hello \in {"part", "frag"} /\ conn[c].host \in Rejects
       \/ conn[c].hello = "whole" /\ conn[c].tls /\ conn[c].host \in Blocked
       \/ conn[c].host \in Flaky
    /\ ResetBefore(c)

\* The client has sent its last byte, or drops the connection.
ClientHalfCloses(c) ==
    /\ conn[c].client = "open" /\ conn[c].pc \notin {"hello", "done"}
    /\ conn' = [conn EXCEPT ![c].client = "half"]

ClientGoes(c) ==
    /\ conn[c].client # "gone" /\ conn[c].pc \notin {"hello", "done"}
    /\ conn' = [conn EXCEPT ![c].client = "gone"]

\* The handler of the next connection, of whatever kind.
NextConn(c) ==
    /\ conn[c].pc = "done" /\ conn[c].rev \in {"off", "done"}
    /\ conn' \in {[conn EXCEPT ![c] = NewConn(t, h)] : t \in BOOLEAN, h \in Hosts}

-----------------------------------------------------------------------------
\* Everything but Reprobe leaves what the handlers share alone.
HandlerStep(c) ==
    \/ NoHello(c) \/ ReadHello(c) \/ Connect(c) \/ ConnectFails(c)
    \/ SendWhole(c) \/ SendFirstRecords(c) \/ SendLastRecord(c)
    \/ Probe(c) \/ CloseRejected(c) \/ Reconnect(c) \/ ReconnectFails(c)
    \/ Resend(c) \/ Forward(c)
    \/ PumpEnds(c) \/ Join(c) \/ CloseUpstream(c) \/ Account(c) \/ Shut(c)

Handler(c) == (HandlerStep(c) /\ UNCHANGED noFrag) \/ Reprobe(c)
Reverse(c) == (RevRecv(c) \/ RevSend(c) \/ RevEnds(c)) /\ UNCHANGED noFrag

Environment(c) ==
    /\ \/ ServerSends(c) \/ ServerEnds(c) \/ Cut(c)
       \/ ClientHalfCloses(c) \/ ClientGoes(c) \/ NextConn(c)
    /\ UNCHANGED noFrag

Next == \E c \in Conns : Handler(c) \/ Reverse(c) \/ Environment(c)

\* Both threads keep being scheduled, and every wait of the handler but the
\* one of PumpEnds has a timeout.  Servers and clients owe nothing.
Fairness == \A c \in Conns : WF_vars(Handler(c)) /\ WF_vars(Reverse(c))

Spec == Init /\ [][Next]_vars
FairSpec == Spec /\ Fairness

-----------------------------------------------------------------------------
(* Properties *)

\* The whole hello of a TLS host that is neither excluded nor learned goes
\* out only after this connection has seen the fragmented one cut; a slow
\* server does not make the relay show the name to the DPI (404-417).  And a
\* host is learned only because its server rejects fragments or drops the
\* fragmented try by chance, never because the DPI blocks its name, whatever
\* the timing (comment of lines 418-423).
WholeOnlyAfterCut ==
    /\ noFrag \subseteq (Rejects \cup Flaky) \ Blocked
    /\ \A c \in Conns :
          conn[c].hello = "whole" /\ conn[c].tls
              => \/ conn[c].host \in Excluded \cup noFrag
                 \/ conn[c].cut # "no" /\ conn[c].nup = 2

\* A connection cut while its first reply is awaited is tried once more,
\* unless the second connect fails (400-447).  The comment of lines 400-403
\* speaks of every immediate reset; one between two records escapes.
CutIsRetried ==
    \A c \in Conns :
        conn[c].pc = "done" /\ conn[c].cut = "probe" /\ conn[c].first # "data"
            => conn[c].nup = 2 \/ conn[c].up = "none"

\* A handler that has ended holds no upstream socket, whichever way it ended,
\* and opens the second one only with the first one closed (424-463); one
\* counted as reset has not passed a byte on to its client, although the
\* reverse thread may still be counting (message of lines 469-470).
EndsClean ==
    [][\A c \in Conns :
          /\ conn'[c].pc = "done" => conn'[c].up # "open"
          /\ conn'[c].nup > conn[c].nup => conn[c].up # "open"
          /\ conn'[c].counted = "reset" /\ conn[c].counted = "no" => conn[c].got = <<>>]_vars

\* Once its client is gone, a handler ends and so does its reverse thread.
HandlerEnds ==
    \A c \in Conns :
        conn[c].client = "gone" ~> conn[c].pc = "done" /\ conn[c].rev \in {"off", "done"}

\* The client receives the stream of the last upstream socket from its first
\* piece on, in order and without a gap, across the probe, the retry and the
\* start of the reverse thread (387-455).  The relay tears a connection down
\* only when its client has finished or its server is gone, however long both
\* are quiet (comment of lines 365-369).  It sends no FIN before the whole reply
\* of a server that ends it properly (_pump, 313-329), unless the client has
\* half-closed and the reply takes longer than the join waits (456).
Faithful ==
    \A c \in Conns :
        LET r == conn[c] IN
        /\ \A i \in DOMAIN r.got : r.got[i] = <<r.nup, i>>
        /\ r.pc \in {"join", "close", "account"} \/ (r.rev = "done" /\ r.eof)
              => r.client # "open" \/ r.srv \in {"eof", "reset"}
        /\ r.rev # "off" /\ r.eof /\ r.client # "gone" /\ r.srv \in {"talking", "eof"}
              => Len(r.got) = r.sent \/ (r.client = "half" /\ r.cutoff)
=============================================================================
