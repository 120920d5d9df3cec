--------------------------- MODULE ProxyConn_proofs ---------------------------
(***************************************************************************)
(* Proofs about ProxyConn, for every finite set of connections, every set  *)
(* of hosts and requests, any number of DoH endpoints, and streams of any  *)
(* length: the counters agree with the connections, no host name leaves in *)
(* one record but for the four reasons the code has, and the relays copy   *)
(* both streams faithfully.                                                *)
(*                                                                         *)
(* A step of a handler, a relay thread or a peer reads and writes one      *)
(* record of conn, so the inductive invariant is a predicate ConnInv on    *)
(* one record and on `running`, which only ever becomes FALSE.  The        *)
(* counters are sums over all connections: of each step it is enough to    *)
(* know which of four sets the connection enters or leaves.                *)
(***************************************************************************)
EXTENDS ProxyConn, Integers, SequenceTheorems, FiniteSetTheorems, TLAPS

-----------------------------------------------------------------------------
(* The inductive invariant, for the record r of one connection *)

\* Where a handler is before it is connected, and before it has started the
\* relays.
Asking == {"new", "read", "resolve", "doh", "local", "connect"}
Greeting == {"hello", "more", "send", "pipe"}

\* What goes with each place of the handler (_handle_client, 312-396,
\* _handle_https_tunnel, 398-466, _read_client_hello, 515-535): its sockets, what
\* it has read and sent, and that the relays are not running yet.
Place(r) ==
    /\ r.pc \in Asking => r.srv = "none"
    /\ r.pc \in Greeting => r.srv = "open"
    /\ r.pc \in Asking \cup {"hello"} => r.taken = 0
    /\ r.pc = "more" => r.taken = 1
    /\ r.pc \in Asking \cup {"hello", "more"} => Len(r.sent) = 0
    /\ r.pc \in {"doh", "local"} => r.req.host \notin Literal
    /\ r.pc = "send" => r.taken \in 1 .. 2 /\ Len(r.sent) < r.taken
    /\ r.pc \in Asking \cup {"hello", "more", "send"} => ~r.soft
    /\ r.pc \in Asking \cup Greeting =>
          /\ r.cli = "open" /\ r.relay["up"] = "off" /\ r.relay["down"] = "off"

\* Why a first record may hold the whole name: the hello was never complete, or
\* not TLS, or its host is excluded, or an error made the handler send it again
\* (523-535, 537-563).
Cut(r) ==
    /\ r.pc = "send" /\ r.req.kind = "https" /\ r.taken = 1 =>
          r.req.shape \in {"plain", "tiny"} \/ r.stalled
    /\ r.uncut => \/ r.req.host \in Excluded
                  \/ r.req.shape \in {"plain", "tiny"}
                  \/ r.stalled
                  \/ r.soft

\* The relay threads run only while the handler waits for them (_pipe, 565-583),
\* and a tunnel is reported once, as dead only if the client has heard nothing
\* (446-466).
Relays(r) ==
    /\ r.relay["up"] = "off" <=> r.relay["down"] = "off"
    /\ r.relay["up"] # "off" => r.srv # "none"
    /\ r.relay["up"] = "off" => r.heard = 0 /\ r.got = 0
    /\ r.pc = "join" => r.relay["up"] # "off"
    /\ r.pc # "join" =>
          /\ r.relay["up"] \in {"off", "done"}
          /\ r.relay["down"] \in {"off", "done"}
    /\ r.pc = "account" => r.relay["up"] = "done" /\ r.relay["down"] = "done"
    /\ r.verdict # "none" => r.pc \in {"close", "done"}
    /\ r.verdict = "fail" => r.heard = 0

\* The client's stream is 1, 2, 3 ...: q is its beginning, without a gap.
Numbered(q) == \A i \in DOMAIN q : q[i] = i

\* What has been read from the client has been sent, but for what the thread has
\* in hand.  A reset server takes nothing more, and the fallback sends twice.
Upward(r) ==
    /\ ~r.soft => Numbered(r.sent)
    /\ r.relay["up"] = "send" => r.taken > 0
    /\ ~r.soft /\ r.server # "reset" =>
          /\ r.pc = "pipe" \/ r.relay["up"] \in {"check", "recv"} => Len(r.sent) = r.taken
          /\ r.relay["up"] = "send" => Len(r.sent) + 1 = r.taken

\* The same for the server's stream, which no fallback disturbs.
Downward(r) ==
    /\ r.got <= r.heard /\ r.heard <= r.replied
    /\ r.relay["down"] \in {"check", "recv"} => r.got = r.heard
    /\ r.relay["down"] = "send" => r.got + 1 = r.heard

\* A relay has ended, or the sockets are closed under it.
Broken(r) ==
    /\ r.relay["down"] # "off"
    /\ \/ r.cli = "closed" \/ r.srv # "open"
       \/ r.relay["up"] = "done" \/ r.relay["down"] = "done"

\* While the proxy runs and the client keeps its side open, the relays end for
\* one reason only: the server has ended its stream, and all of it has been passed
\* on (finally clause of _relay, 597-605).
Ended(b, r) ==
    b /\ Broken(r) /\ r.client = "open" /\ r.server # "reset" =>
        /\ r.relay["down"] = "done" /\ r.server = "fin"
        /\ r.heard = r.replied /\ r.got = r.heard

\* The invariant of one connection, b being self.running.
ConnInv(b, r) ==
    /\ Place(r) /\ Cut(r) /\ Relays(r) /\ Upward(r) /\ Downward(r) /\ Ended(b, r)

\* The connections that have been through _resolve_host: dns counts some of them.
Asked == {c \in Conns : conn[c].pc \notin {"new", "read", "resolve", "doh", "local"}}

\* The counters, with what their bounds rest on.
Counts ==
    /\ Counters
    /\ IsFiniteSet(cached)
    /\ stats.dns <= Cardinality(Asked)

\* The inductive invariant.
IInv == TypeOK /\ Counts /\ \A c \in Conns : ConnInv(running, conn[c])

-----------------------------------------------------------------------------
(* The steps of one connection *)

\* What a step of connection c makes of its record.
Becomes(c, s) == conn' = [conn EXCEPT ![c] = s]

\* Before the address is known.
Early == {"new", "read", "resolve", "doh", "local"}

\* A step that the counters do not see.
Quiet(r, s) ==
    /\ s.pc \in {"new", "done"} <=> r.pc \in {"new", "done"}
    /\ s.verdict = r.verdict
    /\ r.pc \notin Early => s.pc \notin Early

\* A step of connection c that keeps the invariant of its record, unseen by the
\* counters.
Keeps(c) ==
    \E s \in ConnRecords :
        Becomes(c, s) /\ ConnInv(running, s) /\ Quiet(conn[c], s)

\* Membership as an operator, so that Fields can be used for one field at a time.
Typed(s) == s \in ConnRecords

\* Where a relay thread may be.
ThreadPlaces == {"off", "check", "recv", "send", "done"}

\* A field of a record takes any value of its type.
LEMMA Fields ==
  ASSUME NEW r \in ConnRecords
  PROVE  /\ \A x \in PCs : Typed([r EXCEPT !.pc = x])
         /\ \A x \in RequestRecords : Typed([r EXCEPT !.req = x])
         /\ \A x \in 0 .. 2 * Endpoints - 1 : Typed([r EXCEPT !.rung = x])
         /\ \A x \in {"open", "closed"} : Typed([r EXCEPT !.cli = x])
         /\ \A x \in {"none", "open", "closed"} : Typed([r EXCEPT !.srv = x])
         /\ \A x \in 0 .. MaxUp : Typed([r EXCEPT !.taken = x])
         /\ \A x \in Seq(1 .. MaxUp) : Typed([r EXCEPT !.sent = x])
         /\ \A x \in 0 .. MaxDown : Typed([r EXCEPT !.heard = x])
         /\ \A x \in 0 .. MaxDown : Typed([r EXCEPT !.got = x])
         /\ \A x \in [Threads -> ThreadPlaces] : Typed([r EXCEPT !.relay = x])
         /\ \A x \in {"none", "success", "fail"} : Typed([r EXCEPT !.verdict = x])
         /\ \A x \in BOOLEAN : Typed([r EXCEPT !.uncut = x])
         /\ \A x \in BOOLEAN : Typed([r EXCEPT !.stalled = x])
         /\ \A x \in BOOLEAN : Typed([r EXCEPT !.soft = x])
         /\ \A x \in {"open", "half", "gone"} : Typed([r EXCEPT !.client = x])
         /\ \A x \in {"quiet", "talking", "fin", "reset"} : Typed([r EXCEPT !.server = x])
         /\ \A x \in 0 .. MaxDown : Typed([r EXCEPT !.replied = x])
<1>1. \A x \in PCs : Typed([r EXCEPT !.pc = x])
  BY DEF Typed, ConnRecords
<1>2. \A x \in RequestRecords : Typed([r EXCEPT !.req = x])
  BY DEF Typed, ConnRecords
<1>3. \A x \in 0 .. 2 * Endpoints - 1 : Typed([r EXCEPT !.rung = x])
  BY DEF Typed, ConnRecords
<1>4. \A x \in {"open", "closed"} : Typed([r EXCEPT !.cli = x])
  BY DEF Typed, ConnRecords
<1>5. \A x \in {"none", "open", "closed"} : Typed([r EXCEPT !.srv = x])
  BY DEF Typed, ConnRecords
<1>6. \A x \in 0 .. MaxUp : Typed([r EXCEPT !.taken = x])
  BY DEF Typed, ConnRecords
<1>7. \A x \in Seq(1 .. MaxUp) : Typed([r EXCEPT !.sent = x])
  BY DEF Typed, ConnRecords
<1>8. \A x \in 0 .. MaxDown : Typed([r EXCEPT !.heard = x])
  BY DEF Typed, ConnRecords
<1>9. \A x \in 0 .. MaxDown : Typed([r EXCEPT !.got = x])
  BY DEF Typed, ConnRecords
<1>10. \A x \in [Threads -> ThreadPlaces] : Typed([r EXCEPT !.relay = x])
  BY DEF Typed, ConnRecords, ThreadPlaces
<1>11. \A x \in {"none", "success", "fail"} : Typed([r EXCEPT !.verdict = x])
  BY DEF Typed, ConnRecords
<1>12. \A x \in BOOLEAN : Typed([r EXCEPT !.uncut = x])
  BY DEF Typed, ConnRecords
<1>13. \A x \in BOOLEAN : Typed([r EXCEPT !.stalled = x])
  BY DEF Typed, ConnRecords
<1>14. \A x \in BOOLEAN : Typed([r EXCEPT !.soft = x])
  BY DEF Typed, ConnRecords
<1>15. \A x \in {"open", "half", "gone"} : Typed([r EXCEPT !.client = x])
  BY DEF Typed, ConnRecords
<1>16. \A x \in {"quiet", "talking", "fin", "reset"} : Typed([r EXCEPT !.server = x])
  BY DEF Typed, ConnRecords
<1>17. \A x \in 0 .. MaxDown : Typed([r EXCEPT !.replied = x])
  BY DEF Typed, ConnRecords
<1> QED BY <1>1, <1>2, <1>3, <1>4, <1>5, <1>6, <1>7, <1>8, <1>9, <1>10, <1>11, <1>12,
           <1>13, <1>14, <1>15, <1>16, <1>17

\* The types of the fields, and of the fields of req and relay.
Members(r) ==
  /\ r.pc \in PCs
  /\ r.req \in RequestRecords
  /\ r.req.kind \in {"https", "http"}
  /\ r.req.shape \in {"one", "split", "tiny", "plain"}
  /\ r.req.host \in Hosts
  /\ r.rung \in 0 .. 2 * Endpoints - 1
  /\ r.cli \in {"open", "closed"}
  /\ r.srv \in {"none", "open", "closed"}
  /\ r.taken \in 0 .. MaxUp
  /\ r.sent \in Seq(1 .. MaxUp) /\ Len(r.sent) \in Nat
  /\ r.heard \in 0 .. MaxDown
  /\ r.got \in 0 .. MaxDown
  /\ r.relay \in [Threads -> ThreadPlaces]
  /\ r.relay["up"] \in ThreadPlaces /\ r.relay["down"] \in ThreadPlaces
  /\ r.verdict \in {"none", "success", "fail"}
  /\ r.uncut \in BOOLEAN
  /\ r.stalled \in BOOLEAN
  /\ r.soft \in BOOLEAN
  /\ r.client \in {"open", "half", "gone"}
  /\ r.server \in {"quiet", "talking", "fin", "reset"}
  /\ r.replied \in 0 .. MaxDown

\* Every record has them.
LEMMA MembersOf ==
  ASSUME NEW r \in ConnRecords
  PROVE  Members(r)
<1>1. /\ r.pc \in PCs /\ r.req \in RequestRecords /\ r.rung \in 0 .. 2 * Endpoints - 1
      /\ r.cli \in {"open", "closed"} /\ r.srv \in {"none", "open", "closed"}
      /\ r.taken \in 0 .. MaxUp /\ r.sent \in Seq(1 .. MaxUp) /\ r.heard \in 0 .. MaxDown
      /\ r.got \in 0 .. MaxDown /\ r.relay \in [Threads -> ThreadPlaces]
      /\ r.verdict \in {"none", "success", "fail"} /\ r.uncut \in BOOLEAN
      /\ r.stalled \in BOOLEAN /\ r.soft \in BOOLEAN
      /\ r.client \in {"open", "half", "gone"}
      /\ r.server \in {"quiet", "talking", "fin", "reset"} /\ r.replied \in 0 .. MaxDown
  BY DEF ConnRecords, ThreadPlaces
<1>2. /\ r.req.kind \in {"https", "http"}
      /\ r.req.shape \in {"one", "split", "tiny", "plain"} /\ r.req.host \in Hosts
  BY <1>1 DEF RequestRecords
<1>3. r.relay["up"] \in ThreadPlaces /\ r.relay["down"] \in ThreadPlaces
  BY <1>1 DEF Threads
<1>4. Len(r.sent) \in Nat
  BY <1>1, LenProperties
<1> QED BY <1>1, <1>2, <1>3, <1>4 DEF Members

\* Sending the next number keeps the stream without a gap.
LEMMA SentOn ==
  ASSUME NEW q \in Seq(1 .. MaxUp), NEW n \in 1 .. MaxUp
  PROVE  /\ Append(q, n) \in Seq(1 .. MaxUp) /\ Len(Append(q, n)) = Len(q) + 1
         /\ Numbered(q) /\ n = Len(q) + 1 => Numbered(Append(q, n))
<1>1. /\ Append(q, n) \in Seq(1 .. MaxUp) /\ Len(Append(q, n)) = Len(q) + 1
      /\ DOMAIN Append(q, n) = 1 .. Len(q) + 1
      /\ (\A i \in 1 .. Len(q) : Append(q, n)[i] = q[i]) /\ Append(q, n)[Len(q) + 1] = n
  BY AppendProperties, LenProperties
<1>2. DOMAIN q = 1 .. Len(q) /\ Len(q) \in Nat
  BY LenProperties
<1> QED BY <1>1, <1>2 DEF Numbered

\* What is in hand of the hello is the beginning of the stream.
LEMMA FirstBytes ==
  ASSUME NEW n \in 0 .. MaxUp, MaxUp \in Nat
  PROVE  LET q == [i \in 1 .. n |-> i]
         IN  q \in Seq(1 .. MaxUp) /\ Len(q) = n /\ Numbered(q)
<1> DEFINE q == [i \in 1 .. n |-> i]
<1>1. q \in [1 .. n -> 1 .. MaxUp]
  OBVIOUS
<1>2. q \in Seq(1 .. MaxUp) /\ Len(q) = n
  BY <1>1
<1>3. Numbered(q)
  BY DEF Numbered
<1> QED BY <1>2, <1>3

\* The steps of the handler that send nothing: reading the request, the ladder of
\* endpoints, the two ways out of a hello that has come in part, starting the
\* relays and waiting for them.
LEMMA HandlerKeeps ==
  ASSUME TypeOK, NEW c \in Conns, ConnInv(running, conn[c]),
         \/ ReadRequest(c) \/ Resolve(c) \/ EndpointFails(c) \/ ReadMore(c)
         \/ StopsHalfWay(c) \/ GiveUp(c) \/ Pipe(c) \/ Join(c)
  PROVE  Keeps(c)
<1>r. PICK r : r = conn[c]
  OBVIOUS
<1>t. r \in ConnRecords
  BY <1>r DEF TypeOK
<1>i. ConnInv(running, r)
  BY <1>r
<1>c. conn \in [Conns -> ConnRecords]
  BY DEF TypeOK
<1>y. Members(r)
  BY <1>t, MembersOf
<1>k. /\ TRUE \in BOOLEAN /\ FALSE \in BOOLEAN /\ running \in BOOLEAN
      /\ Endpoints \in Nat \ {0} /\ MaxUp \in Nat \ {0, 1} /\ MaxDown \in Nat \ {0}
      /\ 0 \in 0 .. 2 * Endpoints - 1 /\ 0 \in 0 .. MaxUp /\ 1 \in 0 .. MaxUp
      /\ 2 \in 0 .. MaxUp
  BY BoundAssumption DEF TypeOK
<1>w. ASSUME NEW s \in ConnRecords, Becomes(c, s), ConnInv(running, s), Quiet(r, s)
      PROVE  Keeps(c)
  BY <1>r, <1>w DEF Keeps
<1>1. CASE ReadRequest(c)
  <2>1. r.pc = "read"
    BY <1>r, <1>1 DEF ReadRequest, At
  <2> DEFINE s == [r EXCEPT !.pc = "resolve"]
  <2>a. Becomes(c, s)
    BY <1>r, <1>c, <1>1, <2>1 DEF Becomes, ReadRequest, At, Goto
  <2>b. s \in ConnRecords
    BY Fields, <1>t, <1>y, <1>k, <1>1, <2>1, ZenonT(30) DEF Typed, PCs, Members
  <2>e. /\ s.pc = "resolve" /\ s.req = r.req /\ s.rung = r.rung /\ s.cli = r.cli
        /\ s.srv = r.srv /\ s.taken = r.taken /\ s.sent = r.sent /\ s.heard = r.heard
        /\ s.got = r.got /\ s.relay = r.relay /\ s.verdict = r.verdict
        /\ s.uncut = r.uncut /\ s.stalled = r.stalled /\ s.soft = r.soft
        /\ s.client = r.client /\ s.server = r.server /\ s.replied = r.replied
    BY <1>t DEF ConnRecords
  <2> HIDE DEF s
  <2>g. Place(s) /\ Cut(s)
    BY <1>i, <1>y, <1>k, <1>1, <2>1, <2>e, SMTT(60)
    DEF Members, PCs, ThreadPlaces, ConnInv, Place, Cut, Relays, Upward, Downward, Broken,
        Ended, Asking, Greeting
  <2>h. Relays(s) /\ Upward(s)
    BY <1>i, <1>y, <1>k, <1>1, <2>1, <2>e, SMTT(60)
    DEF Members, PCs, ThreadPlaces, ConnInv, Place, Cut, Relays, Upward, Downward, Broken,
        Ended, Asking, Greeting
  <2>i. Downward(s) /\ Ended(running, s)
    BY <1>i, <1>y, <1>k, <1>1, <2>1, <2>e, SMTT(60)
    DEF Members, PCs, ThreadPlaces, ConnInv, Place, Cut, Relays, Upward, Downward, Broken,
        Ended, Asking, Greeting
  <2>j. Quiet(r, s)
    BY <1>i, <1>y, <1>k, <1>1, <2>1, <2>e, SMTT(60)
    DEF Members, PCs, ThreadPlaces, Quiet, Early, ConnInv, Place, Cut, Relays, Upward,
        Downward, Broken, Ended, Asking, Greeting
  <2> QED BY <1>w, <2>a, <2>b, <2>g, <2>h, <2>i, <2>j DEF ConnInv
<1>2. CASE GiveUp(c)
  <2>1. r.pc \in {"read", "doh", "local", "connect", "hello", "more"}
    BY <1>r, <1>2 DEF GiveUp, At
  <2>2. PICK v \in {"none", "open", "closed"} :
            v = IF r.srv = "open" THEN "closed" ELSE r.srv
    BY <1>y DEF Members
  <2> DEFINE s == [r EXCEPT !.pc = "close", !.rung = 0, !.srv = v]
  <2>a. Becomes(c, s)
    BY <1>r, <1>c, <1>2, <2>1, <2>2 DEF Becomes, GiveUp, Leave
  <2>b. s \in ConnRecords
    BY Fields, <1>t, <1>y, <1>k, <1>2, <2>1, <2>2, ZenonT(30) DEF Typed, PCs, Members
  <2>e. /\ s.pc = "close" /\ s.req = r.req /\ s.rung = 0 /\ s.cli = r.cli /\ s.srv = v
        /\ s.taken = r.taken /\ s.sent = r.sent /\ s.heard = r.heard /\ s.got = r.got
        /\ s.relay = r.relay /\ s.verdict = r.verdict /\ s.uncut = r.uncut
        /\ s.stalled = r.stalled /\ s.soft = r.soft /\ s.client = r.client
        /\ s.server = r.server /\ s.replied = r.replied
    BY <1>t DEF ConnRecords
  <2> HIDE DEF s
  <2>g. Place(s) /\ Cut(s)
    BY <1>i, <1>y, <1>k, <1>2, <2>1, <2>2, <2>e, SMTT(60)
    DEF Members, PCs, ThreadPlaces, ConnInv, Place, Cut, Relays, Upward, Downward, Broken,
        Ended, Asking, Greeting
  <2>h. Relays(s) /\ Upward(s)
    BY <1>i, <1>y, <1>k, <1>2, <2>1, <2>2, <2>e, SMTT(60)
    DEF Members, PCs, ThreadPlaces, ConnInv, Place, Cut, Relays, Upward, Downward, Broken,
        Ended, Asking, Greeting
  <2>i. Downward(s) /\ Ended(running, s)
    BY <1>i, <1>y, <1>k, <1>2, <2>1, <2>2, <2>e, SMTT(60)
    DEF Members, PCs, ThreadPlaces, ConnInv, Place, Cut, Relays, Upward, Downward, Broken,
        Ended, Asking, Greeting
  <2>j. Quiet(r, s)
    BY <1>i, <1>y, <1>k, <1>2, <2>1, <2>2, <2>e, SMTT(60)
    DEF Members, PCs, ThreadPlaces, Quiet, Early, ConnInv, Place, Cut, Relays, Upward,
        Downward, Broken, Ended, Asking, Greeting
  <2> QED BY <1>w, <2>a, <2>b, <2>g, <2>h, <2>i, <2>j DEF ConnInv
<1>3. CASE Resolve(c)
  <2>1. r.pc = "resolve"
    BY <1>r, <1>3 DEF Resolve, At
  <2>2. PICK x : x = IF Host(c) \in Literal \cup cached THEN "connect"
               ELSE IF UseDoh THEN "doh" ELSE "local"
    OBVIOUS
  <2>3. x \in {"connect", "doh", "local"} /\ (x # "connect" => r.req.host \notin Literal)
    BY <1>r, <2>2 DEF Host
  <2> DEFINE s == [r EXCEPT !.pc = x]
  <2>a. Becomes(c, s)
    BY <1>r, <1>c, <1>3, <2>1, <2>2, <2>3 DEF Becomes, Resolve, Goto
  <2>b. s \in ConnRecords
    BY Fields, <1>t, <1>y, <1>k, <1>3, <2>1, <2>2, <2>3, ZenonT(30)
    DEF Typed, PCs, Members
  <2>e. /\ s.pc = x /\ s.req = r.req /\ s.rung = r.rung /\ s.cli = r.cli /\ s.srv = r.srv
        /\ s.taken = r.taken /\ s.sent = r.sent /\ s.heard = r.heard /\ s.got = r.got
        /\ s.relay = r.relay /\ s.verdict = r.verdict /\ s.uncut = r.uncut
        /\ s.stalled = r.stalled /\ s.soft = r.soft /\ s.client = r.client
        /\ s.server = r.server /\ s.replied = r.replied
    BY <1>t DEF ConnRecords
  <2> HIDE DEF s
  <2>g. Place(s) /\ Cut(s)
    BY <1>i, <1>y, <1>k, <1>3, <2>1, <2>2, <2>3, <2>e, SMTT(60)
    DEF Members, PCs, ThreadPlaces, ConnInv, Place, Cut, Relays, Upward, Downward, Broken,
        Ended, Asking, Greeting
  <2>h. Relays(s) /\ Upward(s)
    BY <1>i, <1>y, <1>k, <1>3, <2>1, <2>2, <2>3, <2>e, SMTT(60)
    DEF Members, PCs, ThreadPlaces, ConnInv, Place, Cut, Relays, Upward, Downward, Broken,
        Ended, Asking, Greeting
  <2>i. Downward(s) /\ Ended(running, s)
    BY <1>i, <1>y, <1>k, <1>3, <2>1, <2>2, <2>3, <2>e, SMTT(60)
    DEF Members, PCs, ThreadPlaces, ConnInv, Place, Cut, Relays, Upward, Downward, Broken,
        Ended, Asking, Greeting
  <2>j. Quiet(r, s)
    BY <1>i, <1>y, <1>k, <1>3, <2>1, <2>2, <2>3, <2>e, SMTT(60)
    DEF Members, PCs, ThreadPlaces, Quiet, Early, ConnInv, Place, Cut, Relays, Upward,
        Downward, Broken, Ended, Asking, Greeting
  <2> QED BY <1>w, <2>a, <2>b, <2>g, <2>h, <2>i, <2>j DEF ConnInv
<1>4. CASE EndpointFails(c)
  <2>1. r.pc = "doh"
    BY <1>r, <1>4 DEF EndpointFails, At
  <2>2. CASE r.rung + 1 = 2 * Endpoints
    <3> DEFINE s == [r EXCEPT !.rung = 0, !.pc = "local"]
    <3>a. Becomes(c, s)
      BY <1>r, <1>c, <1>4, <2>1, <2>2 DEF Becomes, EndpointFails
    <3>b. s \in ConnRecords
      BY Fields, <1>t, <1>y, <1>k, <1>4, <2>1, <2>2, ZenonT(30) DEF Typed, PCs, Members
    <3>e. /\ s.pc = "local" /\ s.req = r.req /\ s.rung = 0 /\ s.cli = r.cli
          /\ s.srv = r.srv /\ s.taken = r.taken /\ s.sent = r.sent /\ s.heard = r.heard
          /\ s.got = r.got /\ s.relay = r.relay /\ s.verdict = r.verdict
          /\ s.uncut = r.uncut /\ s.stalled = r.stalled /\ s.soft = r.soft
          /\ s.client = r.client /\ s.server = r.server /\ s.replied = r.replied
      BY <1>t DEF ConnRecords
    <3> HIDE DEF s
    <3>g. Place(s) /\ Cut(s)
      BY <1>i, <1>y, <1>k, <1>4, <2>1, <2>2, <3>e, SMTT(60)
      DEF Members, PCs, ThreadPlaces, ConnInv, Place, Cut, Relays, Upward, Downward,
          Broken, Ended, Asking, Greeting
    <3>h. Relays(s) /\ Upward(s)
      BY <1>i, <1>y, <1>k, <1>4, <2>1, <2>2, <3>e, SMTT(60)
      DEF Members, PCs, ThreadPlaces, ConnInv, Place, Cut, Relays, Upward, Downward,
          Broken, Ended, Asking, Greeting
    <3>i. Downward(s) /\ Ended(running, s)
      BY <1>i, <1>y, <1>k, <1>4, <2>1, <2>2, <3>e, SMTT(60)
      DEF Members, PCs, ThreadPlaces, ConnInv, Place, Cut, Relays, Upward, Downward,
          Broken, Ended, Asking, Greeting
    <3>j. Quiet(r, s)
      BY <1>i, <1>y, <1>k, <1>4, <2>1, <2>2, <3>e, SMTT(60)
      DEF Members, PCs, ThreadPlaces, Quiet, Early, ConnInv, Place, Cut, Relays, Upward,
          Downward, Broken, Ended, Asking, Greeting
    <3> QED BY <1>w, <3>a, <3>b, <3>g, <3>h, <3>i, <3>j DEF ConnInv
  <2>3. CASE r.rung + 1 # 2 * Endpoints
    <3>1. r.rung + 1 \in 0 .. 2 * Endpoints - 1
      <4>1. r.rung \in 0 .. 2 * Endpoints - 1 /\ Endpoints \in Nat
        BY <1>y, <1>k DEF Members
      <4> QED BY <4>1, <2>3
    <3> DEFINE s == [r EXCEPT !.rung = r.rung + 1]
    <3>a. Becomes(c, s)
      BY <1>r, <1>c, <1>4, <2>1, <2>3, <3>1 DEF Becomes, EndpointFails
    <3>b. s \in ConnRecords
      BY Fields, <1>t, <1>y, <1>k, <1>4, <2>1, <2>3, <3>1, ZenonT(30)
      DEF Typed, PCs, Members
    <3>e. /\ s.pc = r.pc /\ s.req = r.req /\ s.rung = r.rung + 1 /\ s.cli = r.cli
          /\ s.srv = r.srv /\ s.taken = r.taken /\ s.sent = r.sent /\ s.heard = r.heard
          /\ s.got = r.got /\ s.relay = r.relay /\ s.verdict = r.verdict
          /\ s.uncut = r.uncut /\ s.stalled = r.stalled /\ s.soft = r.soft
          /\ s.client = r.client /\ s.server = r.server /\ s.replied = r.replied
      BY <1>t DEF ConnRecords
    <3> HIDE DEF s
    <3>g. Place(s) /\ Cut(s)
      BY <1>i, <1>y, <1>k, <1>4, <2>1, <2>3, <3>1, <3>e, SMTT(60)
      DEF Members, PCs, ThreadPlaces, ConnInv, Place, Cut, Relays, Upward, Downward,
          Broken, Ended, Asking, Greeting
    <3>h. Relays(s) /\ Upward(s)
      BY <1>i, <1>y, <1>k, <1>4, <2>1, <2>3, <3>1, <3>e, SMTT(60)
      DEF Members, PCs, ThreadPlaces, ConnInv, Place, Cut, Relays, Upward, Downward,
          Broken, Ended, Asking, Greeting
    <3>i. Downward(s) /\ Ended(running, s)
      BY <1>i, <1>y, <1>k, <1>4, <2>1, <2>3, <3>1, <3>e, SMTT(60)
      DEF Members, PCs, ThreadPlaces, ConnInv, Place, Cut, Relays, Upward, Downward,
          Broken, Ended, Asking, Greeting
    <3>j. Quiet(r, s)
      BY <1>i, <1>y, <1>k, <1>4, <2>1, <2>3, <3>1, <3>e, SMTT(60)
      DEF Members, PCs, ThreadPlaces, Quiet, Early, ConnInv, Place, Cut, Relays, Upward,
          Downward, Broken, Ended, Asking, Greeting
    <3> QED BY <1>w, <3>a, <3>b, <3>g, <3>h, <3>i, <3>j DEF ConnInv
  <2> QED BY <2>2, <2>3
<1>5. CASE ReadMore(c)
  <2>1. r.pc = "more"
    BY <1>r, <1>5 DEF ReadMore, At
  <2> DEFINE s == [r EXCEPT !.taken = 2, !.pc = "send"]
  <2>a. Becomes(c, s)
    BY <1>r, <1>c, <1>5, <2>1 DEF Becomes, ReadMore
  <2>b. s \in ConnRecords
    BY Fields, <1>t, <1>y, <1>k, <1>5, <2>1, ZenonT(30) DEF Typed, PCs, Members
  <2>e. /\ s.pc = "send" /\ s.req = r.req /\ s.rung = r.rung /\ s.cli = r.cli
        /\ s.srv = r.srv /\ s.taken = 2 /\ s.sent = r.sent /\ s.heard = r.heard
        /\ s.got = r.got /\ s.relay = r.relay /\ s.verdict = r.verdict
        /\ s.uncut = r.uncut /\ s.stalled = r.stalled /\ s.soft = r.soft
        /\ s.client = r.client /\ s.server = r.server /\ s.replied = r.replied
    BY <1>t DEF ConnRecords
  <2> HIDE DEF s
  <2>g. Place(s) /\ Cut(s)
    BY <1>i, <1>y, <1>k, <1>5, <2>1, <2>e, SMTT(60)
    DEF Members, PCs, ThreadPlaces, ConnInv, Place, Cut, Relays, Upward, Downward, Broken,
        Ended, Asking, Greeting
  <2>h. Relays(s) /\ Upward(s)
    BY <1>i, <1>y, <1>k, <1>5, <2>1, <2>e, SMTT(60)
    DEF Members, PCs, ThreadPlaces, ConnInv, Place, Cut, Relays, Upward, Downward, Broken,
        Ended, Asking, Greeting
  <2>i. Downward(s) /\ Ended(running, s)
    BY <1>i, <1>y, <1>k, <1>5, <2>1, <2>e, SMTT(60)
    DEF Members, PCs, ThreadPlaces, ConnInv, Place, Cut, Relays, Upward, Downward, Broken,
        Ended, Asking, Greeting
  <2>j. Quiet(r, s)
    BY <1>i, <1>y, <1>k, <1>5, <2>1, <2>e, SMTT(60)
    DEF Members, PCs, ThreadPlaces, Quiet, Early, ConnInv, Place, Cut, Relays, Upward,
        Downward, Broken, Ended, Asking, Greeting
  <2> QED BY <1>w, <2>a, <2>b, <2>g, <2>h, <2>i, <2>j DEF ConnInv
<1>6. CASE StopsHalfWay(c)
  <2>1. r.pc = "more"
    BY <1>r, <1>6 DEF StopsHalfWay, At
  <2> DEFINE s == [r EXCEPT !.stalled = TRUE, !.pc = "send"]
  <2>a. Becomes(c, s)
    BY <1>r, <1>c, <1>6, <2>1 DEF Becomes, StopsHalfWay
  <2>b. s \in ConnRecords
    BY Fields, <1>t, <1>y, <1>k, <1>6, <2>1, ZenonT(30) DEF Typed, PCs, Members
  <2>e. /\ s.pc = "send" /\ s.req = r.req /\ s.rung = r.rung /\ s.cli = r.cli
        /\ s.srv = r.srv /\ s.taken = r.taken /\ s.sent = r.sent /\ s.heard = r.heard
        /\ s.got = r.got /\ s.relay = r.relay /\ s.verdict = r.verdict
        /\ s.uncut = r.uncut /\ s.stalled = TRUE /\ s.soft = r.soft /\ s.client = r.client
        /\ s.server = r.server /\ s.replied = r.replied
    BY <1>t DEF ConnRecords
  <2> HIDE DEF s
  <2>g. Place(s) /\ Cut(s)
    BY <1>i, <1>y, <1>k, <1>6, <2>1, <2>e, SMTT(60)
    DEF Members, PCs, ThreadPlaces, ConnInv, Place, Cut, Relays, Upward, Downward, Broken,
        Ended, Asking, Greeting
  <2>h. Relays(s) /\ Upward(s)
    BY <1>i, <1>y, <1>k, <1>6, <2>1, <2>e, SMTT(60)
    DEF Members, PCs, ThreadPlaces, ConnInv, Place, Cut, Relays, Upward, Downward, Broken,
        Ended, Asking, Greeting
  <2>i. Downward(s) /\ Ended(running, s)
    BY <1>i, <1>y, <1>k, <1>6, <2>1, <2>e, SMTT(60)
    DEF Members, PCs, ThreadPlaces, ConnInv, Place, Cut, Relays, Upward, Downward, Broken,
        Ended, Asking, Greeting
  <2>j. Quiet(r, s)
    BY <1>i, <1>y, <1>k, <1>6, <2>1, <2>e, SMTT(60)
    DEF Members, PCs, ThreadPlaces, Quiet, Early, ConnInv, Place, Cut, Relays, Upward,
        Downward, Broken, Ended, Asking, Greeting
  <2> QED BY <1>w, <2>a, <2>b, <2>g, <2>h, <2>i, <2>j DEF ConnInv
<1>7. CASE Pipe(c)
  <2>1. r.pc = "pipe"
    BY <1>r, <1>7 DEF Pipe, At
  <2>2. PICK f : f = [t \in Threads |-> "check"]
    OBVIOUS
  <2>3. f \in [Threads -> ThreadPlaces] /\ f["up"] = "check" /\ f["down"] = "check"
    BY <2>2 DEF Threads, ThreadPlaces
  <2> DEFINE s == [r EXCEPT !.relay = f, !.pc = "join"]
  <2>a. Becomes(c, s)
    BY <1>r, <1>c, <1>7, <2>1, <2>2, <2>3 DEF Becomes, Pipe
  <2>b. s \in ConnRecords
    BY Fields, <1>t, <1>y, <1>k, <1>7, <2>1, <2>2, <2>3, ZenonT(30)
    DEF Typed, PCs, Members
  <2>e. /\ s.pc = "join" /\ s.req = r.req /\ s.rung = r.rung /\ s.cli = r.cli
        /\ s.srv = r.srv /\ s.taken = r.taken /\ s.sent = r.sent /\ s.heard = r.heard
        /\ s.got = r.got /\ s.relay = f /\ s.verdict = r.verdict /\ s.uncut = r.uncut
        /\ s.stalled = r.stalled /\ s.soft = r.soft /\ s.client = r.client
        /\ s.server = r.server /\ s.replied = r.replied
    BY <1>t DEF ConnRecords
  <2> HIDE DEF s
  <2>g. Place(s) /\ Cut(s)
    BY <1>i, <1>y, <1>k, <1>7, <2>1, <2>2, <2>3, <2>e, SMTT(60)
    DEF Members, PCs, ThreadPlaces, ConnInv, Place, Cut, Relays, Upward, Downward, Broken,
        Ended, Asking, Greeting
  <2>h. Relays(s) /\ Upward(s)
    BY <1>i, <1>y, <1>k, <1>7, <2>1, <2>2, <2>3, <2>e, SMTT(60)
    DEF Members, PCs, ThreadPlaces, ConnInv, Place, Cut, Relays, Upward, Downward, Broken,
        Ended, Asking, Greeting
  <2>i. Downward(s) /\ Ended(running, s)
    BY <1>i, <1>y, <1>k, <1>7, <2>1, <2>2, <2>3, <2>e, SMTT(60)
    DEF Members, PCs, ThreadPlaces, ConnInv, Place, Cut, Relays, Upward, Downward, Broken,
        Ended, Asking, Greeting
  <2>j. Quiet(r, s)
    BY <1>i, <1>y, <1>k, <1>7, <2>1, <2>2, <2>3, <2>e, SMTT(60)
    DEF Members, PCs, ThreadPlaces, Quiet, Early, ConnInv, Place, Cut, Relays, Upward,
        Downward, Broken, Ended, Asking, Greeting
  <2> QED BY <1>w, <2>a, <2>b, <2>g, <2>h, <2>i, <2>j DEF ConnInv
<1>8. CASE Join(c)
  <2>1. r.pc = "join" /\ r.relay["up"] = "done" /\ r.relay["down"] = "done"
    BY <1>r, <1>8 DEF Join, At, Threads
  <2>2. PICK x : x = IF r.req.kind = "https" THEN "account" ELSE "close"
    OBVIOUS
  <2>3. x \in {"account", "close"}
    BY <2>2
  <2> DEFINE s == [r EXCEPT !.pc = x]
  <2>a. Becomes(c, s)
    BY <1>r, <1>c, <1>8, <2>1, <2>2, <2>3 DEF Becomes, Join, Joined, Goto
  <2>b. s \in ConnRecords
    BY Fields, <1>t, <1>y, <1>k, <1>8, <2>1, <2>2, <2>3, ZenonT(30)
    DEF Typed, PCs, Members
  <2>e. /\ s.pc = x /\ s.req = r.req /\ s.rung = r.rung /\ s.cli = r.cli /\ s.srv = r.srv
        /\ s.taken = r.taken /\ s.sent = r.sent /\ s.heard = r.heard /\ s.got = r.got
        /\ s.relay = r.relay /\ s.verdict = r.verdict /\ s.uncut = r.uncut
        /\ s.stalled = r.stalled /\ s.soft = r.soft /\ s.client = r.client
        /\ s.server = r.server /\ s.replied = r.replied
    BY <1>t DEF ConnRecords
  <2> HIDE DEF s
  <2>g. Place(s) /\ Cut(s)
    BY <1>i, <1>y, <1>k, <1>8, <2>1, <2>2, <2>3, <2>e, SMTT(60)
    DEF Members, PCs, ThreadPlaces, ConnInv, Place, Cut, Relays, Upward, Downward, Broken,
        Ended, Asking, Greeting
  <2>h. Relays(s) /\ Upward(s)
    BY <1>i, <1>y, <1>k, <1>8, <2>1, <2>2, <2>3, <2>e, SMTT(60)
    DEF Members, PCs, ThreadPlaces, ConnInv, Place, Cut, Relays, Upward, Downward, Broken,
        Ended, Asking, Greeting
  <2>i. Downward(s) /\ Ended(running, s)
    BY <1>i, <1>y, <1>k, <1>8, <2>1, <2>2, <2>3, <2>e, SMTT(60)
    DEF Members, PCs, ThreadPlaces, ConnInv, Place, Cut, Relays, Upward, Downward, Broken,
        Ended, Asking, Greeting
  <2>j. Quiet(r, s)
    BY <1>i, <1>y, <1>k, <1>8, <2>1, <2>2, <2>3, <2>e, SMTT(60)
    DEF Members, PCs, ThreadPlaces, Quiet, Early, ConnInv, Place, Cut, Relays, Upward,
        Downward, Broken, Ended, Asking, Greeting
  <2> QED BY <1>w, <2>a, <2>b, <2>g, <2>h, <2>i, <2>j DEF ConnInv
<1> QED BY <1>1, <1>2, <1>3, <1>4, <1>5, <1>6, <1>7, <1>8

\* Connecting, reading the hello, and the four ways to send it: raw, record by
\* record, again after an error, and in pieces for plain HTTP.
LEMMA SendKeeps ==
  ASSUME TypeOK, NEW c \in Conns, ConnInv(running, conn[c]),
         \/ Connect(c) \/ ReadHello(c) \/ SendRaw(c) \/ SendRecord(c)
         \/ SendFallback(c) \/ SendPiece(c)
  PROVE  Keeps(c)
<1>r. PICK r : r = conn[c]
  OBVIOUS
<1>t. r \in ConnRecords
  BY <1>r DEF TypeOK
<1>i. ConnInv(running, r)
  BY <1>r
<1>c. conn \in [Conns -> ConnRecords]
  BY DEF TypeOK
<1>y. Members(r)
  BY <1>t, MembersOf
<1>k. /\ TRUE \in BOOLEAN /\ FALSE \in BOOLEAN /\ running \in BOOLEAN
      /\ Endpoints \in Nat \ {0} /\ MaxUp \in Nat \ {0, 1} /\ MaxDown \in Nat \ {0}
      /\ 0 \in 0 .. 2 * Endpoints - 1 /\ 0 \in 0 .. MaxUp /\ 1 \in 0 .. MaxUp
      /\ 2 \in 0 .. MaxUp
  BY BoundAssumption DEF TypeOK
<1>w. ASSUME NEW s \in ConnRecords, Becomes(c, s), ConnInv(running, s), Quiet(r, s)
      PROVE  Keeps(c)
  BY <1>r, <1>w DEF Keeps
<1>1. CASE Connect(c)
  <2>1. r.pc = "connect"
    BY <1>r, <1>1 DEF Connect, At
  <2>2. CASE r.req.kind = "https"
    <3> DEFINE s == [r EXCEPT !.srv = "open", !.pc = "hello"]
    <3>a. Becomes(c, s)
      BY <1>r, <1>c, <1>1, <2>1, <2>2 DEF Becomes, Connect
    <3>b. s \in ConnRecords
      BY Fields, <1>t, <1>y, <1>k, <1>1, <2>1, <2>2, ZenonT(30) DEF Typed, PCs, Members
    <3>e. /\ s.pc = "hello" /\ s.req = r.req /\ s.rung = r.rung /\ s.cli = r.cli
          /\ s.srv = "open" /\ s.taken = r.taken /\ s.sent = r.sent /\ s.heard = r.heard
          /\ s.got = r.got /\ s.relay = r.relay /\ s.verdict = r.verdict
          /\ s.uncut = r.uncut /\ s.stalled = r.stalled /\ s.soft = r.soft
          /\ s.client = r.client /\ s.server = r.server /\ s.replied = r.replied
      BY <1>t DEF ConnRecords
    <3> HIDE DEF s
    <3>g. Place(s) /\ Cut(s)
      BY <1>i, <1>y, <1>k, <1>1, <2>1, <2>2, <3>e, SMTT(60)
      DEF Members, PCs, ThreadPlaces, ConnInv, Place, Cut, Relays, Upward, Downward,
          Broken, Ended, Asking, Greeting
    <3>h. Relays(s) /\ Upward(s)
      BY <1>i, <1>y, <1>k, <1>1, <2>1, <2>2, <3>e, SMTT(60)
      DEF Members, PCs, ThreadPlaces, ConnInv, Place, Cut, Relays, Upward, Downward,
          Broken, Ended, Asking, Greeting
    <3>i. Downward(s) /\ Ended(running, s)
      BY <1>i, <1>y, <1>k, <1>1, <2>1, <2>2, <3>e, SMTT(60)
      DEF Members, PCs, ThreadPlaces, ConnInv, Place, Cut, Relays, Upward, Downward,
          Broken, Ended, Asking, Greeting
    <3>j. Quiet(r, s)
      BY <1>i, <1>y, <1>k, <1>1, <2>1, <2>2, <3>e, SMTT(60)
      DEF Members, PCs, ThreadPlaces, Quiet, Early, ConnInv, Place, Cut, Relays, Upward,
          Downward, Broken, Ended, Asking, Greeting
    <3> QED BY <1>w, <3>a, <3>b, <3>g, <3>h, <3>i, <3>j DEF ConnInv
  <2>3. CASE r.req.kind # "https"
    <3> DEFINE s == [r EXCEPT !.srv = "open", !.pc = "send", !.taken = 2]
    <3>a. Becomes(c, s)
      BY <1>r, <1>c, <1>1, <2>1, <2>3 DEF Becomes, Connect
    <3>b. s \in ConnRecords
      BY Fields, <1>t, <1>y, <1>k, <1>1, <2>1, <2>3, ZenonT(30) DEF Typed, PCs, Members
    <3>e. /\ s.pc = "send" /\ s.req = r.req /\ s.rung = r.rung /\ s.cli = r.cli
          /\ s.srv = "open" /\ s.taken = 2 /\ s.sent = r.sent /\ s.heard = r.heard
          /\ s.got = r.got /\ s.relay = r.relay /\ s.verdict = r.verdict
          /\ s.uncut = r.uncut /\ s.stalled = r.stalled /\ s.soft = r.soft
          /\ s.client = r.client /\ s.server = r.server /\ s.replied = r.replied
      BY <1>t DEF ConnRecords
    <3> HIDE DEF s
    <3>g. Place(s) /\ Cut(s)
      BY <1>i, <1>y, <1>k, <1>1, <2>1, <2>3, <3>e, SMTT(60)
      DEF Members, PCs, ThreadPlaces, ConnInv, Place, Cut, Relays, Upward, Downward,
          Broken, Ended, Asking, Greeting
    <3>h. Relays(s) /\ Upward(s)
      BY <1>i, <1>y, <1>k, <1>1, <2>1, <2>3, <3>e, SMTT(60)
      DEF Members, PCs, ThreadPlaces, ConnInv, Place, Cut, Relays, Upward, Downward,
          Broken, Ended, Asking, Greeting
    <3>i. Downward(s) /\ Ended(running, s)
      BY <1>i, <1>y, <1>k, <1>1, <2>1, <2>3, <3>e, SMTT(60)
      DEF Members, PCs, ThreadPlaces, ConnInv, Place, Cut, Relays, Upward, Downward,
          Broken, Ended, Asking, Greeting
    <3>j. Quiet(r, s)
      BY <1>i, <1>y, <1>k, <1>1, <2>1, <2>3, <3>e, SMTT(60)
      DEF Members, PCs, ThreadPlaces, Quiet, Early, ConnInv, Place, Cut, Relays, Upward,
          Downward, Broken, Ended, Asking, Greeting
    <3> QED BY <1>w, <3>a, <3>b, <3>g, <3>h, <3>i, <3>j DEF ConnInv
  <2> QED BY <2>2, <2>3
<1>2. CASE ReadHello(c)
  <2>1. r.pc = "hello"
    BY <1>r, <1>2 DEF ReadHello, At
  <2>2. PICK x, p :
            /\ x = (IF r.req.shape = "one" THEN 2 ELSE 1)
            /\ p = (IF r.req.shape = "split" THEN "more" ELSE "send")
    OBVIOUS
  <2>3. /\ x \in {1, 2} /\ p \in {"more", "send"} /\ (p = "more" => x = 1)
        /\ (p = "send" /\ x = 1 => r.req.shape \in {"plain", "tiny"})
    BY <1>y, <2>2 DEF Members
  <2> DEFINE s == [r EXCEPT !.taken = x, !.pc = p]
  <2>a. Becomes(c, s)
    BY <1>r, <1>c, <1>2, <2>1, <2>2, <2>3 DEF Becomes, ReadHello
  <2>b. s \in ConnRecords
    BY Fields, <1>t, <1>y, <1>k, <1>2, <2>1, <2>2, <2>3, ZenonT(30)
    DEF Typed, PCs, Members
  <2>e. /\ s.pc = p /\ s.req = r.req /\ s.rung = r.rung /\ s.cli = r.cli /\ s.srv = r.srv
        /\ s.taken = x /\ s.sent = r.sent /\ s.heard = r.heard /\ s.got = r.got
        /\ s.relay = r.relay /\ s.verdict = r.verdict /\ s.uncut = r.uncut
        /\ s.stalled = r.stalled /\ s.soft = r.soft /\ s.client = r.client
        /\ s.server = r.server /\ s.replied = r.replied
    BY <1>t DEF ConnRecords
  <2> HIDE DEF s
  <2>g. Place(s) /\ Cut(s)
    BY <1>i, <1>y, <1>k, <1>2, <2>1, <2>2, <2>3, <2>e, SMTT(60)
    DEF Members, PCs, ThreadPlaces, ConnInv, Place, Cut, Relays, Upward, Downward, Broken,
        Ended, Asking, Greeting
  <2>h. Relays(s) /\ Upward(s)
    BY <1>i, <1>y, <1>k, <1>2, <2>1, <2>2, <2>3, <2>e, SMTT(60)
    DEF Members, PCs, ThreadPlaces, ConnInv, Place, Cut, Relays, Upward, Downward, Broken,
        Ended, Asking, Greeting
  <2>i. Downward(s) /\ Ended(running, s)
    BY <1>i, <1>y, <1>k, <1>2, <2>1, <2>2, <2>3, <2>e, SMTT(60)
    DEF Members, PCs, ThreadPlaces, ConnInv, Place, Cut, Relays, Upward, Downward, Broken,
        Ended, Asking, Greeting
  <2>j. Quiet(r, s)
    BY <1>i, <1>y, <1>k, <1>2, <2>1, <2>2, <2>3, <2>e, SMTT(60)
    DEF Members, PCs, ThreadPlaces, Quiet, Early, ConnInv, Place, Cut, Relays, Upward,
        Downward, Broken, Ended, Asking, Greeting
  <2> QED BY <1>w, <2>a, <2>b, <2>g, <2>h, <2>i, <2>j DEF ConnInv
<1>3. CASE SendRaw(c)
  <2>1. r.pc = "send" /\ (r.req.shape \in {"plain", "tiny"} \/ r.req.host \in Excluded)
    BY <1>r, <1>3 DEF SendRaw, At, Raw, Host
  <2>2. CASE r.server = "reset"
    <3>1. PICK v \in {"none", "open", "closed"} :
              v = IF r.srv = "open" THEN "closed" ELSE r.srv
      BY <1>y DEF Members
    <3> DEFINE s == [r EXCEPT !.pc = "close", !.rung = 0, !.srv = v]
    <3>a. Becomes(c, s)
      BY <1>r, <1>c, <1>3, <2>1, <2>2, <3>1 DEF Becomes, SendRaw, Leave
    <3>b. s \in ConnRecords
      BY Fields, <1>t, <1>y, <1>k, <1>3, <2>1, <2>2, <3>1, ZenonT(30)
      DEF Typed, PCs, Members
    <3>e. /\ s.pc = "close" /\ s.req = r.req /\ s.rung = 0 /\ s.cli = r.cli /\ s.srv = v
          /\ s.taken = r.taken /\ s.sent = r.sent /\ s.heard = r.heard /\ s.got = r.got
          /\ s.relay = r.relay /\ s.verdict = r.verdict /\ s.uncut = r.uncut
          /\ s.stalled = r.stalled /\ s.soft = r.soft /\ s.client = r.client
          /\ s.server = r.server /\ s.replied = r.replied
      BY <1>t DEF ConnRecords
    <3> HIDE DEF s
    <3>g. Place(s) /\ Cut(s)
      BY <1>i, <1>y, <1>k, <1>3, <2>1, <2>2, <3>1, <3>e, SMTT(60)
      DEF Members, PCs, ThreadPlaces, ConnInv, Place, Cut, Relays, Upward, Downward,
          Broken, Ended, Asking, Greeting
    <3>h. Relays(s) /\ Upward(s)
      BY <1>i, <1>y, <1>k, <1>3, <2>1, <2>2, <3>1, <3>e, SMTT(60)
      DEF Members, PCs, ThreadPlaces, ConnInv, Place, Cut, Relays, Upward, Downward,
          Broken, Ended, Asking, Greeting
    <3>i. Downward(s) /\ Ended(running, s)
      BY <1>i, <1>y, <1>k, <1>3, <2>1, <2>2, <3>1, <3>e, SMTT(60)
      DEF Members, PCs, ThreadPlaces, ConnInv, Place, Cut, Relays, Upward, Downward,
          Broken, Ended, Asking, Greeting
    <3>j. Quiet(r, s)
      BY <1>i, <1>y, <1>k, <1>3, <2>1, <2>2, <3>1, <3>e, SMTT(60)
      DEF Members, PCs, ThreadPlaces, Quiet, Early, ConnInv, Place, Cut, Relays, Upward,
          Downward, Broken, Ended, Asking, Greeting
    <3> QED BY <1>w, <3>a, <3>b, <3>g, <3>h, <3>i, <3>j DEF ConnInv
  <2>3. CASE r.server # "reset"
    <3>1. PICK q : q = InHand(c)
      OBVIOUS
    <3>2. q \in Seq(1 .. MaxUp) /\ Len(q) = r.taken /\ Numbered(q)
      <4>1. r.taken \in 0 .. MaxUp
        BY <1>y DEF Members
      <4>2. q = [i \in 1 .. r.taken |-> i]
        BY <1>r, <3>1 DEF InHand
      <4> QED BY <1>k, <4>1, <4>2, FirstBytes
    <3> DEFINE s == [r EXCEPT !.sent = q, !.uncut = TRUE, !.pc = "pipe"]
    <3>a. Becomes(c, s)
      BY <1>r, <1>c, <1>3, <2>1, <2>3, <3>1, <3>2 DEF Becomes, SendRaw
    <3>b. s \in ConnRecords
      BY Fields, <1>t, <1>y, <1>k, <1>3, <2>1, <2>3, <3>1, <3>2, ZenonT(30)
      DEF Typed, PCs, Members
    <3>e. /\ s.pc = "pipe" /\ s.req = r.req /\ s.rung = r.rung /\ s.cli = r.cli
          /\ s.srv = r.srv /\ s.taken = r.taken /\ s.sent = q /\ s.heard = r.heard
          /\ s.got = r.got /\ s.relay = r.relay /\ s.verdict = r.verdict /\ s.uncut = TRUE
          /\ s.stalled = r.stalled /\ s.soft = r.soft /\ s.client = r.client
          /\ s.server = r.server /\ s.replied = r.replied
      BY <1>t DEF ConnRecords
    <3> HIDE DEF s
    <3>g. Place(s) /\ Cut(s)
      BY <1>i, <1>y, <1>k, <1>3, <2>1, <2>3, <3>1, <3>2, <3>e, SMTT(60)
      DEF Members, PCs, ThreadPlaces, ConnInv, Place, Cut, Relays, Upward, Downward,
          Broken, Ended, Asking, Greeting
    <3>h. Relays(s) /\ Upward(s)
      BY <1>i, <1>y, <1>k, <1>3, <2>1, <2>3, <3>1, <3>2, <3>e, SMTT(60)
      DEF Members, PCs, ThreadPlaces, ConnInv, Place, Cut, Relays, Upward, Downward,
          Broken, Ended, Asking, Greeting
    <3>i. Downward(s) /\ Ended(running, s)
      BY <1>i, <1>y, <1>k, <1>3, <2>1, <2>3, <3>1, <3>2, <3>e, SMTT(60)
      DEF Members, PCs, ThreadPlaces, ConnInv, Place, Cut, Relays, Upward, Downward,
          Broken, Ended, Asking, Greeting
    <3>j. Quiet(r, s)
      BY <1>i, <1>y, <1>k, <1>3, <2>1, <2>3, <3>1, <3>2, <3>e, SMTT(60)
      DEF Members, PCs, ThreadPlaces, Quiet, Early, ConnInv, Place, Cut, Relays, Upward,
          Downward, Broken, Ended, Asking, Greeting
    <3> QED BY <1>w, <3>a, <3>b, <3>g, <3>h, <3>i, <3>j DEF ConnInv
  <2> QED BY <2>2, <2>3
<1>4. CASE SendRecord(c)
  <2>1. r.pc = "send" /\ r.req.kind = "https"
    BY <1>r, <1>4 DEF SendRecord, At
  <2>2. CASE r.server = "reset"
    <3> DEFINE s == [r EXCEPT !.pc = "pipe"]
    <3>a. Becomes(c, s)
      BY <1>r, <1>c, <1>4, <2>1, <2>2 DEF Becomes, SendRecord, Goto
    <3>b. s \in ConnRecords
      BY Fields, <1>t, <1>y, <1>k, <1>4, <2>1, <2>2, ZenonT(30) DEF Typed, PCs, Members
    <3>e. /\ s.pc = "pipe" /\ s.req = r.req /\ s.rung = r.rung /\ s.cli = r.cli
          /\ s.srv = r.srv /\ s.taken = r.taken /\ s.sent = r.sent /\ s.heard = r.heard
          /\ s.got = r.got /\ s.relay = r.relay /\ s.verdict = r.verdict
          /\ s.uncut = r.uncut /\ s.stalled = r.stalled /\ s.soft = r.soft
          /\ s.client = r.client /\ s.server = r.server /\ s.replied = r.replied
      BY <1>t DEF ConnRecords
    <3> HIDE DEF s
    <3>g. Place(s) /\ Cut(s)
      BY <1>i, <1>y, <1>k, <1>4, <2>1, <2>2, <3>e, SMTT(60)
      DEF Members, PCs, ThreadPlaces, ConnInv, Place, Cut, Relays, Upward, Downward,
          Broken, Ended, Asking, Greeting
    <3>h. Relays(s) /\ Upward(s)
      BY <1>i, <1>y, <1>k, <1>4, <2>1, <2>2, <3>e, SMTT(60)
      DEF Members, PCs, ThreadPlaces, ConnInv, Place, Cut, Relays, Upward, Downward,
          Broken, Ended, Asking, Greeting
    <3>i. Downward(s) /\ Ended(running, s)
      BY <1>i, <1>y, <1>k, <1>4, <2>1, <2>2, <3>e, SMTT(60)
      DEF Members, PCs, ThreadPlaces, ConnInv, Place, Cut, Relays, Upward, Downward,
          Broken, Ended, Asking, Greeting
    <3>j. Quiet(r, s)
      BY <1>i, <1>y, <1>k, <1>4, <2>1, <2>2, <3>e, SMTT(60)
      DEF Members, PCs, ThreadPlaces, Quiet, Early, ConnInv, Place, Cut, Relays, Upward,
          Downward, Broken, Ended, Asking, Greeting
    <3> QED BY <1>w, <3>a, <3>b, <3>g, <3>h, <3>i, <3>j DEF ConnInv
  <2>3. CASE r.server # "reset"
    <3>1. /\ r.taken \in 1 .. 2 /\ Len(r.sent) < r.taken /\ Len(r.sent) + 1 \in 1 .. MaxUp
          /\ ~r.soft
      BY <1>i, <1>y, <1>k, <2>1 DEF ConnInv, Place, Asking, Members
    <3>2. PICK q, p :
              /\ q = Append(r.sent, Len(r.sent) + 1)
              /\ p = (IF Len(r.sent) + 1 = r.taken THEN "pipe" ELSE "send")
      OBVIOUS
    <3>3. /\ q \in Seq(1 .. MaxUp) /\ Len(q) = Len(r.sent) + 1
          /\ (Numbered(r.sent) => Numbered(q))
          /\ p \in {"pipe", "send"} /\ (p = "pipe" <=> Len(r.sent) + 1 = r.taken)
      BY <1>y, <3>1, <3>2, SentOn DEF Members
    <3>4. PICK u \in BOOLEAN : u = (r.taken = 1)
      OBVIOUS
    <3> DEFINE s == [r EXCEPT !.sent = q, !.uncut = u, !.pc = p]
    <3>a. Becomes(c, s)
      BY <1>r, <1>c, <1>4, <2>1, <2>3, <3>1, <3>2, <3>3, <3>4 DEF Becomes, SendRecord
    <3>b. s \in ConnRecords
      BY Fields, <1>t, <1>y, <1>k, <1>4, <2>1, <2>3, <3>1, <3>2, <3>3, <3>4, ZenonT(30)
      DEF Typed, PCs, Members
    <3>e. /\ s.pc = p /\ s.req = r.req /\ s.rung = r.rung /\ s.cli = r.cli
          /\ s.srv = r.srv /\ s.taken = r.taken /\ s.sent = q /\ s.heard = r.heard
          /\ s.got = r.got /\ s.relay = r.relay /\ s.verdict = r.verdict /\ s.uncut = u
          /\ s.stalled = r.stalled /\ s.soft = r.soft /\ s.client = r.client
          /\ s.server = r.server /\ s.replied = r.replied
      BY <1>t DEF ConnRecords
    <3> HIDE DEF s
    <3>g. Place(s) /\ Cut(s)
      BY <1>i, <1>y, <1>k, <1>4, <2>1, <2>3, <3>1, <3>2, <3>3, <3>4, <3>e, SMTT(60)
      DEF Members, PCs, ThreadPlaces, ConnInv, Place, Cut, Relays, Upward, Downward,
          Broken, Ended, Asking, Greeting
    <3>h. Relays(s) /\ Upward(s)
      BY <1>i, <1>y, <1>k, <1>4, <2>1, <2>3, <3>1, <3>2, <3>3, <3>4, <3>e, SMTT(60)
      DEF Members, PCs, ThreadPlaces, ConnInv, Place, Cut, Relays, Upward, Downward,
          Broken, Ended, Asking, Greeting
    <3>i. Downward(s) /\ Ended(running, s)
      BY <1>i, <1>y, <1>k, <1>4, <2>1, <2>3, <3>1, <3>2, <3>3, <3>4, <3>e, SMTT(60)
      DEF Members, PCs, ThreadPlaces, ConnInv, Place, Cut, Relays, Upward, Downward,
          Broken, Ended, Asking, Greeting
    <3>j. Quiet(r, s)
      BY <1>i, <1>y, <1>k, <1>4, <2>1, <2>3, <3>1, <3>2, <3>3, <3>4, <3>e, SMTT(60)
      DEF Members, PCs, ThreadPlaces, Quiet, Early, ConnInv, Place, Cut, Relays, Upward,
          Downward, Broken, Ended, Asking, Greeting
    <3> QED BY <1>w, <3>a, <3>b, <3>g, <3>h, <3>i, <3>j DEF ConnInv
  <2> QED BY <2>2, <2>3
<1>5. CASE SendFallback(c)
  <2>1. r.pc = "send"
    BY <1>r, <1>5 DEF SendFallback, At
  <2>2. PICK ok \in BOOLEAN :
            conn' = [conn EXCEPT ![c].sent = IF ok THEN @ \o InHand(c) ELSE @,
                               ![c].uncut = @ \/ ok, ![c].soft = TRUE, ![c].pc = "pipe"]
    BY <1>5 DEF SendFallback
  <2>3. PICK q, u :
            /\ q = (IF ok THEN r.sent \o InHand(c) ELSE r.sent) /\ u = (r.uncut \/ ok)
    OBVIOUS
  <2>4. q \in Seq(1 .. MaxUp) /\ Len(q) \in Nat /\ u \in BOOLEAN
    <3>1. r.taken \in 0 .. MaxUp /\ r.sent \in Seq(1 .. MaxUp)
      BY <1>y DEF Members
    <3>2. InHand(c) \in Seq(1 .. MaxUp)
      BY <1>r, <1>k, <3>1, FirstBytes DEF InHand
    <3>3. r.sent \o InHand(c) \in Seq(1 .. MaxUp)
      BY <3>1, <3>2, ConcatProperties
    <3>4. q \in Seq(1 .. MaxUp)
      BY <2>3, <3>1, <3>3
    <3>5. u \in BOOLEAN
      BY <2>3
    <3> QED BY <3>4, <3>5, LenProperties
  <2> DEFINE s == [r EXCEPT !.sent = q, !.uncut = u, !.soft = TRUE, !.pc = "pipe"]
  <2>a. Becomes(c, s)
    BY <1>r, <1>c, <2>1, <2>2, <2>3, <2>4 DEF Becomes, At
  <2>b. s \in ConnRecords
    BY Fields, <1>t, <1>y, <1>k, <2>1, <2>2, <2>3, <2>4, ZenonT(30)
    DEF Typed, PCs, Members
  <2>e. /\ s.pc = "pipe" /\ s.req = r.req /\ s.rung = r.rung /\ s.cli = r.cli
        /\ s.srv = r.srv /\ s.taken = r.taken /\ s.sent = q /\ s.heard = r.heard
        /\ s.got = r.got /\ s.relay = r.relay /\ s.verdict = r.verdict /\ s.uncut = u
        /\ s.stalled = r.stalled /\ s.soft = TRUE /\ s.client = r.client
        /\ s.server = r.server /\ s.replied = r.replied
    BY <1>t DEF ConnRecords
  <2> HIDE DEF s
  <2>g. Place(s) /\ Cut(s)
    BY <1>i, <1>y, <1>k, <2>1, <2>2, <2>3, <2>4, <2>e, SMTT(60)
    DEF Members, PCs, ThreadPlaces, ConnInv, Place, Cut, Relays, Upward, Downward, Broken,
        Ended, Asking, Greeting
  <2>h. Relays(s) /\ Upward(s)
    BY <1>i, <1>y, <1>k, <2>1, <2>2, <2>3, <2>4, <2>e, SMTT(60)
    DEF Members, PCs, ThreadPlaces, ConnInv, Place, Cut, Relays, Upward, Downward, Broken,
        Ended, Asking, Greeting
  <2>i. Downward(s) /\ Ended(running, s)
    BY <1>i, <1>y, <1>k, <2>1, <2>2, <2>3, <2>4, <2>e, SMTT(60)
    DEF Members, PCs, ThreadPlaces, ConnInv, Place, Cut, Relays, Upward, Downward, Broken,
        Ended, Asking, Greeting
  <2>j. Quiet(r, s)
    BY <1>i, <1>y, <1>k, <2>1, <2>2, <2>3, <2>4, <2>e, SMTT(60)
    DEF Members, PCs, ThreadPlaces, Quiet, Early, ConnInv, Place, Cut, Relays, Upward,
        Downward, Broken, Ended, Asking, Greeting
  <2> QED BY <1>w, <2>a, <2>b, <2>g, <2>h, <2>i, <2>j DEF ConnInv
<1>6. CASE SendPiece(c)
  <2>1. r.pc = "send" /\ r.req.kind = "http"
    BY <1>r, <1>6 DEF SendPiece, At
  <2>2. CASE r.server = "reset"
    <3>1. PICK v \in {"none", "open", "closed"} :
              v = IF r.srv = "open" THEN "closed" ELSE r.srv
      BY <1>y DEF Members
    <3> DEFINE s == [r EXCEPT !.pc = "close", !.rung = 0, !.srv = v]
    <3>a. Becomes(c, s)
      BY <1>r, <1>c, <1>6, <2>1, <2>2, <3>1 DEF Becomes, SendPiece, Leave
    <3>b. s \in ConnRecords
      BY Fields, <1>t, <1>y, <1>k, <1>6, <2>1, <2>2, <3>1, ZenonT(30)
      DEF Typed, PCs, Members
    <3>e. /\ s.pc = "close" /\ s.req = r.req /\ s.rung = 0 /\ s.cli = r.cli /\ s.srv = v
          /\ s.taken = r.taken /\ s.sent = r.sent /\ s.heard = r.heard /\ s.got = r.got
          /\ s.relay = r.relay /\ s.verdict = r.verdict /\ s.uncut = r.uncut
          /\ s.stalled = r.stalled /\ s.soft = r.soft /\ s.client = r.client
          /\ s.server = r.server /\ s.replied = r.replied
      BY <1>t DEF ConnRecords
    <3> HIDE DEF s
    <3>g. Place(s) /\ Cut(s)
      BY <1>i, <1>y, <1>k, <1>6, <2>1, <2>2, <3>1, <3>e, SMTT(60)
      DEF Members, PCs, ThreadPlaces, ConnInv, Place, Cut, Relays, Upward, Downward,
          Broken, Ended, Asking, Greeting
    <3>h. Relays(s) /\ Upward(s)
      BY <1>i, <1>y, <1>k, <1>6, <2>1, <2>2, <3>1, <3>e, SMTT(60)
      DEF Members, PCs, ThreadPlaces, ConnInv, Place, Cut, Relays, Upward, Downward,
          Broken, Ended, Asking, Greeting
    <3>i. Downward(s) /\ Ended(running, s)
      BY <1>i, <1>y, <1>k, <1>6, <2>1, <2>2, <3>1, <3>e, SMTT(60)
      DEF Members, PCs, ThreadPlaces, ConnInv, Place, Cut, Relays, Upward, Downward,
          Broken, Ended, Asking, Greeting
    <3>j. Quiet(r, s)
      BY <1>i, <1>y, <1>k, <1>6, <2>1, <2>2, <3>1, <3>e, SMTT(60)
      DEF Members, PCs, ThreadPlaces, Quiet, Early, ConnInv, Place, Cut, Relays, Upward,
          Downward, Broken, Ended, Asking, Greeting
    <3> QED BY <1>w, <3>a, <3>b, <3>g, <3>h, <3>i, <3>j DEF ConnInv
  <2>3. CASE r.server # "reset"
    <3>1. /\ r.taken \in 1 .. 2 /\ Len(r.sent) < r.taken /\ Len(r.sent) + 1 \in 1 .. MaxUp
          /\ ~r.soft
      BY <1>i, <1>y, <1>k, <2>1 DEF ConnInv, Place, Asking, Members
    <3>2. PICK q, p :
              /\ q = Append(r.sent, Len(r.sent) + 1)
              /\ p = (IF Len(r.sent) + 1 = r.taken THEN "pipe" ELSE "send")
      OBVIOUS
    <3>3. /\ q \in Seq(1 .. MaxUp) /\ Len(q) = Len(r.sent) + 1
          /\ (Numbered(r.sent) => Numbered(q))
          /\ p \in {"pipe", "send"} /\ (p = "pipe" <=> Len(r.sent) + 1 = r.taken)
      BY <1>y, <3>1, <3>2, SentOn DEF Members
    <3> DEFINE s == [r EXCEPT !.sent = q, !.pc = p]
    <3>a. Becomes(c, s)
      BY <1>r, <1>c, <1>6, <2>1, <2>3, <3>1, <3>2, <3>3 DEF Becomes, SendPiece
    <3>b. s \in ConnRecords
      BY Fields, <1>t, <1>y, <1>k, <1>6, <2>1, <2>3, <3>1, <3>2, <3>3, ZenonT(30)
      DEF Typed, PCs, Members
    <3>e. /\ s.pc = p /\ s.req = r.req /\ s.rung = r.rung /\ s.cli = r.cli
          /\ s.srv = r.srv /\ s.taken = r.taken /\ s.sent = q /\ s.heard = r.heard
          /\ s.got = r.got /\ s.relay = r.relay /\ s.verdict = r.verdict
          /\ s.uncut = r.uncut /\ s.stalled = r.stalled /\ s.soft = r.soft
          /\ s.client = r.client /\ s.server = r.server /\ s.replied = r.replied
      BY <1>t DEF ConnRecords
    <3> HIDE DEF s
    <3>g. Place(s) /\ Cut(s)
      BY <1>i, <1>y, <1>k, <1>6, <2>1, <2>3, <3>1, <3>2, <3>3, <3>e, SMTT(60)
      DEF Members, PCs, ThreadPlaces, ConnInv, Place, Cut, Relays, Upward, Downward,
          Broken, Ended, Asking, Greeting
    <3>h. Relays(s) /\ Upward(s)
      BY <1>i, <1>y, <1>k, <1>6, <2>1, <2>3, <3>1, <3>2, <3>3, <3>e, SMTT(60)
      DEF Members, PCs, ThreadPlaces, ConnInv, Place, Cut, Relays, Upward, Downward,
          Broken, Ended, Asking, Greeting
    <3>i. Downward(s) /\ Ended(running, s)
      BY <1>i, <1>y, <1>k, <1>6, <2>1, <2>3, <3>1, <3>2, <3>3, <3>e, SMTT(60)
      DEF Members, PCs, ThreadPlaces, ConnInv, Place, Cut, Relays, Upward, Downward,
          Broken, Ended, Asking, Greeting
    <3>j. Quiet(r, s)
      BY <1>i, <1>y, <1>k, <1>6, <2>1, <2>3, <3>1, <3>2, <3>3, <3>e, SMTT(60)
      DEF Members, PCs, ThreadPlaces, Quiet, Early, ConnInv, Place, Cut, Relays, Upward,
          Downward, Broken, Ended, Asking, Greeting
    <3> QED BY <1>w, <3>a, <3>b, <3>g, <3>h, <3>i, <3>j DEF ConnInv
  <2> QED BY <2>2, <2>3
<1> QED BY <1>1, <1>2, <1>3, <1>4, <1>5, <1>6

\* Why a relay thread may leave its loop.
Reason(r, t) ==
    \/ ~running \/ r.server = "reset" \/ r.cli # "open" \/ r.srv # "open"
    \/ t = "up" /\ r.client # "open"
    \/ t = "down" /\ r.client = "gone"
    \/ t = "down" /\ r.relay[t] = "recv" /\ r.server = "fin" /\ r.heard = r.replied

\* The finally clause of _relay, whatever the reason: a stop, a socket closed by
\* the other thread, a reset, or the end of a stream.
LEMMA LeavesKeeps ==
  ASSUME TypeOK, NEW c \in Conns, ConnInv(running, conn[c]), NEW t \in Threads,
         conn[c].relay[t] \notin {"off", "done"}, RelayLeaves(c, t),
         Reason(conn[c], t)
  PROVE  Keeps(c)
<1>r. PICK r : r = conn[c]
  OBVIOUS
<1>t. r \in ConnRecords
  BY <1>r DEF TypeOK
<1>i. ConnInv(running, r)
  BY <1>r
<1>c. conn \in [Conns -> ConnRecords]
  BY DEF TypeOK
<1>y. Members(r)
  BY <1>t, MembersOf
<1>k. /\ TRUE \in BOOLEAN /\ FALSE \in BOOLEAN /\ running \in BOOLEAN
      /\ Endpoints \in Nat \ {0} /\ MaxUp \in Nat \ {0, 1} /\ MaxDown \in Nat \ {0}
      /\ 0 \in 0 .. 2 * Endpoints - 1 /\ 0 \in 0 .. MaxUp /\ 1 \in 0 .. MaxUp
      /\ 2 \in 0 .. MaxUp
  BY BoundAssumption DEF TypeOK
<1>w. ASSUME NEW s \in ConnRecords, Becomes(c, s), ConnInv(running, s), Quiet(r, s)
      PROVE  Keeps(c)
  BY <1>r, <1>w DEF Keeps
<1>j. r.relay[t] \notin {"off", "done"} /\ Reason(r, t)
  BY <1>r
<1>l. /\ r.relay[t] \notin {"off", "done"}
      /\ \/ ~running \/ r.server = "reset" \/ r.cli # "open" \/ r.srv # "open"
         \/ t = "up" /\ r.client # "open"
         \/ t = "down" /\ r.client = "gone"
         \/ t = "down" /\ r.relay[t] = "recv" /\ r.server = "fin" /\ r.heard = r.replied
  BY <1>j DEF Reason
<1>1. CASE t = "up"
  <2>0. PICK f : f = [r.relay EXCEPT !["up"] = "done"]
    OBVIOUS
  <2>9. f \in [Threads -> ThreadPlaces] /\ f["up"] = "done" /\ f["down"] = r.relay["down"]
    BY <1>y, <2>0 DEF Members, Threads, ThreadPlaces
  <2> DEFINE s == [r EXCEPT !.relay = f, !.cli = "closed", !.srv = "closed"]
  <2>a. Becomes(c, s)
    BY <1>r, <1>c, <1>1, <1>l, <2>0, <2>9 DEF Becomes, RelayLeaves
  <2>b. s \in ConnRecords
    BY Fields, <1>t, <1>y, <1>k, <1>1, <1>l, <2>0, <2>9, ZenonT(30)
    DEF Typed, PCs, Members
  <2>e. /\ s.pc = r.pc /\ s.req = r.req /\ s.rung = r.rung /\ s.cli = "closed"
        /\ s.srv = "closed" /\ s.taken = r.taken /\ s.sent = r.sent /\ s.heard = r.heard
        /\ s.got = r.got /\ s.relay = f /\ s.verdict = r.verdict /\ s.uncut = r.uncut
        /\ s.stalled = r.stalled /\ s.soft = r.soft /\ s.client = r.client
        /\ s.server = r.server /\ s.replied = r.replied
    BY <1>t DEF ConnRecords
  <2> HIDE DEF s
  <2>g. Place(s) /\ Cut(s)
    BY <1>i, <1>y, <1>k, <1>1, <1>l, <2>0, <2>9, <2>e, SMTT(60)
    DEF Members, PCs, ThreadPlaces, ConnInv, Place, Cut, Relays, Upward, Downward, Broken,
        Ended, Asking, Greeting
  <2>h. Relays(s) /\ Upward(s)
    BY <1>i, <1>y, <1>k, <1>1, <1>l, <2>0, <2>9, <2>e, SMTT(60)
    DEF Members, PCs, ThreadPlaces, ConnInv, Place, Cut, Relays, Upward, Downward, Broken,
        Ended, Asking, Greeting
  <2>i. Downward(s) /\ Ended(running, s)
    BY <1>i, <1>y, <1>k, <1>1, <1>l, <2>0, <2>9, <2>e, SMTT(60)
    DEF Members, PCs, ThreadPlaces, ConnInv, Place, Cut, Relays, Upward, Downward, Broken,
        Ended, Asking, Greeting
  <2>j. Quiet(r, s)
    BY <1>i, <1>y, <1>k, <1>1, <1>l, <2>0, <2>9, <2>e, SMTT(60)
    DEF Members, PCs, ThreadPlaces, Quiet, Early, ConnInv, Place, Cut, Relays, Upward,
        Downward, Broken, Ended, Asking, Greeting
  <2> QED BY <1>w, <2>a, <2>b, <2>g, <2>h, <2>i, <2>j DEF ConnInv
<1>2. CASE t = "down"
  <2>0. PICK f : f = [r.relay EXCEPT !["down"] = "done"]
    OBVIOUS
  <2>9. f \in [Threads -> ThreadPlaces] /\ f["down"] = "done" /\ f["up"] = r.relay["up"]
    BY <1>y, <2>0 DEF Members, Threads, ThreadPlaces
  <2> DEFINE s == [r EXCEPT !.relay = f, !.cli = "closed", !.srv = "closed"]
  <2>a. Becomes(c, s)
    BY <1>r, <1>c, <1>2, <1>l, <2>0, <2>9 DEF Becomes, RelayLeaves
  <2>b. s \in ConnRecords
    BY Fields, <1>t, <1>y, <1>k, <1>2, <1>l, <2>0, <2>9, ZenonT(30)
    DEF Typed, PCs, Members
  <2>e. /\ s.pc = r.pc /\ s.req = r.req /\ s.rung = r.rung /\ s.cli = "closed"
        /\ s.srv = "closed" /\ s.taken = r.taken /\ s.sent = r.sent /\ s.heard = r.heard
        /\ s.got = r.got /\ s.relay = f /\ s.verdict = r.verdict /\ s.uncut = r.uncut
        /\ s.stalled = r.stalled /\ s.soft = r.soft /\ s.client = r.client
        /\ s.server = r.server /\ s.replied = r.replied
    BY <1>t DEF ConnRecords
  <2> HIDE DEF s
  <2>g. Place(s) /\ Cut(s)
    BY <1>i, <1>y, <1>k, <1>2, <1>l, <2>0, <2>9, <2>e, SMTT(60)
    DEF Members, PCs, ThreadPlaces, ConnInv, Place, Cut, Relays, Upward, Downward, Broken,
        Ended, Asking, Greeting
  <2>h. Relays(s) /\ Upward(s)
    BY <1>i, <1>y, <1>k, <1>2, <1>l, <2>0, <2>9, <2>e, SMTT(60)
    DEF Members, PCs, ThreadPlaces, ConnInv, Place, Cut, Relays, Upward, Downward, Broken,
        Ended, Asking, Greeting
  <2>i. Downward(s) /\ Ended(running, s)
    BY <1>i, <1>y, <1>k, <1>2, <1>l, <2>0, <2>9, <2>e, SMTT(60)
    DEF Members, PCs, ThreadPlaces, ConnInv, Place, Cut, Relays, Upward, Downward, Broken,
        Ended, Asking, Greeting
  <2>j. Quiet(r, s)
    BY <1>i, <1>y, <1>k, <1>2, <1>l, <2>0, <2>9, <2>e, SMTT(60)
    DEF Members, PCs, ThreadPlaces, Quiet, Early, ConnInv, Place, Cut, Relays, Upward,
        Downward, Broken, Ended, Asking, Greeting
  <2> QED BY <1>w, <2>a, <2>b, <2>g, <2>h, <2>i, <2>j DEF ConnInv
<1> QED BY <1>1, <1>2 DEF Threads

\* A step of a relay thread, of either direction.
LEMMA RelayKeeps ==
  ASSUME TypeOK, NEW c \in Conns, ConnInv(running, conn[c]), NEW t \in Threads,
         RelaySteps(c, t) \/ RelayWoken(c, t)
  PROVE  Keeps(c)
<1>r. PICK r : r = conn[c]
  OBVIOUS
<1>t. r \in ConnRecords
  BY <1>r DEF TypeOK
<1>i. ConnInv(running, r)
  BY <1>r
<1>c. conn \in [Conns -> ConnRecords]
  BY DEF TypeOK
<1>y. Members(r)
  BY <1>t, MembersOf
<1>k. /\ TRUE \in BOOLEAN /\ FALSE \in BOOLEAN /\ running \in BOOLEAN
      /\ Endpoints \in Nat \ {0} /\ MaxUp \in Nat \ {0, 1} /\ MaxDown \in Nat \ {0}
      /\ 0 \in 0 .. 2 * Endpoints - 1 /\ 0 \in 0 .. MaxUp /\ 1 \in 0 .. MaxUp
      /\ 2 \in 0 .. MaxUp
  BY BoundAssumption DEF TypeOK
<1>w. ASSUME NEW s \in ConnRecords, Becomes(c, s), ConnInv(running, s), Quiet(r, s)
      PROVE  Keeps(c)
  BY <1>r, <1>w DEF Keeps
<1>z. t \in {"up", "down"}
  BY DEF Threads
<1>l. ASSUME r.relay[t] \notin {"off", "done"}, RelayLeaves(c, t), Reason(r, t)
      PROVE  Keeps(c)
  BY <1>r, <1>l, LeavesKeeps
<1>1. CASE RelayChecks(c, t)
  <2>1. r.relay[t] = "check"
    BY <1>r, <1>1 DEF RelayChecks
  <2>2. CASE running /\ SrcOpen(c, t)
    <3>1. CASE t = "up"
      <4>0. PICK f : f = [r.relay EXCEPT !["up"] = "recv"]
        OBVIOUS
      <4>9. /\ f \in [Threads -> ThreadPlaces] /\ f["up"] = "recv"
            /\ f["down"] = r.relay["down"]
        BY <1>y, <4>0 DEF Members, Threads, ThreadPlaces
      <4> DEFINE s == [r EXCEPT !.relay = f]
      <4>a. Becomes(c, s)
        BY <1>r, <1>c, <1>1, <2>1, <2>2, <3>1, <4>0, <4>9 DEF Becomes, RelayChecks
      <4>b. s \in ConnRecords
        BY Fields, <1>t, <1>y, <1>k, <1>1, <2>1, <2>2, <3>1, <4>0, <4>9, ZenonT(30)
        DEF Typed, PCs, Members
      <4>e. /\ s.pc = r.pc /\ s.req = r.req /\ s.rung = r.rung /\ s.cli = r.cli
            /\ s.srv = r.srv /\ s.taken = r.taken /\ s.sent = r.sent /\ s.heard = r.heard
            /\ s.got = r.got /\ s.relay = f /\ s.verdict = r.verdict /\ s.uncut = r.uncut
            /\ s.stalled = r.stalled /\ s.soft = r.soft /\ s.client = r.client
            /\ s.server = r.server /\ s.replied = r.replied
        BY <1>t DEF ConnRecords
      <4> HIDE DEF s
      <4>g. Place(s) /\ Cut(s)
        BY <1>i, <1>y, <1>k, <1>1, <2>1, <2>2, <3>1, <4>0, <4>9, <4>e, SMTT(60)
        DEF Members, PCs, ThreadPlaces, ConnInv, Place, Cut, Relays, Upward, Downward,
            Broken, Ended, Asking, Greeting
      <4>h. Relays(s) /\ Upward(s)
        BY <1>i, <1>y, <1>k, <1>1, <2>1, <2>2, <3>1, <4>0, <4>9, <4>e, SMTT(60)
        DEF Members, PCs, ThreadPlaces, ConnInv, Place, Cut, Relays, Upward, Downward,
            Broken, Ended, Asking, Greeting
      <4>i. Downward(s) /\ Ended(running, s)
        BY <1>i, <1>y, <1>k, <1>1, <2>1, <2>2, <3>1, <4>0, <4>9, <4>e, SMTT(60)
        DEF Members, PCs, ThreadPlaces, ConnInv, Place, Cut, Relays, Upward, Downward,
            Broken, Ended, Asking, Greeting
      <4>j. Quiet(r, s)
        BY <1>i, <1>y, <1>k, <1>1, <2>1, <2>2, <3>1, <4>0, <4>9, <4>e, SMTT(60)
        DEF Members, PCs, ThreadPlaces, Quiet, Early, ConnInv, Place, Cut, Relays, Upward,
            Downward, Broken, Ended, Asking, Greeting
      <4> QED BY <1>w, <4>a, <4>b, <4>g, <4>h, <4>i, <4>j DEF ConnInv
    <3>2. CASE t = "down"
      <4>0. PICK f : f = [r.relay EXCEPT !["down"] = "recv"]
        OBVIOUS
      <4>9. /\ f \in [Threads -> ThreadPlaces] /\ f["down"] = "recv"
            /\ f["up"] = r.relay["up"]
        BY <1>y, <4>0 DEF Members, Threads, ThreadPlaces
      <4> DEFINE s == [r EXCEPT !.relay = f]
      <4>a. Becomes(c, s)
        BY <1>r, <1>c, <1>1, <2>1, <2>2, <3>2, <4>0, <4>9 DEF Becomes, RelayChecks
      <4>b. s \in ConnRecords
        BY Fields, <1>t, <1>y, <1>k, <1>1, <2>1, <2>2, <3>2, <4>0, <4>9, ZenonT(30)
        DEF Typed, PCs, Members
      <4>e. /\ s.pc = r.pc /\ s.req = r.req /\ s.rung = r.rung /\ s.cli = r.cli
            /\ s.srv = r.srv /\ s.taken = r.taken /\ s.sent = r.sent /\ s.heard = r.heard
            /\ s.got = r.got /\ s.relay = f /\ s.verdict = r.verdict /\ s.uncut = r.uncut
            /\ s.stalled = r.stalled /\ s.soft = r.soft /\ s.client = r.client
            /\ s.server = r.server /\ s.replied = r.replied
        BY <1>t DEF ConnRecords
      <4> HIDE DEF s
      <4>g. Place(s) /\ Cut(s)
        BY <1>i, <1>y, <1>k, <1>1, <2>1, <2>2, <3>2, <4>0, <4>9, <4>e, SMTT(60)
        DEF Members, PCs, ThreadPlaces, ConnInv, Place, Cut, Relays, Upward, Downward,
            Broken, Ended, Asking, Greeting
      <4>h. Relays(s) /\ Upward(s)
        BY <1>i, <1>y, <1>k, <1>1, <2>1, <2>2, <3>2, <4>0, <4>9, <4>e, SMTT(60)
        DEF Members, PCs, ThreadPlaces, ConnInv, Place, Cut, Relays, Upward, Downward,
            Broken, Ended, Asking, Greeting
      <4>i. Downward(s) /\ Ended(running, s)
        BY <1>i, <1>y, <1>k, <1>1, <2>1, <2>2, <3>2, <4>0, <4>9, <4>e, SMTT(60)
        DEF Members, PCs, ThreadPlaces, ConnInv, Place, Cut, Relays, Upward, Downward,
            Broken, Ended, Asking, Greeting
      <4>j. Quiet(r, s)
        BY <1>i, <1>y, <1>k, <1>1, <2>1, <2>2, <3>2, <4>0, <4>9, <4>e, SMTT(60)
        DEF Members, PCs, ThreadPlaces, Quiet, Early, ConnInv, Place, Cut, Relays, Upward,
            Downward, Broken, Ended, Asking, Greeting
      <4> QED BY <1>w, <4>a, <4>b, <4>g, <4>h, <4>i, <4>j DEF ConnInv
    <3> QED BY <1>z, <3>1, <3>2
  <2>3. CASE ~(running /\ SrcOpen(c, t))
    <3>1. RelayLeaves(c, t) /\ (~running \/ r.cli # "open" \/ r.srv # "open")
      BY <1>r, <1>1, <2>3 DEF RelayChecks, SrcOpen
    <3> QED BY <1>l, <2>1, <3>1 DEF Reason
  <2> QED BY <2>2, <2>3
<1>2. CASE RelayReads(c, t)
  <2>1. CASE t = "up"
    <3>1. r.relay["up"] = "recv" /\ r.taken < MaxUp /\ r.taken + 1 \in 0 .. MaxUp
      BY <1>r, <1>y, <1>k, <1>2, <2>1 DEF RelayReads, Members
    <3>0. PICK f : f = [r.relay EXCEPT !["up"] = "send"]
      OBVIOUS
    <3>9. /\ f \in [Threads -> ThreadPlaces] /\ f["up"] = "send"
          /\ f["down"] = r.relay["down"]
      BY <1>y, <3>0 DEF Members, Threads, ThreadPlaces
    <3> DEFINE s == [r EXCEPT !.relay = f, !.taken = r.taken + 1]
    <3>a. Becomes(c, s)
      BY <1>r, <1>c, <1>2, <2>1, <3>1, <3>0, <3>9 DEF Becomes, RelayReads
    <3>b. s \in ConnRecords
      BY Fields, <1>t, <1>y, <1>k, <1>2, <2>1, <3>1, <3>0, <3>9, ZenonT(30)
      DEF Typed, PCs, Members
    <3>e. /\ s.pc = r.pc /\ s.req = r.req /\ s.rung = r.rung /\ s.cli = r.cli
          /\ s.srv = r.srv /\ s.taken = r.taken + 1 /\ s.sent = r.sent
          /\ s.heard = r.heard /\ s.got = r.got /\ s.relay = f /\ s.verdict = r.verdict
          /\ s.uncut = r.uncut /\ s.stalled = r.stalled /\ s.soft = r.soft
          /\ s.client = r.client /\ s.server = r.server /\ s.replied = r.replied
      BY <1>t DEF ConnRecords
    <3> HIDE DEF s
    <3>g. Place(s) /\ Cut(s)
      BY <1>i, <1>y, <1>k, <1>2, <2>1, <3>1, <3>0, <3>9, <3>e, SMTT(60)
      DEF Members, PCs, ThreadPlaces, ConnInv, Place, Cut, Relays, Upward, Downward,
          Broken, Ended, Asking, Greeting
    <3>h. Relays(s) /\ Upward(s)
      BY <1>i, <1>y, <1>k, <1>2, <2>1, <3>1, <3>0, <3>9, <3>e, SMTT(60)
      DEF Members, PCs, ThreadPlaces, ConnInv, Place, Cut, Relays, Upward, Downward,
          Broken, Ended, Asking, Greeting
    <3>i. Downward(s) /\ Ended(running, s)
      BY <1>i, <1>y, <1>k, <1>2, <2>1, <3>1, <3>0, <3>9, <3>e, SMTT(60)
      DEF Members, PCs, ThreadPlaces, ConnInv, Place, Cut, Relays, Upward, Downward,
          Broken, Ended, Asking, Greeting
    <3>j. Quiet(r, s)
      BY <1>i, <1>y, <1>k, <1>2, <2>1, <3>1, <3>0, <3>9, <3>e, SMTT(60)
      DEF Members, PCs, ThreadPlaces, Quiet, Early, ConnInv, Place, Cut, Relays, Upward,
          Downward, Broken, Ended, Asking, Greeting
    <3> QED BY <1>w, <3>a, <3>b, <3>g, <3>h, <3>i, <3>j DEF ConnInv
  <2>2. CASE t = "down"
    <3>2. r.relay["down"] = "recv" /\ r.heard < r.replied
      BY <1>r, <1>2, <2>2 DEF RelayReads
    <3>3. r.heard \in 0 .. MaxDown /\ r.replied \in 0 .. MaxDown
      BY <1>y DEF Members
    <3>1. r.relay["down"] = "recv" /\ r.heard < r.replied /\ r.heard + 1 \in 0 .. MaxDown
      BY <3>2, <3>3, <1>k
    <3>0. PICK f : f = [r.relay EXCEPT !["down"] = "send"]
      OBVIOUS
    <3>9. f \in [Threads -> ThreadPlaces] /\ f["down"] = "send" /\ f["up"] = r.relay["up"]
      BY <1>y, <3>0 DEF Members, Threads, ThreadPlaces
    <3> DEFINE s == [r EXCEPT !.relay = f, !.heard = r.heard + 1]
    <3>a. Becomes(c, s)
      BY <1>r, <1>c, <1>2, <2>2, <3>1, <3>0, <3>9 DEF Becomes, RelayReads
    <3>b. s \in ConnRecords
      BY Fields, <1>t, <1>y, <1>k, <1>2, <2>2, <3>1, <3>0, <3>9, ZenonT(30)
      DEF Typed, PCs, Members
    <3>e. /\ s.pc = r.pc /\ s.req = r.req /\ s.rung = r.rung /\ s.cli = r.cli
          /\ s.srv = r.srv /\ s.taken = r.taken /\ s.sent = r.sent
          /\ s.heard = r.heard + 1 /\ s.got = r.got /\ s.relay = f
          /\ s.verdict = r.verdict /\ s.uncut = r.uncut /\ s.stalled = r.stalled
          /\ s.soft = r.soft /\ s.client = r.client /\ s.server = r.server
          /\ s.replied = r.replied
      BY <1>t DEF ConnRecords
    <3> HIDE DEF s
    <3>g. Place(s) /\ Cut(s)
      BY <1>i, <1>y, <1>k, <1>2, <2>2, <3>1, <3>0, <3>9, <3>e, SMTT(60)
      DEF Members, PCs, ThreadPlaces, ConnInv, Place, Cut, Relays, Upward, Downward,
          Broken, Ended, Asking, Greeting
    <3>h. Relays(s) /\ Upward(s)
      BY <1>i, <1>y, <1>k, <1>2, <2>2, <3>1, <3>0, <3>9, <3>e, SMTT(60)
      DEF Members, PCs, ThreadPlaces, ConnInv, Place, Cut, Relays, Upward, Downward,
          Broken, Ended, Asking, Greeting
    <3>i. Downward(s) /\ Ended(running, s)
      BY <1>i, <1>y, <1>k, <1>2, <2>2, <3>1, <3>0, <3>9, <3>e, SMTT(60)
      DEF Members, PCs, ThreadPlaces, ConnInv, Place, Cut, Relays, Upward, Downward,
          Broken, Ended, Asking, Greeting
    <3>j. Quiet(r, s)
      BY <1>i, <1>y, <1>k, <1>2, <2>2, <3>1, <3>0, <3>9, <3>e, SMTT(60)
      DEF Members, PCs, ThreadPlaces, Quiet, Early, ConnInv, Place, Cut, Relays, Upward,
          Downward, Broken, Ended, Asking, Greeting
    <3> QED BY <1>w, <3>a, <3>b, <3>g, <3>h, <3>i, <3>j DEF ConnInv
  <2> QED BY <1>z, <2>1, <2>2
<1>3. CASE RelayEnds(c, t)
  <2>1. r.relay[t] = "recv" /\ RelayLeaves(c, t)
    BY <1>r, <1>3 DEF RelayEnds
  <2>2. CASE t = "up"
    <3>1. r.client # "open"
      BY <1>r, <1>3, <2>2 DEF RelayEnds
    <3> QED BY <1>l, <2>1, <2>2, <3>1 DEF Reason
  <2>3. CASE t = "down"
    <3>1. r.server = "reset" \/ (r.server = "fin" /\ r.heard = r.replied)
      BY <1>r, <1>3, <2>3 DEF RelayEnds
    <3> QED BY <1>l, <2>1, <2>3, <3>1 DEF Reason
  <2> QED BY <1>z, <2>2, <2>3
<1>4. CASE RelayWoken(c, t)
  <2>1. r.relay[t] = "recv" /\ RelayLeaves(c, t) /\ (r.cli # "open" \/ r.srv # "open")
    BY <1>r, <1>4 DEF RelayWoken, SrcOpen
  <2> QED BY <1>l, <2>1 DEF Reason
<1>5. CASE RelaySends(c, t)
  <2>1. r.relay[t] = "send"
    BY <1>r, <1>5 DEF RelaySends
  <2>2. CASE ~(DstOpen(c, t) /\ DstAlive(c, t))
    <3>1. RelayLeaves(c, t)
      BY <1>5, <2>2 DEF RelaySends
    <3>2. \/ r.srv # "open" \/ r.cli # "open" \/ r.server = "reset"
          \/ t = "down" /\ r.client = "gone"
      BY <1>r, <1>z, <2>2 DEF DstOpen, DstAlive
    <3> QED BY <1>l, <2>1, <3>1, <3>2 DEF Reason
  <2>3. CASE DstOpen(c, t) /\ DstAlive(c, t)
    <3>1. CASE t = "up"
      <4>1. r.taken \in 1 .. MaxUp
        BY <1>i, <1>y, <1>k, <2>1, <3>1 DEF ConnInv, Upward, Members
      <4>2. PICK q, g :
                /\ q = (IF t = "up" THEN Append(r.sent, r.taken) ELSE r.sent)
                /\ g = (IF t = "down" THEN r.got + 1 ELSE r.got)
        OBVIOUS
      <4>5. q = Append(r.sent, r.taken) /\ g = r.got
        BY <3>1, <4>2
      <4>3. /\ q \in Seq(1 .. MaxUp) /\ Len(q) = Len(r.sent) + 1
            /\ (Numbered(r.sent) /\ r.taken = Len(r.sent) + 1 => Numbered(q))
        BY <1>y, <4>1, <4>5, SentOn DEF Members
      <4>4. r.server # "reset"
        BY <1>r, <2>3, <3>1 DEF DstAlive
      <4>6. conn' = [conn EXCEPT ![c].relay["up"] = "check",
                             ![c].sent = Append(@, conn[c].taken), ![c].got = @]
        BY <1>5, <2>3, <3>1 DEF RelaySends
      <4>0. PICK f : f = [r.relay EXCEPT !["up"] = "check"]
        OBVIOUS
      <4>9. /\ f \in [Threads -> ThreadPlaces] /\ f["up"] = "check"
            /\ f["down"] = r.relay["down"]
        BY <1>y, <4>0 DEF Members, Threads, ThreadPlaces
      <4> DEFINE s == [r EXCEPT !.relay = f, !.sent = q, !.got = g]
      <4>a. Becomes(c, s)
        BY <1>r, <1>c, <4>6, <2>1, <3>1, <4>1, <4>2, <4>3, <4>4, <4>5, <4>0, <4>9
        DEF Becomes, RelaySends
      <4>b. s \in ConnRecords
        BY Fields, <1>t, <1>y, <1>k, <4>6, <2>1, <3>1, <4>1, <4>2, <4>3, <4>4, <4>5, <4>0,
           <4>9, ZenonT(30)
        DEF Typed, PCs, Members
      <4>e. /\ s.pc = r.pc /\ s.req = r.req /\ s.rung = r.rung /\ s.cli = r.cli
            /\ s.srv = r.srv /\ s.taken = r.taken /\ s.sent = q /\ s.heard = r.heard
            /\ s.got = g /\ s.relay = f /\ s.verdict = r.verdict /\ s.uncut = r.uncut
            /\ s.stalled = r.stalled /\ s.soft = r.soft /\ s.client = r.client
            /\ s.server = r.server /\ s.replied = r.replied
        BY <1>t DEF ConnRecords
      <4> HIDE DEF s
      <4>g. Place(s) /\ Cut(s)
        BY <1>i, <1>y, <1>k, <4>6, <2>1, <3>1, <4>1, <4>2, <4>3, <4>4, <4>5, <4>0, <4>9,
           <4>e, SMTT(60)
        DEF Members, PCs, ThreadPlaces, ConnInv, Place, Cut, Relays, Upward, Downward,
            Broken, Ended, Asking, Greeting
      <4>h. Relays(s) /\ Upward(s)
        BY <1>i, <1>y, <1>k, <4>6, <2>1, <3>1, <4>1, <4>2, <4>3, <4>4, <4>5, <4>0, <4>9,
           <4>e, SMTT(60)
        DEF Members, PCs, ThreadPlaces, ConnInv, Place, Cut, Relays, Upward, Downward,
            Broken, Ended, Asking, Greeting
      <4>i. Downward(s) /\ Ended(running, s)
        BY <1>i, <1>y, <1>k, <4>6, <2>1, <3>1, <4>1, <4>2, <4>3, <4>4, <4>5, <4>0, <4>9,
           <4>e, SMTT(60)
        DEF Members, PCs, ThreadPlaces, ConnInv, Place, Cut, Relays, Upward, Downward,
            Broken, Ended, Asking, Greeting
      <4>j. Quiet(r, s)
        BY <1>i, <1>y, <1>k, <4>6, <2>1, <3>1, <4>1, <4>2, <4>3, <4>4, <4>5, <4>0, <4>9,
           <4>e, SMTT(60)
        DEF Members, PCs, ThreadPlaces, Quiet, Early, ConnInv, Place, Cut, Relays, Upward,
            Downward, Broken, Ended, Asking, Greeting
      <4> QED BY <1>w, <4>a, <4>b, <4>g, <4>h, <4>i, <4>j DEF ConnInv
    <3>2. CASE t = "down"
      <4>1. r.got + 1 \in 0 .. MaxDown
        BY <1>i, <1>y, <1>k, <2>1, <3>2 DEF ConnInv, Downward, Members
      <4>2. PICK q, g :
                /\ q = (IF t = "up" THEN Append(r.sent, r.taken) ELSE r.sent)
                /\ g = (IF t = "down" THEN r.got + 1 ELSE r.got)
        OBVIOUS
      <4>5. q = r.sent /\ g = r.got + 1
        BY <3>2, <4>2
      <4>6. conn' = [conn EXCEPT ![c].relay["down"] = "check",
                             ![c].sent = @, ![c].got = @ + 1]
        BY <1>5, <2>3, <3>2 DEF RelaySends
      <4>0. PICK f : f = [r.relay EXCEPT !["down"] = "check"]
        OBVIOUS
      <4>9. /\ f \in [Threads -> ThreadPlaces] /\ f["down"] = "check"
            /\ f["up"] = r.relay["up"]
        BY <1>y, <4>0 DEF Members, Threads, ThreadPlaces
      <4> DEFINE s == [r EXCEPT !.relay = f, !.sent = q, !.got = g]
      <4>a. Becomes(c, s)
        BY <1>r, <1>c, <4>6, <2>1, <3>2, <4>1, <4>2, <4>5, <4>0, <4>9
        DEF Becomes, RelaySends
      <4>b. s \in ConnRecords
        BY Fields, <1>t, <1>y, <1>k, <4>6, <2>1, <3>2, <4>1, <4>2, <4>5, <4>0, <4>9,
           ZenonT(30)
        DEF Typed, PCs, Members
      <4>e. /\ s.pc = r.pc /\ s.req = r.req /\ s.rung = r.rung /\ s.cli = r.cli
            /\ s.srv = r.srv /\ s.taken = r.taken /\ s.sent = q /\ s.heard = r.heard
            /\ s.got = g /\ s.relay = f /\ s.verdict = r.verdict /\ s.uncut = r.uncut
            /\ s.stalled = r.stalled /\ s.soft = r.soft /\ s.client = r.client
            /\ s.server = r.server /\ s.replied = r.replied
        BY <1>t DEF ConnRecords
      <4> HIDE DEF s
      <4>g. Place(s) /\ Cut(s)
        BY <1>i, <1>y, <1>k, <4>6, <2>1, <3>2, <4>1, <4>2, <4>5, <4>0, <4>9, <4>e,
           SMTT(60)
        DEF Members, PCs, ThreadPlaces, ConnInv, Place, Cut, Relays, Upward, Downward,
            Broken, Ended, Asking, Greeting
      <4>h. Relays(s) /\ Upward(s)
        BY <1>i, <1>y, <1>k, <4>6, <2>1, <3>2, <4>1, <4>2, <4>5, <4>0, <4>9, <4>e,
           SMTT(60)
        DEF Members, PCs, ThreadPlaces, ConnInv, Place, Cut, Relays, Upward, Downward,
            Broken, Ended, Asking, Greeting
      <4>i. Downward(s) /\ Ended(running, s)
        BY <1>i, <1>y, <1>k, <4>6, <2>1, <3>2, <4>1, <4>2, <4>5, <4>0, <4>9, <4>e,
           SMTT(60)
        DEF Members, PCs, ThreadPlaces, ConnInv, Place, Cut, Relays, Upward, Downward,
            Broken, Ended, Asking, Greeting
      <4>j. Quiet(r, s)
        BY <1>i, <1>y, <1>k, <4>6, <2>1, <3>2, <4>1, <4>2, <4>5, <4>0, <4>9, <4>e,
           SMTT(60)
        DEF Members, PCs, ThreadPlaces, Quiet, Early, ConnInv, Place, Cut, Relays, Upward,
            Downward, Broken, Ended, Asking, Greeting
      <4> QED BY <1>w, <4>a, <4>b, <4>g, <4>h, <4>i, <4>j DEF ConnInv
    <3> QED BY <1>z, <3>1, <3>2
  <2> QED BY <2>2, <2>3
<1> QED BY <1>1, <1>2, <1>3, <1>4, <1>5 DEF RelaySteps

\* A step of the server or of the client.
LEMMA EnvKeeps ==
  ASSUME TypeOK, NEW c \in Conns, ConnInv(running, conn[c]),
         ServerReplies(c) \/ ServerEnds(c) \/ ClientEnds(c)
  PROVE  Keeps(c)
<1>r. PICK r : r = conn[c]
  OBVIOUS
<1>t. r \in ConnRecords
  BY <1>r DEF TypeOK
<1>i. ConnInv(running, r)
  BY <1>r
<1>c. conn \in [Conns -> ConnRecords]
  BY DEF TypeOK
<1>y. Members(r)
  BY <1>t, MembersOf
<1>k. /\ TRUE \in BOOLEAN /\ FALSE \in BOOLEAN /\ running \in BOOLEAN
      /\ Endpoints \in Nat \ {0} /\ MaxUp \in Nat \ {0, 1} /\ MaxDown \in Nat \ {0}
      /\ 0 \in 0 .. 2 * Endpoints - 1 /\ 0 \in 0 .. MaxUp /\ 1 \in 0 .. MaxUp
      /\ 2 \in 0 .. MaxUp
  BY BoundAssumption DEF TypeOK
<1>w. ASSUME NEW s \in ConnRecords, Becomes(c, s), ConnInv(running, s), Quiet(r, s)
      PROVE  Keeps(c)
  BY <1>r, <1>w DEF Keeps
<1>1. CASE ServerReplies(c)
  <2>2. r.server \in {"quiet", "talking"} /\ r.replied < MaxDown
    BY <1>r, <1>1 DEF ServerReplies
  <2>3. r.replied \in 0 .. MaxDown
    BY <1>y DEF Members
  <2>1. r.server \in {"quiet", "talking"} /\ r.replied + 1 \in 0 .. MaxDown
    BY <2>2, <2>3, <1>k
  <2> DEFINE s == [r EXCEPT !.server = "talking", !.replied = r.replied + 1]
  <2>a. Becomes(c, s)
    BY <1>r, <1>c, <1>1, <2>1 DEF Becomes, ServerReplies
  <2>b. s \in ConnRecords
    BY Fields, <1>t, <1>y, <1>k, <1>1, <2>1, ZenonT(30) DEF Typed, PCs, Members
  <2>e. /\ s.pc = r.pc /\ s.req = r.req /\ s.rung = r.rung /\ s.cli = r.cli
        /\ s.srv = r.srv /\ s.taken = r.taken /\ s.sent = r.sent /\ s.heard = r.heard
        /\ s.got = r.got /\ s.relay = r.relay /\ s.verdict = r.verdict
        /\ s.uncut = r.uncut /\ s.stalled = r.stalled /\ s.soft = r.soft
        /\ s.client = r.client /\ s.server = "talking" /\ s.replied = r.replied + 1
    BY <1>t DEF ConnRecords
  <2> HIDE DEF s
  <2>g. Place(s) /\ Cut(s)
    BY <1>i, <1>y, <1>k, <1>1, <2>1, <2>e, SMTT(60)
    DEF Members, PCs, ThreadPlaces, ConnInv, Place, Cut, Relays, Upward, Downward, Broken,
        Ended, Asking, Greeting
  <2>h. Relays(s) /\ Upward(s)
    BY <1>i, <1>y, <1>k, <1>1, <2>1, <2>e, SMTT(60)
    DEF Members, PCs, ThreadPlaces, ConnInv, Place, Cut, Relays, Upward, Downward, Broken,
        Ended, Asking, Greeting
  <2>i. Downward(s) /\ Ended(running, s)
    BY <1>i, <1>y, <1>k, <1>1, <2>1, <2>e, SMTT(60)
    DEF Members, PCs, ThreadPlaces, ConnInv, Place, Cut, Relays, Upward, Downward, Broken,
        Ended, Asking, Greeting
  <2>j. Quiet(r, s)
    BY <1>i, <1>y, <1>k, <1>1, <2>1, <2>e, SMTT(60)
    DEF Members, PCs, ThreadPlaces, Quiet, Early, ConnInv, Place, Cut, Relays, Upward,
        Downward, Broken, Ended, Asking, Greeting
  <2> QED BY <1>w, <2>a, <2>b, <2>g, <2>h, <2>i, <2>j DEF ConnInv
<1>2. CASE ServerEnds(c)
  <2>2. CASE r.server = "talking" /\ conn' = [conn EXCEPT ![c].server = "fin"]
    <3> DEFINE s == [r EXCEPT !.server = "fin"]
    <3>a. Becomes(c, s)
      BY <1>r, <1>c, <2>2 DEF Becomes, ServerEnds
    <3>b. s \in ConnRecords
      BY Fields, <1>t, <1>y, <1>k, <2>2, ZenonT(30) DEF Typed, PCs, Members
    <3>e. /\ s.pc = r.pc /\ s.req = r.req /\ s.rung = r.rung /\ s.cli = r.cli
          /\ s.srv = r.srv /\ s.taken = r.taken /\ s.sent = r.sent /\ s.heard = r.heard
          /\ s.got = r.got /\ s.relay = r.relay /\ s.verdict = r.verdict
          /\ s.uncut = r.uncut /\ s.stalled = r.stalled /\ s.soft = r.soft
          /\ s.client = r.client /\ s.server = "fin" /\ s.replied = r.replied
      BY <1>t DEF ConnRecords
    <3> HIDE DEF s
    <3>g. Place(s) /\ Cut(s)
      BY <1>i, <1>y, <1>k, <2>2, <3>e, SMTT(60)
      DEF Members, PCs, ThreadPlaces, ConnInv, Place, Cut, Relays, Upward, Downward,
          Broken, Ended, Asking, Greeting
    <3>h. Relays(s) /\ Upward(s)
      BY <1>i, <1>y, <1>k, <2>2, <3>e, SMTT(60)
      DEF Members, PCs, ThreadPlaces, ConnInv, Place, Cut, Relays, Upward, Downward,
          Broken, Ended, Asking, Greeting
    <3>i. Downward(s) /\ Ended(running, s)
      BY <1>i, <1>y, <1>k, <2>2, <3>e, SMTT(60)
      DEF Members, PCs, ThreadPlaces, ConnInv, Place, Cut, Relays, Upward, Downward,
          Broken, Ended, Asking, Greeting
    <3>j. Quiet(r, s)
      BY <1>i, <1>y, <1>k, <2>2, <3>e, SMTT(60)
      DEF Members, PCs, ThreadPlaces, Quiet, Early, ConnInv, Place, Cut, Relays, Upward,
          Downward, Broken, Ended, Asking, Greeting
    <3> QED BY <1>w, <3>a, <3>b, <3>g, <3>h, <3>i, <3>j DEF ConnInv
  <2>3. CASE conn' = [conn EXCEPT ![c].server = "reset"]
    <3> DEFINE s == [r EXCEPT !.server = "reset"]
    <3>a. Becomes(c, s)
      BY <1>r, <1>c, <2>3 DEF Becomes, ServerEnds
    <3>b. s \in ConnRecords
      BY Fields, <1>t, <1>y, <1>k, <2>3, ZenonT(30) DEF Typed, PCs, Members
    <3>e. /\ s.pc = r.pc /\ s.req = r.req /\ s.rung = r.rung /\ s.cli = r.cli
          /\ s.srv = r.srv /\ s.taken = r.taken /\ s.sent = r.sent /\ s.heard = r.heard
          /\ s.got = r.got /\ s.relay = r.relay /\ s.verdict = r.verdict
          /\ s.uncut = r.uncut /\ s.stalled = r.stalled /\ s.soft = r.soft
          /\ s.client = r.client /\ s.server = "reset" /\ s.replied = r.replied
      BY <1>t DEF ConnRecords
    <3> HIDE DEF s
    <3>g. Place(s) /\ Cut(s)
      BY <1>i, <1>y, <1>k, <2>3, <3>e, SMTT(60)
      DEF Members, PCs, ThreadPlaces, ConnInv, Place, Cut, Relays, Upward, Downward,
          Broken, Ended, Asking, Greeting
    <3>h. Relays(s) /\ Upward(s)
      BY <1>i, <1>y, <1>k, <2>3, <3>e, SMTT(60)
      DEF Members, PCs, ThreadPlaces, ConnInv, Place, Cut, Relays, Upward, Downward,
          Broken, Ended, Asking, Greeting
    <3>i. Downward(s) /\ Ended(running, s)
      BY <1>i, <1>y, <1>k, <2>3, <3>e, SMTT(60)
      DEF Members, PCs, ThreadPlaces, ConnInv, Place, Cut, Relays, Upward, Downward,
          Broken, Ended, Asking, Greeting
    <3>j. Quiet(r, s)
      BY <1>i, <1>y, <1>k, <2>3, <3>e, SMTT(60)
      DEF Members, PCs, ThreadPlaces, Quiet, Early, ConnInv, Place, Cut, Relays, Upward,
          Downward, Broken, Ended, Asking, Greeting
    <3> QED BY <1>w, <3>a, <3>b, <3>g, <3>h, <3>i, <3>j DEF ConnInv
  <2> QED BY <1>r, <1>2, <2>2, <2>3 DEF ServerEnds
<1>3. CASE ClientEnds(c)
  <2>2. CASE conn' = [conn EXCEPT ![c].client = "half"]
    <3> DEFINE s == [r EXCEPT !.client = "half"]
    <3>a. Becomes(c, s)
      BY <1>r, <1>c, <2>2 DEF Becomes, ClientEnds
    <3>b. s \in ConnRecords
      BY Fields, <1>t, <1>y, <1>k, <2>2, ZenonT(30) DEF Typed, PCs, Members
    <3>e. /\ s.pc = r.pc /\ s.req = r.req /\ s.rung = r.rung /\ s.cli = r.cli
          /\ s.srv = r.srv /\ s.taken = r.taken /\ s.sent = r.sent /\ s.heard = r.heard
          /\ s.got = r.got /\ s.relay = r.relay /\ s.verdict = r.verdict
          /\ s.uncut = r.uncut /\ s.stalled = r.stalled /\ s.soft = r.soft
          /\ s.client = "half" /\ s.server = r.server /\ s.replied = r.replied
      BY <1>t DEF ConnRecords
    <3> HIDE DEF s
    <3>g. Place(s) /\ Cut(s)
      BY <1>i, <1>y, <1>k, <2>2, <3>e, SMTT(60)
      DEF Members, PCs, ThreadPlaces, ConnInv, Place, Cut, Relays, Upward, Downward,
          Broken, Ended, Asking, Greeting
    <3>h. Relays(s) /\ Upward(s)
      BY <1>i, <1>y, <1>k, <2>2, <3>e, SMTT(60)
      DEF Members, PCs, ThreadPlaces, ConnInv, Place, Cut, Relays, Upward, Downward,
          Broken, Ended, Asking, Greeting
    <3>i. Downward(s) /\ Ended(running, s)
      BY <1>i, <1>y, <1>k, <2>2, <3>e, SMTT(60)
      DEF Members, PCs, ThreadPlaces, ConnInv, Place, Cut, Relays, Upward, Downward,
          Broken, Ended, Asking, Greeting
    <3>j. Quiet(r, s)
      BY <1>i, <1>y, <1>k, <2>2, <3>e, SMTT(60)
      DEF Members, PCs, ThreadPlaces, Quiet, Early, ConnInv, Place, Cut, Relays, Upward,
          Downward, Broken, Ended, Asking, Greeting
    <3> QED BY <1>w, <3>a, <3>b, <3>g, <3>h, <3>i, <3>j DEF ConnInv
  <2>3. CASE conn' = [conn EXCEPT ![c].client = "gone"]
    <3> DEFINE s == [r EXCEPT !.client = "gone"]
    <3>a. Becomes(c, s)
      BY <1>r, <1>c, <2>3 DEF Becomes, ClientEnds
    <3>b. s \in ConnRecords
      BY Fields, <1>t, <1>y, <1>k, <2>3, ZenonT(30) DEF Typed, PCs, Members
    <3>e. /\ s.pc = r.pc /\ s.req = r.req /\ s.rung = r.rung /\ s.cli = r.cli
          /\ s.srv = r.srv /\ s.taken = r.taken /\ s.sent = r.sent /\ s.heard = r.heard
          /\ s.got = r.got /\ s.relay = r.relay /\ s.verdict = r.verdict
          /\ s.uncut = r.uncut /\ s.stalled = r.stalled /\ s.soft = r.soft
          /\ s.client = "gone" /\ s.server = r.server /\ s.replied = r.replied
      BY <1>t DEF ConnRecords
    <3> HIDE DEF s
    <3>g. Place(s) /\ Cut(s)
      BY <1>i, <1>y, <1>k, <2>3, <3>e, SMTT(60)
      DEF Members, PCs, ThreadPlaces, ConnInv, Place, Cut, Relays, Upward, Downward,
          Broken, Ended, Asking, Greeting
    <3>h. Relays(s) /\ Upward(s)
      BY <1>i, <1>y, <1>k, <2>3, <3>e, SMTT(60)
      DEF Members, PCs, ThreadPlaces, ConnInv, Place, Cut, Relays, Upward, Downward,
          Broken, Ended, Asking, Greeting
    <3>i. Downward(s) /\ Ended(running, s)
      BY <1>i, <1>y, <1>k, <2>3, <3>e, SMTT(60)
      DEF Members, PCs, ThreadPlaces, ConnInv, Place, Cut, Relays, Upward, Downward,
          Broken, Ended, Asking, Greeting
    <3>j. Quiet(r, s)
      BY <1>i, <1>y, <1>k, <2>3, <3>e, SMTT(60)
      DEF Members, PCs, ThreadPlaces, Quiet, Early, ConnInv, Place, Cut, Relays, Upward,
          Downward, Broken, Ended, Asking, Greeting
    <3> QED BY <1>w, <3>a, <3>b, <3>g, <3>h, <3>i, <3>j DEF ConnInv
  <2> QED BY <1>r, <1>3, <2>2, <2>3 DEF ClientEnds
<1> QED BY <1>1, <1>2, <1>3

-----------------------------------------------------------------------------
(* The counters *)

\* The connections each counter counts: active, total, reset.
Active == {c \in Conns : conn[c].pc \notin {"new", "done"}}
Counted == {c \in Conns : conn[c].verdict # "none"}
Dead == {c \in Conns : conn[c].verdict = "fail"}

\* The part of the invariant about single connections ...
Connections ==
    /\ conn \in [Conns -> ConnRecords]
    /\ \A c \in Conns : ConnInv(running, conn[c])

\* The counters (191-193, 449-466).
Totals == [active : Nat, dns : Nat, total : Nat, reset : Nat]

\* ... and the part about the counters u.
Sums(u) ==
    /\ u \in Totals
    /\ u.active = Cardinality(Active) /\ u.total = Cardinality(Counted)
    /\ u.reset = Cardinality(Dead)
    /\ Cardinality(cached) <= u.dns /\ u.dns <= Cardinality(Asked)
    /\ u.dns > 0 => cached # {}

\* Sets of connections are finite, and grow and shrink by one.
LEMMA Subsets ==
  /\ Cardinality(Conns) \in Nat
  /\ \A S \in SUBSET Conns :
        /\ IsFiniteSet(S) /\ Cardinality(S) \in Nat
        /\ Cardinality(S) <= Cardinality(Conns)
        /\ \A T \in SUBSET S : Cardinality(T) <= Cardinality(S)
        /\ \A c \in Conns \ S : Cardinality(S \cup {c}) = Cardinality(S) + 1
        /\ \A c \in S : Cardinality(S \ {c}) = Cardinality(S) - 1
<1>1. ASSUME NEW S \in SUBSET Conns
      PROVE  /\ IsFiniteSet(S) /\ Cardinality(S) \in Nat
             /\ Cardinality(S) <= Cardinality(Conns)
  BY <1>1, ConnsAssumption, FS_Subset, FS_CardinalityType
<1>2. ASSUME NEW S \in SUBSET Conns, NEW T \in SUBSET S
      PROVE  Cardinality(T) <= Cardinality(S)
  BY <1>1, FS_Subset
<1>3. ASSUME NEW S \in SUBSET Conns, NEW c \in Conns \ S
      PROVE  Cardinality(S \cup {c}) = Cardinality(S) + 1
  BY <1>1, FS_AddElement
<1>4. ASSUME NEW S \in SUBSET Conns, NEW c \in S
      PROVE  Cardinality(S \ {c}) = Cardinality(S) - 1
  BY <1>1, FS_RemoveElement
<1>5. Cardinality(Conns) \in Nat
  BY ConnsAssumption, FS_CardinalityType
<1> QED BY <1>1, <1>2, <1>3, <1>4, <1>5

\* The two parts are the invariant.
LEMMA Parts ==
  IInv <=> /\ running \in BOOLEAN /\ cached \subseteq Hosts \ Literal
  /\ IsFiniteSet(cached)
           /\ Connections /\ Sums(stats)
<1>1. Asked \subseteq Conns
  BY DEF Asked
<1>2. /\ Cardinality(Asked) \in Nat /\ Cardinality(Asked) <= Cardinality(Conns)
      /\ Cardinality(Conns) \in Nat
  BY <1>1, Subsets
<1>3. ASSUME stats \in Totals PROVE stats.dns \in Nat
  BY <1>3 DEF Totals
<1>4. ASSUME IsFiniteSet(cached) PROVE Cardinality(cached) \in Nat
  BY <1>4, FS_CardinalityType
<1>5. IInv => Connections /\ Sums(stats)
  BY DEF IInv, Counts, Counters, Sums, Connections, TypeOK, Totals, Active, Counted, Dead
<1>6. ASSUME stats \in Totals, stats.dns <= Cardinality(Asked)
      PROVE  stats.dns <= Cardinality(Conns)
  BY <1>2, <1>3, <1>6
<1>7. Connections /\ Sums(stats) /\ running \in BOOLEAN
      /\ cached \subseteq Hosts \ Literal /\ IsFiniteSet(cached) => IInv
  BY <1>6
  DEF IInv, Counts, Counters, Sums, Connections, TypeOK, Totals, Active, Counted, Dead
<1> QED BY <1>5, <1>7 DEF IInv, Counts, TypeOK

\* The same, for the next state.
LEMMA PartsNext ==
  ASSUME running' \in BOOLEAN, cached' \subseteq Hosts \ Literal, IsFiniteSet(cached'),
         Connections', Sums(stats)'
  PROVE  IInv'
<1>1. Asked' \subseteq Conns
  BY DEF Asked
<1>2. /\ Cardinality(Asked') \in Nat /\ Cardinality(Asked') <= Cardinality(Conns)
      /\ Cardinality(Conns) \in Nat
  BY <1>1, Subsets
<1>3. stats'.dns \in Nat /\ stats'.dns <= Cardinality(Asked')
  BY DEF Sums, Totals
<1>4. stats'.dns <= Cardinality(Conns)
  BY <1>2, <1>3
<1> QED BY <1>4
        DEF IInv, Counts, Counters, Sums, Connections, TypeOK, Totals, Active, Counted,
            Dead

\* A step of one connection leaves the records of the others alone.
LEMMA Updated ==
  ASSUME Connections, NEW c \in Conns, NEW s \in ConnRecords, Becomes(c, s),
         ConnInv(running, s),
         running' = running
  PROVE  Connections' /\ conn'[c] = s /\ \A d \in Conns \ {c} : conn'[d] = conn[d]
<1>1. conn' \in [Conns -> ConnRecords] /\ conn'[c] = s
      /\ \A d \in Conns \ {c} : conn'[d] = conn[d]
  BY DEF Connections, Becomes
<1>2. ASSUME NEW d \in Conns PROVE ConnInv(running', conn'[d])
  <2>1. CASE d = c
    BY <1>1, <2>1
  <2>2. CASE d # c
    <3>1. ConnInv(running, conn[d]) /\ conn'[d] = conn[d]
      BY <1>1, <2>2 DEF Connections
    <3> QED BY <3>1
  <2> QED BY <2>1, <2>2
<1> QED BY <1>1, <1>2 DEF Connections

\* A step that the counters do not see keeps the whole invariant.
LEMMA QuietStep ==
  ASSUME IInv, NEW c \in Conns, Keeps(c), Private
  PROVE  IInv'
<1>1. PICK s \in ConnRecords : Becomes(c, s) /\ ConnInv(running, s) /\ Quiet(conn[c], s)
  BY DEF Keeps
<1>2. running' = running /\ cached' = cached /\ stats' = stats
  BY DEF Private
<1>3. /\ running \in BOOLEAN /\ cached \subseteq Hosts \ Literal /\ IsFiniteSet(cached)
      /\ Connections /\ Sums(stats)
  BY Parts
<1>4. Connections' /\ conn'[c] = s /\ \A d \in Conns \ {c} : conn'[d] = conn[d]
  BY <1>1, <1>2, <1>3, Updated
<1>5. ASSUME NEW d \in Conns PROVE Quiet(conn[d], conn'[d])
  <2>1. CASE d = c
    BY <1>1, <1>4, <2>1
  <2>2. CASE d # c
    <3>1. conn'[d] = conn[d]
      BY <1>4, <2>2
    <3> QED BY <3>1 DEF Quiet
  <2> QED BY <2>1, <2>2
<1>6. Active' = Active
  BY <1>5 DEF Quiet, Active
<1>7. Counted' = Counted /\ Dead' = Dead
  BY <1>5 DEF Quiet, Counted, Dead
<1>8. Asked \subseteq Asked' /\ Asked \subseteq Conns /\ Asked' \subseteq Conns
  BY <1>5 DEF Quiet, Asked, Early
<1>9. /\ Cardinality(Asked) <= Cardinality(Asked') /\ Cardinality(Asked) \in Nat
      /\ Cardinality(Asked') \in Nat
  BY <1>8, Subsets
<1>10. stats.dns \in Nat /\ stats.dns <= Cardinality(Asked)
  BY <1>3 DEF Sums, Totals
<1>11. stats.dns <= Cardinality(Asked')
  BY <1>9, <1>10
<1>12. Sums(stats)'
  BY <1>2, <1>3, <1>6, <1>7, <1>11 DEF Sums
<1> QED BY <1>2, <1>3, <1>4, <1>12, PartsNext

-----------------------------------------------------------------------------
(* The steps the counters see *)

\* A handler enters the gauge (313-314) ...
LEMMA BeginStep ==
  ASSUME IInv, NEW c \in Conns, Begin(c)
  PROVE  IInv'
<1>0. /\ running \in BOOLEAN /\ cached \subseteq Hosts \ Literal /\ IsFiniteSet(cached)
      /\ Connections /\ Sums(stats)
  BY Parts
<1>r. PICK r : r = conn[c]
  OBVIOUS
<1>c. conn \in [Conns -> ConnRecords]
  BY <1>0 DEF Connections
<1>t. r \in ConnRecords
  BY <1>r, <1>c
<1>i. ConnInv(running, r)
  BY <1>r, <1>0 DEF Connections
<1>y. Members(r)
  BY <1>t, MembersOf
<1>k. /\ TRUE \in BOOLEAN /\ FALSE \in BOOLEAN /\ running \in BOOLEAN
      /\ Endpoints \in Nat \ {0} /\ MaxUp \in Nat \ {0, 1} /\ MaxDown \in Nat \ {0}
      /\ 0 \in 0 .. 2 * Endpoints - 1 /\ 0 \in 0 .. MaxUp /\ 1 \in 0 .. MaxUp
      /\ 2 \in 0 .. MaxUp
  BY <1>0, BoundAssumption
<1>m. /\ Active \subseteq Conns /\ Counted \subseteq Conns /\ Dead \subseteq Conns
      /\ Asked \subseteq Conns
      /\ Cardinality(Active) \in Nat /\ Cardinality(Counted) \in Nat
      /\ Cardinality(Dead) \in Nat /\ Cardinality(Asked) \in Nat
  <2>1. /\ Active \subseteq Conns /\ Counted \subseteq Conns /\ Dead \subseteq Conns
        /\ Asked \subseteq Conns
    BY DEF Active, Counted, Dead, Asked
  <2> QED BY <2>1, Subsets
<1>n. /\ stats \in Totals
      /\ stats.active \in Nat /\ stats.dns \in Nat /\ stats.total \in Nat
      /\ stats.reset \in Nat
      /\ stats.active = Cardinality(Active) /\ stats.total = Cardinality(Counted)
      /\ stats.reset = Cardinality(Dead)
      /\ Cardinality(cached) <= stats.dns /\ stats.dns <= Cardinality(Asked)
      /\ (stats.dns > 0 => cached # {})
  BY <1>0 DEF Sums, Totals
<1>1. r.pc = "new"
  BY <1>r DEF Begin, At
<1>2. running' = running /\ cached' = cached /\ stats' = [stats EXCEPT !.active = @ + 1]
  BY DEF Begin
<1>4. \E s \in ConnRecords : Becomes(c, s) /\ ConnInv(running, s) /\ s.pc = "read"
      /\ s.verdict = r.verdict
  <2> DEFINE s == [r EXCEPT !.pc = "read"]
  <2>a. Becomes(c, s)
    BY <1>r, <1>c, <1>1 DEF Becomes, Begin, Goto
  <2>b. s \in ConnRecords
    BY Fields, <1>t, <1>y, <1>k, <1>1, ZenonT(30) DEF Typed, PCs, Members
  <2>e. /\ s.pc = "read" /\ s.req = r.req /\ s.rung = r.rung /\ s.cli = r.cli
        /\ s.srv = r.srv /\ s.taken = r.taken /\ s.sent = r.sent /\ s.heard = r.heard
        /\ s.got = r.got /\ s.relay = r.relay /\ s.verdict = r.verdict
        /\ s.uncut = r.uncut /\ s.stalled = r.stalled /\ s.soft = r.soft
        /\ s.client = r.client /\ s.server = r.server /\ s.replied = r.replied
    BY <1>t DEF ConnRecords
  <2> HIDE DEF s
  <2>g. Place(s) /\ Cut(s)
    BY <1>i, <1>y, <1>k, <1>1, <2>e, SMTT(60)
    DEF Members, PCs, ThreadPlaces, ConnInv, Place, Cut, Relays, Upward, Downward, Broken,
        Ended, Asking, Greeting
  <2>h. Relays(s) /\ Upward(s)
    BY <1>i, <1>y, <1>k, <1>1, <2>e, SMTT(60)
    DEF Members, PCs, ThreadPlaces, ConnInv, Place, Cut, Relays, Upward, Downward, Broken,
        Ended, Asking, Greeting
  <2>i. Downward(s) /\ Ended(running, s)
    BY <1>i, <1>y, <1>k, <1>1, <2>e, SMTT(60)
    DEF Members, PCs, ThreadPlaces, ConnInv, Place, Cut, Relays, Upward, Downward, Broken,
        Ended, Asking, Greeting
  <2> QED BY <2>a, <2>b, <2>e, <2>g, <2>h, <2>i DEF ConnInv
<1>5. PICK s \in ConnRecords :
          /\ Becomes(c, s) /\ ConnInv(running, s) /\ s.pc = "read"
          /\ s.verdict = r.verdict
  BY <1>4
<1>6. Connections' /\ conn'[c] = s /\ \A d \in Conns \ {c} : conn'[d] = conn[d]
  BY <1>0, <1>2, <1>5, Updated
<1>7. Active' = Active \cup {c} /\ c \notin Active
  BY <1>r, <1>1, <1>5, <1>6 DEF Active
<1>8. Counted' = Counted /\ Dead' = Dead /\ Asked' = Asked
  BY <1>r, <1>1, <1>5, <1>6 DEF Counted, Dead, Asked
<1>9. Cardinality(Active') = Cardinality(Active) + 1
  BY <1>7, <1>m, Subsets
<1>10. /\ stats' \in Totals /\ stats'.active = stats.active + 1 /\ stats'.dns = stats.dns
       /\ stats'.total = stats.total /\ stats'.reset = stats.reset
  BY <1>2, <1>n DEF Totals
<1>11. Sums(stats)'
  BY <1>2, <1>8, <1>9, <1>10, <1>n DEF Sums
<1> QED BY <1>0, <1>2, <1>6, <1>11, PartsNext

\* An address is stored in the cache and counted (294-296, 303-305): the connection that
\* learned it looks nothing up again.
LEMMA LearnStep ==
  ASSUME IInv, NEW c \in Conns, Learn(c)
  PROVE  IInv'
<1>0. /\ running \in BOOLEAN /\ cached \subseteq Hosts \ Literal /\ IsFiniteSet(cached)
      /\ Connections /\ Sums(stats)
  BY Parts
<1>r. PICK r : r = conn[c]
  OBVIOUS
<1>c. conn \in [Conns -> ConnRecords]
  BY <1>0 DEF Connections
<1>t. r \in ConnRecords
  BY <1>r, <1>c
<1>i. ConnInv(running, r)
  BY <1>r, <1>0 DEF Connections
<1>y. Members(r)
  BY <1>t, MembersOf
<1>k. /\ TRUE \in BOOLEAN /\ FALSE \in BOOLEAN /\ running \in BOOLEAN
      /\ Endpoints \in Nat \ {0} /\ MaxUp \in Nat \ {0, 1} /\ MaxDown \in Nat \ {0}
      /\ 0 \in 0 .. 2 * Endpoints - 1 /\ 0 \in 0 .. MaxUp /\ 1 \in 0 .. MaxUp
      /\ 2 \in 0 .. MaxUp
  BY <1>0, BoundAssumption
<1>m. /\ Active \subseteq Conns /\ Counted \subseteq Conns /\ Dead \subseteq Conns
      /\ Asked \subseteq Conns
      /\ Cardinality(Active) \in Nat /\ Cardinality(Counted) \in Nat
      /\ Cardinality(Dead) \in Nat /\ Cardinality(Asked) \in Nat
  <2>1. /\ Active \subseteq Conns /\ Counted \subseteq Conns /\ Dead \subseteq Conns
        /\ Asked \subseteq Conns
    BY DEF Active, Counted, Dead, Asked
  <2> QED BY <2>1, Subsets
<1>n. /\ stats \in Totals
      /\ stats.active \in Nat /\ stats.dns \in Nat /\ stats.total \in Nat
      /\ stats.reset \in Nat
      /\ stats.active = Cardinality(Active) /\ stats.total = Cardinality(Counted)
      /\ stats.reset = Cardinality(Dead)
      /\ Cardinality(cached) <= stats.dns /\ stats.dns <= Cardinality(Asked)
      /\ (stats.dns > 0 => cached # {})
  BY <1>0 DEF Sums, Totals
<1>1. r.pc \in {"doh", "local"} /\ r.req.host = Host(c)
  BY <1>r DEF Learn, Host
<1>2. /\ running' = running /\ cached' = cached \cup {r.req.host}
      /\ stats' = [stats EXCEPT !.dns = @ + 1]
  BY <1>1 DEF Learn
<1>4. \E s \in ConnRecords : Becomes(c, s) /\ ConnInv(running, s) /\ s.pc = "connect"
      /\ s.verdict = r.verdict
  <2> DEFINE s == [r EXCEPT !.pc = "connect", !.rung = 0]
  <2>a. Becomes(c, s)
    BY <1>r, <1>c, <1>1 DEF Becomes, Learn
  <2>b. s \in ConnRecords
    BY Fields, <1>t, <1>y, <1>k, <1>1, ZenonT(30) DEF Typed, PCs, Members
  <2>e. /\ s.pc = "connect" /\ s.req = r.req /\ s.rung = 0 /\ s.cli = r.cli
        /\ s.srv = r.srv /\ s.taken = r.taken /\ s.sent = r.sent /\ s.heard = r.heard
        /\ s.got = r.got /\ s.relay = r.relay /\ s.verdict = r.verdict
        /\ s.uncut = r.uncut /\ s.stalled = r.stalled /\ s.soft = r.soft
        /\ s.client = r.client /\ s.server = r.server /\ s.replied = r.replied
    BY <1>t DEF ConnRecords
  <2> HIDE DEF s
  <2>g. Place(s) /\ Cut(s)
    BY <1>i, <1>y, <1>k, <1>1, <2>e, SMTT(60)
    DEF Members, PCs, ThreadPlaces, ConnInv, Place, Cut, Relays, Upward, Downward, Broken,
        Ended, Asking, Greeting
  <2>h. Relays(s) /\ Upward(s)
    BY <1>i, <1>y, <1>k, <1>1, <2>e, SMTT(60)
    DEF Members, PCs, ThreadPlaces, ConnInv, Place, Cut, Relays, Upward, Downward, Broken,
        Ended, Asking, Greeting
  <2>i. Downward(s) /\ Ended(running, s)
    BY <1>i, <1>y, <1>k, <1>1, <2>e, SMTT(60)
    DEF Members, PCs, ThreadPlaces, ConnInv, Place, Cut, Relays, Upward, Downward, Broken,
        Ended, Asking, Greeting
  <2> QED BY <2>a, <2>b, <2>e, <2>g, <2>h, <2>i DEF ConnInv
<1>5. PICK s \in ConnRecords :
          /\ Becomes(c, s) /\ ConnInv(running, s) /\ s.pc = "connect"
          /\ s.verdict = r.verdict
  BY <1>4
<1>6. Connections' /\ conn'[c] = s /\ \A d \in Conns \ {c} : conn'[d] = conn[d]
  BY <1>0, <1>2, <1>5, Updated
<1>7. Asked' = Asked \cup {c} /\ c \notin Asked
  BY <1>r, <1>1, <1>5, <1>6 DEF Asked
<1>8. Counted' = Counted /\ Dead' = Dead /\ Active' = Active
  BY <1>r, <1>1, <1>5, <1>6 DEF Counted, Dead, Active
<1>9. Cardinality(Asked') = Cardinality(Asked) + 1
  BY <1>7, <1>m, Subsets
<1>12. r.req.host \in Hosts \ Literal
  BY <1>i, <1>y, <1>1 DEF ConnInv, Place, Members
<1>13. /\ IsFiniteSet(cached') /\ Cardinality(cached') \in Nat
       /\ Cardinality(cached) \in Nat
       /\ Cardinality(cached') <= Cardinality(cached) + 1
  <2>1. /\ IsFiniteSet(cached')
        /\ Cardinality(cached') \in {Cardinality(cached), Cardinality(cached) + 1}
    BY <1>0, <1>2, FS_AddElement
  <2>2. Cardinality(cached) \in Nat
    BY <1>0, FS_CardinalityType
  <2> QED BY <2>1, <2>2
<1>10. /\ stats' \in Totals /\ stats'.active = stats.active /\ stats'.dns = stats.dns + 1
       /\ stats'.total = stats.total /\ stats'.reset = stats.reset
  BY <1>2, <1>n DEF Totals
<1>14. /\ Cardinality(cached') <= stats'.dns /\ stats'.dns <= Cardinality(Asked')
       /\ cached' # {}
  BY <1>2, <1>9, <1>10, <1>13, <1>n, <1>m
<1>11. Sums(stats)'
  BY <1>8, <1>10, <1>14, <1>n DEF Sums
<1> QED BY <1>0, <1>2, <1>6, <1>11, <1>12, <1>13, PartsNext

\* A tunnel is counted once, when both relays have ended (449-466).
LEMMA AccountStep ==
  ASSUME IInv, NEW c \in Conns, Account(c)
  PROVE  IInv'
<1>0. /\ running \in BOOLEAN /\ cached \subseteq Hosts \ Literal /\ IsFiniteSet(cached)
      /\ Connections /\ Sums(stats)
  BY Parts
<1>r. PICK r : r = conn[c]
  OBVIOUS
<1>c. conn \in [Conns -> ConnRecords]
  BY <1>0 DEF Connections
<1>t. r \in ConnRecords
  BY <1>r, <1>c
<1>i. ConnInv(running, r)
  BY <1>r, <1>0 DEF Connections
<1>y. Members(r)
  BY <1>t, MembersOf
<1>k. /\ TRUE \in BOOLEAN /\ FALSE \in BOOLEAN /\ running \in BOOLEAN
      /\ Endpoints \in Nat \ {0} /\ MaxUp \in Nat \ {0, 1} /\ MaxDown \in Nat \ {0}
      /\ 0 \in 0 .. 2 * Endpoints - 1 /\ 0 \in 0 .. MaxUp /\ 1 \in 0 .. MaxUp
      /\ 2 \in 0 .. MaxUp
  BY <1>0, BoundAssumption
<1>m. /\ Active \subseteq Conns /\ Counted \subseteq Conns /\ Dead \subseteq Conns
      /\ Asked \subseteq Conns
      /\ Cardinality(Active) \in Nat /\ Cardinality(Counted) \in Nat
      /\ Cardinality(Dead) \in Nat /\ Cardinality(Asked) \in Nat
  <2>1. /\ Active \subseteq Conns /\ Counted \subseteq Conns /\ Dead \subseteq Conns
        /\ Asked \subseteq Conns
    BY DEF Active, Counted, Dead, Asked
  <2> QED BY <2>1, Subsets
<1>n. /\ stats \in Totals
      /\ stats.active \in Nat /\ stats.dns \in Nat /\ stats.total \in Nat
      /\ stats.reset \in Nat
      /\ stats.active = Cardinality(Active) /\ stats.total = Cardinality(Counted)
      /\ stats.reset = Cardinality(Dead)
      /\ Cardinality(cached) <= stats.dns /\ stats.dns <= Cardinality(Asked)
      /\ (stats.dns > 0 => cached # {})
  BY <1>0 DEF Sums, Totals
<1>1. r.pc = "account"
  BY <1>r DEF Account, At
<1>2. /\ running' = running /\ cached' = cached
      /\ stats' = [stats EXCEPT !.total = @ + 1,
                               !.reset = IF r.heard = 0 THEN @ + 1 ELSE @]
      /\ conn' = [conn EXCEPT ![c].verdict = IF r.heard = 0 THEN "fail" ELSE "success",
                             ![c].pc = "close"]
  BY <1>r DEF Account
<1>3. PICK v : v = IF r.heard = 0 THEN "fail" ELSE "success"
  OBVIOUS
<1>v. v \in {"none", "success", "fail"} /\ v # "none" /\ (v = "fail" <=> r.heard = 0)
  BY <1>3
<1>4. \E s \in ConnRecords : Becomes(c, s) /\ ConnInv(running, s) /\ s.pc = "close"
      /\ s.verdict = v
  <2> DEFINE s == [r EXCEPT !.pc = "close", !.verdict = v]
  <2>a. Becomes(c, s)
    BY <1>r, <1>c, <1>1, <1>2, <1>3, <1>v DEF Becomes, At
  <2>b. s \in ConnRecords
    BY Fields, <1>t, <1>y, <1>k, <1>1, <1>2, <1>3, <1>v, ZenonT(30)
    DEF Typed, PCs, Members
  <2>e. /\ s.pc = "close" /\ s.req = r.req /\ s.rung = r.rung /\ s.cli = r.cli
        /\ s.srv = r.srv /\ s.taken = r.taken /\ s.sent = r.sent /\ s.heard = r.heard
        /\ s.got = r.got /\ s.relay = r.relay /\ s.verdict = v /\ s.uncut = r.uncut
        /\ s.stalled = r.stalled /\ s.soft = r.soft /\ s.client = r.client
        /\ s.server = r.server /\ s.replied = r.replied
    BY <1>t DEF ConnRecords
  <2> HIDE DEF s
  <2>g. Place(s) /\ Cut(s)
    BY <1>i, <1>y, <1>k, <1>1, <1>2, <1>3, <1>v, <2>e, SMTT(60)
    DEF Members, PCs, ThreadPlaces, ConnInv, Place, Cut, Relays, Upward, Downward, Broken,
        Ended, Asking, Greeting
  <2>h. Relays(s) /\ Upward(s)
    BY <1>i, <1>y, <1>k, <1>1, <1>2, <1>3, <1>v, <2>e, SMTT(60)
    DEF Members, PCs, ThreadPlaces, ConnInv, Place, Cut, Relays, Upward, Downward, Broken,
        Ended, Asking, Greeting
  <2>i. Downward(s) /\ Ended(running, s)
    BY <1>i, <1>y, <1>k, <1>1, <1>2, <1>3, <1>v, <2>e, SMTT(60)
    DEF Members, PCs, ThreadPlaces, ConnInv, Place, Cut, Relays, Upward, Downward, Broken,
        Ended, Asking, Greeting
  <2> QED BY <2>a, <2>b, <2>e, <2>g, <2>h, <2>i DEF ConnInv
<1>5. PICK s \in ConnRecords :
          /\ Becomes(c, s) /\ ConnInv(running, s) /\ s.pc = "close" /\ s.verdict = v
  BY <1>4
<1>6. Connections' /\ conn'[c] = s /\ \A d \in Conns \ {c} : conn'[d] = conn[d]
  BY <1>0, <1>2, <1>5, Updated
<1>u. r.verdict = "none"
  BY <1>i, <1>1 DEF ConnInv, Relays
<1>7. Counted' = Counted \cup {c} /\ c \notin Counted /\ c \notin Dead
  BY <1>r, <1>u, <1>v, <1>5, <1>6 DEF Counted, Dead
<1>8. Active' = Active /\ Asked' = Asked
  BY <1>r, <1>1, <1>5, <1>6 DEF Active, Asked
<1>9. Cardinality(Counted') = Cardinality(Counted) + 1
  BY <1>7, <1>m, Subsets
<1>12. Cardinality(Dead') = IF v = "fail" THEN Cardinality(Dead) + 1
                                          ELSE Cardinality(Dead)
  <2>1. CASE v = "fail"
    <3>1. Dead' = Dead \cup {c}
      BY <1>r, <1>5, <1>6, <2>1 DEF Dead
    <3> QED BY <1>7, <1>m, <2>1, <3>1, Subsets
  <2>2. CASE v # "fail"
    <3>1. Dead' = Dead
      BY <1>r, <1>u, <1>5, <1>6, <2>2 DEF Dead
    <3> QED BY <2>2, <3>1
  <2> QED BY <2>1, <2>2
<1>13. PICK n \in Nat : n = IF v = "fail" THEN stats.reset + 1 ELSE stats.reset
  BY <1>n
<1>14. stats' = [stats EXCEPT !.total = stats.total + 1, !.reset = n]
  BY <1>2, <1>v, <1>13
<1>10. /\ stats' \in Totals /\ stats'.active = stats.active /\ stats'.dns = stats.dns
       /\ stats'.total = stats.total + 1 /\ stats'.reset = n
  <2>1. PICK m \in Nat : m = stats.total + 1
    BY <1>n
  <2>2. PICK u : u = [stats EXCEPT !.total = m]
    OBVIOUS
  <2>3. /\ u \in Totals /\ u.active = stats.active /\ u.dns = stats.dns
        /\ u.total = m /\ u.reset = stats.reset
    BY <2>2, <1>n DEF Totals
  <2>4. PICK w : w = [u EXCEPT !.reset = n]
    OBVIOUS
  <2>5. /\ w \in Totals /\ w.active = u.active /\ w.dns = u.dns /\ w.total = u.total
        /\ w.reset = n
    BY <2>3, <2>4, <1>13 DEF Totals
  <2>6. stats' = w
    BY <1>14, <2>1, <2>2, <2>4
  <2> QED BY <2>1, <2>3, <2>5, <2>6
<1>15. n = Cardinality(Dead')
  BY <1>12, <1>13, <1>n
<1>11. Sums(stats)'
  BY <1>2, <1>8, <1>9, <1>10, <1>15, <1>n DEF Sums
<1> QED BY <1>0, <1>2, <1>6, <1>11, PartsNext

\* ... and leaves it in the finally clause, however it ended (390-396).
LEMMA CloseStep ==
  ASSUME IInv, NEW c \in Conns, Close(c)
  PROVE  IInv'
<1>0. /\ running \in BOOLEAN /\ cached \subseteq Hosts \ Literal /\ IsFiniteSet(cached)
      /\ Connections /\ Sums(stats)
  BY Parts
<1>r. PICK r : r = conn[c]
  OBVIOUS
<1>c. conn \in [Conns -> ConnRecords]
  BY <1>0 DEF Connections
<1>t. r \in ConnRecords
  BY <1>r, <1>c
<1>i. ConnInv(running, r)
  BY <1>r, <1>0 DEF Connections
<1>y. Members(r)
  BY <1>t, MembersOf
<1>k. /\ TRUE \in BOOLEAN /\ FALSE \in BOOLEAN /\ running \in BOOLEAN
      /\ Endpoints \in Nat \ {0} /\ MaxUp \in Nat \ {0, 1} /\ MaxDown \in Nat \ {0}
      /\ 0 \in 0 .. 2 * Endpoints - 1 /\ 0 \in 0 .. MaxUp /\ 1 \in 0 .. MaxUp
      /\ 2 \in 0 .. MaxUp
  BY <1>0, BoundAssumption
<1>m. /\ Active \subseteq Conns /\ Counted \subseteq Conns /\ Dead \subseteq Conns
      /\ Asked \subseteq Conns
      /\ Cardinality(Active) \in Nat /\ Cardinality(Counted) \in Nat
      /\ Cardinality(Dead) \in Nat /\ Cardinality(Asked) \in Nat
  <2>1. /\ Active \subseteq Conns /\ Counted \subseteq Conns /\ Dead \subseteq Conns
        /\ Asked \subseteq Conns
    BY DEF Active, Counted, Dead, Asked
  <2> QED BY <2>1, Subsets
<1>n. /\ stats \in Totals
      /\ stats.active \in Nat /\ stats.dns \in Nat /\ stats.total \in Nat
      /\ stats.reset \in Nat
      /\ stats.active = Cardinality(Active) /\ stats.total = Cardinality(Counted)
      /\ stats.reset = Cardinality(Dead)
      /\ Cardinality(cached) <= stats.dns /\ stats.dns <= Cardinality(Asked)
      /\ (stats.dns > 0 => cached # {})
  BY <1>0 DEF Sums, Totals
<1>1. r.pc = "close"
  BY <1>r DEF Close, At
<1>2. running' = running /\ cached' = cached /\ stats' = [stats EXCEPT !.active = @ - 1]
  BY DEF Close
<1>3. PICK v \in {"none", "open", "closed"} :
          v = IF r.srv = "open" THEN "closed" ELSE r.srv
  BY <1>y DEF Members
<1>4. \E s \in ConnRecords : Becomes(c, s) /\ ConnInv(running, s) /\ s.pc = "done"
      /\ s.verdict = r.verdict
  <2> DEFINE s == [r EXCEPT !.cli = "closed", !.pc = "done", !.srv = v]
  <2>a. Becomes(c, s)
    BY <1>r, <1>c, <1>1, <1>3 DEF Becomes, Close
  <2>b. s \in ConnRecords
    BY Fields, <1>t, <1>y, <1>k, <1>1, <1>3, ZenonT(30) DEF Typed, PCs, Members
  <2>e. /\ s.pc = "done" /\ s.req = r.req /\ s.rung = r.rung /\ s.cli = "closed"
        /\ s.srv = v /\ s.taken = r.taken /\ s.sent = r.sent /\ s.heard = r.heard
        /\ s.got = r.got /\ s.relay = r.relay /\ s.verdict = r.verdict
        /\ s.uncut = r.uncut /\ s.stalled = r.stalled /\ s.soft = r.soft
        /\ s.client = r.client /\ s.server = r.server /\ s.replied = r.replied
    BY <1>t DEF ConnRecords
  <2> HIDE DEF s
  <2>g. Place(s) /\ Cut(s)
    BY <1>i, <1>y, <1>k, <1>1, <1>3, <2>e, SMTT(60)
    DEF Members, PCs, ThreadPlaces, ConnInv, Place, Cut, Relays, Upward, Downward, Broken,
        Ended, Asking, Greeting
  <2>h. Relays(s) /\ Upward(s)
    BY <1>i, <1>y, <1>k, <1>1, <1>3, <2>e, SMTT(60)
    DEF Members, PCs, ThreadPlaces, ConnInv, Place, Cut, Relays, Upward, Downward, Broken,
        Ended, Asking, Greeting
  <2>i. Downward(s) /\ Ended(running, s)
    BY <1>i, <1>y, <1>k, <1>1, <1>3, <2>e, SMTT(60)
    DEF Members, PCs, ThreadPlaces, ConnInv, Place, Cut, Relays, Upward, Downward, Broken,
        Ended, Asking, Greeting
  <2> QED BY <2>a, <2>b, <2>e, <2>g, <2>h, <2>i DEF ConnInv
<1>5. PICK s \in ConnRecords :
          /\ Becomes(c, s) /\ ConnInv(running, s) /\ s.pc = "done"
          /\ s.verdict = r.verdict
  BY <1>4
<1>6. Connections' /\ conn'[c] = s /\ \A d \in Conns \ {c} : conn'[d] = conn[d]
  BY <1>0, <1>2, <1>5, Updated
<1>7. Active' = Active \ {c} /\ c \in Active
  BY <1>r, <1>1, <1>5, <1>6 DEF Active
<1>8. Counted' = Counted /\ Dead' = Dead /\ Asked' = Asked
  BY <1>r, <1>1, <1>5, <1>6 DEF Counted, Dead, Asked
<1>9. Cardinality(Active') = Cardinality(Active) - 1 /\ Cardinality(Active') \in Nat
  BY <1>7, <1>m, Subsets
<1>10. /\ stats' \in Totals /\ stats'.active = stats.active - 1 /\ stats'.dns = stats.dns
       /\ stats'.total = stats.total /\ stats'.reset = stats.reset
  BY <1>2, <1>9, <1>n DEF Totals
<1>11. Sums(stats)'
  BY <1>2, <1>8, <1>9, <1>10, <1>n DEF Sums
<1> QED BY <1>0, <1>2, <1>6, <1>11, PartsNext

\* After a stop nothing is promised about the end of a stream.
LEMMA StopStep ==
  ASSUME IInv, Stop
  PROVE  IInv'
<1>0. /\ running \in BOOLEAN /\ cached \subseteq Hosts \ Literal /\ IsFiniteSet(cached)
      /\ Connections /\ Sums(stats)
  BY Parts
<1>1. /\ running = TRUE /\ running' = FALSE /\ cached' = cached /\ stats' = stats
      /\ conn' = conn
  BY <1>0 DEF Stop
<1>2. Connections'
  BY <1>0, <1>1 DEF Connections, ConnInv, Ended
<1>3. Sums(stats)'
  BY <1>0, <1>1 DEF Sums, Active, Counted, Dead, Asked
<1> QED BY <1>0, <1>1, <1>2, <1>3, PartsNext

\* No connection has done anything yet.
LEMMA ProxyInit == Init => IInv
<1> SUFFICES ASSUME Init PROVE IInv
  OBVIOUS
<1>1. ASSUME NEW c \in Conns
      PROVE  /\ conn[c] \in ConnRecords /\ ConnInv(running, conn[c])
             /\ conn[c].pc = "new" /\ conn[c].verdict = "none"
  <2>1. PICK q \in RequestRecords : conn[c] = NewConn(q)
    BY DEF Init
  <2>2. PICK f, e : f = [t \in Threads |-> "off"] /\ e = <<>>
    OBVIOUS
  <2>3. f \in [Threads -> ThreadPlaces] /\ f["up"] = "off" /\ f["down"] = "off"
    BY <2>2 DEF Threads, ThreadPlaces
  <2>4. e \in Seq(1 .. MaxUp) /\ Len(e) = 0 /\ Numbered(e)
    <3>1. e \in Seq(1 .. MaxUp) /\ Len(e) = 0
      BY <2>2
    <3>2. DOMAIN e = 1 .. 0
      BY <3>1, LenProperties
    <3> QED BY <3>1, <3>2 DEF Numbered
  <2>5. PICK r : r = [pc |-> "new", req |-> q, rung |-> 0, cli |-> "open", srv |-> "none",
     taken |-> 0, sent |-> e, heard |-> 0, got |-> 0,
     relay |-> f, verdict |-> "none",
     uncut |-> FALSE, stalled |-> FALSE, soft |-> FALSE,
     client |-> "open", server |-> "quiet", replied |-> 0]
    OBVIOUS
  <2>6. conn[c] = r
    BY <2>1, <2>2, <2>5 DEF NewConn
  <2>7. /\ 0 \in 0 .. 2 * Endpoints - 1 /\ 0 \in 0 .. MaxUp /\ 0 \in 0 .. MaxDown
        /\ "new" \in PCs
        /\ MaxUp \in Nat /\ MaxDown \in Nat
    BY BoundAssumption DEF PCs
  <2>8. r \in ConnRecords
    BY <2>3, <2>4, <2>5, <2>7 DEF ConnRecords, ThreadPlaces
  <2>9. /\ r.pc = "new" /\ r.cli = "open" /\ r.srv = "none" /\ r.taken = 0 /\ r.sent = e
        /\ r.heard = 0 /\ r.got = 0
        /\ r.relay = f /\ r.verdict = "none" /\ r.uncut = FALSE /\ r.soft = FALSE
        /\ r.client = "open" /\ r.server = "quiet" /\ r.replied = 0
    BY <2>5
  <2>10. ConnInv(running, r)
    BY <2>3, <2>4, <2>9, SMTT(30)
    DEF ConnInv, Place, Cut, Relays, Upward, Downward, Broken, Ended, Asking, Greeting
  <2> QED BY <2>6, <2>8, <2>9, <2>10
<1>2. conn \in [Conns -> ConnRecords]
  BY <1>1 DEF Init
<1>3. Connections
  BY <1>1, <1>2 DEF Connections
<1>4. Active = {} /\ Counted = {} /\ Dead = {} /\ Asked = {}
  BY <1>1 DEF Active, Counted, Dead, Asked
<1>5. /\ running = TRUE /\ cached = {}
      /\ stats = [active |-> 0, dns |-> 0, total |-> 0, reset |-> 0]
  BY DEF Init
<1>6. Cardinality({}) = 0 /\ IsFiniteSet({})
  BY FS_EmptySet
<1>7. Sums(stats)
  BY <1>4, <1>5, <1>6 DEF Sums, Totals
<1> QED BY <1>3, <1>5, <1>6, <1>7, Parts

\* Every step of Next is one of these.
LEMMA ProxyStep == IInv /\ [Next]_vars => IInv'
<1> SUFFICES ASSUME IInv, [Next]_vars PROVE IInv'
  OBVIOUS
<1>1. CASE UNCHANGED vars
  BY <1>1 DEF vars, IInv, TypeOK, Counts, Counters, Asked
<1>2. CASE Stop
  BY <1>2, StopStep
<1>3. ASSUME NEW c \in Conns,
             Handler(c) \/ (\E t \in Threads : Relay(c, t)) \/ Environment(c)
      PROVE  IInv'
  <2>1. TypeOK /\ ConnInv(running, conn[c])
    BY DEF IInv
  <2>2. CASE Begin(c)
    BY <2>2, BeginStep
  <2>3. CASE Learn(c)
    BY <2>3, LearnStep
  <2>4. CASE Account(c)
    BY <2>4, AccountStep
  <2>5. CASE Close(c)
    BY <2>5, CloseStep
  <2>6. CASE \/ Connect(c) \/ ReadHello(c) \/ SendRaw(c) \/ SendRecord(c)
            \/ SendFallback(c) \/ SendPiece(c)
    <3>1. Private
      BY <2>6 DEF Connect, ReadHello, SendRaw, SendRecord, SendFallback, SendPiece
    <3> QED BY <2>1, <2>6, <3>1, SendKeeps, QuietStep
  <2>7. CASE \/ ReadRequest(c) \/ Resolve(c) \/ EndpointFails(c) \/ ReadMore(c)
            \/ StopsHalfWay(c) \/ GiveUp(c) \/ Pipe(c) \/ Join(c)
    <3>1. Private
      BY <2>7
      DEF ReadRequest, Resolve, EndpointFails, ReadMore, StopsHalfWay, GiveUp, Pipe, Join
    <3> QED BY <2>1, <2>7, <3>1, HandlerKeeps, QuietStep
  <2>8. ASSUME NEW t \in Threads, Relay(c, t) PROVE IInv'
    BY <2>1, <2>8, RelayKeeps, QuietStep DEF Relay
  <2>9. CASE Environment(c)
    <3>1. Keeps(c)
      BY <2>1, <2>9, EnvKeeps, RelayKeeps DEF Environment
    <3> QED BY <2>9, <3>1, QuietStep DEF Environment
  <2> QED BY <1>3, <2>2, <2>3, <2>4, <2>5, <2>6, <2>7, <2>8, <2>9 DEF Handler
<1> QED BY <1>1, <1>2, <1>3 DEF Next

-----------------------------------------------------------------------------
(* The theorems *)

\* The invariant holds throughout.
THEOREM Inductive == Spec => []IInv
  BY ProxyInit, ProxyStep, PTL DEF Spec

\* The gauge returns to zero, every tunnel that has reached the relays is counted
\* once, and no more names are stored than were looked up, for every number of
\* connections (259-262, 294-305, 313-314, 390-396, 449-466).
THEOREM CountersAgree == Spec => []ProxyInv
<1>1. IInv => ProxyInv
  BY DEF IInv, ProxyInv, Counts
<1> QED BY <1>1, Inductive, PTL

\* The host name leaves in one record only for an excluded host, for a hello that
\* shows no record header, for one that stopped half way, and after an error that
\* is none of the connection's (426-437, 523-563).
THEOREM NameLeavesCut == Spec => []HelloCut
<1>1. IInv => HelloCut
  BY DEF IInv, ConnInv, Cut, HelloCut, Host
<1> QED BY <1>1, Inductive, PTL

\* The relays copy both streams in order and once; the handler waits for both
\* threads; a tunnel is reported dead only if its client heard nothing; and a
\* client that keeps its side open has the whole reply of a server that ends its
\* stream before the proxy closes the connection (565-605).
THEOREM CopiesFaithfully == Spec => []Faithful
<1>1. IInv => Faithful
  <2> SUFFICES ASSUME IInv, NEW c \in Conns, NEW r, r = conn[c]
               PROVE  /\ ~r.soft => \A i \in DOMAIN r.sent : r.sent[i] = i
                      /\ r.pc # "join" =>
                            \A t \in Threads : r.relay[t] \in {"off", "done"}
                      /\ r.verdict = "fail" => r.got = 0
                      /\ (/\ r.relay["down"] = "done" /\ r.client = "open"
                          /\ r.server = "fin" /\ running)
                            => r.got = r.replied
    BY DEF Faithful
  <2>2. r \in ConnRecords /\ ConnInv(running, r) /\ running \in BOOLEAN
    BY DEF IInv, TypeOK
  <2>3. Members(r)
    BY <2>2, MembersOf
  <2>4. ~r.soft => \A i \in DOMAIN r.sent : r.sent[i] = i
    BY <2>2 DEF ConnInv, Upward, Numbered
  <2>5. r.pc # "join" => \A t \in Threads : r.relay[t] \in {"off", "done"}
    BY <2>2 DEF ConnInv, Relays, Threads
  <2>6. r.verdict = "fail" => r.got = 0
    BY <2>2, <2>3 DEF ConnInv, Relays, Downward, Members
  <2>7. (/\ r.relay["down"] = "done" /\ r.client = "open"
         /\ r.server = "fin" /\ running)
           => r.got = r.replied
    BY <2>2, <2>3 DEF ConnInv, Ended, Broken, Members, ThreadPlaces
  <2> QED BY <2>4, <2>5, <2>6, <2>7
<1> QED BY <1>1, Inductive, PTL
=============================================================================
