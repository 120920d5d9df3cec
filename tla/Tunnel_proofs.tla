---------------------------- MODULE Tunnel_proofs ----------------------------
(***************************************************************************)
(* Proofs about Tunnel, for every number of connections and flows, every   *)
(* whitelist and every server: a goroutine that has returned holds no      *)
(* socket, the stream reaches the application without a gap, and a name is *)
(* shown in one piece only where fragments were cut.                       *)
(*                                                                         *)
(* What a step does to a connection depends on that connection and on what *)
(* the session shares, so the inductive invariant is a predicate on one    *)
(* record of conn and the hosts learned.                                   *)
(***************************************************************************)
EXTENDS Tunnel, SequenceTheorems, TLAPS

-----------------------------------------------------------------------------
(* The inductive invariant, for the record r of one connection *)

\* The sockets that go with each place of pipeTCP.
Sockets(r) ==
    /\ r.pc \in {"none", "first", "dial"} => r.up = "none" /\ r.nup = 0
    /\ r.pc \in {"send", "sending", "peek"} => r.up = "open" /\ r.nup = 1
    /\ r.pc = "redial" => r.up = "closed" /\ r.nup = 1
    /\ r.pc \in {"resend", "repeek"} => r.up = "open" /\ r.nup = 2
    /\ r.pc \in {"forward", "copy"} => r.up = "open" /\ r.nup \in 1 .. 2
    /\ r.pc = "done" => r.up # "open" /\ r.local # "open"

\* What the server has been sent and what it has said go together.
Server(r) ==
    /\ r.read <= r.sent
    /\ r.srv = "quiet" => r.sent = 0
    /\ r.hello \in {"none", "part"} => r.sent = 0
    /\ r.hello = "whole" /\ r.kind = "tls" /\ r.sent > 0 => r.host \notin Blocked
    /\ r.pc \in {"send", "resend"} => r.hello = "none"
    /\ r.pc = "sending" => r.hello = "part"
    /\ r.pc = "peek" => r.hello = "cut"
    /\ r.pc = "repeek" => r.hello = "whole"

\* The application has received all that was read from the server, in order,
\* but for the first piece while it is in the hands of pipeTCP.
Stream(r) ==
    /\ r.pc \notin {"forward", "copy", "done"} => r.read = 0 /\ r.got = <<>>
    /\ r.pc = "forward" => r.read = 1 /\ r.got = <<>>
    /\ r.pc = "copy" => Len(r.got) = r.read
    /\ \A i \in DOMAIN r.got : r.got[i] = <<r.nup, i>>

\* How a connection gets to its second try: its server rejects fragments.
Retry(r) ==
    /\ r.pc = "sending" => r.kind \in {"tls", "http"}
    /\ r.pc \in {"peek", "redial", "resend", "repeek"} => r.kind = "tls"
    /\ r.pc \in {"send", "sending", "peek"} => r.srv # "eof"
    /\ r.kind = "tls" /\ r.pc \in {"send", "sending", "peek"} /\ r.srv = "reset"
          => r.pc # "send" /\ r.rejected /\ r.host \in Rejects
    /\ r.pc \in {"redial", "resend", "repeek"} => r.rejected /\ r.host \in Rejects

\* Why the whole hello was sent, with nf the hosts learned.
Shown(r, nf) ==
    r.kind = "tls" /\ r.hello = "whole" /\ ~r.white
        => r.host \in nf \/ (r.rejected /\ r.nup = 2)

ConnInv(r, nf) == Sockets(r) /\ Server(r) /\ Stream(r) /\ Retry(r) /\ Shown(r, nf)

Learned == noFrag \subseteq Rejects \ Blocked

SessionInv == TypeOK /\ Learned /\ \A c \in Conns : ConnInv(conn[c], noFrag)

\* What a step of connection c makes of its record.
Becomes(c, s) == conn' = [conn EXCEPT ![c] = s]

\* A step of connection c that keeps the invariant of its record.
Keeps(c) ==
    \E s \in ConnRecords : Becomes(c, s) /\ ConnInv(s, noFrag)

Typed(s) == s \in ConnRecords

\* A field of a record takes any value of its type.
LEMMA Fields ==
  ASSUME NEW r \in ConnRecords
  PROVE  /\ \A x \in {"none", "first", "dial", "send", "sending", "peek", "redial",
                        "resend", "repeek", "forward", "copy", "done"} :
                Typed([r EXCEPT !.pc = x])
         /\ \A x \in {"off", "run", "done"} : Typed([r EXCEPT !.copyUp = x])
         /\ \A x \in {"none", "open", "closed", "aborted"} :
                Typed([r EXCEPT !.local = x])
         /\ \A x \in {"open", "half", "gone"} : Typed([r EXCEPT !.client = x])
         /\ \A x \in {"none", "open", "closed"} : Typed([r EXCEPT !.up = x])
         /\ \A x \in 0 .. 2 : Typed([r EXCEPT !.nup = x])
         /\ \A x \in {"none", "part", "cut", "whole"} :
                Typed([r EXCEPT !.hello = x])
         /\ \A x \in {"quiet", "talking", "eof", "reset"} :
                Typed([r EXCEPT !.srv = x])
         /\ \A x \in 0 .. MaxData : Typed([r EXCEPT !.sent = x])
         /\ \A x \in 0 .. MaxData : Typed([r EXCEPT !.read = x])
         /\ \A x \in Seq((1 .. 2) \X (1 .. MaxData)) :
                Typed([r EXCEPT !.got = x])
         /\ \A x \in BOOLEAN : Typed([r EXCEPT !.rejected = x])
         /\ \A x \in Kinds : Typed([r EXCEPT !.kind = x])
         /\ \A x \in Hosts : Typed([r EXCEPT !.host = x])
         /\ \A x \in BOOLEAN : Typed([r EXCEPT !.white = x])
<1>1. \A x \in {"none", "first", "dial", "send", "sending", "peek", "redial",
                     "resend", "repeek", "forward", "copy", "done"} :
       Typed([r EXCEPT !.pc = x])
  BY DEF Typed, ConnRecords
<1>2. \A x \in {"off", "run", "done"} : Typed([r EXCEPT !.copyUp = x])
  BY DEF Typed, ConnRecords
<1>3. \A x \in {"none", "open", "closed", "aborted"} :
       Typed([r EXCEPT !.local = x])
  BY DEF Typed, ConnRecords
<1>4. \A x \in {"open", "half", "gone"} : Typed([r EXCEPT !.client = x])
  BY DEF Typed, ConnRecords
<1>5. \A x \in {"none", "open", "closed"} : Typed([r EXCEPT !.up = x])
  BY DEF Typed, ConnRecords
<1>6. \A x \in 0 .. 2 : Typed([r EXCEPT !.nup = x])
  BY DEF Typed, ConnRecords
<1>7. \A x \in {"none", "part", "cut", "whole"} :
       Typed([r EXCEPT !.hello = x])
  BY DEF Typed, ConnRecords
<1>8. \A x \in {"quiet", "talking", "eof", "reset"} :
       Typed([r EXCEPT !.srv = x])
  BY DEF Typed, ConnRecords
<1>9. \A x \in 0 .. MaxData : Typed([r EXCEPT !.sent = x])
  BY DEF Typed, ConnRecords
<1>10. \A x \in 0 .. MaxData : Typed([r EXCEPT !.read = x])
  BY DEF Typed, ConnRecords
<1>11. \A x \in Seq((1 .. 2) \X (1 .. MaxData)) : Typed([r EXCEPT !.got = x])
  BY DEF Typed, ConnRecords
<1>12. \A x \in BOOLEAN : Typed([r EXCEPT !.rejected = x])
  BY DEF Typed, ConnRecords
<1>13. \A x \in Kinds : Typed([r EXCEPT !.kind = x])
  BY DEF Typed, ConnRecords
<1>14. \A x \in Hosts : Typed([r EXCEPT !.host = x])
  BY DEF Typed, ConnRecords
<1>15. \A x \in BOOLEAN : Typed([r EXCEPT !.white = x])
  BY DEF Typed, ConnRecords
<1> QED BY <1>1, <1>2, <1>3, <1>4, <1>5, <1>6, <1>7, <1>8, <1>9, <1>10,
           <1>11, <1>12, <1>13, <1>14, <1>15

\* Every return of pipeTCP closes what is open.
LEMMA ReturnKeeps ==
  ASSUME TypeOK, NEW c \in Conns, ConnInv(conn[c], noFrag),
         conn[c].pc # "none", Return(c)
  PROVE  Keeps(c)
<1>r. PICK r \in ConnRecords : r = conn[c] /\ ConnInv(r, noFrag)
  BY DEF TypeOK
<1>i. ConnInv(r, noFrag)
  BY <1>r
<1>c. conn \in [Conns -> ConnRecords]
  BY DEF TypeOK
<1>w. ASSUME NEW s \in ConnRecords, Becomes(c, s), ConnInv(s, noFrag)
      PROVE  Keeps(c)
  BY <1>w DEF Keeps
<1>k. /\ 0 \in 0 .. MaxData /\ {TRUE, FALSE} \subseteq BOOLEAN
      /\ r.read + 1 \in Nat /\ r.up \in {"none", "open", "closed"}
  BY MaxDataAssumption DEF ConnRecords
<1> USE DEF Becomes
<1>1. r.pc # "none"
  BY <1>r
<1>2. CASE r.up = "open" /\ r.local = "open"
  <2> DEFINE s == [r EXCEPT !.pc = "done", !.up = "closed", !.local = "closed"]
  <2>l. r.local \in {"none", "open", "closed", "aborted"}
    BY DEF ConnRecords
  <2>a. Becomes(c, s)
    BY <1>r, <1>c, <1>2 DEF Return
  <2>b. s \in ConnRecords
    BY Fields, <1>2, <2>l, <1>k, ZenonT(30) DEF Typed
  <2>f. Sockets(s) /\ Server(s) /\ Retry(s) /\ Shown(s, noFrag)
    BY <1>i, <1>2, <2>l, SMTT(60) DEF ConnInv, Sockets, Server, Retry, Shown,
       Stream, ConnRecords, Kinds
  <2>e. /\ s.pc = "done" /\ s.read = r.read /\ s.nup = r.nup
        /\ s.got = r.got
    BY SMTT(30) DEF ConnRecords
  <2> HIDE DEF s
  <2>d. Stream(s)
    BY <1>i, <1>2, <2>l, <2>e DEF ConnInv, Stream, Sockets, Server,
       ConnRecords
  <2> QED BY <1>w, <2>a, <2>b, <2>f, <2>d DEF ConnInv
<1>3. CASE r.up = "open" /\ r.local # "open"
  <2> DEFINE s == [r EXCEPT !.pc = "done", !.up = "closed", !.local = r.local]
  <2>l. r.local \in {"none", "open", "closed", "aborted"}
    BY DEF ConnRecords
  <2>a. Becomes(c, s)
    BY <1>r, <1>c, <1>3 DEF Return
  <2>b. s \in ConnRecords
    BY Fields, <1>3, <2>l, <1>k, ZenonT(30) DEF Typed
  <2>f. Sockets(s) /\ Server(s) /\ Retry(s) /\ Shown(s, noFrag)
    BY <1>i, <1>3, <2>l, SMTT(60) DEF ConnInv, Sockets, Server, Retry, Shown,
       Stream, ConnRecords, Kinds
  <2>e. /\ s.pc = "done" /\ s.read = r.read /\ s.nup = r.nup
        /\ s.got = r.got
    BY SMTT(30) DEF ConnRecords
  <2> HIDE DEF s
  <2>d. Stream(s)
    BY <1>i, <1>3, <2>l, <2>e DEF ConnInv, Stream, Sockets, Server,
       ConnRecords
  <2> QED BY <1>w, <2>a, <2>b, <2>f, <2>d DEF ConnInv
<1>4. CASE r.up # "open" /\ r.local = "open"
  <2> DEFINE s == [r EXCEPT !.pc = "done", !.up = r.up, !.local = "closed"]
  <2>l. r.local \in {"none", "open", "closed", "aborted"}
    BY DEF ConnRecords
  <2>a. Becomes(c, s)
    BY <1>r, <1>c, <1>4 DEF Return
  <2>b. s \in ConnRecords
    BY Fields, <1>4, <2>l, <1>k, ZenonT(30) DEF Typed
  <2>f. Sockets(s) /\ Server(s) /\ Retry(s) /\ Shown(s, noFrag)
    BY <1>i, <1>4, <2>l, SMTT(60) DEF ConnInv, Sockets, Server, Retry, Shown,
       Stream, ConnRecords, Kinds
  <2>e. /\ s.pc = "done" /\ s.read = r.read /\ s.nup = r.nup
        /\ s.got = r.got
    BY SMTT(30) DEF ConnRecords
  <2> HIDE DEF s
  <2>d. Stream(s)
    BY <1>i, <1>4, <2>l, <2>e DEF ConnInv, Stream, Sockets, Server,
       ConnRecords
  <2> QED BY <1>w, <2>a, <2>b, <2>f, <2>d DEF ConnInv
<1>5. CASE r.up # "open" /\ r.local # "open"
  <2> DEFINE s == [r EXCEPT !.pc = "done", !.up = r.up, !.local = r.local]
  <2>l. r.local \in {"none", "open", "closed", "aborted"}
    BY DEF ConnRecords
  <2>a. Becomes(c, s)
    BY <1>r, <1>c, <1>5 DEF Return
  <2>b. s \in ConnRecords
    BY Fields, <1>5, <2>l, <1>k, ZenonT(30) DEF Typed
  <2>f. Sockets(s) /\ Server(s) /\ Retry(s) /\ Shown(s, noFrag)
    BY <1>i, <1>5, <2>l, SMTT(60) DEF ConnInv, Sockets, Server, Retry, Shown,
       Stream, ConnRecords, Kinds
  <2>e. /\ s.pc = "done" /\ s.read = r.read /\ s.nup = r.nup
        /\ s.got = r.got
    BY SMTT(30) DEF ConnRecords
  <2> HIDE DEF s
  <2>d. Stream(s)
    BY <1>i, <1>5, <2>l, <2>e DEF ConnInv, Stream, Sockets, Server,
       ConnRecords
  <2> QED BY <1>w, <2>a, <2>b, <2>f, <2>d DEF ConnInv
<1> QED BY <1>2, <1>3, <1>4, <1>5

\* The copying starts with nothing read yet, once the first bytes are out.
LEMMA StartCopyKeeps ==
  ASSUME TypeOK, NEW c \in Conns, ConnInv(conn[c], noFrag),
         NEW first \in {"cut", "whole"}, StartCopy(c, first),
         conn[c].pc \in {"send", "sending", "peek", "repeek"},
         conn[c].pc = "repeek" => first = "whole",
         (conn[c].pc = "send" /\ first = "whole" /\ conn[c].kind = "tls"
            /\ ~conn[c].white) => conn[c].host \in noFrag,
         conn[c].pc \in {"sending", "peek"} => first = "cut"
  PROVE  Keeps(c)
<1>r. PICK r \in ConnRecords : r = conn[c] /\ ConnInv(r, noFrag)
  BY DEF TypeOK
<1>i. ConnInv(r, noFrag)
  BY <1>r
<1>c. conn \in [Conns -> ConnRecords]
  BY DEF TypeOK
<1>w. ASSUME NEW s \in ConnRecords, Becomes(c, s), ConnInv(s, noFrag)
      PROVE  Keeps(c)
  BY <1>w DEF Keeps
<1>k. /\ 0 \in 0 .. MaxData /\ {TRUE, FALSE} \subseteq BOOLEAN
      /\ r.read + 1 \in Nat /\ r.up \in {"none", "open", "closed"}
  BY MaxDataAssumption DEF ConnRecords
<1> USE DEF Becomes
<1>1. /\ r.pc \in {"send", "sending", "peek", "repeek"}
      /\ r.pc = "repeek" => first = "whole"
      /\ r.pc = "send" /\ first = "whole" /\ r.kind = "tls" /\ ~r.white
            => r.host \in noFrag
      /\ r.pc \in {"sending", "peek"} => first = "cut"
  BY <1>r
<1>2. first \in {"none", "part", "cut", "whole"}
  OBVIOUS
<1> DEFINE s == [r EXCEPT !.pc = "copy", !.copyUp = "run", !.hello = first]
<1>a. Becomes(c, s)
  BY <1>r, <1>c, <1>1 DEF StartCopy
<1>b. s \in ConnRecords
  BY Fields, <1>1, <1>2, <1>k, ZenonT(30) DEF Typed
<1>f. Sockets(s) /\ Server(s) /\ Retry(s) /\ Shown(s, noFrag)
  BY <1>i, <1>1, <1>2, SMTT(60) DEF ConnInv, Sockets, Server, Retry, Shown,
     Stream, ConnRecords, Kinds
<1>e. /\ s.pc = "copy" /\ s.read = r.read /\ s.nup = r.nup
      /\ s.got = r.got
  BY SMTT(30) DEF ConnRecords
<1> HIDE DEF s
<1>d. Stream(s)
  BY <1>i, <1>1, <1>2, <1>e DEF ConnInv, Stream, Sockets, Server, ConnRecords
<1> QED BY <1>w, <1>a, <1>b, <1>f, <1>d DEF ConnInv

\* The steps of pipeTCP from one place to the next, and the end of the
\* goroutine that copies up.
LEMMA PlaceKeeps ==
  ASSUME TypeOK, NEW c \in Conns, ConnInv(conn[c], noFrag),
         \/ conn[c].pc = "first" /\ Goto(c, "dial")
         \/ conn[c].pc = "dial" /\ Dialled(c, "send")
         \/ conn[c].pc = "redial" /\ Dialled(c, "resend")
         \/ SendFirstPieces(c)
         \/ /\ conn[c].pc = "sending" /\ conn[c].srv # "reset" /\ conn[c].kind # "http"
            /\ conn' = [conn EXCEPT ![c].pc = "peek", ![c].hello = "cut"]
         \/ /\ conn[c].pc \in {"peek", "repeek"} /\ DataReady(c)
            /\ conn' = [conn EXCEPT ![c].pc = "forward", ![c].read = @ + 1]
         \/ /\ conn[c].pc = "peek" /\ Ended(c)
            /\ conn' = [conn EXCEPT ![c].pc = "redial", ![c].up = "closed"]
         \/ /\ conn[c].pc = "resend"
            /\ conn' = [conn EXCEPT ![c].pc = "repeek", ![c].hello = "whole"]
         \/ /\ conn[c].pc = "forward"
            /\ conn' = [conn EXCEPT ![c].pc = "copy", ![c].copyUp = "run",
                             ![c].got = Append(@, <<conn[c].nup, conn[c].read>>)]
         \/ /\ conn[c].pc = "copy" /\ DataReady(c)
            /\ conn' = [conn EXCEPT ![c].read = @ + 1,
                             ![c].got = Append(@, <<conn[c].nup, conn[c].read + 1>>)]
         \/ CopyUpEnds(c)
  PROVE  Keeps(c)
<1>r. PICK r \in ConnRecords : r = conn[c] /\ ConnInv(r, noFrag)
  BY DEF TypeOK
<1>i. ConnInv(r, noFrag)
  BY <1>r
<1>c. conn \in [Conns -> ConnRecords]
  BY DEF TypeOK
<1>w. ASSUME NEW s \in ConnRecords, Becomes(c, s), ConnInv(s, noFrag)
      PROVE  Keeps(c)
  BY <1>w DEF Keeps
<1>k. /\ 0 \in 0 .. MaxData /\ {TRUE, FALSE} \subseteq BOOLEAN
      /\ r.read + 1 \in Nat /\ r.up \in {"none", "open", "closed"}
  BY MaxDataAssumption DEF ConnRecords
<1> USE DEF Becomes
<1>1. CASE conn[c].pc = "first" /\ Goto(c, "dial")
  <2>1. r.pc = "first"
    BY <1>r, <1>1 DEF Goto
  <2> DEFINE s == [r EXCEPT !.pc = "dial"]
  <2>a. Becomes(c, s)
    BY <1>r, <1>c, <1>1, <2>1 DEF Goto
  <2>b. s \in ConnRecords
    BY Fields, <2>1, <1>k, ZenonT(30) DEF Typed
  <2>f. Sockets(s) /\ Server(s) /\ Retry(s) /\ Shown(s, noFrag)
    BY <1>i, <2>1, SMTT(60) DEF ConnInv, Sockets, Server, Retry, Shown,
       Stream, ConnRecords, Kinds
  <2>e. /\ s.pc = "dial" /\ s.read = r.read /\ s.nup = r.nup
        /\ s.got = r.got
    BY SMTT(30) DEF ConnRecords
  <2> HIDE DEF s
  <2>d. Stream(s)
    BY <1>i, <2>1, <2>e DEF ConnInv, Stream, Sockets, Server, ConnRecords
  <2> QED BY <1>w, <2>a, <2>b, <2>f, <2>d DEF ConnInv
<1>2. CASE conn[c].pc = "dial" /\ Dialled(c, "send")
  <2>1. r.pc = "dial"
    BY <1>r, <1>2 DEF Dialled
  <2> DEFINE s == [r EXCEPT !.pc = "send", !.up = "open", !.nup = @ + 1,
                         !.hello = "none", !.srv = "quiet", !.sent = 0, !.read = 0]
  <2>a. Becomes(c, s)
    BY <1>r, <1>c, <1>2, <2>1 DEF Dialled
  <2>t. r.nup + 1 \in 0 .. 2
    BY <1>i, <2>1, MaxDataAssumption DEF ConnInv, Sockets, ConnRecords
  <2>b. s \in ConnRecords
    BY Fields, <2>1, <2>t, <1>k, ZenonT(30) DEF Typed
  <2>f. Sockets(s) /\ Server(s) /\ Retry(s) /\ Shown(s, noFrag)
    BY <1>i, <2>1, SMTT(60) DEF ConnInv, Sockets, Server, Retry, Shown,
       Stream, ConnRecords, Kinds
  <2>e. /\ s.pc = "send" /\ s.read = 0 /\ s.nup = r.nup + 1
        /\ s.got = r.got
    BY SMTT(30) DEF ConnRecords
  <2> HIDE DEF s
  <2>d. Stream(s)
    BY <1>i, <2>1, <2>t, <2>e DEF ConnInv, Stream, Sockets, Server,
       ConnRecords
  <2> QED BY <1>w, <2>a, <2>b, <2>f, <2>d DEF ConnInv
<1>3. CASE conn[c].pc = "redial" /\ Dialled(c, "resend")
  <2>1. r.pc = "redial"
    BY <1>r, <1>3 DEF Dialled
  <2> DEFINE s == [r EXCEPT !.pc = "resend", !.up = "open", !.nup = @ + 1,
                         !.hello = "none", !.srv = "quiet", !.sent = 0, !.read = 0]
  <2>a. Becomes(c, s)
    BY <1>r, <1>c, <1>3, <2>1 DEF Dialled
  <2>t. r.nup + 1 \in 0 .. 2
    BY <1>i, <2>1, MaxDataAssumption DEF ConnInv, Sockets, ConnRecords
  <2>b. s \in ConnRecords
    BY Fields, <2>1, <2>t, <1>k, ZenonT(30) DEF Typed
  <2>f. Sockets(s) /\ Server(s) /\ Retry(s) /\ Shown(s, noFrag)
    BY <1>i, <2>1, SMTT(60) DEF ConnInv, Sockets, Server, Retry, Shown,
       Stream, ConnRecords, Kinds
  <2>e. /\ s.pc = "resend" /\ s.read = 0 /\ s.nup = r.nup + 1
        /\ s.got = r.got
    BY SMTT(30) DEF ConnRecords
  <2> HIDE DEF s
  <2>d. Stream(s)
    BY <1>i, <2>1, <2>t, <2>e DEF ConnInv, Stream, Sockets, Server,
       ConnRecords
  <2> QED BY <1>w, <2>a, <2>b, <2>f, <2>d DEF ConnInv
<1>4. CASE SendFirstPieces(c)
  <2>1. r.pc = "send" /\ r.kind \in {"tls", "http"}
    BY <1>r, <1>4 DEF SendFirstPieces, Cuts
  <2> DEFINE s == [r EXCEPT !.pc = "sending", !.hello = "part"]
  <2>a. Becomes(c, s)
    BY <1>r, <1>c, <1>4, <2>1 DEF SendFirstPieces, Cuts
  <2>b. s \in ConnRecords
    BY Fields, <2>1, <1>k, ZenonT(30) DEF Typed
  <2>f. Sockets(s) /\ Server(s) /\ Retry(s) /\ Shown(s, noFrag)
    BY <1>i, <2>1, SMTT(60) DEF ConnInv, Sockets, Server, Retry, Shown,
       Stream, ConnRecords, Kinds
  <2>e. /\ s.pc = "sending" /\ s.read = r.read /\ s.nup = r.nup
        /\ s.got = r.got
    BY SMTT(30) DEF ConnRecords
  <2> HIDE DEF s
  <2>d. Stream(s)
    BY <1>i, <2>1, <2>e DEF ConnInv, Stream, Sockets, Server, ConnRecords
  <2> QED BY <1>w, <2>a, <2>b, <2>f, <2>d DEF ConnInv
<1>5. CASE /\ conn[c].pc = "sending" /\ conn[c].srv # "reset" /\ conn[c].kind # "http"
           /\ conn' = [conn EXCEPT ![c].pc = "peek", ![c].hello = "cut"]
  <2>1. r.pc = "sending" /\ r.srv # "reset" /\ r.kind # "http"
    BY <1>r, <1>5 DEF ConnInv
  <2> DEFINE s == [r EXCEPT !.pc = "peek", !.hello = "cut"]
  <2>a. Becomes(c, s)
    BY <1>r, <1>c, <1>5, <2>1 DEF ConnInv
  <2>b. s \in ConnRecords
    BY Fields, <2>1, <1>k, ZenonT(30) DEF Typed
  <2>f. Sockets(s) /\ Server(s) /\ Retry(s) /\ Shown(s, noFrag)
    BY <1>i, <2>1, SMTT(60) DEF ConnInv, Sockets, Server, Retry, Shown,
       Stream, ConnRecords, Kinds
  <2>e. /\ s.pc = "peek" /\ s.read = r.read /\ s.nup = r.nup
        /\ s.got = r.got
    BY SMTT(30) DEF ConnRecords
  <2> HIDE DEF s
  <2>d. Stream(s)
    BY <1>i, <2>1, <2>e DEF ConnInv, Stream, Sockets, Server, ConnRecords
  <2> QED BY <1>w, <2>a, <2>b, <2>f, <2>d DEF ConnInv
<1>6. CASE /\ conn[c].pc \in {"peek", "repeek"} /\ DataReady(c)
           /\ conn' = [conn EXCEPT ![c].pc = "forward", ![c].read = @ + 1]
  <2>1. r.pc \in {"peek", "repeek"} /\ r.read < r.sent
    BY <1>r, <1>6 DEF DataReady
  <2> DEFINE s == [r EXCEPT !.pc = "forward", !.read = @ + 1]
  <2>a. Becomes(c, s)
    BY <1>r, <1>c, <1>6, <2>1 DEF DataReady
  <2>t. r.read + 1 \in 0 .. MaxData
    BY <1>i, <2>1, MaxDataAssumption DEF ConnInv, Server, ConnRecords
  <2>b. s \in ConnRecords
    BY Fields, <2>1, <2>t, <1>k, ZenonT(30) DEF Typed
  <2>f. Sockets(s) /\ Server(s) /\ Retry(s) /\ Shown(s, noFrag)
    BY <1>i, <2>1, SMTT(60) DEF ConnInv, Sockets, Server, Retry, Shown,
       Stream, ConnRecords, Kinds
  <2>e. /\ s.pc = "forward" /\ s.read = r.read + 1 /\ s.nup = r.nup
        /\ s.got = r.got
    BY SMTT(30) DEF ConnRecords
  <2> HIDE DEF s
  <2>d. Stream(s)
    BY <1>i, <2>1, <2>t, <2>e DEF ConnInv, Stream, Sockets, Server,
       ConnRecords
  <2> QED BY <1>w, <2>a, <2>b, <2>f, <2>d DEF ConnInv
<1>7. CASE /\ conn[c].pc = "peek" /\ Ended(c)
           /\ conn' = [conn EXCEPT ![c].pc = "redial", ![c].up = "closed"]
  <2>1. r.pc = "peek" /\ r.srv \in {"reset", "eof"}
    BY <1>r, <1>7 DEF Ended, DataReady
  <2> DEFINE s == [r EXCEPT !.pc = "redial", !.up = "closed"]
  <2>a. Becomes(c, s)
    BY <1>r, <1>c, <1>7, <2>1 DEF Ended, DataReady
  <2>b. s \in ConnRecords
    BY Fields, <2>1, <1>k, ZenonT(30) DEF Typed
  <2>f. Sockets(s) /\ Server(s) /\ Retry(s) /\ Shown(s, noFrag)
    BY <1>i, <2>1, SMTT(60) DEF ConnInv, Sockets, Server, Retry, Shown,
       Stream, ConnRecords, Kinds
  <2>e. /\ s.pc = "redial" /\ s.read = r.read /\ s.nup = r.nup
        /\ s.got = r.got
    BY SMTT(30) DEF ConnRecords
  <2> HIDE DEF s
  <2>d. Stream(s)
    BY <1>i, <2>1, <2>e DEF ConnInv, Stream, Sockets, Server, ConnRecords
  <2> QED BY <1>w, <2>a, <2>b, <2>f, <2>d DEF ConnInv
<1>8. CASE /\ conn[c].pc = "resend"
           /\ conn' = [conn EXCEPT ![c].pc = "repeek", ![c].hello = "whole"]
  <2>1. r.pc = "resend"
    BY <1>r, <1>8 DEF ConnInv
  <2> DEFINE s == [r EXCEPT !.pc = "repeek", !.hello = "whole"]
  <2>a. Becomes(c, s)
    BY <1>r, <1>c, <1>8, <2>1 DEF ConnInv
  <2>b. s \in ConnRecords
    BY Fields, <2>1, <1>k, ZenonT(30) DEF Typed
  <2>f. Sockets(s) /\ Server(s) /\ Retry(s) /\ Shown(s, noFrag)
    BY <1>i, <2>1, SMTT(60) DEF ConnInv, Sockets, Server, Retry, Shown,
       Stream, ConnRecords, Kinds
  <2>e. /\ s.pc = "repeek" /\ s.read = r.read /\ s.nup = r.nup
        /\ s.got = r.got
    BY SMTT(30) DEF ConnRecords
  <2> HIDE DEF s
  <2>d. Stream(s)
    BY <1>i, <2>1, <2>e DEF ConnInv, Stream, Sockets, Server, ConnRecords
  <2> QED BY <1>w, <2>a, <2>b, <2>f, <2>d DEF ConnInv
<1>9. CASE /\ conn[c].pc = "forward"
           /\ conn' = [conn EXCEPT ![c].pc = "copy", ![c].copyUp = "run",
                            ![c].got = Append(@, <<conn[c].nup, conn[c].read>>)]
  <2>1. r.pc = "forward"
    BY <1>r, <1>9 DEF ConnInv
  <2> DEFINE s == [r EXCEPT !.pc = "copy", !.copyUp = "run",
                         !.got = Append(@, <<r.nup, r.read>>)]
  <2>a. Becomes(c, s)
    BY <1>r, <1>c, <1>9, <2>1 DEF ConnInv
  <2>t. LET g == Append(r.got, <<r.nup, r.read>>)
        IN  /\ g \in Seq((1 .. 2) \X (1 .. MaxData)) /\ Len(g) = 1
            /\ \A i \in DOMAIN g : g[i] = <<r.nup, i>>
    BY <1>i, <2>1, MaxDataAssumption DEF ConnInv, Stream, Sockets, Server,
       ConnRecords
  <2>b. s \in ConnRecords
    BY Fields, <2>1, <2>t, <1>k, ZenonT(30) DEF Typed
  <2>f. Sockets(s) /\ Server(s) /\ Retry(s) /\ Shown(s, noFrag)
    BY <1>i, <2>1, SMTT(60) DEF ConnInv, Sockets, Server, Retry, Shown,
       Stream, ConnRecords, Kinds
  <2>e. /\ s.pc = "copy" /\ s.read = r.read /\ s.nup = r.nup
        /\ s.got = Append(r.got, <<r.nup, r.read>>)
    BY SMTT(30) DEF ConnRecords
  <2> HIDE DEF s
  <2>d. Stream(s)
    BY <1>i, <2>1, <2>t, <2>e DEF ConnInv, Stream, Sockets, Server,
       ConnRecords
  <2> QED BY <1>w, <2>a, <2>b, <2>f, <2>d DEF ConnInv
<1>10. CASE /\ conn[c].pc = "copy" /\ DataReady(c)
           /\ conn' = [conn EXCEPT ![c].read = @ + 1,
                            ![c].got = Append(@, <<conn[c].nup, conn[c].read + 1>>)]
  <2>1. r.pc = "copy" /\ r.read < r.sent
    BY <1>r, <1>10 DEF DataReady
  <2> DEFINE s == [r EXCEPT !.read = @ + 1,
                         !.got = Append(@, <<r.nup, r.read + 1>>)]
  <2>a. Becomes(c, s)
    BY <1>r, <1>c, <1>10, <2>1 DEF DataReady
  <2>t. LET g == Append(r.got, <<r.nup, r.read + 1>>)
        IN  /\ g \in Seq((1 .. 2) \X (1 .. MaxData)) /\ Len(g) = Len(r.got) + 1
            /\ \A i \in DOMAIN g : g[i] = <<r.nup, i>>
            /\ r.read + 1 \in 0 .. MaxData
    BY <1>i, <2>1, MaxDataAssumption DEF ConnInv, Stream, Sockets, Server,
       ConnRecords
  <2>b. s \in ConnRecords
    BY Fields, <2>1, <2>t, <1>k, ZenonT(30) DEF Typed
  <2>f. Sockets(s) /\ Server(s) /\ Retry(s) /\ Shown(s, noFrag)
    BY <1>i, <2>1, SMTT(60) DEF ConnInv, Sockets, Server, Retry, Shown,
       Stream, ConnRecords, Kinds
  <2>e. /\ s.pc = r.pc /\ s.read = r.read + 1 /\ s.nup = r.nup
        /\ s.got = Append(r.got, <<r.nup, r.read + 1>>)
    BY SMTT(30) DEF ConnRecords
  <2> HIDE DEF s
  <2>d. Stream(s)
    BY <1>i, <2>1, <2>t, <2>e DEF ConnInv, Stream, Sockets, Server,
       ConnRecords
  <2> QED BY <1>w, <2>a, <2>b, <2>f, <2>d DEF ConnInv
<1>11. CASE CopyUpEnds(c)
  <2>1. r.copyUp = "run"
    BY <1>r, <1>11 DEF CopyUpEnds
  <2> DEFINE s == [r EXCEPT !.copyUp = "done"]
  <2>a. Becomes(c, s)
    BY <1>r, <1>c, <1>11, <2>1 DEF CopyUpEnds
  <2>b. s \in ConnRecords
    BY Fields, <2>1, <1>k, ZenonT(30) DEF Typed
  <2>f. Sockets(s) /\ Server(s) /\ Retry(s) /\ Shown(s, noFrag)
    BY <1>i, <2>1, SMTT(60) DEF ConnInv, Sockets, Server, Retry, Shown,
       Stream, ConnRecords, Kinds
  <2>e. /\ s.pc = r.pc /\ s.read = r.read /\ s.nup = r.nup
        /\ s.got = r.got
    BY SMTT(30) DEF ConnRecords
  <2> HIDE DEF s
  <2>d. Stream(s)
    BY <1>i, <2>1, <2>e DEF ConnInv, Stream, Sockets, Server, ConnRecords
  <2> QED BY <1>w, <2>a, <2>b, <2>f, <2>d DEF ConnInv
<1> QED BY <1>1, <1>2, <1>3, <1>4, <1>5, <1>6, <1>7, <1>8, <1>9, <1>10, <1>11

\* The server and the DPI.
LEMMA ServerKeeps ==
  ASSUME TypeOK, NEW c \in Conns, ConnInv(conn[c], noFrag),
         ServerSends(c) \/ Cut(c) \/ ServerEnds(c) \/ ClientEnds(c)
  PROVE  Keeps(c)
<1>r. PICK r \in ConnRecords : r = conn[c] /\ ConnInv(r, noFrag)
  BY DEF TypeOK
<1>i. ConnInv(r, noFrag)
  BY <1>r
<1>c. conn \in [Conns -> ConnRecords]
  BY DEF TypeOK
<1>w. ASSUME NEW s \in ConnRecords, Becomes(c, s), ConnInv(s, noFrag)
      PROVE  Keeps(c)
  BY <1>w DEF Keeps
<1>k. /\ 0 \in 0 .. MaxData /\ {TRUE, FALSE} \subseteq BOOLEAN
      /\ r.read + 1 \in Nat /\ r.up \in {"none", "open", "closed"}
  BY MaxDataAssumption DEF ConnRecords
<1> USE DEF Becomes
<1>1. CASE ServerSends(c)
  <2>1. /\ r.up = "open" /\ r.srv \in {"quiet", "talking"} /\ r.sent < MaxData
        /\ r.hello \in {"cut", "whole"}
        /\ r.hello = "whole" /\ r.kind = "tls" => r.host \notin Blocked
    BY <1>r, <1>1 DEF ServerSends, Answers
  <2> DEFINE s == [r EXCEPT !.srv = "talking", !.sent = @ + 1]
  <2>a. Becomes(c, s)
    BY <1>r, <1>c, <1>1, <2>1 DEF ServerSends, Answers
  <2>t. r.sent + 1 \in 0 .. MaxData
    BY <1>i, <2>1, MaxDataAssumption DEF ConnInv, ConnRecords
  <2>b. s \in ConnRecords
    BY Fields, <2>1, <2>t, <1>k, ZenonT(30) DEF Typed
  <2>f. Sockets(s) /\ Server(s) /\ Retry(s) /\ Shown(s, noFrag)
    BY <1>i, <2>1, SMTT(60) DEF ConnInv, Sockets, Server, Retry, Shown,
       Stream, ConnRecords, Kinds
  <2>e. /\ s.pc = r.pc /\ s.read = r.read /\ s.nup = r.nup
        /\ s.got = r.got
    BY SMTT(30) DEF ConnRecords
  <2> HIDE DEF s
  <2>d. Stream(s)
    BY <1>i, <2>1, <2>t, <2>e DEF ConnInv, Stream, Sockets, Server,
       ConnRecords
  <2> QED BY <1>w, <2>a, <2>b, <2>f, <2>d DEF ConnInv
<1>2. CASE Cut(c)
  <2>1. /\ r.up = "open" /\ r.srv = "quiet"
        /\ \/ r.kind # "tls"
           \/ r.hello \in {"part", "cut"} /\ r.host \in Rejects
           \/ r.hello = "whole" \/ r.nup = 2
    BY <1>r, <1>2 DEF Cut
  <2>2. CASE r.pc \in {"sending", "peek"} \/ r.rejected
    <3> DEFINE s == [r EXCEPT !.srv = "reset", !.rejected = TRUE]
    <3>a. Becomes(c, s)
      BY <1>r, <1>c, <1>2, <2>1, <2>2 DEF Cut
    <3>b. s \in ConnRecords
      BY Fields, <2>1, <2>2, <1>k, ZenonT(30) DEF Typed
    <3>f. Sockets(s) /\ Server(s) /\ Retry(s) /\ Shown(s, noFrag)
      BY <1>i, <2>1, <2>2, SMTT(60) DEF ConnInv, Sockets, Server, Retry,
         Shown, Stream, ConnRecords, Kinds
    <3>e. /\ s.pc = r.pc /\ s.read = r.read /\ s.nup = r.nup
          /\ s.got = r.got
      BY SMTT(30) DEF ConnRecords
    <3> HIDE DEF s
    <3>d. Stream(s)
      BY <1>i, <2>1, <2>2, <3>e DEF ConnInv, Stream, Sockets, Server,
         ConnRecords
    <3> QED BY <1>w, <3>a, <3>b, <3>f, <3>d DEF ConnInv
  <2>3. CASE r.pc \notin {"sending", "peek"} /\ ~r.rejected
    <3> DEFINE s == [r EXCEPT !.srv = "reset", !.rejected = FALSE]
    <3>a. Becomes(c, s)
      BY <1>r, <1>c, <1>2, <2>1, <2>3 DEF Cut
    <3>b. s \in ConnRecords
      BY Fields, <2>1, <2>3, <1>k, ZenonT(30) DEF Typed
    <3>f. Sockets(s) /\ Server(s) /\ Retry(s) /\ Shown(s, noFrag)
      BY <1>i, <2>1, <2>3, SMTT(60) DEF ConnInv, Sockets, Server, Retry,
         Shown, Stream, ConnRecords, Kinds
    <3>e. /\ s.pc = r.pc /\ s.read = r.read /\ s.nup = r.nup
          /\ s.got = r.got
      BY SMTT(30) DEF ConnRecords
    <3> HIDE DEF s
    <3>d. Stream(s)
      BY <1>i, <2>1, <2>3, <3>e DEF ConnInv, Stream, Sockets, Server,
         ConnRecords
    <3> QED BY <1>w, <3>a, <3>b, <3>f, <3>d DEF ConnInv
  <2> QED BY <2>2, <2>3
<1>3. CASE conn' = [conn EXCEPT ![c].srv = "eof"] /\ ServerEnds(c)
  <2>1. r.up = "open" /\ r.pc \notin {"send", "sending", "peek"}
    BY <1>r, <1>3 DEF ServerEnds, ConnInv, Stream
  <2> DEFINE s == [r EXCEPT !.srv = "eof"]
  <2>a. Becomes(c, s)
    BY <1>r, <1>c, <1>3, <2>1 DEF ServerEnds
  <2>b. s \in ConnRecords
    BY Fields, <2>1, <1>k, ZenonT(30) DEF Typed
  <2>f. Sockets(s) /\ Server(s) /\ Retry(s) /\ Shown(s, noFrag)
    BY <1>i, <2>1, SMTT(60) DEF ConnInv, Sockets, Server, Retry, Shown,
       Stream, ConnRecords, Kinds
  <2>e. /\ s.pc = r.pc /\ s.read = r.read /\ s.nup = r.nup
        /\ s.got = r.got
    BY SMTT(30) DEF ConnRecords
  <2> HIDE DEF s
  <2>d. Stream(s)
    BY <1>i, <2>1, <2>e DEF ConnInv, Stream, Sockets, Server, ConnRecords
  <2> QED BY <1>w, <2>a, <2>b, <2>f, <2>d DEF ConnInv
<1>4. CASE conn' = [conn EXCEPT ![c].srv = "reset"] /\ ServerEnds(c)
  <2>1. r.up = "open" /\ r.pc \notin {"send", "sending", "peek"}
    BY <1>r, <1>4 DEF ServerEnds, ConnInv, Stream
  <2> DEFINE s == [r EXCEPT !.srv = "reset"]
  <2>a. Becomes(c, s)
    BY <1>r, <1>c, <1>4, <2>1 DEF ServerEnds
  <2>b. s \in ConnRecords
    BY Fields, <2>1, <1>k, ZenonT(30) DEF Typed
  <2>f. Sockets(s) /\ Server(s) /\ Retry(s) /\ Shown(s, noFrag)
    BY <1>i, <2>1, SMTT(60) DEF ConnInv, Sockets, Server, Retry, Shown,
       Stream, ConnRecords, Kinds
  <2>e. /\ s.pc = r.pc /\ s.read = r.read /\ s.nup = r.nup
        /\ s.got = r.got
    BY SMTT(30) DEF ConnRecords
  <2> HIDE DEF s
  <2>d. Stream(s)
    BY <1>i, <2>1, <2>e DEF ConnInv, Stream, Sockets, Server, ConnRecords
  <2> QED BY <1>w, <2>a, <2>b, <2>f, <2>d DEF ConnInv
<1>5. CASE conn' = [conn EXCEPT ![c].client = "half"]
  <2> DEFINE s == [r EXCEPT !.client = "half"]
  <2>a. Becomes(c, s)
    BY <1>r, <1>c, <1>5 DEF ConnInv
  <2>b. s \in ConnRecords
    BY Fields, <1>k, ZenonT(30) DEF Typed
  <2>f. Sockets(s) /\ Server(s) /\ Retry(s) /\ Shown(s, noFrag)
    BY <1>i, SMTT(60) DEF ConnInv, Sockets, Server, Retry, Shown,
       Stream, ConnRecords, Kinds
  <2>e. /\ s.pc = r.pc /\ s.read = r.read /\ s.nup = r.nup
        /\ s.got = r.got
    BY SMTT(30) DEF ConnRecords
  <2> HIDE DEF s
  <2>d. Stream(s)
    BY <1>i, <2>e DEF ConnInv, Stream, Sockets, Server, ConnRecords
  <2> QED BY <1>w, <2>a, <2>b, <2>f, <2>d DEF ConnInv
<1>6. CASE conn' = [conn EXCEPT ![c].client = "gone"]
  <2> DEFINE s == [r EXCEPT !.client = "gone"]
  <2>a. Becomes(c, s)
    BY <1>r, <1>c, <1>6 DEF ConnInv
  <2>b. s \in ConnRecords
    BY Fields, <1>k, ZenonT(30) DEF Typed
  <2>f. Sockets(s) /\ Server(s) /\ Retry(s) /\ Shown(s, noFrag)
    BY <1>i, SMTT(60) DEF ConnInv, Sockets, Server, Retry, Shown,
       Stream, ConnRecords, Kinds
  <2>e. /\ s.pc = r.pc /\ s.read = r.read /\ s.nup = r.nup
        /\ s.got = r.got
    BY SMTT(30) DEF ConnRecords
  <2> HIDE DEF s
  <2>d. Stream(s)
    BY <1>i, <2>e DEF ConnInv, Stream, Sockets, Server, ConnRecords
  <2> QED BY <1>w, <2>a, <2>b, <2>f, <2>d DEF ConnInv
<1> QED BY <1>1, <1>2, <1>3, <1>4, <1>5, <1>6 DEF ServerEnds, ClientEnds

\* NewConn is a record of its type.
LEMMA NewConnTyped == NewConn \in ConnRecords
<1>1. 0 \in 0 .. MaxData /\ 0 \in 0 .. 2
  BY MaxDataAssumption
<1>2. <<>> \in Seq((1 .. 2) \X (1 .. MaxData))
  BY EmptySeq
<1>3. (CHOOSE h0 \in Hosts : TRUE) \in Hosts
  BY HostsAssumption
<1> QED BY <1>1, <1>2, <1>3 DEF NewConn, ConnRecords, Kinds

\* No upstream socket, and nothing sent: pipeTCP has not dialled yet.
Undialled(s) ==
    /\ s.pc \in {"none", "first"} /\ s.up = "none" /\ s.nup = 0
    /\ s.srv = "quiet" /\ s.hello = "none"
    /\ s.sent = 0 /\ s.read = 0 /\ s.got = <<>>

LEMMA UndialledKeeps ==
  ASSUME NEW s \in ConnRecords, NEW nf, Undialled(s)
  PROVE  ConnInv(s, nf)
<1> USE DEF Undialled
<1>1. Sockets(s) /\ Server(s) /\ Retry(s) /\ Shown(s, nf)
  BY DEF Sockets, Server, Retry, Shown
<1>2. DOMAIN s.got = {}
  BY EmptySeq
<1>3. Stream(s)
  BY <1>2 DEF Stream
<1> QED BY <1>1, <1>3 DEF ConnInv

\* A connection that has never been used.
LEMMA UnusedKeeps ==
  ASSUME NEW nf
  PROVE  NewConn \in ConnRecords /\ ConnInv(NewConn, nf)
<1>1. Undialled(NewConn)
  BY DEF NewConn, Undialled
<1> QED BY <1>1, NewConnTyped, UndialledKeeps

\* A connection just accepted.
LEMMA NewConnKeeps ==
  ASSUME NEW k \in Kinds, NEW h \in Hosts, NEW w \in BOOLEAN, NEW nf,
         NEW s, s = [NewConn EXCEPT !.pc = "first", !.local = "open", !.kind = k,
                                    !.host = h, !.white = w]
  PROVE  s \in ConnRecords /\ ConnInv(s, nf)
<1>1. s \in ConnRecords
  BY Fields, NewConnTyped, ZenonT(30) DEF Typed
<1>2. /\ s.pc = "first" /\ s.up = "none" /\ s.nup = 0 /\ s.srv = "quiet"
      /\ s.hello = "none" /\ s.sent = 0 /\ s.read = 0 /\ s.got = <<>>
  BY DEF NewConn
<1>3. Undialled(s)
  BY <1>2 DEF Undialled
<1> QED BY <1>1, <1>3, UndialledKeeps

\* handleTCP: a new connection, in the place of one that is over.
LEMMA AcceptKeeps ==
  ASSUME TypeOK, NEW c \in Conns, Accept(c)
  PROVE  Keeps(c)
<1>1. PICK k \in Kinds, h \in Hosts :
         Becomes(c, [NewConn EXCEPT !.pc = "first", !.local = "open",
                         !.kind = k, !.host = h, !.white = k = "tls" /\ h \in hosts])
  BY DEF Accept, Becomes
<1>2. PICK w \in BOOLEAN : w = (k = "tls" /\ h \in hosts)
  OBVIOUS
<1>3. PICK s : s = [NewConn EXCEPT !.pc = "first", !.local = "open",
                         !.kind = k, !.host = h, !.white = w]
  OBVIOUS
<1>4. Becomes(c, s)
  BY <1>1, <1>2, <1>3
<1>5. s \in ConnRecords /\ ConnInv(s, noFrag)
  BY <1>3, NewConnKeeps
<1> QED BY <1>4, <1>5 DEF Keeps

\* Stop aborts the device's side of a connection, and nothing else of it.
LEMMA AbortKeeps ==
  ASSUME NEW r \in ConnRecords, NEW nf, ConnInv(r, nf),
         NEW s, s = [r EXCEPT !.local = IF @ = "open" THEN "aborted" ELSE @]
  PROVE  s \in ConnRecords /\ ConnInv(s, nf)
<1>1. PICK l \in {"none", "open", "closed", "aborted"} :
         /\ l = IF r.local = "open" THEN "aborted" ELSE r.local
         /\ s = [r EXCEPT !.local = l]
  BY DEF ConnRecords
<1>2. s \in ConnRecords
  <2>1. Typed([r EXCEPT !.local = l])
    BY Fields
  <2> QED BY <1>1, <2>1 DEF Typed
<1>3. Sockets(s) /\ Server(s) /\ Retry(s) /\ Shown(s, nf)
  BY <1>1 DEF ConnInv, Sockets, Server, Retry, Shown, ConnRecords, Kinds
<1>4. Stream(s)
  BY <1>1 DEF ConnInv, Stream, ConnRecords
<1> QED BY <1>2, <1>3, <1>4 DEF ConnInv

-----------------------------------------------------------------------------
(***************************************************************************)
(* From one record to all of them.                                         *)
(***************************************************************************)

\* Learning a host never makes a connection's history wrong.
LEMMA NoFragGrows ==
  ASSUME NEW r, NEW n, NEW m, n \subseteq m, ConnInv(r, n)
  PROVE  ConnInv(r, m)
  BY DEF ConnInv, Shown

\* A step of one connection leaves the records of the others alone.
LEMMA OthersKept ==
  ASSUME SessionInv, NEW c \in Conns, Keeps(c), UNCHANGED <<session, hosts, flow>>,
         noFrag \subseteq noFrag', noFrag' \in SUBSET Hosts, Learned'
  PROVE  SessionInv'
<1>1. PICK s \in ConnRecords : Becomes(c, s) /\ ConnInv(s, noFrag)
  BY DEF Keeps
<1>2. conn \in [Conns -> ConnRecords]
  BY DEF SessionInv, TypeOK
<1>3. conn' \in [Conns -> ConnRecords]
  BY <1>1, <1>2 DEF Becomes
<1>4. ASSUME NEW d \in Conns PROVE ConnInv(conn'[d], noFrag')
  <2>1. ConnInv(conn[d], noFrag')
    BY NoFragGrows DEF SessionInv
  <2>2. ConnInv(s, noFrag')
    BY <1>1, NoFragGrows
  <2>3. conn'[d] = IF d = c THEN s ELSE conn[d]
    BY <1>1, <1>2 DEF Becomes
  <2> QED BY <2>1, <2>2, <2>3
<1> QED BY <1>3, <1>4 DEF SessionInv, TypeOK

\* A reply to the second, whole hello comes from a host that lets its name
\* pass and has cut fragments.
LEMMA RepeekKeeps ==
  ASSUME SessionInv, NEW c \in Conns, Repeek(c), UNCHANGED flow
  PROVE  SessionInv'
<1>1. PICK v \in Verdicts(c) :
        IF v = "data"
          THEN /\ conn' = [conn EXCEPT ![c].pc = "forward", ![c].read = @ + 1]
               /\ RememberNoFrag(conn[c].host)
          ELSE StartCopy(c, "whole") /\ UNCHANGED noFrag
  BY DEF Repeek
<1>2. conn[c].pc = "repeek" /\ TypeOK /\ ConnInv(conn[c], noFrag)
  BY DEF Repeek, SessionInv
<1>3. CASE v # "data"
  <2>1. Keeps(c)
    BY <1>1, <1>2, <1>3, StartCopyKeeps
  <2> QED BY <1>1, <1>3, <2>1, OthersKept DEF Repeek, SessionInv, TypeOK, Learned
<1>4. CASE v = "data"
  <2>1. DataReady(c)
    BY <1>4 DEF Verdicts
  <2>2. Keeps(c)
    BY <1>1, <1>2, <1>4, <2>1, PlaceKeeps
  <2>3. PICK r \in ConnRecords : r = conn[c] /\ ConnInv(r, noFrag)
    BY <1>2 DEF TypeOK
  <2>4. r.pc = "repeek" /\ r.read < r.sent
    BY <1>2, <2>1, <2>3 DEF DataReady
  <2>5. r.sent > 0 /\ r.hello = "whole" /\ r.kind = "tls" /\ r.host \in Rejects
    BY <2>3, <2>4 DEF ConnInv, Server, Retry, ConnRecords
  <2>6. r.host \in Rejects \ Blocked /\ r.host \in Hosts
    BY <2>3, <2>5 DEF ConnInv, Server, ConnRecords
  <2>7. noFrag \subseteq noFrag' /\ noFrag' \subseteq noFrag \cup {r.host}
    BY <1>1, <1>4, <2>3 DEF RememberNoFrag
  <2>8. noFrag' \in SUBSET Hosts /\ Learned'
    BY <2>6, <2>7 DEF SessionInv, TypeOK, Learned
  <2> QED BY <2>2, <2>7, <2>8, OthersKept DEF Repeek
<1> QED BY <1>3, <1>4

\* A session starts with connections never used and nothing learned.
LEMMA SessionInit == Init => SessionInv
<1> SUFFICES ASSUME Init PROVE SessionInv
  OBVIOUS
<1>1. conn = [c \in Conns |-> NewConn] /\ noFrag = {}
  BY DEF Init
<1>2. conn \in [Conns -> ConnRecords] /\ \A c \in Conns : ConnInv(conn[c], noFrag)
  BY <1>1, UnusedKeeps
<1>3. flow \in [Flows -> FlowRecords]
  <2>1. [d \in Sides |-> "off"] \in [Sides -> {"off", "run", "signal", "done"}]
    OBVIOUS
  <2>2. [pc |-> "none", copy |-> [d \in Sides |-> "off"], queued |-> 0] \in FlowRecords
    BY <2>1 DEF FlowRecords
  <2> QED BY <2>2 DEF Init
<1> QED BY <1>1, <1>2, <1>3 DEF SessionInv, TypeOK, Learned, Init

\* Every step of pipeTCP but Repeek.
LEMMA PipeKeeps ==
  ASSUME TypeOK, NEW c \in Conns, ConnInv(conn[c], noFrag), PipeTcp(c), ~Repeek(c)
  PROVE  Keeps(c)
<1>1. ASSUME conn[c].pc # "none", Return(c) PROVE Keeps(c)
  BY <1>1, ReturnKeeps
<1>2. CASE ReadFirst(c)
  BY <1>1, <1>2, PlaceKeeps DEF ReadFirst
<1>3. CASE Dial(c)
  BY <1>3, PlaceKeeps DEF Dial
<1>4. CASE DialFails(c)
  BY <1>1, <1>4 DEF DialFails
<1>5. CASE SendWhole(c)
  <2>1. CASE conn[c].srv = "reset"
    BY <1>1, <1>5, <2>1 DEF SendWhole
  <2>2. CASE conn[c].srv # "reset"
    <3>1. /\ StartCopy(c, "whole") /\ conn[c].pc = "send"
          /\ conn[c].kind = "tls" /\ ~conn[c].white => conn[c].host \in noFrag
      BY <1>5, <2>2 DEF SendWhole, Cuts
    <3> QED BY <3>1, StartCopyKeeps
  <2> QED BY <2>1, <2>2
<1>6. CASE SendFirstPieces(c)
  BY <1>6, PlaceKeeps
<1>7. CASE SendLastPiece(c)
  <2>1. CASE conn[c].srv = "reset"
    <3>1. conn[c].pc # "none"
      BY <1>7 DEF SendLastPiece
    <3>2. Return(c)
      BY <1>7, <2>1 DEF SendLastPiece
    <3> QED BY <1>1, <3>1, <3>2
  <2>2. CASE conn[c].srv # "reset" /\ conn[c].kind = "http"
    <3>1. conn[c].pc = "sending"
      BY <1>7 DEF SendLastPiece
    <3>2. StartCopy(c, "cut")
      BY <1>7, <2>2, Zenon DEF SendLastPiece
    <3> QED BY <3>1, <3>2, StartCopyKeeps
  <2>3. CASE conn[c].srv # "reset" /\ conn[c].kind # "http"
    BY <1>7, <2>3, PlaceKeeps DEF SendLastPiece
  <2> QED BY <2>1, <2>2, <2>3
<1>8. CASE Peek(c)
  <2>1. PICK v \in Verdicts(c) :
          CASE v = "data"    -> conn' = [conn EXCEPT ![c].pc = "forward", ![c].read = @ + 1]
            [] v = "timeout" -> StartCopy(c, "cut")
            [] v = "reset"   -> conn' = [conn EXCEPT ![c].pc = "redial", ![c].up = "closed"]
    BY <1>8 DEF Peek
  <2>2. conn[c].pc = "peek"
    BY <1>8 DEF Peek
  <2>3. CASE v = "data"
    BY <2>1, <2>2, <2>3, PlaceKeeps DEF Verdicts
  <2>4. CASE v = "timeout"
    BY <2>1, <2>2, <2>4, StartCopyKeeps
  <2>5. CASE v = "reset"
    BY <2>1, <2>2, <2>5, PlaceKeeps DEF Verdicts
  <2> QED BY <2>1, <2>3, <2>4, <2>5 DEF Verdicts
<1>9. CASE Resend(c)
  BY <1>1, <1>9, PlaceKeeps DEF Resend
<1>10. CASE Forward(c)
  BY <1>1, <1>10, PlaceKeeps DEF Forward
<1>11. CASE CopyDown(c)
  BY <1>1, <1>11, PlaceKeeps DEF CopyDown
<1> QED BY <1>2, <1>3, <1>4, <1>5, <1>6, <1>7, <1>8, <1>9, <1>10, <1>11
        DEF PipeTcp

Flow(s) == s \in FlowRecords

\* The UDP flows have nothing of the connections; their types are their own.
LEMMA UdpKeeps ==
  ASSUME SessionInv, NEW f \in Flows, Udp(f)
  PROVE  SessionInv'
<1>1. PICK r \in FlowRecords : r = flow[f]
  BY DEF SessionInv, TypeOK
<1>2. ASSUME NEW s \in FlowRecords, flow' = [flow EXCEPT ![f] = s]
      PROVE  SessionInv'
  <2>1. flow' \in [Flows -> FlowRecords]
    BY <1>2 DEF SessionInv, TypeOK
  <2> QED BY <2>1 DEF Udp, shared, SessionInv, TypeOK, Learned
<1>t. flow \in [Flows -> FlowRecords]
  BY DEF SessionInv, TypeOK
<1>3. ASSUME NEW l \in {"none", "read", "resolve", "dial", "wait", "done"},
             NEW cp \in [Sides -> {"off", "run", "signal", "done"}], NEW n \in 0 .. 2,
             flow' = [flow EXCEPT ![f] = [pc |-> l, copy |-> cp, queued |-> n]]
      PROVE  SessionInv'
  <2>1. [pc |-> l, copy |-> cp, queued |-> n] \in FlowRecords
    BY DEF FlowRecords
  <2> QED BY <1>2, <1>3, <2>1
<1>4. /\ r = [pc |-> r.pc, copy |-> r.copy, queued |-> r.queued]
      /\ r.pc \in {"none", "read", "resolve", "dial", "wait", "done"}
      /\ r.copy \in [Sides -> {"off", "run", "signal", "done"}] /\ r.queued \in 0 .. 2
  BY DEF FlowRecords
<1>5. ASSUME NEW l \in {"read", "resolve", "dial", "wait", "done"},
             flow' = [flow EXCEPT ![f].pc = l]
      PROVE  SessionInv'
  <2>1. [r EXCEPT !.pc = l] = [pc |-> l, copy |-> r.copy, queued |-> r.queued]
    BY DEF FlowRecords
  <2>2. flow' = [flow EXCEPT ![f] = [r EXCEPT !.pc = l]]
    BY <1>1, <1>5
  <2>3. flow' = [flow EXCEPT ![f] = [pc |-> l, copy |-> r.copy,
                                     queued |-> r.queued]]
    BY <2>1, <2>2
  <2> QED BY <1>3, <1>4, <2>3
<1>6. CASE AcceptUdp(f)
  BY <1>5, <1>6 DEF AcceptUdp
<1>7. CASE HandleDns(f)
  BY <1>5, <1>7 DEF HandleDns
<1>8. CASE DialUdp(f)
  <2>1. CASE flow' = [flow EXCEPT ![f].pc = "done"]
    BY <1>5, <2>1
  <2>2. CASE flow' = [flow EXCEPT ![f].pc = "wait", ![f].copy = [d \in Sides |-> "run"]]
    <3>1. PICK cp \in [Sides -> {"off", "run", "signal", "done"}] :
             cp = [d \in Sides |-> "run"]
      OBVIOUS
    <3>2. ASSUME NEW q \in FlowRecords
          PROVE  Flow([q EXCEPT !.pc = "wait"]) /\ Flow([q EXCEPT !.copy = cp])
      BY DEF FlowRecords, Flow
    <3>3. [r EXCEPT !.pc = "wait", !.copy = cp] \in FlowRecords
      BY <3>2, ZenonT(30) DEF Flow
    <3>4. flow' = [flow EXCEPT ![f] = [r EXCEPT !.pc = "wait", !.copy = cp]]
      BY <1>1, <2>2, <3>1
    <3> QED BY <1>2, <3>3, <3>4
  <2> QED BY <1>8, <2>1, <2>2 DEF DialUdp
<1>9. ASSUME NEW d \in Sides, flow' = [flow EXCEPT ![f].copy[d] = "signal"]
      PROVE  SessionInv'
  <2>1. PICK cp \in [Sides -> {"off", "run", "signal", "done"}] :
           cp = [r.copy EXCEPT ![d] = "signal"]
    BY <1>4
  <2>2. [r EXCEPT !.copy = cp] = [pc |-> r.pc, copy |-> cp, queued |-> r.queued]
    BY DEF FlowRecords
  <2>3. flow' = [flow EXCEPT ![f] = [r EXCEPT !.copy = cp]]
    BY <1>1, <1>9, <2>1
  <2>4. flow' = [flow EXCEPT ![f] = [pc |-> r.pc, copy |-> cp,
                                     queued |-> r.queued]]
    BY <2>2, <2>3
  <2> QED BY <1>3, <1>4, <2>4
<1>10. ASSUME NEW d \in Sides, Signal(f, d) PROVE SessionInv'
  <2>1. PICK cp \in [Sides -> {"off", "run", "signal", "done"}] :
           cp = [r.copy EXCEPT ![d] = "done"]
    BY <1>4
  <2>2. r.queued + 1 \in 0 .. 2
    BY <1>1, <1>4, <1>10 DEF Signal
  <2>3. flow' = [flow EXCEPT ![f] = [pc |-> r.pc, copy |-> cp, queued |-> r.queued + 1]]
    BY <1>1, <1>t, <1>4, <1>10, <2>1 DEF Signal, FlowRecords
  <2> QED BY <1>3, <1>4, <2>2, <2>3
<1>11. CASE EndUdp(f)
  <2>1. r.queued - 1 \in 0 .. 2
    BY <1>1, <1>4, <1>11 DEF EndUdp
  <2>2. flow' = [flow EXCEPT ![f] = [pc |-> "done", copy |-> r.copy, queued |-> r.queued - 1]]
    BY <1>1, <1>t, <1>4, <1>11 DEF EndUdp, FlowRecords
  <2> QED BY <1>3, <1>4, <2>1, <2>2
<1> QED BY <1>6, <1>7, <1>8, <1>9, <1>10, <1>11
        DEF Udp, UdpForced, IdleUdp, CopyUdpFails

\* Every step keeps the invariant: one case per action of Next.
LEMMA SessionStep == SessionInv /\ [Next]_vars => SessionInv'
<1> SUFFICES ASSUME SessionInv, [Next]_vars PROVE SessionInv'
  OBVIOUS
<1>1. CASE UNCHANGED vars
  BY <1>1 DEF vars, SessionInv, TypeOK, Learned
<1>2. CASE SetExcludeHosts
  BY <1>2 DEF SetExcludeHosts, SessionInv, TypeOK, Learned
<1>3. CASE Cancel
  BY <1>3 DEF Cancel, SessionInv, TypeOK, Learned
<1>4. CASE CloseStack
  <2>1. ASSUME NEW c \in Conns
        PROVE  conn'[c] \in ConnRecords /\ ConnInv(conn'[c], noFrag)
    <3>1. conn[c] \in ConnRecords /\ ConnInv(conn[c], noFrag)
      BY DEF SessionInv, TypeOK
    <3>2. conn'[c] = [conn[c] EXCEPT !.local = IF @ = "open" THEN "aborted" ELSE @]
      BY <1>4 DEF CloseStack
    <3> QED BY <3>1, <3>2, AbortKeeps
  <2>2. conn' \in [Conns -> ConnRecords]
    BY <1>4, <2>1 DEF CloseStack
  <2> QED BY <1>4, <2>1, <2>2 DEF CloseStack, SessionInv, TypeOK, Learned
<1>5. ASSUME NEW c \in Conns, Tcp(c) PROVE SessionInv'
  <2>1. TypeOK /\ ConnInv(conn[c], noFrag) /\ flow' = flow
    BY <1>5 DEF SessionInv, Tcp
  <2>2. ASSUME Keeps(c), UNCHANGED shared PROVE SessionInv'
    BY <2>1, <2>2, OthersKept DEF SessionInv, TypeOK, Learned, shared
  <2>3. CASE Repeek(c)
    BY <2>1, <2>3, RepeekKeeps
  <2>4. CASE PipeTcp(c) /\ ~Repeek(c)
    <3>1. UNCHANGED shared
      BY <2>4 DEF PipeTcp, ReadFirst, Dial, DialFails, SendWhole, SendFirstPieces,
         SendLastPiece, Peek, Resend, Forward, CopyDown
    <3> QED BY <2>1, <2>2, <2>4, <3>1, PipeKeeps
  <2>5. CASE Accept(c)
    BY <2>1, <2>2, <2>5, AcceptKeeps DEF Accept
  <2>6. CASE CopyUpEnds(c)
    BY <2>1, <2>2, <2>6, PlaceKeeps DEF CopyUpEnds
  <2>7. CASE (ServerSends(c) \/ ServerEnds(c) \/ Cut(c) \/ ClientEnds(c))
             /\ UNCHANGED shared
    BY <2>1, <2>2, <2>7, ServerKeeps
  <2> QED BY <1>5, <2>3, <2>4, <2>5, <2>6, <2>7 DEF Tcp
<1>6. ASSUME NEW f \in Flows, Udp(f) PROVE SessionInv'
  BY <1>6, UdpKeeps
<1> QED BY <1>1, <1>2, <1>3, <1>4, <1>5, <1>6 DEF Next

\* So the invariant holds throughout.
LEMMA SessionAlways == Spec => []SessionInv
  BY SessionInit, SessionStep, PTL DEF Spec

-----------------------------------------------------------------------------
(***************************************************************************)
(* The theorems.                                                           *)
(***************************************************************************)

\* A pipeTCP that has returned holds no socket on either side, whichever way
\* it returned (dialAndSend, tunnel.go:365-439), and the application receives
\* the stream of its last server without a gap.
THEOREM ReturnsHoldingNothing == Spec => []TunnelInv
<1>1. SessionInv => TunnelInv
  BY DEF SessionInv, TunnelInv, ConnInv, Sockets, Stream
<1> QED BY <1>1, SessionAlways, PTL

\* A hello that the whitelist did not name goes out whole only where a server
\* has cut a fragmented one, and only such servers are learned
\* (tunnel.go:70-73, 420-422), whatever the whitelist becomes meanwhile.
THEOREM NameShownAfterCut == Spec => []WholeOnlyAfterCut
<1>1. SessionInv => WholeOnlyAfterCut
  BY DEF SessionInv, WholeOnlyAfterCut, Learned, ConnInv, Shown
<1> QED BY <1>1, SessionAlways, PTL
=============================================================================
