-------------------------- MODULE RelayConn_proofs --------------------------
(***************************************************************************)
(* Proofs about RelayConn, for every set of connections, hosts and server  *)
(* behaviours: the relay shows a name in one piece only after a cut, tries *)
(* again what was cut, passes the server's stream on without a gap, and    *)
(* leaves no socket behind.                                                *)
(*                                                                         *)
(* What a step does to a connection depends on that connection and on      *)
(* noFrag alone, so the inductive invariant is a predicate on one record   *)
(* of conn; no step of another connection touches it but by adding a host  *)
(* to noFrag.                                                              *)
(*                                                                         *)
(* The end of the module is about ClientHello: what the relay sends "in    *)
(* pieces" is cut through the name.                                        *)
(***************************************************************************)
EXTENDS RelayConn, ClientHello, Integers, SequenceTheorems, FiniteSetTheorems, TLAPS

-----------------------------------------------------------------------------
(* The inductive invariant, for the record r of one connection *)

Early == {"hello", "connect", "send", "sending", "probe", "retry", "reconnect",
          "resend", "reprobe", "forward"}
Finishing == {"close", "account", "shut", "done"}

\* The upstream socket that goes with each place of the handler.
Socket(r) ==
    /\ r.pc \in {"hello", "connect"} => r.up = "none" /\ r.nup = 0
    /\ r.pc \in {"send", "sending", "probe", "retry"}
          => r.up = "open" /\ r.nup = 1
    /\ r.pc = "reconnect" => r.up = "closed" /\ r.nup = 1
    /\ r.pc \in {"resend", "reprobe"} => r.up = "open" /\ r.nup = 2
    /\ r.pc \in {"forward", "pump", "join", "close"}
          => r.up = "open" /\ r.nup \in 1 .. 2
    /\ r.pc \in {"account", "shut", "done"} => r.up # "open"

\* What the server has been sent and what it has said go together.
Server(r) ==
    /\ r.read <= r.sent
    /\ r.srv = "quiet" => r.sent = 0
    /\ r.srv \in {"talking", "eof"} => r.sent > 0
    /\ r.hello \in {"none", "part"} => r.sent = 0
    /\ r.hello = "whole" /\ r.tls /\ r.sent > 0 => r.host \notin Blocked
    /\ r.pc \in {"send", "resend"} => r.hello = "none"
    /\ r.pc = "sending" => r.hello = "part"
    /\ r.pc = "probe" => r.hello = "frag"
    /\ r.pc = "reprobe" => r.hello = "whole"

\* Nothing has reached the client before the reverse thread starts, and then
\* all that was read has, but for the piece in that thread's hands.
Passed(r) ==
    /\ r.pc \in Early => r.rev = "off" /\ r.down = 0 /\ ~r.eof
    /\ r.pc \in Early \ {"forward"} => r.read = 0
    /\ r.pc \in {"hello", "connect", "send", "sending", "probe"}
          => r.first = "none"
    /\ r.pc = "forward" => r.read = IF r.first = "data" THEN 1 ELSE 0
    /\ r.rev = "off" => r.got = <<>>
    /\ r.rev = "recv" => Len(r.got) = r.read /\ Len(r.got) <= r.down
    /\ r.rev = "send" => Len(r.got) + 1 = r.read /\ r.read <= r.down
    /\ Len(r.got) <= r.down
    /\ \A i \in DOMAIN r.got : r.got[i] = <<r.nup, i>>

\* Who ended the connection, once the pumps have begun to stop.
Stopped(r) ==
    /\ r.rev # "off" => r.timed = {} /\ r.nup \in 1 .. 2 /\ r.up # "none"
    /\ r.pc \notin {"hello", "shut", "done"} => r.timed = {}
    /\ (\/ r.pc \in {"join", "close", "account"}
        \/ r.rev # "off" /\ r.pc \in {"shut", "done"})
          => r.client # "open" \/ r.srv = "reset"
    /\ r.rev = "done" => r.client # "open" \/ r.srv \in {"eof", "reset"}
    /\ r.rev = "done" => r.eof \/ r.client = "gone"
    /\ r.pc = "pump" => r.rev # "off"
    /\ r.pc = "join" => r.rev # "off"
    /\ r.cutoff => r.pc \in Finishing
    /\ r.pc \in Finishing /\ r.rev \in {"recv", "send"} => r.cutoff

\* The FIN to the client.
Ending(r) ==
    /\ r.pc = "done" => r.eof
    /\ r.eof /\ r.rev \in {"recv", "send"} => r.pc = "done"
    /\ r.eof /\ r.up = "open" => r.srv \in {"eof", "reset"}
    /\ (/\ r.rev # "off" /\ r.eof
        /\ r.client # "gone" /\ r.srv \in {"talking", "eof"})
          => Len(r.got) = r.sent \/ (r.client = "half" /\ r.cutoff)

\* How a connection gets to its second try.
Retry(r) ==
    /\ r.pc \in {"sending", "probe", "retry", "reconnect", "resend", "reprobe"}
          => r.tls
    /\ r.pc = "probe" /\ r.srv = "reset"
          => r.cut # "no" /\ r.host \in Rejects \cup Flaky
    /\ r.pc = "probe" /\ r.cut = "probe" => r.srv = "reset"
    /\ r.pc \in {"retry", "reconnect", "resend", "reprobe"}
          => r.cut # "no" /\ r.host \in Rejects \cup Flaky
    /\ r.cut = "probe" => \/ r.pc \in {"probe", "retry", "reconnect"}
                          \/ r.nup = 2 \/ r.first = "data"
                          \/ r.pc \in {"shut", "done"} /\ r.up = "none"

\* Why the whole hello was sent, with nf the hosts learned.
Shown(r, nf) ==
    r.hello = "whole" /\ r.tls
        => \/ r.host \in Excluded \cup nf
           \/ r.cut # "no" /\ r.nup = 2

ConnInv(r, nf) ==
    /\ Socket(r) /\ Server(r) /\ Passed(r) /\ Stopped(r) /\ Ending(r)
    /\ Retry(r) /\ Shown(r, nf)

Learned == noFrag \subseteq (Rejects \cup Flaky) \ Blocked

RelayInv == TypeOK /\ Learned /\ \A c \in Conns : ConnInv(conn[c], noFrag)

\* What a step of connection c makes of its record.
Becomes(c, s) == conn' = [conn EXCEPT ![c] = s]

\* A step that opens no upstream socket besides an open one, and counts as
\* reset only what has had no byte back.
CleanStep(r, s) ==
    /\ s.nup > r.nup => r.up # "open"
    /\ s.counted = "reset" /\ r.counted = "no" => r.down = 0

\* A step of connection c that keeps the invariant of its record.
Keeps(c) ==
    \E s \in ConnRecords :
        Becomes(c, s) /\ ConnInv(s, noFrag) /\ CleanStep(conn[c], s)

Typed(s) == s \in ConnRecords

\* A field of a record takes any value of its type.
LEMMA Fields ==
  ASSUME NEW r \in ConnRecords
  PROVE  /\ \A x \in PCs : Typed([r EXCEPT !.pc = x])
         /\ \A x \in {"none", "open", "closed"} : Typed([r EXCEPT !.up = x])
         /\ \A x \in 0 .. 2 : Typed([r EXCEPT !.nup = x])
         /\ \A x \in {"none", "data", "empty"} : Typed([r EXCEPT !.first = x])
         /\ \A x \in 0 .. MaxData : Typed([r EXCEPT !.read = x])
         /\ \A x \in {"off", "recv", "send", "done"} :
                 Typed([r EXCEPT !.rev = x])
         /\ \A x \in Nat : Typed([r EXCEPT !.down = x])
         /\ \A x \in {"no", "success", "reset"} :
                 Typed([r EXCEPT !.counted = x])
         /\ \A x \in SUBSET {"client", "up"} : Typed([r EXCEPT !.timed = x])
         /\ \A x \in {"none", "part", "frag", "whole"} :
                 Typed([r EXCEPT !.hello = x])
         /\ \A x \in {"quiet", "talking", "eof", "reset"} :
                 Typed([r EXCEPT !.srv = x])
         /\ \A x \in 0 .. MaxData : Typed([r EXCEPT !.sent = x])
         /\ \A x \in {"no", "sending", "probe"} : Typed([r EXCEPT !.cut = x])
         /\ \A x \in BOOLEAN : Typed([r EXCEPT !.cutoff = x])
         /\ \A x \in {"open", "half", "gone"} : Typed([r EXCEPT !.client = x])
         /\ \A x \in Seq((1 .. 2) \X (1 .. MaxData)) :
                 Typed([r EXCEPT !.got = x])
         /\ \A x \in BOOLEAN : Typed([r EXCEPT !.eof = x])
<1>1. \A x \in PCs : Typed([r EXCEPT !.pc = x])
  BY DEF Typed, ConnRecords
<1>2. \A x \in {"none", "open", "closed"} : Typed([r EXCEPT !.up = x])
  BY DEF Typed, ConnRecords
<1>3. \A x \in 0 .. 2 : Typed([r EXCEPT !.nup = x])
  BY DEF Typed, ConnRecords
<1>4. \A x \in {"none", "data", "empty"} : Typed([r EXCEPT !.first = x])
  BY DEF Typed, ConnRecords
<1>5. \A x \in 0 .. MaxData : Typed([r EXCEPT !.read = x])
  BY DEF Typed, ConnRecords
<1>6. \A x \in {"off", "recv", "send", "done"} : Typed([r EXCEPT !.rev = x])
  BY DEF Typed, ConnRecords
<1>7. \A x \in Nat : Typed([r EXCEPT !.down = x])
  BY DEF Typed, ConnRecords
<1>8. \A x \in {"no", "success", "reset"} : Typed([r EXCEPT !.counted = x])
  BY DEF Typed, ConnRecords
<1>9. \A x \in SUBSET {"client", "up"} : Typed([r EXCEPT !.timed = x])
  BY DEF Typed, ConnRecords
<1>10. \A x \in {"none", "part", "frag", "whole"} :
        Typed([r EXCEPT !.hello = x])
  BY DEF Typed, ConnRecords
<1>11. \A x \in {"quiet", "talking", "eof", "reset"} :
        Typed([r EXCEPT !.srv = x])
  BY DEF Typed, ConnRecords
<1>12. \A x \in 0 .. MaxData : Typed([r EXCEPT !.sent = x])
  BY DEF Typed, ConnRecords
<1>13. \A x \in {"no", "sending", "probe"} : Typed([r EXCEPT !.cut = x])
  BY DEF Typed, ConnRecords
<1>14. \A x \in BOOLEAN : Typed([r EXCEPT !.cutoff = x])
  BY DEF Typed, ConnRecords
<1>15. \A x \in {"open", "half", "gone"} : Typed([r EXCEPT !.client = x])
  BY DEF Typed, ConnRecords
<1>16. \A x \in Seq((1 .. 2) \X (1 .. MaxData)) : Typed([r EXCEPT !.got = x])
  BY DEF Typed, ConnRecords
<1>17. \A x \in BOOLEAN : Typed([r EXCEPT !.eof = x])
  BY DEF Typed, ConnRecords
<1> QED BY <1>1, <1>2, <1>3, <1>4, <1>5, <1>6, <1>7, <1>8, <1>9, <1>10,
           <1>11, <1>12, <1>13, <1>14, <1>15, <1>16, <1>17

\* The first reply, to the fragmented hello (Probe) or to the plain one
\* (Reprobe): only a reset of the fragmented try leads to the second one.
LEMMA TakeReplyKeeps ==
  ASSUME TypeOK, NEW c \in Conns, ConnInv(conn[c], noFrag),
         NEW reply \in Replies, NEW l, TakeReply(c, reply, l),
         \/ /\ conn[c].pc = "probe"
            /\ l = IF reply = "empty" THEN "retry" ELSE "forward"
         \/ conn[c].pc = "reprobe" /\ l = "forward"
  PROVE  Keeps(c)
<1>r. PICK r \in ConnRecords : r = conn[c] /\ ConnInv(r, noFrag)
  BY DEF TypeOK
<1>i. ConnInv(r, noFrag)
  BY <1>r
<1>c. conn \in [Conns -> ConnRecords]
  BY DEF TypeOK
<1>w. ASSUME NEW s \in ConnRecords, Becomes(c, s), ConnInv(s, noFrag),
             CleanStep(r, s)
      PROVE  Keeps(c)
  BY <1>r, <1>w DEF Keeps
<1>k. 0 \in 0 .. MaxData /\ r.down + 1 \in Nat
      /\ {} \in SUBSET {"client", "up"}
      /\ TRUE \in BOOLEAN /\ FALSE \in BOOLEAN
  BY MaxDataAssumption DEF ConnRecords
<1> USE DEF Becomes
<1>1. /\ r.pc \in {"probe", "reprobe"} /\ r.up = "open" /\ r.read = 0
      /\ (reply # "empty" \/ r.pc = "reprobe") => l = "forward"
      /\ reply = "empty" /\ r.pc = "probe" => l = "retry"
  BY <1>r DEF ConnInv, Socket, Passed, Early
<1>2. CASE reply = "data"
  <2>1. r.read < r.sent /\ l = "forward"
    BY <1>r, <1>1, <1>2 DEF TakeReply, FirstReply, DataReady, NothingYet,
       Ended, ConnInv, Server
  <2> DEFINE s == [r EXCEPT !.first = "data", !.timed = {}, !.pc = "forward",
                          !.read = @ + 1]
  <2>a. Becomes(c, s)
    BY <1>r, <1>c, <2>1, <1>2 DEF TakeReply, FirstReply, DataReady,
       NothingYet, Ended
  <2>t. r.read \in 0 .. MaxData
      /\ (reply = "data" => r.read + 1 \in 0 .. MaxData)
    BY <2>1, <1>1, MaxDataAssumption DEF ConnRecords
  <2>b. s \in ConnRecords
    BY Fields, <2>t, <1>2, <1>k, ZenonT(30) DEF Typed, PCs
  <2>c. Socket(s) /\ Server(s) /\ Retry(s) /\ Shown(s, noFrag)
        /\ CleanStep(r, s)
    BY <1>i, <1>1, <2>1, <1>2, SMTT(60) DEF CleanStep, ConnInv, Socket,
       Server, Retry, Shown, Passed, Early, ConnRecords, PCs
  <2>d. Passed(s) /\ Stopped(s) /\ Ending(s)
    BY <1>i, <1>1, <2>1, <1>2, SMTT(60) DEF ConnInv, Passed, Stopped, Ending,
       Socket, Server, Early, Finishing, ConnRecords, PCs
  <2> QED BY <1>w, <2>a, <2>b, <2>c, <2>d DEF ConnInv
<1>3. CASE reply = "none"
  <2>1. r.srv # "reset" /\ l = "forward"
    BY <1>r, <1>1, <1>3 DEF TakeReply, FirstReply, DataReady, NothingYet,
       Ended, ConnInv, Server
  <2> DEFINE s == [r EXCEPT !.first = "none", !.timed = {}, !.pc = "forward",
                          !.read = @]
  <2>a. Becomes(c, s)
    BY <1>r, <1>c, <2>1, <1>3 DEF TakeReply, FirstReply, DataReady,
       NothingYet, Ended
  <2>t. r.read \in 0 .. MaxData
      /\ (reply = "data" => r.read + 1 \in 0 .. MaxData)
    BY <2>1, <1>1, MaxDataAssumption DEF ConnRecords
  <2>b. s \in ConnRecords
    BY Fields, <2>t, <1>3, <1>k, ZenonT(30) DEF Typed, PCs
  <2>c. Socket(s) /\ Server(s) /\ Retry(s) /\ Shown(s, noFrag)
        /\ CleanStep(r, s)
    BY <1>i, <1>1, <2>1, <1>3, SMTT(60) DEF CleanStep, ConnInv, Socket,
       Server, Retry, Shown, Passed, Early, ConnRecords, PCs
  <2>d. Passed(s) /\ Stopped(s) /\ Ending(s)
    BY <1>i, <1>1, <2>1, <1>3, SMTT(60) DEF ConnInv, Passed, Stopped, Ending,
       Socket, Server, Early, Finishing, ConnRecords, PCs
  <2> QED BY <1>w, <2>a, <2>b, <2>c, <2>d DEF ConnInv
<1>4. CASE reply = "empty" /\ r.pc = "probe"
  <2>1. r.srv = "reset" /\ l = "retry"
    BY <1>r, <1>1, <1>4 DEF TakeReply, FirstReply, DataReady, NothingYet,
       Ended, ConnInv, Server
  <2> DEFINE s == [r EXCEPT !.first = "empty", !.timed = {}, !.pc = "retry",
                          !.read = @]
  <2>a. Becomes(c, s)
    BY <1>r, <1>c, <2>1, <1>4 DEF TakeReply, FirstReply, DataReady,
       NothingYet, Ended
  <2>t. r.read \in 0 .. MaxData
      /\ (reply = "data" => r.read + 1 \in 0 .. MaxData)
    BY <2>1, <1>1, MaxDataAssumption DEF ConnRecords
  <2>b. s \in ConnRecords
    BY Fields, <2>t, <1>4, <1>k, ZenonT(30) DEF Typed, PCs
  <2>c. Socket(s) /\ Server(s) /\ Retry(s) /\ Shown(s, noFrag)
        /\ CleanStep(r, s)
    BY <1>i, <1>1, <2>1, <1>4, SMTT(60) DEF CleanStep, ConnInv, Socket,
       Server, Retry, Shown, Passed, Early, ConnRecords, PCs
  <2>d. Passed(s) /\ Stopped(s) /\ Ending(s)
    BY <1>i, <1>1, <2>1, <1>4, SMTT(60) DEF ConnInv, Passed, Stopped, Ending,
       Socket, Server, Early, Finishing, ConnRecords, PCs
  <2> QED BY <1>w, <2>a, <2>b, <2>c, <2>d DEF ConnInv
<1>5. CASE reply = "empty" /\ r.pc = "reprobe"
  <2>1. l = "forward"
    BY <1>r, <1>1, <1>5 DEF TakeReply, FirstReply, DataReady, NothingYet,
       Ended, ConnInv, Server
  <2> DEFINE s == [r EXCEPT !.first = "empty", !.timed = {}, !.pc = "forward",
                          !.read = @]
  <2>a. Becomes(c, s)
    BY <1>r, <1>c, <2>1, <1>5 DEF TakeReply, FirstReply, DataReady,
       NothingYet, Ended
  <2>t. r.read \in 0 .. MaxData
      /\ (reply = "data" => r.read + 1 \in 0 .. MaxData)
    BY <2>1, <1>1, MaxDataAssumption DEF ConnRecords
  <2>b. s \in ConnRecords
    BY Fields, <2>t, <1>5, <1>k, ZenonT(30) DEF Typed, PCs
  <2>c. Socket(s) /\ Server(s) /\ Retry(s) /\ Shown(s, noFrag)
        /\ CleanStep(r, s)
    BY <1>i, <1>1, <2>1, <1>5, SMTT(60) DEF CleanStep, ConnInv, Socket,
       Server, Retry, Shown, Passed, Early, ConnRecords, PCs
  <2>d. Passed(s) /\ Stopped(s) /\ Ending(s)
    BY <1>i, <1>1, <2>1, <1>5, SMTT(60) DEF ConnInv, Passed, Stopped, Ending,
       Socket, Server, Early, Finishing, ConnRecords, PCs
  <2> QED BY <1>w, <2>a, <2>b, <2>c, <2>d DEF ConnInv
<1> QED BY <1>1, <1>2, <1>3, <1>4, <1>5 DEF Replies

\* The other steps of the handler thread.
LEMMA HandlerKeeps ==
  ASSUME TypeOK, NEW c \in Conns, ConnInv(conn[c], noFrag),
         HandlerStep(c), ~Probe(c)
  PROVE  Keeps(c)
<1>r. PICK r \in ConnRecords : r = conn[c] /\ ConnInv(r, noFrag)
  BY DEF TypeOK
<1>i. ConnInv(r, noFrag)
  BY <1>r
<1>c. conn \in [Conns -> ConnRecords]
  BY DEF TypeOK
<1>w. ASSUME NEW s \in ConnRecords, Becomes(c, s), ConnInv(s, noFrag),
             CleanStep(r, s)
      PROVE  Keeps(c)
  BY <1>r, <1>w DEF Keeps
<1>k. 0 \in 0 .. MaxData /\ r.down + 1 \in Nat
      /\ {} \in SUBSET {"client", "up"}
      /\ TRUE \in BOOLEAN /\ FALSE \in BOOLEAN
  BY MaxDataAssumption DEF ConnRecords
<1> USE DEF Becomes
<1>1. CASE NoHello(c)
  <2>1. r.pc = "hello"
    BY <1>r, <1>1 DEF NoHello, Goto
  <2> DEFINE s == [r EXCEPT !.pc = "shut"]
  <2>a. Becomes(c, s)
    BY <1>r, <1>c, <1>1 DEF NoHello, Goto
  <2>b. s \in ConnRecords
    BY Fields, <2>1, <1>k, ZenonT(30) DEF Typed, PCs
  <2>c. Socket(s) /\ Server(s) /\ Retry(s) /\ Shown(s, noFrag)
        /\ CleanStep(r, s)
    BY <1>i, <2>1, SMTT(60) DEF CleanStep, ConnInv, Socket, Server, Retry,
       Shown, Passed, Early, ConnRecords, PCs
  <2>d. Passed(s) /\ Stopped(s) /\ Ending(s)
    BY <1>i, <2>1, SMTT(60) DEF ConnInv, Passed, Stopped, Ending, Socket,
       Server, Early, Finishing, ConnRecords, PCs
  <2> QED BY <1>w, <2>a, <2>b, <2>c, <2>d DEF ConnInv
<1>2. CASE ReadHello(c)
  <2>1. r.pc = "hello"
    BY <1>r, <1>2 DEF ReadHello
  <2> DEFINE s == [r EXCEPT !.pc = "connect", !.timed = {}]
  <2>a. Becomes(c, s)
    BY <1>r, <1>c, <1>2 DEF ReadHello
  <2>b. s \in ConnRecords
    BY Fields, <2>1, <1>k, ZenonT(30) DEF Typed, PCs
  <2>c. Socket(s) /\ Server(s) /\ Retry(s) /\ Shown(s, noFrag)
        /\ CleanStep(r, s)
    BY <1>i, <2>1, SMTT(60) DEF CleanStep, ConnInv, Socket, Server, Retry,
       Shown, Passed, Early, ConnRecords, PCs
  <2>d. Passed(s) /\ Stopped(s) /\ Ending(s)
    BY <1>i, <2>1, SMTT(60) DEF ConnInv, Passed, Stopped, Ending, Socket,
       Server, Early, Finishing, ConnRecords, PCs
  <2> QED BY <1>w, <2>a, <2>b, <2>c, <2>d DEF ConnInv
<1>3. CASE Connect(c)
  <2>1. r.pc = "connect"
    BY <1>r, <1>3 DEF Connect, Opened
  <2>t. r.nup + 1 \in 0 .. 2
    BY <1>i, <2>1, MaxDataAssumption DEF ConnInv, Socket, ConnRecords
  <2> DEFINE s == [r EXCEPT !.pc = "send", !.up = "open", !.nup = @ + 1,
                          !.read = 0, !.sent = 0, !.hello = "none",
                          !.srv = "quiet"]
  <2>a. Becomes(c, s)
    BY <1>r, <1>c, <1>3 DEF Connect, Opened
  <2>b. s \in ConnRecords
    BY Fields, <2>1, <2>t, <1>k, ZenonT(30) DEF Typed, PCs
  <2>c. Socket(s) /\ Server(s) /\ Retry(s) /\ Shown(s, noFrag)
        /\ CleanStep(r, s)
    BY <1>i, <2>1, SMTT(60) DEF CleanStep, ConnInv, Socket, Server, Retry,
       Shown, Passed, Early, ConnRecords, PCs
  <2>d. Passed(s) /\ Stopped(s) /\ Ending(s)
    BY <1>i, <2>1, <2>t, SMTT(60) DEF ConnInv, Passed, Stopped, Ending,
       Socket, Server, Early, Finishing, ConnRecords, PCs
  <2> QED BY <1>w, <2>a, <2>b, <2>c, <2>d DEF ConnInv
<1>4. CASE ConnectFails(c)
  <2>1. r.pc = "connect"
    BY <1>r, <1>4 DEF ConnectFails, Goto
  <2> DEFINE s == [r EXCEPT !.pc = "shut"]
  <2>a. Becomes(c, s)
    BY <1>r, <1>c, <1>4 DEF ConnectFails, Goto
  <2>b. s \in ConnRecords
    BY Fields, <2>1, <1>k, ZenonT(30) DEF Typed, PCs
  <2>c. Socket(s) /\ Server(s) /\ Retry(s) /\ Shown(s, noFrag)
        /\ CleanStep(r, s)
    BY <1>i, <2>1, SMTT(60) DEF CleanStep, ConnInv, Socket, Server, Retry,
       Shown, Passed, Early, ConnRecords, PCs
  <2>d. Passed(s) /\ Stopped(s) /\ Ending(s)
    BY <1>i, <2>1, SMTT(60) DEF ConnInv, Passed, Stopped, Ending, Socket,
       Server, Early, Finishing, ConnRecords, PCs
  <2> QED BY <1>w, <2>a, <2>b, <2>c, <2>d DEF ConnInv
<1>5. CASE SendWhole(c)
  <2>1. r.pc = "send" /\ (r.tls => r.host \in Excluded \cup noFrag)
    BY <1>r, <1>5 DEF SendWhole, SkipFrag
  <2>2. CASE r.srv = "reset"
    <3> DEFINE s == [r EXCEPT !.pc = "close", !.hello = "whole"]
    <3>a. Becomes(c, s)
      BY <1>r, <1>c, <1>5, <2>2 DEF SendWhole, SkipFrag
    <3>b. s \in ConnRecords
      BY Fields, <2>1, <2>2, <1>k, ZenonT(30) DEF Typed, PCs
    <3>c. Socket(s) /\ Server(s) /\ Retry(s) /\ Shown(s, noFrag)
          /\ CleanStep(r, s)
      BY <1>i, <2>1, <2>2, SMTT(60) DEF CleanStep, ConnInv, Socket, Server,
         Retry, Shown, Passed, Early, ConnRecords, PCs
    <3>d. Passed(s) /\ Stopped(s) /\ Ending(s)
      BY <1>i, <2>1, <2>2, SMTT(60) DEF ConnInv, Passed, Stopped, Ending,
         Socket, Server, Early, Finishing, ConnRecords, PCs
    <3> QED BY <1>w, <3>a, <3>b, <3>c, <3>d DEF ConnInv
  <2>3. CASE r.srv # "reset"
    <3> DEFINE s == [r EXCEPT !.pc = "forward", !.hello = "whole"]
    <3>a. Becomes(c, s)
      BY <1>r, <1>c, <1>5, <2>3 DEF SendWhole, SkipFrag
    <3>b. s \in ConnRecords
      BY Fields, <2>1, <2>3, <1>k, ZenonT(30) DEF Typed, PCs
    <3>c. Socket(s) /\ Server(s) /\ Retry(s) /\ Shown(s, noFrag)
          /\ CleanStep(r, s)
      BY <1>i, <2>1, <2>3, SMTT(60) DEF CleanStep, ConnInv, Socket, Server,
         Retry, Shown, Passed, Early, ConnRecords, PCs
    <3>d. Passed(s) /\ Stopped(s) /\ Ending(s)
      BY <1>i, <2>1, <2>3, SMTT(60) DEF ConnInv, Passed, Stopped, Ending,
         Socket, Server, Early, Finishing, ConnRecords, PCs
    <3> QED BY <1>w, <3>a, <3>b, <3>c, <3>d DEF ConnInv
  <2> QED BY <2>2, <2>3
<1>6. CASE SendFirstRecords(c)
  <2>1. r.pc = "send" /\ r.tls
    BY <1>r, <1>6 DEF SendFirstRecords, SkipFrag
  <2>2. CASE r.srv = "reset"
    <3> DEFINE s == [r EXCEPT !.pc = "close", !.hello = "part"]
    <3>a. Becomes(c, s)
      BY <1>r, <1>c, <1>6, <2>2 DEF SendFirstRecords, SkipFrag
    <3>b. s \in ConnRecords
      BY Fields, <2>1, <2>2, <1>k, ZenonT(30) DEF Typed, PCs
    <3>c. Socket(s) /\ Server(s) /\ Retry(s) /\ Shown(s, noFrag)
          /\ CleanStep(r, s)
      BY <1>i, <2>1, <2>2, SMTT(60) DEF CleanStep, ConnInv, Socket, Server,
         Retry, Shown, Passed, Early, ConnRecords, PCs
    <3>d. Passed(s) /\ Stopped(s) /\ Ending(s)
      BY <1>i, <2>1, <2>2, SMTT(60) DEF ConnInv, Passed, Stopped, Ending,
         Socket, Server, Early, Finishing, ConnRecords, PCs
    <3> QED BY <1>w, <3>a, <3>b, <3>c, <3>d DEF ConnInv
  <2>3. CASE r.srv # "reset"
    <3> DEFINE s == [r EXCEPT !.pc = "sending", !.hello = "part"]
    <3>a. Becomes(c, s)
      BY <1>r, <1>c, <1>6, <2>3 DEF SendFirstRecords, SkipFrag
    <3>b. s \in ConnRecords
      BY Fields, <2>1, <2>3, <1>k, ZenonT(30) DEF Typed, PCs
    <3>c. Socket(s) /\ Server(s) /\ Retry(s) /\ Shown(s, noFrag)
          /\ CleanStep(r, s)
      BY <1>i, <2>1, <2>3, SMTT(60) DEF CleanStep, ConnInv, Socket, Server,
         Retry, Shown, Passed, Early, ConnRecords, PCs
    <3>d. Passed(s) /\ Stopped(s) /\ Ending(s)
      BY <1>i, <2>1, <2>3, SMTT(60) DEF ConnInv, Passed, Stopped, Ending,
         Socket, Server, Early, Finishing, ConnRecords, PCs
    <3> QED BY <1>w, <3>a, <3>b, <3>c, <3>d DEF ConnInv
  <2> QED BY <2>2, <2>3
<1>7. CASE SendLastRecord(c)
  <2>1. r.pc = "sending"
    BY <1>r, <1>7 DEF SendLastRecord
  <2>2. CASE r.srv = "reset"
    <3> DEFINE s == [r EXCEPT !.pc = "close"]
    <3>a. Becomes(c, s)
      BY <1>r, <1>c, <1>7, <2>2 DEF SendLastRecord
    <3>b. s \in ConnRecords
      BY Fields, <2>1, <2>2, <1>k, ZenonT(30) DEF Typed, PCs
    <3>c. Socket(s) /\ Server(s) /\ Retry(s) /\ Shown(s, noFrag)
          /\ CleanStep(r, s)
      BY <1>i, <2>1, <2>2, SMTT(60) DEF CleanStep, ConnInv, Socket, Server,
         Retry, Shown, Passed, Early, ConnRecords, PCs
    <3>d. Passed(s) /\ Stopped(s) /\ Ending(s)
      BY <1>i, <2>1, <2>2, SMTT(60) DEF ConnInv, Passed, Stopped, Ending,
         Socket, Server, Early, Finishing, ConnRecords, PCs
    <3> QED BY <1>w, <3>a, <3>b, <3>c, <3>d DEF ConnInv
  <2>3. CASE r.srv # "reset"
    <3> DEFINE s == [r EXCEPT !.pc = "probe", !.hello = "frag"]
    <3>a. Becomes(c, s)
      BY <1>r, <1>c, <1>7, <2>3 DEF SendLastRecord
    <3>b. s \in ConnRecords
      BY Fields, <2>1, <2>3, <1>k, ZenonT(30) DEF Typed, PCs
    <3>c. Socket(s) /\ Server(s) /\ Retry(s) /\ Shown(s, noFrag)
          /\ CleanStep(r, s)
      BY <1>i, <2>1, <2>3, SMTT(60) DEF CleanStep, ConnInv, Socket, Server,
         Retry, Shown, Passed, Early, ConnRecords, PCs
    <3>d. Passed(s) /\ Stopped(s) /\ Ending(s)
      BY <1>i, <2>1, <2>3, SMTT(60) DEF ConnInv, Passed, Stopped, Ending,
         Socket, Server, Early, Finishing, ConnRecords, PCs
    <3> QED BY <1>w, <3>a, <3>b, <3>c, <3>d DEF ConnInv
  <2> QED BY <2>2, <2>3
<1>8. CASE CloseRejected(c)
  <2>1. r.pc = "retry"
    BY <1>r, <1>8 DEF CloseRejected
  <2> DEFINE s == [r EXCEPT !.pc = "reconnect", !.up = "closed"]
  <2>a. Becomes(c, s)
    BY <1>r, <1>c, <1>8 DEF CloseRejected
  <2>b. s \in ConnRecords
    BY Fields, <2>1, <1>k, ZenonT(30) DEF Typed, PCs
  <2>c. Socket(s) /\ Server(s) /\ Retry(s) /\ Shown(s, noFrag)
        /\ CleanStep(r, s)
    BY <1>i, <2>1, SMTT(60) DEF CleanStep, ConnInv, Socket, Server, Retry,
       Shown, Passed, Early, ConnRecords, PCs
  <2>d. Passed(s) /\ Stopped(s) /\ Ending(s)
    BY <1>i, <2>1, SMTT(60) DEF ConnInv, Passed, Stopped, Ending, Socket,
       Server, Early, Finishing, ConnRecords, PCs
  <2> QED BY <1>w, <2>a, <2>b, <2>c, <2>d DEF ConnInv
<1>9. CASE Reconnect(c)
  <2>1. r.pc = "reconnect"
    BY <1>r, <1>9 DEF Reconnect, Opened
  <2>t. r.nup + 1 \in 0 .. 2
    BY <1>i, <2>1, MaxDataAssumption DEF ConnInv, Socket, ConnRecords
  <2> DEFINE s == [r EXCEPT !.pc = "resend", !.up = "open", !.nup = @ + 1,
                          !.read = 0, !.sent = 0, !.hello = "none",
                          !.srv = "quiet"]
  <2>a. Becomes(c, s)
    BY <1>r, <1>c, <1>9 DEF Reconnect, Opened
  <2>b. s \in ConnRecords
    BY Fields, <2>1, <2>t, <1>k, ZenonT(30) DEF Typed, PCs
  <2>c. Socket(s) /\ Server(s) /\ Retry(s) /\ Shown(s, noFrag)
        /\ CleanStep(r, s)
    BY <1>i, <2>1, SMTT(60) DEF CleanStep, ConnInv, Socket, Server, Retry,
       Shown, Passed, Early, ConnRecords, PCs
  <2>d. Passed(s) /\ Stopped(s) /\ Ending(s)
    BY <1>i, <2>1, <2>t, SMTT(60) DEF ConnInv, Passed, Stopped, Ending,
       Socket, Server, Early, Finishing, ConnRecords, PCs
  <2> QED BY <1>w, <2>a, <2>b, <2>c, <2>d DEF ConnInv
<1>10. CASE ReconnectFails(c)
  <2>1. r.pc = "reconnect"
    BY <1>r, <1>10 DEF ReconnectFails
  <2> DEFINE s == [r EXCEPT !.pc = "shut", !.up = "none"]
  <2>a. Becomes(c, s)
    BY <1>r, <1>c, <1>10 DEF ReconnectFails
  <2>b. s \in ConnRecords
    BY Fields, <2>1, <1>k, ZenonT(30) DEF Typed, PCs
  <2>c. Socket(s) /\ Server(s) /\ Retry(s) /\ Shown(s, noFrag)
        /\ CleanStep(r, s)
    BY <1>i, <2>1, SMTT(60) DEF CleanStep, ConnInv, Socket, Server, Retry,
       Shown, Passed, Early, ConnRecords, PCs
  <2>d. Passed(s) /\ Stopped(s) /\ Ending(s)
    BY <1>i, <2>1, SMTT(60) DEF ConnInv, Passed, Stopped, Ending, Socket,
       Server, Early, Finishing, ConnRecords, PCs
  <2> QED BY <1>w, <2>a, <2>b, <2>c, <2>d DEF ConnInv
<1>11. CASE Resend(c)
  <2>1. r.pc = "resend"
    BY <1>r, <1>11 DEF Resend
  <2>2. CASE r.srv = "reset"
    <3> DEFINE s == [r EXCEPT !.pc = "close", !.hello = "whole"]
    <3>a. Becomes(c, s)
      BY <1>r, <1>c, <1>11, <2>2 DEF Resend
    <3>b. s \in ConnRecords
      BY Fields, <2>1, <2>2, <1>k, ZenonT(30) DEF Typed, PCs
    <3>c. Socket(s) /\ Server(s) /\ Retry(s) /\ Shown(s, noFrag)
          /\ CleanStep(r, s)
      BY <1>i, <2>1, <2>2, SMTT(60) DEF CleanStep, ConnInv, Socket, Server,
         Retry, Shown, Passed, Early, ConnRecords, PCs
    <3>d. Passed(s) /\ Stopped(s) /\ Ending(s)
      BY <1>i, <2>1, <2>2, SMTT(60) DEF ConnInv, Passed, Stopped, Ending,
         Socket, Server, Early, Finishing, ConnRecords, PCs
    <3> QED BY <1>w, <3>a, <3>b, <3>c, <3>d DEF ConnInv
  <2>3. CASE r.srv # "reset"
    <3> DEFINE s == [r EXCEPT !.pc = "reprobe", !.hello = "whole"]
    <3>a. Becomes(c, s)
      BY <1>r, <1>c, <1>11, <2>3 DEF Resend
    <3>b. s \in ConnRecords
      BY Fields, <2>1, <2>3, <1>k, ZenonT(30) DEF Typed, PCs
    <3>c. Socket(s) /\ Server(s) /\ Retry(s) /\ Shown(s, noFrag)
          /\ CleanStep(r, s)
      BY <1>i, <2>1, <2>3, SMTT(60) DEF CleanStep, ConnInv, Socket, Server,
         Retry, Shown, Passed, Early, ConnRecords, PCs
    <3>d. Passed(s) /\ Stopped(s) /\ Ending(s)
      BY <1>i, <2>1, <2>3, SMTT(60) DEF ConnInv, Passed, Stopped, Ending,
         Socket, Server, Early, Finishing, ConnRecords, PCs
    <3> QED BY <1>w, <3>a, <3>b, <3>c, <3>d DEF ConnInv
  <2> QED BY <2>2, <2>3
<1>12. CASE Forward(c)
  <2>1. r.pc = "forward"
    BY <1>r, <1>12 DEF Forward
  <2>t. r.first = "data" =>
          Append(r.got, <<r.nup, r.read>>) \in Seq((1 .. 2) \X (1 .. MaxData))
    BY <1>i, <2>1, MaxDataAssumption DEF ConnInv, Passed, Socket, ConnRecords
  <2>2. CASE r.first # "data"
    <3> DEFINE s == [r EXCEPT !.pc = "pump", !.rev = "recv"]
    <3>a. Becomes(c, s)
      BY <1>r, <1>c, <1>12, <2>2 DEF Forward
    <3>b. s \in ConnRecords
      BY Fields, <2>1, <2>t, <2>2, <1>k, ZenonT(30) DEF Typed, PCs
    <3>c. Socket(s) /\ Server(s) /\ Retry(s) /\ Shown(s, noFrag)
          /\ CleanStep(r, s)
      BY <1>i, <2>1, <2>2, SMTT(60) DEF CleanStep, ConnInv, Socket, Server,
         Retry, Shown, Passed, Early, ConnRecords, PCs
    <3>d. Passed(s) /\ Stopped(s) /\ Ending(s)
      BY <1>i, <2>1, <2>t, <2>2, SMTT(60) DEF ConnInv, Passed, Stopped,
         Ending, Socket, Server, Early, Finishing, ConnRecords, PCs
    <3> QED BY <1>w, <3>a, <3>b, <3>c, <3>d DEF ConnInv
  <2>3. CASE r.first = "data" /\ r.client = "gone"
    <3> DEFINE s == [r EXCEPT !.pc = "close", !.down = @ + 1]
    <3>a. Becomes(c, s)
      BY <1>r, <1>c, <1>12, <2>3 DEF Forward
    <3>b. s \in ConnRecords
      BY Fields, <2>1, <2>t, <2>3, <1>k, ZenonT(30) DEF Typed, PCs
    <3>c. Socket(s) /\ Server(s) /\ Retry(s) /\ Shown(s, noFrag)
          /\ CleanStep(r, s)
      BY <1>i, <2>1, <2>3, SMTT(60) DEF CleanStep, ConnInv, Socket, Server,
         Retry, Shown, Passed, Early, ConnRecords, PCs
    <3>d. Passed(s) /\ Stopped(s) /\ Ending(s)
      BY <1>i, <2>1, <2>t, <2>3, SMTT(60) DEF ConnInv, Passed, Stopped,
         Ending, Socket, Server, Early, Finishing, ConnRecords, PCs
    <3> QED BY <1>w, <3>a, <3>b, <3>c, <3>d DEF ConnInv
  <2>4. CASE r.first = "data" /\ r.client # "gone"
    <3> DEFINE s == [r EXCEPT !.pc = "pump", !.rev = "recv", !.down = @ + 1,
                          !.got = Append(@, <<r.nup, r.read>>)]
    <3>a. Becomes(c, s)
      BY <1>r, <1>c, <1>12, <2>4 DEF Forward
    <3>b. s \in ConnRecords
      BY Fields, <2>1, <2>t, <2>4, <1>k, ZenonT(30) DEF Typed, PCs
    <3>c. Socket(s) /\ Server(s) /\ Retry(s) /\ Shown(s, noFrag)
          /\ CleanStep(r, s)
      BY <1>i, <2>1, <2>4, SMTT(60) DEF CleanStep, ConnInv, Socket, Server,
         Retry, Shown, Passed, Early, ConnRecords, PCs
    <3>d. Passed(s) /\ Stopped(s) /\ Ending(s)
      BY <1>i, <2>1, <2>t, <2>4, SMTT(60) DEF ConnInv, Passed, Stopped,
         Ending, Socket, Server, Early, Finishing, ConnRecords, PCs
    <3> QED BY <1>w, <3>a, <3>b, <3>c, <3>d DEF ConnInv
  <2> QED BY <2>2, <2>3, <2>4
<1>13. CASE PumpEnds(c)
  <2>1. r.pc = "pump" /\ (r.client # "open" \/ r.srv = "reset")
    BY <1>r, <1>13 DEF PumpEnds, Goto, ConnInv, Stopped
  <2> DEFINE s == [r EXCEPT !.pc = "join"]
  <2>a. Becomes(c, s)
    BY <1>r, <1>c, <1>13 DEF PumpEnds, Goto
  <2>b. s \in ConnRecords
    BY Fields, <2>1, <1>k, ZenonT(30) DEF Typed, PCs
  <2>c. Socket(s) /\ Server(s) /\ Retry(s) /\ Shown(s, noFrag)
        /\ CleanStep(r, s)
    BY <1>i, <2>1, SMTT(60) DEF CleanStep, ConnInv, Socket, Server, Retry,
       Shown, Passed, Early, ConnRecords, PCs
  <2>d. Passed(s) /\ Stopped(s) /\ Ending(s)
    BY <1>i, <2>1, SMTT(60) DEF ConnInv, Passed, Stopped, Ending, Socket,
       Server, Early, Finishing, ConnRecords, PCs
  <2> QED BY <1>w, <2>a, <2>b, <2>c, <2>d DEF ConnInv
<1>14. CASE Join(c)
  <2>1. r.pc = "join"
    BY <1>r, <1>14 DEF Join
  <2>2. CASE r.rev = "done"
    <3> DEFINE s == [r EXCEPT !.pc = "close", !.cutoff = FALSE]
    <3>a. Becomes(c, s)
      BY <1>r, <1>c, <1>14, <2>2 DEF Join
    <3>b. s \in ConnRecords
      BY Fields, <2>1, <2>2, <1>k, ZenonT(30) DEF Typed, PCs
    <3>c. Socket(s) /\ Server(s) /\ Retry(s) /\ Shown(s, noFrag)
          /\ CleanStep(r, s)
      BY <1>i, <2>1, <2>2, SMTT(60) DEF CleanStep, ConnInv, Socket, Server,
         Retry, Shown, Passed, Early, ConnRecords, PCs
    <3>d. Passed(s) /\ Stopped(s) /\ Ending(s)
      BY <1>i, <2>1, <2>2, SMTT(60) DEF ConnInv, Passed, Stopped, Ending,
         Socket, Server, Early, Finishing, ConnRecords, PCs
    <3> QED BY <1>w, <3>a, <3>b, <3>c, <3>d DEF ConnInv
  <2>3. CASE r.rev # "done"
    <3> DEFINE s == [r EXCEPT !.pc = "close", !.cutoff = TRUE]
    <3>a. Becomes(c, s)
      BY <1>r, <1>c, <1>14, <2>3 DEF Join
    <3>b. s \in ConnRecords
      BY Fields, <2>1, <2>3, <1>k, ZenonT(30) DEF Typed, PCs
    <3>c. Socket(s) /\ Server(s) /\ Retry(s) /\ Shown(s, noFrag)
          /\ CleanStep(r, s)
      BY <1>i, <2>1, <2>3, SMTT(60) DEF CleanStep, ConnInv, Socket, Server,
         Retry, Shown, Passed, Early, ConnRecords, PCs
    <3>d. Passed(s) /\ Stopped(s) /\ Ending(s)
      BY <1>i, <2>1, <2>3, SMTT(60) DEF ConnInv, Passed, Stopped, Ending,
         Socket, Server, Early, Finishing, ConnRecords, PCs
    <3> QED BY <1>w, <3>a, <3>b, <3>c, <3>d DEF ConnInv
  <2> QED BY <2>2, <2>3
<1>15. CASE CloseUpstream(c)
  <2>1. r.pc = "close"
    BY <1>r, <1>15 DEF CloseUpstream
  <2> DEFINE s == [r EXCEPT !.pc = "account", !.up = "closed"]
  <2>a. Becomes(c, s)
    BY <1>r, <1>c, <1>15 DEF CloseUpstream
  <2>b. s \in ConnRecords
    BY Fields, <2>1, <1>k, ZenonT(30) DEF Typed, PCs
  <2>c. Socket(s) /\ Server(s) /\ Retry(s) /\ Shown(s, noFrag)
        /\ CleanStep(r, s)
    BY <1>i, <2>1, SMTT(60) DEF CleanStep, ConnInv, Socket, Server, Retry,
       Shown, Passed, Early, ConnRecords, PCs
  <2>d. Passed(s) /\ Stopped(s) /\ Ending(s)
    BY <1>i, <2>1, SMTT(60) DEF ConnInv, Passed, Stopped, Ending, Socket,
       Server, Early, Finishing, ConnRecords, PCs
  <2> QED BY <1>w, <2>a, <2>b, <2>c, <2>d DEF ConnInv
<1>16. CASE Account(c)
  <2>1. r.pc = "account"
    BY <1>r, <1>16 DEF Account
  <2>2. CASE r.down = 0
    <3> DEFINE s == [r EXCEPT !.pc = "shut", !.counted = "reset"]
    <3>a. Becomes(c, s)
      BY <1>r, <1>c, <1>16, <2>2 DEF Account
    <3>b. s \in ConnRecords
      BY Fields, <2>1, <2>2, <1>k, ZenonT(30) DEF Typed, PCs
    <3>c. Socket(s) /\ Server(s) /\ Retry(s) /\ Shown(s, noFrag)
          /\ CleanStep(r, s)
      BY <1>i, <2>1, <2>2, SMTT(60) DEF CleanStep, ConnInv, Socket, Server,
         Retry, Shown, Passed, Early, ConnRecords, PCs
    <3>d. Passed(s) /\ Stopped(s) /\ Ending(s)
      BY <1>i, <2>1, <2>2, SMTT(60) DEF ConnInv, Passed, Stopped, Ending,
         Socket, Server, Early, Finishing, ConnRecords, PCs
    <3> QED BY <1>w, <3>a, <3>b, <3>c, <3>d DEF ConnInv
  <2>3. CASE r.down # 0
    <3> DEFINE s == [r EXCEPT !.pc = "shut", !.counted = "success"]
    <3>a. Becomes(c, s)
      BY <1>r, <1>c, <1>16, <2>3 DEF Account
    <3>b. s \in ConnRecords
      BY Fields, <2>1, <2>3, <1>k, ZenonT(30) DEF Typed, PCs
    <3>c. Socket(s) /\ Server(s) /\ Retry(s) /\ Shown(s, noFrag)
          /\ CleanStep(r, s)
      BY <1>i, <2>1, <2>3, SMTT(60) DEF CleanStep, ConnInv, Socket, Server,
         Retry, Shown, Passed, Early, ConnRecords, PCs
    <3>d. Passed(s)
      BY <1>i, <2>1, <2>3 DEF ConnInv, Passed, Early, ConnRecords
    <3>e. Stopped(s)
      BY <1>i, <2>1, SMTT(60) DEF ConnInv, Stopped, Finishing, ConnRecords
    <3>f. Ending(s)
      BY <1>i, <2>1, SMTT(60) DEF ConnInv, Ending, Stopped, ConnRecords
    <3> QED BY <1>w, <3>a, <3>b, <3>c, <3>d, <3>e, <3>f DEF ConnInv
  <2> QED BY <2>2, <2>3
<1>17. CASE Shut(c)
  <2>1. r.pc = "shut"
    BY <1>r, <1>17 DEF Shut
  <2> DEFINE s == [r EXCEPT !.pc = "done", !.eof = TRUE]
  <2>a. Becomes(c, s)
    BY <1>r, <1>c, <1>17 DEF Shut
  <2>b. s \in ConnRecords
    BY Fields, <2>1, <1>k, ZenonT(30) DEF Typed, PCs
  <2>c. Socket(s) /\ Server(s) /\ Retry(s) /\ Shown(s, noFrag)
        /\ CleanStep(r, s)
    BY <1>i, <2>1, SMTT(60) DEF CleanStep, ConnInv, Socket, Server, Retry,
       Shown, Passed, Early, ConnRecords, PCs
  <2>d. Passed(s) /\ Stopped(s) /\ Ending(s)
    BY <1>i, <2>1, SMTT(60) DEF ConnInv, Passed, Stopped, Ending, Socket,
       Server, Early, Finishing, ConnRecords, PCs
  <2> QED BY <1>w, <2>a, <2>b, <2>c, <2>d DEF ConnInv
<1> QED BY <1>1, <1>2, <1>3, <1>4, <1>5, <1>6, <1>7, <1>8, <1>9, <1>10,
           <1>11, <1>12, <1>13, <1>14, <1>15, <1>16, <1>17 DEF HandlerStep

\* The reverse thread: what it passes on is the next piece.
LEMMA ReverseKeeps ==
  ASSUME TypeOK, NEW c \in Conns, ConnInv(conn[c], noFrag),
         RevRecv(c) \/ RevSend(c) \/ RevEnds(c)
  PROVE  Keeps(c)
<1>r. PICK r \in ConnRecords : r = conn[c] /\ ConnInv(r, noFrag)
  BY DEF TypeOK
<1>i. ConnInv(r, noFrag)
  BY <1>r
<1>c. conn \in [Conns -> ConnRecords]
  BY DEF TypeOK
<1>w. ASSUME NEW s \in ConnRecords, Becomes(c, s), ConnInv(s, noFrag),
             CleanStep(r, s)
      PROVE  Keeps(c)
  BY <1>r, <1>w DEF Keeps
<1>k. 0 \in 0 .. MaxData /\ r.down + 1 \in Nat
      /\ {} \in SUBSET {"client", "up"}
      /\ TRUE \in BOOLEAN /\ FALSE \in BOOLEAN
  BY MaxDataAssumption DEF ConnRecords
<1> USE DEF Becomes
<1>1. CASE RevRecv(c)
  <2>1. r.rev = "recv" /\ r.up = "open" /\ r.read < r.sent
    BY <1>r, <1>1 DEF RevRecv, DataReady
  <2>t. r.read + 1 \in 0 .. MaxData
    BY <1>i, <2>1, MaxDataAssumption DEF ConnInv, ConnRecords
  <2> DEFINE s == [r EXCEPT !.rev = "send", !.read = @ + 1, !.down = @ + 1]
  <2>a. Becomes(c, s)
    BY <1>r, <1>c, <1>1 DEF RevRecv, DataReady
  <2>b. s \in ConnRecords
    BY Fields, <2>1, <2>t, <1>k, ZenonT(30) DEF Typed, PCs
  <2>c. Socket(s) /\ Server(s) /\ Retry(s) /\ Shown(s, noFrag)
        /\ CleanStep(r, s)
    BY <1>i, <2>1, SMTT(60) DEF CleanStep, ConnInv, Socket, Server, Retry,
       Shown, Passed, Early, ConnRecords, PCs
  <2>d. Passed(s) /\ Stopped(s) /\ Ending(s)
    BY <1>i, <2>1, <2>t, SMTT(60) DEF ConnInv, Passed, Stopped, Ending,
       Socket, Server, Early, Finishing, ConnRecords, PCs
  <2> QED BY <1>w, <2>a, <2>b, <2>c, <2>d DEF ConnInv
<1>2. CASE RevSend(c)
  <2>1. r.rev = "send"
    BY <1>r, <1>2 DEF RevSend
  <2>t. LET g == Append(r.got, <<r.nup, r.read>>)
      IN  /\ g \in Seq((1 .. 2) \X (1 .. MaxData)) /\ Len(g) = Len(r.got) + 1
          /\ \A i \in DOMAIN g : g[i] = <<r.nup, i>>
    BY <1>i, <2>1, MaxDataAssumption DEF ConnInv, Passed, Stopped,
       ConnRecords
  <2>2. CASE r.client = "gone" \/ r.pc = "done"
    <3> DEFINE s == [r EXCEPT !.rev = "done"]
    <3>a. Becomes(c, s)
      BY <1>r, <1>c, <1>2, <2>2 DEF RevSend
    <3>b. s \in ConnRecords
      BY Fields, <2>1, <2>t, <2>2, <1>k, ZenonT(30) DEF Typed, PCs
    <3>c. Socket(s) /\ Server(s) /\ Retry(s) /\ Shown(s, noFrag)
          /\ CleanStep(r, s)
      BY <1>i, <2>1, <2>2, SMTT(60) DEF CleanStep, ConnInv, Socket, Server,
         Retry, Shown, Passed, Early, ConnRecords, PCs
    <3>d. Passed(s) /\ Stopped(s) /\ Ending(s)
      BY <1>i, <2>1, <2>2, SMTT(60) DEF ConnInv, Passed, Stopped,
         Ending, Socket, Server, Early, Finishing, ConnRecords, PCs
    <3> QED BY <1>w, <3>a, <3>b, <3>c, <3>d DEF ConnInv
  <2>3. CASE ~(r.client = "gone" \/ r.pc = "done")
    <3> DEFINE s == [r EXCEPT !.rev = "recv",
                             !.got = Append(@, <<r.nup, r.read>>)]
    <3>a. Becomes(c, s)
      BY <1>r, <1>c, <1>2, <2>3 DEF RevSend
    <3>b. s \in ConnRecords
      BY Fields, <2>1, <2>t, <2>3, <1>k, ZenonT(30) DEF Typed, PCs
    <3>c. Socket(s) /\ Server(s) /\ Retry(s) /\ Shown(s, noFrag)
          /\ CleanStep(r, s)
      BY <1>i, <2>1, <2>3, SMTT(60) DEF CleanStep, ConnInv, Socket, Server,
         Retry, Shown, Passed, Early, ConnRecords, PCs
    <3>d. Passed(s) /\ Stopped(s) /\ Ending(s)
      BY <1>i, <2>1, <2>t, <2>3, SMTT(60) DEF ConnInv, Passed, Stopped,
         Ending, Socket, Server, Early, Finishing, ConnRecords, PCs
    <3> QED BY <1>w, <3>a, <3>b, <3>c, <3>d DEF ConnInv
  <2> QED BY <2>2, <2>3
<1>3. CASE RevEnds(c)
  <2>1. /\ r.rev = "recv"
        /\ \/ r.up # "open" \/ r.srv = "reset"
           \/ r.srv = "eof" /\ r.read = r.sent
           \/ "up" \in r.timed
    BY <1>r, <1>3 DEF RevEnds, Ended
  <2> DEFINE s == [r EXCEPT !.rev = "done", !.eof = TRUE]
  <2>a. Becomes(c, s)
    BY <1>r, <1>c, <1>3 DEF RevEnds, Ended
  <2>b. s \in ConnRecords
    BY Fields, <2>1, <1>k, ZenonT(30) DEF Typed, PCs
  <2>c. Socket(s) /\ Server(s) /\ Retry(s) /\ Shown(s, noFrag)
        /\ CleanStep(r, s)
    BY <1>i, <2>1, SMTT(60) DEF CleanStep, ConnInv, Socket, Server, Retry,
       Shown, Passed, Early, ConnRecords, PCs
  <2>d. Passed(s) /\ Stopped(s) /\ Ending(s)
    BY <1>i, <2>1, SMTT(60) DEF ConnInv, Passed, Stopped, Ending, Socket,
       Server, Early, Finishing, ConnRecords, PCs
  <2> QED BY <1>w, <2>a, <2>b, <2>c, <2>d DEF ConnInv
<1> QED BY <1>1, <1>2, <1>3

\* The server, the DPI and the client.
LEMMA EnvKeeps ==
  ASSUME TypeOK, NEW c \in Conns, ConnInv(conn[c], noFrag),
         ServerSends(c) \/ Cut(c) \/ ClientHalfCloses(c) \/ ClientGoes(c)
  PROVE  Keeps(c)
<1>r. PICK r \in ConnRecords : r = conn[c] /\ ConnInv(r, noFrag)
  BY DEF TypeOK
<1>i. ConnInv(r, noFrag)
  BY <1>r
<1>c. conn \in [Conns -> ConnRecords]
  BY DEF TypeOK
<1>w. ASSUME NEW s \in ConnRecords, Becomes(c, s), ConnInv(s, noFrag),
             CleanStep(r, s)
      PROVE  Keeps(c)
  BY <1>r, <1>w DEF Keeps
<1>k. 0 \in 0 .. MaxData /\ r.down + 1 \in Nat
      /\ {} \in SUBSET {"client", "up"}
      /\ TRUE \in BOOLEAN /\ FALSE \in BOOLEAN
  BY MaxDataAssumption DEF ConnRecords
<1> USE DEF Becomes
<1>1. CASE ServerSends(c)
  <2>1. /\ r.up = "open" /\ r.srv \in {"quiet", "talking"} /\ r.sent < MaxData
        /\ \/ r.hello = "frag" /\ r.host \notin Rejects
           \/ r.hello = "whole" /\ (r.tls => r.host \notin Blocked)
    BY <1>r, <1>1 DEF ServerSends, Answers
  <2>t. r.sent + 1 \in 0 .. MaxData
    BY <1>i, <2>1, MaxDataAssumption DEF ConnInv, ConnRecords
  <2> DEFINE s == [r EXCEPT !.srv = "talking", !.sent = @ + 1]
  <2>a. Becomes(c, s)
    BY <1>r, <1>c, <1>1 DEF ServerSends, Answers
  <2>b. s \in ConnRecords
    BY Fields, <2>1, <2>t, <1>k, ZenonT(30) DEF Typed, PCs
  <2>c. Socket(s) /\ Server(s) /\ Retry(s) /\ Shown(s, noFrag)
        /\ CleanStep(r, s)
    BY <1>i, <2>1, SMTT(60) DEF CleanStep, ConnInv, Socket, Server, Retry,
       Shown, Passed, Early, ConnRecords, PCs
  <2>d. Passed(s) /\ Stopped(s) /\ Ending(s)
    BY <1>i, <2>1, <2>t, SMTT(60) DEF ConnInv, Passed, Stopped, Ending,
       Socket, Server, Early, Finishing, ConnRecords, PCs
  <2> QED BY <1>w, <2>a, <2>b, <2>c, <2>d DEF ConnInv
<1>2. CASE Cut(c)
  <2>1. /\ r.up = "open" /\ r.srv = "quiet"
        /\ \/ r.hello \in {"part", "frag"} /\ r.host \in Rejects
           \/ r.hello = "whole"
           \/ r.host \in Flaky
    BY <1>r, <1>2 DEF Cut, ResetBefore
  <2>2. CASE r.pc \in {"sending", "probe"}
    <3> DEFINE s == [r EXCEPT !.srv = "reset", !.cut = r.pc]
    <3>a. Becomes(c, s)
      BY <1>r, <1>c, <1>2, <2>2 DEF Cut, ResetBefore
    <3>b. s \in ConnRecords
      BY Fields, <2>1, <2>2, <1>k, ZenonT(30) DEF Typed, PCs
    <3>c. Socket(s) /\ Server(s) /\ Retry(s) /\ Shown(s, noFrag)
          /\ CleanStep(r, s)
      BY <1>i, <2>1, <2>2, SMTT(60) DEF CleanStep, ConnInv, Socket, Server,
         Retry, Shown, Passed, Early, ConnRecords, PCs
    <3>d. Passed(s) /\ Stopped(s) /\ Ending(s)
      BY <1>i, <2>1, <2>2, SMTT(60) DEF ConnInv, Passed, Stopped, Ending,
         Socket, Server, Early, Finishing, ConnRecords, PCs
    <3> QED BY <1>w, <3>a, <3>b, <3>c, <3>d DEF ConnInv
  <2>3. CASE r.pc \notin {"sending", "probe"}
    <3> DEFINE s == [r EXCEPT !.srv = "reset", !.cut = r.cut]
    <3>a. Becomes(c, s)
      BY <1>r, <1>c, <1>2, <2>3 DEF Cut, ResetBefore
    <3>b. s \in ConnRecords
      BY Fields, <2>1, <2>3, <1>k, ZenonT(30) DEF Typed, PCs
    <3>c. Socket(s) /\ Server(s) /\ Retry(s) /\ Shown(s, noFrag)
          /\ CleanStep(r, s)
      BY <1>i, <2>1, <2>3, SMTT(60) DEF CleanStep, ConnInv, Socket, Server,
         Retry, Shown, Passed, Early, ConnRecords, PCs
    <3>d. Passed(s) /\ Stopped(s) /\ Ending(s)
      BY <1>i, <2>1, <2>3, SMTT(60) DEF ConnInv, Passed, Stopped, Ending,
         Socket, Server, Early, Finishing, ConnRecords, PCs
    <3> QED BY <1>w, <3>a, <3>b, <3>c, <3>d DEF ConnInv
  <2> QED BY <2>2, <2>3
<1>3. CASE ClientHalfCloses(c)
  <2>1. r.client = "open" /\ r.pc \notin {"hello", "done"}
    BY <1>r, <1>3 DEF ClientHalfCloses
  <2> DEFINE s == [r EXCEPT !.client = "half"]
  <2>a. Becomes(c, s)
    BY <1>r, <1>c, <1>3 DEF ClientHalfCloses
  <2>b. s \in ConnRecords
    BY Fields, <2>1, <1>k, ZenonT(30) DEF Typed, PCs
  <2>c. Socket(s) /\ Server(s) /\ Retry(s) /\ Shown(s, noFrag)
        /\ CleanStep(r, s)
    BY <1>i, <2>1, SMTT(60) DEF CleanStep, ConnInv, Socket, Server, Retry,
       Shown, Passed, Early, ConnRecords, PCs
  <2>d. Passed(s) /\ Stopped(s) /\ Ending(s)
    BY <1>i, <2>1, SMTT(60) DEF ConnInv, Passed, Stopped, Ending, Socket,
       Server, Early, Finishing, ConnRecords, PCs
  <2> QED BY <1>w, <2>a, <2>b, <2>c, <2>d DEF ConnInv
<1>4. CASE ClientGoes(c)
  <2>1. r.client # "gone" /\ r.pc \notin {"hello", "done"}
    BY <1>r, <1>4 DEF ClientGoes
  <2> DEFINE s == [r EXCEPT !.client = "gone"]
  <2>a. Becomes(c, s)
    BY <1>r, <1>c, <1>4 DEF ClientGoes
  <2>b. s \in ConnRecords
    BY Fields, <2>1, <1>k, ZenonT(30) DEF Typed, PCs
  <2>c. Socket(s) /\ Server(s) /\ Retry(s) /\ Shown(s, noFrag)
        /\ CleanStep(r, s)
    BY <1>i, <2>1, SMTT(60) DEF CleanStep, ConnInv, Socket, Server, Retry,
       Shown, Passed, Early, ConnRecords, PCs
  <2>d. Passed(s) /\ Stopped(s) /\ Ending(s)
    BY <1>i, <2>1, SMTT(60) DEF ConnInv, Passed, Stopped, Ending, Socket,
       Server, Early, Finishing, ConnRecords, PCs
  <2> QED BY <1>w, <2>a, <2>b, <2>c, <2>d DEF ConnInv
<1> QED BY <1>1, <1>2, <1>3, <1>4

\* The server ends its reply or breaks it off: only a flaky host's first piece
\* is lost to a reset.
LEMMA ServerEndsKeeps ==
  ASSUME TypeOK, NEW c \in Conns, ConnInv(conn[c], noFrag), ServerEnds(c)
  PROVE  Keeps(c)
<1>r. PICK r \in ConnRecords : r = conn[c] /\ ConnInv(r, noFrag)
  BY DEF TypeOK
<1>i. ConnInv(r, noFrag)
  BY <1>r
<1>c. conn \in [Conns -> ConnRecords]
  BY DEF TypeOK
<1>w. ASSUME NEW s \in ConnRecords, Becomes(c, s), ConnInv(s, noFrag),
             CleanStep(r, s)
      PROVE  Keeps(c)
  BY <1>r, <1>w DEF Keeps
<1>k. 0 \in 0 .. MaxData /\ r.down + 1 \in Nat
      /\ {} \in SUBSET {"client", "up"}
      /\ TRUE \in BOOLEAN /\ FALSE \in BOOLEAN
  BY MaxDataAssumption DEF ConnRecords
<1> USE DEF Becomes
<1>1. r.up = "open" /\ r.srv = "talking"
  BY <1>r DEF ServerEnds
<1>2. \/ Becomes(c, [r EXCEPT !.srv = "eof"])
      \/ /\ r.read # 0 \/ r.pc \notin {"sending", "probe"}
         /\ Becomes(c, [r EXCEPT !.srv = "reset"])
      \/ /\ r.host \in Flaky /\ r.pc \in {"sending", "probe"}
         /\ Becomes(c, [r EXCEPT !.srv = "reset", !.cut = r.pc])
  <2>1. PICK e \in {"eof", "reset"} :
           IF e = "reset" /\ r.read = 0
             THEN r.host \in Flaky /\ ResetBefore(c)
             ELSE conn' = [conn EXCEPT ![c].srv = e]
    BY <1>r DEF ServerEnds
  <2>2. CASE e = "eof"
    BY <1>r, <1>c, <2>1, <2>2
  <2>3. CASE e = "reset" /\ r.read # 0
    BY <1>r, <1>c, <2>1, <2>3
  <2>4. CASE e = "reset" /\ r.read = 0 /\ r.pc \in {"sending", "probe"}
    BY <1>r, <1>c, <2>1, <2>4 DEF ResetBefore
  <2>5. CASE e = "reset" /\ r.read = 0 /\ r.pc \notin {"sending", "probe"}
    <3> DEFINE s == [r EXCEPT !.srv = "reset", !.cut = r.cut]
    <3>1. Becomes(c, s)
      BY <1>r, <1>c, <2>1, <2>5 DEF ResetBefore
    <3>2. s = [r EXCEPT !.srv = "reset"]
      BY DEF ConnRecords
    <3> QED BY <3>1, <3>2, <2>5
  <2> QED BY <2>1, <2>2, <2>3, <2>4, <2>5
<1>3. CASE Becomes(c, [r EXCEPT !.srv = "eof"])
  <2> DEFINE s == [r EXCEPT !.srv = "eof"]
  <2>b. s \in ConnRecords
    BY Fields, ZenonT(30) DEF Typed
  <2>c. Socket(s) /\ Server(s) /\ Retry(s) /\ Shown(s, noFrag)
        /\ CleanStep(r, s)
    BY <1>i, <1>1, SMTT(60) DEF CleanStep, ConnInv, Socket, Server, Retry,
       Shown, Passed, Early, ConnRecords, PCs
  <2>d. Passed(s) /\ Stopped(s) /\ Ending(s)
    BY <1>i, <1>1, SMTT(60) DEF ConnInv, Passed, Stopped, Ending,
       Socket, Server, Early, Finishing, ConnRecords, PCs
  <2> QED BY <1>w, <1>3, <2>b, <2>c, <2>d DEF ConnInv
<1>4. CASE /\ r.read # 0 \/ r.pc \notin {"sending", "probe"}
           /\ Becomes(c, [r EXCEPT !.srv = "reset"])
  <2> DEFINE s == [r EXCEPT !.srv = "reset"]
  <2>1. r.pc \notin {"sending", "probe"}
    BY <1>i, <1>4 DEF ConnInv, Passed, Early
  <2>b. s \in ConnRecords
    BY Fields, <2>1, ZenonT(30) DEF Typed
  <2>c. Socket(s) /\ Server(s) /\ Retry(s) /\ Shown(s, noFrag)
        /\ CleanStep(r, s)
    BY <1>i, <1>1, <2>1, SMTT(60) DEF CleanStep, ConnInv, Socket, Server,
       Retry, Shown, Passed, Early, ConnRecords, PCs
  <2>d. Passed(s) /\ Stopped(s) /\ Ending(s)
    BY <1>i, <1>1, <2>1, SMTT(60) DEF ConnInv, Passed, Stopped, Ending,
       Socket, Server, Early, Finishing, ConnRecords, PCs
  <2> QED BY <1>w, <1>4, <2>b, <2>c, <2>d DEF ConnInv
<1>5. CASE /\ r.host \in Flaky /\ r.pc \in {"sending", "probe"}
           /\ Becomes(c, [r EXCEPT !.srv = "reset", !.cut = r.pc])
  <2> DEFINE s == [r EXCEPT !.srv = "reset", !.cut = r.pc]
  <2>1. r.host \in Flaky /\ r.pc \in {"sending", "probe"}
    BY <1>5
  <2>b. s \in ConnRecords
    BY Fields, <2>1, ZenonT(30) DEF Typed
  <2>c. Socket(s) /\ Server(s) /\ Retry(s) /\ Shown(s, noFrag)
        /\ CleanStep(r, s)
    BY <1>i, <1>1, <2>1, SMTT(60) DEF CleanStep, ConnInv, Socket, Server,
       Retry, Shown, Passed, Early, ConnRecords, PCs
  <2>d. Passed(s) /\ Stopped(s) /\ Ending(s)
    BY <1>i, <1>1, <2>1, SMTT(60) DEF ConnInv, Passed, Stopped, Ending,
       Socket, Server, Early, Finishing, ConnRecords, PCs
  <2> QED BY <1>w, <1>5, <2>b, <2>c, <2>d DEF ConnInv
<1> QED BY <1>2, <1>3, <1>4, <1>5

\* A new connection starts with nothing sent, read or promised.
LEMMA NewConnKeeps ==
  ASSUME NEW t \in BOOLEAN, NEW h \in Hosts, NEW nf
  PROVE  NewConn(t, h) \in ConnRecords /\ ConnInv(NewConn(t, h), nf)
<1>1. 0 \in 0 .. MaxData /\ 0 \in 0 .. 2 /\ 0 \in Nat
  BY MaxDataAssumption
<1>2. <<>> \in Seq((1 .. 2) \X (1 .. MaxData)) /\ Len(<<>>) = 0
      /\ DOMAIN <<>> = {}
  BY EmptySeq
<1>3. NewConn(t, h) \in ConnRecords
  BY <1>1, <1>2 DEF NewConn, ConnRecords, PCs
<1>4. ConnInv(NewConn(t, h), nf)
  <2>1. PICK r \in ConnRecords : r = NewConn(t, h)
    BY <1>3
  <2>2. Socket(r) /\ Server(r) /\ Retry(r) /\ Shown(r, nf)
    BY <2>1 DEF NewConn, Socket, Server, Retry, Shown
  <2>3. Passed(r)
    BY <1>2, <2>1 DEF NewConn, Passed, Early
  <2>4. Stopped(r)
    BY <2>1 DEF NewConn, Stopped, Finishing
  <2>5. Ending(r)
    BY <2>1 DEF NewConn, Ending
  <2> QED BY <2>1, <2>2, <2>3, <2>4, <2>5 DEF ConnInv
<1> QED BY <1>3, <1>4

-----------------------------------------------------------------------------
(***************************************************************************)
(* From one record to all of them.                                         *)
(***************************************************************************)

\* Learning a host never makes a connection's history wrong.
LEMMA NoFragGrows ==
  ASSUME NEW r, NEW n, NEW m, n \subseteq m, ConnInv(r, n)
  PROVE  ConnInv(r, m)
  BY DEF ConnInv, Shown

\* A step of one connection leaves the records of the others alone.
LEMMA OthersKept ==
  ASSUME RelayInv, NEW c \in Conns, Keeps(c),
         noFrag \subseteq noFrag', noFrag' \in SUBSET Hosts, Learned'
  PROVE  RelayInv' /\ \A d \in Conns : CleanStep(conn[d], conn'[d])
<1>1. PICK s \in ConnRecords :
         Becomes(c, s) /\ ConnInv(s, noFrag) /\ CleanStep(conn[c], s)
  BY DEF Keeps
<1>2. conn \in [Conns -> ConnRecords]
  BY DEF RelayInv, TypeOK
<1>3. conn' \in [Conns -> ConnRecords]
  BY <1>1, <1>2 DEF Becomes
<1>4. ASSUME NEW d \in Conns PROVE ConnInv(conn'[d], noFrag')
  <2>1. ConnInv(conn[d], noFrag')
    BY NoFragGrows DEF RelayInv
  <2>2. ConnInv(s, noFrag')
    BY <1>1, NoFragGrows
  <2>3. conn'[d] = IF d = c THEN s ELSE conn[d]
    BY <1>1, <1>2 DEF Becomes
  <2> QED BY <2>1, <2>2, <2>3
<1>5. ASSUME NEW d \in Conns PROVE CleanStep(conn[d], conn'[d])
  <2>1. conn'[d] = IF d = c THEN s ELSE conn[d]
    BY <1>1, <1>2 DEF Becomes
  <2>2. conn[d] \in ConnRecords
    BY <1>2
  <2>5. conn[d].nup \in Nat
    BY <2>2 DEF ConnRecords
  <2>3. CASE d = c
    BY <1>1, <2>1, <2>3
  <2>4. CASE d # c
    BY <2>1, <2>5, <2>4 DEF CleanStep
  <2> QED BY <2>3, <2>4
<1> QED BY <1>3, <1>4, <1>5 DEF RelayInv, TypeOK

\* A reply to the plain retry comes from a host that lets its name pass, and
\* whose fragmented hello was cut.
LEMMA ReprobeLearns ==
  ASSUME RelayInv, NEW c \in Conns, Reprobe(c)
  PROVE  RelayInv' /\ \A d \in Conns : CleanStep(conn[d], conn'[d])
<1>1. PICK reply \in Replies :
        /\ TakeReply(c, reply, "forward")
        /\ IF reply = "data" THEN RememberNoFrag(conn[c].host)
                             ELSE UNCHANGED noFrag
  BY DEF Reprobe
<1>2. conn[c].pc = "reprobe" /\ TypeOK /\ ConnInv(conn[c], noFrag)
  BY DEF Reprobe, RelayInv
<1>3. Keeps(c)
  BY <1>1, <1>2, TakeReplyKeeps
<1>4. CASE reply # "data"
  <2>1. noFrag' = noFrag
    BY <1>1, <1>4
  <2> QED BY <2>1, <1>3, OthersKept DEF RelayInv, TypeOK, Learned
<1>5. CASE reply = "data"
  <2>1. PICK r \in ConnRecords : r = conn[c] /\ ConnInv(r, noFrag)
    BY <1>2 DEF TypeOK
  <2>2. r.pc = "reprobe" /\ r.read < r.sent
    BY <1>1, <1>2, <1>5, <2>1 DEF TakeReply, FirstReply, DataReady
  <2>3. r.sent > 0 /\ r.hello = "whole" /\ r.tls
        /\ r.host \in Rejects \cup Flaky
    BY <2>1, <2>2 DEF ConnInv, Server, Retry, ConnRecords
  <2>4. r.host \in (Rejects \cup Flaky) \ Blocked /\ r.host \in Hosts
    BY <2>1, <2>3 DEF ConnInv, Server, ConnRecords
  <2>5. noFrag \subseteq noFrag' /\ noFrag' \subseteq noFrag \cup {r.host}
    BY <1>1, <1>5, <2>1 DEF RememberNoFrag
  <2>6. noFrag' \in SUBSET Hosts /\ Learned'
    BY <2>4, <2>5 DEF RelayInv, TypeOK, Learned
  <2> QED BY <1>3, <2>5, <2>6, OthersKept
<1> QED BY <1>4, <1>5

\* Every connection starts in the invariant, with no host learned.
LEMMA RelayInit == Init => RelayInv
<1> SUFFICES ASSUME Init PROVE RelayInv
  OBVIOUS
<1>1. conn \in [Conns -> {NewConn(t, h) : t \in BOOLEAN, h \in Hosts}]
  BY DEF Init
<1>2. ASSUME NEW c \in Conns
      PROVE  conn[c] \in ConnRecords /\ ConnInv(conn[c], noFrag)
  <2>1. PICK t \in BOOLEAN, h \in Hosts : conn[c] = NewConn(t, h)
    BY <1>1
  <2> QED BY <2>1, NewConnKeeps
<1>3. conn \in [Conns -> ConnRecords]
  BY <1>1, <1>2
<1>4. noFrag = {}
  BY DEF Init
<1> QED BY <1>2, <1>3, <1>4 DEF RelayInv, TypeOK, Learned

\* Every step of Next is one connection's, and of noFrag only Reprobe's.
LEMMA RelayStep ==
  RelayInv /\ [Next]_vars
      => RelayInv' /\ \A c \in Conns : CleanStep(conn[c], conn'[c])
<1> DEFINE Clean == \A c \in Conns : CleanStep(conn[c], conn'[c])
<1> SUFFICES ASSUME RelayInv, [Next]_vars PROVE RelayInv' /\ Clean
  OBVIOUS
<1>t. conn \in [Conns -> ConnRecords] /\ \A c \in Conns : conn[c].nup \in Nat
  <2>1. conn \in [Conns -> ConnRecords]
    BY DEF RelayInv, TypeOK
  <2>2. ASSUME NEW r \in ConnRecords PROVE r.nup \in Nat
    BY DEF ConnRecords
  <2> QED BY <2>1, <2>2
<1>c. ASSUME conn' = conn PROVE Clean
  BY <1>t, <1>c DEF CleanStep
<1>1. CASE UNCHANGED vars
  <2>1. RelayInv'
    BY <1>1 DEF vars, RelayInv, TypeOK, Learned
  <2> QED BY <2>1, <1>1, <1>c DEF vars
<1>2. ASSUME NEW c \in Conns, Handler(c) \/ Reverse(c) \/ Environment(c)
      PROVE  RelayInv' /\ Clean
  <2> USE <1>2
  <2>1. TypeOK /\ ConnInv(conn[c], noFrag)
    BY DEF RelayInv
  <2>2. ASSUME Keeps(c), UNCHANGED noFrag PROVE RelayInv' /\ Clean
    BY <2>2, OthersKept DEF RelayInv, TypeOK, Learned
  <2>3. CASE Reprobe(c)
    BY <2>3, ReprobeLearns
  <2>4. CASE HandlerStep(c) /\ UNCHANGED noFrag
    <3>1. CASE Probe(c)
      <4>1. PICK reply \in Replies :
               TakeReply(c, reply, IF reply = "empty" THEN "retry"
                                                      ELSE "forward")
        BY <3>1 DEF Probe
      <4>2. conn[c].pc = "probe"
        BY <3>1 DEF Probe
      <4> QED BY <2>1, <2>2, <2>4, <4>1, <4>2, TakeReplyKeeps
    <3>2. CASE ~Probe(c)
      BY <2>1, <2>2, <2>4, <3>2, HandlerKeeps
    <3> QED BY <3>1, <3>2
  <2>5. CASE Reverse(c)
    BY <2>1, <2>2, <2>5, ReverseKeeps DEF Reverse
  <2>6. CASE Environment(c)
    <3>1. CASE NextConn(c)
      <4>1. PICK t \in BOOLEAN, h \in Hosts : Becomes(c, NewConn(t, h))
        BY <3>1 DEF NextConn, Becomes
      <4>2. CleanStep(conn[c], NewConn(t, h))
        BY <1>t DEF CleanStep, NewConn
      <4> QED BY <2>2, <2>6, <4>1, <4>2, NewConnKeeps DEF Keeps, Environment
    <3>2. CASE ServerEnds(c)
      BY <2>1, <2>2, <2>6, <3>2, ServerEndsKeeps DEF Environment
    <3>3. CASE ServerSends(c) \/ Cut(c) \/ ClientHalfCloses(c) \/ ClientGoes(c)
      BY <2>1, <2>2, <2>6, <3>3, EnvKeeps DEF Environment
    <3> QED BY <2>6, <3>1, <3>2, <3>3 DEF Environment
  <2> QED BY <2>3, <2>4, <2>5, <2>6 DEF Handler
<1> QED BY <1>1, <1>2 DEF Next

\* So the invariant holds throughout.
LEMMA RelayAlways == Spec => []RelayInv
  BY RelayInit, RelayStep, PTL DEF Spec

-----------------------------------------------------------------------------
(***************************************************************************)
(* The theorems.                                                           *)
(***************************************************************************)

\* Every field of a connection keeps its type: no more than two upstream
\* sockets, and never more read than was sent (_RelayHandler.handle, 365-470).
THEOREM TypeCorrect == Spec => []TypeOK
  BY RelayAlways, PTL DEF RelayInv

\* The name of a TLS host goes out in one piece only for an excluded or
\* learned host, or after the fragmented hello was cut; and only hosts that
\* let their name pass are learned (387-430).
THEOREM NameShownAfterCut == Spec => []WholeOnlyAfterCut
<1>1. RelayInv => WholeOnlyAfterCut
  BY DEF RelayInv, WholeOnlyAfterCut, Learned, ConnInv, Shown
<1> QED BY <1>1, RelayAlways, PTL

\* A connection cut while its first reply is awaited gets its second try,
\* unless that second connect fails (400-447).
THEOREM CutRetried == Spec => []CutIsRetried
<1>1. RelayInv => CutIsRetried
  BY DEF RelayInv, CutIsRetried, ConnInv, Retry
<1> QED BY <1>1, RelayAlways, PTL

\* The client gets the server's pieces from the first on, in order and
\* without a gap; no teardown but for a client that finished or a server that
\* is gone; no FIN before the whole reply (_pump, 313-329; 365-369; 456).
THEOREM StreamIsFaithful == Spec => []Faithful
<1>1. ASSUME NEW r \in ConnRecords, ConnInv(r, noFrag)
      PROVE  /\ \A i \in DOMAIN r.got : r.got[i] = <<r.nup, i>>
             /\ (\/ r.pc \in {"join", "close", "account"}
                 \/ r.rev = "done" /\ r.eof)
                   => r.client # "open" \/ r.srv \in {"eof", "reset"}
             /\ (/\ r.rev # "off" /\ r.eof
                 /\ r.client # "gone" /\ r.srv \in {"talking", "eof"})
                   => Len(r.got) = r.sent \/ (r.client = "half" /\ r.cutoff)
  <2>1. \A i \in DOMAIN r.got : r.got[i] = <<r.nup, i>>
    BY <1>1 DEF ConnInv, Passed
  <2>2. r.pc \in {"join", "close", "account"} \/ (r.rev = "done" /\ r.eof)
           => r.client # "open" \/ r.srv \in {"eof", "reset"}
    <3>1. r.pc \in {"join", "close", "account"}
             => r.client # "open" \/ r.srv \in {"eof", "reset"}
      BY <1>1 DEF ConnInv, Stopped
    <3>2. r.rev = "done" => r.client # "open" \/ r.srv \in {"eof", "reset"}
      BY <1>1 DEF ConnInv, Stopped
    <3> QED BY <3>1, <3>2
  <2>3. (/\ r.rev # "off" /\ r.eof
         /\ r.client # "gone" /\ r.srv \in {"talking", "eof"})
           => Len(r.got) = r.sent \/ (r.client = "half" /\ r.cutoff)
    BY <1>1 DEF ConnInv, Ending, ConnRecords
  <2> QED BY <2>1, <2>2, <2>3
<1>2. RelayInv => Faithful
  BY <1>1 DEF Faithful, RelayInv, TypeOK
<1> QED BY <1>2, RelayAlways, PTL

\* However a handler ends, no upstream socket is left open; the second is
\* opened with the first one closed; and what is counted as reset has not
\* passed a byte on (424-470).
THEOREM LeavesNothingOpen == Spec => EndsClean
<1>1. ASSUME RelayInv, RelayInv', [Next]_vars, NEW c \in Conns
      PROVE  /\ conn'[c].pc = "done" => conn'[c].up # "open"
             /\ conn'[c].nup > conn[c].nup => conn[c].up # "open"
             /\ conn'[c].counted = "reset" /\ conn[c].counted = "no"
                   => conn[c].got = <<>>
  <2>1. TypeOK /\ ConnInv(conn[c], noFrag) /\ conn[c] \in ConnRecords
    BY <1>1 DEF RelayInv, TypeOK
  <2>2. conn'[c].pc = "done" => conn'[c].up # "open"
    BY <1>1 DEF RelayInv, ConnInv, Socket
  <2>3. CleanStep(conn[c], conn'[c])
    BY <1>1, RelayStep
  <2>4. conn[c].down = 0 => conn[c].got = <<>>
    <3>1. PICK r \in ConnRecords : r = conn[c] /\ ConnInv(r, noFrag)
      BY <2>1
    <3>2. Len(r.got) <= r.down /\ r.got \in Seq((1 .. 2) \X (1 .. MaxData))
      BY <3>1 DEF ConnInv, Passed, ConnRecords
    <3>3. r.down = 0 => Len(r.got) = 0
      BY <3>2, LenProperties
    <3> QED BY <3>1, <3>2, <3>3, EmptySeq
  <2> QED BY <1>1, <2>2, <2>3, <2>4 DEF CleanStep
<1>2. RelayInv /\ RelayInv' /\ [Next]_vars
        => [\A c \in Conns :
              /\ conn'[c].pc = "done" => conn'[c].up # "open"
              /\ conn'[c].nup > conn[c].nup => conn[c].up # "open"
              /\ conn'[c].counted = "reset" /\ conn[c].counted = "no"
                    => conn[c].got = <<>>]_vars
  BY <1>1
<1> QED BY <1>2, RelayAlways, PTL DEF EndsClean, Spec

-----------------------------------------------------------------------------
(***************************************************************************)
(* The hello the handler collects and cuts: ClientHello.  For bodies,      *)
(* trails and random bounds of every size, a hello that is in hand         *)
(* completely leaves with its host name cut, as records none of which is   *)
(* empty.                                                                  *)
(***************************************************************************)

\* Rounding gives a number, so clamping it gives one inside the body.
LEMMA RoundDivNat ==
    ASSUME NEW a \in Nat, NEW b \in Nat \ {0}
    PROVE  RoundDiv(a, b) \in Int
  <1>1. a \div b \in Int /\ a % b \in Int
    OBVIOUS
  <1> QED BY <1>1 DEF RoundDiv

LEMMA SplitOffsetsInside ==
    ASSUME NEW n \in Nat, n >= 2
    PROVE  SplitOffsets(n, 8) \subseteq 1 .. n - 1
  <1> DEFINE k == Most(2, Least(8, n))
  <1>1. k \in Nat \ {0}
    BY DEF Most, Least
  <1>2. ASSUME NEW i \in 1 .. k - 1
        PROVE  Most(1, Least(n - 1, RoundDiv(n * i, k))) \in 1 .. n - 1
    <2>1. n * i \in Nat
      BY <1>1
    <2> HIDE DEF k
    <2>2. RoundDiv(n * i, k) \in Int
      BY <1>1, <2>1, RoundDivNat
    <2> QED BY <2>2 DEF Most, Least
  <1> QED BY <1>2 DEF SplitOffsets

\* Whatever fragment_client_hello chooses, every offset is inside the body,
\* and the middle of a name that is inside the body is among them.
LEMMA CutsInside ==
    ASSUME hello \in Hellos, mode \in Modes, NEW c \in Cuts
    PROVE  SniSplit \subseteq c /\ c \subseteq 1 .. hello.body - 1
  <1>1. hello.body \in Nat /\ hello.body >= 2 /\ hello.at \in Nat /\ hello.at >= 1
        /\ hello.len \in Nat /\ hello.at < hello.body
    BY BoundsAssumption DEF Hellos
  <1>2. SniSplit \subseteq 1 .. hello.body - 1
    BY <1>1 DEF SniSplit
  <1>3. CASE mode = "Extreme"
    BY <1>1, <1>2, <1>3, SplitOffsetsInside DEF Cuts
  <1>4. CASE mode = "Advanced"
    <2>1. PICK mid \in IF SniSplit # {} THEN SniSplit ELSE RandomCut(2) :
             c = {o \in {1, mid} : o < hello.body}
      BY <1>4 DEF Cuts
    <2>2. CASE SniSplit # {}
      BY <1>1, <1>2, <2>1, <2>2 DEF SniSplit
    <2>3. CASE SniSplit = {}
      <3>1. mid \in Nat /\ mid >= 2
        BY <1>1, <2>1, <2>3, BoundsAssumption DEF RandomCut, Most, Least
      <3> QED BY <1>1, <2>1, <2>3, <3>1
    <2> QED BY <2>2, <2>3
  <1>5. CASE mode = "Standard"
    <2>1. PICK split \in IF SniSplit # {} THEN SniSplit ELSE RandomCut(1) : c = {split}
      BY <1>5 DEF Cuts
    <2>2. CASE SniSplit # {}
      BY <1>1, <1>2, <2>1, <2>2 DEF SniSplit
    <2>3. CASE SniSplit = {}
      BY <1>1, <2>1, <2>3, BoundsAssumption DEF RandomCut, Most, Least
    <2> QED BY <2>2, <2>3
  <1> QED BY <1>3, <1>4, <1>5 DEF Modes

\* The inductive invariant: what is in `cuts` has been chosen for this hello.
Chosen ==
    /\ hello \in Hellos /\ mode \in Modes
    /\ pc \in {"start", "more", "have", "sent"} /\ got \in Nat
    /\ pc = "sent" /\ got >= Need => cuts \in Cuts
    /\ ~(pc = "sent" /\ got >= Need) => cuts = {}

LEMMA NeedNat == Chosen => Need \in Nat /\ Total \in Nat
  BY BoundsAssumption DEF Chosen, Hellos, Need, Total, Header

LEMMA ChosenStays == HelloSpec => []Chosen
  <1>1. HelloInit => Chosen
    BY DEF HelloInit, Chosen
  <1>2. Chosen /\ [HelloNext]_helloVars => Chosen'
    <2> SUFFICES ASSUME Chosen, [HelloNext]_helloVars PROVE Chosen'
      OBVIOUS
    <2>1. CASE FirstSegment
      BY <2>1, NeedNat DEF Chosen, FirstSegment, After
    <2>2. CASE NextSegment
      BY <2>2, NeedNat DEF Chosen, NextSegment, After
    <2>3. CASE GiveUp
      BY <2>3 DEF Chosen, GiveUp
    <2>4. CASE Send
      <3>1. hello' = hello /\ mode' = mode /\ port' = port /\ got' = got
            /\ pc = "have" /\ pc' = "sent"
        BY <2>4 DEF Send
      <3>2. Cuts' = Cuts /\ Need' = Need
        BY <3>1 DEF Cuts, SplitOffsets, RoundDiv, SniSplit, RandomCut, Need
      <3>3. CASE got < Need
        <4>1. cuts' = {} /\ ~(got >= Need)
          BY <2>4, <3>3, NeedNat DEF Chosen, Send
        <4> QED BY <3>1, <3>2, <4>1 DEF Chosen
      <3>4. CASE ~(got < Need)
        <4>1. cuts' \in Cuts /\ got >= Need
          BY <2>4, <3>4, NeedNat DEF Chosen, Send
        <4> QED BY <3>1, <3>2, <4>1 DEF Chosen
      <3> QED BY <3>3, <3>4
    <2>5. CASE UNCHANGED helloVars
      <3>1. Cuts' = Cuts /\ Need' = Need
        BY <2>5 DEF helloVars, Cuts, SplitOffsets, RoundDiv, SniSplit, RandomCut, Need
      <3> QED BY <2>5, <3>1 DEF helloVars, Chosen
    <2> QED BY <2>1, <2>2, <2>3, <2>4, <2>5 DEF HelloNext
  <1> QED BY <1>1, <1>2, PTL DEF HelloSpec

\* The name of a complete hello is always cut (tls_frag.py:186-189).
THEOREM NameIsCut == HelloSpec => []NameNeverWhole
  <1>1. Chosen => NameNeverWhole
    <2> SUFFICES ASSUME Chosen, pc = "sent", got >= Need, hello.len >= 2
                 PROVE  NameCut
      BY DEF NameNeverWhole, Complete
    <2>1. hello.body \in Nat /\ hello.at \in Nat /\ hello.len \in Nat /\ hello.at < hello.body
      BY BoundsAssumption DEF Chosen, Hellos
    <2>2. SniSplit \subseteq cuts
      BY CutsInside DEF Chosen
    <2>3. CASE hello.at + hello.len \div 2 < hello.body
      BY <2>1, <2>2, <2>3 DEF SniSplit, NameCut
    <2>4. CASE ~(hello.at + hello.len \div 2 < hello.body)
      BY <2>1, <2>4 DEF NameCut
    <2> QED BY <2>3, <2>4
  <1> QED BY <1>1, ChosenStays, PTL

\* No record is empty and none reaches beyond the body (tls_frag.py:122-138).
THEOREM NoEmptyRecord == HelloSpec => []RecordsWellFormed
  <1>1. Chosen => RecordsWellFormed
    BY CutsInside DEF Chosen, RecordsWellFormed
  <1> QED BY <1>1, ChosenStays, PTL

-----------------------------------------------------------------------------
(***************************************************************************)
(* How many records.  In mode Extreme the offsets are the multiples of an  *)
(* eighth of the body, each rounded to a byte; from eight bytes on two     *)
(* neighbours never round to the same one, whichever way ties go.          *)
(***************************************************************************)

\* Rounding moves a number by at most a half, and an integer not at all.
LEMMA RoundDivNear ==
    ASSUME NEW a \in Nat
    PROVE  /\ RoundDiv(a, 8) \in Int
           /\ 8 * RoundDiv(a, 8) - a <= 4 /\ a - 8 * RoundDiv(a, 8) <= 4
           /\ \A i \in Nat : a = 8 * i => RoundDiv(a, 8) = i
  <1> DEFINE q == a \div 8
             r == a % 8
  <1>1. q \in Int /\ r \in 0 .. 7 /\ a = 8 * q + r
    OBVIOUS
  <1>2. RoundDiv(a, 8) = IF 2 * r > 8 \/ (2 * r = 8 /\ (port = "go" \/ q % 2 = 1))
                           THEN q + 1 ELSE q
    BY DEF RoundDiv
  <1> HIDE DEF q, r
  <1>3. \A i \in Nat : a = 8 * i => r = 0 /\ q = i
    BY <1>1
  <1>4. RoundDiv(a, 8) \in {q, q + 1} /\ (RoundDiv(a, 8) = q + 1 => 2 * r >= 8)
        /\ (RoundDiv(a, 8) = q => 2 * r <= 8)
    BY <1>1, <1>2
  <1> QED BY <1>1, <1>3, <1>4

\* The offset of the i-th part of eight.
Part(n, i) == Most(1, Least(n - 1, RoundDiv(n * i, 8)))

LEMMA PartsDiffer ==
    ASSUME NEW n \in Nat, n >= 8
    PROVE  /\ SplitOffsets(n, 8) = {Part(n, i) : i \in 1 .. 7}
           /\ \A i \in 1 .. 7 : Part(n, i) = RoundDiv(n * i, 8) /\ Part(n, i) \in 1 .. n - 1
           /\ \A i, j \in 1 .. 7 : i # j => Part(n, i) # Part(n, j)
  <1>1. SplitOffsets(n, 8) = {Part(n, i) : i \in 1 .. 7}
    BY DEF SplitOffsets, Part, Most, Least
  <1> DEFINE v(i) == RoundDiv(n * i, 8)
  <1>2. ASSUME NEW i \in 1 .. 7
        PROVE  /\ v(i) \in Int /\ 8 * v(i) - n * i <= 4 /\ n * i - 8 * v(i) <= 4
               /\ n = 8 => v(i) = i
    <2>1. n * i \in Nat
      OBVIOUS
    <2>2. n = 8 => n * i = 8 * i
      OBVIOUS
    <2> QED BY <2>1, <2>2, RoundDivNear
  <1> HIDE DEF v
  <1>3. ASSUME NEW i \in 1 .. 7 PROVE 1 <= v(i) /\ v(i) <= n - 1
    <2>1. n * i >= n /\ n * i <= 7 * n /\ n * i \in Nat
      OBVIOUS
    <2> QED BY <2>1, <1>2
  <1>4. ASSUME NEW i \in 1 .. 7, NEW j \in 1 .. 7, i < j PROVE v(i) < v(j)
    <2>1. n * j >= n * i + n /\ n * i \in Nat /\ n * j \in Nat
      <3>1. PICK d \in Nat \ {0} : j = i + d
        <4>1. j - i \in Nat \ {0} /\ j = i + (j - i)
          BY <1>4
        <4> QED BY <4>1
      <3>2. n * j = n * i + n * d /\ n * d >= n
        BY <3>1
      <3> QED BY <3>2
    <2>2. CASE n = 8
      BY <2>2, <1>2, <1>4
    <2>3. CASE n # 8
      <3>1. 8 * v(j) - 8 * v(i) >= 1
        BY <2>1, <2>3, <1>2
      <3>2. v(i) \in Int /\ v(j) \in Int
        BY <1>2
      <3> QED BY <3>1, <3>2
    <2> QED BY <2>2, <2>3
  <1>5. \A i \in 1 .. 7 : Part(n, i) = v(i)
    <2>1. \A i \in 1 .. 7 : Part(n, i) = Most(1, Least(n - 1, v(i)))
      BY DEF Part, v
    <2> QED BY <1>2, <1>3, <2>1 DEF Most, Least
  <1>6. ASSUME NEW i \in 1 .. 7, NEW j \in 1 .. 7, i # j PROVE Part(n, i) # Part(n, j)
    <2>1. i < j \/ j < i
      BY <1>6
    <2> QED BY <2>1, <1>2, <1>4, <1>5
  <1>7. \A i \in 1 .. 7 : Part(n, i) = RoundDiv(n * i, 8) /\ Part(n, i) \in 1 .. n - 1
    <2>1. \A i \in 1 .. 7 : Part(n, i) \in 1 .. n - 1
      BY <1>2, <1>3, <1>5
    <2>2. \A i \in 1 .. 7 : v(i) = RoundDiv(n * i, 8)
      BY DEF v
    <2> QED BY <1>5, <2>1, <2>2
  <1> QED BY <1>1, <1>6, <1>7

LEMMA SevenOffsets ==
    ASSUME NEW n \in Nat, n >= 8
    PROVE  IsFiniteSet(SplitOffsets(n, 8)) /\ Cardinality(SplitOffsets(n, 8)) = 7
  <1>0. PICK a \in Int, b \in Int : a = 1 /\ b = 7
    OBVIOUS
  <1> DEFINE S == SplitOffsets(n, 8)
             F == [i \in a .. b |-> Part(n, i)]
  <1>1. IsFiniteSet(a .. b) /\ Cardinality(a .. b) = 7
    <2>1. IsFiniteSet(a .. b) /\ Cardinality(a .. b) = IF a > b THEN 0 ELSE b - a + 1
      BY FS_Interval
    <2> QED BY <1>0, <2>1
  <1>2. /\ S = {Part(n, i) : i \in a .. b}
        /\ \A i, j \in a .. b : i # j => Part(n, i) # Part(n, j)
    BY <1>0, PartsDiffer
  <1>3. F \in Surjection(a .. b, S)
    BY <1>2 DEF Surjection
  <1>4. F \in Injection(a .. b, S)
    <2>1. F \in [a .. b -> S] /\ DOMAIN F = a .. b
      BY <1>2
    <2>2. \A i, j \in a .. b : i # j => F[i] # F[j]
      BY <1>2
    <2> HIDE DEF F, S
    <2> QED BY <2>1, <2>2 DEF Injection, IsInjective
  <1> HIDE DEF S, F
  <1>5. IsFiniteSet(S) /\ Cardinality(S) = 7
    BY <1>1, <1>3, <1>4, FS_Surjection
  <1> QED BY <1>5 DEF S

LEMMA CutCount ==
    ASSUME hello \in Hellos, mode \in Modes, NEW c \in Cuts
    PROVE  /\ mode = "Standard" => Cardinality(c) = 1
           /\ mode = "Advanced" => Cardinality(c) = 2 \/ hello.body = 2
           /\ mode = "Extreme" /\ hello.body >= 8 => Cardinality(c) \in 7 .. 8
  <1>1. hello.body \in Nat /\ hello.body >= 2 /\ hello.at \in Nat /\ hello.at >= 1
        /\ hello.len \in Nat /\ hello.at < hello.body
    BY BoundsAssumption DEF Hellos
  <1>2. CASE mode = "Standard"
    <2>1. PICK split : c = {split}
      BY <1>2 DEF Cuts
    <2> QED BY <1>2, <2>1, FS_Singleton
  <1>3. CASE mode = "Advanced"
    <2>1. PICK mid \in IF SniSplit # {} THEN SniSplit ELSE RandomCut(2) :
             c = {o \in {1, mid} : o < hello.body}
      BY <1>3 DEF Cuts
    <2>2. mid \in Nat /\ mid >= 2 /\ (hello.body > 2 => mid < hello.body)
      <3>1. CASE SniSplit # {}
        BY <1>1, <2>1, <3>1 DEF SniSplit
      <3>2. CASE SniSplit = {}
        BY <1>1, <2>1, <3>2, BoundsAssumption DEF RandomCut, Most, Least
      <3> QED BY <3>1, <3>2
    <2>3. hello.body > 2 => c = {1} \cup {mid} /\ mid \notin {1}
      BY <1>1, <2>1, <2>2
    <2>4. hello.body > 2 => Cardinality(c) = 1 + 1
      <3>1. IsFiniteSet({1}) /\ Cardinality({1}) = 1
        BY FS_Singleton
      <3>2. mid \notin {1} => Cardinality({1} \cup {mid}) = 1 + 1
        BY <3>1, FS_AddElement
      <3> QED BY <2>3, <3>2
    <2> QED BY <1>1, <1>3, <2>4
  <1>4. CASE mode = "Extreme"
    <2>1. c = SplitOffsets(hello.body, 8) \cup SniSplit
      BY <1>4 DEF Cuts
    <2>2. SniSplit = {} \/ \E x : SniSplit = {x}
      BY DEF SniSplit
    <2>3. ASSUME hello.body >= 8 PROVE Cardinality(c) \in 7 .. 8
      <3>1. IsFiniteSet(SplitOffsets(hello.body, 8))
            /\ Cardinality(SplitOffsets(hello.body, 8)) = 7
        BY <1>1, <2>3, SevenOffsets
      <3>2. CASE SniSplit = {}
        <4>1. c = SplitOffsets(hello.body, 8)
          BY <2>1, <3>2
        <4> QED BY <3>1, <4>1
      <3>3. CASE \E x : SniSplit = {x}
        <4>1. PICK x : c = SplitOffsets(hello.body, 8) \cup {x}
          BY <2>1, <3>3
        <4>2. Cardinality(c) \in {7, 7 + 1}
          BY <3>1, <4>1, FS_AddElement
        <4> QED BY <4>2
      <3> QED BY <2>2, <3>2, <3>3
    <2> QED BY <1>4, <2>3
  <1> QED BY <1>2, <1>3, <1>4 DEF Modes

\* The number of records is the one each mode stands for, in both languages
\* and for hellos of every size (tls_frag.py:191-193).
THEOREM PromisedRecords == HelloSpec => []RecordsAsPromised
  <1>1. Chosen => RecordsAsPromised
    <2> SUFFICES ASSUME Chosen, Complete PROVE RecordsAsPromised
      BY DEF RecordsAsPromised
    <2>1. hello \in Hellos /\ mode \in Modes /\ cuts \in Cuts
      BY DEF Chosen, Complete
    <2>2. mode \in {"Standard", "Advanced", "Extreme"}
      BY <2>1 DEF Modes
    <2>3. /\ mode = "Standard" => Cardinality(cuts) = 1
          /\ mode = "Advanced" => Cardinality(cuts) = 2 \/ hello.body = 2
          /\ mode = "Extreme" /\ hello.body >= 8 => Cardinality(cuts) \in 7 .. 8
      BY <2>1, CutCount
    <2>4. CASE mode = "Standard"
      BY <2>3, <2>4 DEF RecordsAsPromised
    <2>5. CASE mode = "Advanced"
      BY <2>3, <2>5 DEF RecordsAsPromised
    <2>6. CASE mode = "Extreme"
      <3>1. hello.body >= 8 => Cardinality(cuts) + 1 \in 8 .. 9
        BY <2>3, <2>6
      <3> QED BY <2>6, <3>1 DEF RecordsAsPromised
    <2> QED BY <2>2, <2>4, <2>5, <2>6
  <1> QED BY <1>1, ChosenStays, PTL
=============================================================================
