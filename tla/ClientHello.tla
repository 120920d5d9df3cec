---------------------------- MODULE ClientHello ----------------------------
(***************************************************************************)
(* What becomes of a client's TLS ClientHello: it is collected from the    *)
(* client's segments and re-emitted as several TLS records, cut through    *)
(* the host name.  Two implementations that share the algorithm:           *)
(*                                                                         *)
(*  - "python": _read_client_hello of divert_engine.py and bypass_proxy.py *)
(*    and fragment_client_hello of tls_frag.py;                            *)
(*  - "go": readFirstPayload of core-go/tunnel/tunnel.go and               *)
(*    FragmentClientHello of core-go/tlsfrag/tlsfrag.go.                   *)
(*                                                                         *)
(* Bytes are positions: a hello is a record header of five bytes, a body   *)
(* of `body` bytes that has the host name (if any) behind `at` others, and *)
(* `trail` bytes that the client sends after the record.  What leaves for  *)
(* the server is described by the set of offsets at which the body is cut. *)
(***************************************************************************)
EXTENDS Naturals, FiniteSets

CONSTANTS
    MaxBody,    \* bound: bytes of a record body
    MaxTrail,   \* bound: bytes behind the record
    MaxRandom   \* the 59 of the random cut of a hello without a name

ASSUME BoundsAssumption == MaxBody \in Nat /\ MaxTrail \in Nat /\ MaxRandom \in Nat \ {0}

VARIABLES
    port,       \* which implementation
    mode,       \* engine.mode
    hello,      \* the hello the client sends
    pc,         \* "start", "more" (inside the loop), "have" or "sent"
    got,        \* bytes of it in hand: len(buf), len(first)
    cuts        \* offsets of the body at which a new record begins

helloVars == <<port, mode, hello, pc, got, cuts>>

Header == 5
Modes == {"Standard", "Advanced", "Extreme"}

\* len = 0: no host name to be found.  The name may run into the bytes behind
\* the record, as in a hello that its client has cut itself.
Hellos == {h \in [body : 2 .. MaxBody, trail : 0 .. MaxTrail, at : 1 .. MaxBody, len : 0 .. MaxBody] :
              h.at < h.body /\ h.at + h.len <= h.body + h.trail}

HelloTypeOK ==
    /\ port \in {"python", "go"} /\ mode \in Modes
    /\ hello \in Hellos
    /\ pc \in {"start", "more", "have", "sent"}
    /\ got \in 0 .. Header + MaxBody + MaxTrail
    /\ cuts \in SUBSET (1 .. MaxBody)

HelloInit ==
    /\ port \in {"python", "go"} /\ mode \in Modes
    /\ hello \in Hellos
    /\ pc = "start" /\ got = 0
    /\ cuts = {}

Total == Header + hello.body + hello.trail
Need == Header + hello.body

-----------------------------------------------------------------------------
(* Collecting the hello *)

\* Go on reading?  The length of the record is known from its header only.
After(n) == IF n >= Header /\ n < Need THEN "more" ELSE "have"

\* The first segment; with less than a record header in it the rest of the
\* hello is left to be copied as it is.
FirstSegment ==
    /\ pc = "start"
    /\ \E n \in 1 .. Total : got' = n
    /\ pc' = After(got')
    /\ UNCHANGED <<port, mode, hello, cuts>>

NextSegment ==
    /\ pc = "more"
    /\ \E n \in 1 .. Total - got : got' = got + n
    /\ pc' = After(got')
    /\ UNCHANGED <<port, mode, hello, cuts>>

\* The client is silent for too long, or ends the stream.
GiveUp ==
    /\ pc = "more"
    /\ pc' = "have"
    /\ UNCHANGED <<port, mode, hello, got, cuts>>

-----------------------------------------------------------------------------
(* Cutting it *)

Least(a, b) == IF a <= b THEN a ELSE b
Most(a, b) == IF a >= b THEN a ELSE b

\* a / b to the nearest integer: ties go to the even one in Python, and up in
\* Go (for numbers that are not negative).
RoundDiv(a, b) ==
    LET q == a \div b
        r == a % b
    IN  IF 2 * r > b \/ (2 * r = b /\ (port = "go" \/ q % 2 = 1)) THEN q + 1 ELSE q

\* Faulty variant: one part too many.
SplitOffsetsOneMore(n, chunks) ==
    LET k == Most(2, Least(chunks, n))
    IN  {Most(1, Least(n - 1, RoundDiv(n * i, k))) : i \in 1 .. k}

\* Offsets that cut n bytes into `chunks` parts, as far as there are that
\* many; equal ones are dropped.
SplitOffsets(n, chunks) ==
    LET k == Most(2, Least(chunks, n))
    IN  {Most(1, Least(n - 1, RoundDiv(n * i, k))) : i \in 1 .. k - 1}

\* Faulty variant: the cut comes before the name.
SniSplitAtStart ==
    IF hello.len >= 2 /\ hello.at < hello.body THEN {hello.at} ELSE {}

\* The middle of the host name, if that is inside the body.
SniSplit ==
    IF hello.len >= 2 /\ hello.at + hello.len \div 2 < hello.body
      THEN {hello.at + hello.len \div 2} ELSE {}

\* Faulty variant: the cut may come after the last byte.
RandomCutToEnd(lo) == lo .. Most(lo, Least(MaxRandom, Most(lo, hello.body)))

\* Where a hello without a name may be cut: a random place from lo on.
RandomCut(lo) == lo .. Most(lo, Least(MaxRandom, Most(lo, hello.body - 1)))

\* fragment_client_hello: the sets of offsets it may choose.
Cuts ==
    CASE mode = "Extreme" ->
           {SplitOffsets(hello.body, 8) \cup SniSplit}
      [] mode = "Advanced" ->
           {{o \in {1, mid} : o < hello.body} :
               mid \in IF SniSplit # {} THEN SniSplit ELSE RandomCut(2)}
      [] mode = "Standard" ->
           {{split} : split \in IF SniSplit # {} THEN SniSplit ELSE RandomCut(1)}

\* An incomplete record is returned unchanged.
Send ==
    /\ pc = "have"
    /\ IF got < Need THEN UNCHANGED cuts ELSE cuts' \in Cuts
    /\ pc' = "sent"
    /\ UNCHANGED <<port, mode, hello, got>>

HelloNext == FirstSegment \/ NextSegment \/ GiveUp \/ Send

HelloSpec == HelloInit /\ [][HelloNext]_helloVars

-----------------------------------------------------------------------------
(* Properties *)

\* Some record ends inside the name.
NameCut ==
    \E o \in cuts \cup {hello.body} : hello.at < o /\ o < hello.at + hello.len

Complete == pc = "sent" /\ got >= Need

\* A hello that is in hand completely leaves with its name cut in two, in
\* every mode and however its bytes were spread over the client's segments
\* (tls_frag.py:186-189, tunnel.go:326-330).
NameNeverWhole == Complete /\ hello.len >= 2 => NameCut

\* The records are the body again when put together, and none of them is
\* empty, which TLS forbids for handshake records (tls_frag.py:122-138).
RecordsWellFormed == cuts \subseteq 1 .. hello.body - 1

\* Two records in mode Standard; three in Advanced, unless the body has only
\* one place for a cut; eight or nine in Extreme, for a body of at least
\* eight bytes (tls_frag.py:191-193).
RecordsAsPromised ==
    Complete =>
        LET n == Cardinality(cuts) + 1 IN
        CASE mode = "Standard" -> n = 2
          [] mode = "Advanced" -> n = 3 \/ hello.body = 2
          [] mode = "Extreme"  -> hello.body >= 8 => n \in 8 .. 9
=============================================================================
