---------------------------- MODULE MCProxyConn ----------------------------
(***************************************************************************)
(* An instance of ProxyConn: a connection that asks for one thing of each  *)
(* kind, and one whose server cannot be reached, which shares the cache    *)
(* and the counters with it.                                               *)
(***************************************************************************)
EXTENDS ProxyConn

CONSTANTS name, listed, number

Https(h, s) == [kind |-> "https", host |-> h, shape |-> s]
Http(h) == [kind |-> "http", host |-> h, shape |-> "plain"]

MCRequests ==
    [c \in Conns |->
        IF c \in Refused
          THEN {Http(name)}
          ELSE {Https(name, "split"), Https(name, "tiny"),
                Https(listed, "one"), Http(number)}]
=============================================================================
