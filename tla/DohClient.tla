----------------------------- MODULE DohClient -----------------------------
(***************************************************************************)
(* The pooled DNS-over-HTTPS client of the Windows engine: class DohClient *)
(* of divert_engine.py.  The worker threads of the engine's executor call  *)
(* resolve concurrently; the main thread calls close once, from stop, and  *)
(* does not wait for them.                                                 *)
(*                                                                         *)
(* Shared state: _active_ip under _ip_lock, and _pool, a queue.Queue of    *)
(* idle kept-alive connections, each tagged with its resolver.  The queue  *)
(* is thread safe; the size check of _release and the put that follows it  *)
(* are two steps.  A kept-alive connection may have been closed by the     *)
(* resolver, so a request on it may fail while the resolver answers.       *)
(***************************************************************************)
EXTENDS Naturals, Sequences, FiniteSets

CONSTANTS
    Workers,    \* threads that may be inside resolve
    NumServers, \* len(self.server_ips)
    PoolSize    \* self.pool_size

ASSUME ServersAssumption == NumServers \in Nat \ {0}
ASSUME PoolSizeAssumption == PoolSize \in Nat \ {0}
ASSUME WorkersAssumption == IsFiniteSet(Workers)

Servers == 0 .. NumServers - 1

VARIABLES
    active,     \* self._active_ip, as an index of server_ips
    pool,       \* self._pool: the tags of the idle connections, head first
    answering,  \* the resolvers that answer a fresh connection now
    refused,    \* history: resolvers that have failed a fresh connection
    pc, round, ip,  \* per worker: place in resolve, rounds finished, `ip`
    conn,       \* per worker: tag and origin of the connection in use
    closer      \* the main thread in close

vars == <<active, pool, answering, refused, pc, round, ip, conn, closer>>
resolveVars == <<active, refused, round, ip>>

\* A connection in use: `kept` tells one that came out of the pool; `again`
\* tells the second attempt of the round (fresh = True in the code).
Conns == [tag : Servers, kept : BOOLEAN, again : BOOLEAN]
NoConn == [tag |-> 0, kept |-> FALSE, again |-> FALSE]

PCs == {"idle", "pick", "borrow", "request", "release", "put", "rotate", "error"}

TypeOK ==
    /\ active \in Servers
    /\ pool \in Seq(Servers)
    /\ answering \in SUBSET Servers
    /\ refused \in SUBSET Servers
    /\ pc \in [Workers -> PCs]
    /\ round \in [Workers -> 0 .. NumServers]
    /\ ip \in [Workers -> Servers]
    /\ conn \in [Workers -> Conns]
    /\ closer \in {"idle", "draining", "done"}

Init ==
    /\ active = 0
    /\ pool = <<>>
    /\ answering \in SUBSET Servers
    /\ refused = {}
    /\ pc = [w \in Workers |-> "idle"]
    /\ round = [w \in Workers |-> 0]
    /\ ip = [w \in Workers |-> 0]
    /\ conn = [w \in Workers |-> NoConn]
    /\ closer = "idle"

-----------------------------------------------------------------------------
Call(w) ==
    /\ pc[w] \in {"idle", "error"}
    /\ pc' = [pc EXCEPT ![w] = "pick"]
    /\ round' = [round EXCEPT ![w] = 0]
    /\ ip' = [ip EXCEPT ![w] = 0]
    /\ UNCHANGED <<active, pool, answering, refused, conn, closer>>

\* ip = self._get_active_ip()
Pick(w) ==
    /\ pc[w] = "pick"
    /\ ip' = [ip EXCEPT ![w] = active]
    /\ pc' = [pc EXCEPT ![w] = "borrow"]
    /\ UNCHANGED <<active, pool, answering, refused, round, conn, closer>>

\* Faulty variant: open a connection without asking the pool.
BorrowAlwaysOpens(w) ==
    /\ pc[w] = "borrow"
    /\ conn' = [conn EXCEPT ![w] = [tag |-> ip[w], kept |-> FALSE, again |-> FALSE]]
    /\ pc' = [pc EXCEPT ![w] = "request"]
    /\ UNCHANGED <<resolveVars, pool, answering, closer>>

\* _borrow finds the pool empty and opens a connection.
BorrowFresh(w) ==
    /\ pc[w] = "borrow" /\ pool = <<>>
    /\ conn' = [conn EXCEPT ![w] = [tag |-> ip[w], kept |-> FALSE, again |-> FALSE]]
    /\ pc' = [pc EXCEPT ![w] = "request"]
    /\ UNCHANGED <<resolveVars, pool, answering, closer>>

\* Faulty variant: use the oldest idle connection whatever its tag.
BorrowAny(w) ==
    /\ pc[w] = "borrow" /\ pool # <<>>
    /\ pool' = Tail(pool)
    /\ conn' = [conn EXCEPT ![w] = [tag |-> Head(pool), kept |-> TRUE, again |-> FALSE]]
    /\ pc' = [pc EXCEPT ![w] = "request"]
    /\ UNCHANGED <<resolveVars, answering, closer>>

\* _borrow takes the oldest idle connection: it is used when its tag is the
\* resolver of this round, and closed otherwise, and the loop goes on.
BorrowKept(w) ==
    /\ pc[w] = "borrow" /\ pool # <<>> /\ Head(pool) = ip[w]
    /\ pool' = Tail(pool)
    /\ conn' = [conn EXCEPT ![w] = [tag |-> Head(pool), kept |-> TRUE, again |-> FALSE]]
    /\ pc' = [pc EXCEPT ![w] = "request"]
    /\ UNCHANGED <<resolveVars, answering, closer>>

\* Faulty variant: put a stale connection back instead of closing it.
BorrowPutsBack(w) ==
    /\ pc[w] = "borrow" /\ pool # <<>> /\ Head(pool) # ip[w]
    /\ pool' = Append(Tail(pool), Head(pool))
    /\ UNCHANGED <<resolveVars, pc, conn, answering, closer>>

BorrowStale(w) ==
    /\ pc[w] = "borrow" /\ pool # <<>> /\ Head(pool) # ip[w]
    /\ pool' = Tail(pool)
    /\ UNCHANGED <<resolveVars, pc, conn, answering, closer>>

\* The request is answered with status 200 and a body.
Answered(w) ==
    /\ pc[w] = "request" /\ conn[w].tag \in answering
    /\ pc' = [pc EXCEPT ![w] = "release"]
    /\ round' = [round EXCEPT ![w] = 0]
    /\ ip' = [ip EXCEPT ![w] = 0]
    /\ UNCHANGED <<active, pool, answering, refused, conn, closer>>

\* The first attempt of the round fails: the connection is closed and the
\* round goes on with a fresh one to the same resolver.
FirstAttemptFails(w) ==
    /\ pc[w] = "request" /\ ~conn[w].again
    /\ conn[w].kept \/ conn[w].tag \notin answering
    /\ conn' = [conn EXCEPT ![w] = [tag |-> ip[w], kept |-> FALSE, again |-> TRUE]]
    /\ UNCHANGED <<resolveVars, pc, pool, answering, closer>>

\* The fresh connection fails too: the resolver is given up in this round.
SecondAttemptFails(w) ==
    /\ pc[w] = "request" /\ conn[w].again /\ conn[w].tag \notin answering
    /\ refused' = refused \cup {conn[w].tag}
    /\ conn' = [conn EXCEPT ![w] = NoConn]
    /\ pc' = [pc EXCEPT ![w] = "rotate"]
    /\ UNCHANGED <<active, round, ip, pool, answering, closer>>

\* _rotate_ip, under the lock, and the end of the round.
Rotate(w) ==
    /\ pc[w] = "rotate"
    /\ active' = IF active = ip[w] THEN (active + 1) % NumServers ELSE active
    /\ round' = [round EXCEPT ![w] = @ + 1]
    /\ pc' = [pc EXCEPT ![w] = IF round'[w] < NumServers THEN "pick" ELSE "error"]
    /\ UNCHANGED <<pool, answering, refused, ip, conn, closer>>

\* _release: the pool is found short of a connection, or not; the connection
\* is put back in a later step, or closed.
ReleaseCheck(w) ==
    /\ pc[w] = "release"
    /\ IF Len(pool) < PoolSize
         THEN /\ pc' = [pc EXCEPT ![w] = "put"]
              /\ UNCHANGED conn
         ELSE /\ pc' = [pc EXCEPT ![w] = "idle"]
              /\ conn' = [conn EXCEPT ![w] = NoConn]
    /\ UNCHANGED <<resolveVars, pool, answering, closer>>

ReleasePut(w) ==
    /\ pc[w] = "put"
    /\ pool' = Append(pool, conn[w].tag)
    /\ conn' = [conn EXCEPT ![w] = NoConn]
    /\ pc' = [pc EXCEPT ![w] = "idle"]
    /\ UNCHANGED <<resolveVars, answering, closer>>

\* close, called by DivertEngine.stop: one connection per step until Empty.
CloseBegin ==
    /\ closer = "idle"
    /\ closer' = "draining"
    /\ UNCHANGED <<resolveVars, pool, answering, pc, conn>>

CloseStep ==
    /\ closer = "draining"
    /\ IF pool = <<>>
         THEN closer' = "done" /\ UNCHANGED pool
         ELSE pool' = Tail(pool) /\ UNCHANGED closer
    /\ UNCHANGED <<resolveVars, answering, pc, conn>>

NetworkChange ==
    /\ \E S \in SUBSET Servers : S # answering /\ answering' = S
    /\ UNCHANGED <<active, refused, round, ip, pool, pc, conn, closer>>

-----------------------------------------------------------------------------
Borrow(w) == BorrowFresh(w) \/ BorrowKept(w) \/ BorrowStale(w)
Request(w) == Answered(w) \/ FirstAttemptFails(w) \/ SecondAttemptFails(w)
Release(w) == ReleaseCheck(w) \/ ReleasePut(w)
Resolve(w) == Pick(w) \/ Borrow(w) \/ Request(w) \/ Rotate(w) \/ Release(w)

Next ==
    \/ \E w \in Workers : Call(w) \/ Resolve(w)
    \/ CloseBegin \/ CloseStep
    \/ NetworkChange

\* Each worker is an operating-system thread that keeps being scheduled, and
\* every request ends by its timeout; so is the main thread in close.
\* Nothing obliges anybody to call resolve, and the network owes nothing.
Fairness == (\A w \in Workers : WF_vars(Resolve(w))) /\ WF_vars(CloseStep)

Spec == Init /\ [][Next]_vars
FairSpec == Spec /\ Fairness

-----------------------------------------------------------------------------
\* resolve follows the failover protocol of the Go client, the pool and the
\* two attempts of a round being invisible to it.
AbstractPC(w) ==
    CASE pc[w] \in {"borrow", "request"} -> "post"
      [] pc[w] \in {"release", "put"}    -> "idle"
      [] OTHER                           -> pc[w]

Failover == INSTANCE DohFailover WITH
    Callers <- Workers, NumEndpoints <- NumServers,
    pc <- [w \in Workers |-> AbstractPC(w)], idx <- ip

\* A kept connection of a resolver that has been rotated away from is never
\* asked in place of the current one (_borrow, divert_engine.py:196-205), so
\* a round only ever blames the resolver it asked.
RefinesFailover == Failover!Spec

\* There are never more open connections than threads, idle ones included,
\* however often _release overfills the pool between its size check and its
\* put: _borrow opens one only when no idle one is left
\* (divert_engine.py:196-211).
Holding == {w \in Workers : pc[w] \in {"request", "release", "put"}}
PoolInv ==
    /\ TypeOK
    /\ Len(pool) + Cardinality(Holding) <= Cardinality(Workers)

\* When no further call comes, every call under way returns: the rounds are
\* bounded and the loop of _borrow uses the pool up (divert_engine.py:196-234).
\* And so does close, which competes with the workers that still release.
CallsReturn ==
    <>[][\A w \in Workers : ~Call(w)]_vars
        => /\ <>[](\A w \in Workers : pc[w] \in {"idle", "error"})
           /\ closer = "draining" ~> closer = "done"
=============================================================================
