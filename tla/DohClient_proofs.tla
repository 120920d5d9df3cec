-------------------------- MODULE DohClient_proofs --------------------------
(***************************************************************************)
(* Proofs about DohClient, for every number of workers and resolvers and   *)
(* every pool size: the connections stay bounded, and the pooled client    *)
(* implements the failover protocol of DohFailover.                        *)
(***************************************************************************)
EXTENDS DohClient, SequenceTheorems, FiniteSetTheorems, TLAPS

-----------------------------------------------------------------------------
(* The inductive invariant *)

\* Inside the loop of resolve there is always a round left to run.
InLoop ==
    \A w \in Workers :
        pc[w] \in {"pick", "borrow", "request", "rotate"} => round[w] < NumServers

\* The connection a request goes out on belongs to the resolver of the round.
AsksItsResolver == \A w \in Workers : pc[w] = "request" => conn[w].tag = ip[w]

\* What the pool and the workers hold together: never more than a connection
\* for each worker.
Bounded == Len(pool) + Cardinality(Holding) <= Cardinality(Workers)

ClientInv == TypeOK /\ InLoop /\ AsksItsResolver /\ Bounded

LEMMA NextServer ==
    \A s \in Servers :
        (s + 1) % NumServers \in Servers
  BY ServersAssumption DEF Servers

LEMMA NoConnType == NoConn \in Conns
  BY ServersAssumption DEF NoConn, Conns, Servers

-----------------------------------------------------------------------------
(***************************************************************************)
(* Types.  The loop of resolve never makes more rounds than there are      *)
(* resolvers; the pool holds tags of resolvers only.                       *)
(***************************************************************************)
LEMMA ClientInit == Init => ClientInv
  <1> SUFFICES ASSUME Init PROVE ClientInv
    OBVIOUS
  <1> USE DEF Init
  <1>1. 0 \in Servers /\ 0 < NumServers /\ NumServers \in Nat
    BY ServersAssumption DEF Servers
  <1>2. TypeOK
    BY <1>1, NoConnType, EmptySeq DEF TypeOK, PCs
  <1>3. InLoop /\ AsksItsResolver
    BY DEF InLoop, AsksItsResolver
  <1>4. Holding = {}
    BY DEF Holding
  <1>5. Bounded
    BY <1>4, FS_EmptySet, FS_CardinalityType, WorkersAssumption, EmptySeq DEF Bounded
  <1> QED BY <1>2, <1>3, <1>5 DEF ClientInv

LEMMA TypeStep ==
    TypeOK /\ InLoop /\ AsksItsResolver /\ [Next]_vars
        => (TypeOK /\ InLoop /\ AsksItsResolver)'
  <1> DEFINE Inv == TypeOK /\ InLoop /\ AsksItsResolver
  <1> SUFFICES ASSUME TypeOK, InLoop, AsksItsResolver, [Next]_vars PROVE Inv'
    OBVIOUS
  <1>0. 0 \in Servers /\ NumServers \in Nat /\ 0 < NumServers
    BY ServersAssumption DEF Servers
  <1> USE <1>0, NoConnType DEF TypeOK, InLoop, AsksItsResolver, PCs, resolveVars
  <1>1. ASSUME NEW w \in Workers, Call(w) PROVE Inv'
    BY <1>1 DEF Call
  <1>2. ASSUME NEW w \in Workers, Pick(w) PROVE Inv'
    BY <1>2 DEF Pick
  <1>3. ASSUME NEW w \in Workers, BorrowFresh(w) PROVE Inv'
    <2>1. [tag |-> ip[w], kept |-> FALSE, again |-> FALSE] \in Conns
      BY DEF Conns
    <2> QED BY <1>3, <2>1 DEF BorrowFresh
  <1>4. ASSUME NEW w \in Workers, BorrowKept(w) PROVE Inv'
    <2>1. Head(pool) \in Servers /\ Tail(pool) \in Seq(Servers)
      BY <1>4, HeadTailProperties DEF BorrowKept
    <2>2. [tag |-> Head(pool), kept |-> TRUE, again |-> FALSE] \in Conns
      BY <2>1 DEF Conns
    <2> QED BY <1>4, <2>1, <2>2 DEF BorrowKept
  <1>5. ASSUME NEW w \in Workers, BorrowStale(w) PROVE Inv'
    <2>1. Tail(pool) \in Seq(Servers)
      BY <1>5, HeadTailProperties DEF BorrowStale
    <2> QED BY <1>5, <2>1 DEF BorrowStale
  <1>6. ASSUME NEW w \in Workers, Answered(w) PROVE Inv'
    BY <1>6 DEF Answered
  <1>7. ASSUME NEW w \in Workers, FirstAttemptFails(w) PROVE Inv'
    <2>1. [tag |-> ip[w], kept |-> FALSE, again |-> TRUE] \in Conns
      BY DEF Conns
    <2> QED BY <1>7, <2>1 DEF FirstAttemptFails
  <1>8. ASSUME NEW w \in Workers, SecondAttemptFails(w) PROVE Inv'
    <2>1. conn[w].tag \in Servers
      BY DEF Conns
    <2> QED BY <1>8, <2>1 DEF SecondAttemptFails
  <1>9. ASSUME NEW w \in Workers, Rotate(w) PROVE Inv'
    <2>1. active' \in Servers
      BY <1>9, NextServer DEF Rotate
    <2>2. round[w] \in Nat /\ round[w] + 1 \in 0 .. NumServers
      BY <1>9 DEF Rotate
    <2>3. round' = [round EXCEPT ![w] = round[w] + 1] /\ round'[w] = round[w] + 1
      BY <1>9 DEF Rotate
    <2> QED BY <1>9, <2>1, <2>2, <2>3 DEF Rotate
  <1>10. ASSUME NEW w \in Workers, ReleaseCheck(w) PROVE Inv'
    BY <1>10 DEF ReleaseCheck
  <1>11. ASSUME NEW w \in Workers, ReleasePut(w) PROVE Inv'
    <2>1. conn[w].tag \in Servers
      BY DEF Conns
    <2>2. Append(pool, conn[w].tag) \in Seq(Servers)
      BY <2>1, AppendProperties
    <2> QED BY <1>11, <2>2 DEF ReleasePut
  <1>12. CASE CloseBegin
    BY <1>12 DEF CloseBegin
  <1>13. CASE CloseStep
    <2>1. pool # <<>> => Tail(pool) \in Seq(Servers)
      BY HeadTailProperties
    <2> QED BY <1>13, <2>1 DEF CloseStep
  <1>14. CASE NetworkChange
    BY <1>14 DEF NetworkChange
  <1>15. CASE UNCHANGED vars
    BY <1>15 DEF vars
  <1> QED
    BY <1>1, <1>2, <1>3, <1>4, <1>5, <1>6, <1>7, <1>8, <1>9, <1>10, <1>11, <1>12,
       <1>13, <1>14, <1>15 DEF Next, Resolve, Borrow, Request, Release

(***************************************************************************)
(* Every state of the client is well typed: the active index names a       *)
(* resolver and a call makes at most a round for each (216-234).           *)
(***************************************************************************)
THEOREM TypeCorrect == Spec => []TypeOK
  <1>1. Init => TypeOK /\ InLoop /\ AsksItsResolver
    BY ClientInit DEF ClientInv
  <1> QED BY <1>1, TypeStep, PTL DEF Spec

-----------------------------------------------------------------------------
(***************************************************************************)
(* Holding: who joins and who leaves, and what that does to its size.      *)
(***************************************************************************)
LEMMA HoldingFinite ==
    /\ IsFiniteSet(Holding) /\ Cardinality(Holding) \in Nat
    /\ Cardinality(Workers) \in Nat
    /\ Cardinality(Holding) <= Cardinality(Workers)
  <1>1. Holding \in SUBSET Workers
    BY DEF Holding
  <1> QED BY <1>1, WorkersAssumption, FS_Subset, FS_CardinalityType

LEMMA HoldingJoins ==
    ASSUME TypeOK, NEW w \in Workers, pc[w] \notin {"request", "release", "put"},
           pc' = [pc EXCEPT ![w] = "request"]
    PROVE  Cardinality(Holding') = Cardinality(Holding) + 1
  <1>1. w \notin Holding /\ Holding' = Holding \cup {w}
    BY DEF Holding, TypeOK
  <1> QED BY <1>1, HoldingFinite, FS_AddElement

LEMMA HoldingLeaves ==
    ASSUME TypeOK, NEW w \in Workers, pc[w] \in {"request", "release", "put"},
           NEW l \in {"rotate", "idle"}, pc' = [pc EXCEPT ![w] = l]
    PROVE  Cardinality(Holding') = Cardinality(Holding) - 1
  <1>1. w \in Holding /\ Holding' = Holding \ {w}
    BY DEF Holding, TypeOK
  <1> QED BY <1>1, HoldingFinite, FS_RemoveElement

LEMMA PoolLength ==
    ASSUME TypeOK
    PROVE  /\ Len(pool) \in Nat
           /\ pool # <<>> => Len(Tail(pool)) = Len(pool) - 1
           /\ \A s \in Servers : Len(Append(pool, s)) = Len(pool) + 1
           /\ pool = <<>> => Len(pool) = 0
  BY EmptySeq, LenProperties, HeadTailProperties, AppendProperties DEF TypeOK

(***************************************************************************)
(* The bound is inductive.  A connection is opened only with the pool      *)
(* empty, so all there are is what the workers hold; otherwise one leaves  *)
(* the pool for each that a worker takes, and the put of _release only     *)
(* moves it back.                                                          *)
(***************************************************************************)
LEMMA BoundedStep == ClientInv /\ [Next]_vars => Bounded'
  <1> SUFFICES ASSUME ClientInv, [Next]_vars PROVE Bounded'
    OBVIOUS
  <1>0. TypeOK /\ Bounded
    BY DEF ClientInv
  <1> DEFINE W == Cardinality(Workers)
             H == Cardinality(Holding)
             L == Len(pool)
  <1>a. W \in Nat /\ H \in Nat /\ L \in Nat /\ L + H <= W
    BY <1>0, HoldingFinite, PoolLength DEF Bounded
  <1>b. Holding' \in SUBSET Workers /\ Cardinality(Holding') \in Nat
        /\ Cardinality(Holding') <= W
    <2>1. Holding' \in SUBSET Workers
      BY DEF Holding
    <2> QED BY <2>1, WorkersAssumption, FS_Subset, FS_CardinalityType
  <1>c. SUFFICES Len(pool') + Cardinality(Holding') <= W
    BY DEF Bounded
  <1>d. pool' = pool /\ Holding' = Holding => Len(pool') + Cardinality(Holding') <= W
    BY <1>a
  <1>1. CASE \/ CloseBegin \/ NetworkChange \/ UNCHANGED vars
             \/ \E w \in Workers :
                   Call(w) \/ Pick(w) \/ Answered(w) \/ FirstAttemptFails(w) \/ Rotate(w)
    <2>1. pool' = pool /\ Holding' = Holding
      BY <1>0, <1>1 DEF CloseBegin, NetworkChange, vars, Call, Pick, Answered,
         FirstAttemptFails, Rotate, Holding, TypeOK, resolveVars
    <2> QED BY <2>1, <1>d
  <1>2. ASSUME NEW w \in Workers, BorrowFresh(w) PROVE Len(pool') + Cardinality(Holding') <= W
    <2>1. pool' = pool /\ L = 0
      BY <1>0, <1>2, PoolLength DEF BorrowFresh
    <2> QED BY <1>b, <2>1
  <1>3. ASSUME NEW w \in Workers, BorrowKept(w) PROVE Len(pool') + Cardinality(Holding') <= W
    <2>1. Len(pool') = L - 1
      BY <1>0, <1>3, PoolLength DEF BorrowKept
    <2>2. Cardinality(Holding') = H + 1
      BY <1>0, <1>3, HoldingJoins DEF BorrowKept
    <2> QED BY <1>a, <2>1, <2>2
  <1>4. ASSUME NEW w \in Workers, BorrowStale(w) PROVE Len(pool') + Cardinality(Holding') <= W
    <2>1. Len(pool') = L - 1 /\ Holding' = Holding
      BY <1>0, <1>4, PoolLength DEF BorrowStale, Holding
    <2> QED BY <1>a, <2>1
  <1>5. ASSUME NEW w \in Workers, SecondAttemptFails(w)
        PROVE  Len(pool') + Cardinality(Holding') <= W
    <2>1. pool' = pool /\ Cardinality(Holding') = H - 1
      BY <1>0, <1>5, HoldingLeaves DEF SecondAttemptFails
    <2> QED BY <1>a, <2>1
  <1>6. ASSUME NEW w \in Workers, ReleaseCheck(w) PROVE Len(pool') + Cardinality(Holding') <= W
    <2>1. CASE pc' = [pc EXCEPT ![w] = "put"]
      <3>1. pool' = pool /\ Holding' = Holding
        BY <1>0, <1>6, <2>1 DEF ReleaseCheck, Holding, TypeOK
      <3> QED BY <3>1, <1>d
    <2>2. CASE pc' = [pc EXCEPT ![w] = "idle"]
      <3>1. pool' = pool /\ Cardinality(Holding') = H - 1
        BY <1>0, <1>6, <2>2, HoldingLeaves DEF ReleaseCheck
      <3> QED BY <1>a, <3>1
    <2> QED BY <1>6, <2>1, <2>2 DEF ReleaseCheck
  <1>7. ASSUME NEW w \in Workers, ReleasePut(w) PROVE Len(pool') + Cardinality(Holding') <= W
    <2>1. conn[w].tag \in Servers
      BY <1>0 DEF TypeOK, Conns
    <2>2. Len(pool') = L + 1
      BY <1>0, <1>7, <2>1, PoolLength DEF ReleasePut
    <2>3. Cardinality(Holding') = H - 1
      BY <1>0, <1>7, HoldingLeaves DEF ReleasePut
    <2> QED BY <1>a, <2>2, <2>3
  <1>8. CASE CloseStep
    <2>1. Holding' = Holding /\ (pool' = pool \/ Len(pool') = L - 1)
      BY <1>0, <1>8, PoolLength DEF CloseStep, Holding
    <2> QED BY <1>a, <2>1
  <1> QED
    BY <1>1, <1>2, <1>3, <1>4, <1>5, <1>6, <1>7, <1>8
       DEF Next, Resolve, Borrow, Request, Release

LEMMA ClientInvariant == Spec => []ClientInv
  <1>1. ClientInv /\ [Next]_vars => ClientInv'
    BY TypeStep, BoundedStep DEF ClientInv
  <1> QED BY ClientInit, <1>1, PTL DEF Spec

(***************************************************************************)
(* There are never more open connections than threads, idle ones included  *)
(* (_borrow and _release, 196-211), for every number of workers and every  *)
(* pool size, although the size check and the put are two steps.           *)
(***************************************************************************)
THEOREM ConnectionsBounded == Spec => []PoolInv
  <1>1. ClientInv => PoolInv
    BY DEF ClientInv, PoolInv, Bounded
  <1> QED BY <1>1, ClientInvariant, PTL

-----------------------------------------------------------------------------
(***************************************************************************)
(* The refinement.  Initial states map to initial states ...               *)
(***************************************************************************)
LEMMA RefinesInit == Init => Failover!Init
  BY DEF Init, Failover!Init, AbstractPC, Servers, Failover!Endpoints

(***************************************************************************)
(* ... a step of resolve is the same step of the failover protocol, a step *)
(* of the pool a stuttering one.  AsksItsResolver is what the protocol     *)
(* needs: the resolver that is blamed is the one that has been asked.      *)
(***************************************************************************)
LEMMA RefinesStep == ClientInv /\ [Next]_vars => [Failover!Next]_(Failover!vars)
  <1> SUFFICES ASSUME ClientInv, [Next]_vars
               PROVE  [Failover!Next]_(Failover!vars)
    OBVIOUS
  <1>0. TypeOK /\ InLoop /\ AsksItsResolver
    BY DEF ClientInv
  <1> DEFINE apc == [w \in Workers |-> AbstractPC(w)]
  <1>a. \A w \in Workers : apc[w] = AbstractPC(w)
    OBVIOUS
  <1>1. ASSUME NEW w \in Workers, Call(w) PROVE Failover!Call(w)
    BY <1>0, <1>1 DEF Call, Failover!Call, AbstractPC, TypeOK
  <1>2. ASSUME NEW w \in Workers, Pick(w) PROVE Failover!Pick(w)
    BY <1>0, <1>2 DEF Pick, Failover!Pick, AbstractPC, TypeOK
  <1>3. ASSUME NEW w \in Workers, Borrow(w) PROVE UNCHANGED Failover!vars
    BY <1>0, <1>3 DEF Borrow, BorrowFresh, BorrowKept, BorrowStale, resolveVars,
       Failover!vars, AbstractPC, TypeOK
  <1>4. ASSUME NEW w \in Workers, Answered(w) PROVE Failover!Answered(w)
    BY <1>0, <1>4 DEF Answered, Failover!Answered, AbstractPC, TypeOK, AsksItsResolver
  <1>5. ASSUME NEW w \in Workers, FirstAttemptFails(w) PROVE UNCHANGED Failover!vars
    BY <1>0, <1>5 DEF FirstAttemptFails, resolveVars, Failover!vars, AbstractPC
  <1>6. ASSUME NEW w \in Workers, SecondAttemptFails(w) PROVE Failover!Refused(w)
    BY <1>0, <1>6 DEF SecondAttemptFails, Failover!Refused, AbstractPC, TypeOK, AsksItsResolver
  <1>7. ASSUME NEW w \in Workers, Rotate(w) PROVE Failover!Rotate(w)
    BY <1>0, <1>7 DEF Rotate, Failover!Rotate, Failover!EndRound, AbstractPC, TypeOK
  <1>8. ASSUME NEW w \in Workers, Release(w) PROVE UNCHANGED Failover!vars
    BY <1>0, <1>8 DEF Release, ReleaseCheck, ReleasePut, resolveVars, Failover!vars,
       AbstractPC, TypeOK
  <1>9. CASE CloseBegin \/ CloseStep
    BY <1>9 DEF CloseBegin, CloseStep, resolveVars, Failover!vars, AbstractPC
  <1>10. CASE NetworkChange
    <2>1. Failover!NetworkChange
      BY <1>10 DEF NetworkChange, Failover!NetworkChange, AbstractPC, Servers,
         Failover!Endpoints
    <2> QED BY <2>1 DEF Failover!Next
  <1>11. CASE UNCHANGED vars
    BY <1>11 DEF vars, Failover!vars, AbstractPC
  <1> QED
    BY <1>1, <1>2, <1>3, <1>4, <1>5, <1>6, <1>7, <1>8, <1>9, <1>10, <1>11
       DEF Next, Resolve, Request, Failover!Next, Failover!Step

(***************************************************************************)
(* The pooled client implements the failover protocol of the Go core       *)
(* (DohClient, divert_engine.py:185-234; doh.go:89-120): pool and second *)
(* attempts are invisible.                                                 *)
(***************************************************************************)
THEOREM Refinement == Spec => RefinesFailover
  <1>1. Spec => [][Failover!Next]_(Failover!vars)
    BY ClientInvariant, RefinesStep, PTL DEF Spec
  <1> QED BY <1>1, RefinesInit, PTL DEF Spec, RefinesFailover, Failover!Spec

-----------------------------------------------------------------------------
(* What is proved of the protocol therefore holds of the client.           *)

FailoverProofs == INSTANCE DohFailover_proofs WITH
    Callers <- Workers, NumEndpoints <- NumServers,
    pc <- [w \in Workers |-> AbstractPC(w)], idx <- ip

\* resolve raises only when every resolver has failed a fresh connection.
RaiseMeansAllRefused == (\E w \in Workers : pc[w] = "error") => refused = Servers

(***************************************************************************)
(* A query is given up only after every resolver has failed since the      *)
(* client was created (the raise of line 234): the theorem of the Go core, *)
(* carried over by the refinement, whatever the pool does.                 *)
(***************************************************************************)
THEOREM FailureIsTotal == Spec => []RaiseMeansAllRefused
  <1>1. FailoverProofs!Spec => []FailoverProofs!ErrorMeansAllRefused
    BY FailoverProofs!FailureIsTotal, ServersAssumption
  <1>2. Failover!Init <=> FailoverProofs!Init
    BY DEF Failover!Init, FailoverProofs!Init, Failover!Endpoints, FailoverProofs!Endpoints
  <1>3. [Failover!Next]_(Failover!vars) => [FailoverProofs!Next]_(FailoverProofs!vars)
    BY DEF Failover!Next, Failover!Step, Failover!Call, Failover!Pick, Failover!Answered,
       Failover!Refused, Failover!Rotate, Failover!EndRound, Failover!NetworkChange,
       Failover!vars, Failover!Endpoints,
       FailoverProofs!Next, FailoverProofs!Step, FailoverProofs!Call, FailoverProofs!Pick,
       FailoverProofs!Answered, FailoverProofs!Refused, FailoverProofs!Rotate,
       FailoverProofs!EndRound, FailoverProofs!NetworkChange, FailoverProofs!vars,
       FailoverProofs!Endpoints
  <1>4. FailoverProofs!ErrorMeansAllRefused => RaiseMeansAllRefused
    BY DEF FailoverProofs!ErrorMeansAllRefused, RaiseMeansAllRefused, AbstractPC, Servers,
       FailoverProofs!Endpoints
  <1> QED
    BY <1>1, <1>2, <1>3, <1>4, Refinement, PTL
       DEF RefinesFailover, Failover!Spec, FailoverProofs!Spec
=============================================================================
