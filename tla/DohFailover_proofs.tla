------------------------ MODULE DohFailover_proofs ------------------------
(***************************************************************************)
(* Proofs about DohFailover, for every set of callers and every number of  *)
(* endpoints.                                                              *)
(***************************************************************************)
EXTENDS DohFailover, TLAPS

(***************************************************************************)
(* The index moves inside the endpoints, whoever moves it: the wrap of     *)
(* rotate (doh.go:99) never leaves c.endpoints.                            *)
(***************************************************************************)
LEMMA NextEndpoint ==
    \A e \in Endpoints :
        /\ (e + 1) % NumEndpoints \in Endpoints
        /\ (e + 1) % NumEndpoints = IF e + 1 = NumEndpoints THEN 0 ELSE e + 1
  BY EndpointsAssumption DEF Endpoints

(***************************************************************************)
(* Type correctness: every caller's index names an endpoint, and a call    *)
(* never makes more rounds than there are endpoints.  InLoop is needed for *)
(* the bound on round.                                                     *)
(***************************************************************************)
LEMMA TypeInit == Init => TypeOK /\ InLoop
  BY EndpointsAssumption DEF Init, TypeOK, InLoop, Endpoints, PCs

LEMMA TypeStep == TypeOK /\ InLoop /\ [Next]_vars => (TypeOK /\ InLoop)'
  <1> SUFFICES ASSUME TypeOK, InLoop, [Next]_vars PROVE (TypeOK /\ InLoop)'
    OBVIOUS
  <1> USE EndpointsAssumption DEF TypeOK, InLoop, PCs
  <1>1. CASE NetworkChange
    BY <1>1 DEF NetworkChange
  <1>2. ASSUME NEW c \in Callers, Call(c) PROVE (TypeOK /\ InLoop)'
    BY <1>2 DEF Call, Endpoints
  <1>3. ASSUME NEW c \in Callers, Pick(c) PROVE (TypeOK /\ InLoop)'
    BY <1>3 DEF Pick
  <1>4. ASSUME NEW c \in Callers, Answered(c) PROVE (TypeOK /\ InLoop)'
    BY <1>4 DEF Answered, Endpoints
  <1>5. ASSUME NEW c \in Callers, Refused(c) PROVE (TypeOK /\ InLoop)'
    BY <1>5 DEF Refused
  <1>6. ASSUME NEW c \in Callers, Rotate(c) PROVE (TypeOK /\ InLoop)'
    <2>1. round[c] \in 0 .. NumEndpoints /\ round[c] + 1 \in 0 .. NumEndpoints
      BY <1>6 DEF Rotate, EndRound
    <2>2. active' \in Endpoints
      BY <1>6, NextEndpoint DEF Rotate, EndRound
    <2>3. round' = [round EXCEPT ![c] = round[c] + 1] /\ round'[c] = round[c] + 1
      BY <1>6 DEF Rotate, EndRound
    <2>4. TypeOK'
      BY <1>6, <2>1, <2>2, <2>3 DEF Rotate, EndRound
    <2>5. InLoop'
      BY <1>6, <2>1, <2>3 DEF Rotate, EndRound
    <2> QED BY <2>4, <2>5
  <1>7. CASE UNCHANGED vars
    BY <1>7 DEF vars
  <1> QED
    BY <1>1, <1>2, <1>3, <1>4, <1>5, <1>6, <1>7 DEF Next, Step

THEOREM TypeCorrect == Spec => []TypeOK
  BY TypeInit, TypeStep, PTL DEF Spec

(***************************************************************************)
(* The inductive invariant holds initially: the index starts at 0.         *)
(***************************************************************************)
LEMMA FailoverInit == Init => FailoverInv
  BY TypeInit, EndpointsAssumption DEF Init, FailoverInv, NeverPassed,
     RoundsProgress, RotatingIsRefused, ErrorMeansAllRefused, Endpoints

(***************************************************************************)
(* ... and every step preserves it.  The interesting one is Rotate: while  *)
(* some endpoint e has never failed, the caller holds an index below e and *)
(* at most the active one, so the active index moves up by one or is       *)
(* already past the caller's; either way it covers one more round, and the *)
(* rounds cannot run out before the index reaches e.                       *)
(***************************************************************************)
LEMMA FailoverStep == FailoverInv /\ [Next]_vars => FailoverInv'
  <1> SUFFICES ASSUME FailoverInv, [Next]_vars PROVE FailoverInv'
    OBVIOUS
  <1>0. TypeOK' /\ InLoop' /\ TypeOK /\ InLoop
    BY TypeStep DEF FailoverInv
  <1> DEFINE Rest == NeverPassed /\ RoundsProgress /\ RotatingIsRefused
                        /\ ErrorMeansAllRefused
  <1> SUFFICES ASSUME TypeOK, InLoop, Rest PROVE Rest'
    BY <1>0 DEF FailoverInv
  <1> USE EndpointsAssumption DEF TypeOK, NeverPassed, RoundsProgress,
          RotatingIsRefused, ErrorMeansAllRefused
  <1>1. CASE NetworkChange
    BY <1>1 DEF NetworkChange
  <1>2. ASSUME NEW c \in Callers, Call(c) PROVE Rest'
    BY <1>2 DEF Call, Endpoints
  <1>3. ASSUME NEW c \in Callers, Pick(c) PROVE Rest'
    BY <1>3 DEF Pick, Endpoints
  <1>4. ASSUME NEW c \in Callers, Answered(c) PROVE Rest'
    BY <1>4 DEF Answered
  <1>5. ASSUME NEW c \in Callers, Refused(c) PROVE Rest'
    BY <1>5 DEF Refused
  <1>6. ASSUME NEW c \in Callers, Rotate(c) PROVE Rest'
    <2>1. ASSUME NEW e \in Endpoints \ refused
          PROVE  /\ idx[c] <= active /\ idx[c] < e
                 /\ active' > idx[c] /\ active' <= e /\ active <= active'
                 /\ active' = active \/ active' = active + 1
      <3>1. idx[c] # e /\ idx[c] <= active /\ active <= e
        BY <1>6, <2>1 DEF Rotate, EndRound
      <3>2. active \in Nat /\ e \in Nat /\ idx[c] \in Nat
        BY DEF Endpoints
      <3>3. e < NumEndpoints /\ NumEndpoints \in Nat
        BY DEF Endpoints
      <3>4. active = idx[c] => (active + 1) % NumEndpoints = active + 1
        BY <3>1, <3>2, <3>3, NextEndpoint
      <3> QED BY <1>6, <3>1, <3>2, <3>3, <3>4 DEF Rotate, EndRound
    <2>2. NeverPassed'
      BY <1>6, <2>1 DEF Rotate, EndRound, Endpoints
    <2>3. RoundsProgress'
      <3> SUFFICES ASSUME refused # Endpoints PROVE RoundsProgress'
        BY <1>6 DEF Rotate, EndRound
      <3> PICK e \in Endpoints \ refused : TRUE
        OBVIOUS
      <3>1. round[c] + 1 <= active' /\ active <= active'
        BY <1>6, <2>1 DEF Rotate, EndRound, Endpoints
      <3>2. active \in Nat /\ active' \in Nat
        BY <1>0 DEF Endpoints
      <3> QED BY <1>6, <3>1, <3>2 DEF Rotate, EndRound, Endpoints
    <2>4. RotatingIsRefused'
      BY <1>6 DEF Rotate, EndRound
    <2>5. ErrorMeansAllRefused'
      <3> SUFFICES ASSUME refused # Endpoints, pc'[c] = "error" PROVE FALSE
        BY <1>6 DEF Rotate, EndRound
      <3> PICK e \in Endpoints \ refused : TRUE
        OBVIOUS
      <3>1. round[c] + 1 >= NumEndpoints
        BY <1>6 DEF Rotate, EndRound
      <3>2. round[c] + 1 <= active' /\ active' <= e
        BY <1>6, <2>1 DEF Rotate, EndRound, Endpoints
      <3> QED BY <1>0, <3>1, <3>2 DEF Endpoints
    <2> QED BY <2>2, <2>3, <2>4, <2>5
  <1>7. CASE UNCHANGED vars
    BY <1>7 DEF vars
  <1> QED
    BY <1>1, <1>2, <1>3, <1>4, <1>5, <1>6, <1>7 DEF Next, Step

(***************************************************************************)
(* The inductive invariant: the index never passes an endpoint that has    *)
(* never failed, every round moves it on, and whoever is about to rotate   *)
(* has seen its endpoint fail (rotate and Resolve, doh.go:95-120).         *)
(***************************************************************************)
THEOREM IndexNeverPasses == Spec => []FailoverInv
  BY FailoverInit, FailoverStep, PTL DEF Spec

(***************************************************************************)
(* A failed call means that every endpoint has failed since the client was *)
(* created (Resolve and rotate, doh.go:95-120), for every number of        *)
(* endpoints and every set of concurrent callers.                          *)
(***************************************************************************)
THEOREM FailureIsTotal == Spec => []ErrorMeansAllRefused
  <1>1. FailoverInv => ErrorMeansAllRefused
    BY DEF FailoverInv
  <1> QED BY <1>1, IndexNeverPasses, PTL
=============================================================================
