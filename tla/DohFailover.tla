---------------------------- MODULE DohFailover ----------------------------
(***************************************************************************)
(* The failover protocol of the DNS-over-HTTPS resolver: core-go/doh/doh.go.*)
(*                                                                         *)
(* Several goroutines call Resolve at the same time.  They share one piece *)
(* of mutable state, the index of the endpoint to ask next, guarded by a   *)
(* mutex.  A call makes at most one round per endpoint: it reads the       *)
(* active index, posts the query to that endpoint without the lock, and on *)
(* failure moves the index on, but only when nobody has moved it since.    *)
(*                                                                         *)
(* The Python client of divert_engine.py follows the same protocol with a  *)
(* connection pool added; DohClient.tla is shown to implement this module. *)
(***************************************************************************)
EXTENDS Naturals

CONSTANTS
    Callers,        \* goroutines that may be inside Resolve
    NumEndpoints    \* len(c.endpoints); endpoints are 0 .. NumEndpoints - 1

ASSUME EndpointsAssumption == NumEndpoints \in Nat \ {0}

Endpoints == 0 .. NumEndpoints - 1

VARIABLES
    active,     \* c.active
    answering,  \* the endpoints that would answer a query posted now
    refused,    \* history: the endpoints that have failed a post since New
    pc,         \* where each caller is in Resolve
    round,      \* rounds of the loop of Resolve the caller has finished
    idx         \* the endpoint of the caller's current round

vars == <<active, answering, refused, pc, round, idx>>

\* "idle": not in Resolve; "pick": top of the loop; "post": activeEndpoint
\* has returned, the post is under way; "rotate": the post has failed;
\* "error": Resolve has returned the last error.
PCs == {"idle", "pick", "post", "rotate", "error"}

TypeOK ==
    /\ active \in Endpoints
    /\ answering \in SUBSET Endpoints
    /\ refused \in SUBSET Endpoints
    /\ pc \in [Callers -> PCs]
    /\ round \in [Callers -> 0 .. NumEndpoints]
    /\ idx \in [Callers -> Endpoints]

Init ==
    /\ active = 0
    /\ answering \in SUBSET Endpoints
    /\ refused = {}
    /\ pc = [c \in Callers |-> "idle"]
    /\ round = [c \in Callers |-> 0]
    /\ idx = [c \in Callers |-> 0]

-----------------------------------------------------------------------------
\* Resolve is entered, for the first time or again after a return.
Call(c) ==
    /\ pc[c] \in {"idle", "error"}
    /\ pc' = [pc EXCEPT ![c] = "pick"]
    /\ round' = [round EXCEPT ![c] = 0]
    /\ idx' = [idx EXCEPT ![c] = 0]
    /\ UNCHANGED <<active, answering, refused>>

\* activeEndpoint, under the lock.
Pick(c) ==
    /\ pc[c] = "pick"
    /\ idx' = [idx EXCEPT ![c] = active]
    /\ pc' = [pc EXCEPT ![c] = "post"]
    /\ UNCHANGED <<active, answering, refused, round>>

\* post returns a body: Resolve returns it.
Answered(c) ==
    /\ pc[c] = "post"
    /\ idx[c] \in answering
    /\ pc' = [pc EXCEPT ![c] = "idle"]
    /\ round' = [round EXCEPT ![c] = 0]
    /\ idx' = [idx EXCEPT ![c] = 0]
    /\ UNCHANGED <<active, answering, refused>>

\* post fails: no connection, a status other than 200, or an empty body.
Refused(c) ==
    /\ pc[c] = "post"
    /\ idx[c] \notin answering
    /\ refused' = refused \cup {idx[c]}
    /\ pc' = [pc EXCEPT ![c] = "rotate"]
    /\ UNCHANGED <<active, answering, round, idx>>

\* The end of a round: the next one, or the error return when there has been
\* a round for every endpoint.
EndRound(c, next) ==
    /\ pc[c] = "rotate"
    /\ active' = next
    /\ round' = [round EXCEPT ![c] = @ + 1]
    /\ pc' = [pc EXCEPT ![c] = IF round'[c] < NumEndpoints THEN "pick" ELSE "error"]
    /\ UNCHANGED <<answering, refused, idx>>

\* Faulty variants of Rotate: move the index on without looking whether
\* somebody has already; move it to the one after the caller's own.
RotateBlindly(c) == EndRound(c, (active + 1) % NumEndpoints)
RotateFromOwn(c) == EndRound(c, (idx[c] + 1) % NumEndpoints)

\* rotate, under the lock: only if nobody else already did.
Rotate(c) ==
    EndRound(c, IF active = idx[c] THEN (active + 1) % NumEndpoints ELSE active)

\* Reachability of the endpoints changes at any time.
NetworkChange ==
    /\ \E S \in SUBSET Endpoints : S # answering /\ answering' = S
    /\ UNCHANGED <<active, refused, pc, round, idx>>

Step(c) == Call(c) \/ Pick(c) \/ Answered(c) \/ Refused(c) \/ Rotate(c)

Next == NetworkChange \/ \E c \in Callers : Step(c)

Spec == Init /\ [][Next]_vars

-----------------------------------------------------------------------------
\* A call fails only when every endpoint has failed some post since the
\* client was created (Resolve, doh.go:105-120): whatever the other callers
\* do to the shared index, an endpoint that has never failed is always
\* reached before the rounds run out.
ErrorMeansAllRefused ==
    (\E c \in Callers : pc[c] = "error") => refused = Endpoints

\* While an endpoint has never failed, the index never passes it, so it
\* does not go round and no caller holds an index ahead of it (rotate,
\* doh.go:95-101).
NeverPassed ==
    \A e \in Endpoints \ refused :
        /\ active <= e
        /\ \A c \in Callers : pc[c] \in {"post", "rotate"} => idx[c] <= active

\* A round is never wasted on an endpoint that this call has already seen
\* fail, as long as some endpoint has never failed.
RoundsProgress ==
    refused # Endpoints =>
        \A c \in Callers :
            /\ pc[c] = "pick" => round[c] <= active
            /\ pc[c] \in {"post", "rotate"} => round[c] <= idx[c]

\* Inside the loop there is always a round left to run.
InLoop == \A c \in Callers : pc[c] \in {"pick", "post", "rotate"} => round[c] < NumEndpoints

\* Whoever is about to rotate has just seen its endpoint fail.
RotatingIsRefused == \A c \in Callers : pc[c] = "rotate" => idx[c] \in refused

\* Together these are inductive; the theorems of DohFailover_proofs rest on
\* them.
FailoverInv ==
    /\ TypeOK
    /\ InLoop
    /\ NeverPassed
    /\ RoundsProgress
    /\ RotatingIsRefused
    /\ ErrorMeansAllRefused

\* Once the network has settled with some endpoint answering, calls stop
\* failing for good: failures still in flight from before may push the index
\* past a good endpoint, but only finitely often (doc comment of Resolve,
\* doh.go:103-104).
FailuresCease ==
    (\E S \in (SUBSET Endpoints) \ {{}} : <>[](answering = S))
        => <>[][\A c \in Callers : pc'[c] = "error" => pc[c] = "error"]_vars
=============================================================================
