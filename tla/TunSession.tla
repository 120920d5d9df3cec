----------------------------- MODULE TunSession -----------------------------
(***************************************************************************)
(* A session of the Go core as the mobile apps see it (tunnel.go): Connect *)
(* and Stop, and the two loops that carry packets between the TUN          *)
(* descriptor and the network stack.  What goes on inside a session is the *)
(* subject of Tunnel.                                                      *)
(*                                                                         *)
(* The system hands out a descriptor for every VPN it establishes; packets *)
(* arrive only on the one that is the VPN now.                             *)
(***************************************************************************)
EXTENDS Naturals

CONSTANT MaxSessions    \* bound: descriptors handed out

ASSUME SessionsAssumption == MaxSessions \in Nat \ {0}

Sessions == 1 .. MaxSessions

VARIABLES
    tun,    \* per descriptor: its session and its loops
    route   \* the descriptor of the VPN, 0 for none

sessionVars == <<tun, route>>

TunRecords ==
    [st : {"none", "fresh", "running", "failed", "gone"},
     blocking : BOOLEAN,    \* the descriptor blocks: Close wakes no reader
     cancelled : BOOLEAN,   \* s.ctx and s.ep
     closed : BOOLEAN,      \* s.tun
     in : {"off", "top", "blocked", "done"},    \* inboundLoop
     out : {"off", "wait", "done"}]             \* outboundLoop

NoTun == [st |-> "none", blocking |-> FALSE, cancelled |-> FALSE, closed |-> FALSE,
          in |-> "off", out |-> "off"]

SessionTypeOK == tun \in [Sessions -> TunRecords] /\ route \in 0 .. MaxSessions

SessionInit == tun = [d \in Sessions |-> NoTun] /\ route = 0

Running(d) == tun[d].st = "running" /\ ~tun[d].cancelled

\* os.File closes the descriptor itself only when no read uses it.
IsOpen(d) ==
    \/ tun[d].st \in {"fresh", "running", "failed"} /\ ~tun[d].closed
    \/ tun[d].closed /\ tun[d].in = "blocked"

-----------------------------------------------------------------------------
(* Calls of the apps.  They are steps of one thread of the app. *)

\* The system establishes the VPN: it replaces the one before it.
Establish(d, b) ==
    /\ tun[d].st = "none" /\ \A e \in 1 .. d - 1 : tun[e].st # "none"
    /\ tun' = [tun EXCEPT ![d].st = "fresh", ![d].blocking = b]
    /\ route' = d

Connect(d) ==
    tun' = [tun EXCEPT ![d].st = "running", ![d].in = "top", ![d].out = "wait"]

\* CreateNIC fails: nobody refers to s.tun any more.
ConnectFails(d) == tun' = [tun EXCEPT ![d].st = "failed"]

\* Faulty variant: the descriptor is not closed.
StopLeavesTun(d) == tun' = [tun EXCEPT ![d].cancelled = TRUE]

Stop(d) == tun' = [tun EXCEPT ![d].cancelled = TRUE, ![d].closed = TRUE]

\* The call session?.stop().
StopHeld(d) == IF d = 0 THEN UNCHANGED tun ELSE Stop(d)

\* The process ends and takes its descriptors and loops with it.
ProcessGone ==
    /\ tun' = [d \in Sessions |-> IF tun[d].st = "none" THEN tun[d]
                                  ELSE [NoTun EXCEPT !.st = "gone"]]
    /\ route' = 0

-----------------------------------------------------------------------------
(* The loops and the run-time system *)

InboundTop(d) ==
    /\ tun[d].in = "top"
    /\ tun' = [tun EXCEPT ![d].in = IF tun[d].closed THEN "done" ELSE "blocked"]

\* A packet arrives and is injected.
InboundReads(d) ==
    /\ tun[d].in = "blocked" /\ d = route
    /\ tun' = [tun EXCEPT ![d].in = "top"]

\* Read fails: Close has woken it, or the device is no longer the VPN.
InboundWoken(d) ==
    /\ tun[d].in = "blocked" /\ tun[d].closed /\ ~tun[d].blocking
    /\ tun' = [tun EXCEPT ![d].in = "done"]

InboundDetached(d) ==
    /\ tun[d].in = "blocked" /\ d # route
    /\ tun' = [tun EXCEPT ![d].in = "done"]

\* ReadContext returns nil once it is cancelled; the packets it returns
\* before that change nothing here.
OutboundEnds(d) ==
    /\ tun[d].out = "wait" /\ tun[d].cancelled
    /\ tun' = [tun EXCEPT ![d].out = "done"]

\* The garbage collector closes a file nobody refers to.
Finalise(d) ==
    /\ tun[d].st = "failed"
    /\ tun' = [tun EXCEPT ![d].st = "gone"]

Loops(d) == InboundTop(d) \/ InboundWoken(d) \/ OutboundEnds(d)

SessionStep ==
    /\ \E d \in Sessions : Loops(d) \/ InboundReads(d) \/ InboundDetached(d) \/ Finalise(d)
    /\ UNCHANGED route
=============================================================================
