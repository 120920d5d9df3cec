----------------------------- MODULE AndroidApp -----------------------------
(***************************************************************************)
(* The Android app: MainActivity.kt, LibertyVpnService.kt, and what the    *)
(* system does with a started and bound service.                           *)
(*                                                                         *)
(* The activity and the service run on the main thread, one message at a   *)
(* time; onRevoke is called on a thread of the binder pool.  The service's *)
(* fields have no lock.                                                    *)
(***************************************************************************)
EXTENDS TunSession, Sequences

CONSTANT MaxPresses     \* bound: START and STOP pressed

ASSUME PressesAssumption == MaxPresses \in Nat

VARIABLES
    svc,    \* the service, the messages for it and the system's view of it
    ui      \* the activity, and history

androidVars == <<svc, ui>>

Threads == {"main", "binder"}

ServiceRecords ==
    [inbox : Seq({"start", "stop", "destroy"}),  \* messages of the main thread
     main : {"idle", "connect", "publish", "stop", "clear"},
     binder : {"idle", "stop", "clear"},
     session : 0 .. MaxSessions,    \* session
     isRunning : BOOLEAN,
     requested : BOOLEAN,           \* started and not stopped, for the system
     alive : BOOLEAN,               \* an instance exists, for the system
     raced : SUBSET Sessions]       \* history: onRevoke overtook their Connect

ActivityRecords ==
    [shown : BOOLEAN, asked : BOOLEAN,      \* resumed; the consent dialog is open
     running : BOOLEAN,                     \* running
     presses : 0 .. MaxPresses,
     last : {"none", "start", "stop"},  \* history: the last intent, unless
                                        \* something else decides since then
     stale : BOOLEAN]       \* history: the window may not know what is so

NewService(messages) ==
    [inbox |-> messages, main |-> "idle", binder |-> "idle", session |-> 0,
     isRunning |-> FALSE, requested |-> messages # <<>>, alive |-> messages # <<>>,
     raced |-> {}]

AndroidInit ==
    /\ svc = NewService(<<>>)
    /\ ui = [shown |-> TRUE, asked |-> FALSE, running |-> FALSE, presses |-> 0,
             last |-> "none", stale |-> FALSE]

Busy == svc.inbox # <<>> \/ \E t \in Threads : svc[t] # "idle"

-----------------------------------------------------------------------------
(* The activity, between two messages for the service *)

\* startService, with either action.
Sent(s, i) == [s EXCEPT !.inbox = Append(@, i), !.requested = TRUE, !.alive = TRUE]

Pressed(i) ==
    [ui EXCEPT !.presses = @ + 1, !.last = IF Busy THEN "none" ELSE i,
               !.running = (i = "start"), !.stale = Busy]

MayPress == ui.shown /\ svc.main = "idle" /\ ui.presses < MaxPresses

PressStop ==
    /\ MayPress /\ ui.running
    /\ ui' = Pressed("stop") /\ svc' = Sent(svc, "stop")

PressStart ==
    /\ MayPress /\ ~ui.running
    /\ ui' = Pressed("start") /\ svc' = Sent(svc, "start")

\* VpnService.prepare wants the user's consent first.
AskConsent ==
    /\ MayPress /\ ~ui.running
    /\ ui' = [ui EXCEPT !.shown = FALSE, !.asked = TRUE]
    /\ UNCHANGED svc

\* The result comes just before onResume, which reads isRunning while the
\* intent is still on its way.
Consent ==
    /\ ui.asked /\ svc.main = "idle" /\ ui.presses < MaxPresses
    /\ svc' = Sent(svc, "start")
    /\ ui' = [Pressed("start") EXCEPT !.shown = TRUE, !.asked = FALSE,
                                      !.running = svc.isRunning, !.stale = TRUE]

Leave ==
    /\ ui.shown /\ ui' = [ui EXCEPT !.shown = FALSE]
    /\ UNCHANGED svc

\* onResume, also when the consent is refused.
Resume ==
    /\ ~ui.shown /\ svc.main = "idle"
    /\ ui' = [ui EXCEPT !.shown = TRUE, !.asked = FALSE, !.running = svc.isRunning,
                        !.stale = Busy]
    /\ UNCHANGED svc

Activity == (PressStop \/ PressStart \/ AskConsent \/ Consent \/ Leave \/ Resume)
            /\ UNCHANGED sessionVars

-----------------------------------------------------------------------------
(* The service *)

Excuse == ui' = [ui EXCEPT !.last = "none", !.stale = TRUE]
Next1 == Tail(svc.inbox)

Message(i) == svc.main = "idle" /\ svc.inbox # <<>> /\ Head(svc.inbox) = i

\* Faulty variant: a session that runs does not keep another from starting.
EstablishAnyway ==
    /\ Message("start")
    /\ \E d \in Sessions : Establish(d, TRUE)
    /\ svc' = [svc EXCEPT !.inbox = Next1, !.main = "connect"]
    /\ UNCHANGED ui

\* setBlocking(true); the descriptor is detached.
EstablishVpn ==
    /\ Message("start") /\ svc.session = 0
    /\ \E d \in Sessions : Establish(d, TRUE)
    /\ svc' = [svc EXCEPT !.inbox = Next1, !.main = "connect"]
    /\ UNCHANGED ui

EstablishRefused ==
    /\ Message("start") /\ svc.session = 0
    /\ svc' = [svc EXCEPT !.inbox = Next1, !.requested = FALSE]
    /\ Excuse /\ UNCHANGED sessionVars

AlreadyRunning ==
    /\ Message("start") /\ svc.session # 0
    /\ svc' = [svc EXCEPT !.inbox = Next1]
    /\ UNCHANGED <<ui, sessionVars>>

Fresh(d) == tun[d].st = "fresh"

ConnectOk ==
    /\ svc.main = "connect"
    /\ \E d \in Sessions :
          /\ Fresh(d) /\ Connect(d)
          /\ svc' = [svc EXCEPT !.session = d, !.main = "publish",
                                !.raced = IF svc.binder = "clear" THEN @ \cup {d} ELSE @]
    /\ UNCHANGED <<ui, route>>

Publish ==
    /\ svc.main = "publish"
    /\ svc' = [svc EXCEPT !.isRunning = TRUE, !.main = "idle"]
    /\ UNCHANGED <<ui, sessionVars>>

ConnectThrows ==
    /\ svc.main = "connect"
    /\ \E d \in Sessions : Fresh(d) /\ ConnectFails(d)
    /\ svc' = [svc EXCEPT !.main = "stop"]
    /\ Excuse /\ UNCHANGED route

StopCommand ==
    /\ Message("stop")
    /\ svc' = [svc EXCEPT !.inbox = Next1, !.main = "stop"]
    /\ UNCHANGED <<ui, sessionVars>>

\* stopTunnel, on either thread.
StopTunnel(t) ==
    /\ svc[t] = "stop"
    /\ StopHeld(svc.session)
    /\ svc' = [svc EXCEPT ![t] = "clear"]
    /\ UNCHANGED <<ui, route>>

ClearFields(t) ==
    /\ svc[t] = "clear"
    /\ svc' = [svc EXCEPT ![t] = "idle", !.session = 0, !.isRunning = FALSE,
                          !.requested = FALSE]
    /\ UNCHANGED <<ui, sessionVars>>

\* onDestroy: stopSelf has no effect any more.
Destroy ==
    /\ Message("destroy")
    /\ StopHeld(svc.session)
    /\ svc' = [svc EXCEPT !.inbox = Next1, !.session = 0, !.isRunning = FALSE]
    /\ ui' = [ui EXCEPT !.stale = @ \/ svc.isRunning]
    /\ UNCHANGED route

Service ==
    \/ EstablishVpn \/ EstablishRefused \/ AlreadyRunning
    \/ ConnectOk \/ Publish \/ ConnectThrows \/ StopCommand \/ Destroy
    \/ \E t \in Threads : StopTunnel(t) \/ ClearFields(t)

-----------------------------------------------------------------------------
(* The system *)

\* It is bound to the service as long as the VPN's device is open.
BringDown ==
    /\ svc.alive /\ ~svc.requested /\ ~(route # 0 /\ IsOpen(route))
    /\ svc' = [svc EXCEPT !.inbox = Append(@, "destroy"), !.alive = FALSE]
    /\ UNCHANGED <<ui, sessionVars>>

\* The user turns to another VPN.
Revoke ==
    /\ route # 0 /\ svc.binder = "idle" /\ svc.alive
    /\ route' = 0
    /\ svc' = [svc EXCEPT !.binder = "stop"]
    /\ Excuse /\ UNCHANGED tun

\* START_STICKY: the service comes back, with a null intent.
Kill ==
    /\ svc.alive
    /\ ProcessGone
    /\ svc' = NewService(IF svc.requested THEN <<"start">> ELSE <<>>)
    /\ ui' = [ui EXCEPT !.shown = FALSE, !.asked = FALSE, !.last = "none"]

AndroidStep == Activity \/ Service \/ BringDown \/ Revoke \/ Kill

-----------------------------------------------------------------------------
(* Properties, for the composition *)

AndroidTypeOK == svc \in ServiceRecords /\ ui \in ActivityRecords

AndroidHolds(d) == d = svc.session \/ d \in svc.raced

AndroidTruth ==
    ~Busy =>
        /\ ui.last # "none" =>
              /\ svc.isRunning <=> ui.last = "start"
              /\ svc.session # 0 <=> ui.last = "start"
        /\ ui.shown /\ ~ui.stale => ui.running = svc.isRunning
=============================================================================
