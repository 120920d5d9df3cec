------------------------------ MODULE AppleApp ------------------------------
(***************************************************************************)
(* The Apple app: ContentView.swift and TunnelManager.swift in the app,    *)
(* PacketTunnelProvider.swift in a process of its own, and the VPN         *)
(* connection that the system keeps between them.                          *)
(*                                                                         *)
(* TunnelManager runs on the main actor, one job at a time; a job that     *)
(* awaits the system is queued again when the answer is there, and other   *)
(* jobs run in between.                                                    *)
(***************************************************************************)
EXTENDS TunSession, SequencesExt

CONSTANTS
    MaxTaps,    \* bound: START and STOP pressed, here and in Settings
    MaxJobs,    \* bound: jobs queued, before the system or the user adds one
    MaxProfiles \* bound: profiles, in the preferences or about to be saved

ASSUME TapsAssumption == MaxTaps \in Nat
ASSUME ProfilesAssumption == MaxProfiles \in Nat \ {0}

\* A profile is a NETunnelProviderManager, with its connection; 0 is nil.
Profiles == 1 .. MaxProfiles

VARIABLES
    tm,         \* TunnelManager, the window and history
    vpn,        \* the connection of the profile that is up, and the provider
    prefs       \* the profiles in the preferences

appleVars == <<tm, vpn, prefs>>

Statuses == {"disconnected", "connecting", "connected", "disconnecting"}

\* `profile` is the one that was loaded (0: there was none) or saved, or whose
\* connection was notified.
Jobs == [kind : {"loaded", "loadFailed", "start", "saved", "saveFailed", "sync"},
         profile : 0 .. MaxProfiles]

ManagerRecords ==
    [queue : Seq(Jobs),
     loading : 0 .. 2,                          \* loads that await the system
     saving : [Profiles -> Nat],                \* starts that do
     state : Statuses \cup {"invalid"},
     manager : 0 .. MaxProfiles,
     taps : 0 .. MaxTaps,
     last : {"none", "start", "stop"}, stale : BOOLEAN,    \* history, as in AndroidApp
     halfSaved : BOOLEAN]           \* history: a start saved its profile and failed

ConnectionRecords ==
    [status : Statuses,
     profile : 0 .. MaxProfiles,
     next : 0 .. MaxProfiles,       \* started meanwhile: comes up when this one is down
     applying : BOOLEAN,            \* the callback of setTunnelNetworkSettings is due
     stopping : {"no", "due", "done"},  \* stopTunnel
     session : 0 .. MaxSessions,
     raced : SUBSET Sessions]       \* history: stopTunnel came before the callback

NoConnection == [status |-> "disconnected", profile |-> 0, next |-> 0, applying |-> FALSE,
                 stopping |-> "no", session |-> 0, raced |-> {}]

\* init loads the profile, and so does the window when it appears; both wait
\* for the system.  The app may have run before.
AppleInit ==
    /\ tm = [queue |-> <<>>, loading |-> 2, saving |-> [p \in Profiles |-> 0],
             state |-> "disconnected", manager |-> 0, taps |-> 0,
             last |-> "none", stale |-> FALSE, halfSaved |-> FALSE]
    /\ vpn = NoConnection
    /\ prefs \in {{}, {1}}

Queued(m, k, p) == [m EXCEPT !.queue = Append(@, [kind |-> k, profile |-> p])]

\* A change of the status is notified, by the connection that has changed; the
\* job reads the status when it runs, so one that waits already does for both.
Notified(m, p) ==
    IF m.queue # <<>> /\ Last(m.queue) = [kind |-> "sync", profile |-> p]
      THEN m ELSE Queued(m, "sync", p)

Waits(m, k) == \E j \in Range(m.queue) : j.kind = k
Saving(m) == \E p \in Profiles : m.saving[p] > 0

\* NETunnelProviderManager() makes a profile that nobody has saved.
Unused == {p \in Profiles : p \notin prefs /\ tm.saving[p] = 0}
IsFresh(p) == p \in Unused /\ \A q \in Unused : p <= q

-----------------------------------------------------------------------------
(* The connections.  The system runs one VPN at a time: to start another   *)
(* profile takes the one that is up down first.                            *)

Status(p) ==
    CASE p = vpn.profile -> vpn.status
      [] p = vpn.next /\ p # vpn.profile -> "connecting"
      [] OTHER -> "disconnected"

Becomes(v, s) == [v EXCEPT !.status = s]

StartVpn(p) == [NoConnection EXCEPT !.status = "connecting", !.profile = p, !.applying = TRUE]
StopVpn == [Becomes(vpn, "disconnecting") EXCEPT !.stopping = "due"]
ReplaceVpn(p) ==
    [(IF vpn.status = "disconnecting" THEN vpn ELSE StopVpn) EXCEPT !.next = p]

\* startVPNTunnel: without effect while the profile has a connection.
Started(p) ==
    CASE vpn.status = "disconnected" -> StartVpn(p)
      [] vpn.status # "disconnected" /\ p \in {vpn.profile, vpn.next} -> vpn
      [] OTHER -> ReplaceVpn(p)

Starts(p, m) ==
    /\ vpn' = Started(p)
    /\ tm' = CASE Started(p) = vpn -> m
               [] Started(p) # vpn /\ vpn.profile = 0 -> Notified(m, p)
               [] OTHER -> Notified(Notified(m, vpn.profile), p)

\* stopVPNTunnel of the profile that is up, or of the one that is to follow.
Stops(p, m) ==
    /\ p # 0
    /\ \/ p = vpn.profile /\ vpn.status \in {"connecting", "connected"} /\ vpn' = StopVpn
       \/ p = vpn.next /\ vpn' = [vpn EXCEPT !.next = 0]
    /\ tm' = Notified(m, p)

-----------------------------------------------------------------------------
(* The window *)

\* The button is disabled while the state is on its way.
Tap(i) ==
    /\ tm.taps < MaxTaps /\ Len(tm.queue) < MaxJobs
    /\ i = (IF tm.state = "connected" THEN "stop" ELSE "start")
    /\ tm.state \notin {"connecting", "disconnecting"}

\* A start that is still under way is not called off.
Tapped(i) ==
    [tm EXCEPT !.taps = @ + 1,
               !.last = IF Saving(tm) \/ Waits(tm, "start") \/ Waits(tm, "saved")
                          THEN "none" ELSE i]

TapStart ==
    /\ Tap("start")
    /\ tm' = Queued(Tapped("start"), "start", 0)
    /\ UNCHANGED <<vpn, prefs, sessionVars>>

Down == vpn.status \in {"disconnecting", "disconnected"} /\ vpn.next = 0

\* stop: it acts on the manager's own connection.  Nothing happens without a
\* manager or if that connection is not up, and then no notification corrects
\* the state.
TapStop ==
    /\ Tap("stop")
    /\ LET pressed == [Tapped("stop") EXCEPT !.state = "disconnecting"]
       IN  IF tm.manager # 0 /\ Status(tm.manager) \in {"connecting", "connected"}
             THEN Stops(tm.manager, pressed)
             ELSE /\ tm' = [pressed EXCEPT !.stale = TRUE,
                                           !.last = IF tm.manager # 0 /\ Down THEN @ ELSE "none"]
                  /\ UNCHANGED vpn
    /\ UNCHANGED <<prefs, sessionVars>>

-----------------------------------------------------------------------------
(* The jobs of TunnelManager *)

Job(k, p) == tm.queue # <<>> /\ Head(tm.queue) = [kind |-> k, profile |-> p]
Done == [tm EXCEPT !.queue = Tail(@)]

\* syncState reads the status when it runs, not when it was notified.
Synced(p) == [Done EXCEPT !.state = Status(p), !.stale = FALSE]

\* The observer is told of every connection, not only of the manager's.
Sync(p) ==
    /\ Job("sync", p)
    /\ tm' = Synced(p)
    /\ UNCHANGED vpn

\* all.first ?? NETunnelProviderManager()
Loaded(p) ==
    /\ \/ Job("loaded", p) /\ p # 0
       \/ Job("loaded", 0) /\ IsFresh(p)
    /\ tm' = [Synced(p) EXCEPT !.manager = p]
    /\ UNCHANGED vpn

Failed ==
    /\ Job("loadFailed", 0) \/ Job("saveFailed", 0)
    /\ tm' = [Done EXCEPT !.state = "invalid",
                          !.last = IF Job("saveFailed", 0) THEN "none" ELSE @]
    /\ UNCHANGED vpn

\* start, up to the first await of ensureSaved: manager ?? NETunnelProviderManager().
BeginStart(p) ==
    /\ Job("start", 0)
    /\ IF tm.manager = 0 THEN IsFresh(p) ELSE p = tm.manager
    /\ tm' = [Done EXCEPT !.state = "connecting", !.saving[p] = @ + 1, !.stale = TRUE]
    /\ UNCHANGED vpn

\* Faulty variant: ensureSaved does not keep the profile it has saved.
SavedUnkept(p) ==
    /\ Job("saved", p)
    /\ Starts(p, [Done EXCEPT !.last = IF Status(p) = "disconnecting" THEN "none" ELSE @])

\* A start of the profile that is just being stopped is lost.
Saved(p) ==
    /\ Job("saved", p)
    /\ Starts(p, [Done EXCEPT !.manager = p,
                              !.last = IF Status(p) = "disconnecting" THEN "none" ELSE @])

StartThrows(p) ==
    /\ Job("saved", p)
    /\ tm' = [Done EXCEPT !.manager = p, !.state = "invalid", !.last = "none"]
    /\ UNCHANGED vpn

Manager ==
    /\ \/ Failed
       \/ \E p \in Profiles :
             Sync(p) \/ Loaded(p) \/ BeginStart(p) \/ Saved(p) \/ StartThrows(p)
    /\ UNCHANGED <<prefs, sessionVars>>

-----------------------------------------------------------------------------
(* The provider *)

\* The callback of setTunnelNetworkSettings finds the new descriptor;
\* completionHandler(nil).
TunnelStarts(d) ==
    /\ vpn.applying /\ tun[d].st = "fresh" /\ Connect(d)
    /\ LET started == [vpn EXCEPT !.session = d, !.applying = FALSE]
       IN  IF vpn.status = "connecting"
             THEN vpn' = Becomes(started, "connected") /\ tm' = Notified(tm, vpn.profile)
             ELSE /\ vpn' = [started EXCEPT !.raced = IF vpn.stopping = "done"
                                                       THEN @ \cup {d} ELSE @]
                  /\ UNCHANGED tm
    /\ UNCHANGED route

\* completionHandler(error), because of the settings or without a descriptor,
\* or because Connect fails; the system ends the provider, and calls no
\* stopTunnel that finds a session.
TunnelFails ==
    /\ vpn.applying
    /\ UNCHANGED tun \/ \E d \in Sessions : tun[d].st = "fresh" /\ ConnectFails(d)
    /\ vpn' = [Becomes(vpn, "disconnecting") EXCEPT !.applying = FALSE, !.stopping = "done"]
    /\ tm' = [Notified(tm, vpn.profile) EXCEPT !.last = IF vpn.status = "connecting" THEN "none" ELSE @]
    /\ UNCHANGED route

StopTunnelApple ==
    /\ vpn.stopping = "due"
    /\ StopHeld(vpn.session)
    /\ vpn' = [vpn EXCEPT !.session = 0, !.stopping = "done"]
    /\ UNCHANGED <<tm, route>>

Provider ==
    /\ TunnelFails \/ StopTunnelApple \/ \E d \in Sessions : TunnelStarts(d)
    /\ UNCHANGED prefs

-----------------------------------------------------------------------------
(* The system *)

\* setTunnelNetworkSettings makes the utun, which blocks or not.
UtunUp ==
    /\ vpn.applying
    /\ \A d \in Sessions : tun[d].st # "fresh"
    /\ \E d \in Sessions, b \in BOOLEAN : Establish(d, b)
    /\ UNCHANGED appleVars

\* The provider's process ends, after stopTunnel or by itself; the profile
\* that has been started meanwhile has its turn.
ProviderEnds ==
    /\ vpn.status # "disconnected"
    /\ ProcessGone
    /\ vpn' = IF vpn.next = 0 THEN NoConnection ELSE StartVpn(vpn.next)
    /\ LET ended == Notified(tm, vpn.profile)
           told == IF vpn.next = 0 THEN ended ELSE Notified(ended, vpn.next)
       IN  tm' = [told EXCEPT !.last = IF vpn.status = "disconnecting" THEN @ ELSE "none"]
    /\ UNCHANGED prefs

\* The user starts or stops a profile in Settings.
FromSettings ==
    /\ tm.taps < MaxTaps /\ Len(tm.queue) < MaxJobs
    /\ \E p \in prefs :
          LET m == [tm EXCEPT !.taps = @ + 1, !.last = "none"]
          IN  (Started(p) # vpn /\ Starts(p, m)) \/ Stops(p, m)
    /\ UNCHANGED <<prefs, sessionVars>>

\* The preferences are read: all.first is any of them.
AnswerLoad ==
    /\ tm.loading > 0
    /\ \E m \in {Queued(tm, "loadFailed", 0)}
                 \cup {Queued(tm, "loaded", p) : p \in IF prefs = {} THEN {0} ELSE prefs} :
          tm' = [m EXCEPT !.loading = @ - 1]
    /\ UNCHANGED <<prefs, vpn, sessionVars>>

\* The preferences are written and read again; either may fail.
AnswerSave(p) ==
    /\ tm.saving[p] > 0
    /\ LET answered == [tm EXCEPT !.saving[p] = @ - 1]
       IN  \/ /\ prefs' = prefs \cup {p}
              /\ \/ tm' = Queued(answered, "saved", p)
                 \/ tm' = [Queued(answered, "saveFailed", 0) EXCEPT !.halfSaved = TRUE]
           \/ UNCHANGED prefs /\ tm' = Queued(answered, "saveFailed", 0)
    /\ UNCHANGED <<vpn, sessionVars>>

AppleStep ==
    \/ TapStart \/ TapStop \/ Manager
    \/ Provider
    \/ UtunUp \/ ProviderEnds \/ FromSettings
    \/ AnswerLoad \/ \E p \in Profiles : AnswerSave(p)

-----------------------------------------------------------------------------
(* Properties, for the composition *)

AppleTypeOK == tm \in ManagerRecords /\ vpn \in ConnectionRecords /\ prefs \subseteq Profiles

AppleHolds(d) == d = vpn.session \/ d \in vpn.raced

OneProfile == \A p, q \in prefs : p = q

AppleTruth ==
    /\ tm.queue = <<>> /\ tm.loading = 0 /\ ~Saving(tm)
    /\ vpn.status \in {"disconnected", "connected"}
    => /\ tm.last # "none" => (vpn.status = "connected" <=> tm.last = "start")
       /\ OneProfile /\ ~tm.stale => tm.state \in {vpn.status, "invalid"}
       /\ OneProfile /\ ~tm.halfSaved /\ tm.manager # 0 => vpn.profile \in {0, tm.manager}
=============================================================================
