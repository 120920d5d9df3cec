----------------------------- MODULE MobileApps -----------------------------
(***************************************************************************)
(* A phone with one of the two apps: the app, the system around it, and    *)
(* the sessions of the Go core that it starts.                             *)
(***************************************************************************)
EXTENDS AndroidApp, AppleApp

VARIABLE platform   \* which app this is

vars == <<platform, tun, route, svc, ui, tm, vpn, prefs>>

Init ==
    /\ platform \in {"android", "apple"}
    /\ SessionInit /\ AndroidInit /\ AppleInit

Next ==
    /\ UNCHANGED platform
    /\ \/ platform = "android" /\ AndroidStep /\ UNCHANGED appleVars
       \/ platform = "apple" /\ AppleStep /\ UNCHANGED androidVars
       \/ SessionStep /\ UNCHANGED <<androidVars, appleVars>>

LoopsRun(d) == (Loops(d) \/ Finalise(d)) /\ UNCHANGED <<platform, route, androidVars, appleVars>>

\* The Go scheduler runs every goroutine and the collector every two minutes.
\* Nothing is assumed of users, packets or the system.
Fairness == \A d \in Sessions : WF_vars(LoopsRun(d))

Spec == Init /\ [][Next]_vars /\ Fairness

-----------------------------------------------------------------------------
(* Properties *)

Holds(d) == IF platform = "android" THEN AndroidHolds(d) ELSE AppleHolds(d)

\* Every session that runs is one that a STOP would stop: the service or the
\* provider has it in its field, unless onRevoke or stopTunnel came before
\* Connect returned (LibertyVpnService.kt:64-80,
\* PacketTunnelProvider.swift:43-66).  So two sessions run at the same time
\* only if that has happened to one of them, as it can.
MobileInv ==
    /\ SessionTypeOK /\ AndroidTypeOK /\ AppleTypeOK
    /\ \A d \in Sessions : Running(d) => Holds(d)

\* When all is quiet the tunnel is up exactly if the user pressed START last,
\* unless the system or another STOP or START on its way interfered, or a STOP
\* found that its manager's profile is not the one that is up
\* (LibertyVpnService.kt:130-132, TunnelManager.swift:67-82).  The window says
\* what is so, unless it has not been told.  On an Apple device it may instead
\* show the error of the load, save or start that failed last
\* (TunnelManager.swift:29-32, 46-48, 73-75), and it is right only while there
\* is at most one profile in the preferences.  Then the manager is the profile
\* that is up, so that a STOP would act on it, unless a start has saved one and
\* failed after that (TunnelManager.swift:41, 53-63, 81).
LastPressWins == IF platform = "android" THEN AndroidTruth ELSE AppleTruth

\* The descriptor of a session that is stopped, or of one that Connect gave
\* up, is closed in the end (LibertyVpnService.kt:62, tunnel.go:173-178) --
\* except where a reader sits in a read that Close cannot interrupt, until a
\* packet arrives or another VPN takes over.
StopReleases ==
    \A d \in Sessions :
        tun[d].cancelled \/ tun[d].st = "failed"
            ~> ~IsOpen(d) \/ (tun[d].blocking /\ tun[d].in = "blocked")
=============================================================================
