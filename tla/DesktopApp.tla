----------------------------- MODULE DesktopApp -----------------------------
(***************************************************************************)
(* The desktop application: the GUI (gui.py) and the engine it creates for *)
(* every press of START (engines/factory.py).                              *)
(*                                                                         *)
(* On macOS and Linux that is engines/portable_proxy.py, with the socket   *)
(* of its local proxy (bypass_proxy.py) and the proxy setting of the       *)
(* operating system (system_proxy.py); on Windows it is divert_engine.py,  *)
(* with the socket of its relay and its capture handle, beside the port    *)
(* diagnostic and its own handle.                                          *)
(*                                                                         *)
(* Threads: the GUI's main thread; for each engine a worker that runs      *)
(* start, a thread that runs stop (or the main thread, when it quits) and  *)
(* the accept loop; the diagnostic and its timer.  Stopping does not wait: *)
(* the next engine may start while the last one is still being stopped.    *)
(* A proxy setting outlives the process, which may end at any moment and   *)
(* takes its threads, sockets and handles with it.                         *)
(*                                                                         *)
(* The setting has two parts that commands change one at a time.  On macOS *)
(* they are the HTTP and the HTTPS proxy of one network service, on Linux  *)
(* the proxy's address and the mode that switches it on.                   *)
(***************************************************************************)
EXTENDS Naturals, Sequences

CONSTANTS
    MaxStarts,  \* bound: presses of START
    Platforms,  \* of {"darwin", "linux", "win32", "other"}
    Faults      \* what may go wrong, of {"timeout", "crash", "haste"}

ASSUME StartsAssumption == MaxStarts \in Nat \ {0}
ASSUME PlatformsAssumption == Platforms \subseteq {"darwin", "linux", "win32", "other"}
ASSUME FaultsAssumption == Faults \subseteq {"timeout", "crash", "haste"}

Engines == 1 .. MaxStarts

VARIABLES
    platform,   \* sys.platform, "other" also for Windows without the driver's DLL
    prior,      \* the user's own setting
    os,         \* the setting now
    gui,        \* the main thread
    engine,     \* self.engine, 0 for None
    starts,     \* engines created so far
    eng,        \* per engine: its threads, its system proxy, socket and handle
    diag,       \* the port diagnostic
    results,    \* self.result_queue
    clean       \* history: nothing of Faults has happened yet

vars == <<platform, prior, os, gui, engine, starts, eng, diag, results, clean>>

\* "own" is the user's proxy, "ours" this program's address; "manual" is the
\* mode of Linux that uses the address.
Values == {"own", "ours", "off", "manual"}
Settings == [first : Values, second : Values]
UserSettings(p) ==
    CASE p = "darwin" -> [first : {"own", "off"}, second : {"own", "off"}]
      [] p = "linux"  -> [first : {"own"}, second : {"manual", "off"}]
      [] OTHER        -> [first : {"off"}, second : {"off"}]
OnValue == IF platform = "darwin" THEN "ours" ELSE "manual"
PointsAtUs ==
    \/ platform = "darwin" /\ "ours" \in {os.first, os.second}
    \/ platform = "linux" /\ os = [first |-> "ours", second |-> "manual"]

EngineOf(p) == CASE p = "win32" -> "windows_windivert"
                 [] p \in {"darwin", "linux"} -> "portable_proxy"
                 [] OTHER -> "unsupported"
Windows == EngineOf(platform) = "windows_windivert"

\* Faulty variants: the setting is read when it has been changed already; the
\* socket is closed first.
StartBacksUpLate ==
    IF Windows THEN <<"probe", "bind", "open", "report">>
               ELSE <<"bind", "first", "backup", "second", "report">>
StopClosesFirst ==
    IF Windows THEN <<"shutdown", "close", "release">>
               ELSE <<"close", "restoreFirst", "restoreSecond">>

\* What start and stop do, in order.
StartSteps ==
    IF Windows THEN <<"probe", "bind", "open", "report">>
               ELSE <<"bind", "backup", "first", "second", "report">>
StopSteps ==
    IF Windows THEN <<"release", "shutdown", "close">>
               ELSE <<"restoreFirst", "restoreSecond", "close">>

\* A thread is at a step of its sequence, "none" before and "done" behind it.
After(s, steps) ==
    LET i == CHOOSE i \in DOMAIN steps : steps[i] = s
    IN  IF i = Len(steps) THEN "done" ELSE steps[i + 1]

EngineRecords ==
    [worker : {"none", "probe", "bind", "backup", "first", "second", "open", "undo",
               "report", "done"},
     ok : BOOLEAN,          \* the result of start
     applied : BOOLEAN,     \* self._applied
     backup : Settings,     \* self._macos_backup, self._linux_backup_mode
     stopper : {"none", "restoreFirst", "restoreSecond", "release", "shutdown", "close",
                "done"},
     running : BOOLEAN,     \* server.running; no shutdown of the relay requested
     socket : {"none", "listening", "closed"},
     accept : {"none", "top", "blocked", "ended"},
     capture : {"none", "open", "closed"}]  \* _w

NoEngine ==
    [worker |-> "none", ok |-> FALSE, applied |-> FALSE,
     backup |-> [first |-> "off", second |-> "off"], stopper |-> "none",
     running |-> FALSE, socket |-> "none", accept |-> "none", capture |-> "none"]

DiagRecords ==
    [button : BOOLEAN,      \* sniff_btn is enabled
     worker : {"none", "open", "recv", "report"},
     armed : BOOLEAN,       \* the timer
     handle : BOOLEAN]      \* the handle is open

NoDiag == [button |-> TRUE, worker |-> "none", armed |-> FALSE, handle |-> FALSE]

\* The window tells the truth: it shows an active bypass only while the engine
\* it holds serves, and captures, and it holds none while it offers START.
GuiTruth ==
    /\ gui = "on" => /\ engine # 0 /\ eng[engine].socket = "listening"
                     /\ Windows => eng[engine].capture = "open"
    /\ gui = "off" => engine = 0

TypeOK ==
    /\ platform \in Platforms /\ prior \in Settings /\ os \in Settings
    /\ gui \in {"off", "starting", "on", "quitting", "gone"}
    /\ engine \in 0 .. MaxStarts /\ starts \in 0 .. MaxStarts
    /\ eng \in [Engines -> EngineRecords]
    /\ diag \in DiagRecords
    /\ results \in Seq({"started", "failed", "sniff"}) /\ clean \in BOOLEAN

AppInv == TypeOK /\ GuiTruth

Init ==
    /\ platform \in Platforms
    /\ prior \in UserSettings(platform)
    /\ os = prior
    /\ gui = "off" /\ engine = 0 /\ starts = 0
    /\ eng = [e \in Engines |-> NoEngine] /\ diag = NoDiag
    /\ results = <<>> /\ clean = TRUE

-----------------------------------------------------------------------------
(* The start worker: start of the engine, then the report *)

\* A listening socket lives in the kernel until it is closed; on Linux an
\* accept that is blocked on it keeps it alive.
Alive(e) ==
    \/ eng[e].socket = "listening"
    \/ eng[e].socket = "closed" /\ eng[e].accept = "blocked"

restOfEngine == <<platform, prior, gui, engine, starts, diag, clean>>

\* No resolver answers: the engine does not start.
Probe(e) ==
    /\ eng[e].worker = "probe"
    /\ \E next \in {"bind", "report"} : eng' = [eng EXCEPT ![e].worker = next]
    /\ UNCHANGED <<restOfEngine, os, results>>

\* Windows lets two sockets with allow_reuse_address share the port.
Bind(e) ==
    /\ eng[e].worker = "bind"
    /\ eng' = IF ~Windows /\ \E d \in Engines : Alive(d)
                THEN [eng EXCEPT ![e].worker = "report", ![e].running = FALSE]
                ELSE [eng EXCEPT ![e].worker = After("bind", StartSteps),
                                 ![e].ok = ~Windows, ![e].running = TRUE,
                                 ![e].socket = "listening", ![e].accept = "top"]
    /\ UNCHANGED <<restOfEngine, os, results>>

OpenCapture(e) ==
    /\ eng[e].worker = "open"
    /\ eng' = [eng EXCEPT ![e].worker = After("open", StartSteps), ![e].ok = TRUE,
                          ![e].capture = "open"]
    /\ UNCHANGED <<restOfEngine, os, results>>

\* The driver cannot be opened: shutdown waits for the relay's loop to end.
OpenFails(e) ==
    /\ eng[e].worker = "open"
    /\ eng' = [eng EXCEPT ![e].worker = "undo", ![e].running = FALSE]
    /\ UNCHANGED <<restOfEngine, os, results>>

Undo(e) ==
    /\ eng[e].worker = "undo" /\ eng[e].accept = "ended"
    /\ eng' = [eng EXCEPT ![e].worker = "report", ![e].socket = "closed"]
    /\ UNCHANGED <<restOfEngine, os, results>>

\* The setting after the command of a step has run, for both directions.
Changed(e, step) ==
    CASE step = "first"  -> [os EXCEPT !.first = "ours"]
      [] step = "second" -> [os EXCEPT !.second = OnValue]
      [] step = "restoreFirst" /\ platform = "darwin" ->
             [os EXCEPT !.first = eng[e].backup.first]
      [] step = "restoreSecond" -> [os EXCEPT !.second = eng[e].backup.second]
      [] OTHER -> os

Apply(e) ==
    /\ eng[e].worker \in {"backup", "first", "second"}
    /\ os' = Changed(e, eng[e].worker)
    /\ LET next == After(eng[e].worker, StartSteps)
       IN  eng' = [eng EXCEPT ![e].worker = next,
                              ![e].backup = IF eng[e].worker = "backup" THEN os ELSE @,
                              ![e].applied = next = "report"]
    /\ UNCHANGED <<restOfEngine, results>>

\* apply gives up: there is nothing to configure, or a command times out,
\* with or without effect.
ApplyFails(e) ==
    /\ \/ eng[e].worker = "backup"
       \/ eng[e].worker \in {"first", "second"} /\ "timeout" \in Faults
    /\ os' \in {os, Changed(e, eng[e].worker)}
    /\ eng' = [eng EXCEPT ![e].worker = "report"]
    /\ clean' = (clean /\ eng[e].worker = "backup")
    /\ UNCHANGED <<platform, prior, gui, engine, starts, diag, results>>

\* Faulty variant: a start that fails is not reported.
ReportSuccess(e) ==
    /\ eng[e].worker = "report" /\ eng[e].ok
    /\ eng' = [eng EXCEPT ![e].worker = "done"]
    /\ results' = Append(results, IF eng[e].ok THEN "started" ELSE "failed")
    /\ UNCHANGED <<restOfEngine, os>>

Report(e) ==
    /\ eng[e].worker = "report"
    /\ eng' = [eng EXCEPT ![e].worker = "done"]
    /\ results' = Append(results, IF eng[e].ok THEN "started" ELSE "failed")
    /\ UNCHANGED <<restOfEngine, os>>

-----------------------------------------------------------------------------
(* stop of the engine, in a thread or at the end of the main thread *)

\* Without _applied revert returns at once.
Revert(e) ==
    /\ eng[e].stopper \in {"restoreFirst", "restoreSecond"}
    /\ LET next == After(eng[e].stopper, StopSteps)
       IN  IF eng[e].applied
             THEN /\ os' = Changed(e, eng[e].stopper)
                  /\ eng' = [eng EXCEPT ![e].stopper = next,
                                        ![e].applied = eng[e].stopper # "restoreSecond"]
             ELSE /\ eng' = [eng EXCEPT ![e].stopper = After("restoreSecond", StopSteps)]
                  /\ UNCHANGED os
    /\ UNCHANGED <<restOfEngine, results>>

RevertFails(e) ==
    /\ "timeout" \in Faults
    /\ eng[e].stopper \in {"restoreFirst", "restoreSecond"} /\ eng[e].applied
    /\ os' \in {os, Changed(e, eng[e].stopper)}
    /\ eng' = [eng EXCEPT ![e].stopper = After("restoreSecond", StopSteps), ![e].applied = FALSE]
    /\ clean' = FALSE
    /\ UNCHANGED <<platform, prior, gui, engine, starts, diag, results>>

\* The capture handle is closed before the relay goes.
Release(e) ==
    /\ eng[e].stopper = "release"
    /\ eng' = [eng EXCEPT ![e].stopper = After("release", StopSteps),
                          ![e].capture = IF @ = "open" THEN "closed" ELSE @]
    /\ UNCHANGED <<restOfEngine, os, results>>

Shutdown(e) ==
    /\ eng[e].stopper = "shutdown"
    /\ eng' = IF eng[e].socket = "listening"
                THEN [eng EXCEPT ![e].stopper = After("shutdown", StopSteps), ![e].running = FALSE]
                ELSE [eng EXCEPT ![e].stopper = After("close", StopSteps)]
    /\ UNCHANGED <<restOfEngine, os, results>>

\* server.stop, where on macOS closing the socket makes a blocked accept
\* raise; server_close of the relay, once its loop has ended.
CloseServer(e) ==
    /\ eng[e].stopper = "close" /\ (Windows => eng[e].accept = "ended")
    /\ eng' = [eng EXCEPT ![e].stopper = After("close", StopSteps), ![e].running = FALSE,
                          ![e].socket = IF @ = "listening" THEN "closed" ELSE @,
                          ![e].accept = IF @ = "blocked" /\ platform = "darwin"
                                          THEN "ended" ELSE @]
    /\ UNCHANGED <<restOfEngine, os, results>>

-----------------------------------------------------------------------------
(* The accept loop *)

\* On Windows serve_forever, which looks for a shutdown twice a second.
AcceptLoop(e) ==
    /\ eng[e].accept = "top" /\ (Windows => ~eng[e].running)
    /\ eng' = [eng EXCEPT ![e].accept =
                  IF eng[e].running /\ eng[e].socket = "listening" THEN "blocked" ELSE "ended"]
    /\ UNCHANGED <<restOfEngine, os, results>>

\* A client connects; its handler is a thread of its own.
Accepted(e) ==
    /\ eng[e].accept = "blocked"
    /\ eng' = [eng EXCEPT ![e].accept = "top"]
    /\ UNCHANGED <<restOfEngine, os, results>>

-----------------------------------------------------------------------------
(* The port diagnostic: find_game_port, sniff_outbound_ports *)

Window == gui \in {"off", "starting", "on"}
Diagnostic(d) == diag' = d /\ UNCHANGED <<platform, prior, os, gui, engine, starts, eng, clean>>

FindGamePort ==
    /\ Window /\ Windows /\ diag.button
    /\ Diagnostic([diag EXCEPT !.button = FALSE, !.worker = "open"])
    /\ UNCHANGED results

SniffOpens ==
    /\ diag.worker = "open"
    /\ \/ Diagnostic([diag EXCEPT !.worker = "recv", !.handle = TRUE, !.armed = TRUE])
       \/ Diagnostic([diag EXCEPT !.worker = "report"])
    /\ UNCHANGED results

SniffTimer ==
    /\ diag.armed /\ Diagnostic([diag EXCEPT !.armed = FALSE, !.handle = FALSE])
    /\ UNCHANGED results

\* recv fails because the handle is closed; timer.cancel.
SniffEnds ==
    /\ diag.worker = "recv" /\ ~diag.handle
    /\ Diagnostic([diag EXCEPT !.worker = "report", !.armed = FALSE])
    /\ UNCHANGED results

SniffReports ==
    /\ diag.worker = "report"
    /\ Diagnostic([diag EXCEPT !.worker = "none"])
    /\ results' = Append(results, "sniff")

Diagnose == SniffOpens \/ SniffTimer \/ SniffEnds \/ SniffReports

\* _tick finds the report of the diagnostic.
FinishSniff ==
    /\ Window /\ results # <<>> /\ Head(results) = "sniff"
    /\ Diagnostic([diag EXCEPT !.button = TRUE])
    /\ results' = Tail(results)

-----------------------------------------------------------------------------
(* The main thread *)

Settled ==
    \A e \in Engines :
        eng[e].worker \in {"none", "done"} /\ eng[e].stopper \in {"none", "done"}

ClickStart ==
    /\ gui = "off" /\ EngineOf(platform) # "unsupported" /\ starts < MaxStarts
    /\ starts' = starts + 1
    /\ engine' = starts'
    /\ eng' = [eng EXCEPT ![starts'].worker = StartSteps[1]]
    /\ gui' = "starting"
    /\ UNCHANGED <<platform, prior, os, diag, results, clean>>

\* Faulty variant: whatever the result, the engine is taken to run.
FinishStartBlindly ==
    /\ gui = "starting" /\ results # <<>> /\ Head(results) # "sniff"
    /\ results' = Tail(results)
    /\ gui' = "on"
    /\ UNCHANGED <<platform, prior, os, starts, eng, engine, diag, clean>>

\* _tick finds the report of the worker.
FinishStart ==
    /\ gui = "starting" /\ results # <<>> /\ Head(results) # "sniff"
    /\ results' = Tail(results)
    /\ IF Head(results) = "started" THEN gui' = "on" /\ UNCHANGED engine
                                    ELSE gui' = "off" /\ engine' = 0
    /\ UNCHANGED <<platform, prior, os, starts, eng, diag, clean>>

ClickStop ==
    /\ gui = "on"
    /\ gui' = "off"
    /\ engine' = 0
    /\ eng' = [eng EXCEPT ![engine].stopper = StopSteps[1]]
    /\ UNCHANGED <<platform, prior, os, starts, diag, results, clean>>

\* _cleanup stops the engine that the GUI holds.  A user in haste quits while
\* a start or a stop is under way.
Quit ==
    /\ Window
    /\ Settled \/ "haste" \in Faults
    /\ gui' = "quitting"
    /\ eng' = IF engine = 0 THEN eng ELSE [eng EXCEPT ![engine].stopper = StopSteps[1]]
    /\ clean' = (clean /\ Settled)
    /\ UNCHANGED <<platform, prior, os, engine, starts, diag, results>>

ProcessEnds ==
    /\ gui' = "gone"
    /\ engine' = 0
    /\ eng' = [e \in Engines |-> NoEngine] /\ diag' = NoDiag
    /\ results' = <<>>
    /\ UNCHANGED <<platform, prior, os, starts>>

\* The main thread ends, and the daemon threads with it; the timer of the
\* diagnostic is no daemon.
Exit ==
    /\ gui = "quitting" /\ (engine # 0 => eng[engine].stopper = "done") /\ ~diag.armed
    /\ ProcessEnds
    /\ UNCHANGED clean

\* The process is killed, at any moment.
Crash ==
    /\ "crash" \in Faults /\ gui # "gone"
    /\ ProcessEnds
    /\ clean' = FALSE

Relaunch ==
    /\ gui = "gone"
    /\ gui' = "off"
    /\ UNCHANGED <<platform, prior, os, engine, starts, eng, diag, results, clean>>

-----------------------------------------------------------------------------
Worker(e) ==
    \/ Probe(e) \/ Bind(e) \/ Apply(e) \/ ApplyFails(e) \/ Report(e)
    \/ OpenCapture(e) \/ OpenFails(e) \/ Undo(e)
Stopper(e) == Revert(e) \/ RevertFails(e) \/ Release(e) \/ Shutdown(e) \/ CloseServer(e)

Next ==
    \/ \E e \in Engines : Worker(e) \/ Stopper(e) \/ AcceptLoop(e) \/ Accepted(e)
    \/ FindGamePort \/ Diagnose \/ FinishSniff
    \/ ClickStart \/ FinishStart \/ ClickStop \/ Quit \/ Exit \/ Crash \/ Relaunch

\* Threads keep being scheduled, commands and the probe end by their timeouts,
\* the timer runs and the window polls the queue every 100 ms.  Users and
\* clients owe nothing.
Fairness ==
    /\ \A e \in Engines : WF_vars(Worker(e)) /\ WF_vars(Stopper(e)) /\ WF_vars(AcceptLoop(e))
    /\ WF_vars(Diagnose) /\ WF_vars(FinishSniff)
    /\ WF_vars(FinishStart) /\ WF_vars(Exit)

Spec == Init /\ [][Next]_vars
FairSpec == Spec /\ Fairness

-----------------------------------------------------------------------------
(* Properties *)

\* On Linux the address is not backed up, so a user's own proxy is lost:
\* see PriorRestored.
Restorable == platform = "darwin" \/ prior.second # "manual"

\* The browser is never left pointing at a dead port, although the next START
\* may come while the last engine is still being stopped (comment of
\* engines/portable_proxy.py:93): the port serves as a lock.  Likewise an open
\* capture always has its own relay behind it (divert_engine.py:535-578).  A
\* command that times out, a crash and a user who quits during a start or a
\* stop can leave it otherwise.
NoDeadPort == clean =>
    /\ Restorable /\ PointsAtUs => \E e \in Engines : eng[e].socket = "listening"
    /\ \A e \in Engines : eng[e].capture = "open" =>
          eng[e].socket = "listening" /\ eng[e].running

Same(s, t) == s.second = t.second /\ (platform = "darwin" => s.first = t.first)

\* What an engine will restore is the user's setting and never that of an
\* earlier engine, and it is back when no engine runs (system_proxy.py:84-110);
\* no socket and no capture is left then ("Normal traffic restored",
\* divert_engine.py:581), also where an engine could not start.
PriorKept == clean =>
    /\ \A e \in Engines : eng[e].applied => Same(eng[e].backup, prior)
    /\ Restorable /\ Settled /\ engine = 0 => Same(os, prior)
    /\ Settled /\ engine = 0 => \A e \in Engines :
          eng[e].socket # "listening" /\ eng[e].capture # "open"

\* Every start and every diagnostic is reported to the window, whatever
\* becomes of it, and a program that quits ends.
Settles ==
    /\ gui = "starting" ~> gui # "starting"
    /\ gui = "quitting" ~> gui # "quitting"
    /\ ~diag.button ~> diag.button

\* "restores the prior settings on stop" (system_proxy.py:5-6).  The code does
\* not keep this on Linux, where revert restores the mode only (133-136).
PriorRestored == Settled /\ engine = 0 => ~PointsAtUs
=============================================================================
