--------------------------- MODULE DesktopApp_proofs --------------------------
(***************************************************************************)
(* Proofs about DesktopApp, on every platform, for any number of starts    *)
(* and whatever may go wrong: the window tells the truth, the browser is   *)
(* not left at a dead port, and the user's setting comes back.             *)
(*                                                                         *)
(* Most steps change one engine.  What holds of an engine by itself is a   *)
(* predicate on its record r, with w for Windows and c for clean; what     *)
(* relates engines to one another, to the window and to the setting comes  *)
(* after it.  The order of start and stop is in it: an engine that has     *)
(* applied its setting still listens until it has taken it back, and only  *)
(* one engine at a time has the port.                                      *)
(***************************************************************************)
EXTENDS DesktopApp, TLAPS

-----------------------------------------------------------------------------
(* The inductive invariant *)

\* The engine has not begun to close its socket; only then, if anything has gone
\* wrong.
Early(r, c) ==
    r.stopper = "none" \/ (c /\ r.stopper \in {"restoreFirst", "restoreSecond", "release"})

\* Steps and handles belong to a platform (portable_proxy.py:77-96,
\* divert_engine.py:527-575).
Fits(w, r) ==
    IF w THEN /\ r.worker \notin {"backup", "first", "second"}
              /\ r.stopper \notin {"restoreFirst", "restoreSecond"} /\ ~r.applied
         ELSE /\ r.worker \notin {"probe", "open", "undo"}
              /\ r.stopper \notin {"release", "shutdown"} /\ r.capture = "none"

\* An engine has nothing before it binds, and is not stopped before it starts.
Fresh(r) ==
    /\ r.worker \in {"none", "probe", "bind"} =>
          /\ r.socket = "none" /\ r.accept = "none" /\ r.capture = "none" /\ ~r.ok
          /\ ~r.applied
    /\ r.worker = "none" => r.stopper = "none"

\* What start has achieved at each of its steps: it listens first, and says that
\* it runs only if everything else has been done
\* (portable_proxy.py:77-90, divert_engine.py:527-560).
Up(w, r, c) == Early(r, c) =>
    /\ r.worker \in {"backup", "first", "second"} =>
          r.socket = "listening" /\ r.running /\ r.ok
    /\ r.worker = "open" =>
          r.socket = "listening" /\ r.running /\ ~r.ok /\ r.capture = "none"
    /\ r.worker = "undo" => ~r.ok /\ r.capture = "none"
    /\ r.worker \in {"report", "done"} =>
          IF r.ok THEN /\ r.socket = "listening" /\ r.running
                       /\ w => r.capture = "open"
                  ELSE r.socket # "listening" /\ r.capture # "open"
    /\ r.applied => r.ok /\ r.worker \in {"report", "done"}

\* What stop has taken back at each of its steps: the setting or the capture
\* before the socket (portable_proxy.py:92-96, divert_engine.py:562-575).
Down(r, c) == c =>
    /\ r.stopper # "none" => r.worker = "done"
    /\ r.stopper \in {"shutdown", "close", "done"} => r.capture # "open" /\ ~r.applied
    /\ r.stopper = "done" => r.socket # "listening"

\* What holds of an engine by itself.
EngineOK(w, r, c) == Fits(w, r) /\ Fresh(r) /\ Up(w, r, c) /\ Down(r, c)
EnginesOK == \A e \in Engines : EngineOK(Windows, eng[e], clean)

\* The window holds an engine exactly while it starts one, shows one that runs
\* or quits with one (gui.py:409-521).
Held ==
    /\ gui \in {"off", "gone"} => engine = 0
    /\ gui \in {"starting", "on"} => engine # 0 /\ eng[engine].stopper = "none"
    /\ gui = "on" => eng[engine].worker = "done" /\ eng[engine].ok
    /\ engine # 0 => eng[engine].worker # "none"

\* A worker is that of the engine the window holds; an engine that it let go is
\* being stopped, or never started.
Threads == \A e \in Engines :
    /\ eng[e].worker \notin {"none", "done"} =>
          e = engine /\ gui \in {"starting", "quitting"} /\ (clean => gui = "starting")
    /\ e > starts => eng[e].worker = "none"
    /\ e # engine /\ eng[e].worker = "done" /\ eng[e].stopper = "none" => ~eng[e].ok
    /\ clean /\ gui = "quitting" /\ e # engine => eng[e].stopper \in {"none", "done"}

\* There is at most one report of a start, and it tells how the start ended.
Reported ==
    /\ \A i \in 1 .. Len(results) : results[i] # "sniff" =>
          /\ gui \in {"starting", "quitting"} /\ engine # 0 /\ eng[engine].worker = "done"
          /\ results[i] = "started" <=> eng[engine].ok
    /\ \A i, j \in 1 .. Len(results) :
          results[i] # "sniff" /\ results[j] # "sniff" => i = j

\* The port is a lock: one engine at a time listens on it, but for Windows.
Lock == ~Windows => \A d, e \in Engines : Alive(d) /\ Alive(e) => d = e

\* The engine has changed the setting, or half of it.
Altering(r) == r.worker = "second" \/ r.applied

\* While no engine alters the setting it is the user's; who alters it has the
\* user's setting in its backup (system_proxy.py:84-110).
Setting == clean =>
    /\ (\A e \in Engines : ~Altering(eng[e])) => Same(os, prior)
    /\ \A e \in Engines :
          eng[e].worker = "first" \/ Altering(eng[e]) => Same(eng[e].backup, prior)
    /\ \A e \in Engines :
          eng[e].applied /\ eng[e].stopper = "restoreSecond" /\ platform = "darwin" =>
              os.first = prior.first

\* The inductive invariant.
IInv ==
    /\ TypeOK /\ prior \in UserSettings(platform)
    /\ EnginesOK /\ Held /\ Threads /\ Reported /\ Lock /\ Setting

-----------------------------------------------------------------------------
(* The steps of start and stop, and the fields of an engine *)

\* The step after the i-th one, in a sequence without repetition.
LEMMA AfterAt ==
  ASSUME NEW steps, DOMAIN steps = 1 .. Len(steps), NEW i \in 1 .. Len(steps),
         \A j, k \in 1 .. Len(steps) : steps[j] = steps[k] => j = k
  PROVE  After(steps[i], steps) = IF i = Len(steps) THEN "done" ELSE steps[i + 1]
<1> DEFINE j == CHOOSE j \in DOMAIN steps : steps[j] = steps[i]
<1>1. DOMAIN steps = 1 .. Len(steps)
  OBVIOUS
<1>2. j \in DOMAIN steps /\ steps[j] = steps[i]
  BY <1>1
<1>3. j = i
  BY <1>1, <1>2
<1> QED
  BY <1>3 DEF After

\* The steps of start, one by one.
LEMMA StartAfter ==
  IF Windows
    THEN /\ StartSteps[1] = "probe"
         /\ After("bind", StartSteps) = "open" /\ After("open", StartSteps) = "report"
    ELSE /\ StartSteps[1] = "bind"
         /\ After("bind", StartSteps) = "backup" /\ After("backup", StartSteps) = "first"
         /\ After("first", StartSteps) = "second"
         /\ After("second", StartSteps) = "report"
<1>1. CASE Windows
  <2> DEFINE s == <<"probe", "bind", "open", "report">>
  <2>1. /\ DOMAIN s = 1 .. 4 /\ Len(s) = 4 /\ s[1] = "probe" /\ s[2] = "bind"
        /\ s[3] = "open" /\ s[4] = "report"
    OBVIOUS
  <2>2. StartSteps = s
    BY <1>1 DEF StartSteps
  <2> HIDE DEF s
  <2>3. \A j, k \in 1 .. Len(s) : s[j] = s[k] => j = k
    BY <2>1
  <2>4. \A i \in 1 .. Len(s) : After(s[i], s) = IF i = Len(s) THEN "done" ELSE s[i + 1]
    BY <2>1, <2>3, AfterAt
  <2> QED
    BY <1>1, <2>1, <2>2, <2>4
<1>2. CASE ~Windows
  <2> DEFINE s == <<"bind", "backup", "first", "second", "report">>
  <2>1. /\ DOMAIN s = 1 .. 5 /\ Len(s) = 5 /\ s[1] = "bind" /\ s[2] = "backup"
        /\ s[3] = "first" /\ s[4] = "second" /\ s[5] = "report"
    OBVIOUS
  <2>2. StartSteps = s
    BY <1>2 DEF StartSteps
  <2> HIDE DEF s
  <2>3. \A j, k \in 1 .. Len(s) : s[j] = s[k] => j = k
    BY <2>1
  <2>4. \A i \in 1 .. Len(s) : After(s[i], s) = IF i = Len(s) THEN "done" ELSE s[i + 1]
    BY <2>1, <2>3, AfterAt
  <2> QED
    BY <1>2, <2>1, <2>2, <2>4
<1> QED
  BY <1>1, <1>2

\* The steps of stop, one by one.
LEMMA StopAfter ==
  IF Windows
    THEN /\ StopSteps[1] = "release" /\ After("release", StopSteps) = "shutdown"
         /\ After("shutdown", StopSteps) = "close" /\ After("close", StopSteps) = "done"
    ELSE /\ StopSteps[1] = "restoreFirst"
         /\ After("restoreFirst", StopSteps) = "restoreSecond"
         /\ After("restoreSecond", StopSteps) = "close"
         /\ After("close", StopSteps) = "done"
<1>1. CASE Windows
  <2> DEFINE s == <<"release", "shutdown", "close">>
  <2>1. /\ DOMAIN s = 1 .. 3 /\ Len(s) = 3 /\ s[1] = "release" /\ s[2] = "shutdown"
        /\ s[3] = "close"
    OBVIOUS
  <2>2. StopSteps = s
    BY <1>1 DEF StopSteps
  <2> HIDE DEF s
  <2>3. \A j, k \in 1 .. Len(s) : s[j] = s[k] => j = k
    BY <2>1
  <2>4. \A i \in 1 .. Len(s) : After(s[i], s) = IF i = Len(s) THEN "done" ELSE s[i + 1]
    BY <2>1, <2>3, AfterAt
  <2> QED
    BY <1>1, <2>1, <2>2, <2>4
<1>2. CASE ~Windows
  <2> DEFINE s == <<"restoreFirst", "restoreSecond", "close">>
  <2>1. /\ DOMAIN s = 1 .. 3 /\ Len(s) = 3 /\ s[1] = "restoreFirst"
        /\ s[2] = "restoreSecond" /\ s[3] = "close"
    OBVIOUS
  <2>2. StopSteps = s
    BY <1>2 DEF StopSteps
  <2> HIDE DEF s
  <2>3. \A j, k \in 1 .. Len(s) : s[j] = s[k] => j = k
    BY <2>1
  <2>4. \A i \in 1 .. Len(s) : After(s[i], s) = IF i = Len(s) THEN "done" ELSE s[i + 1]
    BY <2>1, <2>3, AfterAt
  <2> QED
    BY <1>2, <2>1, <2>2, <2>4
<1> QED
  BY <1>1, <1>2

\* The fields of an engine, one at a time: the record type is not expanded where
\* this is cited.
LEMMA Fields ==
  ASSUME NEW r \in EngineRecords
  PROVE  /\ r.worker \in {"none", "probe", "bind", "backup", "first", "second", "open",
                          "undo", "report", "done"}
         /\ r.ok \in BOOLEAN /\ r.applied \in BOOLEAN /\ r.backup \in Settings
         /\ r.stopper \in {"none", "restoreFirst", "restoreSecond", "release", "shutdown",
                           "close", "done"}
         /\ r.running \in BOOLEAN /\ r.socket \in {"none", "listening", "closed"}
         /\ r.accept \in {"none", "top", "blocked", "ended"}
         /\ r.capture \in {"none", "open", "closed"}
         /\ \A x \in {"none", "probe", "bind", "backup", "first", "second", "open",
                       "undo", "report", "done"} :
               [r EXCEPT !.worker = x] \in EngineRecords
         /\ \A x \in BOOLEAN : [r EXCEPT !.ok = x] \in EngineRecords
         /\ \A x \in BOOLEAN : [r EXCEPT !.applied = x] \in EngineRecords
         /\ \A x \in Settings : [r EXCEPT !.backup = x] \in EngineRecords
         /\ \A x \in {"none", "restoreFirst", "restoreSecond", "release", "shutdown",
                       "close", "done"} :
               [r EXCEPT !.stopper = x] \in EngineRecords
         /\ \A x \in BOOLEAN : [r EXCEPT !.running = x] \in EngineRecords
         /\ \A x \in {"none", "listening", "closed"} :
                  [r EXCEPT !.socket = x] \in EngineRecords
         /\ \A x \in {"none", "top", "blocked", "ended"} :
                  [r EXCEPT !.accept = x] \in EngineRecords
         /\ \A x \in {"none", "open", "closed"} :
                  [r EXCEPT !.capture = x] \in EngineRecords
  BY DEF EngineRecords

-----------------------------------------------------------------------------
(* Steps of one engine *)

\* The step changes engine e only, and it becomes s.
Becomes(e, s) == eng' = [eng EXCEPT ![e] = s]

\* Nothing that the window knows of the engine changes, unless it has stopped.
Quiet(r, s) ==
    /\ s.worker = "none" <=> r.worker = "none"
    /\ s.worker = "done" <=> r.worker = "done"
    /\ s.worker = "done" => (s.ok <=> r.ok)
    /\ s.stopper = "none" <=> r.stopper = "none"
    /\ r.stopper = "done" => s.stopper = "done"

\* The parts of the invariant that are about the window.
Rest ==
    /\ TypeOK /\ prior \in UserSettings(platform)
    /\ EnginesOK /\ Held /\ Threads /\ Reported

\* The platform decides whether this is Windows.
LEMMA WindowsKept == ASSUME platform' = platform PROVE Windows' = Windows
  BY DEF Windows, EngineOf

\* Something that goes wrong only takes away from what holds of an engine.
LEMMA Weaker ==
  ASSUME NEW w \in BOOLEAN, NEW r \in EngineRecords, NEW c \in BOOLEAN, NEW d \in BOOLEAN,
         d => c,
         EngineOK(w, r, c)
  PROVE  EngineOK(w, r, d)
  BY DEF EngineOK, Fits, Fresh, Up, Down, Early

\* A quiet step of one engine keeps what the window relies on.
LEMMA Quietly ==
  ASSUME IInv, NEW e \in Engines, NEW s \in EngineRecords, Becomes(e, s),
         Quiet(eng[e], s),
         UNCHANGED <<platform, prior, gui, engine, starts, diag, results>>,
         os' \in Settings, clean' \in BOOLEAN, clean' => clean,
         EngineOK(Windows, s, clean')
  PROVE  Rest'
<1>1. /\ TypeOK /\ prior \in UserSettings(platform) /\ EnginesOK /\ Held /\ Threads
      /\ Reported
  BY DEF IInv
<1>2. eng \in [Engines -> EngineRecords] /\ clean \in BOOLEAN
  BY <1>1 DEF TypeOK
<1>3. /\ eng' \in [Engines -> EngineRecords] /\ eng'[e] = s
      /\ \A d \in Engines : d # e => eng'[d] = eng[d]
  BY <1>2 DEF Becomes
<1>4. TypeOK'
  BY <1>1, <1>3 DEF TypeOK
<1>5. Windows' = Windows /\ Windows \in BOOLEAN
  BY WindowsKept DEF Windows
<1>6. EnginesOK'
  <2> SUFFICES ASSUME NEW d \in Engines PROVE EngineOK(Windows', eng'[d], clean')
    BY DEF EnginesOK
  <2>1. EngineOK(Windows, eng[d], clean')
    BY <1>1, <1>2, <1>5, Weaker DEF EnginesOK
  <2> QED
    BY <1>3, <1>5, <2>1
<1>7. /\ engine \in 0 .. MaxStarts /\ starts \in 0 .. MaxStarts
      /\ gui \in {"off", "starting", "on", "quitting", "gone"}
  BY <1>1 DEF TypeOK
<1>8. \A d \in Engines : Quiet(eng[d], eng'[d])
  BY <1>3 DEF Quiet
<1>9. engine # 0 => engine \in Engines
  BY <1>7, StartsAssumption DEF Engines
<1>10. Held'
  BY <1>1, <1>7, <1>8, <1>9 DEF Held, Quiet
<1>11. Threads'
  <2> SUFFICES ASSUME NEW d \in Engines PROVE
      /\ eng'[d].worker \notin {"none", "done"} =>
            d = engine /\ gui \in {"starting", "quitting"} /\ (clean' => gui = "starting")
      /\ d > starts => eng'[d].worker = "none"
      /\ d # engine /\ eng'[d].worker = "done" /\ eng'[d].stopper = "none" => ~eng'[d].ok
      /\ clean' /\ gui = "quitting" /\ d # engine => eng'[d].stopper \in {"none", "done"}
    BY DEF Threads
  <2> QED
    BY <1>1, <1>8 DEF Threads, Quiet
<1>12. Reported'
  BY <1>1, <1>8, <1>9 DEF Reported, Quiet
<1> QED
  BY <1>1, <1>4, <1>6, <1>10, <1>11, <1>12 DEF Rest

\* Nothing that the setting depends on changes in the engine.
Still(r, s) ==
    /\ s.applied <=> r.applied
    /\ s.worker = "second" <=> r.worker = "second"
    /\ s.worker = "first" <=> r.worker = "first"
    /\ s.backup = r.backup
    /\ s.applied /\ s.stopper = "restoreSecond" <=> r.applied
       /\ r.stopper = "restoreSecond"

\* The engine has a socket in the kernel.
Lives(r) == r.socket = "listening" \/ (r.socket = "closed" /\ r.accept = "blocked")

\* The lock stays with its owner unless a socket is opened.
LEMMA LockKept ==
  ASSUME IInv, NEW e \in Engines, NEW s \in EngineRecords, Becomes(e, s),
         platform' = platform, Lives(s) => Lives(eng[e])
  PROVE  Lock'
<1>1. eng \in [Engines -> EngineRecords] /\ Lock
  BY DEF IInv, TypeOK
<1>2. \A d \in Engines : Alive(d)' => Alive(d)
  BY <1>1 DEF Becomes, Alive, Lives
<1> QED
  BY <1>1, <1>2, WindowsKept DEF Lock

\* The setting stays explained.
LEMMA SettingKept ==
  ASSUME IInv, NEW e \in Engines, NEW s \in EngineRecords, Becomes(e, s),
         UNCHANGED <<platform, prior, os>>, clean' => clean, Still(eng[e], s)
  PROVE  Setting'
<1>1. eng \in [Engines -> EngineRecords] /\ Setting
  BY DEF IInv, TypeOK
<1>2. \A d \in Engines : Still(eng[d], eng'[d])
  BY <1>1 DEF Becomes, Still
<1>3. Same(os, prior)' <=> Same(os, prior)
  BY DEF Same
<1>4. \A d \in Engines :
        /\ Altering(eng[d])' <=> Altering(eng[d])
        /\ Same(eng[d].backup, prior)' <=> Same(eng[d].backup, prior)
  BY <1>2 DEF Altering, Still, Same
<1> QED
  BY <1>1, <1>2, <1>3, <1>4 DEF Setting, Still

\* The step is quiet, leaves the setting alone and opens no socket.
Gentle(r, s) == Quiet(r, s) /\ Still(r, s) /\ (Lives(s) => Lives(r))

\* A gentle step keeps the invariant if it keeps that of its engine.
LEMMA Small ==
  ASSUME IInv, NEW e \in Engines, NEW s \in EngineRecords, Becomes(e, s),
         UNCHANGED <<restOfEngine, os, results>>,
         Gentle(eng[e], s), EngineOK(Windows, s, clean)
  PROVE  IInv'
<1>1. os \in Settings /\ clean \in BOOLEAN
  BY DEF IInv, TypeOK
<1> QED
  BY <1>1, Quietly, LockKept, SettingKept DEF Gentle, Rest, IInv, restOfEngine

\* All steps are gentle that neither bind, nor touch the setting, nor report:
\* the driver, the relay and the accept loop (divert_engine.py:527-575,
\* bypass_proxy.py:230-248).
LEMMA SmallSteps ==
  ASSUME IInv, NEW e \in Engines,
         \/ Probe(e)
         \/ OpenCapture(e)
         \/ OpenFails(e)
         \/ Undo(e)
         \/ Release(e)
         \/ Shutdown(e)
         \/ CloseServer(e)
         \/ AcceptLoop(e)
         \/ Accepted(e)
  PROVE  IInv'
<1>e. eng \in [Engines -> EngineRecords]
  BY DEF IInv, TypeOK
<1>r. PICK r \in EngineRecords, w \in BOOLEAN, c \in BOOLEAN :
        r = eng[e] /\ w = Windows /\ c = clean /\ EngineOK(w, r, c)
  BY <1>e DEF IInv, TypeOK, EnginesOK, Windows
<1>k. EngineOK(w, r, c) /\ r \in EngineRecords
  BY <1>r
<1>after. /\ w => /\ After("open", StartSteps) = "report"
                   /\ After("release", StopSteps) = "shutdown"
                   /\ After("shutdown", StopSteps) = "close"
          /\ After("close", StopSteps) = "done"
  BY <1>r, StartAfter, StopAfter
<1>1. CASE Probe(e)
  <2>1. /\ r.worker = "probe"
        /\ \/ Becomes(e, [r EXCEPT !.worker = "bind"])
           \/ Becomes(e, [r EXCEPT !.worker = "report"])
    BY <1>r, <1>1 DEF Probe, Becomes
  <2>2. CASE Becomes(e, [r EXCEPT !.worker = "bind"])
    <3> DEFINE s == [r EXCEPT !.worker = "bind"]
    <3>a. Becomes(e, s)
      BY <1>r, <1>e, <1>after, <1>1, <2>1, <2>2 DEF Probe, Becomes
    <3>b. s \in EngineRecords
      BY Fields, <1>r, ZenonT(30)
    <3>c. Gentle(r, s)
      BY <1>k, <1>1, <2>1, <2>2, SMTT(30) DEF Gentle, Quiet, Still, Lives, EngineRecords
    <3>d. EngineOK(w, s, c)
      BY <1>k, <1>1, <2>1, <2>2, SMTT(30)
      DEF EngineOK, Fits, Fresh, Up, Down, Early, EngineRecords
    <3> QED BY <1>r, <1>1, <3>a, <3>b, <3>c, <3>d, Small DEF Probe
  <2>3. CASE Becomes(e, [r EXCEPT !.worker = "report"])
    <3> DEFINE s == [r EXCEPT !.worker = "report"]
    <3>a. Becomes(e, s)
      BY <1>r, <1>e, <1>after, <1>1, <2>1, <2>3 DEF Probe, Becomes
    <3>b. s \in EngineRecords
      BY Fields, <1>r, ZenonT(30)
    <3>c. Gentle(r, s)
      BY <1>k, <1>1, <2>1, <2>3, SMTT(30) DEF Gentle, Quiet, Still, Lives, EngineRecords
    <3>d. EngineOK(w, s, c)
      BY <1>k, <1>1, <2>1, <2>3, SMTT(30)
      DEF EngineOK, Fits, Fresh, Up, Down, Early, EngineRecords
    <3> QED BY <1>r, <1>1, <3>a, <3>b, <3>c, <3>d, Small DEF Probe
  <2> QED BY <2>1, <2>2, <2>3
<1>2. CASE OpenCapture(e)
  <2>1. r.worker = "open"
    BY <1>r, <1>2 DEF OpenCapture
  <2>w. w
    BY <1>k, <2>1 DEF EngineOK, Fits
  <2> DEFINE s == [r EXCEPT !.worker = "report", !.ok = TRUE, !.capture = "open"]
  <2>a. Becomes(e, s)
    BY <1>r, <1>e, <1>after, <1>2, <2>1, <2>w DEF OpenCapture, Becomes
  <2>b. s \in EngineRecords
    BY Fields, <1>r, ZenonT(30)
  <2>c. Gentle(r, s)
    BY <1>k, <1>2, <2>1, <2>w, SMTT(30) DEF Gentle, Quiet, Still, Lives, EngineRecords
  <2>d. EngineOK(w, s, c)
    BY <1>k, <1>2, <2>1, <2>w, SMTT(30)
    DEF EngineOK, Fits, Fresh, Up, Down, Early, EngineRecords
  <2> QED BY <1>r, <1>2, <2>a, <2>b, <2>c, <2>d, Small DEF OpenCapture
<1>3. CASE OpenFails(e)
  <2>1. r.worker = "open"
    BY <1>r, <1>3 DEF OpenFails
  <2> DEFINE s == [r EXCEPT !.worker = "undo", !.running = FALSE]
  <2>a. Becomes(e, s)
    BY <1>r, <1>e, <1>after, <1>3, <2>1 DEF OpenFails, Becomes
  <2>b. s \in EngineRecords
    BY Fields, <1>r, ZenonT(30)
  <2>c. Gentle(r, s)
    BY <1>k, <1>3, <2>1, SMTT(30) DEF Gentle, Quiet, Still, Lives, EngineRecords
  <2>d. EngineOK(w, s, c)
    BY <1>k, <1>3, <2>1, SMTT(30)
    DEF EngineOK, Fits, Fresh, Up, Down, Early, EngineRecords
  <2> QED BY <1>r, <1>3, <2>a, <2>b, <2>c, <2>d, Small DEF OpenFails
<1>4. CASE Undo(e)
  <2>1. r.worker = "undo" /\ r.accept = "ended"
    BY <1>r, <1>4 DEF Undo
  <2> DEFINE s == [r EXCEPT !.worker = "report", !.socket = "closed"]
  <2>a. Becomes(e, s)
    BY <1>r, <1>e, <1>after, <1>4, <2>1 DEF Undo, Becomes
  <2>b. s \in EngineRecords
    BY Fields, <1>r, ZenonT(30)
  <2>c. Gentle(r, s)
    BY <1>k, <1>4, <2>1, SMTT(30) DEF Gentle, Quiet, Still, Lives, EngineRecords
  <2>d. EngineOK(w, s, c)
    BY <1>k, <1>4, <2>1, SMTT(30)
    DEF EngineOK, Fits, Fresh, Up, Down, Early, EngineRecords
  <2> QED BY <1>r, <1>4, <2>a, <2>b, <2>c, <2>d, Small DEF Undo
<1>5. CASE Release(e)
  <2>1. r.stopper = "release"
    BY <1>r, <1>5 DEF Release
  <2>w. w
    BY <1>k, <2>1 DEF EngineOK, Fits
  <2>2. CASE r.capture = "open"
    <3> DEFINE s == [r EXCEPT !.stopper = "shutdown", !.capture = "closed"]
    <3>a. Becomes(e, s)
      BY <1>r, <1>e, <1>after, <1>5, <2>1, <2>2, <2>w DEF Release, Becomes
    <3>b. s \in EngineRecords
      BY Fields, <1>r, ZenonT(30)
    <3>c. Gentle(r, s)
      BY <1>k, <1>5, <2>1, <2>2, <2>w, SMTT(30)
      DEF Gentle, Quiet, Still, Lives, EngineRecords
    <3>d. EngineOK(w, s, c)
      BY <1>k, <1>5, <2>1, <2>2, <2>w, SMTT(30)
      DEF EngineOK, Fits, Fresh, Up, Down, Early, EngineRecords
    <3> QED BY <1>r, <1>5, <3>a, <3>b, <3>c, <3>d, Small DEF Release
  <2>3. CASE r.capture # "open"
    <3> DEFINE s == [r EXCEPT !.stopper = "shutdown"]
    <3>a. Becomes(e, s)
      BY <1>r, <1>e, <1>after, <1>5, <2>1, <2>3, <2>w DEF Release, Becomes
    <3>b. s \in EngineRecords
      BY Fields, <1>r, ZenonT(30)
    <3>c. Gentle(r, s)
      BY <1>k, <1>5, <2>1, <2>3, <2>w, SMTT(30)
      DEF Gentle, Quiet, Still, Lives, EngineRecords
    <3>d. EngineOK(w, s, c)
      BY <1>k, <1>5, <2>1, <2>3, <2>w, SMTT(30)
      DEF EngineOK, Fits, Fresh, Up, Down, Early, EngineRecords
    <3> QED BY <1>r, <1>5, <3>a, <3>b, <3>c, <3>d, Small DEF Release
  <2> QED BY <2>1, <2>2, <2>3
<1>6. CASE Shutdown(e)
  <2>1. r.stopper = "shutdown"
    BY <1>r, <1>6 DEF Shutdown
  <2>w. w
    BY <1>k, <2>1 DEF EngineOK, Fits
  <2>2. CASE r.socket = "listening"
    <3> DEFINE s == [r EXCEPT !.stopper = "close", !.running = FALSE]
    <3>a. Becomes(e, s)
      BY <1>r, <1>e, <1>after, <1>6, <2>1, <2>2, <2>w DEF Shutdown, Becomes
    <3>b. s \in EngineRecords
      BY Fields, <1>r, ZenonT(30)
    <3>c. Gentle(r, s)
      BY <1>k, <1>6, <2>1, <2>2, <2>w, SMTT(30)
      DEF Gentle, Quiet, Still, Lives, EngineRecords
    <3>d. EngineOK(w, s, c)
      BY <1>k, <1>6, <2>1, <2>2, <2>w, SMTT(30)
      DEF EngineOK, Fits, Fresh, Up, Down, Early, EngineRecords
    <3> QED BY <1>r, <1>6, <3>a, <3>b, <3>c, <3>d, Small DEF Shutdown
  <2>3. CASE r.socket # "listening"
    <3> DEFINE s == [r EXCEPT !.stopper = "done"]
    <3>a. Becomes(e, s)
      BY <1>r, <1>e, <1>after, <1>6, <2>1, <2>3, <2>w DEF Shutdown, Becomes
    <3>b. s \in EngineRecords
      BY Fields, <1>r, ZenonT(30)
    <3>c. Gentle(r, s)
      BY <1>k, <1>6, <2>1, <2>3, <2>w, SMTT(30)
      DEF Gentle, Quiet, Still, Lives, EngineRecords
    <3>d. EngineOK(w, s, c)
      BY <1>k, <1>6, <2>1, <2>3, <2>w, SMTT(30)
      DEF EngineOK, Fits, Fresh, Up, Down, Early, EngineRecords
    <3> QED BY <1>r, <1>6, <3>a, <3>b, <3>c, <3>d, Small DEF Shutdown
  <2> QED BY <2>1, <2>2, <2>3
<1>7. CASE CloseServer(e)
  <2>1. r.stopper = "close"
    BY <1>r, <1>7 DEF CloseServer
  <2>2. CASE r.socket = "listening" /\ (r.accept = "blocked" /\ platform = "darwin")
    <3> DEFINE s == [r EXCEPT !.stopper = "done", !.running = FALSE, !.socket = "closed",
                              !.accept = "ended"]
    <3>a. Becomes(e, s)
      BY <1>r, <1>e, <1>after, <1>7, <2>1, <2>2 DEF CloseServer, Becomes
    <3>b. s \in EngineRecords
      BY Fields, <1>r, ZenonT(30)
    <3>c. Gentle(r, s)
      BY <1>k, <1>7, <2>1, <2>2, SMTT(30) DEF Gentle, Quiet, Still, Lives, EngineRecords
    <3>d. EngineOK(w, s, c)
      BY <1>k, <1>7, <2>1, <2>2, SMTT(30)
      DEF EngineOK, Fits, Fresh, Up, Down, Early, EngineRecords
    <3> QED BY <1>r, <1>7, <3>a, <3>b, <3>c, <3>d, Small DEF CloseServer
  <2>3. CASE r.socket = "listening" /\ ~(r.accept = "blocked" /\ platform = "darwin")
    <3> DEFINE s == [r EXCEPT !.stopper = "done", !.running = FALSE, !.socket = "closed"]
    <3>a. Becomes(e, s)
      BY <1>r, <1>e, <1>after, <1>7, <2>1, <2>3 DEF CloseServer, Becomes
    <3>b. s \in EngineRecords
      BY Fields, <1>r, ZenonT(30)
    <3>c. Gentle(r, s)
      BY <1>k, <1>7, <2>1, <2>3, SMTT(30) DEF Gentle, Quiet, Still, Lives, EngineRecords
    <3>d. EngineOK(w, s, c)
      BY <1>k, <1>7, <2>1, <2>3, SMTT(30)
      DEF EngineOK, Fits, Fresh, Up, Down, Early, EngineRecords
    <3> QED BY <1>r, <1>7, <3>a, <3>b, <3>c, <3>d, Small DEF CloseServer
  <2>4. CASE r.socket # "listening" /\ (r.accept = "blocked" /\ platform = "darwin")
    <3> DEFINE s == [r EXCEPT !.stopper = "done", !.running = FALSE, !.accept = "ended"]
    <3>a. Becomes(e, s)
      BY <1>r, <1>e, <1>after, <1>7, <2>1, <2>4 DEF CloseServer, Becomes
    <3>b. s \in EngineRecords
      BY Fields, <1>r, ZenonT(30)
    <3>c. Gentle(r, s)
      BY <1>k, <1>7, <2>1, <2>4, SMTT(30) DEF Gentle, Quiet, Still, Lives, EngineRecords
    <3>d. EngineOK(w, s, c)
      BY <1>k, <1>7, <2>1, <2>4, SMTT(30)
      DEF EngineOK, Fits, Fresh, Up, Down, Early, EngineRecords
    <3> QED BY <1>r, <1>7, <3>a, <3>b, <3>c, <3>d, Small DEF CloseServer
  <2>5. CASE r.socket # "listening" /\ ~(r.accept = "blocked" /\ platform = "darwin")
    <3> DEFINE s == [r EXCEPT !.stopper = "done", !.running = FALSE]
    <3>a. Becomes(e, s)
      BY <1>r, <1>e, <1>after, <1>7, <2>1, <2>5 DEF CloseServer, Becomes
    <3>b. s \in EngineRecords
      BY Fields, <1>r, ZenonT(30)
    <3>c. Gentle(r, s)
      BY <1>k, <1>7, <2>1, <2>5, SMTT(30) DEF Gentle, Quiet, Still, Lives, EngineRecords
    <3>d. EngineOK(w, s, c)
      BY <1>k, <1>7, <2>1, <2>5, SMTT(30)
      DEF EngineOK, Fits, Fresh, Up, Down, Early, EngineRecords
    <3> QED BY <1>r, <1>7, <3>a, <3>b, <3>c, <3>d, Small DEF CloseServer
  <2> QED BY <2>1, <2>2, <2>3, <2>4, <2>5
<1>8. CASE AcceptLoop(e)
  <2>1. r.accept = "top"
    BY <1>r, <1>8 DEF AcceptLoop
  <2>2. CASE r.running /\ r.socket = "listening"
    <3> DEFINE s == [r EXCEPT !.accept = "blocked"]
    <3>a. Becomes(e, s)
      BY <1>r, <1>e, <1>after, <1>8, <2>1, <2>2 DEF AcceptLoop, Becomes
    <3>b. s \in EngineRecords
      BY Fields, <1>r, ZenonT(30)
    <3>c. Gentle(r, s)
      BY <1>k, <1>8, <2>1, <2>2, SMTT(30) DEF Gentle, Quiet, Still, Lives, EngineRecords
    <3>d. EngineOK(w, s, c)
      BY <1>k, <1>8, <2>1, <2>2, SMTT(30)
      DEF EngineOK, Fits, Fresh, Up, Down, Early, EngineRecords
    <3> QED BY <1>r, <1>8, <3>a, <3>b, <3>c, <3>d, Small DEF AcceptLoop
  <2>3. CASE ~(r.running /\ r.socket = "listening")
    <3> DEFINE s == [r EXCEPT !.accept = "ended"]
    <3>a. Becomes(e, s)
      BY <1>r, <1>e, <1>after, <1>8, <2>1, <2>3 DEF AcceptLoop, Becomes
    <3>b. s \in EngineRecords
      BY Fields, <1>r, ZenonT(30)
    <3>c. Gentle(r, s)
      BY <1>k, <1>8, <2>1, <2>3, SMTT(30) DEF Gentle, Quiet, Still, Lives, EngineRecords
    <3>d. EngineOK(w, s, c)
      BY <1>k, <1>8, <2>1, <2>3, SMTT(30)
      DEF EngineOK, Fits, Fresh, Up, Down, Early, EngineRecords
    <3> QED BY <1>r, <1>8, <3>a, <3>b, <3>c, <3>d, Small DEF AcceptLoop
  <2> QED BY <2>1, <2>2, <2>3
<1>9. CASE Accepted(e)
  <2>1. r.accept = "blocked"
    BY <1>r, <1>9 DEF Accepted
  <2> DEFINE s == [r EXCEPT !.accept = "top"]
  <2>a. Becomes(e, s)
    BY <1>r, <1>e, <1>after, <1>9, <2>1 DEF Accepted, Becomes
  <2>b. s \in EngineRecords
    BY Fields, <1>r, ZenonT(30)
  <2>c. Gentle(r, s)
    BY <1>k, <1>9, <2>1, SMTT(30) DEF Gentle, Quiet, Still, Lives, EngineRecords
  <2>d. EngineOK(w, s, c)
    BY <1>k, <1>9, <2>1, SMTT(30)
    DEF EngineOK, Fits, Fresh, Up, Down, Early, EngineRecords
  <2> QED BY <1>r, <1>9, <2>a, <2>b, <2>c, <2>d, Small DEF Accepted
<1> QED BY <1>1, <1>2, <1>3, <1>4, <1>5, <1>6, <1>7, <1>8, <1>9

-----------------------------------------------------------------------------
(* The setting *)

\* While an engine listens no other one has altered the setting or is about to:
\* it would have to listen as well (comment of portable_proxy.py:93).
LEMMA Alone ==
  ASSUME IInv, clean, ~Windows, NEW e \in Engines, eng[e].socket = "listening"
  PROVE  \A d \in Engines : d # e => ~Altering(eng[d]) /\ eng[d].worker # "first"
<1> SUFFICES ASSUME NEW d \in Engines, Altering(eng[d]) \/ eng[d].worker = "first"
             PROVE d = e
  OBVIOUS
<1>1. EngineOK(Windows, eng[d], TRUE) /\ eng[d] \in EngineRecords /\ Lock
  BY DEF IInv, TypeOK, EnginesOK
<1>2. eng[d].stopper \in {"none", "restoreFirst", "restoreSecond", "release", "shutdown",
                          "close", "done"}
  BY <1>1, Fields
<1>3. eng[d].socket = "listening"
  BY <1>1, <1>2 DEF EngineOK, Up, Down, Early, Altering
<1> QED
  BY <1>1, <1>3 DEF Lock, Alive

\* A step that touches the setting, by the one engine that may.
LEMMA SettingBy ==
  ASSUME IInv, NEW e \in Engines, NEW s \in EngineRecords, Becomes(e, s),
         UNCHANGED <<platform, prior>>, clean' => clean,
         clean' => \A d \in Engines : d # e => ~Altering(eng[d])
         /\ eng[d].worker # "first",
         clean' => Altering(s) \/ Same(os', prior),
         clean' /\ (s.worker = "first" \/ Altering(s)) => Same(s.backup, prior),
         clean' /\ s.applied /\ s.stopper = "restoreSecond" /\ platform = "darwin" =>
             os'.first = prior.first
  PROVE  Setting'
<1>1. eng \in [Engines -> EngineRecords]
  BY DEF IInv, TypeOK
<1>2. eng'[e] = s /\ \A d \in Engines : d # e => eng'[d] = eng[d]
  BY <1>1 DEF Becomes
<1>3. /\ Same(os, prior)' <=> Same(os', prior)
      /\ \A d \in Engines : Altering(eng[d])' <=> Altering(eng'[d])
      /\ \A d \in Engines : Same(eng[d].backup, prior)' <=> Same(eng'[d].backup, prior)
  BY DEF Same, Altering
<1>4. ASSUME clean' PROVE
      /\ (\A d \in Engines : ~Altering(eng[d])') => Same(os, prior)'
      /\ \A d \in Engines :
            eng'[d].worker = "first" \/ Altering(eng[d])' => Same(eng[d].backup, prior)'
      /\ \A d \in Engines :
          eng'[d].applied /\ eng'[d].stopper = "restoreSecond" /\ platform' = "darwin" =>
              os'.first = prior'.first
  BY <1>2, <1>3, <1>4 DEF Altering
<1> QED
  BY <1>4 DEF Setting

\* A command leaves a setting.
LEMMA ChangedType ==
  ASSUME TypeOK, NEW e \in Engines, NEW step
  PROVE  Changed(e, step) \in Settings
<1>1. /\ os \in Settings /\ eng[e].backup \in Settings /\ OnValue \in Values
      /\ "ours" \in Values
  BY Fields DEF TypeOK, OnValue, Values
<1>2. /\ \A x \in Values : [os EXCEPT !.first = x] \in Settings
      /\ \A x \in Values : [os EXCEPT !.second = x] \in Settings
      /\ \A x \in Settings : x.first \in Values /\ x.second \in Values
  BY <1>1 DEF Settings
<1>3. /\ [os EXCEPT !.first = "ours"] \in Settings
      /\ [os EXCEPT !.second = OnValue] \in Settings
      /\ [os EXCEPT !.first = eng[e].backup.first] \in Settings
      /\ [os EXCEPT !.second = eng[e].backup.second] \in Settings
  BY <1>1, <1>2
<1> HIDE DEF OnValue
<1> QED
  BY <1>1, <1>3, Zenon DEF Changed

\* What the command of each step does to the setting.
LEMMA ChangedBy ==
  ASSUME NEW e \in Engines
  PROVE  /\ Changed(e, "backup") = os
         /\ Changed(e, "first") = [os EXCEPT !.first = "ours"]
         /\ Changed(e, "second") = [os EXCEPT !.second = OnValue]
         /\ platform = "darwin" =>
               Changed(e, "restoreFirst") = [os EXCEPT !.first = eng[e].backup.first]
         /\ platform # "darwin" => Changed(e, "restoreFirst") = os
         /\ Changed(e, "restoreSecond") = [os EXCEPT !.second = eng[e].backup.second]
  BY DEF Changed

-----------------------------------------------------------------------------
(* The steps of an engine that the others see *)

\* bind keeps the invariant: it fails while another engine has a socket
\* (bypass_proxy.py:210-228).
LEMMA BindStep ==
  ASSUME IInv, NEW e \in Engines, Bind(e)
  PROVE  IInv'
<1>e. eng \in [Engines -> EngineRecords] /\ TypeOK
  BY DEF IInv, TypeOK
<1>r. PICK r \in EngineRecords, w \in BOOLEAN, c \in BOOLEAN :
        r = eng[e] /\ w = Windows /\ c = clean /\ EngineOK(w, r, c)
  BY <1>e DEF IInv, TypeOK, EnginesOK, Windows
<1>k. EngineOK(w, r, c) /\ r \in EngineRecords
  BY <1>r
<1>1. r.worker = "bind"
  BY <1>r DEF Bind
<1>2. CASE ~Windows /\ \E d \in Engines : Alive(d)
  <2> DEFINE s == [r EXCEPT !.worker = "report", !.running = FALSE]
  <2>a. Becomes(e, s)
    BY <1>r, <1>e, <1>2 DEF Bind, Becomes
  <2>b. s \in EngineRecords
    BY Fields, <1>r, <1>e, ZenonT(30) DEF TypeOK
  <2>c. Gentle(r, s)
    BY <1>k, <1>1, SMTT(30) DEF Gentle, Quiet, Still, Lives, EngineRecords
  <2>d. EngineOK(w, s, c)
    BY <1>k, <1>1, SMTT(30) DEF EngineOK, Fits, Fresh, Up, Down, Early, EngineRecords
  <2> QED BY <1>r, <2>a, <2>b, <2>c, <2>d, Small DEF Bind
<1>3. CASE ~(~Windows /\ \E d \in Engines : Alive(d))
  <2>1. PICK n \in {"open", "backup"} :
            /\ n = After("bind", StartSteps) /\ (w => n = "open") /\ (~w => n = "backup")
    BY <1>r, StartAfter
  <2>2. PICK k \in BOOLEAN : k = ~Windows /\ (w => ~k) /\ (~w => k)
    BY <1>r
  <2> DEFINE s == [r EXCEPT !.worker = n, !.ok = k, !.running = TRUE,
                            !.socket = "listening", !.accept = "top"]
  <2>a. Becomes(e, s)
    BY <1>r, <1>e, <1>3, <2>1, <2>2 DEF Bind, Becomes
  <2>b. s \in EngineRecords
    BY Fields, <1>r, <1>e, ZenonT(30) DEF TypeOK
  <2>c. Quiet(r, s) /\ Still(r, s)
    BY <1>k, <1>1, <2>1, SMTT(30) DEF Quiet, Still, EngineRecords
  <2>d. EngineOK(w, s, c)
    BY <1>k, <1>1, <2>1, <2>2, SMTT(30)
    DEF EngineOK, Fits, Fresh, Up, Down, Early, EngineRecords
  <2>e. UNCHANGED <<restOfEngine, os, results>>
    BY DEF Bind
  <2>f. Rest'
    BY <1>r, <1>e, <2>a, <2>b, <2>c, <2>d, <2>e, Quietly DEF restOfEngine, TypeOK
  <2>g. Setting'
    BY <1>r, <2>a, <2>b, <2>c, <2>e, SettingKept DEF restOfEngine
  <2>h. Lock'
    <3> HIDE DEF s
    <3>1. \A d \in Engines : d # e => (Alive(d)' <=> Alive(d))
      BY <1>e, <2>a DEF Becomes, Alive
    <3>2. Windows' = Windows
      BY <2>e, WindowsKept DEF restOfEngine
    <3> QED BY <1>3, <3>1, <3>2 DEF Lock
  <2> QED BY <2>f, <2>g, <2>h DEF Rest, IInv
<1> QED BY <1>2, <1>3

\* Every command of apply keeps the invariant: the backup is made while the
\* setting is the user's (system_proxy.py:84-110).
LEMMA ApplyStep ==
  ASSUME IInv, NEW e \in Engines, Apply(e)
  PROVE  IInv'
<1>e. eng \in [Engines -> EngineRecords] /\ TypeOK
  BY DEF IInv, TypeOK
<1>r. PICK r \in EngineRecords, w \in BOOLEAN, c \in BOOLEAN :
        r = eng[e] /\ w = Windows /\ c = clean /\ EngineOK(w, r, c)
  BY <1>e DEF IInv, TypeOK, EnginesOK, Windows
<1>k. EngineOK(w, r, c) /\ r \in EngineRecords
  BY <1>r
<1>1. r.worker \in {"backup", "first", "second"}
  BY <1>r DEF Apply
<1>2. ~w
  BY <1>k, <1>1 DEF EngineOK, Fits
<1>3. c => r.socket = "listening" /\ ~Altering([r EXCEPT !.worker = "none"])
  BY <1>k, <1>1, SMTT(30)
  DEF Altering, EngineOK, Fits, Fresh, Up, Down, Early, EngineRecords
<1>4. clean => \A d \in Engines : d # e => ~Altering(eng[d]) /\ eng[d].worker # "first"
  BY <1>r, <1>2, <1>3, Alone
<1>5. /\ After("backup", StartSteps) = "first" /\ After("first", StartSteps) = "second"
      /\ After("second", StartSteps) = "report"
  BY <1>r, <1>2, StartAfter
<1>6. /\ UNCHANGED <<restOfEngine, results>> /\ os' = Changed(e, r.worker)
      /\ os' \in Settings
  BY <1>r, <1>e, ChangedType DEF Apply
<1>7. os \in Settings /\ Setting
  BY <1>e DEF IInv, TypeOK
<1>s. ASSUME NEW s \in EngineRecords, Becomes(e, s), Quiet(r, s), EngineOK(w, s, c),
             Lives(s) => Lives(r), clean => Altering(s) \/ Same(os', prior),
             clean /\ (s.worker = "first" \/ Altering(s)) => Same(s.backup, prior),
             s.stopper # "restoreSecond" \/ ~clean
      PROVE  IInv'
  <2>1. Rest'
    BY <1>r, <1>e, <1>6, <1>s, Quietly DEF restOfEngine, TypeOK
  <2>2. Lock'
    BY <1>r, <1>6, <1>s, LockKept DEF restOfEngine
  <2>3. Setting'
    BY <1>r, <1>4, <1>6, <1>s, SettingBy DEF restOfEngine
  <2> QED BY <2>1, <2>2, <2>3 DEF Rest, IInv
<1>8. clean /\ (r.worker = "first" \/ Altering(r)) => Same(r.backup, prior)
  BY <1>r, <1>7 DEF Setting
<1>9. c => r.stopper = "none" /\ ~r.applied
  BY <1>k, <1>1, SMTT(30) DEF EngineOK, Fits, Fresh, Up, Down, Early, EngineRecords
<1>10. CASE r.worker = "backup"
  <2> DEFINE s == [r EXCEPT !.worker = "first", !.backup = os, !.applied = FALSE]
  <2>a. Becomes(e, s)
    BY <1>r, <1>e, <1>5, <1>10 DEF Apply, Becomes
  <2>b. s \in EngineRecords
    BY Fields, <1>r, <1>7, ZenonT(30)
  <2>c. Quiet(r, s) /\ (Lives(s) => Lives(r))
    BY <1>k, <1>10, SMTT(30) DEF Quiet, Lives, EngineRecords
  <2>d. EngineOK(w, s, c)
    BY <1>k, <1>2, <1>9, <1>10, SMTT(30)
    DEF EngineOK, Fits, Fresh, Up, Down, Early, EngineRecords
  <2>e. s.worker = "first" /\ s.stopper = r.stopper /\ s.applied = FALSE /\ s.backup = os
    BY <1>k DEF EngineRecords
  <2> HIDE DEF s
  <2>f. os' = os
    BY <1>6, <1>10, ChangedBy
  <2>g. clean => Same(os, prior)
    BY <1>r, <1>4, <1>7, <1>9, <1>10 DEF Setting, Altering
  <2>h. Same(os', prior) <=> Same(os, prior)
    BY <2>f
  <2> QED BY <1>s, <1>r, <1>9, <2>a, <2>b, <2>c, <2>d, <2>e, <2>g, <2>h
<1>11. CASE r.worker = "first"
  <2> DEFINE s == [r EXCEPT !.worker = "second", !.applied = FALSE]
  <2>a. Becomes(e, s)
    BY <1>r, <1>e, <1>5, <1>11 DEF Apply, Becomes
  <2>b. s \in EngineRecords
    BY Fields, <1>r, <1>7, ZenonT(30)
  <2>c. Quiet(r, s) /\ (Lives(s) => Lives(r))
    BY <1>k, <1>11, SMTT(30) DEF Quiet, Lives, EngineRecords
  <2>d. EngineOK(w, s, c)
    BY <1>k, <1>2, <1>9, <1>11, SMTT(30)
    DEF EngineOK, Fits, Fresh, Up, Down, Early, EngineRecords
  <2>e. /\ s.worker = "second" /\ s.stopper = r.stopper /\ s.applied = FALSE
        /\ s.backup = r.backup
    BY <1>k DEF EngineRecords
  <2> HIDE DEF s
  <2>f. Altering(s)
    BY <2>e DEF Altering
  <2>g. clean => Same(s.backup, prior)
    BY <1>8, <1>11, <2>e DEF Altering
  <2> QED BY <1>s, <1>r, <1>9, <2>a, <2>b, <2>c, <2>d, <2>e, <2>f, <2>g
<1>12. CASE r.worker = "second"
  <2> DEFINE s == [r EXCEPT !.worker = "report", !.applied = TRUE]
  <2>a. Becomes(e, s)
    BY <1>r, <1>e, <1>5, <1>12 DEF Apply, Becomes
  <2>b. s \in EngineRecords
    BY Fields, <1>r, <1>7, ZenonT(30)
  <2>c. Quiet(r, s) /\ (Lives(s) => Lives(r))
    BY <1>k, <1>12, SMTT(30) DEF Quiet, Lives, EngineRecords
  <2>d. EngineOK(w, s, c)
    BY <1>k, <1>2, <1>9, <1>12, SMTT(30)
    DEF EngineOK, Fits, Fresh, Up, Down, Early, EngineRecords
  <2>e. /\ s.worker = "report" /\ s.stopper = r.stopper /\ s.applied = TRUE
        /\ s.backup = r.backup
    BY <1>k DEF EngineRecords
  <2> HIDE DEF s
  <2>f. Altering(s)
    BY <2>e DEF Altering
  <2>g. clean => Same(s.backup, prior)
    BY <1>8, <1>12, <2>e DEF Altering
  <2> QED BY <1>s, <1>r, <1>9, <2>a, <2>b, <2>c, <2>d, <2>e, <2>f, <2>g
<1> QED BY <1>1, <1>10, <1>11, <1>12

\* An apply that gives up keeps the invariant (system_proxy.py:61-82).
LEMMA ApplyFailsStep ==
  ASSUME IInv, NEW e \in Engines, ApplyFails(e)
  PROVE  IInv'
<1>e. eng \in [Engines -> EngineRecords] /\ TypeOK
  BY DEF IInv, TypeOK
<1>r. PICK r \in EngineRecords, w \in BOOLEAN, c \in BOOLEAN :
        r = eng[e] /\ w = Windows /\ c = clean /\ EngineOK(w, r, c)
  BY <1>e DEF IInv, TypeOK, EnginesOK, Windows
<1>k. EngineOK(w, r, c) /\ r \in EngineRecords
  BY <1>r
<1>1. r.worker \in {"backup", "first", "second"}
  BY <1>r DEF ApplyFails
<1> DEFINE s == [r EXCEPT !.worker = "report"]
<1>a. Becomes(e, s)
  BY <1>r, <1>e DEF ApplyFails, Becomes
<1>b. s \in EngineRecords
  BY Fields, <1>r, ZenonT(30)
<1>c. Quiet(r, s) /\ (Lives(s) => Lives(r))
  BY <1>k, <1>1, SMTT(30) DEF Quiet, Lives, EngineRecords
<1>2. os' \in Settings
  BY <1>e, ChangedType DEF ApplyFails, TypeOK
<1>3. CASE r.worker = "backup"
  <2>1. Still(r, s)
    BY <1>k, <1>3, SMTT(30) DEF Still, EngineRecords
  <2>2. EngineOK(w, s, c)
    BY <1>k, <1>3, SMTT(30) DEF EngineOK, Fits, Fresh, Up, Down, Early, EngineRecords
  <2>3. os' = os /\ clean' = clean /\ UNCHANGED <<restOfEngine, results>>
    BY <1>r, <1>3, <1>e, ChangedBy DEF ApplyFails, restOfEngine, TypeOK
  <2> QED BY <1>r, <1>a, <1>b, <1>c, <2>1, <2>2, <2>3, Small DEF Gentle
<1>4. CASE r.worker # "backup"
  <2>1. EngineOK(w, s, FALSE)
    BY <1>k, <1>1, <1>4, SMTT(30)
    DEF EngineOK, Fits, Fresh, Up, Down, Early, EngineRecords
  <2>2. /\ clean' = FALSE
        /\ UNCHANGED <<platform, prior, gui, engine, starts, diag, results>>
    BY <1>r, <1>4 DEF ApplyFails
  <2> HIDE DEF s
  <2>3. Rest'
    BY <1>r, <1>2, <1>a, <1>b, <1>c, <2>1, <2>2, Quietly
  <2>4. Lock'
    BY <1>r, <1>a, <1>b, <1>c, <2>2, LockKept
  <2> QED BY <2>2, <2>3, <2>4 DEF Rest, IInv, Setting
<1> QED BY <1>3, <1>4

\* A revert that times out keeps the invariant (system_proxy.py:71-82).
LEMMA RevertFailsStep ==
  ASSUME IInv, NEW e \in Engines, RevertFails(e)
  PROVE  IInv'
<1>e. eng \in [Engines -> EngineRecords] /\ TypeOK
  BY DEF IInv, TypeOK
<1>r. PICK r \in EngineRecords, w \in BOOLEAN, c \in BOOLEAN :
        r = eng[e] /\ w = Windows /\ c = clean /\ EngineOK(w, r, c)
  BY <1>e DEF IInv, TypeOK, EnginesOK, Windows
<1>k. EngineOK(w, r, c) /\ r \in EngineRecords
  BY <1>r
<1>1. r.stopper \in {"restoreFirst", "restoreSecond"} /\ r.applied
  BY <1>r DEF RevertFails
<1>2. After("restoreSecond", StopSteps) = "close"
  BY <1>k, <1>r, <1>1, StopAfter DEF EngineOK, Fits
<1> DEFINE s == [r EXCEPT !.stopper = "close", !.applied = FALSE]
<1>a. Becomes(e, s)
  BY <1>r, <1>e, <1>2 DEF RevertFails, Becomes
<1>b. s \in EngineRecords
  BY Fields, <1>r, ZenonT(30)
<1>c. Quiet(r, s) /\ (Lives(s) => Lives(r))
  BY <1>k, <1>1, SMTT(30) DEF Quiet, Lives, EngineRecords
<1>d. EngineOK(w, s, FALSE)
  BY <1>k, <1>1, SMTT(30) DEF EngineOK, Fits, Fresh, Up, Down, Early, EngineRecords
<1>3. os' \in Settings
  BY <1>e, ChangedType DEF RevertFails, TypeOK
<1>4. clean' = FALSE /\ UNCHANGED <<platform, prior, gui, engine, starts, diag, results>>
  BY DEF RevertFails
<1> HIDE DEF s
<1>5. Rest'
  BY <1>r, <1>3, <1>4, <1>a, <1>b, <1>c, <1>d, Quietly
<1>6. Lock'
  BY <1>r, <1>a, <1>b, <1>c, <1>4, LockKept
<1> QED BY <1>4, <1>5, <1>6 DEF Rest, IInv, Setting

\* Every command of revert keeps the invariant, and the last one brings the
\* user's setting back (system_proxy.py:71-136).
LEMMA RevertStep ==
  ASSUME IInv, NEW e \in Engines, Revert(e)
  PROVE  IInv'
<1>e. eng \in [Engines -> EngineRecords] /\ TypeOK
  BY DEF IInv, TypeOK
<1>r. PICK r \in EngineRecords, w \in BOOLEAN, c \in BOOLEAN :
        r = eng[e] /\ w = Windows /\ c = clean /\ EngineOK(w, r, c)
  BY <1>e DEF IInv, TypeOK, EnginesOK, Windows
<1>k. EngineOK(w, r, c) /\ r \in EngineRecords
  BY <1>r
<1>1. r.stopper \in {"restoreFirst", "restoreSecond"}
  BY <1>r DEF Revert
<1>2. ~w
  BY <1>k, <1>1 DEF EngineOK, Fits
<1>3. /\ After("restoreFirst", StopSteps) = "restoreSecond"
      /\ After("restoreSecond", StopSteps) = "close"
  BY <1>r, <1>2, StopAfter
<1>4. UNCHANGED <<restOfEngine, results>>
  BY DEF Revert
<1>5. os \in Settings /\ Setting /\ prior \in Settings
  BY <1>e DEF IInv, TypeOK
<1>6. CASE ~r.applied
  <2> DEFINE s == [r EXCEPT !.stopper = "close"]
  <2>a. Becomes(e, s)
    BY <1>r, <1>e, <1>3, <1>6 DEF Revert, Becomes
  <2>b. s \in EngineRecords
    BY Fields, <1>r, ZenonT(30)
  <2>c. Gentle(r, s)
    BY <1>k, <1>1, <1>6, SMTT(30) DEF Gentle, Quiet, Still, Lives, EngineRecords
  <2>d. EngineOK(w, s, c)
    BY <1>k, <1>1, <1>2, <1>6, SMTT(30)
    DEF EngineOK, Fits, Fresh, Up, Down, Early, EngineRecords
  <2>e. os' = os
    BY <1>r, <1>6 DEF Revert
  <2> QED BY <1>r, <1>4, <2>a, <2>b, <2>c, <2>d, <2>e, Small
<1>7. CASE r.applied
  <2>1. os' = Changed(e, r.stopper) /\ os' \in Settings
    BY <1>r, <1>e, <1>7, ChangedType DEF Revert
  <2>2. c => r.socket = "listening"
    BY <1>k, <1>1, <1>7, SMTT(30)
    DEF EngineOK, Fits, Fresh, Up, Down, Early, EngineRecords
  <2>3. clean => \A d \in Engines : d # e => ~Altering(eng[d]) /\ eng[d].worker # "first"
    BY <1>r, <1>2, <2>2, Alone
  <2>4. clean => Same(r.backup, prior)
    BY <1>r, <1>5, <1>7 DEF Setting, Altering
  <2>5. r.backup \in Settings
    BY Fields
  <2>s. ASSUME NEW s \in EngineRecords, Becomes(e, s), Quiet(r, s), EngineOK(w, s, c),
               Lives(s) => Lives(r), s.backup = r.backup,
               clean => Altering(s) \/ Same(os', prior),
               clean /\ s.applied /\ platform = "darwin" => os'.first = prior.first
        PROVE  IInv'
    <3>1. Rest'
      BY <1>r, <1>e, <1>4, <2>1, <2>s, Quietly DEF restOfEngine, TypeOK
    <3>2. Lock'
      BY <1>r, <1>4, <2>s, LockKept DEF restOfEngine
    <3>3. Setting'
      BY <1>r, <1>4, <2>3, <2>4, <2>s, SettingBy DEF restOfEngine
    <3> QED BY <3>1, <3>2, <3>3 DEF Rest, IInv
  <2>6. CASE r.stopper = "restoreFirst"
    <3> DEFINE s == [r EXCEPT !.stopper = "restoreSecond", !.applied = TRUE]
    <3>a. Becomes(e, s)
      BY <1>r, <1>e, <1>3, <1>7, <2>6 DEF Revert, Becomes
    <3>b. s \in EngineRecords
      BY Fields, <1>r, ZenonT(30)
    <3>c. Quiet(r, s) /\ (Lives(s) => Lives(r)) /\ s.backup = r.backup /\ s.applied
      BY <1>k, <2>6, SMTT(30) DEF Quiet, Lives, EngineRecords
    <3>d. EngineOK(w, s, c)
      BY <1>k, <1>2, <1>7, <2>6, SMTT(30)
      DEF EngineOK, Fits, Fresh, Up, Down, Early, EngineRecords
    <3>e. clean /\ platform = "darwin" => os'.first = prior.first
      BY <1>r, <1>5, <2>1, <2>4, <2>6, ChangedBy DEF Same, Settings
    <3> HIDE DEF s
    <3> QED BY <2>s, <3>a, <3>b, <3>c, <3>d, <3>e DEF Altering
  <2>7. CASE r.stopper = "restoreSecond"
    <3> DEFINE s == [r EXCEPT !.stopper = "close", !.applied = FALSE]
    <3>a. Becomes(e, s)
      BY <1>r, <1>e, <1>3, <1>7, <2>7 DEF Revert, Becomes
    <3>b. s \in EngineRecords
      BY Fields, <1>r, ZenonT(30)
    <3>c. Quiet(r, s) /\ (Lives(s) => Lives(r)) /\ s.backup = r.backup /\ ~s.applied
      BY <1>k, <2>7, SMTT(30) DEF Quiet, Lives, EngineRecords
    <3>d. EngineOK(w, s, c)
      BY <1>k, <1>2, <1>7, <2>7, SMTT(30)
      DEF EngineOK, Fits, Fresh, Up, Down, Early, EngineRecords
    <3>e. clean => Same(os', prior)
      <4>1. os' = [os EXCEPT !.second = eng[e].backup.second]
        BY <1>r, <2>1, <2>7, ChangedBy
      <4>2. os'.second = r.backup.second /\ os'.first = os.first
        BY <1>r, <1>5, <4>1 DEF Settings
      <4>3. clean /\ platform = "darwin" => os.first = prior.first
        BY <1>r, <1>5, <1>7, <2>7 DEF Setting
      <4> QED BY <2>4, <4>2, <4>3 DEF Same
    <3> HIDE DEF s
    <3> QED BY <2>s, <3>a, <3>b, <3>c, <3>d, <3>e
  <2> QED BY <1>1, <2>6, <2>7
<1> QED BY <1>6, <1>7

\* The report of a worker keeps the invariant (gui.py:443-450).
LEMMA ReportStep ==
  ASSUME IInv, NEW e \in Engines, Report(e)
  PROVE  IInv'
<1>e. eng \in [Engines -> EngineRecords] /\ TypeOK
  BY DEF IInv, TypeOK
<1>r. PICK r \in EngineRecords, w \in BOOLEAN, c \in BOOLEAN :
        r = eng[e] /\ w = Windows /\ c = clean /\ EngineOK(w, r, c)
  BY <1>e DEF IInv, TypeOK, EnginesOK, Windows
<1>k. EngineOK(w, r, c) /\ r \in EngineRecords
  BY <1>r
<1>1. r.worker = "report"
  BY <1>r DEF Report
<1> DEFINE s == [r EXCEPT !.worker = "done"]
<1>a. Becomes(e, s)
  BY <1>r, <1>e DEF Report, Becomes
<1>b. s \in EngineRecords
  BY Fields, <1>r, ZenonT(30)
<1>c. Still(r, s) /\ (Lives(s) => Lives(r))
  BY <1>k, <1>1, SMTT(30) DEF Still, Lives, EngineRecords
<1>d. EngineOK(w, s, c)
  BY <1>k, <1>1, SMTT(30) DEF EngineOK, Fits, Fresh, Up, Down, Early, EngineRecords
<1>2. s.worker = "done" /\ (s.ok <=> r.ok) /\ s.stopper = r.stopper
  BY <1>k DEF EngineRecords
<1>3. UNCHANGED <<restOfEngine, os>>
  BY DEF Report
<1> HIDE DEF s
<1>4. Setting' /\ Lock'
  BY <1>r, <1>3, <1>a, <1>b, <1>c, SettingKept, LockKept DEF restOfEngine
<1>5. Held /\ Threads /\ Reported /\ EnginesOK
  BY DEF IInv
<1>6. e = engine /\ gui \in {"starting", "quitting"} /\ engine # 0 /\ e \in Nat
  BY <1>r, <1>1, <1>5 DEF Threads, Engines
<1>7. /\ eng' \in [Engines -> EngineRecords] /\ eng'[e] = s
      /\ \A d \in Engines : d # e => eng'[d] = eng[d]
  BY <1>e, <1>a, <1>b DEF Becomes
<1>8. PICK x \in {"started", "failed"} :
          /\ results' = Append(results, x) /\ (x = "started" <=> r.ok)
  BY <1>r DEF Report
<1>9. /\ results \in Seq({"started", "failed", "sniff"})
      /\ results' \in Seq({"started", "failed", "sniff"})
  BY <1>e, <1>8 DEF TypeOK
<1>10. TypeOK'
  BY <1>e, <1>3, <1>7, <1>9 DEF TypeOK, restOfEngine
<1>11. EnginesOK'
  BY <1>r, <1>3, <1>5, <1>7, <1>d, WindowsKept DEF EnginesOK, restOfEngine
<1>12. Held'
  BY <1>2, <1>3, <1>5, <1>6, <1>7, <1>r DEF Held, restOfEngine
<1>13. Threads'
  <2> SUFFICES ASSUME NEW d \in Engines PROVE
      /\ eng'[d].worker \notin {"none", "done"} =>
            d = engine /\ gui \in {"starting", "quitting"} /\ (clean => gui = "starting")
      /\ d > starts => eng'[d].worker = "none"
      /\ d # engine /\ eng'[d].worker = "done" /\ eng'[d].stopper = "none" => ~eng'[d].ok
      /\ clean /\ gui = "quitting" /\ d # engine => eng'[d].stopper \in {"none", "done"}
    BY <1>3 DEF Threads, restOfEngine
  <2>1. e > starts => eng[e].worker = "none"
    BY <1>5 DEF Threads
  <2>2. CASE d = e
    BY <1>1, <1>2, <1>5, <1>6, <1>7, <1>r, <2>1, <2>2 DEF Threads
  <2>3. CASE d # e
    BY <1>5, <1>7, <2>3 DEF Threads
  <2> QED BY <2>2, <2>3
<1>14. Reported'
  <2>1. \A i \in 1 .. Len(results) : results[i] = "sniff"
    BY <1>r, <1>1, <1>5, <1>6 DEF Reported
  <2>2. Len(results') = Len(results) + 1 /\ results'[Len(results) + 1] = x
        /\ \A i \in 1 .. Len(results) : results'[i] = "sniff"
    BY <1>8, <1>9, <2>1
  <2>3. \A i \in 1 .. Len(results') : results'[i] # "sniff" => i = Len(results) + 1
    BY <1>9, <2>2
  <2> QED BY <1>2, <1>3, <1>6, <1>7, <1>8, <2>2, <2>3 DEF Reported, restOfEngine
<1>15. prior \in UserSettings(platform) /\ UNCHANGED <<prior, platform>>
  BY <1>3 DEF IInv, restOfEngine
<1> QED BY <1>4, <1>10, <1>11, <1>12, <1>13, <1>14, <1>15 DEF IInv

-----------------------------------------------------------------------------
(* The diagnostic *)

\* The fields of the diagnostic, one at a time.
LEMMA DiagFields ==
  ASSUME NEW d \in DiagRecords
  PROVE  /\ \A x \in BOOLEAN : [d EXCEPT !.button = x] \in DiagRecords
         /\ \A x \in {"none", "open", "recv", "report"} :
                  [d EXCEPT !.worker = x] \in DiagRecords
         /\ \A x \in BOOLEAN : [d EXCEPT !.armed = x] \in DiagRecords
         /\ \A x \in BOOLEAN : [d EXCEPT !.handle = x] \in DiagRecords
  BY DEF DiagRecords

\* A report of the diagnostic is not taken for one of a start.
LEMMA ReportedKept ==
  ASSUME IInv, UNCHANGED <<gui, engine, eng>>,
         \/ results' = results
         \/ results' = Append(results, "sniff")
         \/ results # <<>> /\ results' = Tail(results)
  PROVE  Reported' /\ results' \in Seq({"started", "failed", "sniff"})
<1>1. results \in Seq({"started", "failed", "sniff"}) /\ Reported
  BY DEF IInv, TypeOK
<1>2. CASE results' = results
  BY <1>1, <1>2 DEF Reported
<1>3. CASE results' = Append(results, "sniff")
  <2>1. /\ results' \in Seq({"started", "failed", "sniff"})
        /\ Len(results') = Len(results) + 1
        /\ results'[Len(results) + 1] = "sniff"
        /\ \A i \in 1 .. Len(results) : results'[i] = results[i]
    BY <1>1, <1>3
  <2>2. \A i \in 1 .. Len(results') : results'[i] # "sniff" =>
           i \in 1 .. Len(results) /\ results'[i] = results[i]
    BY <1>1, <2>1
  <2> QED BY <1>1, <2>1, <2>2 DEF Reported
<1>4. CASE results # <<>> /\ results' = Tail(results)
  <2>1. /\ results' \in Seq({"started", "failed", "sniff"})
        /\ Len(results') = Len(results) - 1
        /\ Len(results) \in Nat
        /\ \A i \in 1 .. Len(results') :
                 results'[i] = results[i + 1] /\ i + 1 \in 1 .. Len(results)
    BY <1>1, <1>4
  <2>2. \A i, j \in 1 .. Len(results') : results'[i] # "sniff"
        /\ results'[j] # "sniff" => i = j
    <3> SUFFICES ASSUME NEW i \in 1 .. Len(results'), NEW j \in 1 .. Len(results'),
                        results'[i] # "sniff", results'[j] # "sniff"
                 PROVE  i = j
      OBVIOUS
    <3>1. i + 1 = j + 1
      BY <1>1, <2>1 DEF Reported
    <3> QED BY <2>1, <3>1
  <2>3. \A i \in 1 .. Len(results') : results'[i] # "sniff" =>
          /\ gui \in {"starting", "quitting"} /\ engine # 0 /\ eng[engine].worker = "done"
          /\ results'[i] = "started" <=> eng[engine].ok
    BY <1>1, <2>1 DEF Reported
  <2> QED BY <2>1, <2>2, <2>3 DEF Reported
<1> QED BY <1>2, <1>3, <1>4

\* The port diagnostic keeps the invariant (gui.py:389-407, divert_engine.py:103-149).
LEMMA DiagStep ==
  ASSUME IInv, FindGamePort \/ Diagnose \/ FinishSniff
  PROVE  IInv'
<1>1. TypeOK /\ diag \in DiagRecords
  BY DEF IInv, TypeOK
<1>2. diag' \in DiagRecords
  <2>1. PICK d \in DiagRecords : d = diag
    BY <1>1
  <2>2. CASE FindGamePort
    BY <2>1, <2>2, DiagFields, ZenonT(30) DEF FindGamePort, Diagnostic
  <2>3. CASE SniffOpens
    BY <2>1, <2>3, DiagFields, ZenonT(30) DEF SniffOpens, Diagnostic
  <2>4. CASE SniffTimer
    BY <2>1, <2>4, DiagFields, ZenonT(30) DEF SniffTimer, Diagnostic
  <2>5. CASE SniffEnds
    BY <2>1, <2>5, DiagFields, ZenonT(30) DEF SniffEnds, Diagnostic
  <2>6. CASE SniffReports
    BY <2>1, <2>6, DiagFields, ZenonT(30) DEF SniffReports, Diagnostic
  <2>7. CASE FinishSniff
    BY <2>1, <2>7, DiagFields, ZenonT(30) DEF FinishSniff, Diagnostic
  <2> QED BY <2>2, <2>3, <2>4, <2>5, <2>6, <2>7 DEF Diagnose
<1>3. UNCHANGED <<platform, prior, os, gui, engine, starts, eng, clean>>
  BY DEF FindGamePort, Diagnose, SniffOpens, SniffTimer, SniffEnds, SniffReports,
     FinishSniff,
         Diagnostic
<1>4. \/ results' = results
      \/ results' = Append(results, "sniff")
      \/ results # <<>> /\ results' = Tail(results)
  BY DEF FindGamePort, Diagnose, SniffOpens, SniffTimer, SniffEnds, SniffReports,
     FinishSniff
<1>5. Reported' /\ results' \in Seq({"started", "failed", "sniff"})
  BY <1>3, <1>4, ReportedKept
<1>6. TypeOK'
  BY <1>1, <1>2, <1>3, <1>5 DEF TypeOK
<1>7. EnginesOK' /\ Held' /\ Threads'
  BY <1>3, WindowsKept DEF IInv, EnginesOK, Held, Threads
<1>8. Lock' /\ Setting'
  BY <1>3, WindowsKept DEF IInv, Lock, Alive, Setting, Altering, Same
<1> QED BY <1>3, <1>5, <1>6, <1>7, <1>8 DEF IInv

-----------------------------------------------------------------------------
(* The main thread *)

\* Where start and stop begin.
LEMMA StepsType == /\ StartSteps[1] = IF Windows THEN "probe" ELSE "bind"
                   /\ StopSteps[1] = IF Windows THEN "release" ELSE "restoreFirst"
  BY StartAfter, StopAfter

\* START keeps the invariant: the new engine is a fresh one (gui.py:409-438).
LEMMA ClickStartStep ==
  ASSUME IInv, ClickStart
  PROVE  IInv'
<1> DEFINE e == starts + 1
<1>0. /\ e \in Engines /\ e # 0 /\ engine = 0 /\ starts \in Nat /\ starts' = e
      /\ engine' = e /\ e > starts
  BY StartsAssumption DEF IInv, TypeOK, ClickStart, Engines, Held
<1> HIDE DEF e
<1>e. eng \in [Engines -> EngineRecords] /\ TypeOK
  BY DEF IInv, TypeOK
<1>r. PICK r \in EngineRecords, w \in BOOLEAN, c \in BOOLEAN :
        r = eng[e] /\ w = Windows /\ c = clean /\ EngineOK(w, r, c)
  BY <1>e, <1>0 DEF IInv, TypeOK, EnginesOK, Windows
<1>k. EngineOK(w, r, c) /\ r \in EngineRecords
  BY <1>r
<1>1. r.worker = "none" /\ r.stopper = "none"
  BY <1>r, <1>0, <1>k DEF IInv, Threads, EngineOK, Fresh
<1>2. PICK n \in {"probe", "bind"} :
          /\ n = StartSteps[1] /\ (w => n = "probe") /\ (~w => n = "bind")
  BY <1>r, StepsType
<1> DEFINE s == [r EXCEPT !.worker = n]
<1>a. Becomes(e, s)
  BY <1>r, <1>e, <1>0, <1>2 DEF ClickStart, Becomes
<1>b. s \in EngineRecords
  BY Fields, <1>r, ZenonT(30)
<1>c. Still(r, s) /\ (Lives(s) => Lives(r))
  BY <1>k, <1>1, <1>2, SMTT(30) DEF Still, Lives, EngineRecords
<1>d. EngineOK(w, s, c)
  BY <1>k, <1>1, <1>2, SMTT(30) DEF EngineOK, Fits, Fresh, Up, Down, Early, EngineRecords
<1>3. s.worker = n /\ s.stopper = "none"
  BY <1>k, <1>1 DEF EngineRecords
<1>4. /\ gui = "off" /\ gui' = "starting"
      /\ UNCHANGED <<platform, prior, os, diag, results, clean>>
  BY DEF ClickStart
<1> HIDE DEF s
<1>5. Setting' /\ Lock'
  BY <1>r, <1>0, <1>4, <1>a, <1>b, <1>c, SettingKept, LockKept
<1>6. Held /\ Threads /\ Reported /\ EnginesOK
  BY DEF IInv
<1>7. /\ eng' \in [Engines -> EngineRecords] /\ eng'[e] = s
      /\ \A d \in Engines : d # e => eng'[d] = eng[d]
  BY <1>e, <1>0, <1>a, <1>b DEF Becomes
<1>8. TypeOK'
  BY <1>e, <1>0, <1>4, <1>7 DEF TypeOK, Engines
<1>9. EnginesOK'
  BY <1>r, <1>0, <1>4, <1>6, <1>7, <1>d, WindowsKept DEF EnginesOK
<1>10. Held'
  BY <1>0, <1>2, <1>3, <1>4, <1>7 DEF Held
<1>11. Threads'
  <2> SUFFICES ASSUME NEW d \in Engines PROVE
      /\ eng'[d].worker \notin {"none", "done"} => d = e
      /\ d > e => eng'[d].worker = "none"
      /\ d # e /\ eng'[d].worker = "done" /\ eng'[d].stopper = "none" => ~eng'[d].ok
    BY <1>0, <1>4 DEF Threads
  <2>1. d # 0 /\ d \in Nat
    BY DEF Engines
  <2> QED BY <1>0, <1>4, <1>6, <1>7, <2>1 DEF Threads
<1>12. Reported'
  BY <1>4, <1>6 DEF Reported
<1>13. prior \in UserSettings(platform) /\ UNCHANGED <<prior, platform>>
  BY <1>4 DEF IInv
<1> QED BY <1>5, <1>8, <1>9, <1>10, <1>11, <1>12, <1>13 DEF IInv

\* The result of a start keeps the invariant: the window shows the engine
\* exactly if it runs (gui.py:452-463).
LEMMA FinishStartStep ==
  ASSUME IInv, FinishStart
  PROVE  IInv'
<1>1. /\ TypeOK /\ Held /\ Threads /\ Reported /\ EnginesOK /\ Lock /\ Setting
      /\ prior \in UserSettings(platform)
  BY DEF IInv
<1>2. /\ gui = "starting" /\ results # <<>> /\ Head(results) # "sniff"
      /\ results' = Tail(results)
      /\ UNCHANGED <<platform, prior, os, starts, eng, diag, clean>>
  BY DEF FinishStart
<1>3. results \in Seq({"started", "failed", "sniff"})
  BY <1>1 DEF TypeOK
<1>4. 1 \in 1 .. Len(results) /\ Head(results) = results[1]
  BY <1>2, <1>3
<1>5. /\ engine # 0 /\ eng[engine].worker = "done"
      /\ (Head(results) = "started" <=> eng[engine].ok)
  BY <1>1, <1>2, <1>4 DEF Reported
<1>6. results' \in Seq({"started", "failed", "sniff"})
      /\ \A i \in 1 .. Len(results') : results'[i] = "sniff"
  <2>1. results' \in Seq({"started", "failed", "sniff"}) /\ Len(results) \in Nat
        /\ \A i \in 1 .. Len(results') :
              /\ i \in Nat /\ i # 0 /\ results'[i] = results[i + 1]
              /\ i + 1 \in 1 .. Len(results)
    BY <1>2, <1>3
  <2>2. \A i \in 1 .. Len(results') : results[i + 1] # "sniff" => i + 1 = 1
    BY <1>1, <1>2, <1>4, <2>1 DEF Reported
  <2> QED BY <2>1, <2>2
<1>7. Reported'
  BY <1>6 DEF Reported
<1>8. EnginesOK' /\ Lock' /\ Setting'
  BY <1>1, <1>2, WindowsKept DEF EnginesOK, Lock, Alive, Setting, Altering, Same
<1>9. eng[engine].stopper = "none"
      /\ \A d \in Engines : eng[d].worker \in {"none", "done"}
  BY <1>1, <1>2, <1>5 DEF Held, Threads
<1>10. CASE Head(results) = "started"
  <2>1. gui' = "on" /\ engine' = engine /\ eng[engine].ok
    BY <1>5, <1>10 DEF FinishStart
  <2>2. Held' /\ Threads'
    BY <1>1, <1>2, <1>5, <1>9, <2>1 DEF Held, Threads
  <2>3. TypeOK'
    BY <1>1, <1>2, <1>6, <2>1 DEF TypeOK
  <2> QED BY <1>1, <1>2, <1>7, <1>8, <2>2, <2>3 DEF IInv
<1>11. CASE Head(results) # "started"
  <2>1. gui' = "off" /\ engine' = 0 /\ ~eng[engine].ok
    BY <1>5, <1>11 DEF FinishStart
  <2>2. Held'
    BY <2>1 DEF Held
  <2>3. Threads'
    BY <1>1, <1>2, <1>5, <1>9, <2>1 DEF Threads
  <2>4. TypeOK'
    BY <1>1, <1>2, <1>6, <2>1, StartsAssumption DEF TypeOK
  <2> QED BY <1>1, <1>2, <1>7, <1>8, <2>2, <2>3, <2>4 DEF IInv
<1> QED BY <1>10, <1>11

\* What ClickStop and Quit have in common: the engine that the GUI holds gets a stopper.

\* What becomes of the engine the window holds when it is told to stop.
LEMMA Stopping ==
  ASSUME IInv, NEW e \in Engines, e = engine, gui \in {"starting", "on"},
         eng' = [eng EXCEPT ![e].stopper = StopSteps[1]],
         UNCHANGED <<platform, prior, os, starts, diag, results>>,
         clean' \in BOOLEAN, clean' => clean /\ eng[e].worker = "done"
  PROVE  /\ EnginesOK' /\ Lock' /\ Setting' /\ eng' \in [Engines -> EngineRecords]
         /\ \A d \in Engines :
               /\ d # e => eng'[d] = eng[d]
               /\ eng'[d].worker = eng[d].worker /\ eng'[d].ok = eng[d].ok
         /\ eng'[e].stopper # "none" /\ eng[e].worker # "none"
<1>e. eng \in [Engines -> EngineRecords] /\ TypeOK
  BY DEF IInv, TypeOK
<1>r. PICK r \in EngineRecords, w \in BOOLEAN, c \in BOOLEAN :
        r = eng[e] /\ w = Windows /\ c = clean /\ EngineOK(w, r, c)
  BY <1>e DEF IInv, TypeOK, EnginesOK, Windows
<1>k. EngineOK(w, r, c) /\ r \in EngineRecords
  BY <1>r
<1>1. r.worker # "none" /\ r.stopper = "none"
  BY <1>r DEF IInv, Held, Engines
<1>2. PICK n \in {"release", "restoreFirst"} :
        n = StopSteps[1] /\ (w => n = "release") /\ (~w => n = "restoreFirst")
  BY <1>r, StepsType
<1> DEFINE s == [r EXCEPT !.stopper = n]
<1>a. Becomes(e, s)
  BY <1>r, <1>e, <1>2 DEF Becomes
<1>b. s \in EngineRecords
  BY Fields, <1>r, ZenonT(30)
<1>c. Still(r, s) /\ (Lives(s) => Lives(r))
  BY <1>k, <1>1, <1>2, SMTT(30) DEF Still, Lives, EngineRecords
<1>d. PICK x \in BOOLEAN : x = clean' /\ (x => c /\ r.worker = "done")
  BY <1>r
<1>f. EngineOK(w, s, x)
  BY <1>k, <1>1, <1>2, <1>d, SMTT(30)
  DEF EngineOK, Fits, Fresh, Up, Down, Early, EngineRecords
<1>3. s.stopper = n /\ s.worker = r.worker /\ s.ok = r.ok
  BY <1>k DEF EngineRecords
<1> HIDE DEF s
<1>4. Setting' /\ Lock'
  BY <1>r, <1>a, <1>b, <1>c, SettingKept, LockKept
<1>5. /\ eng' \in [Engines -> EngineRecords] /\ eng'[e] = s
      /\ \A d \in Engines : d # e => eng'[d] = eng[d]
  BY <1>e, <1>a, <1>b DEF Becomes
<1>6. EnginesOK'
  <2> SUFFICES ASSUME NEW d \in Engines PROVE EngineOK(Windows', eng'[d], clean')
    BY DEF EnginesOK
  <2>1. EngineOK(Windows, eng[d], clean')
    <3>1. EngineOK(Windows, eng[d], clean) /\ Windows \in BOOLEAN /\ clean \in BOOLEAN
      BY <1>e DEF IInv, EnginesOK, TypeOK, Windows
    <3> QED BY <1>e, <3>1, Weaker
  <2> QED BY <1>r, <1>5, <1>d, <1>f, <2>1, WindowsKept
<1> QED BY <1>r, <1>1, <1>2, <1>3, <1>4, <1>5, <1>6

\* STOP keeps the invariant (gui.py:465-474).
LEMMA ClickStopStep ==
  ASSUME IInv, ClickStop
  PROVE  IInv'
<1>1. /\ TypeOK /\ Held /\ Threads /\ Reported /\ prior \in UserSettings(platform)
  BY DEF IInv
<1>2. /\ gui = "on" /\ gui' = "off" /\ engine' = 0
      /\ UNCHANGED <<platform, prior, os, starts, diag, results, clean>>
  BY DEF ClickStop
<1>3. engine \in Engines /\ eng[engine].worker = "done"
  BY <1>1, <1>2, StartsAssumption DEF Held, TypeOK, Engines
<1>4. /\ EnginesOK' /\ Lock' /\ Setting' /\ eng' \in [Engines -> EngineRecords]
      /\ \A d \in Engines :
            /\ d # engine => eng'[d] = eng[d]
            /\ eng'[d].worker = eng[d].worker /\ eng'[d].ok = eng[d].ok
      /\ eng'[engine].stopper # "none"
  <2>1. clean' \in BOOLEAN /\ (clean' => clean /\ eng[engine].worker = "done")
    BY <1>1, <1>2, <1>3 DEF TypeOK
  <2>2. eng' = [eng EXCEPT ![engine].stopper = StopSteps[1]]
    BY DEF ClickStop
  <2>3. gui \in {"starting", "on"}
    BY <1>2
  <2> QED BY <1>2, <1>3, <2>1, <2>2, <2>3, Stopping
<1>5. TypeOK'
  BY <1>1, <1>2, <1>4, StartsAssumption DEF TypeOK
<1>6. Held'
  BY <1>2 DEF Held
<1>7. Threads'
  BY <1>1, <1>2, <1>3, <1>4 DEF Threads
<1>8. Reported'
  BY <1>1, <1>2 DEF Reported
<1> QED BY <1>1, <1>2, <1>4, <1>5, <1>6, <1>7, <1>8 DEF IInv

\* Quitting keeps the invariant (gui.py:476-521).
LEMMA QuitStep ==
  ASSUME IInv, Quit
  PROVE  IInv'
<1>1. /\ TypeOK /\ Held /\ Threads /\ Reported /\ prior \in UserSettings(platform)
  BY DEF IInv
<1>2. /\ gui \in {"off", "starting", "on"} /\ gui' = "quitting"
      /\ UNCHANGED <<platform, prior, os, engine, starts, diag, results>>
      /\ clean' \in BOOLEAN /\ (clean' => clean /\ Settled)
  BY <1>1 DEF Quit, Window, TypeOK
<1>3. /\ EnginesOK' /\ Lock' /\ Setting' /\ eng' \in [Engines -> EngineRecords]
      /\ \A d \in Engines :
            /\ d # engine => eng'[d] = eng[d]
            /\ eng'[d].worker = eng[d].worker /\ eng'[d].ok = eng[d].ok
            /\ eng[d].stopper # "none" => eng'[d].stopper # "none"
  <2>1. CASE engine = 0
    <3>1. eng' = eng
      BY <2>1 DEF Quit
    <3>2. EnginesOK'
      <4> SUFFICES ASSUME NEW d \in Engines PROVE EngineOK(Windows', eng'[d], clean')
        BY DEF EnginesOK
      <4>1. EngineOK(Windows, eng[d], clean) /\ Windows \in BOOLEAN /\ clean \in BOOLEAN
            /\ eng[d] \in EngineRecords
        BY <1>1 DEF IInv, EnginesOK, TypeOK, Windows
      <4>2. EngineOK(Windows, eng[d], clean')
        BY <1>2, <4>1, Weaker
      <4> QED BY <1>2, <3>1, <4>2, WindowsKept
    <3>3. Lock' /\ Setting'
      BY <1>2, <3>1, WindowsKept DEF IInv, Lock, Alive, Setting, Altering, Same
    <3> QED BY <1>1, <3>1, <3>2, <3>3 DEF TypeOK
  <2>2. CASE engine # 0
    <3>1. engine \in Engines /\ gui \in {"starting", "on"} /\ eng[engine].stopper = "none"
      BY <1>1, <1>2, <2>2 DEF TypeOK, Engines, Held
    <3>2. clean' => clean /\ eng[engine].worker = "done"
      BY <1>1, <1>2, <2>2, <3>1 DEF Settled, Held
    <3>3. eng' = [eng EXCEPT ![engine].stopper = StopSteps[1]]
      BY <2>2 DEF Quit
    <3> QED BY <1>2, <3>1, <3>2, <3>3, Stopping
  <2> QED BY <2>1, <2>2
<1>4. TypeOK'
  BY <1>1, <1>2, <1>3 DEF TypeOK
<1>5. Held'
  <2>1. engine # 0 => engine \in Engines
    BY <1>1 DEF TypeOK, Engines
  <2> QED BY <1>1, <1>2, <1>3, <2>1 DEF Held
<1>6. Threads'
  <2> SUFFICES ASSUME NEW d \in Engines PROVE
      /\ eng'[d].worker \notin {"none", "done"} => d = engine /\ ~clean'
      /\ d > starts => eng'[d].worker = "none"
      /\ d # engine /\ eng'[d].worker = "done" /\ eng'[d].stopper = "none" => ~eng'[d].ok
      /\ clean' /\ d # engine => eng'[d].stopper \in {"none", "done"}
    BY <1>2 DEF Threads
  <2>1. clean' => /\ eng[d].worker \in {"none", "done"}
                  /\ eng[d].stopper \in {"none", "done"}
    BY <1>2 DEF Settled
  <2> QED BY <1>1, <1>2, <1>3, <2>1 DEF Threads
<1>7. Reported'
  <2>1. engine # 0 => engine \in Engines
    BY <1>1 DEF TypeOK, Engines
  <2> QED BY <1>1, <1>2, <1>3, <2>1 DEF Reported
<1> QED BY <1>1, <1>2, <1>3, <1>4, <1>5, <1>6, <1>7 DEF IInv

\* Where a process begins, or has ended.

\* Without threads only the setting matters.
LEMMA Reset ==
  ASSUME gui' \in {"off", "gone"}, engine' = 0,
         eng' = [e \in Engines |-> NoEngine], diag' = NoDiag, results' = <<>>,
         platform' \in Platforms, platform' = platform,
         prior' \in UserSettings(platform'), prior' \in Settings, os' \in Settings,
         starts' \in 0 .. MaxStarts, clean' \in BOOLEAN, clean' => Same(os', prior')
  PROVE  IInv'
<1>1. NoEngine \in EngineRecords /\ NoDiag \in DiagRecords
  BY DEF NoEngine, EngineRecords, Settings, Values, NoDiag, DiagRecords
<1>2. \A w, c \in BOOLEAN : EngineOK(w, NoEngine, c)
  BY DEF NoEngine, EngineOK, Fits, Fresh, Up, Down, Early
<1>3. Windows' \in BOOLEAN
  BY DEF Windows
<1>4. /\ NoEngine.worker = "none" /\ NoEngine.applied = FALSE /\ NoEngine.socket = "none"
      /\ NoEngine.stopper = "none"
  BY DEF NoEngine
<1>5. \A e \in Engines : eng'[e] = NoEngine
  OBVIOUS
<1>6. TypeOK'
  BY <1>1, StartsAssumption DEF TypeOK
<1>7. EnginesOK'
  BY <1>2, <1>3, <1>5 DEF EnginesOK
<1>8. Held' /\ Threads' /\ Reported'
  BY <1>4, <1>5 DEF Held, Threads, Reported
<1>9. Lock'
  BY <1>4, <1>5 DEF Lock, Alive
<1>10. Setting'
  <2>1. clean' => Same(os, prior)'
    BY DEF Same
  <2> QED BY <1>4, <1>5, <2>1 DEF Setting, Altering
<1> QED BY <1>6, <1>7, <1>8, <1>9, <1>10 DEF IInv

\* When every engine has been stopped, or never started, the setting is the
\* user's and no socket and no capture is left.
LEMMA Restored ==
  ASSUME IInv, clean,
         \A e \in Engines : eng[e].worker \in {"none", "done"}
         /\ eng[e].stopper \in {"none", "done"},
         \A e \in Engines : e = engine => eng[e].stopper # "none"
  PROVE  /\ Same(os, prior)
         /\ \A e \in Engines : eng[e].socket # "listening" /\ eng[e].capture # "open"
<1>1. ASSUME NEW e \in Engines
      PROVE  ~Altering(eng[e]) /\ eng[e].socket # "listening" /\ eng[e].capture # "open"
  <2>1. EngineOK(Windows, eng[e], TRUE) /\ eng[e] \in EngineRecords
    BY DEF IInv, TypeOK, EnginesOK
  <2>2. e # engine /\ eng[e].worker = "done" /\ eng[e].stopper = "none" => ~eng[e].ok
    BY DEF IInv, Threads
  <2> QED BY <2>1, <2>2
          DEF EngineOK, Fits, Fresh, Up, Down, Early, EngineRecords, Altering
<1> QED BY <1>1 DEF IInv, Setting

\* The end of the process keeps the invariant, also a sudden one
\* (gui.py:523-529).
LEMMA EndStep ==
  ASSUME IInv, Exit \/ Crash
  PROVE  IInv'
<1>1. /\ TypeOK /\ prior \in UserSettings(platform) /\ Threads
  BY DEF IInv
<1>2. ProcessEnds /\ clean' \in BOOLEAN
  BY <1>1 DEF Exit, Crash, TypeOK
<1>3. ASSUME clean' PROVE Same(os, prior)
  <2>1. clean /\ gui = "quitting" /\ (engine # 0 => eng[engine].stopper = "done")
    BY <1>3 DEF Exit, Crash
  <2>2. \A e \in Engines : eng[e].worker \in {"none", "done"}
        /\ eng[e].stopper \in {"none", "done"}
    BY <1>1, <2>1 DEF Threads, Engines
  <2>3. \A e \in Engines : e = engine => eng[e].stopper # "none"
    BY <2>1 DEF Engines
  <2> QED BY <2>1, <2>2, <2>3, Restored
<1>4. UNCHANGED <<platform, prior, os, starts>>
  BY <1>2 DEF ProcessEnds
<1>5. clean' => Same(os', prior')
  BY <1>3, <1>4 DEF Same
<1> QED BY <1>1, <1>2, <1>4, <1>5, Reset DEF ProcessEnds, TypeOK

\* The next start of the program keeps the invariant.
LEMMA RelaunchStep ==
  ASSUME IInv, Relaunch
  PROVE  IInv'
<1>1. /\ UNCHANGED <<platform, prior, os, engine, starts, eng, diag, results, clean>>
      /\ gui' = "off"
      /\ gui = "gone"
  BY DEF Relaunch
<1>2. TypeOK' /\ EnginesOK' /\ Held' /\ Threads' /\ Reported'
  BY <1>1, WindowsKept DEF IInv, TypeOK, EnginesOK, Held, Threads, Reported
<1>3. Lock' /\ Setting'
  BY <1>1, WindowsKept DEF IInv, Lock, Alive, Setting, Altering, Same
<1> QED BY <1>1, <1>2, <1>3 DEF IInv

\* A step of something else keeps the invariant.
LEMMA StutterStep ==
  ASSUME IInv, UNCHANGED vars
  PROVE  IInv'
<1>1. TypeOK' /\ EnginesOK' /\ Held' /\ Threads' /\ Reported'
  BY WindowsKept DEF vars, IInv, TypeOK, EnginesOK, Held, Threads, Reported
<1>2. Lock' /\ Setting'
  BY WindowsKept DEF vars, IInv, Lock, Alive, Setting, Altering, Same
<1> QED BY <1>1, <1>2 DEF IInv, vars

-----------------------------------------------------------------------------
(* The theorems *)

\* The invariant holds at first.
LEMMA Initially == Init => IInv
<1> SUFFICES ASSUME Init PROVE IInv
  OBVIOUS
<1>1. NoEngine \in EngineRecords /\ NoDiag \in DiagRecords
  BY DEF NoEngine, EngineRecords, Settings, Values, NoDiag, DiagRecords
<1>2. \A w, c \in BOOLEAN : EngineOK(w, NoEngine, c)
  BY DEF NoEngine, EngineOK, Fits, Fresh, Up, Down, Early
<1>3. /\ NoEngine.worker = "none" /\ NoEngine.applied = FALSE /\ NoEngine.socket = "none"
  BY DEF NoEngine
<1>4. prior \in Settings
  BY DEF Init, UserSettings, Settings, Values
<1>5. TypeOK
  BY <1>1, <1>4, StartsAssumption DEF Init, TypeOK
<1>6. \A e \in Engines : eng[e] = NoEngine
  BY DEF Init
<1>7. EnginesOK
  BY <1>2, <1>6 DEF EnginesOK, Init, Windows
<1>8. Held /\ Threads /\ Reported
  BY <1>3, <1>6 DEF Init, Held, Threads, Reported
<1>9. Lock
  BY <1>3, <1>6 DEF Lock, Alive
<1>10. Setting
  BY <1>3, <1>6 DEF Setting, Altering, Init, Same
<1> QED BY <1>5, <1>7, <1>8, <1>9, <1>10 DEF IInv, Init

\* The inductive invariant holds in every reachable state.
THEOREM Inductive == Spec => []IInv
<1>1. IInv /\ [Next]_vars => IInv'
  <2> SUFFICES ASSUME IInv, [Next]_vars PROVE IInv'
    OBVIOUS
  <2>1. ASSUME NEW e \in Engines, Worker(e) PROVE IInv'
    BY <2>1, SmallSteps, BindStep, ApplyStep, ApplyFailsStep, ReportStep DEF Worker
  <2>2. ASSUME NEW e \in Engines, Stopper(e) PROVE IInv'
    BY <2>2, SmallSteps, RevertStep, RevertFailsStep DEF Stopper
  <2>3. ASSUME NEW e \in Engines, AcceptLoop(e) \/ Accepted(e) PROVE IInv'
    BY <2>3, SmallSteps
  <2> QED BY <2>1, <2>2, <2>3, DiagStep, ClickStartStep, FinishStartStep, ClickStopStep,
             QuitStep, EndStep, RelaunchStep, StutterStep DEF Next
<1> QED BY <1>1, Initially, PTL DEF Spec

\* The window tells the truth: it shows an active bypass only while the engine
\* it holds serves, and captures, and it holds none while it offers START
\* (gui.py:242-293).
THEOREM Truth == Spec => []AppInv
<1>1. IInv => AppInv
  <2> SUFFICES ASSUME IInv PROVE AppInv
    OBVIOUS
  <2>1. gui = "off" => engine = 0
    BY DEF IInv, Held
  <2>2. ASSUME gui = "on"
        PROVE  /\ engine # 0 /\ eng[engine].socket = "listening"
               /\ (Windows => eng[engine].capture = "open")
    <3>1. /\ engine \in Engines /\ eng[engine].stopper = "none"
          /\ eng[engine].worker = "done" /\ eng[engine].ok
      BY <2>2 DEF IInv, Held, TypeOK, Engines
    <3>2. Up(Windows, eng[engine], clean)
      BY <3>1 DEF IInv, EnginesOK, EngineOK
    <3> QED BY <3>1, <3>2 DEF Up, Early, Engines
  <2> QED BY <2>1, <2>2 DEF AppInv, GuiTruth, IInv
<1> QED BY <1>1, Inductive, PTL

\* The browser is never left pointing at a dead port, although the next START
\* may come while the last engine is still being stopped (comment of
\* engines/portable_proxy.py:93), and an open capture has its own relay behind
\* it (divert_engine.py:535-578), unless something has gone wrong.
THEOREM DeadPort == Spec => []NoDeadPort
<1>1. IInv => NoDeadPort
  <2> SUFFICES ASSUME IInv, clean PROVE
        /\ Restorable /\ PointsAtUs => \E e \in Engines : eng[e].socket = "listening"
        /\ \A e \in Engines : eng[e].capture = "open" =>
              eng[e].socket = "listening" /\ eng[e].running
    BY DEF NoDeadPort
  <2>1. \A e \in Engines : EngineOK(Windows, eng[e], TRUE) /\ eng[e] \in EngineRecords
    BY DEF IInv, EnginesOK, TypeOK
  <2>2. ASSUME NEW e \in Engines, eng[e].capture = "open"
        PROVE  eng[e].socket = "listening" /\ eng[e].running
    BY <2>1, <2>2, SMTT(30) DEF EngineOK, Fits, Fresh, Up, Down, Early, EngineRecords
  <2>3. ASSUME Restorable, PointsAtUs PROVE \E e \in Engines : eng[e].socket = "listening"
    <3>1. CASE \E e \in Engines : Altering(eng[e])
      <4>1. PICK e \in Engines : Altering(eng[e])
        BY <3>1
      <4>2. eng[e].socket = "listening"
        BY <2>1, <4>1, SMTT(30)
        DEF Altering, EngineOK, Fits, Fresh, Up, Down, Early, EngineRecords
      <4> QED BY <4>2
    <3>2. CASE ~\E e \in Engines : Altering(eng[e])
      <4>1. Same(os, prior)
        BY <3>2 DEF IInv, Setting
      <4>2. prior \in UserSettings(platform) /\ prior \in Settings /\ os \in Settings
        BY DEF IInv, TypeOK
      <4>3. CASE platform = "darwin"
        BY <2>3, <4>1, <4>2, <4>3 DEF Same, PointsAtUs, UserSettings
      <4>4. CASE platform = "linux"
        BY <2>3, <4>1, <4>2, <4>4 DEF Same, PointsAtUs, Restorable
      <4> QED BY <2>3, <4>3, <4>4 DEF PointsAtUs
    <3> QED BY <3>1, <3>2
  <2> QED BY <2>2, <2>3
<1> QED BY <1>1, Inductive, PTL

\* What an engine will restore is the user's setting, and it is back when no
\* engine runs (system_proxy.py:84-110); no socket and no capture is left then
\* (divert_engine.py:581), unless something has gone wrong.
THEOREM Kept == Spec => []PriorKept
<1>1. IInv => PriorKept
  <2> SUFFICES ASSUME IInv, clean PROVE
        /\ \A e \in Engines : eng[e].applied => Same(eng[e].backup, prior)
        /\ Settled /\ engine = 0 =>
              /\ Same(os, prior)
              /\ \A e \in Engines : eng[e].socket # "listening" /\ eng[e].capture # "open"
    BY DEF PriorKept
  <2>1. \A e \in Engines : eng[e].applied => Same(eng[e].backup, prior)
    BY DEF IInv, Setting, Altering
  <2>2. ASSUME Settled, engine = 0
        PROVE  /\ Same(os, prior)
               /\ \A e \in Engines :
                        eng[e].socket # "listening" /\ eng[e].capture # "open"
    BY <2>2, Restored DEF Settled, Engines
  <2> QED BY <2>1, <2>2
<1> QED BY <1>1, Inductive, PTL
=============================================================================
