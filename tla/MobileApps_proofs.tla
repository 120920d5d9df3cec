--------------------------- MODULE MobileApps_proofs --------------------------
(***************************************************************************)
(* Proofs about MobileApps, for any number of presses, taps and            *)
(* descriptors: a session that runs can be stopped, and the last press     *)
(* wins.                                                                   *)
(*                                                                         *)
(* The inductive invariant speaks of the two apps one at a time.  For the  *)
(* Android app it tells, for every place of the main thread, which message *)
(* may wait and what the intent of the user and the window have to do with *)
(* it.  For the Apple app it tells which job still corrects the window, or *)
(* still carries out the tap, and what becomes of a load that found no     *)
(* profile when there is one by now.                                       *)
(***************************************************************************)
EXTENDS MobileApps, TLAPS

-----------------------------------------------------------------------------
(* The inductive invariant, for the Android app *)

\* The inboxes of the main thread that matter: the user's last press has found
\* the one that was empty.
Nothing == <<>>
OneStart == <<"start">>
OneStop == <<"stop">>
OneDestroy == <<"destroy">>

\* Every inbox.
Boxes == Seq({"start", "stop", "destroy"})

\* The service has nothing to do but, perhaps, to be destroyed.
Resting(r) == r.main = "idle" /\ r.inbox \in {Nothing, OneDestroy}

\* START is on its way: the intent (LibertyVpnService.kt:31-38), then Connect.
Starting(r) ==
    /\ r.requested
    /\ \/ r.main = "idle" /\ r.inbox = OneStart
       \/ r.main \in {"connect", "publish"} /\ r.inbox = Nothing

\* STOP is on its way: the intent, then stopTunnel.
Stopping(r) ==
    /\ r.requested
    /\ \/ r.main = "idle" /\ r.inbox = OneStop
       \/ r.main \in {"stop", "clear"} /\ r.inbox = Nothing

\* A service that is to be destroyed is no longer the system's.
Dying(r) == r.inbox = OneDestroy => ~r.alive

\* The service has no session while it connects, and otherwise says that it
\* runs when it has one: between the two is only publish
\* (LibertyVpnService.kt:61-68).
Fields(r) ==
    /\ r.main = "connect" => r.session = 0
    /\ r.session # 0 /\ r.main # "publish" => r.isRunning

\* What is left of the last press: it is on its way, or done.
Intent(r, u) ==
    /\ u.last # "none" => r.binder = "idle" /\ Dying(r)
    /\ u.last = "start" =>
          \/ Starting(r) /\ (r.main = "publish" => r.session # 0)
          \/ /\ r.main = "idle" /\ r.inbox = Nothing
             /\ r.session # 0 /\ r.isRunning /\ r.requested
    /\ u.last = "stop" => Stopping(r) \/ (Resting(r) /\ r.session = 0 /\ ~r.isRunning)

\* A window that has been told shows what is so, or what is on its way.
Shown(r, u) == u.shown /\ ~u.stale =>
    /\ r.binder = "idle" /\ Dying(r)
    /\ \/ Resting(r) /\ (u.running <=> r.isRunning)
       \/ Starting(r) /\ u.running
       \/ Stopping(r) /\ ~u.running

\* The invariant of the Android app.
AppOK(r, u) == Fields(r) /\ Intent(r, u) /\ Shown(r, u)

\* What runs can be stopped.  A thread that is about to clear the field has
\* stopped its session, or Connect has come between its two halves
\* (LibertyVpnService.kt:71-80).
Reached == platform = "android" =>
    /\ \A d \in Sessions : Running(d) => AndroidHolds(d)
    /\ \A t \in Threads : svc[t] = "clear" /\ svc.session # 0 /\ Running(svc.session) =>
          svc.session \in svc.raced

-----------------------------------------------------------------------------
(* The inductive invariant, for the Apple app *)

\* A connection that is down is as it was at first, and the provider has no
\* session while the settings are being applied (PacketTunnelProvider.swift:22-59).
\* Only profiles that are saved are started, and another one only while the
\* first goes down.
Linked(v, P) ==
    /\ v.status = "disconnected" => v = NoConnection
    /\ v.status # "disconnected" => v.profile # 0
    /\ v.applying => v.session = 0 /\ v.status \in {"connecting", "disconnecting"}
    /\ v.next # 0 => v.status = "disconnecting" /\ v.next # v.profile
    /\ v.profile # 0 => v.profile \in P
    /\ v.next # 0 => v.next \in P

\* A job of a kind waits.
Has(q, k) == \E j \in Range(q) : j.kind = k

\* The job of a load that has found no profile.
Empty == [kind |-> "loaded", profile |-> 0]

\* A job of a kind waits behind every such load.
After(q, k) ==
    \A i \in 1 .. Len(q) : q[i] = Empty => \E j \in i + 1 .. Len(q) : q[j].kind = k

\* The jobs are about profiles that are saved.
Known(q, P) ==
    \A j \in Range(q) : j.kind \in {"saved", "sync"} \/ (j.kind = "loaded" /\ j # Empty) =>
                            j.profile \in P

\* A load that found no profile is out of date once there is one: the start
\* that has saved it will take the manager back (TunnelManager.swift:40-42,
\* 61-63).  So the manager is a profile that is saved, or will be one, unless
\* a start has failed halfway.
Owned(m, P) == P # {} /\ ~m.halfSaved =>
    /\ After(m.queue, "saved")
    /\ m.manager # 0 => m.manager \in P \/ Has(m.queue, "saved")

\* What is left of the last tap: START is a job, waits for the preferences or
\* is done; of an earlier START nothing is left when STOP is pressed.
Asked(m, v) ==
    /\ m.last = "start" =>
          \/ Has(m.queue, "start") \/ Has(m.queue, "saved") \/ Has(m.queue, "saveFailed")
          \/ Saving(m)
          \/ v.status \in {"connecting", "connected"} \/ v.next # 0
    /\ m.last = "stop" =>
          /\ ~Has(m.queue, "start") /\ ~Has(m.queue, "saved") /\ ~Saving(m)
          /\ v.status \in {"disconnecting", "disconnected"} /\ v.next = 0

\* With one profile, the window shows the status, or an error, unless a job
\* that reads the status waits or the window may be stale; what an outdated
\* load shows is read again (TunnelManager.swift:29-32, 43-45).
Told(m, v, P) ==
    /\ (\A p, q \in P : p = q) =>
          m.stale \/ Has(m.queue, "sync") \/ m.state \in {v.status, "invalid"}
    /\ P # {} /\ v.profile # 0 => After(m.queue, "sync")

\* What runs can be stopped, in the Apple app.
Stoppable == platform = "apple" => \A d \in Sessions : Running(d) => AppleHolds(d)

\* The invariant of the Apple app.
LinkOK(m, v, P) ==
    Linked(v, P) /\ Known(m.queue, P) /\ Owned(m, P) /\ Asked(m, v) /\ Told(m, v, P)

\* The inductive invariant.
IInv ==
    /\ platform \in {"android", "apple"}
    /\ SessionTypeOK /\ AndroidTypeOK /\ AppleTypeOK
    /\ AppOK(svc, ui) /\ Reached
    /\ LinkOK(tm, vpn, prefs) /\ Stoppable

-----------------------------------------------------------------------------
(* Records and inboxes of the Android app *)

\* The fields of the service, one at a time: the record type is not expanded
\* where this is cited.
LEMMA ServiceFields ==
  ASSUME NEW r \in ServiceRecords
  PROVE  /\ r.inbox \in Boxes /\ r.session \in 0 .. MaxSessions
         /\ r.isRunning \in BOOLEAN /\ r.raced \in SUBSET Sessions
         /\ r.requested \in BOOLEAN
         /\ r.main \in {"idle", "connect", "publish", "stop", "clear"}
         /\ r.binder \in {"idle", "stop", "clear"}
         /\ \A x \in Boxes : [r EXCEPT !.inbox = x] \in ServiceRecords
         /\ \A x \in {"idle", "connect", "publish", "stop", "clear"} :
                  [r EXCEPT !.main = x] \in ServiceRecords
         /\ \A x \in {"idle", "stop", "clear"} :
                  [r EXCEPT !.binder = x] \in ServiceRecords
         /\ \A x \in 0 .. MaxSessions : [r EXCEPT !.session = x] \in ServiceRecords
         /\ \A x \in BOOLEAN : [r EXCEPT !.isRunning = x] \in ServiceRecords
         /\ \A x \in BOOLEAN : [r EXCEPT !.requested = x] \in ServiceRecords
         /\ \A x \in BOOLEAN : [r EXCEPT !.alive = x] \in ServiceRecords
         /\ \A x \in SUBSET Sessions : [r EXCEPT !.raced = x] \in ServiceRecords
  BY DEF ServiceRecords, Boxes

\* The fields of the activity, one at a time.
LEMMA ActivityFields ==
  ASSUME NEW u \in ActivityRecords
  PROVE  /\ u.presses \in 0 .. MaxPresses /\ u.running \in BOOLEAN /\ u.stale \in BOOLEAN
         /\ u.shown \in BOOLEAN /\ u.last \in {"none", "start", "stop"}
         /\ \A x \in BOOLEAN : [u EXCEPT !.shown = x] \in ActivityRecords
         /\ \A x \in BOOLEAN : [u EXCEPT !.asked = x] \in ActivityRecords
         /\ \A x \in BOOLEAN : [u EXCEPT !.running = x] \in ActivityRecords
         /\ \A x \in BOOLEAN : [u EXCEPT !.stale = x] \in ActivityRecords
         /\ \A x \in 0 .. MaxPresses : [u EXCEPT !.presses = x] \in ActivityRecords
         /\ \A x \in {"none", "start", "stop"} : [u EXCEPT !.last = x] \in ActivityRecords
  BY DEF ActivityRecords

\* The inboxes that matter differ.
LEMMA Inboxes ==
  /\ Nothing # OneStart /\ Nothing # OneStop /\ Nothing # OneDestroy
  /\ OneStart # OneStop /\ OneStart # OneDestroy /\ OneStop # OneDestroy
  BY DEF Nothing, OneStart, OneStop, OneDestroy

\* What putting a message in or taking it out makes of them.
LEMMA Messages ==
  /\ Append(Nothing, "start") = OneStart /\ Append(Nothing, "stop") = OneStop
  /\ Append(Nothing, "destroy") = OneDestroy
  /\ Head(OneStart) = "start" /\ Head(OneStop) = "stop" /\ Head(OneDestroy) = "destroy"
  /\ Tail(OneStart) = Nothing /\ Tail(OneStop) = Nothing /\ Tail(OneDestroy) = Nothing
  /\ Nothing \in Boxes
  BY DEF Nothing, OneStart, OneStop, OneDestroy, Boxes

\* Inboxes stay inboxes.
LEMMA Queues ==
  ASSUME NEW q \in Boxes
  PROVE  /\ Append(q, "start") \in Boxes /\ Append(q, "stop") \in Boxes
         /\ Append(q, "destroy") \in Boxes /\ (q # Nothing => Tail(q) \in Boxes)
  BY DEF Boxes, Nothing

-----------------------------------------------------------------------------
(* The Android app *)

\* A step of the Android app keeps the invariant of its fields
\* (MainActivity.kt:17-68, LibertyVpnService.kt:31-92).
LEMMA AppStep ==
  ASSUME IInv, AndroidStep
  PROVE  AndroidTypeOK' /\ AppOK(svc, ui)'
<1>r. PICK r \in ServiceRecords, u \in ActivityRecords : r = svc /\ u = ui /\ AppOK(r, u)
  BY DEF IInv, AndroidTypeOK
<1>k. AppOK(r, u) /\ r \in ServiceRecords /\ u \in ActivityRecords
  BY <1>r
<1>t. /\ r.inbox \in Boxes /\ r.session \in 0 .. MaxSessions /\ r.isRunning \in BOOLEAN
      /\ r.raced \in SUBSET Sessions /\ r.requested \in BOOLEAN /\ 0 \in 0 .. MaxSessions
      /\ u.stale \in BOOLEAN /\ u.presses \in 0 .. MaxPresses
      /\ u.last \in {"none", "start", "stop"}
  <2>1. 0 \in 0 .. MaxSessions
    BY SessionsAssumption
  <2> QED BY <1>r, <2>1, ServiceFields, ActivityFields, Zenon
<1>busy. Busy <=> ~(r.inbox = Nothing /\ r.main = "idle" /\ r.binder = "idle")
  BY <1>r DEF Busy, Threads, Nothing
<1>1. CASE PressStop
  <2>1. u.shown /\ r.main = "idle" /\ u.presses + 1 \in 0 .. MaxPresses
    BY <1>r, <1>1, <1>t, PressesAssumption DEF PressStop, MayPress
  <2>2. PICK x \in Boxes :
            /\ x = Append(r.inbox, "stop") /\ (r.inbox = Nothing => x = OneStop)
    BY <1>t, Queues, Messages
  <2>i. (r.inbox = Nothing => x = OneStop)
    BY <2>2
  <2>4. CASE Busy
    <3> DEFINE s == [r EXCEPT !.inbox = x, !.requested = TRUE, !.alive = TRUE]
    <3> DEFINE v == [u EXCEPT !.presses = u.presses + 1, !.last = "none",
                              !.running = FALSE, !.stale = TRUE]
    <3>a. svc' = s
      BY <1>r, <1>1, <2>1, <2>2, <2>4, <1>busy DEF PressStop, Pressed, Sent, MayPress
    <3>b. ui' = v
      BY <1>r, <1>1, <2>1, <2>2, <2>4, <1>busy DEF PressStop, Pressed, Sent, MayPress
    <3>c. s \in ServiceRecords
      BY <1>t, ServiceFields, <1>r, <1>1, <2>1, <2>2, <2>4, <1>busy, ZenonT(30)
    <3>d. v \in ActivityRecords
      BY <1>t, ActivityFields, <1>r, <1>1, <2>1, <2>2, <2>4, <1>busy, ZenonT(30)
    <3>f. /\ s.inbox = x /\ s.main = r.main /\ s.binder = r.binder
          /\ s.session = r.session /\ s.isRunning = r.isRunning /\ s.requested = TRUE
          /\ s.alive = TRUE
      BY <1>k DEF ServiceRecords
    <3>g. v.shown = u.shown /\ v.running = FALSE /\ v.last = "none" /\ v.stale = TRUE
      BY <1>k DEF ActivityRecords
    <3> HIDE DEF s, v
    <3>e. AppOK(s, v)
      BY <1>k, <1>t, <2>1, <2>i, <2>4, <1>busy, <3>f, <3>g, Inboxes, SMTT(60)
      DEF AppOK, Fields, Intent, Shown, Resting, Starting, Stopping, Dying
    <3> QED BY <3>a, <3>b, <3>c, <3>d, <3>e DEF AndroidTypeOK
  <2>5. CASE ~Busy
    <3> DEFINE s == [r EXCEPT !.inbox = x, !.requested = TRUE, !.alive = TRUE]
    <3> DEFINE v == [u EXCEPT !.presses = u.presses + 1, !.last = "stop",
                              !.running = FALSE, !.stale = FALSE]
    <3>a. svc' = s
      BY <1>r, <1>1, <2>1, <2>2, <2>5, <1>busy DEF PressStop, Pressed, Sent, MayPress
    <3>b. ui' = v
      BY <1>r, <1>1, <2>1, <2>2, <2>5, <1>busy DEF PressStop, Pressed, Sent, MayPress
    <3>c. s \in ServiceRecords
      BY <1>t, ServiceFields, <1>r, <1>1, <2>1, <2>2, <2>5, <1>busy, ZenonT(30)
    <3>d. v \in ActivityRecords
      BY <1>t, ActivityFields, <1>r, <1>1, <2>1, <2>2, <2>5, <1>busy, ZenonT(30)
    <3>f. /\ s.inbox = x /\ s.main = r.main /\ s.binder = r.binder
          /\ s.session = r.session /\ s.isRunning = r.isRunning /\ s.requested = TRUE
          /\ s.alive = TRUE
      BY <1>k DEF ServiceRecords
    <3>g. v.shown = u.shown /\ v.running = FALSE /\ v.last = "stop" /\ v.stale = FALSE
      BY <1>k DEF ActivityRecords
    <3> HIDE DEF s, v
    <3>e. AppOK(s, v)
      BY <1>k, <1>t, <2>1, <2>i, <2>5, <1>busy, <3>f, <3>g, Inboxes, SMTT(60)
      DEF AppOK, Fields, Intent, Shown, Resting, Starting, Stopping, Dying
    <3> QED BY <3>a, <3>b, <3>c, <3>d, <3>e DEF AndroidTypeOK
  <2> QED BY <2>4, <2>5
<1>2. CASE PressStart
  <2>1. u.shown /\ r.main = "idle" /\ u.presses + 1 \in 0 .. MaxPresses
    BY <1>r, <1>2, <1>t, PressesAssumption DEF PressStart, MayPress
  <2>2. PICK x \in Boxes :
            /\ x = Append(r.inbox, "start") /\ (r.inbox = Nothing => x = OneStart)
    BY <1>t, Queues, Messages
  <2>i. (r.inbox = Nothing => x = OneStart)
    BY <2>2
  <2>4. CASE Busy
    <3> DEFINE s == [r EXCEPT !.inbox = x, !.requested = TRUE, !.alive = TRUE]
    <3> DEFINE v == [u EXCEPT !.presses = u.presses + 1, !.last = "none",
                              !.running = TRUE, !.stale = TRUE]
    <3>a. svc' = s
      BY <1>r, <1>2, <2>1, <2>2, <2>4, <1>busy DEF PressStart, Pressed, Sent, MayPress
    <3>b. ui' = v
      BY <1>r, <1>2, <2>1, <2>2, <2>4, <1>busy DEF PressStart, Pressed, Sent, MayPress
    <3>c. s \in ServiceRecords
      BY <1>t, ServiceFields, <1>r, <1>2, <2>1, <2>2, <2>4, <1>busy, ZenonT(30)
    <3>d. v \in ActivityRecords
      BY <1>t, ActivityFields, <1>r, <1>2, <2>1, <2>2, <2>4, <1>busy, ZenonT(30)
    <3>f. /\ s.inbox = x /\ s.main = r.main /\ s.binder = r.binder
          /\ s.session = r.session /\ s.isRunning = r.isRunning /\ s.requested = TRUE
          /\ s.alive = TRUE
      BY <1>k DEF ServiceRecords
    <3>g. v.shown = u.shown /\ v.running = TRUE /\ v.last = "none" /\ v.stale = TRUE
      BY <1>k DEF ActivityRecords
    <3> HIDE DEF s, v
    <3>e. AppOK(s, v)
      BY <1>k, <1>t, <2>1, <2>i, <2>4, <1>busy, <3>f, <3>g, Inboxes, SMTT(60)
      DEF AppOK, Fields, Intent, Shown, Resting, Starting, Stopping, Dying
    <3> QED BY <3>a, <3>b, <3>c, <3>d, <3>e DEF AndroidTypeOK
  <2>5. CASE ~Busy
    <3> DEFINE s == [r EXCEPT !.inbox = x, !.requested = TRUE, !.alive = TRUE]
    <3> DEFINE v == [u EXCEPT !.presses = u.presses + 1, !.last = "start",
                              !.running = TRUE, !.stale = FALSE]
    <3>a. svc' = s
      BY <1>r, <1>2, <2>1, <2>2, <2>5, <1>busy DEF PressStart, Pressed, Sent, MayPress
    <3>b. ui' = v
      BY <1>r, <1>2, <2>1, <2>2, <2>5, <1>busy DEF PressStart, Pressed, Sent, MayPress
    <3>c. s \in ServiceRecords
      BY <1>t, ServiceFields, <1>r, <1>2, <2>1, <2>2, <2>5, <1>busy, ZenonT(30)
    <3>d. v \in ActivityRecords
      BY <1>t, ActivityFields, <1>r, <1>2, <2>1, <2>2, <2>5, <1>busy, ZenonT(30)
    <3>f. /\ s.inbox = x /\ s.main = r.main /\ s.binder = r.binder
          /\ s.session = r.session /\ s.isRunning = r.isRunning /\ s.requested = TRUE
          /\ s.alive = TRUE
      BY <1>k DEF ServiceRecords
    <3>g. v.shown = u.shown /\ v.running = TRUE /\ v.last = "start" /\ v.stale = FALSE
      BY <1>k DEF ActivityRecords
    <3> HIDE DEF s, v
    <3>e. AppOK(s, v)
      BY <1>k, <1>t, <2>1, <2>i, <2>5, <1>busy, <3>f, <3>g, Inboxes, SMTT(60)
      DEF AppOK, Fields, Intent, Shown, Resting, Starting, Stopping, Dying
    <3> QED BY <3>a, <3>b, <3>c, <3>d, <3>e DEF AndroidTypeOK
  <2> QED BY <2>4, <2>5
<1>3. CASE AskConsent
  <2>1. r.main = "idle"
    BY <1>r, <1>3 DEF AskConsent, MayPress
  <2> DEFINE s == r
  <2> DEFINE v == [u EXCEPT !.shown = FALSE, !.asked = TRUE]
  <2>a. svc' = s
    BY <1>r, <1>3, <2>1 DEF AskConsent, MayPress
  <2>b. ui' = v
    BY <1>r, <1>3, <2>1 DEF AskConsent, MayPress
  <2>c. s \in ServiceRecords
    OBVIOUS
  <2>d. v \in ActivityRecords
    BY <1>t, ActivityFields, <1>r, <1>3, <2>1, ZenonT(30)
  <2>f. /\ s.inbox = r.inbox /\ s.main = r.main /\ s.binder = r.binder
        /\ s.session = r.session /\ s.isRunning = r.isRunning /\ s.requested = r.requested
        /\ s.alive = r.alive
    BY <1>k DEF ServiceRecords
  <2>g. v.shown = FALSE /\ v.running = u.running /\ v.last = u.last /\ v.stale = u.stale
    BY <1>k DEF ActivityRecords
  <2> HIDE DEF s, v
  <2>e. AppOK(s, v)
    BY <1>k, <1>t, <2>1, <2>f, <2>g, Inboxes, SMTT(60)
    DEF AppOK, Fields, Intent, Shown, Resting, Starting, Stopping, Dying
  <2> QED BY <2>a, <2>b, <2>c, <2>d, <2>e DEF AndroidTypeOK
<1>4. CASE Consent
  <2>1. r.main = "idle" /\ u.presses + 1 \in 0 .. MaxPresses
    BY <1>r, <1>4, <1>t, PressesAssumption DEF Consent
  <2>2. PICK x \in Boxes :
            /\ x = Append(r.inbox, "start") /\ (r.inbox = Nothing => x = OneStart)
    BY <1>t, Queues, Messages
  <2>i. (r.inbox = Nothing => x = OneStart)
    BY <2>2
  <2>4. CASE Busy
    <3> DEFINE s == [r EXCEPT !.inbox = x, !.requested = TRUE, !.alive = TRUE]
    <3> DEFINE v == [u EXCEPT !.presses = u.presses + 1, !.last = "none",
                              !.running = r.isRunning, !.stale = TRUE, !.shown = TRUE,
                              !.asked = FALSE]
    <3>a. svc' = s
      BY <1>r, <1>4, <2>1, <2>2, <2>4, <1>busy DEF Consent, Pressed, Sent
    <3>b. ui' = v
      BY <1>r, <1>4, <2>1, <2>2, <2>4, <1>busy DEF Consent, Pressed, Sent
    <3>c. s \in ServiceRecords
      BY <1>t, ServiceFields, <1>r, <1>4, <2>1, <2>2, <2>4, <1>busy, ZenonT(30)
    <3>d. v \in ActivityRecords
      BY <1>t, ActivityFields, <1>r, <1>4, <2>1, <2>2, <2>4, <1>busy, ZenonT(30)
    <3>f. /\ s.inbox = x /\ s.main = r.main /\ s.binder = r.binder
          /\ s.session = r.session /\ s.isRunning = r.isRunning /\ s.requested = TRUE
          /\ s.alive = TRUE
      BY <1>k DEF ServiceRecords
    <3>g. v.shown = TRUE /\ v.running = r.isRunning /\ v.last = "none" /\ v.stale = TRUE
      BY <1>k DEF ActivityRecords
    <3> HIDE DEF s, v
    <3>e. AppOK(s, v)
      BY <1>k, <1>t, <2>1, <2>i, <2>4, <1>busy, <3>f, <3>g, Inboxes, SMTT(60)
      DEF AppOK, Fields, Intent, Shown, Resting, Starting, Stopping, Dying
    <3> QED BY <3>a, <3>b, <3>c, <3>d, <3>e DEF AndroidTypeOK
  <2>5. CASE ~Busy
    <3> DEFINE s == [r EXCEPT !.inbox = x, !.requested = TRUE, !.alive = TRUE]
    <3> DEFINE v == [u EXCEPT !.presses = u.presses + 1, !.last = "start",
                              !.running = r.isRunning, !.stale = TRUE, !.shown = TRUE,
                              !.asked = FALSE]
    <3>a. svc' = s
      BY <1>r, <1>4, <2>1, <2>2, <2>5, <1>busy DEF Consent, Pressed, Sent
    <3>b. ui' = v
      BY <1>r, <1>4, <2>1, <2>2, <2>5, <1>busy DEF Consent, Pressed, Sent
    <3>c. s \in ServiceRecords
      BY <1>t, ServiceFields, <1>r, <1>4, <2>1, <2>2, <2>5, <1>busy, ZenonT(30)
    <3>d. v \in ActivityRecords
      BY <1>t, ActivityFields, <1>r, <1>4, <2>1, <2>2, <2>5, <1>busy, ZenonT(30)
    <3>f. /\ s.inbox = x /\ s.main = r.main /\ s.binder = r.binder
          /\ s.session = r.session /\ s.isRunning = r.isRunning /\ s.requested = TRUE
          /\ s.alive = TRUE
      BY <1>k DEF ServiceRecords
    <3>g. v.shown = TRUE /\ v.running = r.isRunning /\ v.last = "start" /\ v.stale = TRUE
      BY <1>k DEF ActivityRecords
    <3> HIDE DEF s, v
    <3>e. AppOK(s, v)
      BY <1>k, <1>t, <2>1, <2>i, <2>5, <1>busy, <3>f, <3>g, Inboxes, SMTT(60)
      DEF AppOK, Fields, Intent, Shown, Resting, Starting, Stopping, Dying
    <3> QED BY <3>a, <3>b, <3>c, <3>d, <3>e DEF AndroidTypeOK
  <2> QED BY <2>4, <2>5
<1>5. CASE Leave
  <2>1. u.shown
    BY <1>r, <1>5 DEF Leave
  <2> DEFINE s == r
  <2> DEFINE v == [u EXCEPT !.shown = FALSE]
  <2>a. svc' = s
    BY <1>r, <1>5, <2>1 DEF Leave
  <2>b. ui' = v
    BY <1>r, <1>5, <2>1 DEF Leave
  <2>c. s \in ServiceRecords
    OBVIOUS
  <2>d. v \in ActivityRecords
    BY <1>t, ActivityFields, <1>r, <1>5, <2>1, ZenonT(30)
  <2>f. /\ s.inbox = r.inbox /\ s.main = r.main /\ s.binder = r.binder
        /\ s.session = r.session /\ s.isRunning = r.isRunning /\ s.requested = r.requested
        /\ s.alive = r.alive
    BY <1>k DEF ServiceRecords
  <2>g. v.shown = FALSE /\ v.running = u.running /\ v.last = u.last /\ v.stale = u.stale
    BY <1>k DEF ActivityRecords
  <2> HIDE DEF s, v
  <2>e. AppOK(s, v)
    BY <1>k, <1>t, <2>1, <2>f, <2>g, Inboxes, SMTT(60)
    DEF AppOK, Fields, Intent, Shown, Resting, Starting, Stopping, Dying
  <2> QED BY <2>a, <2>b, <2>c, <2>d, <2>e DEF AndroidTypeOK
<1>6. CASE Resume
  <2>1. ~u.shown /\ r.main = "idle"
    BY <1>r, <1>6 DEF Resume
  <2>4. CASE Busy
    <3> DEFINE s == r
    <3> DEFINE v == [u EXCEPT !.shown = TRUE, !.asked = FALSE, !.running = r.isRunning,
                              !.stale = TRUE]
    <3>a. svc' = s
      BY <1>r, <1>6, <2>1, <2>4, <1>busy DEF Resume
    <3>b. ui' = v
      BY <1>r, <1>6, <2>1, <2>4, <1>busy DEF Resume
    <3>c. s \in ServiceRecords
      OBVIOUS
    <3>d. v \in ActivityRecords
      BY <1>t, ActivityFields, <1>r, <1>6, <2>1, <2>4, <1>busy, ZenonT(30)
    <3>f. /\ s.inbox = r.inbox /\ s.main = r.main /\ s.binder = r.binder
          /\ s.session = r.session /\ s.isRunning = r.isRunning
          /\ s.requested = r.requested /\ s.alive = r.alive
      BY <1>k DEF ServiceRecords
    <3>g. v.shown = TRUE /\ v.running = r.isRunning /\ v.last = u.last /\ v.stale = TRUE
      BY <1>k DEF ActivityRecords
    <3> HIDE DEF s, v
    <3>e. AppOK(s, v)
      BY <1>k, <1>t, <2>1, <2>4, <1>busy, <3>f, <3>g, Inboxes, SMTT(60)
      DEF AppOK, Fields, Intent, Shown, Resting, Starting, Stopping, Dying
    <3> QED BY <3>a, <3>b, <3>c, <3>d, <3>e DEF AndroidTypeOK
  <2>5. CASE ~Busy
    <3> DEFINE s == r
    <3> DEFINE v == [u EXCEPT !.shown = TRUE, !.asked = FALSE, !.running = r.isRunning,
                              !.stale = FALSE]
    <3>a. svc' = s
      BY <1>r, <1>6, <2>1, <2>5, <1>busy DEF Resume
    <3>b. ui' = v
      BY <1>r, <1>6, <2>1, <2>5, <1>busy DEF Resume
    <3>c. s \in ServiceRecords
      OBVIOUS
    <3>d. v \in ActivityRecords
      BY <1>t, ActivityFields, <1>r, <1>6, <2>1, <2>5, <1>busy, ZenonT(30)
    <3>f. /\ s.inbox = r.inbox /\ s.main = r.main /\ s.binder = r.binder
          /\ s.session = r.session /\ s.isRunning = r.isRunning
          /\ s.requested = r.requested /\ s.alive = r.alive
      BY <1>k DEF ServiceRecords
    <3>g. v.shown = TRUE /\ v.running = r.isRunning /\ v.last = u.last /\ v.stale = FALSE
      BY <1>k DEF ActivityRecords
    <3> HIDE DEF s, v
    <3>e. AppOK(s, v)
      BY <1>k, <1>t, <2>1, <2>5, <1>busy, <3>f, <3>g, Inboxes, SMTT(60)
      DEF AppOK, Fields, Intent, Shown, Resting, Starting, Stopping, Dying
    <3> QED BY <3>a, <3>b, <3>c, <3>d, <3>e DEF AndroidTypeOK
  <2> QED BY <2>4, <2>5
<1>7. CASE EstablishVpn
  <2>1. r.main = "idle" /\ r.inbox # Nothing /\ Head(r.inbox) = "start" /\ r.session = 0
    BY <1>r, <1>7 DEF EstablishVpn, Message, Nothing
  <2>2. PICK x \in Boxes :
            /\ x = Tail(r.inbox) /\ (r.inbox = OneStart => x = Nothing)
            /\ r.inbox # OneStop /\ r.inbox # OneDestroy
    BY <1>t, <2>1, Queues, Messages
  <2>i. (r.inbox = OneStart => x = Nothing) /\ r.inbox # OneStop /\ r.inbox # OneDestroy
    BY <2>2
  <2>h. r.main = "idle" /\ r.inbox # Nothing /\ r.session = 0
    BY <2>1
  <2> DEFINE s == [r EXCEPT !.inbox = x, !.main = "connect"]
  <2> DEFINE v == u
  <2>a. svc' = s
    BY <1>r, <1>7, <2>1, <2>2 DEF EstablishVpn, Next1
  <2>b. ui' = v
    BY <1>r, <1>7, <2>1, <2>2 DEF EstablishVpn, Next1
  <2>c. s \in ServiceRecords
    BY <1>t, ServiceFields, <1>r, <1>7, <2>1, <2>2, ZenonT(30)
  <2>d. v \in ActivityRecords
    OBVIOUS
  <2>f. /\ s.inbox = x /\ s.main = "connect" /\ s.binder = r.binder
        /\ s.session = r.session /\ s.isRunning = r.isRunning /\ s.requested = r.requested
        /\ s.alive = r.alive
    BY <1>k DEF ServiceRecords
  <2>g. v.shown = u.shown /\ v.running = u.running /\ v.last = u.last /\ v.stale = u.stale
    BY <1>k DEF ActivityRecords
  <2> HIDE DEF s, v
  <2>e. AppOK(s, v)
    BY <1>k, <1>t, <2>h, <2>i, <2>f, <2>g, Inboxes, SMTT(60)
    DEF AppOK, Fields, Intent, Shown, Resting, Starting, Stopping, Dying
  <2> QED BY <2>a, <2>b, <2>c, <2>d, <2>e DEF AndroidTypeOK
<1>8. CASE EstablishRefused
  <2>1. r.main = "idle" /\ r.inbox # Nothing /\ Head(r.inbox) = "start"
    BY <1>r, <1>8 DEF EstablishRefused, Message, Nothing
  <2>2. PICK x \in Boxes :
            /\ x = Tail(r.inbox) /\ (r.inbox = OneStart => x = Nothing)
            /\ r.inbox # OneStop /\ r.inbox # OneDestroy
    BY <1>t, <2>1, Queues, Messages
  <2>i. (r.inbox = OneStart => x = Nothing) /\ r.inbox # OneStop /\ r.inbox # OneDestroy
    BY <2>2
  <2>h. r.main = "idle" /\ r.inbox # Nothing
    BY <2>1
  <2> DEFINE s == [r EXCEPT !.inbox = x, !.requested = FALSE]
  <2> DEFINE v == [u EXCEPT !.last = "none", !.stale = TRUE]
  <2>a. svc' = s
    BY <1>r, <1>8, <2>1, <2>2 DEF EstablishRefused, Next1, Excuse
  <2>b. ui' = v
    BY <1>r, <1>8, <2>1, <2>2 DEF EstablishRefused, Next1, Excuse
  <2>c. s \in ServiceRecords
    BY <1>t, ServiceFields, <1>r, <1>8, <2>1, <2>2, ZenonT(30)
  <2>d. v \in ActivityRecords
    BY <1>t, ActivityFields, <1>r, <1>8, <2>1, <2>2, ZenonT(30)
  <2>f. /\ s.inbox = x /\ s.main = r.main /\ s.binder = r.binder /\ s.session = r.session
        /\ s.isRunning = r.isRunning /\ s.requested = FALSE /\ s.alive = r.alive
    BY <1>k DEF ServiceRecords
  <2>g. v.shown = u.shown /\ v.running = u.running /\ v.last = "none" /\ v.stale = TRUE
    BY <1>k DEF ActivityRecords
  <2> HIDE DEF s, v
  <2>e. AppOK(s, v)
    BY <1>k, <1>t, <2>h, <2>i, <2>f, <2>g, Inboxes, SMTT(60)
    DEF AppOK, Fields, Intent, Shown, Resting, Starting, Stopping, Dying
  <2> QED BY <2>a, <2>b, <2>c, <2>d, <2>e DEF AndroidTypeOK
<1>9. CASE AlreadyRunning
  <2>1. r.main = "idle" /\ r.inbox # Nothing /\ Head(r.inbox) = "start" /\ r.session # 0
    BY <1>r, <1>9 DEF AlreadyRunning, Message, Nothing
  <2>2. PICK x \in Boxes :
            /\ x = Tail(r.inbox) /\ (r.inbox = OneStart => x = Nothing)
            /\ r.inbox # OneStop /\ r.inbox # OneDestroy
    BY <1>t, <2>1, Queues, Messages
  <2>i. (r.inbox = OneStart => x = Nothing) /\ r.inbox # OneStop /\ r.inbox # OneDestroy
    BY <2>2
  <2>h. r.main = "idle" /\ r.inbox # Nothing /\ r.session # 0
    BY <2>1
  <2> DEFINE s == [r EXCEPT !.inbox = x]
  <2> DEFINE v == u
  <2>a. svc' = s
    BY <1>r, <1>9, <2>1, <2>2 DEF AlreadyRunning, Next1
  <2>b. ui' = v
    BY <1>r, <1>9, <2>1, <2>2 DEF AlreadyRunning, Next1
  <2>c. s \in ServiceRecords
    BY <1>t, ServiceFields, <1>r, <1>9, <2>1, <2>2, ZenonT(30)
  <2>d. v \in ActivityRecords
    OBVIOUS
  <2>f. /\ s.inbox = x /\ s.main = r.main /\ s.binder = r.binder /\ s.session = r.session
        /\ s.isRunning = r.isRunning /\ s.requested = r.requested /\ s.alive = r.alive
    BY <1>k DEF ServiceRecords
  <2>g. v.shown = u.shown /\ v.running = u.running /\ v.last = u.last /\ v.stale = u.stale
    BY <1>k DEF ActivityRecords
  <2> HIDE DEF s, v
  <2>e. AppOK(s, v)
    BY <1>k, <1>t, <2>h, <2>i, <2>f, <2>g, Inboxes, SMTT(60)
    DEF AppOK, Fields, Intent, Shown, Resting, Starting, Stopping, Dying
  <2> QED BY <2>a, <2>b, <2>c, <2>d, <2>e DEF AndroidTypeOK
<1>10. CASE ConnectOk
  <2>1. r.main = "connect"
    BY <1>r, <1>10 DEF ConnectOk
  <2>2. PICK d \in Sessions :
          svc' = [svc EXCEPT !.session = d, !.main = "publish",
                             !.raced = IF svc.binder = "clear" THEN @ \cup {d} ELSE @]
    BY <1>10 DEF ConnectOk
  <2>3. d \in 0 .. MaxSessions /\ d # 0 /\ r.raced \cup {d} \in SUBSET Sessions
    BY <1>t DEF Sessions
  <2>4. CASE r.binder = "clear"
    <3> DEFINE s == [r EXCEPT !.session = d, !.main = "publish",
                              !.raced = r.raced \cup {d}]
    <3> DEFINE v == u
    <3>a. svc' = s
      BY <1>r, <1>10, <2>1, <2>2, <2>3, <2>4, <1>busy DEF ConnectOk
    <3>b. ui' = v
      BY <1>r, <1>10, <2>1, <2>2, <2>3, <2>4, <1>busy DEF ConnectOk
    <3>c. s \in ServiceRecords
      BY <1>t, ServiceFields, <1>r, <1>10, <2>1, <2>2, <2>3, <2>4, <1>busy, ZenonT(30)
    <3>d. v \in ActivityRecords
      OBVIOUS
    <3>f. /\ s.inbox = r.inbox /\ s.main = "publish" /\ s.binder = r.binder
          /\ s.session = d /\ s.isRunning = r.isRunning /\ s.requested = r.requested
          /\ s.alive = r.alive
      BY <1>k DEF ServiceRecords
    <3>g. /\ v.shown = u.shown /\ v.running = u.running /\ v.last = u.last
          /\ v.stale = u.stale
      BY <1>k DEF ActivityRecords
    <3> HIDE DEF s, v
    <3>e. AppOK(s, v)
      BY <1>k, <1>t, <2>1, <2>2, <2>3, <2>4, <1>busy, <3>f, <3>g, Inboxes, SMTT(60)
      DEF AppOK, Fields, Intent, Shown, Resting, Starting, Stopping, Dying
    <3> QED BY <3>a, <3>b, <3>c, <3>d, <3>e DEF AndroidTypeOK
  <2>5. CASE r.binder # "clear"
    <3> DEFINE s == [r EXCEPT !.session = d, !.main = "publish"]
    <3> DEFINE v == u
    <3>a. svc' = s
      BY <1>r, <1>10, <2>1, <2>2, <2>3, <2>5, <1>busy DEF ConnectOk
    <3>b. ui' = v
      BY <1>r, <1>10, <2>1, <2>2, <2>3, <2>5, <1>busy DEF ConnectOk
    <3>c. s \in ServiceRecords
      BY <1>t, ServiceFields, <1>r, <1>10, <2>1, <2>2, <2>3, <2>5, <1>busy, ZenonT(30)
    <3>d. v \in ActivityRecords
      OBVIOUS
    <3>f. /\ s.inbox = r.inbox /\ s.main = "publish" /\ s.binder = r.binder
          /\ s.session = d /\ s.isRunning = r.isRunning /\ s.requested = r.requested
          /\ s.alive = r.alive
      BY <1>k DEF ServiceRecords
    <3>g. /\ v.shown = u.shown /\ v.running = u.running /\ v.last = u.last
          /\ v.stale = u.stale
      BY <1>k DEF ActivityRecords
    <3> HIDE DEF s, v
    <3>e. AppOK(s, v)
      BY <1>k, <1>t, <2>1, <2>2, <2>3, <2>5, <1>busy, <3>f, <3>g, Inboxes, SMTT(60)
      DEF AppOK, Fields, Intent, Shown, Resting, Starting, Stopping, Dying
    <3> QED BY <3>a, <3>b, <3>c, <3>d, <3>e DEF AndroidTypeOK
  <2> QED BY <2>4, <2>5
<1>11. CASE Publish
  <2>1. r.main = "publish"
    BY <1>r, <1>11 DEF Publish
  <2> DEFINE s == [r EXCEPT !.isRunning = TRUE, !.main = "idle"]
  <2> DEFINE v == u
  <2>a. svc' = s
    BY <1>r, <1>11, <2>1 DEF Publish
  <2>b. ui' = v
    BY <1>r, <1>11, <2>1 DEF Publish
  <2>c. s \in ServiceRecords
    BY <1>t, ServiceFields, <1>r, <1>11, <2>1, ZenonT(30)
  <2>d. v \in ActivityRecords
    OBVIOUS
  <2>f. /\ s.inbox = r.inbox /\ s.main = "idle" /\ s.binder = r.binder
        /\ s.session = r.session /\ s.isRunning = TRUE /\ s.requested = r.requested
        /\ s.alive = r.alive
    BY <1>k DEF ServiceRecords
  <2>g. v.shown = u.shown /\ v.running = u.running /\ v.last = u.last /\ v.stale = u.stale
    BY <1>k DEF ActivityRecords
  <2> HIDE DEF s, v
  <2>e. AppOK(s, v)
    BY <1>k, <1>t, <2>1, <2>f, <2>g, Inboxes, SMTT(60)
    DEF AppOK, Fields, Intent, Shown, Resting, Starting, Stopping, Dying
  <2> QED BY <2>a, <2>b, <2>c, <2>d, <2>e DEF AndroidTypeOK
<1>12. CASE ConnectThrows
  <2>1. r.main = "connect"
    BY <1>r, <1>12 DEF ConnectThrows
  <2> DEFINE s == [r EXCEPT !.main = "stop"]
  <2> DEFINE v == [u EXCEPT !.last = "none", !.stale = TRUE]
  <2>a. svc' = s
    BY <1>r, <1>12, <2>1 DEF ConnectThrows, Excuse
  <2>b. ui' = v
    BY <1>r, <1>12, <2>1 DEF ConnectThrows, Excuse
  <2>c. s \in ServiceRecords
    BY <1>t, ServiceFields, <1>r, <1>12, <2>1, ZenonT(30)
  <2>d. v \in ActivityRecords
    BY <1>t, ActivityFields, <1>r, <1>12, <2>1, ZenonT(30)
  <2>f. /\ s.inbox = r.inbox /\ s.main = "stop" /\ s.binder = r.binder
        /\ s.session = r.session /\ s.isRunning = r.isRunning /\ s.requested = r.requested
        /\ s.alive = r.alive
    BY <1>k DEF ServiceRecords
  <2>g. v.shown = u.shown /\ v.running = u.running /\ v.last = "none" /\ v.stale = TRUE
    BY <1>k DEF ActivityRecords
  <2> HIDE DEF s, v
  <2>e. AppOK(s, v)
    BY <1>k, <1>t, <2>1, <2>f, <2>g, Inboxes, SMTT(60)
    DEF AppOK, Fields, Intent, Shown, Resting, Starting, Stopping, Dying
  <2> QED BY <2>a, <2>b, <2>c, <2>d, <2>e DEF AndroidTypeOK
<1>13. CASE StopCommand
  <2>1. r.main = "idle" /\ r.inbox # Nothing /\ Head(r.inbox) = "stop"
    BY <1>r, <1>13 DEF StopCommand, Message, Nothing
  <2>2. PICK x \in Boxes :
            /\ x = Tail(r.inbox) /\ (r.inbox = OneStop => x = Nothing)
            /\ r.inbox # OneStart /\ r.inbox # OneDestroy
    BY <1>t, <2>1, Queues, Messages
  <2>i. (r.inbox = OneStop => x = Nothing) /\ r.inbox # OneStart /\ r.inbox # OneDestroy
    BY <2>2
  <2>h. r.main = "idle" /\ r.inbox # Nothing
    BY <2>1
  <2> DEFINE s == [r EXCEPT !.inbox = x, !.main = "stop"]
  <2> DEFINE v == u
  <2>a. svc' = s
    BY <1>r, <1>13, <2>1, <2>2 DEF StopCommand, Next1
  <2>b. ui' = v
    BY <1>r, <1>13, <2>1, <2>2 DEF StopCommand, Next1
  <2>c. s \in ServiceRecords
    BY <1>t, ServiceFields, <1>r, <1>13, <2>1, <2>2, ZenonT(30)
  <2>d. v \in ActivityRecords
    OBVIOUS
  <2>f. /\ s.inbox = x /\ s.main = "stop" /\ s.binder = r.binder /\ s.session = r.session
        /\ s.isRunning = r.isRunning /\ s.requested = r.requested /\ s.alive = r.alive
    BY <1>k DEF ServiceRecords
  <2>g. v.shown = u.shown /\ v.running = u.running /\ v.last = u.last /\ v.stale = u.stale
    BY <1>k DEF ActivityRecords
  <2> HIDE DEF s, v
  <2>e. AppOK(s, v)
    BY <1>k, <1>t, <2>h, <2>i, <2>f, <2>g, Inboxes, SMTT(60)
    DEF AppOK, Fields, Intent, Shown, Resting, Starting, Stopping, Dying
  <2> QED BY <2>a, <2>b, <2>c, <2>d, <2>e DEF AndroidTypeOK
<1>14. CASE StopTunnel("main")
  <2>1. r.main = "stop"
    BY <1>r, <1>14 DEF StopTunnel
  <2> DEFINE s == [r EXCEPT !.main = "clear"]
  <2> DEFINE v == u
  <2>a. svc' = s
    BY <1>r, <1>14, <2>1 DEF StopTunnel
  <2>b. ui' = v
    BY <1>r, <1>14, <2>1 DEF StopTunnel
  <2>c. s \in ServiceRecords
    BY <1>t, ServiceFields, <1>r, <1>14, <2>1, ZenonT(30)
  <2>d. v \in ActivityRecords
    OBVIOUS
  <2>f. /\ s.inbox = r.inbox /\ s.main = "clear" /\ s.binder = r.binder
        /\ s.session = r.session /\ s.isRunning = r.isRunning /\ s.requested = r.requested
        /\ s.alive = r.alive
    BY <1>k DEF ServiceRecords
  <2>g. v.shown = u.shown /\ v.running = u.running /\ v.last = u.last /\ v.stale = u.stale
    BY <1>k DEF ActivityRecords
  <2> HIDE DEF s, v
  <2>e. AppOK(s, v)
    BY <1>k, <1>t, <2>1, <2>f, <2>g, Inboxes, SMTT(60)
    DEF AppOK, Fields, Intent, Shown, Resting, Starting, Stopping, Dying
  <2> QED BY <2>a, <2>b, <2>c, <2>d, <2>e DEF AndroidTypeOK
<1>15. CASE StopTunnel("binder")
  <2>1. r.binder = "stop"
    BY <1>r, <1>15 DEF StopTunnel
  <2> DEFINE s == [r EXCEPT !.binder = "clear"]
  <2> DEFINE v == u
  <2>a. svc' = s
    BY <1>r, <1>15, <2>1 DEF StopTunnel
  <2>b. ui' = v
    BY <1>r, <1>15, <2>1 DEF StopTunnel
  <2>c. s \in ServiceRecords
    BY <1>t, ServiceFields, <1>r, <1>15, <2>1, ZenonT(30)
  <2>d. v \in ActivityRecords
    OBVIOUS
  <2>f. /\ s.inbox = r.inbox /\ s.main = r.main /\ s.binder = "clear"
        /\ s.session = r.session /\ s.isRunning = r.isRunning /\ s.requested = r.requested
        /\ s.alive = r.alive
    BY <1>k DEF ServiceRecords
  <2>g. v.shown = u.shown /\ v.running = u.running /\ v.last = u.last /\ v.stale = u.stale
    BY <1>k DEF ActivityRecords
  <2> HIDE DEF s, v
  <2>e. AppOK(s, v)
    BY <1>k, <1>t, <2>1, <2>f, <2>g, Inboxes, SMTT(60)
    DEF AppOK, Fields, Intent, Shown, Resting, Starting, Stopping, Dying
  <2> QED BY <2>a, <2>b, <2>c, <2>d, <2>e DEF AndroidTypeOK
<1>16. CASE ClearFields("main")
  <2>1. r.main = "clear"
    BY <1>r, <1>16 DEF ClearFields
  <2> DEFINE s == [r EXCEPT !.main = "idle", !.session = 0, !.isRunning = FALSE,
                            !.requested = FALSE]
  <2> DEFINE v == u
  <2>a. svc' = s
    BY <1>r, <1>16, <2>1 DEF ClearFields
  <2>b. ui' = v
    BY <1>r, <1>16, <2>1 DEF ClearFields
  <2>c. s \in ServiceRecords
    BY <1>t, ServiceFields, <1>r, <1>16, <2>1, ZenonT(30)
  <2>d. v \in ActivityRecords
    OBVIOUS
  <2>f. /\ s.inbox = r.inbox /\ s.main = "idle" /\ s.binder = r.binder /\ s.session = 0
        /\ s.isRunning = FALSE /\ s.requested = FALSE /\ s.alive = r.alive
    BY <1>k DEF ServiceRecords
  <2>g. v.shown = u.shown /\ v.running = u.running /\ v.last = u.last /\ v.stale = u.stale
    BY <1>k DEF ActivityRecords
  <2> HIDE DEF s, v
  <2>e. AppOK(s, v)
    BY <1>k, <1>t, <2>1, <2>f, <2>g, Inboxes, SMTT(60)
    DEF AppOK, Fields, Intent, Shown, Resting, Starting, Stopping, Dying
  <2> QED BY <2>a, <2>b, <2>c, <2>d, <2>e DEF AndroidTypeOK
<1>17. CASE ClearFields("binder")
  <2>1. r.binder = "clear"
    BY <1>r, <1>17 DEF ClearFields
  <2> DEFINE s == [r EXCEPT !.binder = "idle", !.session = 0, !.isRunning = FALSE,
                            !.requested = FALSE]
  <2> DEFINE v == u
  <2>a. svc' = s
    BY <1>r, <1>17, <2>1 DEF ClearFields
  <2>b. ui' = v
    BY <1>r, <1>17, <2>1 DEF ClearFields
  <2>c. s \in ServiceRecords
    BY <1>t, ServiceFields, <1>r, <1>17, <2>1, ZenonT(30)
  <2>d. v \in ActivityRecords
    OBVIOUS
  <2>f. /\ s.inbox = r.inbox /\ s.main = r.main /\ s.binder = "idle" /\ s.session = 0
        /\ s.isRunning = FALSE /\ s.requested = FALSE /\ s.alive = r.alive
    BY <1>k DEF ServiceRecords
  <2>g. v.shown = u.shown /\ v.running = u.running /\ v.last = u.last /\ v.stale = u.stale
    BY <1>k DEF ActivityRecords
  <2> HIDE DEF s, v
  <2>e. AppOK(s, v)
    BY <1>k, <1>t, <2>1, <2>f, <2>g, Inboxes, SMTT(60)
    DEF AppOK, Fields, Intent, Shown, Resting, Starting, Stopping, Dying
  <2> QED BY <2>a, <2>b, <2>c, <2>d, <2>e DEF AndroidTypeOK
<1>18. CASE Destroy
  <2>1. r.main = "idle" /\ r.inbox # Nothing /\ Head(r.inbox) = "destroy"
    BY <1>r, <1>18 DEF Destroy, Message, Nothing
  <2>2. PICK x \in Boxes :
            /\ x = Tail(r.inbox) /\ (r.inbox = OneDestroy => x = Nothing)
            /\ r.inbox # OneStart /\ r.inbox # OneStop
    BY <1>t, <2>1, Queues, Messages
  <2>i. (r.inbox = OneDestroy => x = Nothing) /\ r.inbox # OneStart /\ r.inbox # OneStop
    BY <2>2
  <2>h. r.main = "idle" /\ r.inbox # Nothing
    BY <2>1
  <2>3. PICK y \in BOOLEAN :
            /\ y = (u.stale \/ r.isRunning) /\ (~y => ~u.stale /\ ~r.isRunning)
    OBVIOUS
  <2> DEFINE s == [r EXCEPT !.inbox = x, !.session = 0, !.isRunning = FALSE]
  <2> DEFINE v == [u EXCEPT !.stale = y]
  <2>a. svc' = s
    BY <1>r, <1>18, <2>1, <2>2, <2>3 DEF Destroy, Next1
  <2>b. ui' = v
    BY <1>r, <1>18, <2>1, <2>2, <2>3 DEF Destroy, Next1
  <2>c. s \in ServiceRecords
    BY <1>t, ServiceFields, <1>r, <1>18, <2>1, <2>2, <2>3, ZenonT(30)
  <2>d. v \in ActivityRecords
    BY <1>t, ActivityFields, <1>r, <1>18, <2>1, <2>2, <2>3, ZenonT(30)
  <2>f. /\ s.inbox = x /\ s.main = r.main /\ s.binder = r.binder /\ s.session = 0
        /\ s.isRunning = FALSE /\ s.requested = r.requested /\ s.alive = r.alive
    BY <1>k DEF ServiceRecords
  <2>g. v.shown = u.shown /\ v.running = u.running /\ v.last = u.last /\ v.stale = y
    BY <1>k DEF ActivityRecords
  <2> HIDE DEF s, v
  <2>e. AppOK(s, v)
    BY <1>k, <1>t, <2>h, <2>i, <2>3, <2>f, <2>g, Inboxes, SMTT(60)
    DEF AppOK, Fields, Intent, Shown, Resting, Starting, Stopping, Dying
  <2> QED BY <2>a, <2>b, <2>c, <2>d, <2>e DEF AndroidTypeOK
<1>19. CASE BringDown
  <2>1. r.alive /\ ~r.requested
    BY <1>r, <1>19 DEF BringDown
  <2>2. PICK x \in Boxes :
            /\ x = Append(r.inbox, "destroy") /\ (r.inbox = Nothing => x = OneDestroy)
    BY <1>t, Queues, Messages
  <2>i. (r.inbox = Nothing => x = OneDestroy)
    BY <2>2
  <2> DEFINE s == [r EXCEPT !.inbox = x, !.alive = FALSE]
  <2> DEFINE v == u
  <2>a. svc' = s
    BY <1>r, <1>19, <2>1, <2>2 DEF BringDown
  <2>b. ui' = v
    BY <1>r, <1>19, <2>1, <2>2 DEF BringDown
  <2>c. s \in ServiceRecords
    BY <1>t, ServiceFields, <1>r, <1>19, <2>1, <2>2, ZenonT(30)
  <2>d. v \in ActivityRecords
    OBVIOUS
  <2>f. /\ s.inbox = x /\ s.main = r.main /\ s.binder = r.binder /\ s.session = r.session
        /\ s.isRunning = r.isRunning /\ s.requested = r.requested /\ s.alive = FALSE
    BY <1>k DEF ServiceRecords
  <2>g. v.shown = u.shown /\ v.running = u.running /\ v.last = u.last /\ v.stale = u.stale
    BY <1>k DEF ActivityRecords
  <2> HIDE DEF s, v
  <2>e. AppOK(s, v)
    BY <1>k, <1>t, <2>1, <2>i, <2>f, <2>g, Inboxes, SMTT(60)
    DEF AppOK, Fields, Intent, Shown, Resting, Starting, Stopping, Dying
  <2> QED BY <2>a, <2>b, <2>c, <2>d, <2>e DEF AndroidTypeOK
<1>20. CASE Revoke
  <2>1. r.binder = "idle"
    BY <1>r, <1>20 DEF Revoke
  <2> DEFINE s == [r EXCEPT !.binder = "stop"]
  <2> DEFINE v == [u EXCEPT !.last = "none", !.stale = TRUE]
  <2>a. svc' = s
    BY <1>r, <1>20, <2>1 DEF Revoke, Excuse
  <2>b. ui' = v
    BY <1>r, <1>20, <2>1 DEF Revoke, Excuse
  <2>c. s \in ServiceRecords
    BY <1>t, ServiceFields, <1>r, <1>20, <2>1, ZenonT(30)
  <2>d. v \in ActivityRecords
    BY <1>t, ActivityFields, <1>r, <1>20, <2>1, ZenonT(30)
  <2>f. /\ s.inbox = r.inbox /\ s.main = r.main /\ s.binder = "stop"
        /\ s.session = r.session /\ s.isRunning = r.isRunning /\ s.requested = r.requested
        /\ s.alive = r.alive
    BY <1>k DEF ServiceRecords
  <2>g. v.shown = u.shown /\ v.running = u.running /\ v.last = "none" /\ v.stale = TRUE
    BY <1>k DEF ActivityRecords
  <2> HIDE DEF s, v
  <2>e. AppOK(s, v)
    BY <1>k, <1>t, <2>1, <2>f, <2>g, Inboxes, SMTT(60)
    DEF AppOK, Fields, Intent, Shown, Resting, Starting, Stopping, Dying
  <2> QED BY <2>a, <2>b, <2>c, <2>d, <2>e DEF AndroidTypeOK
<1>21. CASE Kill
  <2> DEFINE b == IF r.requested THEN <<"start">> ELSE <<>>
  <2>0. b \in Boxes
    <3>1. OneStart \in Boxes /\ Nothing \in Boxes
      BY Messages, Queues
    <3>2. b = IF r.requested THEN OneStart ELSE Nothing
      BY DEF OneStart, Nothing
    <3> QED BY <3>1, <3>2
  <2>1. /\ svc' = NewService(b)
        /\ ui' = [u EXCEPT !.shown = FALSE, !.asked = FALSE, !.last = "none"]
    BY <1>r, <1>21 DEF Kill
  <2>2. /\ NewService(b) \in ServiceRecords /\ NewService(b).main = "idle"
        /\ NewService(b).session = 0
    <3>1. b \in Boxes /\ (b # <<>>) \in BOOLEAN
      BY <2>0
    <3> HIDE DEF b
    <3> QED BY <3>1, SessionsAssumption DEF NewService, ServiceRecords, Boxes
  <2>3. ui' \in ActivityRecords
    BY <2>1, ActivityFields, ZenonT(30)
  <2>4. ui'.shown = FALSE /\ ui'.last = "none"
    BY <2>1 DEF ActivityRecords
  <2> HIDE DEF b
  <2>5. svc' \in ServiceRecords /\ svc'.main = "idle" /\ svc'.session = 0
    BY <2>1, <2>2
  <2> QED BY <2>3, <2>4, <2>5 DEF AndroidTypeOK, AppOK, Fields, Intent, Shown
<1> QED BY <1>1, <1>2, <1>3, <1>4, <1>5, <1>6, <1>7, <1>8, <1>9, <1>10, <1>11, <1>12,
           <1>13, <1>14, <1>15, <1>16, <1>17, <1>18, <1>19, <1>20, <1>21
        DEF AndroidStep, Activity, Service, Threads

-----------------------------------------------------------------------------
(* Records and queues of the Apple app *)

\* The queues of the main actor.
JobLists == Seq(Jobs)

\* The kinds of the jobs.
Kinds == {"loaded", "loadFailed", "start", "saved", "saveFailed", "sync"}

\* A job of this kind that is about this profile is one that may be queued.
Fits(k, p, P) == k \in {"saved", "sync"} \/ (k = "loaded" /\ p # 0) => p \in P

\* The fields of TunnelManager, one at a time.
LEMMA ManagerFields ==
  ASSUME NEW m \in ManagerRecords
  PROVE  /\ m.queue \in JobLists /\ m.loading \in 0 .. 2 /\ m.saving \in [Profiles -> Nat]
         /\ m.state \in Statuses \cup {"invalid"} /\ m.manager \in 0 .. MaxProfiles
         /\ m.taps \in 0 .. MaxTaps /\ m.last \in {"none", "start", "stop"}
         /\ m.stale \in BOOLEAN /\ m.halfSaved \in BOOLEAN
         /\ \A x \in JobLists : [m EXCEPT !.queue = x] \in ManagerRecords
         /\ \A x \in 0 .. 2 : [m EXCEPT !.loading = x] \in ManagerRecords
         /\ \A x \in [Profiles -> Nat] : [m EXCEPT !.saving = x] \in ManagerRecords
         /\ \A x \in Statuses \cup {"invalid"} : [m EXCEPT !.state = x] \in ManagerRecords
         /\ \A x \in 0 .. MaxProfiles : [m EXCEPT !.manager = x] \in ManagerRecords
         /\ \A x \in 0 .. MaxTaps : [m EXCEPT !.taps = x] \in ManagerRecords
         /\ \A x \in {"none", "start", "stop"} : [m EXCEPT !.last = x] \in ManagerRecords
         /\ \A x \in BOOLEAN : [m EXCEPT !.stale = x] \in ManagerRecords
         /\ \A x \in BOOLEAN : [m EXCEPT !.halfSaved = x] \in ManagerRecords
  BY DEF ManagerRecords, JobLists

\* The fields of the connection, one at a time.
LEMMA ConnectionFields ==
  ASSUME NEW v \in ConnectionRecords
  PROVE  /\ v.status \in Statuses /\ v.applying \in BOOLEAN
         /\ v.profile \in 0 .. MaxProfiles /\ v.next \in 0 .. MaxProfiles
         /\ v.stopping \in {"no", "due", "done"}
         /\ v.session \in 0 .. MaxSessions /\ v.raced \in SUBSET Sessions
         /\ \A x \in Statuses : [v EXCEPT !.status = x] \in ConnectionRecords
         /\ \A x \in 0 .. MaxProfiles : [v EXCEPT !.profile = x] \in ConnectionRecords
         /\ \A x \in 0 .. MaxProfiles : [v EXCEPT !.next = x] \in ConnectionRecords
         /\ \A x \in BOOLEAN : [v EXCEPT !.applying = x] \in ConnectionRecords
         /\ \A x \in {"no", "due", "done"} :
                  [v EXCEPT !.stopping = x] \in ConnectionRecords
         /\ \A x \in 0 .. MaxSessions : [v EXCEPT !.session = x] \in ConnectionRecords
         /\ \A x \in SUBSET Sessions : [v EXCEPT !.raced = x] \in ConnectionRecords
  BY DEF ConnectionRecords

\* A job of any kind, and its fields.
LEMMA JobFields ==
  ASSUME NEW k \in Kinds,
         NEW p \in 0 .. MaxProfiles
  PROVE  /\ [kind |-> k, profile |-> p] \in Jobs
         /\ [kind |-> k, profile |-> p].kind = k
         /\ [kind |-> k, profile |-> p].profile = p
         /\ [kind |-> k, profile |-> p] = Empty <=> k = "loaded" /\ p = 0
  BY DEF Jobs, Kinds, Empty

\* Queueing a job adds it to those that wait, behind all others.
LEMMA Enqueued ==
  ASSUME NEW q \in JobLists, NEW j \in Jobs
  PROVE  /\ Append(q, j) \in JobLists /\ Range(Append(q, j)) = Range(q) \cup {j}
         /\ \A k : j # Empty /\ (After(q, k) \/ j.kind = k) => After(Append(q, j), k)
<1>1. /\ Append(q, j) \in JobLists /\ Len(Append(q, j)) = Len(q) + 1 /\ Len(q) \in Nat
      /\ Append(q, j)[Len(q) + 1] = j /\ \A i \in 1 .. Len(q) : Append(q, j)[i] = q[i]
      /\ DOMAIN q = 1 .. Len(q) /\ DOMAIN Append(q, j) = 1 .. Len(q) + 1
  BY DEF JobLists
<1>2. ASSUME NEW x PROVE x \in Range(Append(q, j)) <=> x \in Range(q) \cup {j}
  BY <1>1 DEF Range
<1>3. ASSUME NEW k, j # Empty, After(q, k) \/ j.kind = k,
             NEW i \in 1 .. Len(q) + 1, Append(q, j)[i] = Empty
      PROVE  \E l \in i + 1 .. Len(q) + 1 : Append(q, j)[l].kind = k
  <2>1. i \in 1 .. Len(q) /\ q[i] = Empty
    BY <1>1, <1>3
  <2>2. CASE After(q, k)
    <3>1. PICK l \in i + 1 .. Len(q) : q[l].kind = k
      BY <2>1, <2>2 DEF After
    <3> QED BY <1>1, <2>1, <3>1
  <2>3. CASE j.kind = k
    BY <1>1, <2>1, <2>3
  <2> QED BY <1>3, <2>2, <2>3
<1>4. ASSUME NEW k, j # Empty, After(q, k) \/ j.kind = k PROVE After(Append(q, j), k)
  BY <1>1, <1>3, <1>4 DEF After
<1> QED BY <1>1, <1>2, <1>4

\* The job that runs is the only one that no longer waits.
LEMMA Dequeued ==
  ASSUME NEW q \in JobLists, q # <<>>
  PROVE  /\ Tail(q) \in JobLists /\ Head(q) \in Jobs
         /\ Range(q) = Range(Tail(q)) \cup {Head(q)}
         /\ \A k : After(q, k) => /\ After(Tail(q), k)
                                  /\ Head(q) = Empty => Has(Tail(q), k)
<1>1. /\ Tail(q) \in JobLists /\ Len(Tail(q)) = Len(q) - 1 /\ Len(q) \in Nat \ {0}
      /\ Head(q) = q[1] /\ \A i \in 1 .. Len(q) - 1 : Tail(q)[i] = q[i + 1]
      /\ DOMAIN q = 1 .. Len(q) /\ DOMAIN Tail(q) = 1 .. Len(q) - 1 /\ q[1] \in Jobs
  BY DEF JobLists
<1>2. ASSUME NEW i \in 1 .. Len(q), i # 1
      PROVE  i - 1 \in 1 .. Len(q) - 1 /\ Tail(q)[i - 1] = q[i]
  <2>1. i - 1 \in 1 .. Len(q) - 1
    BY <1>1, <1>2
  <2>2. Tail(q)[i - 1] = q[(i - 1) + 1]
    BY <1>1, <2>1
  <2> QED BY <2>1, <2>2
<1>3. ASSUME NEW x \in Range(q) PROVE x \in Range(Tail(q)) \cup {Head(q)}
  <2>1. PICK i \in 1 .. Len(q) : q[i] = x
    BY <1>1 DEF Range
  <2>2. CASE i = 1
    BY <1>1, <2>1, <2>2
  <2>3. CASE i # 1
    BY <1>1, <1>2, <2>1, <2>3 DEF Range
  <2> QED BY <2>2, <2>3
<1>4. ASSUME NEW x \in Range(Tail(q)) PROVE x \in Range(q)
  <2>1. PICK i \in 1 .. Len(q) - 1 : Tail(q)[i] = x
    BY <1>1 DEF Range
  <2>2. i + 1 \in 1 .. Len(q) /\ q[i + 1] = x
    BY <1>1, <2>1
  <2> QED BY <1>1, <2>2 DEF Range
<1>5. Head(q) \in Range(q)
  BY <1>1 DEF Range
<1>6. ASSUME NEW k, After(q, k), NEW i \in 1 .. Len(q) - 1, Tail(q)[i] = Empty
      PROVE  \E l \in i + 1 .. Len(q) - 1 : Tail(q)[l].kind = k
  <2>1. i + 1 \in 1 .. Len(q) /\ q[i + 1] = Empty
    BY <1>1, <1>6
  <2>2. PICK l \in i + 1 + 1 .. Len(q) : q[l].kind = k
    BY <1>6, <2>1 DEF After
  <2>3. l \in 1 .. Len(q) /\ l # 1 /\ l - 1 \in i + 1 .. Len(q) - 1
    BY <1>1, <2>2
  <2> QED BY <1>2, <2>2, <2>3
<1>7. ASSUME NEW k, After(q, k) PROVE After(Tail(q), k)
  BY <1>1, <1>6, <1>7 DEF After
<1>8. ASSUME NEW k, After(q, k), Head(q) = Empty PROVE Has(Tail(q), k)
  <2>1. 1 \in 1 .. Len(q) /\ q[1] = Empty
    BY <1>1, <1>8
  <2>2. PICK l \in 1 + 1 .. Len(q) : q[l].kind = k
    BY <1>8, <2>1 DEF After
  <2>3. l \in 1 .. Len(q) /\ l # 1
    BY <1>1, <2>2
  <2>4. Tail(q)[l - 1] \in Range(Tail(q)) /\ Tail(q)[l - 1] = q[l]
    BY <1>1, <1>2, <2>3 DEF Range
  <2> QED BY <2>2, <2>4 DEF Has
<1> QED BY <1>1, <1>3, <1>4, <1>5, <1>7, <1>8

\* What a new job that is about a saved profile, if about any, makes of the
\* queue.
LEMMA Put ==
  ASSUME NEW m \in ManagerRecords, NEW p \in 0 .. MaxProfiles,
         NEW k \in Kinds, NEW P, Known(m.queue, P), Fits(k, p, P)
  PROVE  \E x \in JobLists :
            /\ Queued(m, k, p) = [m EXCEPT !.queue = x]
            /\ \A l : Has(x, l) <=> Has(m.queue, l) \/ l = k
            /\ Known(x, P)
            /\ k # "loaded" \/ p # 0 =>
                  \A l : After(m.queue, l) \/ l = k => After(x, l)
<1> DEFINE j == [kind |-> k, profile |-> p]
<1>1. j \in Jobs /\ j.kind = k /\ j.profile = p /\ (j = Empty <=> k = "loaded" /\ p = 0)
  BY JobFields
<1>2. Queued(m, k, p) = [m EXCEPT !.queue = Append(m.queue, j)]
  BY DEF Queued
<1> HIDE DEF j
<1>3. m.queue \in JobLists
  BY ManagerFields
<1> DEFINE x == Append(m.queue, j)
<1>4. /\ x \in JobLists /\ Range(x) = Range(m.queue) \cup {j}
      /\ \A l : j # Empty /\ (After(m.queue, l) \/ j.kind = l) => After(x, l)
  BY <1>1, <1>3, Enqueued
<1> HIDE DEF x
<1>5. \A l : Has(x, l) <=> Has(m.queue, l) \/ l = k
  BY <1>1, <1>4 DEF Has
<1>6. Known(x, P)
  BY <1>1, <1>4 DEF Known, Fits
<1>7. k # "loaded" \/ p # 0 => \A l : After(m.queue, l) \/ l = k => After(x, l)
  BY <1>1, <1>4
<1> QED BY <1>2, <1>4, <1>5, <1>6, <1>7 DEF x

\* What is left of the queue when its first job runs.
LEMMA Taken ==
  ASSUME NEW m \in ManagerRecords, NEW k, NEW p, m.queue # <<>>,
         Head(m.queue) = [kind |-> k, profile |-> p], NEW P, Known(m.queue, P)
  PROVE  /\ Tail(m.queue) \in JobLists
         /\ \A l : Has(m.queue, l) <=> Has(Tail(m.queue), l) \/ l = k
         /\ Known(Tail(m.queue), P)
         /\ k \in {"saved", "sync"} \/ (k = "loaded" /\ p # 0) => p \in P
         /\ \A l : After(m.queue, l) =>
               /\ After(Tail(m.queue), l)
               /\ k = "loaded" /\ p = 0 => Has(Tail(m.queue), l)
<1>1. m.queue \in JobLists
  BY ManagerFields
<1> DEFINE x == Tail(m.queue)
<1> DEFINE j == [kind |-> k, profile |-> p]
<1>2. /\ x \in JobLists /\ Range(m.queue) = Range(x) \cup {j}
      /\ \A l : After(m.queue, l) => After(x, l) /\ (j = Empty => Has(x, l))
  BY <1>1, Dequeued
<1>3. j.kind = k /\ j.profile = p /\ (j = Empty <=> k = "loaded" /\ p = 0)
  BY DEF Empty
<1> HIDE DEF x, j
<1>4. \A l : Has(m.queue, l) <=> Has(x, l) \/ l = k
  BY <1>2, <1>3 DEF Has
<1>5. /\ Known(x, P)
      /\ k \in {"saved", "sync"} \/ (k = "loaded" /\ p # 0) => p \in P
  BY <1>2, <1>3 DEF Known
<1> QED BY <1>2, <1>3, <1>4, <1>5 DEF x

\* A notification of a saved profile changes the queue only, and a job waits
\* then that reads the status, behind every other.
LEMMA NotifiedBy ==
  ASSUME NEW m \in ManagerRecords, NEW p \in Profiles,
         NEW P, Known(m.queue, P), p \in P
  PROVE  \E x \in JobLists :
            /\ Notified(m, p) = [m EXCEPT !.queue = x]
            /\ \A l : Has(x, l) <=> Has(m.queue, l) \/ l = "sync"
            /\ Known(x, P)
            /\ \A l : After(m.queue, l) \/ l = "sync" => After(x, l)
<1> DEFINE j == [kind |-> "sync", profile |-> p]
<1>0. p \in 0 .. MaxProfiles
  BY ProfilesAssumption DEF Profiles
<1>1. p \in 0 .. MaxProfiles /\ m.queue \in JobLists
  BY <1>0, ManagerFields
<1>2. CASE m.queue # <<>> /\ Last(m.queue) = j
  <2>1. Notified(m, p) = m
    BY <1>2 DEF Notified
  <2>2. m = [m EXCEPT !.queue = m.queue]
    BY DEF ManagerRecords
  <2>3. j.kind = "sync" /\ j # Empty
    BY DEF Empty
  <2> HIDE DEF j
  <2>4. Len(m.queue) \in Nat \ {0} /\ m.queue[Len(m.queue)] = j /\ DOMAIN m.queue = 1 .. Len(m.queue)
    BY <1>1, <1>2 DEF JobLists, Last
  <2>5. Has(m.queue, "sync")
    BY <2>3, <2>4 DEF Has, Range
  <2>6. After(m.queue, "sync")
    BY <2>3, <2>4 DEF After
  <2> QED BY <1>1, <2>1, <2>2, <2>5, <2>6
<1>3. CASE ~(m.queue # <<>> /\ Last(m.queue) = j)
  <2>1. Notified(m, p) = Queued(m, "sync", p)
    BY <1>3 DEF Notified
  <2>2. "sync" \in Kinds /\ "sync" # "loaded" /\ Fits("sync", p, P)
    BY DEF Kinds, Fits
  <2> QED BY <1>1, <2>1, <2>2, Put
<1> QED BY <1>2, <1>3

-----------------------------------------------------------------------------
(* Sessions *)

\* The fields of a session, one at a time.
LEMMA TunFields ==
  ASSUME NEW x \in TunRecords
  PROVE  /\ x.cancelled \in BOOLEAN
         /\ \A y \in {"none", "fresh", "running", "failed", "gone"} :
               [x EXCEPT !.st = y] \in TunRecords
         /\ \A y \in BOOLEAN : [x EXCEPT !.blocking = y] \in TunRecords
         /\ \A y \in BOOLEAN : [x EXCEPT !.cancelled = y] \in TunRecords
         /\ \A y \in BOOLEAN : [x EXCEPT !.closed = y] \in TunRecords
         /\ \A y \in {"off", "top", "blocked", "done"} :
                  [x EXCEPT !.in = y] \in TunRecords
         /\ \A y \in {"off", "wait", "done"} : [x EXCEPT !.out = y] \in TunRecords
  BY DEF TunRecords

\* A step of one session leaves the others alone.
LEMMA OneTun ==
  ASSUME SessionTypeOK, NEW d \in Sessions, NEW x \in TunRecords,
         tun' = [tun EXCEPT ![d] = x]
  PROVE  /\ tun' \in [Sessions -> TunRecords] /\ tun'[d] = x
         /\ \A e \in Sessions \ {d} : tun'[e] = tun[e]
  BY DEF SessionTypeOK

\* A new descriptor has no session that runs (tunnel.go:127-150).
LEMMA EstablishSession ==
  ASSUME SessionTypeOK, NEW d \in Sessions, NEW b \in BOOLEAN, Establish(d, b)
  PROVE  SessionTypeOK' /\ \A e \in Sessions : Running(e)' => Running(e)
<1> DEFINE x == [tun[d] EXCEPT !.st = "fresh", !.blocking = b]
<1>1. tun[d] \in TunRecords /\ d \in 0 .. MaxSessions
  BY DEF SessionTypeOK, Sessions
<1>2. x \in TunRecords
  BY <1>1, TunFields, ZenonT(30)
<1>3. tun' = [tun EXCEPT ![d] = x] /\ route' = d
  BY <1>1 DEF Establish, SessionTypeOK
<1>4. x.st = "fresh"
  BY <1>1 DEF TunRecords
<1> HIDE DEF x
<1>5. /\ tun' \in [Sessions -> TunRecords] /\ tun'[d] = x
      /\ \A e \in Sessions \ {d} : tun'[e] = tun[e]
  BY <1>2, <1>3, OneTun
<1> QED BY <1>1, <1>3, <1>4, <1>5 DEF SessionTypeOK, Running

\* Connect makes at most its own session run (tunnel.go:157-169).
LEMMA ConnectSession ==
  ASSUME SessionTypeOK, NEW d \in Sessions, Connect(d), UNCHANGED route
  PROVE  SessionTypeOK' /\ \A e \in Sessions \ {d} : Running(e)' => Running(e)
<1> DEFINE x == [tun[d] EXCEPT !.st = "running", !.in = "top", !.out = "wait"]
<1>1. tun[d] \in TunRecords
  BY DEF SessionTypeOK
<1>2. x \in TunRecords
  BY <1>1, TunFields, ZenonT(30)
<1>3. tun' = [tun EXCEPT ![d] = x]
  BY <1>1 DEF Connect, SessionTypeOK
<1> HIDE DEF x
<1>4. /\ tun' \in [Sessions -> TunRecords] /\ tun'[d] = x
      /\ \A e \in Sessions \ {d} : tun'[e] = tun[e]
  BY <1>2, <1>3, OneTun
<1> QED BY <1>4 DEF SessionTypeOK, Running

\* A Connect that fails makes none run (tunnel.go:152-155).
LEMMA FailSession ==
  ASSUME SessionTypeOK, NEW d \in Sessions, ConnectFails(d), UNCHANGED route
  PROVE  SessionTypeOK' /\ \A e \in Sessions : Running(e)' => Running(e)
<1> DEFINE x == [tun[d] EXCEPT !.st = "failed"]
<1>1. tun[d] \in TunRecords
  BY DEF SessionTypeOK
<1>2. x \in TunRecords
  BY <1>1, TunFields, ZenonT(30)
<1>3. tun' = [tun EXCEPT ![d] = x]
  BY <1>1 DEF ConnectFails, SessionTypeOK
<1>4. x.st = "failed"
  BY <1>1 DEF TunRecords
<1> HIDE DEF x
<1>5. /\ tun' \in [Sessions -> TunRecords] /\ tun'[d] = x
      /\ \A e \in Sessions \ {d} : tun'[e] = tun[e]
  BY <1>2, <1>3, OneTun
<1> QED BY <1>4, <1>5 DEF SessionTypeOK, Running

\* Stop ends the session that the app has, and makes none run
\* (tunnel.go:173-178).
LEMMA StopSession ==
  ASSUME SessionTypeOK, NEW d \in 0 .. MaxSessions, StopHeld(d), UNCHANGED route
  PROVE  /\ SessionTypeOK'
         /\ d # 0 => ~Running(d)'
         /\ \A e \in Sessions : Running(e)' => Running(e)
<1>a. CASE d = 0
  BY <1>a DEF StopHeld, SessionTypeOK, Running
<1>b. CASE d # 0
  <2> DEFINE x == [tun[d] EXCEPT !.cancelled = TRUE, !.closed = TRUE]
  <2>0. d \in Sessions
    BY <1>b, SessionsAssumption DEF Sessions
  <2>1. tun[d] \in TunRecords
    BY <2>0 DEF SessionTypeOK
  <2>2. x \in TunRecords
    BY <2>1, TunFields, ZenonT(30)
  <2>3. tun' = [tun EXCEPT ![d] = x]
    BY <1>b, <2>0, <2>1 DEF StopHeld, Stop, SessionTypeOK
  <2>4. x.cancelled = TRUE
    BY <2>1 DEF TunRecords
  <2> HIDE DEF x
  <2>5. /\ tun' \in [Sessions -> TunRecords] /\ tun'[d] = x
        /\ \A e \in Sessions \ {d} : tun'[e] = tun[e]
    BY <2>0, <2>2, <2>3, OneTun
  <2> QED BY <2>4, <2>5 DEF SessionTypeOK, Running
<1> QED BY <1>a, <1>b

\* Nothing runs when the process is gone.
LEMMA GoneSession ==
  ASSUME SessionTypeOK, ProcessGone
  PROVE  SessionTypeOK' /\ \A e \in Sessions : ~Running(e)'
<1> DEFINE g == [NoTun EXCEPT !.st = "gone"]
<1>1. g \in TunRecords /\ g.st = "gone"
  BY DEF NoTun, TunRecords
<1> HIDE DEF g
<1>2. /\ tun' = [d \in Sessions |-> IF tun[d].st = "none" THEN tun[d] ELSE g]
      /\ route' = 0
  BY DEF ProcessGone, g
<1>3. ASSUME NEW d \in Sessions PROVE tun'[d] \in TunRecords /\ tun'[d].st # "running"
  BY <1>1, <1>2 DEF SessionTypeOK
<1>4. route' \in 0 .. MaxSessions
  BY <1>2, SessionsAssumption
<1> QED BY <1>2, <1>3, <1>4 DEF SessionTypeOK, Running

\* The loops and the collector make no session run (tunnel.go:208-245).
LEMMA LoopSession ==
  ASSUME SessionTypeOK, SessionStep
  PROVE  SessionTypeOK' /\ \A e \in Sessions : Running(e)' => Running(e)
<1>1. PICK d \in Sessions :
          Loops(d) \/ InboundReads(d) \/ InboundDetached(d) \/ Finalise(d)
  BY DEF SessionStep
<1>2. tun[d] \in TunRecords
  BY DEF SessionTypeOK
<1>3. \E x \in TunRecords : /\ tun' = [tun EXCEPT ![d] = x]
                            /\ x.cancelled = tun[d].cancelled
                            /\ x.st = tun[d].st \/ x.st = "gone"
  <2>1. CASE Finalise(d)
    <3>1. tun' = [tun EXCEPT ![d] = [tun[d] EXCEPT !.st = "gone"]]
      BY <2>1 DEF Finalise, SessionTypeOK
    <3>2. [tun[d] EXCEPT !.st = "gone"] \in TunRecords
      BY <1>2, TunFields, ZenonT(30)
    <3>3. /\ [tun[d] EXCEPT !.st = "gone"].st = "gone"
          /\ [tun[d] EXCEPT !.st = "gone"].cancelled = tun[d].cancelled
      BY <1>2 DEF TunRecords
    <3> QED BY <3>1, <3>2, <3>3
  <2>2. CASE OutboundEnds(d)
    <3>1. tun' = [tun EXCEPT ![d] = [tun[d] EXCEPT !.out = "done"]]
      BY <2>2 DEF OutboundEnds, SessionTypeOK
    <3>2. [tun[d] EXCEPT !.out = "done"] \in TunRecords
      BY <1>2, TunFields, ZenonT(30)
    <3>3. /\ [tun[d] EXCEPT !.out = "done"].st = tun[d].st
          /\ [tun[d] EXCEPT !.out = "done"].cancelled = tun[d].cancelled
      BY <1>2 DEF TunRecords
    <3> QED BY <3>1, <3>2, <3>3
  <2>3. CASE InboundTop(d) \/ InboundWoken(d) \/ InboundReads(d) \/ InboundDetached(d)
    <3>1. PICK y \in {"off", "top", "blocked", "done"} :
             tun' = [tun EXCEPT ![d] = [tun[d] EXCEPT !.in = y]]
      BY <2>3 DEF InboundTop, InboundWoken, InboundReads, InboundDetached, SessionTypeOK
    <3>2. [tun[d] EXCEPT !.in = y] \in TunRecords
      BY <1>2, TunFields, ZenonT(30)
    <3>3. /\ [tun[d] EXCEPT !.in = y].st = tun[d].st
          /\ [tun[d] EXCEPT !.in = y].cancelled = tun[d].cancelled
      BY <1>2 DEF TunRecords
    <3> QED BY <3>1, <3>2, <3>3
  <2> QED BY <1>1, <2>1, <2>2, <2>3 DEF Loops
<1>4. PICK x \in TunRecords : /\ tun' = [tun EXCEPT ![d] = x]
                              /\ x.cancelled = tun[d].cancelled
                              /\ x.st = tun[d].st \/ x.st = "gone"
  BY <1>3
<1>5. /\ tun' \in [Sessions -> TunRecords] /\ tun'[d] = x
      /\ \A e \in Sessions \ {d} : tun'[e] = tun[e]
  BY <1>4, OneTun
<1> QED BY <1>4, <1>5 DEF SessionTypeOK, Running, SessionStep

-----------------------------------------------------------------------------
(* Sessions under the Android app *)

\* A step of the Android app leaves no session behind that runs and that
\* STOP would not find: Connect is called when the field is empty, and the
\* field is cleared when its session has been stopped.
LEMMA AndroidSessions ==
  ASSUME IInv, AndroidStep, platform = "android", UNCHANGED platform
  PROVE  SessionTypeOK' /\ Reached'
<1> DEFINE Shrinks == \A e \in Sessions : Running(e)' => Running(e)
<1> DEFINE Same == svc'.session = svc.session /\ svc'.raced = svc.raced
<1>t. SessionTypeOK /\ svc \in ServiceRecords /\ svc.session \in 0 .. MaxSessions
  BY ServiceFields DEF IInv, AndroidTypeOK
<1>r. /\ \A d \in Sessions : Running(d) => d = svc.session \/ d \in svc.raced
      /\ \A c \in Threads : svc[c] = "clear" /\ svc.session # 0 /\ Running(svc.session) =>
            svc.session \in svc.raced
  BY DEF IInv, Reached, AndroidHolds
<1>n. svc.session # 0 => svc.session \in Sessions
  BY <1>t DEF Sessions
<1>m. Threads = {"main", "binder"}
  BY DEF Threads
<1>q. ASSUME SessionTypeOK', Shrinks, Same,
             \A c \in Threads : svc'[c] = "clear" => svc[c] = "clear"
      PROVE  SessionTypeOK' /\ Reached'
  BY <1>q, <1>r, <1>n DEF Reached, AndroidHolds
<1>u. ASSUME UNCHANGED sessionVars PROVE SessionTypeOK' /\ Shrinks
  BY <1>u, <1>t DEF sessionVars, SessionTypeOK, Running
<1>1. CASE Activity
  <2>1. SessionTypeOK' /\ Shrinks
    BY <1>1, <1>u DEF Activity
  <2>2. /\ Same /\ (svc'.main = "clear" => svc.main = "clear")
        /\ (svc'.binder = "clear" => svc.binder = "clear")
    BY <1>1, <1>t
    DEF Activity, PressStop, PressStart, AskConsent, Consent, Leave, Resume, Sent,
        ServiceRecords
  <2> HIDE DEF Same, Shrinks
  <2> QED BY <1>q, <2>1, <2>2, <1>m
<1>2. CASE EstablishVpn
  <2>1. SessionTypeOK' /\ Shrinks
    BY <1>2, <1>t, EstablishSession DEF EstablishVpn
  <2>2. /\ Same /\ (svc'.main = "clear" => svc.main = "clear")
        /\ (svc'.binder = "clear" => svc.binder = "clear")
    BY <1>2, <1>t DEF EstablishVpn, ServiceRecords
  <2> HIDE DEF Same, Shrinks
  <2> QED BY <1>q, <2>1, <2>2, <1>m
<1>3. CASE EstablishRefused
  <2>1. SessionTypeOK' /\ Shrinks
    BY <1>3, <1>u DEF EstablishRefused
  <2>2. /\ Same /\ (svc'.main = "clear" => svc.main = "clear")
        /\ (svc'.binder = "clear" => svc.binder = "clear")
    BY <1>3, <1>t DEF EstablishRefused, ServiceRecords
  <2> HIDE DEF Same, Shrinks
  <2> QED BY <1>q, <2>1, <2>2, <1>m
<1>4. CASE AlreadyRunning
  <2>1. SessionTypeOK' /\ Shrinks
    BY <1>4, <1>u DEF AlreadyRunning
  <2>2. /\ Same /\ (svc'.main = "clear" => svc.main = "clear")
        /\ (svc'.binder = "clear" => svc.binder = "clear")
    BY <1>4, <1>t DEF AlreadyRunning, ServiceRecords
  <2> HIDE DEF Same, Shrinks
  <2> QED BY <1>q, <2>1, <2>2, <1>m
<1>5. CASE Publish
  <2>1. SessionTypeOK' /\ Shrinks
    BY <1>5, <1>u DEF Publish
  <2>2. /\ Same /\ (svc'.main = "clear" => svc.main = "clear")
        /\ (svc'.binder = "clear" => svc.binder = "clear")
    BY <1>5, <1>t DEF Publish, ServiceRecords
  <2> HIDE DEF Same, Shrinks
  <2> QED BY <1>q, <2>1, <2>2, <1>m
<1>6. CASE ConnectThrows
  <2>1. SessionTypeOK' /\ Shrinks
    BY <1>6, <1>t, FailSession DEF ConnectThrows
  <2>2. /\ Same /\ (svc'.main = "clear" => svc.main = "clear")
        /\ (svc'.binder = "clear" => svc.binder = "clear")
    BY <1>6, <1>t DEF ConnectThrows, ServiceRecords
  <2> HIDE DEF Same, Shrinks
  <2> QED BY <1>q, <2>1, <2>2, <1>m
<1>7. CASE StopCommand
  <2>1. SessionTypeOK' /\ Shrinks
    BY <1>7, <1>u DEF StopCommand
  <2>2. /\ Same /\ (svc'.main = "clear" => svc.main = "clear")
        /\ (svc'.binder = "clear" => svc.binder = "clear")
    BY <1>7, <1>t DEF StopCommand, ServiceRecords
  <2> HIDE DEF Same, Shrinks
  <2> QED BY <1>q, <2>1, <2>2, <1>m
<1>8. CASE BringDown
  <2>1. SessionTypeOK' /\ Shrinks
    BY <1>8, <1>u DEF BringDown
  <2>2. /\ Same /\ (svc'.main = "clear" => svc.main = "clear")
        /\ (svc'.binder = "clear" => svc.binder = "clear")
    BY <1>8, <1>t DEF BringDown, ServiceRecords
  <2> HIDE DEF Same, Shrinks
  <2> QED BY <1>q, <2>1, <2>2, <1>m
<1>9. CASE Revoke
  <2>1. SessionTypeOK' /\ Shrinks
    BY <1>9, <1>t, SessionsAssumption DEF Revoke, SessionTypeOK, Running
  <2>2. Same /\ svc'.main = svc.main /\ svc'.binder = "stop"
    BY <1>9, <1>t DEF Revoke, ServiceRecords
  <2> HIDE DEF Same, Shrinks
  <2> QED BY <1>q, <2>1, <2>2, <1>m
<1>10. CASE ConnectOk
  <2>1. PICK d \in Sessions :
           /\ Connect(d)
           /\ svc' = [svc EXCEPT !.session = d, !.main = "publish",
                                 !.raced = IF svc.binder = "clear" THEN @ \cup {d} ELSE @]
    BY <1>10 DEF ConnectOk
  <2>2. SessionTypeOK' /\ \A e \in Sessions \ {d} : Running(e)' => Running(e)
    BY <1>10, <2>1, <1>t, ConnectSession DEF ConnectOk
  <2>3. svc.session = 0 /\ 0 \notin Sessions
    BY <1>10, SessionsAssumption DEF ConnectOk, IInv, AppOK, Fields, Sessions
  <2>4. /\ svc'.session = d /\ svc'.main = "publish" /\ svc'.binder = svc.binder
        /\ svc.raced \subseteq svc'.raced
        /\ svc.binder = "clear" => d \in svc'.raced
    <3>1. CASE svc.binder = "clear"
      BY <2>1, <3>1, <1>t DEF ServiceRecords
    <3>2. CASE svc.binder # "clear"
      BY <2>1, <3>2, <1>t DEF ServiceRecords
    <3> QED BY <3>1, <3>2
  <2> QED BY <2>2, <2>3, <2>4, <1>r, <1>m DEF Reached, AndroidHolds
<1>11. CASE \E c \in Threads : StopTunnel(c)
  <2>1. PICK h \in 0 .. MaxSessions : h = svc.session /\ StopHeld(h) /\ UNCHANGED route
    BY <1>11, <1>t DEF StopTunnel
  <2>2. SessionTypeOK' /\ Shrinks /\ (h # 0 => ~Running(h)')
    BY <2>1, <1>t, StopSession
  <2>3. Same /\ 0 \notin Sessions
    BY <1>11, SessionsAssumption, <1>t DEF StopTunnel, ServiceRecords, Threads, Sessions
  <2> QED BY <2>1, <2>2, <2>3, <1>r DEF Reached, AndroidHolds
<1>12. CASE \E c \in Threads : ClearFields(c)
  <2>1. PICK c \in Threads : ClearFields(c)
    BY <1>12
  <2>2. SessionTypeOK' /\ Shrinks
    BY <2>1, <1>u DEF ClearFields
  <2>3. svc'.session = 0 /\ svc'.raced = svc.raced
    BY <2>1, <1>t DEF ClearFields, ServiceRecords, Threads
  <2>4. svc[c] = "clear"
    BY <2>1 DEF ClearFields
  <2>0. 0 \notin Sessions
    BY SessionsAssumption DEF Sessions
  <2>5. \A d \in Sessions : Running(d) => d \in svc.raced
    BY <1>r, <2>0, <2>4
  <2> QED BY <2>2, <2>3, <2>5 DEF Reached, AndroidHolds
<1>13. CASE Destroy
  <2>1. PICK h \in 0 .. MaxSessions : h = svc.session /\ StopHeld(h) /\ UNCHANGED route
    BY <1>13, <1>t DEF Destroy
  <2>2. SessionTypeOK' /\ Shrinks /\ (h # 0 => ~Running(h)')
    BY <2>1, <1>t, StopSession
  <2>3. svc'.session = 0 /\ svc'.raced = svc.raced /\ 0 \notin Sessions
    BY <1>13, <1>t, SessionsAssumption DEF Destroy, ServiceRecords, Sessions
  <2> QED BY <2>1, <2>2, <2>3, <1>r DEF Reached, AndroidHolds
<1>14. CASE Kill
  <2>1. SessionTypeOK' /\ \A e \in Sessions : ~Running(e)'
    BY <1>14, <1>t, GoneSession DEF Kill
  <2>2. svc'.session = 0
    BY <1>14 DEF Kill, NewService
  <2> QED BY <2>1, <2>2 DEF Reached, AndroidHolds
<1> QED
  BY <1>1, <1>2, <1>3, <1>4, <1>5, <1>6, <1>7, <1>8, <1>9, <1>10, <1>11, <1>12, <1>13,
     <1>14
  DEF AndroidStep, Service

-----------------------------------------------------------------------------
(* The Apple app *)

\* A notification corrects the window in the end, whatever the status has
\* become, and disturbs nothing else.
LEMMA Notification ==
  ASSUME NEW m \in ManagerRecords, NEW P \in SUBSET Profiles, NEW p \in P,
         Known(m.queue, P), Owned(m, P)
  PROVE  \E n \in ManagerRecords :
            /\ n = Notified(m, p)
            /\ n.last = m.last
            /\ Known(n.queue, P) /\ Owned(n, P)
            /\ \A v : (Asked(m, v) => Asked(n, v)) /\ Told(n, v, P)
<1>1. PICK x \in JobLists :
          /\ Notified(m, p) = [m EXCEPT !.queue = x]
          /\ \A l : Has(x, l) <=> Has(m.queue, l) \/ l = "sync"
          /\ Known(x, P)
          /\ \A l : After(m.queue, l) \/ l = "sync" => After(x, l)
  BY NotifiedBy
<1>2. PICK n \in ManagerRecords : n = [m EXCEPT !.queue = x]
  BY ManagerFields
<1>3. /\ n.queue = x /\ n.saving = m.saving /\ n.manager = m.manager /\ n.last = m.last
      /\ n.halfSaved = m.halfSaved
  BY <1>2 DEF ManagerRecords
<1>4. Known(n.queue, P) /\ Owned(n, P)
  BY <1>1, <1>3 DEF Owned
<1>5. ASSUME NEW v, Asked(m, v) PROVE Asked(n, v)
  <2>1. Saving(n) <=> Saving(m)
    BY <1>3 DEF Saving
  <2> QED BY <1>1, <1>3, <1>5, <2>1 DEF Asked
<1>6. ASSUME NEW v PROVE Told(n, v, P)
  BY <1>1, <1>3 DEF Told
<1> QED BY <1>1, <1>2, <1>3, <1>4, <1>5, <1>6

\* startVPNTunnel keeps the invariant, if it is not called after the last STOP
\* nor lost (TunnelManager.swift:72).
LEMMA VpnStarts ==
  ASSUME NEW m \in ManagerRecords, vpn \in ConnectionRecords, prefs \in SUBSET Profiles,
         NEW p \in prefs, Starts(p, m),
         Linked(vpn, prefs), Known(m.queue, prefs), Owned(m, prefs), Told(m, vpn, prefs),
         m.last \in {"none", "start"}, m.last = "start" => Status(p) # "disconnecting"
  PROVE  tm' \in ManagerRecords /\ vpn' \in ConnectionRecords /\ LinkOK(tm', vpn', prefs)
<1>t. /\ vpn.status \in Statuses /\ vpn.profile \in 0 .. MaxProfiles
      /\ vpn.next \in 0 .. MaxProfiles /\ vpn.applying \in BOOLEAN
  BY ConnectionFields
<1>p. p \in Profiles /\ p # 0 /\ p \in 0 .. MaxProfiles
  BY DEF Profiles
<1>d. vpn.profile # 0 => vpn.profile \in prefs
  BY DEF Linked
<1>s. vpn.status \in {"disconnected", "connecting", "connected", "disconnecting"}
  BY <1>t DEF Statuses
<1>a. ASSUME Started(p) # vpn, vpn' \in ConnectionRecords, Linked(vpn', prefs),
             vpn'.status = "connecting" \/ vpn'.next # 0
      PROVE  tm' \in ManagerRecords /\ vpn' \in ConnectionRecords /\ LinkOK(tm', vpn', prefs)
  <2>1. Asked(m, vpn')
    BY <1>a DEF Asked
  <2>2. CASE vpn.profile = 0
    <3>1. tm' = Notified(m, p)
      BY <1>a, <2>2 DEF Starts
    <3> QED BY <1>a, <2>1, <3>1, Notification DEF LinkOK
  <2>3. CASE vpn.profile # 0
    <3>1. tm' = Notified(Notified(m, vpn.profile), p)
      BY <1>a, <2>3 DEF Starts
    <3>2. PICK n \in ManagerRecords :
              /\ n = Notified(m, vpn.profile) /\ Known(n.queue, prefs) /\ Owned(n, prefs)
              /\ Asked(n, vpn')
      BY <1>d, <2>1, <2>3, Notification
    <3> QED BY <1>a, <3>1, <3>2, Notification DEF LinkOK
  <2> QED BY <2>2, <2>3
<1>1. CASE vpn.status = "disconnected"
  <2>1. /\ StartVpn(p) \in ConnectionRecords /\ StartVpn(p).status = "connecting"
        /\ StartVpn(p).profile = p /\ StartVpn(p).next = 0 /\ StartVpn(p).session = 0
    <3>1. 0 \in 0 .. MaxSessions /\ 0 \in 0 .. MaxProfiles
      BY SessionsAssumption, ProfilesAssumption
    <3> QED BY <1>p, <3>1 DEF StartVpn, NoConnection, ConnectionRecords, Statuses
  <2>2. Started(p) = StartVpn(p)
    BY <1>1 DEF Started
  <2>3. vpn' = StartVpn(p) /\ Started(p) # vpn
    BY <1>1, <2>1, <2>2 DEF Starts
  <2>4. Linked(vpn', prefs)
    BY <1>p, <2>1, <2>3 DEF Linked
  <2> QED BY <1>a, <2>1, <2>3, <2>4
<1>2. CASE vpn.status # "disconnected" /\ p \in {vpn.profile, vpn.next}
  <2>1. Started(p) = vpn
    BY <1>2 DEF Started
  <2>2. tm' = m /\ vpn' = vpn
    BY <2>1 DEF Starts
  <2>3. Asked(m, vpn)
    <3>1. CASE p = vpn.profile
      BY <1>2, <1>s, <3>1 DEF Asked, Status
    <3>2. CASE p = vpn.next
      BY <1>p, <3>2 DEF Asked
    <3> QED BY <1>2, <3>1, <3>2
  <2> QED BY <2>2, <2>3 DEF LinkOK
<1>3. CASE vpn.status # "disconnected" /\ p \notin {vpn.profile, vpn.next}
  <2> DEFINE w == IF vpn.status = "disconnecting" THEN vpn ELSE StopVpn
  <2>1. /\ w \in ConnectionRecords /\ w.status = "disconnecting"
        /\ w.profile = vpn.profile /\ w.applying = vpn.applying /\ w.session = vpn.session
    BY <1>t DEF StopVpn, Becomes, ConnectionRecords, Statuses
  <2>2. Started(p) = [w EXCEPT !.next = p]
    BY <1>3 DEF Started, ReplaceVpn
  <2> HIDE DEF w
  <2> DEFINE x == [w EXCEPT !.next = p]
  <2>3. /\ x \in ConnectionRecords /\ x.status = "disconnecting" /\ x.profile = vpn.profile
        /\ x.applying = vpn.applying /\ x.session = vpn.session /\ x.next = p
    BY <1>p, <2>1 DEF ConnectionRecords
  <2>4. vpn' = x
    BY <2>2 DEF Starts
  <2> HIDE DEF x
  <2>5. Started(p) # vpn
    BY <1>3, <2>2, <2>3 DEF x
  <2>6. Linked(vpn', prefs)
    BY <1>3, <1>p, <2>3, <2>4 DEF Linked
  <2> QED BY <1>a, <1>p, <2>3, <2>4, <2>5, <2>6
<1> QED BY <1>1, <1>2, <1>3

\* stopVPNTunnel keeps the invariant (TunnelManager.swift:81).
LEMMA VpnStops ==
  ASSUME NEW m \in ManagerRecords, vpn \in ConnectionRecords, prefs \in SUBSET Profiles,
         NEW p, Stops(p, m), Linked(vpn, prefs), Known(m.queue, prefs), Owned(m, prefs),
         m.last # "start",
         m.last = "stop" => /\ ~Has(m.queue, "start") /\ ~Has(m.queue, "saved")
                            /\ ~Saving(m)
  PROVE  tm' \in ManagerRecords /\ vpn' \in ConnectionRecords /\ LinkOK(tm', vpn', prefs)
<1>t. /\ vpn.status \in Statuses /\ vpn.profile \in 0 .. MaxProfiles
      /\ vpn.next \in 0 .. MaxProfiles /\ vpn.applying \in BOOLEAN
  BY ConnectionFields
<1>p. p \in prefs /\ tm' = Notified(m, p)
  BY DEF Stops, Linked
<1>a. ASSUME NEW w \in ConnectionRecords, vpn' = w, w.status = "disconnecting", w.next = 0,
             w.profile = vpn.profile, w.applying = vpn.applying, w.session = vpn.session,
             vpn.status # "disconnected"
      PROVE  tm' \in ManagerRecords /\ vpn' \in ConnectionRecords /\ LinkOK(tm', vpn', prefs)
  <2>1. Linked(w, prefs)
    BY <1>a DEF Linked
  <2>2. Asked(m, w)
    BY <1>a DEF Asked
  <2> QED BY <1>a, <1>p, <2>1, <2>2, Notification DEF LinkOK
<1>1. CASE p = vpn.profile /\ vpn.status \in {"connecting", "connected"} /\ vpn' = StopVpn
  <2>1. /\ StopVpn \in ConnectionRecords /\ StopVpn.status = "disconnecting"
        /\ StopVpn.profile = vpn.profile /\ StopVpn.applying = vpn.applying
        /\ StopVpn.session = vpn.session /\ StopVpn.next = vpn.next
    BY <1>t DEF StopVpn, Becomes, ConnectionRecords, Statuses
  <2>2. vpn.next = 0
    BY <1>1 DEF Linked
  <2> QED BY <1>1, <1>a, <2>1, <2>2
<1>2. CASE p = vpn.next /\ vpn' = [vpn EXCEPT !.next = 0]
  <2> DEFINE w == [vpn EXCEPT !.next = 0]
  <2>1. /\ w \in ConnectionRecords /\ w.status = vpn.status
        /\ w.profile = vpn.profile /\ w.applying = vpn.applying
        /\ w.session = vpn.session /\ w.next = 0
    BY <1>t, ProfilesAssumption DEF ConnectionRecords
  <2>2. p # 0
    BY DEF Stops
  <2>3. vpn.status = "disconnecting"
    BY <1>2, <2>2 DEF Linked
  <2> HIDE DEF w
  <2>4. vpn' = w
    BY <1>2 DEF w
  <2> QED BY <1>a, <2>1, <2>3, <2>4
<1> QED BY <1>1, <1>2 DEF Stops

\* A step of the Apple app keeps the invariant of its window and its
\* connection (TunnelManager.swift:25-92, PacketTunnelProvider.swift:18-67).
LEMMA AppleLink ==
  ASSUME IInv, AppleStep
  PROVE  AppleTypeOK' /\ LinkOK(tm, vpn, prefs)'
<1>r. PICK m \in ManagerRecords, v \in ConnectionRecords, P \in SUBSET Profiles :
          /\ m = tm /\ v = vpn /\ P = prefs /\ LinkOK(m, v, P)
  BY DEF IInv, AppleTypeOK
<1>k. /\ m \in ManagerRecords /\ v \in ConnectionRecords /\ P \in SUBSET Profiles
      /\ Linked(v, P) /\ Known(m.queue, P) /\ Owned(m, P) /\ Asked(m, v) /\ Told(m, v, P)
  BY <1>r DEF LinkOK
<1>t. /\ m.queue \in JobLists /\ m.loading \in 0 .. 2 /\ m.saving \in [Profiles -> Nat]
      /\ m.state \in Statuses \cup {"invalid"} /\ m.manager \in 0 .. MaxProfiles
      /\ m.taps \in 0 .. MaxTaps /\ m.last \in {"none", "start", "stop"}
      /\ m.stale \in BOOLEAN /\ m.halfSaved \in BOOLEAN
      /\ v.status \in Statuses /\ v.applying \in BOOLEAN
      /\ v.profile \in 0 .. MaxProfiles /\ v.next \in 0 .. MaxProfiles
      /\ v.stopping \in {"no", "due", "done"}
      /\ v.session \in 0 .. MaxSessions /\ v.raced \in SUBSET Sessions
  BY <1>k, ManagerFields, ConnectionFields, Zenon
<1>s. /\ v.status \in {"disconnected", "connecting", "connected", "disconnecting"}
      /\ "disconnected" \in Statuses /\ "connecting" \in Statuses
      /\ "connected" \in Statuses
      /\ "disconnecting" \in Statuses /\ "disconnecting" \in Statuses \cup {"invalid"}
      /\ "connecting" \in Statuses \cup {"invalid"}
      /\ "invalid" \in Statuses \cup {"invalid"}
      /\ \A p : Status(p) \in Statuses \cup {"invalid"}
  BY <1>r, <1>t DEF Statuses, Status
<1>z. /\ 0 \in 0 .. MaxSessions /\ \A d \in Sessions : d \in 0 .. MaxSessions
      /\ 0 \in 0 .. MaxProfiles /\ \A p \in Profiles : p \in 0 .. MaxProfiles /\ p # 0
  BY SessionsAssumption, ProfilesAssumption DEF Sessions, Profiles
<1>d. /\ v.status = "disconnected" => /\ v.session = 0 /\ ~v.applying /\ v.stopping = "no"
                                      /\ v.next = 0
      /\ v.status # "disconnected" => v.profile \in P
  BY <1>k DEF Linked, NoConnection
<1>w. \A l : Waits(tm, l) <=> Has(m.queue, l)
  BY <1>r DEF Waits, Has
<1>one. ASSUME NEW p \in P, \A a, b \in P : a = b PROVE Status(p) = v.status
  BY <1>r, <1>k, <1>one, <1>z, <1>d DEF Status, Linked, NoConnection
<1>new. ASSUME NEW p \in Profiles, p \notin P PROVE Status(p) = "disconnected"
  BY <1>r, <1>k, <1>new, <1>z DEF Status, Linked
<1>1. CASE TapStart
  <2>1. m.taps + 1 \in 0 .. MaxTaps /\ vpn' = v /\ prefs' = P
    BY <1>r, <1>t, <1>1, TapsAssumption DEF TapStart, Tap
  <2>2. PICK y \in {"none", "start"} :
          y = (IF Saving(tm) \/ Waits(tm, "start") \/ Waits(tm, "saved")
                 THEN "none" ELSE "start")
    OBVIOUS
  <2> DEFINE p == [m EXCEPT !.taps = m.taps + 1, !.last = y]
  <2>3. Tapped("start") = p
    BY <1>r, <2>2 DEF Tapped
  <2>4. p \in ManagerRecords
    BY <1>k, <2>1, ManagerFields, ZenonT(30)
  <2>5. /\ p.queue = m.queue /\ p.saving = m.saving /\ p.state = m.state /\ p.last = y
        /\ p.stale = m.stale /\ p.manager = m.manager /\ p.halfSaved = m.halfSaved
    BY <1>k DEF ManagerRecords
  <2> HIDE DEF p
  <2>6. PICK x \in JobLists :
            /\ Queued(p, "start", 0) = [p EXCEPT !.queue = x]
            /\ \A l : Has(x, l) <=> Has(p.queue, l) \/ l = "start"
            /\ Known(x, P)
            /\ \A l : After(p.queue, l) => After(x, l)
    <3>1. "start" \in Kinds /\ "start" # "loaded" /\ Fits("start", 0, P)
      BY DEF Kinds, Fits
    <3>2. 0 \in 0 .. MaxProfiles /\ Known(p.queue, P)
      BY <1>k, <1>z, <2>5
    <3> QED BY <2>4, <3>1, <3>2, Put
  <2> DEFINE s == [p EXCEPT !.queue = x]
  <2>a. tm' = s
    BY <1>1, <2>3, <2>6 DEF TapStart
  <2>c. s \in ManagerRecords
    BY <2>4, ManagerFields
  <2>f. /\ s.queue = x /\ s.state = m.state /\ s.last = y
        /\ s.stale = m.stale /\ s.manager = m.manager /\ s.halfSaved = m.halfSaved
    BY <2>4, <2>5 DEF ManagerRecords
  <2> HIDE DEF s
  <2>e. LinkOK(s, v, P)
    BY <1>k, <2>2, <2>5, <2>6, <2>f DEF LinkOK, Owned, Told, Asked
  <2> QED BY <1>k, <2>1, <2>a, <2>c, <2>e DEF AppleTypeOK
<1>2. CASE TapStop
  <2>1. m.taps + 1 \in 0 .. MaxTaps /\ prefs' = P
    BY <1>r, <1>t, <1>2, TapsAssumption DEF TapStop, Tap
  <2>2. PICK y \in {"none", "stop"} :
          y = (IF Saving(tm) \/ Waits(tm, "start") \/ Waits(tm, "saved")
                 THEN "none" ELSE "stop")
    OBVIOUS
  <2>3. y = "stop" => ~Has(m.queue, "start") /\ ~Has(m.queue, "saved") /\ ~Saving(m)
    BY <1>r, <1>w, <2>2
  <2> DEFINE p == [m EXCEPT !.taps = m.taps + 1, !.last = y]
  <2> DEFINE q == [p EXCEPT !.state = "disconnecting"]
  <2>4. [Tapped("stop") EXCEPT !.state = "disconnecting"] = q
    BY <1>r, <2>2 DEF Tapped
  <2>5. q \in ManagerRecords
    BY <1>k, <1>s, <2>1, ManagerFields, ZenonT(30)
  <2>6. /\ q.queue = m.queue /\ q.saving = m.saving /\ q.state = "disconnecting"
        /\ q.last = y /\ q.stale = m.stale /\ q.manager = m.manager
        /\ q.halfSaved = m.halfSaved
    BY <1>k DEF ManagerRecords
  <2> HIDE DEF p, q
  <2>7. CASE tm.manager # 0 /\ Status(tm.manager) \in {"connecting", "connected"}
    <3>1. Stops(tm.manager, q)
      BY <1>2, <2>4, <2>7 DEF TapStop
    <3>2. Owned(q, P) /\ (Saving(q) <=> Saving(m))
      BY <1>k, <2>6 DEF Owned, Saving
    <3>3. tm' \in ManagerRecords /\ vpn' \in ConnectionRecords /\ LinkOK(tm', vpn', prefs)
      BY <1>r, <1>k, <2>3, <2>5, <2>6, <3>1, <3>2, VpnStops
    <3> QED BY <1>r, <2>1, <3>3 DEF AppleTypeOK
  <2>8. CASE ~(tm.manager # 0 /\ Status(tm.manager) \in {"connecting", "connected"})
    <3>1. PICK z \in {"none", "stop"} : z = (IF tm.manager # 0 /\ Down THEN y ELSE "none")
      OBVIOUS
    <3> DEFINE s == [q EXCEPT !.stale = TRUE, !.last = z]
    <3>a. tm' = s /\ vpn' = v
      BY <1>r, <1>2, <2>4, <2>6, <2>8, <3>1 DEF TapStop
    <3>c. s \in ManagerRecords
      BY <2>5, ManagerFields, ZenonT(30)
    <3>f. /\ s.queue = m.queue /\ s.saving = m.saving /\ s.stale = TRUE
          /\ s.last = z /\ s.manager = m.manager /\ s.halfSaved = m.halfSaved
      BY <2>5, <2>6 DEF ManagerRecords
    <3> HIDE DEF s
    <3>1a. z = "stop" => y = "stop" /\ v.status \in {"disconnecting", "disconnected"} /\ v.next = 0
      BY <1>r, <3>1 DEF Down
    <3>2. Saving(s) <=> Saving(m)
      BY <3>f DEF Saving
    <3>e. LinkOK(s, v, P)
      BY <1>k, <2>3, <3>1a, <3>2, <3>f DEF LinkOK, Owned, Told, Asked
    <3> QED BY <1>k, <2>1, <3>a, <3>c, <3>e DEF AppleTypeOK
  <2> QED BY <2>7, <2>8
<1>3. ASSUME NEW p \in Profiles, Sync(p) /\ UNCHANGED prefs
      PROVE  AppleTypeOK' /\ LinkOK(tm, vpn, prefs)'
  <2>1. PICK x \in JobLists :
            /\ x = Tail(m.queue)
            /\ \A l : Has(m.queue, l) <=> Has(x, l) \/ l = "sync"
            /\ Known(x, P) /\ p \in P
            /\ \A l : After(m.queue, l) => After(x, l)
    <3>1. m.queue # <<>> /\ Head(m.queue) = [kind |-> "sync", profile |-> p]
      BY <1>r, <1>3 DEF Sync, Job
    <3> QED BY <1>k, <3>1, Taken
  <2> DEFINE s == [[m EXCEPT !.queue = x] EXCEPT !.state = Status(p), !.stale = FALSE]
  <2>a. tm' = s /\ vpn' = v /\ prefs' = P
    BY <1>r, <1>3, <2>1 DEF Sync, Synced, Done
  <2>c. s \in ManagerRecords
    BY <1>k, <1>s, ManagerFields, ZenonT(30)
  <2>f. /\ s.queue = x /\ s.saving = m.saving /\ s.state = Status(p) /\ s.last = m.last
        /\ s.manager = m.manager /\ s.halfSaved = m.halfSaved
    BY <1>k DEF ManagerRecords
  <2> HIDE DEF s
  <2>2. Saving(s) <=> Saving(m)
    BY <2>f DEF Saving
  <2>e. LinkOK(s, v, P)
    BY <1>k, <1>one, <2>1, <2>2, <2>f DEF LinkOK, Owned, Told, Asked
  <2> QED BY <1>k, <2>a, <2>c, <2>e DEF AppleTypeOK
<1>4. ASSUME NEW p \in Profiles, Loaded(p) /\ UNCHANGED prefs
      PROVE  AppleTypeOK' /\ LinkOK(tm, vpn, prefs)'
  <2>1. PICK h \in {0, p} : /\ Job("loaded", h) /\ (h = 0 => p \notin P)
    BY <1>r, <1>4 DEF Loaded, IsFresh, Unused
  <2>2. PICK x \in JobLists :
            /\ x = Tail(m.queue)
            /\ \A l : Has(m.queue, l) <=> Has(x, l) \/ l = "loaded"
            /\ Known(x, P) /\ (h # 0 => h \in P)
            /\ \A l : After(m.queue, l) => After(x, l) /\ (h = 0 => Has(x, l))
    <3>1. m.queue # <<>> /\ Head(m.queue) = [kind |-> "loaded", profile |-> h]
      BY <1>r, <2>1 DEF Job
    <3> QED BY <1>k, <3>1, Taken
  <2> DEFINE s == [[[m EXCEPT !.queue = x] EXCEPT !.state = Status(p), !.stale = FALSE]
                   EXCEPT !.manager = p]
  <2>a. tm' = s /\ vpn' = v /\ prefs' = P
    BY <1>r, <1>4, <2>2 DEF Loaded, Synced, Done
  <2>c. s \in ManagerRecords
    BY <1>k, <1>s, <1>z, ManagerFields, ZenonT(30)
  <2>f. /\ s.queue = x /\ s.saving = m.saving /\ s.state = Status(p) /\ s.last = m.last
        /\ s.manager = p /\ s.halfSaved = m.halfSaved
    BY <1>k DEF ManagerRecords
  <2> HIDE DEF s
  <2>3. Saving(s) <=> Saving(m)
    BY <2>f DEF Saving
  <2>4. Asked(s, v)
    BY <1>k, <2>2, <2>3, <2>f DEF Asked
  <2>5. Owned(s, P)
    BY <1>k, <1>z, <2>1, <2>2, <2>f DEF Owned
  <2>6. Told(s, v, P)
    <3>1. CASE h = 0
      <4>1. Status(p) = "disconnected"
        BY <1>new, <2>1, <3>1
      <4>2. v.profile # 0 => Has(x, "sync")
        BY <1>k, <2>2, <3>1 DEF Told, Linked
      <4>3. v.profile = 0 => v.status = "disconnected"
        BY <1>k DEF Linked
      <4> QED BY <1>k, <2>2, <2>f, <4>1, <4>2, <4>3 DEF Told
    <3>2. CASE h # 0
      BY <1>k, <1>one, <2>1, <2>2, <2>f, <3>2 DEF Told
    <3> QED BY <3>1, <3>2
  <2>e. LinkOK(s, v, P)
    BY <1>k, <2>2, <2>f, <2>4, <2>5, <2>6 DEF LinkOK
  <2> QED BY <1>k, <2>a, <2>c, <2>e DEF AppleTypeOK
<1>5. CASE Failed /\ UNCHANGED prefs
  <2>1. PICK k \in {"loadFailed", "saveFailed"} : Job(k, 0) /\ (Job("saveFailed", 0) <=> k = "saveFailed")
    BY <1>5 DEF Failed, Job
  <2>2. PICK x \in JobLists :
            /\ x = Tail(m.queue)
            /\ \A l : Has(m.queue, l) <=> Has(x, l) \/ l = k
            /\ Known(x, P)
            /\ \A l : After(m.queue, l) => After(x, l)
    <3>1. m.queue # <<>> /\ Head(m.queue) = [kind |-> k, profile |-> 0]
      BY <1>r, <2>1 DEF Job
    <3> QED BY <1>k, <3>1, Taken
  <2>3. PICK y \in {"none", "start", "stop"} : y = IF k = "saveFailed" THEN "none" ELSE m.last
    BY <1>t
  <2> DEFINE s == [[m EXCEPT !.queue = x] EXCEPT !.state = "invalid", !.last = y]
  <2>a. tm' = s /\ vpn' = v /\ prefs' = P
    <3>1. [m EXCEPT !.queue = x].last = m.last
      BY <1>k DEF ManagerRecords
    <3> QED BY <1>r, <1>5, <2>1, <2>2, <2>3, <3>1 DEF Failed, Done
  <2>c. s \in ManagerRecords
    BY <1>k, <1>s, ManagerFields, ZenonT(30)
  <2>f. /\ s.queue = x /\ s.saving = m.saving /\ s.state = "invalid" /\ s.last = y
        /\ s.stale = m.stale /\ s.manager = m.manager /\ s.halfSaved = m.halfSaved
    BY <1>k DEF ManagerRecords
  <2> HIDE DEF s
  <2>4. Saving(s) <=> Saving(m)
    BY <2>f DEF Saving
  <2>e. LinkOK(s, v, P)
    BY <1>k, <2>1, <2>2, <2>3, <2>4, <2>f DEF LinkOK, Owned, Told, Asked
  <2> QED BY <1>k, <2>a, <2>c, <2>e DEF AppleTypeOK
<1>6. ASSUME NEW p \in Profiles, BeginStart(p) /\ UNCHANGED prefs
      PROVE  AppleTypeOK' /\ LinkOK(tm, vpn, prefs)'
  <2>1. PICK x \in JobLists :
            /\ x = Tail(m.queue)
            /\ \A l : Has(m.queue, l) <=> Has(x, l) \/ l = "start"
            /\ Known(x, P)
            /\ \A l : After(m.queue, l) => After(x, l)
    <3>1. Job("start", 0)
      BY <1>6 DEF BeginStart
    <3>2. m.queue # <<>> /\ Head(m.queue) = [kind |-> "start", profile |-> 0]
      BY <1>r, <3>1 DEF Job
    <3>3. Known(m.queue, P)
      BY <1>k
    <3> QED BY <3>2, <3>3, Taken
  <2>2. PICK f \in [Profiles -> Nat] : f = [m.saving EXCEPT ![p] = m.saving[p] + 1]
    <3>1. m.saving[p] + 1 \in Nat
      BY <1>t
    <3> QED BY <1>t, <3>1
  <2>3. f[p] > 0
    BY <1>t, <2>2
  <2> DEFINE s == [[m EXCEPT !.queue = x] EXCEPT !.state = "connecting", !.saving = f,
                                                 !.stale = TRUE]
  <2>a. tm' = s /\ vpn' = v /\ prefs' = P
    <3>1. [m EXCEPT !.queue = x].saving = m.saving
      BY <1>k DEF ManagerRecords
    <3>2. tm' = [[m EXCEPT !.queue = x] EXCEPT !.state = "connecting", !.saving[p] = @ + 1,
                                               !.stale = TRUE]
      BY <1>r, <1>6, <2>1 DEF BeginStart, Done
    <3> QED BY <1>k, <1>r, <1>6, <2>2, <3>1, <3>2 DEF BeginStart, ManagerRecords
  <2>c. s \in ManagerRecords
    BY <1>k, <1>s, ManagerFields, ZenonT(30)
  <2>f. /\ s.queue = x /\ s.saving = f /\ s.last = m.last
        /\ s.stale = TRUE /\ s.manager = m.manager /\ s.halfSaved = m.halfSaved
    BY <1>k DEF ManagerRecords
  <2> HIDE DEF s
  <2>4. Saving(s)
    BY <2>3, <2>f DEF Saving
  <2>e. LinkOK(s, v, P)
    BY <1>k, <2>1, <2>4, <2>f DEF LinkOK, Owned, Told, Asked
  <2> QED BY <1>k, <2>a, <2>c, <2>e DEF AppleTypeOK
<1>7. ASSUME NEW p \in Profiles, Saved(p) \/ StartThrows(p), UNCHANGED prefs
      PROVE  AppleTypeOK' /\ LinkOK(tm, vpn, prefs)'
  <2>1. PICK x \in JobLists :
            /\ x = Tail(m.queue)
            /\ \A l : Has(m.queue, l) <=> Has(x, l) \/ l = "saved"
            /\ Known(x, P) /\ p \in P
            /\ \A l : After(m.queue, l) => After(x, l)
    <3>1. m.queue # <<>> /\ Head(m.queue) = [kind |-> "saved", profile |-> p]
      BY <1>r, <1>7 DEF Saved, StartThrows, Job
    <3> QED BY <1>k, <3>1, Taken
  <2>2. p \in P /\ p \in 0 .. MaxProfiles /\ m.last # "stop"
    BY <1>k, <1>z, <2>1 DEF Asked
  <2>3. ASSUME NEW s, s \in ManagerRecords, s.queue = x, s.manager = p,
               s.halfSaved = m.halfSaved
        PROVE  Known(s.queue, P) /\ Owned(s, P)
    BY <1>k, <2>1, <2>2, <2>3 DEF Owned
  <2>4. CASE Saved(p)
    <3>1. PICK y \in {"none", "start"} :
             y = IF Status(p) = "disconnecting" THEN "none" ELSE m.last
      BY <1>t, <2>2
    <3> DEFINE s == [[m EXCEPT !.queue = x] EXCEPT !.manager = p, !.last = y]
    <3>2. Starts(p, s)
      <4>1. [m EXCEPT !.queue = x].last = m.last
        BY <1>k DEF ManagerRecords
      <4> QED BY <1>r, <2>1, <2>4, <3>1, <4>1 DEF Saved, Done
    <3>3. s \in ManagerRecords
      BY <1>k, <2>2, ManagerFields, ZenonT(30)
    <3>4. /\ s.queue = x /\ s.saving = m.saving /\ s.last = y /\ s.state = m.state
          /\ s.stale = m.stale /\ s.manager = p /\ s.halfSaved = m.halfSaved
      BY <1>k DEF ManagerRecords
    <3> HIDE DEF s
    <3>5. Told(s, v, P)
      BY <1>k, <2>1, <3>4 DEF Told
    <3>6. tm' \in ManagerRecords /\ vpn' \in ConnectionRecords /\ LinkOK(tm', vpn', prefs)
      BY <1>r, <1>k, <2>2, <2>3, <3>1, <3>2, <3>3, <3>4, <3>5, VpnStarts
    <3> QED BY <1>7, <1>r, <3>6 DEF AppleTypeOK
  <2>5. CASE StartThrows(p)
    <3> DEFINE s == [[m EXCEPT !.queue = x] EXCEPT !.manager = p, !.state = "invalid",
                                                   !.last = "none"]
    <3>a. tm' = s /\ vpn' = v /\ prefs' = P
      BY <1>r, <1>7, <2>1, <2>5 DEF StartThrows, Done
    <3>c. s \in ManagerRecords
      BY <1>k, <1>s, <2>2, ManagerFields, ZenonT(30)
    <3>f. /\ s.queue = x /\ s.state = "invalid" /\ s.last = "none" /\ s.manager = p
          /\ s.halfSaved = m.halfSaved
      BY <1>k DEF ManagerRecords
    <3> HIDE DEF s
    <3>e. LinkOK(s, v, P)
      BY <1>k, <2>1, <2>3, <3>c, <3>f DEF LinkOK, Told, Asked
    <3> QED BY <1>k, <3>a, <3>c, <3>e DEF AppleTypeOK
  <2> QED BY <1>7, <2>4, <2>5
<1>8. CASE TunnelFails /\ UNCHANGED prefs
  <2>1. v.applying /\ v.status # "disconnected" /\ v.profile \in P
        /\ v.status \in {"connecting", "disconnecting"}
    BY <1>r, <1>k, <1>8, <1>d DEF TunnelFails, Linked
  <2>2. PICK n \in ManagerRecords :
            /\ n = Notified(m, v.profile) /\ n.last = m.last
            /\ Known(n.queue, P) /\ Owned(n, P)
            /\ \A y : (Asked(m, y) => Asked(n, y)) /\ Told(n, y, P)
    BY <1>k, <2>1, Notification
  <2>3. PICK y \in {"none", "start", "stop"} :
            y = IF v.status = "connecting" THEN "none" ELSE n.last
    BY <1>t, <2>2
  <2> DEFINE s == [n EXCEPT !.last = y]
  <2> DEFINE w == [[v EXCEPT !.status = "disconnecting"]
                   EXCEPT !.applying = FALSE, !.stopping = "done"]
  <2>a. tm' = s /\ vpn' = w /\ prefs' = P
    BY <1>r, <1>8, <2>2, <2>3 DEF TunnelFails, Becomes
  <2>c. s \in ManagerRecords
    BY ManagerFields
  <2>d. w \in ConnectionRecords
    BY <1>k, <1>s, ConnectionFields, ZenonT(30)
  <2>f. /\ s.queue = n.queue /\ s.saving = n.saving /\ s.state = n.state /\ s.last = y
        /\ s.stale = n.stale /\ s.manager = n.manager /\ s.halfSaved = n.halfSaved
    BY DEF ManagerRecords
  <2>g. /\ w.status = "disconnecting" /\ ~w.applying /\ w.next = v.next
        /\ w.profile = v.profile
    BY <1>k DEF ConnectionRecords
  <2> HIDE DEF s, w
  <2>4. Saving(s) <=> Saving(n)
    BY <2>f DEF Saving
  <2>5. Asked(s, w)
    BY <1>k, <2>1, <2>2, <2>3, <2>4, <2>f, <2>g DEF Asked
  <2>6. Linked(w, P)
    BY <1>k, <2>1, <2>g DEF Linked
  <2>7. Owned(s, P) /\ Told(s, w, P)
    <3>1. Told(n, w, P)
      BY <2>2
    <3> QED BY <2>2, <2>f, <3>1 DEF Owned, Told
  <2>e. LinkOK(s, w, P)
    BY <2>2, <2>5, <2>6, <2>7, <2>f DEF LinkOK
  <2> QED BY <1>k, <2>a, <2>c, <2>d, <2>e DEF AppleTypeOK
<1>9. CASE StopTunnelApple /\ UNCHANGED prefs
  <2> DEFINE w == [v EXCEPT !.session = 0, !.stopping = "done"]
  <2>a. tm' = m /\ vpn' = w /\ prefs' = P /\ v.status # "disconnected"
    BY <1>r, <1>9, <1>d DEF StopTunnelApple
  <2>d. w \in ConnectionRecords
    BY <1>k, <1>z, ConnectionFields, ZenonT(30)
  <2>g. /\ w.status = v.status /\ w.applying = v.applying /\ w.session = 0
        /\ w.profile = v.profile /\ w.next = v.next
    BY <1>k DEF ConnectionRecords
  <2> HIDE DEF w
  <2>e. LinkOK(m, w, P)
    BY <1>k, <2>a, <2>g DEF LinkOK, Linked, Asked, Told
  <2> QED BY <1>k, <2>a, <2>d, <2>e DEF AppleTypeOK
<1>10. ASSUME NEW d \in Sessions, TunnelStarts(d), UNCHANGED prefs
       PROVE  AppleTypeOK' /\ LinkOK(tm, vpn, prefs)'
  <2>1. v.applying /\ v.status # "disconnected" /\ v.profile \in P
    BY <1>r, <1>k, <1>10, <1>d DEF TunnelStarts
  <2> DEFINE u == [v EXCEPT !.session = d, !.applying = FALSE]
  <2>2. u \in ConnectionRecords
    BY <1>k, <1>z, ConnectionFields, ZenonT(30)
  <2>3. /\ u.status = v.status /\ ~u.applying /\ u.profile = v.profile /\ u.next = v.next
        /\ u.raced = v.raced
    BY <1>k DEF ConnectionRecords
  <2>4. CASE v.status = "connecting"
    <3> DEFINE w == [u EXCEPT !.status = "connected"]
    <3>a. tm' = Notified(m, v.profile) /\ vpn' = w /\ prefs' = P
      BY <1>r, <1>10, <2>4 DEF TunnelStarts, Becomes
    <3> HIDE DEF u
    <3>d. w \in ConnectionRecords
      BY <1>s, <2>2, ConnectionFields
    <3>g. /\ w.status = "connected" /\ ~w.applying /\ w.profile = v.profile
          /\ w.next = v.next
      BY <2>2, <2>3 DEF ConnectionRecords
    <3> HIDE DEF w
    <3>1. Linked(w, P) /\ Asked(m, w)
      BY <1>k, <2>1, <2>4, <3>g DEF Linked, Asked
    <3>2. PICK n \in ManagerRecords :
              /\ n = Notified(m, v.profile)
              /\ Known(n.queue, P) /\ Owned(n, P) /\ Asked(n, w) /\ Told(n, w, P)
      BY <1>k, <2>1, <3>1, Notification
    <3> QED BY <1>k, <3>a, <3>d, <3>1, <3>2 DEF LinkOK, AppleTypeOK
  <2>5. CASE v.status # "connecting"
    <3>1. PICK c \in SUBSET Sessions :
             c = IF v.stopping = "done" THEN v.raced \cup {d} ELSE v.raced
      BY <1>t
    <3> DEFINE w == [u EXCEPT !.raced = c]
    <3>a. tm' = m /\ vpn' = w /\ prefs' = P
      BY <1>r, <1>10, <2>3, <2>5, <3>1 DEF TunnelStarts
    <3> HIDE DEF u
    <3>d. w \in ConnectionRecords
      BY <2>2, ConnectionFields
    <3>g. /\ w.status = v.status /\ ~w.applying /\ w.profile = v.profile
          /\ w.next = v.next
      BY <2>2, <2>3 DEF ConnectionRecords
    <3> HIDE DEF w
    <3>e. LinkOK(m, w, P)
      BY <1>k, <2>1, <3>g DEF LinkOK, Linked, Asked, Told
    <3> QED BY <1>k, <3>a, <3>d, <3>e DEF AppleTypeOK
  <2> QED BY <2>4, <2>5
<1>11. CASE UtunUp
  BY <1>11, <1>r DEF UtunUp, appleVars, AppleTypeOK
<1>12. CASE ProviderEnds
  <2>1. v.status # "disconnected" /\ v.profile \in P
    BY <1>r, <1>12, <1>d DEF ProviderEnds
  <2> DEFINE w == IF v.next = 0 THEN NoConnection ELSE StartVpn(v.next)
  <2>2. /\ w \in ConnectionRecords /\ Linked(w, P)
        /\ v.next # 0 => w.status = "connecting" /\ w.profile = v.next
        /\ v.next = 0 => w.status = "disconnected" /\ w.next = 0
    <3>1. NoConnection \in ConnectionRecords /\ Linked(NoConnection, P)
      BY <1>z, SessionsAssumption DEF NoConnection, ConnectionRecords, Statuses, Linked
    <3>2. ASSUME v.next # 0
          PROVE  /\ StartVpn(v.next) \in ConnectionRecords
                 /\ StartVpn(v.next).status = "connecting"
                 /\ StartVpn(v.next).profile = v.next /\ StartVpn(v.next).next = 0
                 /\ StartVpn(v.next).session = 0
      BY <1>t, <1>z DEF StartVpn, NoConnection, ConnectionRecords, Statuses
    <3>3. ASSUME v.next # 0 PROVE Linked(StartVpn(v.next), P)
      BY <1>k, <3>2, <3>3 DEF Linked
    <3>4. NoConnection.status = "disconnected" /\ NoConnection.next = 0
      BY DEF NoConnection
    <3> QED BY <3>1, <3>2, <3>3, <3>4
  <2>3. vpn' = w /\ prefs' = P
    BY <1>r, <1>12 DEF ProviderEnds
  <2> HIDE DEF w
  <2>4. PICK n \in ManagerRecords :
            /\ n = Notified(m, v.profile) /\ n.last = m.last
            /\ Known(n.queue, P) /\ Owned(n, P)
            /\ \A y : (Asked(m, y) => Asked(n, y)) /\ Told(n, y, P)
    BY <1>k, <2>1, Notification
  <2>5. PICK o \in ManagerRecords :
            /\ o = (IF v.next = 0 THEN n ELSE Notified(n, v.next)) /\ o.last = m.last
            /\ Known(o.queue, P) /\ Owned(o, P) /\ Told(o, w, P)
            /\ Asked(m, v) => Asked(o, v)
    <3>1. CASE v.next = 0
      BY <2>4, <3>1
    <3>2. CASE v.next # 0
      <4>1. v.next \in P
        BY <1>k, <3>2 DEF Linked
      <4> QED BY <1>k, <2>4, <3>2, <4>1, Notification
    <3> QED BY <3>1, <3>2
  <2>6. PICK y \in {"none", "start", "stop"} :
            y = IF v.status = "disconnecting" THEN o.last ELSE "none"
    BY <1>t, <2>5
  <2> DEFINE s == [o EXCEPT !.last = y]
  <2>a. tm' = s
    BY <1>r, <1>12, <2>4, <2>5, <2>6 DEF ProviderEnds
  <2>c. s \in ManagerRecords
    BY ManagerFields
  <2>f. /\ s.queue = o.queue /\ s.saving = o.saving /\ s.state = o.state /\ s.last = y
        /\ s.stale = o.stale /\ s.manager = o.manager /\ s.halfSaved = o.halfSaved
    BY DEF ManagerRecords
  <2> HIDE DEF s
  <2>7. Saving(s) <=> Saving(o)
    BY <2>f DEF Saving
  <2>8. Asked(s, w)
    BY <1>k, <2>2, <2>5, <2>6, <2>7, <2>f DEF Asked
  <2>9. Owned(s, P) /\ Told(s, w, P)
    BY <2>5, <2>f DEF Owned, Told
  <2> QED BY <1>k, <2>2, <2>3, <2>5, <2>8, <2>9, <2>a, <2>c, <2>f DEF LinkOK, AppleTypeOK
<1>13. CASE FromSettings
  <2>1. m.taps + 1 \in 0 .. MaxTaps /\ prefs' = P
    BY <1>r, <1>t, <1>13, TapsAssumption DEF FromSettings
  <2> DEFINE s == [m EXCEPT !.taps = m.taps + 1, !.last = "none"]
  <2>2. PICK p \in P : Starts(p, s) \/ Stops(p, s)
    BY <1>r, <1>13 DEF FromSettings
  <2>3. s \in ManagerRecords
    BY <1>k, <2>1, ManagerFields, ZenonT(30)
  <2>4. /\ s.queue = m.queue /\ s.last = "none" /\ s.manager = m.manager
        /\ s.halfSaved = m.halfSaved /\ s.stale = m.stale /\ s.state = m.state
    BY <1>k DEF ManagerRecords
  <2> HIDE DEF s
  <2>5. Known(s.queue, P) /\ Owned(s, P) /\ Told(s, v, P)
    BY <1>k, <2>4 DEF Owned, Told
  <2>6. tm' \in ManagerRecords /\ vpn' \in ConnectionRecords /\ LinkOK(tm', vpn', prefs)
    <3>1. CASE Starts(p, s)
      BY <1>r, <1>k, <2>3, <2>4, <2>5, <3>1, VpnStarts
    <3>2. CASE Stops(p, s)
      BY <1>r, <1>k, <2>3, <2>4, <2>5, <3>2, VpnStops
    <3> QED BY <2>2, <3>1, <3>2
  <2> QED BY <1>r, <2>1, <2>6 DEF AppleTypeOK
<1>14. CASE AnswerLoad
  <2>1. m.loading - 1 \in 0 .. 2 /\ vpn' = v /\ prefs' = P
    BY <1>r, <1>t, <1>14 DEF AnswerLoad
  <2>2. PICK k \in {"loaded", "loadFailed"}, p \in P \cup {0} :
            /\ tm' = [Queued(tm, k, p) EXCEPT !.loading = @ - 1]
            /\ k = "loaded" /\ p = 0 => P = {}
    <3>1. PICK n \in {Queued(tm, "loadFailed", 0)}
                      \cup {Queued(tm, "loaded", p) : p \in IF P = {} THEN {0} ELSE P} :
             tm' = [n EXCEPT !.loading = @ - 1]
      BY <1>r, <1>14 DEF AnswerLoad
    <3>2. CASE n = Queued(tm, "loadFailed", 0)
      BY <3>1, <3>2
    <3>3. CASE n # Queued(tm, "loadFailed", 0)
      <4>1. PICK p \in (IF P = {} THEN {0} ELSE P) : n = Queued(tm, "loaded", p)
        BY <3>3
      <4> QED BY <1>z, <3>1, <4>1
    <3> QED BY <3>2, <3>3
  <2>3. p \in 0 .. MaxProfiles
    BY <1>z
  <2>4. PICK x \in JobLists :
            /\ Queued(m, k, p) = [m EXCEPT !.queue = x]
            /\ \A l : Has(x, l) <=> Has(m.queue, l) \/ l = k
            /\ Known(x, P)
            /\ k # "loaded" \/ p # 0 => \A l : After(m.queue, l) => After(x, l)
    <3>1. k \in Kinds /\ Fits(k, p, P)
      BY <2>2 DEF Kinds, Fits
    <3> QED BY <1>k, <2>3, <3>1, Put
  <2> DEFINE s == [[m EXCEPT !.queue = x] EXCEPT !.loading = m.loading - 1]
  <2>a. tm' = s
    <3>1. [m EXCEPT !.queue = x].loading = m.loading
      BY <1>k DEF ManagerRecords
    <3> QED BY <1>r, <2>2, <2>4, <3>1
  <2>c. s \in ManagerRecords
    BY <1>k, <2>1, ManagerFields, ZenonT(30)
  <2>f. /\ s.queue = x /\ s.saving = m.saving /\ s.state = m.state /\ s.last = m.last
        /\ s.stale = m.stale /\ s.manager = m.manager /\ s.halfSaved = m.halfSaved
    BY <1>k DEF ManagerRecords
  <2> HIDE DEF s
  <2>5. Saving(s) <=> Saving(m)
    BY <2>f DEF Saving
  <2>e. LinkOK(s, v, P)
    BY <1>k, <2>2, <2>4, <2>5, <2>f DEF LinkOK, Owned, Told, Asked
  <2> QED BY <1>k, <2>1, <2>a, <2>c, <2>e DEF AppleTypeOK
<1>15. ASSUME NEW p \in Profiles, AnswerSave(p)
       PROVE  AppleTypeOK' /\ LinkOK(tm, vpn, prefs)'
  <2>1. PICK f \in [Profiles -> Nat] : f = [m.saving EXCEPT ![p] = m.saving[p] - 1]
    <3>1. m.saving[p] \in Nat /\ m.saving[p] > 0
      BY <1>r, <1>t, <1>15 DEF AnswerSave
    <3>2. m.saving[p] - 1 \in Nat
      BY <3>1
    <3> QED BY <1>t, <3>2
  <2>2. Saving(m) /\ vpn' = v
    BY <1>r, <1>15 DEF AnswerSave, Saving
  <2> DEFINE n == [m EXCEPT !.saving = f]
  <2>3. [tm EXCEPT !.saving[p] = @ - 1] = n
    BY <1>r, <1>k, <2>1 DEF ManagerRecords
  <2>4. n \in ManagerRecords
    BY <1>k, ManagerFields
  <2>5. /\ n.queue = m.queue /\ n.state = m.state /\ n.last = m.last
        /\ n.stale = m.stale /\ n.manager = m.manager /\ n.halfSaved = m.halfSaved
    BY <1>k DEF ManagerRecords
  <2> HIDE DEF n
  <2>6. PICK k \in {"saved", "saveFailed"}, h \in BOOLEAN, Q \in {P, P \cup {p}} :
            /\ tm' = [Queued(n, k, IF k = "saved" THEN p ELSE 0) EXCEPT !.halfSaved = h]
            /\ prefs' = Q
            /\ (h <=> m.halfSaved) \/ h
            /\ k = "saveFailed" => h \/ Q = P
            /\ k = "saved" => Q = P \cup {p}
    <3>1. ASSUME NEW k \in {"saved", "saveFailed"}, NEW g \in 0 .. MaxProfiles
          PROVE  Queued(n, k, g) = [Queued(n, k, g) EXCEPT !.halfSaved = m.halfSaved]
      <4>1. PICK x \in JobLists : Queued(n, k, g) = [n EXCEPT !.queue = x]
        <5>1. [kind |-> k, profile |-> g] \in Jobs
          BY <3>1, JobFields DEF Kinds
        <5>2. Append(n.queue, [kind |-> k, profile |-> g]) \in JobLists
          BY <1>t, <2>5, <5>1, Enqueued
        <5> QED BY <5>2 DEF Queued
      <4>2. PICK s \in ManagerRecords : s = [n EXCEPT !.queue = x]
        BY <2>4, ManagerFields
      <4>3. s.halfSaved = m.halfSaved
        BY <2>4, <2>5, <4>2 DEF ManagerRecords
      <4>4. s = [s EXCEPT !.halfSaved = m.halfSaved]
        BY <4>3 DEF ManagerRecords
      <4> QED BY <4>1, <4>2, <4>4
    <3>2. CASE prefs' = P \cup {p} /\ tm' = Queued(n, "saved", p)
      BY <1>t, <1>z, <3>1, <3>2
    <3>3. CASE prefs' = P \cup {p} /\ tm' = [Queued(n, "saveFailed", 0) EXCEPT !.halfSaved = TRUE]
      BY <3>3
    <3>4. CASE prefs' = P /\ tm' = Queued(n, "saveFailed", 0)
      BY <1>t, <1>z, <3>1, <3>4
    <3> QED BY <1>r, <1>15, <2>3, <3>2, <3>3, <3>4 DEF AnswerSave
  <2>7. PICK g \in 0 .. MaxProfiles : g = IF k = "saved" THEN p ELSE 0
    BY <1>z
  <2>8. Q \in SUBSET Profiles /\ P \subseteq Q /\ Known(m.queue, Q) /\ Linked(v, Q)
    BY <1>k, <2>6 DEF Known, Linked
  <2>9. PICK x \in JobLists :
            /\ Queued(n, k, g) = [n EXCEPT !.queue = x]
            /\ \A l : Has(x, l) <=> Has(n.queue, l) \/ l = k
            /\ Known(x, Q)
            /\ \A l : After(n.queue, l) \/ l = k => After(x, l)
    <3>1. k \in Kinds /\ k # "loaded" /\ Fits(k, g, Q) /\ Known(n.queue, Q)
      BY <1>z, <2>5, <2>6, <2>7, <2>8 DEF Kinds, Fits
    <3> QED BY <2>4, <3>1, Put
  <2> DEFINE s == [[n EXCEPT !.queue = x] EXCEPT !.halfSaved = h]
  <2>a. tm' = s
    BY <2>6, <2>7, <2>9
  <2>c. s \in ManagerRecords
    BY <2>4, ManagerFields, ZenonT(30)
  <2>f. /\ s.queue = x /\ s.state = m.state /\ s.last = m.last
        /\ s.stale = m.stale /\ s.manager = m.manager /\ s.halfSaved = h
    BY <2>4, <2>5 DEF ManagerRecords
  <2> HIDE DEF s
  <2>10. Asked(s, v)
    BY <1>k, <2>2, <2>5, <2>6, <2>9, <2>f DEF Asked
  <2>11. Told(s, v, Q)
    BY <1>k, <2>5, <2>6, <2>9, <2>8, <2>f DEF Told, Linked
  <2>12. Owned(s, Q)
    BY <1>k, <2>5, <2>6, <2>9, <2>8, <2>f DEF Owned
  <2> QED BY <1>k, <2>2, <2>6, <2>9, <2>8, <2>10, <2>11, <2>12, <2>a, <2>c, <2>f
          DEF LinkOK, AppleTypeOK
<1>16. CASE Manager
  BY <1>16, <1>3, <1>4, <1>5, <1>6, <1>7 DEF Manager
<1>17. CASE Provider
  BY <1>17, <1>8, <1>9, <1>10 DEF Provider
<1> QED
  BY <1>1, <1>2, <1>11, <1>12, <1>13, <1>14, <1>15, <1>16, <1>17 DEF AppleStep

\* A step of the Apple app leaves no session behind that runs and that
\* stopTunnel would not find.
LEMMA AppleSessions ==
  ASSUME IInv, AppleStep, platform = "apple", UNCHANGED platform
  PROVE  SessionTypeOK' /\ Stoppable'
<1> DEFINE Shrinks == \A e \in Sessions : Running(e)' => Running(e)
<1> DEFINE Same == vpn'.session = vpn.session /\ vpn'.raced = vpn.raced
<1>t. /\ SessionTypeOK /\ vpn \in ConnectionRecords /\ vpn.session \in 0 .. MaxSessions
      /\ vpn.raced \in SUBSET Sessions
  BY ConnectionFields DEF IInv, AppleTypeOK
<1>r. \A d \in Sessions : Running(d) => d = vpn.session \/ d \in vpn.raced
  BY DEF IInv, Stoppable, AppleHolds
<1>z. 0 \notin Sessions
  BY SessionsAssumption DEF Sessions
<1>q. ASSUME SessionTypeOK', Shrinks, Same
      PROVE  SessionTypeOK' /\ Stoppable'
  BY <1>q, <1>r DEF Stoppable, AppleHolds
<1>u. ASSUME UNCHANGED sessionVars PROVE SessionTypeOK' /\ Shrinks
  BY <1>u, <1>t DEF sessionVars, SessionTypeOK, Running
<1>1. CASE UNCHANGED sessionVars /\ Same
  BY <1>1, <1>q, <1>u
<1>stop. StopVpn.session = vpn.session /\ StopVpn.raced = vpn.raced
         /\ StopVpn \in ConnectionRecords
  BY <1>t DEF StopVpn, Becomes, ConnectionRecords, Statuses
<1>starts. ASSUME NEW p, NEW m, Starts(p, m) PROVE Same
  <2>1. vpn' = Started(p)
    BY <1>starts DEF Starts
  <2>2. CASE vpn.status = "disconnected"
    <3>1. Started(p) = StartVpn(p) /\ vpn = NoConnection
      BY <2>2 DEF Started, IInv, LinkOK, Linked
    <3>2. StartVpn(p).session = 0 /\ StartVpn(p).raced = {}
      BY DEF StartVpn, NoConnection
    <3> QED BY <2>1, <3>1, <3>2 DEF NoConnection
  <2>3. CASE vpn.status # "disconnected" /\ p \in {vpn.profile, vpn.next}
    BY <2>1, <2>3 DEF Started
  <2>4. CASE vpn.status # "disconnected" /\ p \notin {vpn.profile, vpn.next}
    <3> DEFINE w == IF vpn.status = "disconnecting" THEN vpn ELSE StopVpn
    <3>1. Started(p) = [w EXCEPT !.next = p]
      BY <2>4 DEF Started, ReplaceVpn
    <3>2. w \in ConnectionRecords /\ w.session = vpn.session /\ w.raced = vpn.raced
      BY <1>t, <1>stop
    <3> HIDE DEF w
    <3> QED BY <2>1, <3>1, <3>2 DEF ConnectionRecords
  <2> QED BY <2>2, <2>3, <2>4
<1>stops. ASSUME NEW p, NEW m, Stops(p, m) PROVE Same
  <2>1. vpn' = StopVpn \/ vpn' = [vpn EXCEPT !.next = 0]
    BY <1>stops DEF Stops
  <2> QED BY <2>1, <1>t, <1>stop DEF ConnectionRecords
<1>2. CASE TunnelFails
  <2>1. SessionTypeOK' /\ Shrinks
    <3>1. CASE UNCHANGED tun
      BY <1>2, <3>1, <1>u DEF TunnelFails, sessionVars
    <3>2. CASE \E d \in Sessions : ConnectFails(d)
      BY <1>2, <3>2, <1>t, FailSession DEF TunnelFails
    <3> QED BY <1>2, <3>1, <3>2 DEF TunnelFails
  <2>2. Same
    BY <1>2, <1>t DEF TunnelFails, Becomes, ConnectionRecords
  <2> QED BY <1>q, <2>1, <2>2
<1>3. CASE StopTunnelApple
  <2>1. PICK h \in 0 .. MaxSessions : h = vpn.session /\ StopHeld(h) /\ UNCHANGED route
    BY <1>3, <1>t DEF StopTunnelApple
  <2>2. SessionTypeOK' /\ Shrinks /\ (h # 0 => ~Running(h)')
    BY <2>1, <1>t, StopSession
  <2>3. vpn'.session = 0 /\ vpn'.raced = vpn.raced
    BY <1>3, <1>t DEF StopTunnelApple, ConnectionRecords
  <2> QED BY <2>1, <2>2, <2>3, <1>r, <1>z DEF Stoppable, AppleHolds
<1>4. CASE \E d \in Sessions : TunnelStarts(d)
  <2>1. PICK d \in Sessions : TunnelStarts(d)
    BY <1>4
  <2>2. SessionTypeOK' /\ \A e \in Sessions \ {d} : Running(e)' => Running(e)
    BY <2>1, <1>t, ConnectSession DEF TunnelStarts
  <2>3. vpn.session = 0
    BY <2>1 DEF TunnelStarts, IInv, LinkOK, Linked
  <2> DEFINE w == [vpn EXCEPT !.session = d, !.applying = FALSE]
  <2>4. w.session = d /\ w.raced = vpn.raced /\ w \in ConnectionRecords
    <3>1. d \in 0 .. MaxSessions
      BY DEF Sessions
    <3> QED BY <1>t, <3>1 DEF ConnectionRecords
  <2>5. vpn'.session = d /\ vpn.raced \subseteq vpn'.raced
    <3>1. CASE vpn.status = "connecting"
      <4>1. vpn' = Becomes(w, "connected")
        BY <2>1, <3>1 DEF TunnelStarts
      <4> HIDE DEF w
      <4> QED BY <2>4, <4>1 DEF Becomes, ConnectionRecords
    <3>2. CASE vpn.status # "connecting"
      <4>1. vpn' = [w EXCEPT !.raced = IF vpn.stopping = "done" THEN @ \cup {d} ELSE @]
        BY <2>1, <3>2 DEF TunnelStarts
      <4> HIDE DEF w
      <4> QED BY <2>4, <4>1 DEF ConnectionRecords
    <3> QED BY <3>1, <3>2
  <2> QED BY <2>2, <2>3, <2>5, <1>r, <1>z DEF Stoppable, AppleHolds
<1>5. CASE UtunUp
  <2>1. SessionTypeOK' /\ Shrinks
    BY <1>5, <1>t, EstablishSession DEF UtunUp
  <2>2. Same
    BY <1>5 DEF UtunUp, appleVars
  <2> QED BY <1>q, <2>1, <2>2
<1>6. CASE ProviderEnds
  <2>1. SessionTypeOK' /\ \A e \in Sessions : ~Running(e)'
    BY <1>6, <1>t, GoneSession DEF ProviderEnds
  <2> QED BY <2>1 DEF Stoppable
<1>7. CASE TapStart
  BY <1>1, <1>7 DEF TapStart
<1>8. CASE TapStop
  <2>1. UNCHANGED sessionVars /\ (UNCHANGED vpn \/ \E m : Stops(tm.manager, m))
    BY <1>8 DEF TapStop
  <2> QED BY <1>1, <1>stops, <2>1
<1>9. CASE Manager
  <2>1. UNCHANGED sessionVars /\ (UNCHANGED vpn \/ \E p, m : Starts(p, m))
    BY <1>9 DEF Manager, Sync, Loaded, Failed, BeginStart, Saved, StartThrows
  <2> QED BY <1>1, <1>starts, <2>1
<1>10. CASE FromSettings
  <2>1. UNCHANGED sessionVars /\ \E p, m : Starts(p, m) \/ Stops(p, m)
    BY <1>10 DEF FromSettings
  <2> QED BY <1>1, <1>starts, <1>stops, <2>1
<1>11. CASE AnswerLoad \/ \E p \in Profiles : AnswerSave(p)
  BY <1>1, <1>11 DEF AnswerLoad, AnswerSave
<1> QED
  BY <1>2, <1>3, <1>4, <1>5, <1>6, <1>7, <1>8, <1>9, <1>10, <1>11 DEF AppleStep, Provider

-----------------------------------------------------------------------------
(* The theorems *)

\* The invariant holds at first.
LEMMA Initially ==
  ASSUME Init PROVE IInv
<1>1. SessionTypeOK /\ \A d \in Sessions : ~Running(d)
  BY SessionsAssumption DEF Init, SessionInit, SessionTypeOK, NoTun, TunRecords, Running
<1>2. svc \in ServiceRecords /\ Resting(svc) /\ svc.session = 0 /\ svc.isRunning = FALSE
      /\ svc.binder = "idle" /\ svc.inbox = Nothing
  <2>1. Nothing \in Boxes /\ {} \in SUBSET Sessions /\ 0 \in 0 .. MaxSessions
    BY Messages, SessionsAssumption
  <2>2. svc = [inbox |-> Nothing, main |-> "idle", binder |-> "idle", session |-> 0,
               isRunning |-> FALSE, requested |-> FALSE, alive |-> FALSE, raced |-> {}]
    BY DEF Init, AndroidInit, NewService, Nothing
  <2> QED BY <2>1, <2>2 DEF ServiceRecords, Boxes, Resting
<1>3. ui \in ActivityRecords /\ ui.last = "none" /\ ui.running = FALSE
  <2>1. 0 \in 0 .. MaxPresses
    BY PressesAssumption
  <2> QED BY <2>1 DEF Init, AndroidInit, ActivityRecords
<1>4. AppOK(svc, ui)
  BY <1>2, <1>3, Inboxes DEF AppOK, Fields, Intent, Shown, Dying
<1>5. /\ tm \in ManagerRecords /\ tm.last = "none" /\ tm.state = "disconnected"
      /\ tm.queue = <<>> /\ tm.manager = 0
  <2>1. /\ 0 \in 0 .. MaxTaps /\ <<>> \in Seq(Jobs) /\ 0 \in 0 .. MaxProfiles
        /\ [p \in Profiles |-> 0] \in [Profiles -> Nat]
    BY TapsAssumption, ProfilesAssumption
  <2>2. tm = [queue |-> <<>>, loading |-> 2, saving |-> [p \in Profiles |-> 0],
              state |-> "disconnected", manager |-> 0, taps |-> 0,
              last |-> "none", stale |-> FALSE, halfSaved |-> FALSE]
    BY DEF Init, AppleInit
  <2> QED BY <2>1, <2>2 DEF ManagerRecords, Statuses
<1>6. /\ vpn \in ConnectionRecords /\ vpn = NoConnection
      /\ vpn.status = "disconnected" /\ vpn.profile = 0 /\ vpn.next = 0 /\ ~vpn.applying
  BY SessionsAssumption, ProfilesAssumption
  DEF Init, AppleInit, NoConnection, ConnectionRecords, Statuses
<1>7. LinkOK(tm, vpn, prefs) /\ prefs \subseteq Profiles
  <2>1. Known(<<>>, prefs) /\ \A k : After(<<>>, k)
    BY DEF Known, After, Range
  <2>2. prefs \subseteq Profiles
    BY ProfilesAssumption DEF Init, AppleInit, Profiles
  <2> QED BY <1>5, <1>6, <2>1, <2>2 DEF LinkOK, Linked, Owned, Told, Asked
<1> QED
  BY <1>1, <1>2, <1>3, <1>4, <1>5, <1>6, <1>7
  DEF Init, IInv, AndroidTypeOK, AppleTypeOK, Reached, Stoppable

\* Every step keeps the invariant.
LEMMA Step ==
  ASSUME IInv, [Next]_vars PROVE IInv'
<1>0. platform' \in {"android", "apple"} /\ UNCHANGED platform
  BY DEF IInv, Next, vars
<1>1. CASE platform = "android" /\ AndroidStep /\ UNCHANGED appleVars
  <2>1. AndroidTypeOK' /\ AppOK(svc, ui)'
    BY <1>1, AppStep
  <2>2. SessionTypeOK' /\ Reached'
    BY <1>0, <1>1, AndroidSessions
  <2>3. AppleTypeOK' /\ LinkOK(tm, vpn, prefs)'
    BY <1>1 DEF IInv, appleVars, AppleTypeOK
  <2>4. Stoppable'
    BY <1>0, <1>1 DEF Stoppable
  <2> QED BY <1>0, <2>1, <2>2, <2>3, <2>4 DEF IInv
<1>2. CASE platform = "apple" /\ AppleStep /\ UNCHANGED androidVars
  <2>1. AppleTypeOK' /\ LinkOK(tm, vpn, prefs)'
    BY <1>2, AppleLink
  <2>2. SessionTypeOK' /\ Stoppable'
    BY <1>0, <1>2, AppleSessions
  <2>3. AndroidTypeOK' /\ AppOK(svc, ui)'
    BY <1>2 DEF IInv, androidVars, AndroidTypeOK
  <2>4. Reached'
    BY <1>0, <1>2 DEF Reached
  <2> QED BY <1>0, <2>1, <2>2, <2>3, <2>4 DEF IInv
<1>3. CASE /\ SessionStep \/ UNCHANGED sessionVars
           /\ UNCHANGED <<androidVars, appleVars>>
  <2>1. SessionTypeOK' /\ \A e \in Sessions : Running(e)' => Running(e)
    <3>1. CASE SessionStep
      BY <3>1, LoopSession DEF IInv
    <3>2. CASE UNCHANGED sessionVars
      BY <3>2 DEF IInv, sessionVars, SessionTypeOK, Running
    <3> QED BY <1>3, <3>1, <3>2
  <2>2. svc' = svc /\ ui' = ui /\ tm' = tm /\ vpn' = vpn /\ prefs' = prefs
    BY <1>3 DEF androidVars, appleVars
  <2>3. /\ AndroidTypeOK' /\ AppOK(svc, ui)'
        /\ AppleTypeOK' /\ LinkOK(tm, vpn, prefs)'
    BY <2>2 DEF IInv, AndroidTypeOK, AppleTypeOK
  <2>4. Stoppable'
    BY <1>0, <2>1, <2>2 DEF IInv, Stoppable, AppleHolds
  <2>5. Reached'
    <3>1. svc.session # 0 => svc.session \in Sessions
      <4>1. svc.session \in 0 .. MaxSessions
        BY ServiceFields DEF IInv, AndroidTypeOK
      <4> QED BY <4>1 DEF Sessions
    <3> QED BY <1>0, <2>1, <2>2, <3>1 DEF IInv, Reached, AndroidHolds
  <2> QED BY <1>0, <2>1, <2>3, <2>4, <2>5 DEF IInv
<1> QED
  BY <1>1, <1>2, <1>3 DEF Next, vars, sessionVars, androidVars, appleVars

\* The inductive invariant holds in every reachable state.
THEOREM Inductive == Spec => []IInv
<1>1. Init => IInv
  BY Initially
<1>2. IInv /\ [Next]_vars => IInv'
  BY Step
<1> QED BY <1>1, <1>2, PTL DEF Spec

\* Every session that runs is one that a STOP would stop, unless onRevoke or
\* stopTunnel came before Connect returned; so two sessions run at the same
\* time only if that has happened to one of them
\* (LibertyVpnService.kt:64-80, PacketTunnelProvider.swift:43-66).
THEOREM InReach == Spec => []MobileInv
<1>1. IInv => MobileInv
  BY DEF IInv, MobileInv, Reached, Stoppable, Holds
<1> QED BY <1>1, Inductive, PTL

\* When all is quiet the tunnel is up exactly if the user pressed START last,
\* and the window says what is so; on an Apple device, while there is at most
\* one profile, it says so or shows an error, and STOP would act on the tunnel
\* that is up.  The exceptions are those that LastPressWins names
\* (LibertyVpnService.kt:130-132, TunnelManager.swift:29-32, 53-63, 79-82).
THEOREM LastPress == Spec => []LastPressWins
<1>1. ASSUME IInv, platform = "android" PROVE AndroidTruth
  <2>1. ASSUME ~Busy
        PROVE  svc.inbox = Nothing /\ svc.main = "idle" /\ svc.binder = "idle"
    BY <2>1 DEF Busy, Threads, Nothing
  <2>2. AppOK(svc, ui) /\ svc.isRunning \in BOOLEAN /\ ui.running \in BOOLEAN
        /\ ui.last \in {"none", "start", "stop"}
    <3>1. svc \in ServiceRecords /\ ui \in ActivityRecords /\ AppOK(svc, ui)
      BY <1>1 DEF IInv, AndroidTypeOK
    <3> QED BY <3>1, ServiceFields, ActivityFields, Zenon
  <2>3. ASSUME ~Busy, ui.shown, ~ui.stale PROVE ui.running <=> svc.isRunning
    BY <2>1, <2>2, <2>3, Inboxes DEF AppOK, Shown, Resting, Starting, Stopping
  <2>4. ASSUME ~Busy, ui.last # "none"
        PROVE  /\ svc.isRunning <=> ui.last = "start"
               /\ svc.session # 0 <=> ui.last = "start"
    BY <2>1, <2>2, <2>4, Inboxes DEF AppOK, Intent, Resting, Starting, Stopping
  <2>5. ASSUME ~Busy, ui.shown, ~ui.stale PROVE ui.running = svc.isRunning
    BY <2>2, <2>3, <2>5
  <2> QED BY <2>4, <2>5 DEF AndroidTruth
<1>2. ASSUME IInv, platform = "apple" PROVE AppleTruth
  <2>1. /\ LinkOK(tm, vpn, prefs) /\ tm.last \in {"none", "start", "stop"}
        /\ tm.manager \in 0 .. MaxProfiles
    <3>1. tm \in ManagerRecords /\ LinkOK(tm, vpn, prefs)
      BY <1>2 DEF IInv, AppleTypeOK
    <3> QED BY <3>1, ManagerFields, Zenon
  <2>2. \A k : ~Has(<<>>, k)
    BY DEF Has, Range
  <2>3. ASSUME tm.queue = <<>>, ~Saving(tm),
               vpn.status \in {"disconnected", "connected"}
        PROVE  /\ tm.last # "none" => (vpn.status = "connected" <=> tm.last = "start")
               /\ OneProfile /\ ~tm.stale => tm.state \in {vpn.status, "invalid"}
               /\ OneProfile /\ ~tm.halfSaved /\ tm.manager # 0 =>
                     vpn.profile \in {0, tm.manager}
    <3>1. vpn.next = 0
      BY <2>1, <2>3 DEF LinkOK, Linked
    <3>2. tm.last # "none" => (vpn.status = "connected" <=> tm.last = "start")
      BY <2>1, <2>2, <2>3, <3>1 DEF LinkOK, Asked
    <3>3. OneProfile /\ ~tm.stale => tm.state \in {vpn.status, "invalid"}
      BY <2>1, <2>2, <2>3 DEF LinkOK, Told, OneProfile
    <3>4. OneProfile /\ ~tm.halfSaved /\ tm.manager # 0 => vpn.profile \in {0, tm.manager}
      BY <2>1, <2>2, <2>3 DEF LinkOK, Linked, Owned, OneProfile
    <3> QED BY <3>2, <3>3, <3>4
  <2> QED BY <2>3 DEF AppleTruth
<1>3. IInv => LastPressWins
  BY <1>1, <1>2 DEF LastPressWins, IInv
<1> QED BY <1>3, Inductive, PTL
=============================================================================
