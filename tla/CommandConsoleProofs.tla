-------------------------- MODULE CommandConsoleProofs --------------------------
(****************************************************************************)
(* The console program against the live server, for every timeout of both   *)
(* configurations and every bound: a verdict it reports is the one on its    *)
(* own order, and it never runs out of reviews before the verdict.          *)
(*                                                                          *)
(* A step of the program and the server is a step of the server's module or *)
(* leaves its variables alone, so what SocketLiveTransportProofs shows of   *)
(* the session and the queues is there to use.                              *)
(****************************************************************************)
EXTENDS CommandConsole, SocketLiveTransportProofs

--------------------------------------------------------------------------------
(****************************************************************************)
(* What a session keeps from one step of the server to the next             *)
(****************************************************************************)

\* An order is given and no rejection has spoilt it.
OrderGiven(s) ==
    s.order \in {"Accepted", "Executing", "Completed"} /\ s.code # "InvalidTransition"

\* The phases between an order and its verdict.
UnderWay(s) == s.phase \in {"EngageOrdered", "Intercepting"}

OrdersLogged(s) == s.log.count["EngageOrderAccepted"]

\* One order is in the log from the order on, none before.
OrderCount(s) ==
    /\ s.phase \in {"Standby", "Detecting", "Tracking", "InterceptorReady"} => OrdersLogged(s) = 0
    /\ UnderWay(s) \/ s.ready => OrdersLogged(s) = 1

\* Whatever is commanded: a verdict stays, orders are counted, and only an
\* assessed run is archived.
Settles(s, t) ==
    /\ s.ready => t.ready /\ t.code = s.code
    /\ OrderCount(s) => OrderCount(t)
    /\ t.phase = "Archived" => t.ready \/ s.phase = "Archived"

\* Without a command: an order stays given and the timeout the same.
Carries(s, t) ==
    /\ t.timeoutTicks = s.timeoutTicks
    /\ s.code # "InvalidTransition" => t.code # "InvalidTransition"
    /\ OrderGiven(s) => OrderGiven(t)

\* No tick between s and t.
SameClock(s, t) == UnderWay(t) => UnderWay(s) /\ t.tick = s.tick /\ t.started = s.started

Undisturbed(s, t) == Settles(s, t) /\ Carries(s, t) /\ SameClock(s, t)

LEMMA UndisturbedItself ==
    ASSUME NEW s
    PROVE  Undisturbed(s, s)
BY DEF Undisturbed, Settles, Carries, SameClock

LEMMA UndisturbedTransitive ==
    ASSUME NEW s, NEW t, NEW u, Undisturbed(s, t), Undisturbed(t, u)
    PROVE  Undisturbed(s, u)
<1>1. Settles(s, u)
  BY DEF Undisturbed, Settles
<1>2. Carries(s, u)
  BY DEF Undisturbed, Carries
<1>3. SameClock(s, u)
  BY DEF Undisturbed, SameClock
<1>4. QED
  BY <1>1, <1>2, <1>3 DEF Undisturbed

\* The same mission with as many orders logged.
LEMMA SameMissionUndisturbed ==
    ASSUME NEW s, NEW t, SameMission(s, t), OrdersLogged(t) = OrdersLogged(s)
    PROVE  Undisturbed(s, t)
<1>1. Settles(s, t)
  BY DEF SameMission, Settles, OrderCount, UnderWay
<1>2. Carries(s, t) /\ SameClock(s, t)
  BY DEF SameMission, Carries, OrderGiven, SameClock, UnderWay
<1>3. QED
  BY <1>1, <1>2 DEF Undisturbed

\* Events other than an accepted order, and snapshots, log no order.
LEMMA EventsLogNoOrder ==
    ASSUME NEW s \in Session, NEW type \in EventType
    PROVE  /\ type # "EngageOrderAccepted" =>
                 OrdersLogged(PushEvent(s, type)) = OrdersLogged(s)
           /\ OrdersLogged(RecordSnapshot(s)) = OrdersLogged(s)
<1>1. s.log \in EventLog /\ "EngageOrderAccepted" \in EventType
  BY DEF Session, EventType
<1>2. PushEvent(s, type).log = Logged(s.log, type) /\ RecordSnapshot(s).log = s.log
  BY DEF PushEvent, RecordSnapshot, Session
<1>3. type # "EngageOrderAccepted" =>
         Logged(s.log, type).count["EngageOrderAccepted"] = s.log.count["EngageOrderAccepted"]
  BY <1>1 DEF Logged, EventLog
<1>4. QED
  BY <1>2, <1>3 DEF OrdersLogged

\* So does a track event, and each kind of rejection.
LEMMA TrackEventsLogNoOrder ==
    ASSUME NEW s \in Session, NEW tracked \in BOOLEAN
    PROVE  /\ OrdersLogged(PushTrackEvent(s, "TrackUpdated", tracked)) = OrdersLogged(s)
           /\ OrdersLogged(PushTrackEvent(s, "EngageOrderAccepted", tracked))
                 = OrdersLogged(s) + 1
<1> DEFINE profiled(type) == [Logged(s.log, type) EXCEPT
                                 !.profile = IF tracked THEN "Tracked" ELSE "Untracked"]
<1>1. s.log \in EventLog /\ {"EngageOrderAccepted", "TrackUpdated"} \subseteq EventType
  BY DEF Session, EventType
<1>2. \A type \in EventType : PushTrackEvent(s, type, tracked).log = profiled(type)
  BY DEF PushTrackEvent, Session
<1>3. \A type \in EventType : profiled(type).count = [s.log.count EXCEPT ![type] = @ + 1]
  BY <1>1 DEF Logged, EventLog
<1>4. s.log.count \in [EventType -> Nat]
  BY <1>1 DEF EventLog
<1> HIDE DEF profiled
<1>5. \A type \in EventType :
         PushTrackEvent(s, type, tracked).log.count = [s.log.count EXCEPT ![type] = @ + 1]
  BY <1>2, <1>3
<1>6. OrdersLogged(PushTrackEvent(s, "TrackUpdated", tracked)) = OrdersLogged(s)
  <2>1. PushTrackEvent(s, "TrackUpdated", tracked).log.count
           = [s.log.count EXCEPT !["TrackUpdated"] = @ + 1]
    BY <1>1, <1>5
  <2>2. QED
    BY <1>1, <1>4, <2>1 DEF OrdersLogged
<1>7. OrdersLogged(PushTrackEvent(s, "EngageOrderAccepted", tracked)) = OrdersLogged(s) + 1
  <2>1. PushTrackEvent(s, "EngageOrderAccepted", tracked).log.count
           = [s.log.count EXCEPT !["EngageOrderAccepted"] = @ + 1]
    BY <1>1, <1>5
  <2>2. QED
    BY <1>1, <1>4, <2>1 DEF OrdersLogged
<1>8. QED
  BY <1>6, <1>7

\* A rejection by the transport and the coming and going of clients.
LEMMA ClientsUndisturbed ==
    ASSUME NEW s \in Session, NEW role \in ClientRole
    PROVE  /\ Undisturbed(s, RecordTransportRejection(s))
           /\ Undisturbed(s, ConnectClient(s, role))
           /\ Undisturbed(s, DisconnectClient(s, role))
           /\ Undisturbed(s, TimeoutClient(s, role))
<1>1. Undisturbed(s, RecordTransportRejection(s))
  BY PushEventSame, EventsLogNoOrder, SameMissionUndisturbed
  DEF RecordTransportRejection, EventType, SameRecord
<1>2. \A state \in ConnectionState :
         [s.connection EXCEPT ![role] = state] \in [ClientRole -> ConnectionState]
  BY DEF Session
<1>3. OrdersLogged(ConnectClient(s, role)) = OrdersLogged(s)
  <2> DEFINE known  == s.joined[role]
             placed == [s EXCEPT !.joined[role] = TRUE,
                                 !.connection[role] = IF known THEN "Reconnected"
                                                      ELSE "Connected",
                                 !.reconnectExercised = @ \/ known]
             back   == PushEvent(placed, "ClientReconnected")
  <2>1. /\ [s.joined EXCEPT ![role] = TRUE] \in [ClientRole -> BOOLEAN]
        /\ (IF known THEN "Reconnected" ELSE "Connected") \in ConnectionState
        /\ (s.reconnectExercised \/ known) \in BOOLEAN
    BY DEF Session, ConnectionState
  <2>2. placed \in Session
    BY <1>2, <2>1 DEF Session
  <2>3. OrdersLogged(placed) = OrdersLogged(s)
    BY DEF OrdersLogged, Session
  <2>4. ConnectClient(s, role) = IF known THEN PushEvent(back, "ResilienceTriggered")
                                          ELSE PushEvent(placed, "ClientJoined")
    BY DEF ConnectClient
  <2> HIDE DEF placed
  <2>5. back \in Session /\ OrdersLogged(back) = OrdersLogged(placed)
    BY <2>2, PushEventType, EventsLogNoOrder DEF EventType
  <2> HIDE DEF back
  <2>6. /\ OrdersLogged(PushEvent(back, "ResilienceTriggered")) = OrdersLogged(back)
        /\ OrdersLogged(PushEvent(placed, "ClientJoined")) = OrdersLogged(placed)
    BY <2>2, <2>5, EventsLogNoOrder DEF EventType
  <2>7. QED
    BY <2>3, <2>4, <2>5, <2>6
<1>4. OrdersLogged(DisconnectClient(s, role)) = OrdersLogged(s)
  <2> DEFINE gone == [s EXCEPT !.connection[role] = "Disconnected"]
  <2>1. gone \in Session /\ OrdersLogged(gone) = OrdersLogged(s)
    BY <1>2 DEF Session, ConnectionState, OrdersLogged
  <2>2. DisconnectClient(s, role) = PushEvent(gone, "ClientLeft")
    BY DEF DisconnectClient
  <2> HIDE DEF gone
  <2>3. QED
    BY <2>1, <2>2, EventsLogNoOrder DEF EventType
<1>5. OrdersLogged(TimeoutClient(s, role)) = OrdersLogged(s)
  <2> DEFINE gone == [s EXCEPT !.connection[role] = "TimedOut", !.timeoutExercised = TRUE]
             told == PushEvent(gone, "ResilienceTriggered")
  <2>1. gone \in Session /\ OrdersLogged(gone) = OrdersLogged(s)
    BY <1>2 DEF Session, ConnectionState, OrdersLogged
  <2>2. TimeoutClient(s, role) = RecordSnapshot(told)
    BY DEF TimeoutClient
  <2> HIDE DEF gone
  <2>3. told \in Session /\ OrdersLogged(told) = OrdersLogged(gone)
    BY <2>1, PushEventType, EventsLogNoOrder DEF EventType
  <2> HIDE DEF told
  <2>4. OrdersLogged(RecordSnapshot(told)) = OrdersLogged(told)
    BY <2>3, EventsLogNoOrder DEF EventType
  <2>5. QED
    BY <2>1, <2>2, <2>3, <2>4
<1>6. QED
  BY <1>1, <1>3, <1>4, <1>5, ClientsSame, SameMissionUndisturbed DEF SameRecord

--------------------------------------------------------------------------------
(****************************************************************************)
(* The tick                                                                 *)
(****************************************************************************)

\* One tick later the same order is under way, or it was not under way before.
Ticks(s, t) ==
    OrderGiven(s) /\ UnderWay(t) =>
        UnderWay(s) /\ t.tick = s.tick + 1 /\ t.started = s.started

\* The first statements of advance_tick count the tick and launch the order.
LEMMA LaunchedUndisturbed ==
    ASSUME NEW s \in Session, s.phase # "Assessed"
    PROVE  LET l == Launched(s)
           IN  Settles(s, l) /\ Carries(s, l) /\ Ticks(s, l)
<1> DEFINE l == Launched(s)
           launches == s.order = "Accepted" /\ s.phase = "EngageOrdered"
<1>1. /\ l.tick = s.tick + 1 /\ l.ready = s.ready /\ l.code = s.code
      /\ l.timeoutTicks = s.timeoutTicks /\ l.started = s.started /\ l.log = s.log
      /\ l.phase = (IF launches THEN "Intercepting" ELSE s.phase)
      /\ l.order = (IF launches THEN "Executing" ELSE s.order)
  BY DEF Launched, Session
<1> HIDE DEF l
<1>2. Settles(s, l)
  BY <1>1 DEF Settles, OrderCount, OrdersLogged, UnderWay
<1>3. Carries(s, l)
  BY <1>1 DEF Carries, OrderGiven
<1>4. Ticks(s, l)
  BY <1>1 DEF Ticks, UnderWay
<1>5. QED
  BY <1>2, <1>3, <1>4 DEF l

LEMMA SeekerUndisturbed ==
    ASSUME NEW s \in Session, NEW inFov \in BOOLEAN
    PROVE  Undisturbed(s, SeekerUpdated(s, inFov))
<1> DEFINE u == SeekerUpdated(s, inFov)
<1>1. /\ u.phase = s.phase /\ u.tick = s.tick /\ u.timeoutTicks = s.timeoutTicks
      /\ u.order = s.order /\ u.ready = s.ready /\ u.code = s.code
      /\ u.started = s.started /\ u.log = s.log
  BY DEF SeekerUpdated, Session
<1> HIDE DEF u
<1>2. Settles(s, u)
  BY <1>1 DEF Settles, OrderCount, OrdersLogged, UnderWay
<1>3. Carries(s, u) /\ SameClock(s, u)
  BY <1>1 DEF Carries, OrderGiven, SameClock, UnderWay
<1>4. Undisturbed(s, u)
  BY <1>2, <1>3 DEF Undisturbed
<1>5. QED
  BY <1>4 DEF u

\* A verdict completes the order.
LEMMA VerdictUndisturbed ==
    ASSUME NEW s \in Session, NEW code \in {"InterceptSuccess", "TimeoutObserved"},
           UnderWay(s), ~s.ready
    PROVE  Undisturbed(s, Verdict(s, code))
<1> DEFINE u == [s EXCEPT !.ready = TRUE, !.code = code, !.phase = "Assessed",
                          !.interceptor = "Complete", !.order = "Completed",
                          !.started = NoTick]
           v == PushEvent(u, "AssessmentProduced")
<1>1. u \in Session
  BY DEF Session, SessionPhase, InterceptorStatus, EngageOrderStatus, AssessmentCode
<1>2. /\ u.ready = TRUE /\ u.code = code /\ u.phase = "Assessed"
      /\ u.order = "Completed" /\ u.timeoutTicks = s.timeoutTicks /\ u.log = s.log
  BY DEF Session
<1>3. Verdict(s, code) = v
  BY DEF Verdict
<1> HIDE DEF u
<1>4. SameMission(u, v) /\ OrdersLogged(v) = OrdersLogged(u)
  BY <1>1, PushEventSame, EventsLogNoOrder DEF EventType, SameRecord
<1> HIDE DEF v
<1>5. Settles(s, v)
  BY <1>2, <1>4 DEF SameMission, Settles, OrderCount, OrdersLogged, UnderWay
<1>6. Carries(s, v) /\ SameClock(s, v)
  BY <1>2, <1>4 DEF SameMission, Carries, OrderGiven, SameClock, UnderWay
<1>7. QED
  BY <1>3, <1>5, <1>6 DEF Undisturbed

LEMMA AssessedUndisturbed ==
    ASSUME NEW s \in Session, NEW hit \in BOOLEAN, PhaseFacts(s)
    PROVE  Undisturbed(s, Assessed(s, hit))
<1>1. CASE ~(s.order = "Executing" /\ s.phase = "Intercepting")
  BY <1>1, UndisturbedItself DEF Assessed
<1>2. CASE s.order = "Executing" /\ s.phase = "Intercepting"
  <2>1. UnderWay(s) /\ ~s.ready
    BY <1>2 DEF PhaseFacts, UnderWay
  <2>2. CASE hit
    <3> DEFINE u == [s EXCEPT !.targetActive = FALSE, !.track.active = FALSE,
                              !.seekerLock = FALSE]
    <3>1. [s.track EXCEPT !.active = FALSE] \in TrackState
      BY DEF Session, TrackState
    <3>2. u \in Session
      BY <3>1 DEF Session
    <3>3. /\ u.phase = s.phase /\ u.tick = s.tick /\ u.timeoutTicks = s.timeoutTicks
          /\ u.order = s.order /\ u.ready = s.ready /\ u.code = s.code
          /\ u.started = s.started /\ u.log = s.log
      BY DEF Session
    <3>4. Assessed(s, hit) = Verdict(u, "InterceptSuccess")
      BY <1>2, <2>2 DEF Assessed
    <3> HIDE DEF u
    <3>5. Settles(s, u) /\ Carries(s, u) /\ SameClock(s, u)
      BY <3>3 DEF Settles, OrderCount, OrdersLogged, UnderWay, Carries, OrderGiven, SameClock
    <3>6. Undisturbed(u, Verdict(u, "InterceptSuccess"))
      BY <2>1, <3>2, <3>3, VerdictUndisturbed DEF UnderWay
    <3>7. QED
      BY <3>4, <3>5, <3>6, UndisturbedTransitive DEF Undisturbed
  <2>3. CASE ~hit
    <3>1. Assessed(s, hit) = IF EngagementExpired(s) THEN Verdict(s, "TimeoutObserved") ELSE s
      BY <1>2, <2>3 DEF Assessed
    <3>2. QED
      BY <2>1, <3>1, VerdictUndisturbed, UndisturbedItself
  <2>4. QED
    BY <2>2, <2>3
<1>3. QED
  BY <1>1, <1>2

LEMMA GapUndisturbed ==
    ASSUME NEW s \in Session
    PROVE  Undisturbed(s, GapExercised(s))
<1> DEFINE u == [s EXCEPT !.gapExercised = TRUE]
           v == PushEvent(u, "ResilienceTriggered")
<1>1. u \in Session /\ SameMission(s, u) /\ OrdersLogged(u) = OrdersLogged(s)
  BY DEF Session, SameMission, OrdersLogged
<1>2. GapExercised(s) = IF s.tick = 2 /\ ~s.gapExercised THEN v ELSE s
  BY DEF GapExercised
<1> HIDE DEF u
<1>3. SameMission(u, v) /\ OrdersLogged(v) = OrdersLogged(u)
  BY <1>1, PushEventSame, EventsLogNoOrder DEF EventType, SameRecord
<1> HIDE DEF v
<1>4. SameMission(s, v) /\ OrdersLogged(v) = OrdersLogged(s)
  BY <1>1, <1>3 DEF SameMission
<1>5. QED
  BY <1>2, <1>4, SameMissionUndisturbed, UndisturbedItself

\* A snapshot shows the session and changes nothing of the mission.
LEMMA SnapshotUndisturbed ==
    ASSUME NEW s \in Session
    PROVE  Undisturbed(s, RecordSnapshot(s))
BY RecordSnapshotSame, EventsLogNoOrder, SameMissionUndisturbed DEF SameRecord, EventType

\* Archiving closes the session and leaves order and verdict as they are.
LEMMA ArchiveKeeps ==
    ASSUME NEW s \in Session
    PROVE  LET t == ArchiveSession(s)
           IN  /\ Carries(s, t) /\ t.phase = "Archived" /\ t.ready = s.ready /\ t.code = s.code
               /\ OrderCount(s) => OrderCount(t)
<1>1. CASE s.phase = "Archived"
  BY <1>1 DEF ArchiveSession, Carries
<1>2. CASE s.phase # "Archived"
  <2> DEFINE u == [s EXCEPT !.phase = "Archived"]
             t == RecordSnapshot(PushEvent(u, "SessionEnded"))
  <2>1. ArchiveSession(s) = t
    BY <1>2 DEF ArchiveSession
  <2>2. u \in Session /\ u.phase = "Archived" /\ u.timeoutTicks = s.timeoutTicks
        /\ u.order = s.order /\ u.ready = s.ready /\ u.code = s.code /\ u.log = s.log
    BY DEF Session, SessionPhase
  <2> HIDE DEF u
  <2>3. SameMission(u, t)
    BY <2>2, PublishSame DEF EventType, SameRecord
  <2>4. OrdersLogged(t) = OrdersLogged(u)
    BY <2>2, PushEventType, EventsLogNoOrder DEF EventType
  <2> HIDE DEF t
  <2>5. Carries(s, t) /\ t.phase = "Archived" /\ t.ready = s.ready /\ t.code = s.code
    BY <2>2, <2>3 DEF SameMission, Carries, OrderGiven
  <2>6. OrderCount(s) => OrderCount(t)
    BY <2>2, <2>4, <2>5 DEF OrderCount, OrdersLogged, UnderWay
  <2>7. QED
    BY <2>1, <2>5, <2>6
<1>3. QED
  BY <1>1, <1>2

\* advance_tick, whatever the geometry answers.
LEMMA TickCarries ==
    ASSUME NEW s \in Session, NEW hit \in BOOLEAN, NEW inFov \in BOOLEAN, MissionFacts(s)
    PROVE  LET t == AdvanceTick(s, hit, inFov)
           IN  Settles(s, t) /\ Carries(s, t) /\ Ticks(s, t)
<1> DEFINE t == AdvanceTick(s, hit, inFov)
<1>1. CASE s.phase = "Assessed"
  <2> DEFINE u == [s EXCEPT !.tick = @ + 1]
  <2>1. u \in Session /\ u.phase = "Assessed" /\ u.timeoutTicks = s.timeoutTicks
        /\ u.order = s.order /\ u.ready = s.ready /\ u.code = s.code /\ u.log = s.log
    <3>1. s.tick + 1 \in Nat
      BY DEF Session
    <3>2. QED
      BY <1>1, <3>1 DEF Session
  <2>2. t = ArchiveSession(u)
    BY <1>1 DEF AdvanceTick
  <2> HIDE DEF u, t
  <2>3. /\ Carries(u, t) /\ t.phase = "Archived" /\ t.ready = u.ready /\ t.code = u.code
        /\ OrderCount(u) => OrderCount(t)
    BY <2>1, <2>2, ArchiveKeeps
  <2>4. s.ready
    BY <1>1 DEF MissionFacts, PhaseFacts
  <2>5. Settles(s, t)
    BY <1>1, <2>1, <2>3, <2>4 DEF Settles, OrderCount, OrdersLogged, UnderWay
  <2>6. Carries(s, t)
    BY <2>1, <2>3 DEF Carries, OrderGiven
  <2>7. Ticks(s, t)
    BY <2>3 DEF Ticks, UnderWay
  <2>8. QED
    BY <2>5, <2>6, <2>7 DEF t
<1>2. CASE s.phase # "Assessed"
  <2> DEFINE l == Launched(s)
             k == SeekerUpdated(l, inFov)
             a == Assessed(k, hit)
             g == GapExercised(a)
  <2>1. l \in Session /\ PhaseFacts(l) /\ DueFacts(l) /\ ProfileFacts(l)
    BY <1>2, LaunchedType, LaunchedFacts
  <2>2. Settles(s, l) /\ Carries(s, l) /\ Ticks(s, l)
    BY <1>2, LaunchedUndisturbed
  <2>3. t = RecordSnapshot(g)
    BY <1>2 DEF AdvanceTick
  <2> HIDE DEF t, l
  <2>4. k \in Session /\ PhaseFacts(k) /\ Undisturbed(l, k)
    BY <2>1, SeekerUpdatedType, SeekerUpdatedFacts, SeekerUndisturbed
  <2> HIDE DEF k
  <2>5. a \in Session /\ Undisturbed(k, a)
    BY <2>4, AssessedType, AssessedUndisturbed
  <2> HIDE DEF a
  <2>6. g \in Session /\ Undisturbed(a, g)
    BY <2>5, GapExercisedType, GapUndisturbed
  <2> HIDE DEF g
  <2>7. Undisturbed(g, t)
    BY <2>3, <2>6, SnapshotUndisturbed
  <2>8. Undisturbed(l, t)
    BY <2>4, <2>5, <2>6, <2>7, UndisturbedTransitive
  <2>9. Settles(s, t)
    BY <2>2, <2>8 DEF Undisturbed, Settles
  <2>10. Carries(s, t)
    BY <2>2, <2>8 DEF Undisturbed, Carries
  <2>11. Ticks(s, t)
    BY <2>2, <2>8 DEF Undisturbed, Carries, SameClock, Ticks
  <2>12. QED
    BY <2>9, <2>10, <2>11 DEF t
<1>3. QED
  BY <1>1, <1>2

--------------------------------------------------------------------------------
(****************************************************************************)
(* The commands: what an accepted one does; a refused one is seen refused   *)
(****************************************************************************)

\* reject_command leaves a verdict alone and is never taken for an acceptance.
LEMMA RejectionSettles ==
    ASSUME NEW s \in Session
    PROVE  Settles(s, RejectCommand(s)) /\ ~Accepted(s, RejectCommand(s))
<1> DEFINE l == PushEvent(s, "EngageOrderRejected")
           r == [l EXCEPT !.order = "Rejected", !.code = "InvalidTransition"]
           t == RejectCommand(s)
<1>1. l \in Session /\ SameMission(s, l) /\ OrdersLogged(l) = OrdersLogged(s)
  BY PushEventType, PushEventSame, EventsLogNoOrder DEF EventType, SameRecord
<1>2. t = IF s.ready THEN l ELSE r
  BY DEF RejectCommand
<1>3. l.log = Logged(s.log, "EngageOrderRejected")
  BY DEF PushEvent, Session
<1> HIDE DEF l
<1>4. r.ready = l.ready /\ r.phase = l.phase /\ r.log = l.log
  BY <1>1 DEF Session
<1> HIDE DEF r
<1>5. t.ready = s.ready /\ t.phase = s.phase /\ t.log = l.log /\ (s.ready => t.code = s.code)
  BY <1>1, <1>2, <1>4 DEF SameMission
<1> HIDE DEF t
<1>6. Settles(s, t)
  BY <1>1, <1>5 DEF Settles, OrderCount, OrdersLogged, UnderWay
<1>7. ~Accepted(s, t)
  <2>1. s.log.count \in [EventType -> Nat] /\ "EngageOrderRejected" \in EventType
    BY DEF Session, EventLog, EventType
  <2>2. t.log.count = [s.log.count EXCEPT !["EngageOrderRejected"] = @ + 1]
    BY <1>3, <1>5 DEF Logged, Session, EventLog
  <2>3. t.log.count["EngageOrderRejected"] = s.log.count["EngageOrderRejected"] + 1
    BY <2>1, <2>2
  <2>4. s.log.count["EngageOrderRejected"] \in Nat
    BY <2>1
  <2>5. QED
    BY <2>3, <2>4 DEF Accepted
<1>8. QED
  BY <1>6, <1>7 DEF t

\* An operation that publishes u with an event other than an order.
LEMMA PublishKeeps ==
    ASSUME NEW u \in Session, NEW type \in EventType, type # "EngageOrderAccepted"
    PROVE  LET t == RecordSnapshot(PushEvent(u, type))
           IN  SameMission(u, t) /\ OrdersLogged(t) = OrdersLogged(u)
BY PublishSame, PushEventType, EventsLogNoOrder DEF SameRecord

\* A start from standby: the run has the timeout that came with it.
LEMMA StartResult ==
    ASSUME NEW s \in Session, MissionFacts(s), s.phase = "Standby",
           NEW timeout \in EngagementTimeouts
    PROVE  LET t == StartScenario(ConfigureScenario(s, timeout))
           IN  /\ Settles(s, t)
               /\ Accepted(s, t) => t.code # "InvalidTransition" /\ t.timeoutTicks = timeout
<1> DEFINE c == ConfigureScenario(s, timeout)
           u == [c EXCEPT !.phase = "Detecting", !.targetActive = TRUE,
                          !.track = ClearedTrack, !.interceptor = "Idle",
                          !.order = "None", !.ready = FALSE, !.code = "Pending"]
           p == RecordSnapshot(PushEvent(u, "SessionStarted"))
           t == StartScenario(c)
<1>1. c \in Session
  BY ConfigureScenarioType
<1>2. /\ c.phase = "Standby" /\ c.ready = FALSE /\ c.code = "Pending" /\ c.log = s.log
      /\ c.timeoutTicks = timeout
  BY DEF ConfigureScenario, ResetWorld, Session
<1>3. t = RejectCommand(c) \/ t = p
  BY DEF StartScenario
<1> HIDE DEF c, t
<1>4. /\ u \in Session /\ u.phase = "Detecting" /\ u.ready = FALSE /\ u.code = "Pending"
      /\ u.timeoutTicks = timeout /\ u.log = c.log
  BY <1>1, <1>2, TrackConstantsType
  DEF Session, SessionPhase, InterceptorStatus, EngageOrderStatus, AssessmentCode
<1> HIDE DEF u
<1>5. SameMission(u, p) /\ OrdersLogged(p) = OrdersLogged(u)
  BY <1>4, PublishKeeps DEF EventType
<1> HIDE DEF p
<1>6. ~s.ready
  BY DEF MissionFacts, PhaseFacts, PreLaunch
<1>7. CASE t = RejectCommand(c)
  <2>1. Settles(c, t) /\ ~Accepted(c, t)
    BY <1>1, <1>7, RejectionSettles
  <2>2. Settles(s, t)
    BY <1>2, <1>6, <2>1 DEF Settles, OrderCount, OrdersLogged, UnderWay
  <2>3. ~Accepted(s, t)
    BY <1>2, <2>1 DEF Accepted
  <2>4. QED
    BY <2>2, <2>3 DEF t, c
<1>8. CASE t = p
  <2>1. Settles(s, t)
    BY <1>2, <1>4, <1>5, <1>6, <1>8
    DEF SameMission, Settles, OrderCount, OrdersLogged, UnderWay
  <2>2. t.code # "InvalidTransition" /\ t.timeoutTicks = timeout
    BY <1>4, <1>5, <1>8 DEF SameMission
  <2>3. QED
    BY <2>1, <2>2 DEF t, c
<1>9. QED
  BY <1>3, <1>7, <1>8

\* request_track: an accepted one leaves order, code and timeout alone.
LEMMA TrackResult ==
    ASSUME NEW s \in Session, MissionFacts(s)
    PROVE  LET t == RequestTrack(s)
           IN  Settles(s, t) /\ (Accepted(s, t) => Carries(s, t))
<1> DEFINE u == [s EXCEPT !.track = SeededTrack,
                          !.phase = IF @ = "Detecting" THEN "Tracking" ELSE @]
           e == PushTrackEvent(u, "TrackUpdated", TRUE)
           p == RecordSnapshot(e)
           t == RequestTrack(s)
<1>1. \/ t = RejectCommand(s)
      \/ t = p /\ s.phase \in {"Detecting", "InterceptorReady"}
  BY DEF RequestTrack
<1> HIDE DEF t
<1>2. CASE t = RejectCommand(s)
  BY <1>2, RejectionSettles DEF t
<1>3. CASE t = p /\ s.phase \in {"Detecting", "InterceptorReady"}
  <2>1. /\ u \in Session /\ u.ready = s.ready /\ u.code = s.code /\ u.order = s.order
        /\ u.timeoutTicks = s.timeoutTicks /\ u.log = s.log
        /\ u.phase \in {"Tracking", "InterceptorReady"}
    BY <1>3, TrackConstantsType DEF Session, SessionPhase
  <2> HIDE DEF u
  <2>2. e \in Session /\ SameMission(u, p) /\ OrdersLogged(e) = OrdersLogged(u)
    BY <2>1, PushTrackEventType, PublishTrackSame, TrackEventsLogNoOrder DEF EventType
  <2> HIDE DEF e
  <2>3. OrdersLogged(p) = OrdersLogged(u)
    BY <2>2, EventsLogNoOrder DEF EventType
  <2> HIDE DEF p
  <2>4. ~s.ready
    BY <1>3 DEF MissionFacts, PhaseFacts, PreLaunch
  <2>5. Settles(s, p)
    BY <1>3, <2>1, <2>2, <2>3, <2>4
    DEF SameMission, Settles, OrderCount, OrdersLogged, UnderWay
  <2>6. Carries(s, p)
    BY <2>1, <2>2 DEF SameMission, Carries, OrderGiven
  <2>7. QED
    BY <1>3, <2>5, <2>6 DEF t
<1>4. QED
  BY <1>1, <1>2, <1>3

\* activate_asset: so does this one.
LEMMA AssetResult ==
    ASSUME NEW s \in Session, MissionFacts(s)
    PROVE  LET t == ActivateAsset(s)
           IN  Settles(s, t) /\ (Accepted(s, t) => Carries(s, t))
<1> DEFINE u == [s EXCEPT !.interceptor = "Ready", !.assetActive = TRUE,
                          !.phase = "InterceptorReady"]
           p == RecordSnapshot(PushEvent(u, "InterceptorUpdated"))
           t == ActivateAsset(s)
<1>1. t = RejectCommand(s) \/ (t = p /\ s.phase = "Tracking")
  BY DEF ActivateAsset
<1> HIDE DEF t
<1>2. CASE t = RejectCommand(s)
  BY <1>2, RejectionSettles DEF t
<1>3. CASE t = p /\ s.phase = "Tracking"
  <2>1. /\ u \in Session /\ u.ready = s.ready /\ u.code = s.code /\ u.order = s.order
        /\ u.timeoutTicks = s.timeoutTicks /\ u.log = s.log /\ u.phase = "InterceptorReady"
    BY DEF Session, SessionPhase, InterceptorStatus
  <2> HIDE DEF u
  <2>2. SameMission(u, p) /\ OrdersLogged(p) = OrdersLogged(u)
    BY <2>1, PublishKeeps DEF EventType
  <2> HIDE DEF p
  <2>3. ~s.ready
    BY <1>3 DEF MissionFacts, PhaseFacts, PreLaunch
  <2>4. Settles(s, p)
    BY <1>3, <2>1, <2>2, <2>3
    DEF SameMission, Settles, OrderCount, OrdersLogged, UnderWay
  <2>5. Carries(s, p)
    BY <2>1, <2>2 DEF SameMission, Carries, OrderGiven
  <2>6. QED
    BY <1>3, <2>4, <2>5 DEF t
<1>4. QED
  BY <1>1, <1>2, <1>3

\* issue_command: an accepted one is the one order of the run, given at this tick.
LEMMA OrderResult ==
    ASSUME NEW s \in Session, MissionFacts(s)
    PROVE  LET t == IssueCommand(s)
           IN  /\ Settles(s, t)
               /\ Accepted(s, t) =>
                     /\ t.order = "Accepted" /\ t.code = s.code
                     /\ t.timeoutTicks = s.timeoutTicks /\ t.started = t.tick
<1> DEFINE u == [s EXCEPT !.order = "Accepted", !.phase = "EngageOrdered", !.started = s.tick]
           e == PushTrackEvent(u, "EngageOrderAccepted", s.track.active)
           p == RecordSnapshot(e)
           t == IssueCommand(s)
<1>1. t = RejectCommand(s) \/ (t = p /\ s.phase = "InterceptorReady")
  BY DEF IssueCommand
<1> HIDE DEF t
<1>2. CASE t = RejectCommand(s)
  BY <1>2, RejectionSettles DEF t
<1>3. CASE t = p /\ s.phase = "InterceptorReady"
  <2>1. /\ u \in Session /\ u.ready = s.ready /\ u.code = s.code /\ u.order = "Accepted"
        /\ u.timeoutTicks = s.timeoutTicks /\ u.log = s.log /\ u.phase = "EngageOrdered"
        /\ u.started = u.tick
    BY DEF Session, SessionPhase, EngageOrderStatus
  <2>2. s.track.active \in BOOLEAN
    BY DEF Session, TrackState
  <2> HIDE DEF u
  <2>3. e \in Session /\ SameMission(u, p) /\ OrdersLogged(e) = OrdersLogged(u) + 1
    BY <2>1, <2>2, PushTrackEventType, PublishTrackSame, TrackEventsLogNoOrder DEF EventType
  <2> HIDE DEF e
  <2>4. OrdersLogged(p) = OrdersLogged(u) + 1
    BY <2>3, EventsLogNoOrder DEF EventType
  <2> HIDE DEF p
  <2>5. ~s.ready
    BY <1>3 DEF MissionFacts, PhaseFacts, PreLaunch
  <2>6. OrderCount(s) => OrdersLogged(p) = 1
    BY <1>3, <2>1, <2>4 DEF OrderCount, OrdersLogged
  <2>7. Settles(s, p)
    BY <2>1, <2>3, <2>5, <2>6 DEF SameMission, Settles, OrderCount, UnderWay
  <2>8. /\ p.order = "Accepted" /\ p.code = s.code
        /\ p.timeoutTicks = s.timeoutTicks /\ p.started = p.tick
    BY <2>1, <2>3 DEF SameMission
  <2>9. QED
    BY <1>3, <2>7, <2>8 DEF t
<1>4. QED
  BY <1>1, <1>2, <1>3

--------------------------------------------------------------------------------
(****************************************************************************)
(* The inductive invariant of the program and the server                    *)
(****************************************************************************)

\* Commands of the program the session has accepted; 0 also after a refusal.
Done == IF console.pending = <<>> THEN at - 1
        ELSE IF console.pending[1].accepted THEN at ELSE 0

\* Reviews the server has served the program.
Reviews == IF at = 6 /\ console.pending # <<>> /\ console.pending[1].accepted
           THEN attempts + 1 ELSE attempts

\* Where the server has not yet served a review in this round of its loop.
Reading == {"head", "accept", "flush", "udp", "recv"}

\* The program's own variables; it runs on an open connection.
Place ==
    /\ at \in 0 .. 6 /\ waiting \in BOOLEAN /\ attempts \in Nat
    /\ reported \in AssessmentCode /\ outcomes \in Seq(Outcome)
    /\ at = 0 => ~waiting
    /\ at # 6 => attempts = 0
    /\ at > 0 => console.link = "Open"

\* One request or answer is on its way at most, none unless the program waits or
\* has given up.
OneAtATime ==
    /\ Len(console.buffer) <= 1 /\ Len(console.pending) <= 1 /\ Len(stream) <= 1
    /\ console.buffer # <<>> => console.pending = <<>> /\ stream = <<>>
    /\ console.pending # <<>> => stream = <<>>
    /\ at > 0 /\ ~waiting => console.buffer = <<>> /\ console.pending = <<>> /\ stream = <<>>

\* A request is the one of the program's place in the script; a review is only
\* asked for after the order.
Own(f) ==
    /\ at > 0 => f.req.kind = Script[at] /\ f.req.timeout = ConsoleTimeout
    /\ f.req.kind = "aar_request" => OrderGiven(session)

OwnFrames ==
    /\ stream # <<>> => Own(stream[1])
    /\ console.buffer # <<>> => Own(Current)

\* What the accepted commands have done to the session.
Progress ==
    /\ Done >= 2 => session.code # "InvalidTransition" /\ session.timeoutTicks = ConsoleTimeout
    /\ Done >= 5 => OrderGiven(session)
    /\ at = 6 => OrderGiven(session)

\* Between order and verdict no more reviews are served than ticks have passed.
Counted ==
    Done >= 5 /\ UnderWay(session) =>
        /\ Reviews <= session.tick - session.started
        /\ pc \in Reading \/ console.buffer # <<>> => Reviews < session.tick - session.started

\* The reviews answered without a verdict stay below the timeout.
InTime ==
    at = 6 => /\ attempts <= ConsoleTimeout - 1
              /\ reported = "Pending" => Reviews <= ConsoleTimeout - 1

\* What a review has reported is the verdict of the session.
Reported ==
    /\ reported # "Pending" => session.ready /\ session.code = reported
    /\ session.phase = "Archived" => session.ready \/ pc = "exited"
    /\ OrderCount(session)

\* One run at most has ended with the verdict, and none can after it.
Ending ==
    /\ \A i \in 1 .. Len(outcomes) : outcomes[i] # "no_verdict"
    /\ \A i, j \in 1 .. Len(outcomes) :
          outcomes[i] = "verdict" /\ outcomes[j] = "verdict" => i = j
    /\ \A i \in 1 .. Len(outcomes) :
          outcomes[i] = "verdict" => reported # "Pending" /\ at <= 2 /\ Done <= 1

Mission == Progress /\ Counted /\ InTime /\ Reported

CInv == Place /\ OneAtATime /\ OwnFrames /\ Mission /\ Ending

\* What the transport's proofs provide.
Base == IInv /\ LinkInv /\ AInv

\* No verdict among the outcomes that was not there.
OutcomesKept ==
    /\ outcomes' \in Seq(Outcome)
    /\ \A i \in 1 .. Len(outcomes') :
          /\ outcomes'[i] # "no_verdict"
          /\ outcomes'[i] = "verdict" => i \in 1 .. Len(outcomes) /\ outcomes[i] = "verdict"

LEMMA KeptOutcomes ==
    ASSUME Place, Ending,
           \/ outcomes' = outcomes
           \/ \E x \in {"refused", "no_answer"} : outcomes' = Append(outcomes, x)
    PROVE  OutcomesKept
<1>1. CASE outcomes' = outcomes
  BY <1>1 DEF Place, Ending, OutcomesKept
<1>2. ASSUME NEW x \in {"refused", "no_answer"}, outcomes' = Append(outcomes, x)
      PROVE  OutcomesKept
  <2>1. x \in Outcome /\ outcomes \in Seq(Outcome)
    BY DEF Outcome, Place
  <2>2. /\ outcomes' \in Seq(Outcome) /\ Len(outcomes) \in Nat
        /\ Len(outcomes') = Len(outcomes) + 1
        /\ \A i \in 1 .. Len(outcomes) : outcomes'[i] = outcomes[i]
        /\ outcomes'[Len(outcomes) + 1] = x
    BY <1>2, <2>1, AppendParts
  <2>3. ASSUME NEW i \in 1 .. Len(outcomes')
        PROVE  i \in 1 .. Len(outcomes) \/ i = Len(outcomes) + 1
    BY <2>2
  <2>4. QED
    BY <2>2, <2>3 DEF Ending, OutcomesKept
<1>3. QED
  BY <1>1, <1>2

\* The program's end of the connection is as it was.
LEMMA SameShape ==
    ASSUME Place, OneAtATime, OwnFrames, OutcomesKept, Carries(session, session'),
           at' = at, waiting' = waiting, attempts' = attempts, reported' = reported,
           console'.buffer = console.buffer, console'.pending = console.pending,
           stream' = stream, at > 0 => console'.link = "Open"
    PROVE  Place' /\ OneAtATime' /\ OwnFrames'
<1>1. Place'
  BY DEF Place, OutcomesKept
<1>2. OneAtATime'
  BY DEF OneAtATime
<1>3. OwnFrames'
  BY DEF OwnFrames, Own, Current, Carries
<1>4. QED
  BY <1>1, <1>2, <1>3

\* While an order is under way its start is a tick of the past.
LEMMA ClockTyped ==
    ASSUME IInv, UnderWay(session)
    PROVE  session.tick \in Nat /\ session.started \in Nat /\ session.started <= session.tick
           /\ ~session.ready
<1>1. session.tick \in Nat
  BY DEF IInv, Sound, Session
<1>2. session.started \in 0 .. session.tick /\ ~session.ready
  BY DEF IInv, Sound, MissionFacts, PhaseFacts, UnderWay
<1>3. QED
  BY <1>1, <1>2

\* The mission goes on while the program's place and its answers stay.
LEMMA CalmMission ==
    ASSUME IInv, Place, Mission, Ending, OutcomesKept, Carries(session, session'),
           at' = at, attempts' = attempts, reported' = reported,
           console'.pending = console.pending,
           session.ready => session'.ready /\ session'.code = session.code,
           OrderCount(session) => OrderCount(session'),
           session'.phase = "Archived" => session'.ready \/ pc' = "exited",
           \/ Ticks(session, session')
           \/ /\ SameClock(session, session')
              /\ pc' \in Reading \/ console'.buffer # <<>> =>
                    pc \in Reading \/ console.buffer # <<>>
    PROVE  Mission' /\ Ending'
<1>1. Done' = Done /\ Reviews' = Reviews
  BY DEF Done, Reviews
<1>2. Progress'
  BY <1>1 DEF Mission, Progress, Carries
<1>3. Counted'
  <2> SUFFICES ASSUME Done >= 5, UnderWay(session')
               PROVE  /\ Reviews <= session'.tick - session'.started
                      /\ pc' \in Reading \/ console'.buffer # <<>> =>
                            Reviews < session'.tick - session'.started
    BY <1>1 DEF Counted
  <2>1. OrderGiven(session)
    BY DEF Mission, Progress
  <2>2. UnderWay(session)
    BY <2>1 DEF Ticks, SameClock
  <2>3. /\ Reviews <= session.tick - session.started
        /\ pc \in Reading \/ console.buffer # <<>> => Reviews < session.tick - session.started
    BY <2>2 DEF Mission, Counted
  <2>4. CASE Ticks(session, session')
    <3>1. session'.tick = session.tick + 1 /\ session'.started = session.started
      BY <2>1, <2>4 DEF Ticks
    <3>2. session.tick \in Nat /\ session.started \in Nat /\ Reviews \in Nat
      BY <2>2, ClockTyped DEF Place, Reviews
    <3>3. Reviews < session'.tick - session'.started
      BY <2>3, <3>1, <3>2
    <3>4. QED
      BY <3>1, <3>2, <3>3
  <2>5. CASE SameClock(session, session')
             /\ (pc' \in Reading \/ console'.buffer # <<>> =>
                    pc \in Reading \/ console.buffer # <<>>)
    <3>1. session'.tick = session.tick /\ session'.started = session.started
      BY <2>5 DEF SameClock
    <3>2. QED
      BY <2>3, <2>5, <3>1
  <2>6. QED
    BY <2>4, <2>5
<1>4. InTime'
  BY <1>1 DEF Mission, InTime
<1>5. Reported'
  BY DEF Mission, Reported
<1>6. Ending'
  BY <1>1 DEF Ending, OutcomesKept
<1>7. QED
  BY <1>2, <1>3, <1>4, <1>5, <1>6 DEF Mission

\* Nothing is asked of a program that is gone, whatever becomes of its request.
LEMMA ProgramGone ==
    ASSUME Place, OneAtATime, OwnFrames, Mission,
           Settles(session, session'), Carries(session, session'), pc = "exited" => pc' = "exited",
           at' = 0, waiting' = FALSE, attempts' = 0, reported' = reported,
           console'.buffer \in {console.buffer, <<>>},
           console'.pending \in {console.pending, <<>>}, stream' \in {stream, <<>>},
           outcomes' \in Seq(Outcome)
    PROVE  Place' /\ OneAtATime' /\ OwnFrames' /\ Mission' /\ Done' <= 0
<1>1. Place'
  <2>1. at' \in 0 .. 6 /\ attempts' \in Nat /\ ~(at' > 0) /\ at' # 6
    OBVIOUS
  <2>2. reported' \in AssessmentCode /\ waiting' \in BOOLEAN
    BY DEF Place
  <2>3. QED
    BY <2>1, <2>2 DEF Place
<1>2. OneAtATime'
  <2>1. Len(<<>>) = 0
    OBVIOUS
  <2>2. Len(console'.buffer) <= 1 /\ Len(console'.pending) <= 1 /\ Len(stream') <= 1
    BY <2>1 DEF OneAtATime
  <2>3. /\ console'.buffer # <<>> => console'.buffer = console.buffer
        /\ console'.pending # <<>> => console'.pending = console.pending
        /\ stream' # <<>> => stream' = stream
    OBVIOUS
  <2>4. /\ console'.buffer # <<>> => console'.pending = <<>> /\ stream' = <<>>
        /\ console'.pending # <<>> => stream' = <<>>
    BY <2>3 DEF OneAtATime
  <2>5. ~(at' > 0)
    OBVIOUS
  <2>6. QED
    BY <2>2, <2>4, <2>5 DEF OneAtATime
<1>3. OwnFrames'
  BY DEF OwnFrames, Own, Current, Carries
<1>4. Done' <= 0
  BY DEF Done
<1>5. Done' \in Int
  BY DEF Done
<1>6. Progress' /\ Counted' /\ InTime'
  BY <1>4, <1>5 DEF Progress, Counted, InTime
<1>7. Reported'
  BY DEF Mission, Reported, Settles
<1>8. QED
  BY <1>1, <1>2, <1>3, <1>4, <1>6, <1>7 DEF Mission

LEMMA GoneWithoutVerdict ==
    ASSUME Place, Ending, OutcomesKept, at' = 0, reported' = reported, Done' <= 0, Done' \in Int
    PROVE  Ending'
BY DEF Ending, OutcomesKept

--------------------------------------------------------------------------------
(****************************************************************************)
(* The steps of the program                                                 *)
(****************************************************************************)

LEMMA ScriptPlaces ==
    /\ Len(Script) = 6
    /\ \A k \in 1 .. 6 : /\ Script[k] = "session_join" => k = 1
                         /\ Script[k] = "scenario_start" => k = 2
                         /\ Script[k] = "track_acquire" => k = 3
                         /\ Script[k] = "interceptor_ready" => k = 4
                         /\ Script[k] = "engage_order" => k = 5
                         /\ Script[k] = "aar_request" => k = 6
BY DEF Script

LEMMA ConnectsCInv ==
    ASSUME Base, CInv, Connects
    PROVE  CInv'
<1>1. /\ console.link = "None" /\ at' = 1 /\ session' = session /\ stream' = stream
      /\ console' = [console EXCEPT !.link = "Open"] /\ pc' = "flush" /\ pc = "accept"
      /\ UNCHANGED <<waiting, attempts, reported, outcomes>>
  BY DEF Connects, AcceptConnection
<1>2. /\ at = 0 /\ ~waiting /\ attempts = 0
  BY <1>1 DEF CInv, Place
<1>3. console.pending = <<>> /\ console.buffer = <<>> /\ stream = <<>>
  BY <1>1 DEF Base, AInv
<1>4. /\ console'.link = "Open" /\ console'.pending = <<>> /\ console'.buffer = <<>>
      /\ stream' = <<>>
  BY <1>1, <1>3 DEF Base, IInv, Console
<1>5. Done' = 0
  BY <1>1, <1>4 DEF Done
<1>6. Place' /\ OneAtATime' /\ OwnFrames'
  BY <1>1, <1>2, <1>4 DEF CInv, Place, OneAtATime, OwnFrames
<1>7. Progress' /\ Counted' /\ InTime'
  BY <1>1, <1>5 DEF Progress, Counted, InTime
<1>8. Reported'
  BY <1>1 DEF CInv, Mission, Reported
<1>9. Ending'
  BY <1>1, <1>5 DEF CInv, Ending
<1>10. QED
  BY <1>6, <1>7, <1>8, <1>9 DEF CInv, Mission

LEMMA ConnectsInVainCInv ==
    ASSUME Base, CInv, ConnectsInVain
    PROVE  CInv'
<1>1. /\ session' = RecordTransportRejection(session) /\ pc' = pc /\ pc = "accept"
      /\ console' = console /\ stream' = stream /\ UNCHANGED <<at, waiting, attempts, reported>>
      /\ outcomes' = Append(outcomes, "no_answer")
  BY DEF ConnectsInVain, RefuseConnection
<1>2. Undisturbed(session, session')
  BY <1>1, ClientsUndisturbed DEF Base, IInv, Sound, ClientRole
<1>3. OutcomesKept
  BY <1>1, KeptOutcomes DEF CInv
<1>4. Place' /\ OneAtATime' /\ OwnFrames'
  BY <1>1, <1>2, <1>3, SameShape DEF CInv, Place, Undisturbed
<1>5. session'.phase = "Archived" => session'.ready
  BY <1>1, <1>2 DEF Undisturbed, Settles, CInv, Mission, Reported
<1>6. Mission' /\ Ending'
  BY <1>1, <1>2, <1>3, <1>5, CalmMission DEF CInv, Base, Undisturbed, Settles
<1>7. QED
  BY <1>4, <1>6 DEF CInv

\* What changes neither the server's session nor the program's place.
LEMMA StillMission ==
    ASSUME Base, CInv, session' = session, UNCHANGED <<at, attempts, reported, outcomes>>,
           console'.pending = console.pending,
           pc = "exited" => pc' = "exited",
           pc' \in Reading \/ console'.buffer # <<>> => pc \in Reading \/ console.buffer # <<>>
    PROVE  Mission' /\ Ending' /\ OutcomesKept /\ Carries(session, session')
<1>1. Undisturbed(session, session')
  BY UndisturbedItself
<1>2. OutcomesKept
  BY KeptOutcomes DEF CInv
<1>3. session'.phase = "Archived" => session'.ready \/ pc' = "exited"
  BY DEF CInv, Mission, Reported
<1>4. QED
  BY <1>1, <1>2, <1>3, CalmMission DEF CInv, Base, Undisturbed, Settles

LEMMA AsksCInv ==
    ASSUME Base, CInv, Asks
    PROVE  CInv'
<1>1. /\ at > 0 /\ ~waiting /\ waiting' = TRUE /\ pc = "recv" /\ pc' = pc
      /\ console' = console /\ session' = session /\ UNCHANGED <<at, attempts, reported, outcomes>>
  BY DEF Asks, ConsoleAsks
<1>2. PICK r \in Requests : stream' = Append(stream, [n |-> asked', req |-> r])
  BY DEF Asks, ConsoleAsks
<1>3. console.buffer = <<>> /\ console.pending = <<>> /\ stream = <<>>
  BY <1>1 DEF CInv, OneAtATime
<1>4. Len(stream') = 1 /\ stream'[1] = [n |-> asked', req |-> r]
  BY <1>2, <1>3
<1>5. /\ stream'[1].req.kind = Script[at] /\ stream'[1].req.timeout = ConsoleTimeout
  BY <1>4 DEF Asks
<1>6. Mission' /\ Ending' /\ OutcomesKept
  BY <1>1, StillMission
<1>7. Place'
  BY <1>1 DEF CInv, Place
<1>8. OneAtATime'
  <2>1. Len(<<>>) = 0 /\ console'.buffer = <<>> /\ console'.pending = <<>>
    BY <1>1, <1>3
  <2>2. QED
    BY <1>1, <1>4, <2>1 DEF OneAtATime
<1>9. OwnFrames'
  <2>1. at \in 1 .. 6
    BY <1>1 DEF CInv, Place
  <2>2. stream'[1].req.kind = "aar_request" => OrderGiven(session)
    BY <1>5, <2>1, ScriptPlaces DEF CInv, Mission, Progress
  <2>3. console'.buffer = <<>>
    BY <1>1, <1>3
  <2>4. QED
    BY <1>1, <1>5, <2>2, <2>3 DEF OwnFrames, Own
<1>10. QED
  BY <1>6, <1>7, <1>8, <1>9 DEF CInv

LEMMA GivesUpCInv ==
    ASSUME Base, CInv, GivesUp
    PROVE  CInv'
<1>1. /\ UNCHANGED vars /\ reported' = reported /\ outcomes' = Append(outcomes, "no_answer")
      /\ at' = 0 /\ waiting' = FALSE /\ attempts' = 0
  BY DEF GivesUp, Ended
<1>2. session' = session /\ pc' = pc /\ console' = console /\ stream' = stream
  BY <1>1 DEF vars, clientVars
<1>3. OutcomesKept
  BY <1>1, KeptOutcomes DEF CInv
<1>4. Place' /\ OneAtATime' /\ OwnFrames' /\ Mission' /\ Done' <= 0
  BY <1>1, <1>2, <1>3, ProgramGone, UndisturbedItself DEF CInv, Undisturbed, OutcomesKept
<1>5. Done' \in Int
  BY <1>1 DEF Done
<1>6. QED
  BY <1>1, <1>3, <1>4, <1>5, GoneWithoutVerdict DEF CInv

LEMMA SocketClosesCInv ==
    ASSUME Base, CInv, SocketCloses
    PROVE  CInv'
<1>1. /\ at = 0 /\ session' = session /\ pc' = pc /\ stream' = stream
      /\ UNCHANGED <<at, waiting, attempts, reported, outcomes>>
      /\ \E end \in {"Finished", "Aborted"} : console' = [console EXCEPT !.link = end]
  BY DEF SocketCloses, ConsoleEnds, programVars, clientVars
<1>2. console'.buffer = console.buffer /\ console'.pending = console.pending
  BY <1>1 DEF Base, IInv, Console
<1>3. Mission' /\ Ending' /\ OutcomesKept /\ Carries(session, session')
  BY <1>1, <1>2, StillMission
<1>4. Place' /\ OneAtATime' /\ OwnFrames'
  BY <1>1, <1>2, <1>3, SameShape DEF CInv
<1>5. QED
  BY <1>3, <1>4 DEF CInv

--------------------------------------------------------------------------------
(****************************************************************************)
(* The steps of the server that serve no request                            *)
(****************************************************************************)

\* The program notices nothing of a step that takes no answer from the queue.
NoticesNothing == UNCHANGED <<at, waiting, attempts, outcomes>>

\* Waiting, reading the clock, and everything while no message moves.
LEMMA IdleCInv ==
    ASSUME Base, CInv, reported' = reported, NoticesNothing,
           \/ BeginPoll \/ NobodyConnects \/ DatagramsDone \/ NothingToRead \/ ReadFailure
           \/ Signal \/ UNCHANGED vars
    PROVE  CInv'
<1>1. /\ session' = session /\ console' = console /\ stream' = stream
      /\ pc = "exited" => pc' = "exited"
      /\ pc' \in Reading => pc \in Reading
  BY DEF BeginPoll, NobodyConnects, DatagramsDone, NothingToRead, ReadFailure, Signal,
         clientVars, vars, Reading
<1>2. Mission' /\ Ending' /\ OutcomesKept /\ Carries(session, session')
  BY <1>1, StillMission DEF NoticesNothing
<1>3. Place' /\ OneAtATime' /\ OwnFrames'
  BY <1>1, <1>2, SameShape DEF CInv, NoticesNothing, Place
<1>4. QED
  BY <1>2, <1>3 DEF CInv

LEMMA ReadStreamCInv ==
    ASSUME Base, CInv, reported' = reported, NoticesNothing, ReadStream
    PROVE  CInv'
<1>1. /\ session' = session /\ stream' = <<>> /\ pc = "recv" /\ pc' = "frames"
      /\ console'.buffer = console.buffer \o stream /\ console'.pending = console.pending
      /\ console'.link = console.link
  BY DEF ReadStream, Base, IInv, Console
<1>2. console.buffer \in Seq(Frame) /\ stream \in Seq(Frame)
  BY DEF Base, IInv, Console
<1>3. \/ console'.buffer = console.buffer
      \/ console.buffer = <<>> /\ console.pending = <<>> /\ console'.buffer = stream
  <2>1. console.buffer # <<>> => stream = <<>>
    BY DEF CInv, OneAtATime
  <2>2. \A a \in Seq(Frame) : a \o <<>> = a /\ <<>> \o a = a
    BY ConcatEmptySeq
  <2>3. CASE stream = <<>>
    BY <1>1, <1>2, <2>2, <2>3
  <2>4. CASE stream # <<>>
    <3>1. console.buffer = <<>> /\ console.pending = <<>>
      BY <2>4 DEF CInv, OneAtATime
    <3>2. QED
      BY <1>1, <1>2, <2>2, <3>1
  <2>5. QED
    BY <2>3, <2>4
<1>4. Mission' /\ Ending' /\ OutcomesKept /\ Carries(session, session')
  BY <1>1, StillMission DEF NoticesNothing, Reading
<1>5. Place'
  BY <1>1 DEF CInv, Place, NoticesNothing
<1>6. OneAtATime'
  <2>1. Len(stream') = 0
    BY <1>1
  <2>2. QED
    BY <1>1, <1>3, <2>1 DEF CInv, OneAtATime, NoticesNothing
<1>7. OwnFrames'
  <2>1. stream # <<>> => Head(stream) = stream[1]
    BY <1>2
  <2>2. CASE console'.buffer = console.buffer
    BY <1>1, <2>2 DEF CInv, OwnFrames, Own, Current, NoticesNothing
  <2>3. CASE console'.buffer = stream
    <3>1. stream # <<>> => Own(stream[1])
      BY DEF CInv, OwnFrames
    <3>2. console'.buffer # <<>> => Head(console'.buffer) = stream[1]
      BY <2>1, <2>3
    <3>3. QED
      BY <1>1, <2>3, <3>1, <3>2 DEF OwnFrames, Own, Current, NoticesNothing
  <2>4. QED
    BY <1>3, <2>2, <2>3
<1>8. QED
  BY <1>4, <1>5, <1>6, <1>7 DEF CInv

LEMMA ReadEndOfStreamCInv ==
    ASSUME Base, CInv, reported' = reported, NoticesNothing, ReadEndOfStream
    PROVE  CInv'
<1>1. /\ console.link = "Finished" /\ pc = "recv" /\ console' = NoConsole /\ stream' = <<>>
      /\ \/ session' = session
         \/ session' = DisconnectClient(session, "FireControlConsole")
  BY DEF ReadEndOfStream, DisconnectConsole, ConsoleDisconnected
<1>2. at = 0 /\ ~waiting /\ attempts = 0
  BY <1>1 DEF CInv, Place
<1>3. Undisturbed(session, session')
  BY <1>1, ClientsUndisturbed, UndisturbedItself DEF Base, IInv, Sound, ClientRole
<1>4. console'.buffer = <<>> /\ console'.pending = <<>>
  BY <1>1 DEF NoConsole
<1>5. OutcomesKept
  BY KeptOutcomes DEF CInv, NoticesNothing
<1>6. waiting' = FALSE /\ at' = 0 /\ attempts' = 0
  BY <1>2 DEF NoticesNothing, CInv, Place
<1>7. Place' /\ OneAtATime' /\ OwnFrames' /\ Mission' /\ Done' <= 0
  BY <1>1, <1>3, <1>4, <1>5, <1>6, ProgramGone DEF CInv, Undisturbed, OutcomesKept
<1>8. Done' \in Int
  BY <1>4, <1>6 DEF Done
<1>9. QED
  BY <1>5, <1>6, <1>7, <1>8, GoneWithoutVerdict DEF CInv

LEMMA TickCInv ==
    ASSUME Base, CInv, reported' = reported, NoticesNothing, Tick
    PROVE  CInv'
<1>1. /\ pc = "tick" /\ pc' = "head" /\ console' = console /\ stream' = stream
  BY DEF Tick, clientVars
<1>2. session \in Session /\ MissionFacts(session)
  BY DEF Base, IInv, Sound
<1> DEFINE s == IF HeartbeatOverdue THEN TimeoutClient(session, "TacticalDisplay") ELSE session
<1>3. PICK hit \in BOOLEAN, inFov \in BOOLEAN : session' = AdvanceTick(s, hit, inFov)
  BY DEF Tick
<1>4. s \in Session /\ MissionFacts(s) /\ Undisturbed(session, s)
  BY <1>2, ClientsSound, ClientsUndisturbed, UndisturbedItself DEF Sound, ClientRole
<1> HIDE DEF s
<1>5. Settles(s, session') /\ Carries(s, session') /\ Ticks(s, session')
  BY <1>3, <1>4, TickCarries
<1>6. Settles(session, session')
  BY <1>4, <1>5 DEF Undisturbed, Settles
<1>7. Carries(session, session')
  BY <1>4, <1>5 DEF Undisturbed, Carries
<1>8. Ticks(session, session')
  BY <1>4, <1>5 DEF Undisturbed, Carries, SameClock, Ticks
<1>9. OutcomesKept
  BY KeptOutcomes DEF CInv, NoticesNothing
<1>10. session'.phase = "Archived" => session'.ready
  BY <1>1, <1>6 DEF Settles, CInv, Mission, Reported
<1>11. Mission' /\ Ending'
  BY <1>1, <1>6, <1>7, <1>8, <1>9, <1>10, CalmMission DEF CInv, Base, NoticesNothing, Settles
<1>12. Place' /\ OneAtATime' /\ OwnFrames'
  BY <1>1, <1>7, <1>9, SameShape DEF CInv, NoticesNothing, Place
<1>13. QED
  BY <1>11, <1>12 DEF CInv

LEMMA LoopEndCInv ==
    ASSUME Base, CInv, reported' = reported, NoticesNothing, LoopEnd
    PROVE  CInv'
<1>1. /\ pc' = "exited" /\ console' = console /\ stream' = stream
      /\ session' = session \/ session' = ArchiveSession(session)
  BY DEF LoopEnd, clientVars
<1>2. session \in Session
  BY DEF Base, IInv, Sound
<1>3. /\ Carries(session, session') /\ session'.ready = session.ready
      /\ session'.code = session.code
      /\ OrderCount(session) => OrderCount(session')
  <2>1. CASE session' = session
    BY <2>1, UndisturbedItself DEF Undisturbed
  <2>2. CASE session' = ArchiveSession(session)
    BY <1>2, <2>2, ArchiveKeeps
  <2>3. QED
    BY <1>1, <2>1, <2>2
<1>4. SameClock(session, session')
  BY <1>1, <1>2, ArchiveKeeps DEF SameClock, UnderWay
<1>5. OutcomesKept
  BY KeptOutcomes DEF CInv, NoticesNothing
<1>6. pc' \notin Reading
  BY <1>1 DEF Reading
<1>7. Mission' /\ Ending'
  <2>1. session.ready => session'.ready /\ session'.code = session.code
    BY <1>3
  <2>2. pc' \in Reading \/ console'.buffer # <<>> => pc \in Reading \/ console.buffer # <<>>
    BY <1>1, <1>6
  <2>3. console'.pending = console.pending /\ at' = at /\ attempts' = attempts
    BY <1>1 DEF NoticesNothing
  <2>4. IInv /\ Place /\ Mission /\ Ending
    BY DEF CInv, Base
  <2>5. QED
    BY <1>1, <1>3, <1>4, <1>5, <2>1, <2>2, <2>3, <2>4, CalmMission
<1>8. Place' /\ OneAtATime' /\ OwnFrames'
  BY <1>1, <1>3, <1>5, SameShape DEF CInv, NoticesNothing, Place
<1>9. QED
  BY <1>7, <1>8 DEF CInv
--------------------------------------------------------------------------------
(****************************************************************************)
(* The answers                                                              *)
(****************************************************************************)

\* The console's timeout is a number of ticks.
LEMMA TimeoutTyped == ConsoleTimeout \in Nat /\ ConsoleTimeout >= 1
<1>1. ConsoleTimeout \in Nat \ {0}
  BY ConsoleConfigured, EngagementTimeoutsPositive
<1>2. QED
  BY <1>1

\* The queue of the one answer is flushed or it is not.
LEMMA FlushTakes ==
    ASSUME Base, CInv, NEW next, FlushThen(next)
    PROVE  /\ pc' \in {next, "failed"}
           /\ console'.buffer = console.buffer /\ console'.link = console.link
           /\ \/ console'.pending = console.pending
              \/ Len(console.pending) = 1 /\ console'.pending = <<>>
<1>1. console \in Console
  BY DEF Base, IInv
<1>2. CASE console' = console /\ pc' = "failed"
  BY <1>2
<1>3. ASSUME NEW k \in 0 .. Len(console.pending),
             console' = [console EXCEPT !.pending = Rest(@, k)], pc' = next
      PROVE  /\ console'.buffer = console.buffer /\ console'.link = console.link
             /\ \/ console'.pending = console.pending
                \/ Len(console.pending) = 1 /\ console'.pending = <<>>
  <2>1. /\ console'.buffer = console.buffer /\ console'.link = console.link
        /\ console'.pending = Rest(console.pending, k)
    BY <1>1, <1>3 DEF Console
  <2>2. PICK q \in Seq(Answer) : q = console.pending
    BY <1>1 DEF Console
  <2>3. Len(q) \in Nat /\ Len(q) <= 1
    BY <2>2 DEF CInv, OneAtATime
  <2>4. k = 0 \/ (k = 1 /\ Len(q) = 1)
    <3>1. k \in 0 .. Len(q)
      BY <1>3, <2>2
    <3>2. \A n \in Nat : \A m \in 0 .. n : n <= 1 => m = 0 \/ (m = 1 /\ n = 1)
      OBVIOUS
    <3>3. QED
      BY <2>3, <3>1, <3>2
  <2>5. CASE k = 0
    <3>1. SubSeq(q, 1, Len(q)) = q
      OBVIOUS
    <3>2. QED
      BY <2>1, <2>2, <2>5, <3>1 DEF Rest
  <2>6. CASE k = 1 /\ Len(q) = 1
    <3>1. SubSeq(q, 2, 1) = <<>>
      OBVIOUS
    <3>2. QED
      BY <2>1, <2>2, <2>6, <3>1 DEF Rest
  <2>7. QED
    BY <2>4, <2>5, <2>6
<1>4. QED
  BY <1>2, <1>3 DEF FlushThen

\* The server has handed over the answer the program waits for.
HandedOver ==
    /\ session' = session /\ stream' = stream /\ reported' = reported
    /\ console'.buffer = console.buffer /\ console'.link = console.link
    /\ Len(console.pending) = 1 /\ console'.pending = <<>>
    /\ pc # "exited" /\ (pc' \in Reading => pc \in Reading)

LEMMA AnswerEndsRun ==
    ASSUME Base, CInv, HandedOver, at' = 0, waiting' = FALSE, attempts' = 0,
           outcomes' \in Seq(Outcome)
    PROVE  Place' /\ OneAtATime' /\ OwnFrames' /\ Mission' /\ Done' <= 0 /\ Done' \in Int
<1>1. Settles(session, session') /\ Carries(session, session')
  BY UndisturbedItself DEF HandedOver, Undisturbed
<1>2. Place' /\ OneAtATime' /\ OwnFrames' /\ Mission' /\ Done' <= 0
  BY <1>1, ProgramGone DEF CInv, HandedOver
<1>3. Done' \in Int
  BY DEF Done, HandedOver
<1>4. QED
  BY <1>2, <1>3

LEMMA RefusedCInv ==
    ASSUME Base, CInv, HandedOver, Ended("refused")
    PROVE  CInv'
<1>1. OutcomesKept
  BY KeptOutcomes DEF CInv, Ended
<1>2. Place' /\ OneAtATime' /\ OwnFrames' /\ Mission' /\ Done' <= 0 /\ Done' \in Int
  BY <1>1, AnswerEndsRun DEF Ended, OutcomesKept
<1>3. Ending'
  BY <1>1, <1>2, GoneWithoutVerdict DEF CInv, Ended, HandedOver
<1>4. QED
  BY <1>2, <1>3 DEF CInv

LEMMA VerdictCInv ==
    ASSUME Base, CInv, HandedOver, at = 6, reported # "Pending", Ended("verdict")
    PROVE  CInv'
<1>1. outcomes \in Seq(Outcome) /\ "verdict" \in Outcome
  BY DEF CInv, Place, Outcome
<1>2. /\ outcomes' \in Seq(Outcome) /\ Len(outcomes) \in Nat
      /\ Len(outcomes') = Len(outcomes) + 1
      /\ \A i \in 1 .. Len(outcomes) : outcomes'[i] = outcomes[i]
      /\ outcomes'[Len(outcomes) + 1] = "verdict"
  BY <1>1, AppendParts DEF Ended
<1>3. Place' /\ OneAtATime' /\ OwnFrames' /\ Mission' /\ Done' <= 0 /\ Done' \in Int
  BY <1>2, AnswerEndsRun DEF Ended
<1>4. \A i \in 1 .. Len(outcomes) : outcomes[i] # "verdict" /\ outcomes[i] # "no_verdict"
  <2>1. ~(at <= 2)
    OBVIOUS
  <2>2. QED
    BY <2>1 DEF CInv, Ending
<1>5. \A i \in 1 .. Len(outcomes') : i \in 1 .. Len(outcomes) \/ i = Len(outcomes) + 1
  BY <1>2
<1>6. \A i \in 1 .. Len(outcomes') :
         /\ outcomes'[i] # "no_verdict"
         /\ outcomes'[i] = "verdict" => i = Len(outcomes) + 1
  BY <1>2, <1>4, <1>5
<1>7. reported' # "Pending" /\ at' <= 2 /\ Done' <= 1
  BY <1>3 DEF HandedOver, Ended
<1>8. Ending'
  BY <1>6, <1>7 DEF Ending
<1>9. QED
  BY <1>3, <1>8 DEF CInv

\* The program takes an acceptance and goes on.
LEMMA GoesOnCInv ==
    ASSUME Base, CInv, HandedOver, at > 0, console.pending[1].accepted,
           waiting' = FALSE, outcomes' = outcomes,
           \/ at # 6 /\ at' = at + 1 /\ attempts' = attempts
           \/ at = 6 /\ at' = at /\ attempts' = attempts + 1 /\ reported = "Pending"
    PROVE  CInv'
<1>1. at \in 1 .. 6 /\ attempts \in Nat /\ console.pending # <<>>
  <2>1. console.pending # <<>>
    BY DEF HandedOver
  <2>2. QED
    BY <2>1 DEF CInv, Place
<1>2. Done = at /\ Done' = at' - 1
  BY <1>1 DEF Done, HandedOver
<1>3. Reviews = attempts'
  BY <1>1 DEF Reviews, CInv, Place
<1>4. Reviews' = Reviews
  BY <1>3 DEF Reviews, HandedOver
<1>5. console.buffer = <<>> /\ stream = <<>>
  BY <1>1 DEF CInv, OneAtATime
<1>6. OutcomesKept
  BY KeptOutcomes DEF CInv
<1>7. Place'
  <2>1. at' \in 1 .. 6 /\ attempts' \in Nat
    BY <1>1
  <2>2. at' # 6 => attempts' = 0
    BY <1>1 DEF CInv, Place
  <2>3. reported' \in AssessmentCode /\ outcomes' \in Seq(Outcome) /\ console'.link = "Open"
    BY DEF CInv, Place, HandedOver
  <2>4. waiting' \in BOOLEAN /\ ~waiting'
    OBVIOUS
  <2>5. QED
    BY <2>1, <2>2, <2>3, <2>4 DEF Place
<1>8. OneAtATime'
  <2>1. Len(<<>>) = 0
    OBVIOUS
  <2>2. QED
    BY <1>5, <2>1 DEF OneAtATime, HandedOver
<1>9. OwnFrames'
  BY <1>5 DEF OwnFrames, HandedOver
<1>10. Done' \in Nat /\ Done' <= Done /\ (Done' >= 5 => Done >= 5) /\ (Done' >= 2 => Done >= 2)
       /\ (at' = 6 => Done >= 5)
  BY <1>1, <1>2
<1>11. Progress'
  BY <1>10 DEF CInv, Mission, Progress, HandedOver
<1>12. Counted'
  <2>1. console'.buffer = <<>> /\ session' = session
    BY <1>5 DEF HandedOver
  <2>2. pc' \in Reading => pc \in Reading
    BY DEF HandedOver
  <2>3. QED
    BY <1>4, <1>10, <2>1, <2>2 DEF CInv, Mission, Counted
<1>13. InTime'
  <2>1. CASE at # 6
    <3>1. attempts' = 0 /\ Reviews' = 0
      BY <1>3, <1>4, <2>1 DEF CInv, Place
    <3>2. 0 <= ConsoleTimeout - 1
      BY TimeoutTyped
    <3>3. QED
      BY <3>1, <3>2 DEF InTime
  <2>2. CASE at = 6
    <3>1. Reviews <= ConsoleTimeout - 1
      BY <2>2 DEF CInv, Mission, InTime
    <3>2. QED
      BY <1>3, <1>4, <3>1 DEF InTime
  <2>3. QED
    BY <2>1, <2>2
<1>14. Reported'
  BY DEF CInv, Mission, Reported, HandedOver
<1>15. Ending'
  <2>1. ASSUME NEW i \in 1 .. Len(outcomes), outcomes[i] = "verdict"
        PROVE  reported' # "Pending" /\ at' <= 2 /\ Done' <= 1
    <3>1. reported # "Pending" /\ at <= 2 /\ Done <= 1
      BY <2>1 DEF CInv, Ending
    <3>2. at = 1
      BY <1>1, <1>2, <3>1
    <3>3. QED
      BY <1>2, <3>1, <3>2 DEF HandedOver
  <2>2. QED
    BY <2>1 DEF CInv, Ending
<1>16. QED
  BY <1>7, <1>8, <1>9, <1>11, <1>12, <1>13, <1>14, <1>15 DEF CInv, Mission

LEMMA AnsweredCInv ==
    ASSUME Base, CInv, HandedOver, at > 0, Answered(Head(console.pending))
    PROVE  CInv'
<1> DEFINE a == Head(console.pending)
<1>1. a = console.pending[1]
  BY DEF Base, IInv, Console, HandedOver
<1>2. Len(Script) = 6
  BY ScriptPlaces
<1> HIDE DEF a
<1>3. CASE at = 6
  <2>1. ReviewAnswered(a)
    BY <1>2, <1>3 DEF Answered, a
  <2>2. CASE ~a.accepted
    BY <2>1, <2>2, RefusedCInv DEF ReviewAnswered
  <2>3. CASE a.accepted /\ reported # "Pending"
    BY <1>3, <2>1, <2>3, VerdictCInv DEF ReviewAnswered
  <2>4. CASE a.accepted /\ reported = "Pending"
    <3>1. Reviews = attempts + 1
      <4>1. console.pending # <<>>
        BY DEF HandedOver
      <4>2. QED
        BY <1>1, <1>3, <2>4, <4>1 DEF Reviews
    <3>2. Reviews <= ConsoleTimeout - 1
      BY <1>3, <2>4 DEF CInv, Mission, InTime
    <3>3. attempts \in Nat
      BY DEF CInv, Place
    <3>4. attempts + 1 # MaxAttempts
      BY <3>1, <3>2, <3>3, TimeoutTyped DEF MaxAttempts
    <3>5. attempts' = attempts + 1 /\ waiting' = FALSE /\ UNCHANGED <<at, outcomes>>
      BY <2>1, <2>4, <3>4 DEF ReviewAnswered
    <3>6. QED
      BY <1>1, <1>3, <2>4, <3>5, GoesOnCInv
  <2>5. QED
    BY <2>2, <2>3, <2>4
<1>4. CASE at # 6
  <2>1. CommandAnswered(a)
    BY <1>2, <1>4 DEF Answered, a
  <2>2. CASE ~a.accepted
    BY <2>1, <2>2, RefusedCInv DEF CommandAnswered
  <2>3. CASE a.accepted
    <3>1. at' = at + 1 /\ waiting' = FALSE /\ UNCHANGED <<attempts, outcomes>>
      BY <2>1, <2>3 DEF CommandAnswered
    <3>2. QED
      BY <1>1, <1>4, <2>3, <3>1, GoesOnCInv
  <2>4. QED
    BY <2>2, <2>3
<1>5. QED
  BY <1>3, <1>4

LEMMA FlushCInv ==
    ASSUME Base, CInv, reported' = reported, NEW next, FlushThen(next), FlushUnchanged,
           \/ pc = "flush" /\ next = "udp"
           \/ pc = "frames" /\ next = "tick",
           IF Delivered THEN Answered(Head(console.pending)) ELSE NoticesNothing
    PROVE  CInv'
<1>1. /\ pc' \in {next, "failed"}
      /\ console'.buffer = console.buffer /\ console'.link = console.link
      /\ \/ console'.pending = console.pending
         \/ Len(console.pending) = 1 /\ console'.pending = <<>>
  BY FlushTakes
<1>2. session' = session /\ stream' = stream
  BY DEF FlushUnchanged
<1>3. (pc' \in Reading => pc \in Reading) /\ pc # "exited"
  BY <1>1 DEF Reading
<1>4. CASE console'.pending = console.pending
  <2>1. ~Delivered
    <3>1. Len(console.pending) \in Nat
      BY DEF Base, IInv, Console
    <3>2. QED
      BY <1>4, <3>1 DEF Delivered
  <2>2. NoticesNothing
    BY <2>1
  <2>3. Mission' /\ Ending' /\ OutcomesKept /\ Carries(session, session')
    BY <1>1, <1>2, <1>3, <1>4, <2>2, StillMission DEF NoticesNothing
  <2>4. Place' /\ OneAtATime' /\ OwnFrames'
    BY <1>1, <1>2, <1>4, <2>2, <2>3, SameShape DEF CInv, NoticesNothing, Place
  <2>5. QED
    BY <2>3, <2>4 DEF CInv
<1>5. CASE Len(console.pending) = 1 /\ console'.pending = <<>>
  <2>1. HandedOver
    BY <1>1, <1>2, <1>3, <1>5 DEF HandedOver
  <2>2. Delivered = waiting
    <3>1. Len(<<>>) = 0 /\ waiting \in BOOLEAN
      BY DEF CInv, Place
    <3>2. QED
      BY <1>5, <3>1 DEF Delivered
  <2>3. console.pending # <<>>
    BY <1>5
  <2>4. CASE at = 0
    <3>1. NoticesNothing
      BY <2>2, <2>4 DEF CInv, Place
    <3>2. at' = 0 /\ waiting' = FALSE /\ attempts' = 0 /\ outcomes' \in Seq(Outcome)
      BY <2>4, <3>1 DEF NoticesNothing, CInv, Place
    <3>3. Place' /\ OneAtATime' /\ OwnFrames' /\ Mission' /\ Done' <= 0 /\ Done' \in Int
      BY <2>1, <3>2, AnswerEndsRun
    <3>4. OutcomesKept
      BY <3>1, KeptOutcomes DEF CInv, NoticesNothing
    <3>5. QED
      BY <3>2, <3>3, <3>4, GoneWithoutVerdict DEF CInv
  <2>5. CASE at # 0
    <3>1. at > 0
      BY <2>5 DEF CInv, Place
    <3>2. waiting
      BY <2>3, <3>1 DEF CInv, OneAtATime
    <3>3. QED
      BY <2>1, <2>2, <3>1, <3>2, AnsweredCInv
  <2>6. QED
    BY <2>4, <2>5
<1>6. QED
  BY <1>1, <1>4, <1>5
--------------------------------------------------------------------------------
(****************************************************************************)
(* The requests                                                             *)
(****************************************************************************)

\* The server serves the one frame that is there and queues the answer.
Served(acc) ==
    /\ pc = "frames" /\ pc' = "frames" /\ console.buffer # <<>> /\ stream' = stream
    /\ console'.link = console.link /\ console'.buffer = <<>>
    /\ Len(console'.pending) = 1 /\ console'.pending[1].accepted = acc

LEMMA ServesOne ==
    ASSUME Base, CInv, pc = "frames", pc' = "frames", console.buffer # <<>>, stream' = stream,
           NEW con \in Console, con.link = console.link, con.buffer = Tail(console.buffer),
           con.pending = console.pending,
           NEW acc \in BOOLEAN, console' = Replied(con, Current.n, acc)
    PROVE  Served(acc)
<1>1. con.link # "None"
  BY DEF Base, LinkInv
<1>2. con.pending = <<>>
  BY DEF CInv, OneAtATime
<1>3. console' = [con EXCEPT !.pending = Append(<<>>, [n |-> Current.n, accepted |-> acc])]
  BY <1>1, <1>2 DEF Replied
<1>4. /\ console'.link = con.link /\ console'.buffer = con.buffer
      /\ console'.pending = Append(<<>>, [n |-> Current.n, accepted |-> acc])
  BY <1>3 DEF Console
<1>5. Len(console'.pending) = 1 /\ console'.pending[1].accepted = acc
  BY <1>4
<1>6. Tail(console.buffer) = <<>>
  <2>1. PICK q \in Seq(Frame) : q = console.buffer
    BY DEF Base, IInv, Console
  <2>2. Len(q) <= 1 /\ q # <<>>
    BY <2>1 DEF CInv, OneAtATime
  <2>3. Len(Tail(q)) = Len(q) - 1 /\ Tail(q) \in Seq(Frame)
    BY <2>2, HeadTailProperties
  <2>4. Len(q) \in Nat /\ Len(Tail(q)) \in Nat
    BY <2>3, LenProperties
  <2>5. Len(Tail(q)) = 0
    BY <2>2, <2>3, <2>4
  <2>6. QED
    BY <2>1, <2>3, <2>5, EmptySeq
<1>7. QED
  BY <1>4, <1>5, <1>6 DEF Served

\* So are the frames that are refused before the session sees them.
LEMMA RefuseServes ==
    ASSUME Base, CInv, pc = "frames", console.buffer # <<>>, RefuseFrame, FrameUnchanged,
           ConnectionUnchanged
    PROVE  Served(FALSE) /\ Undisturbed(session, session')
<1>1. Taken \in Console /\ Taken.link = console.link /\ Taken.buffer = Tail(console.buffer)
      /\ Taken.pending = console.pending
  BY TakenType DEF Base, IInv, Taken, Console
<1>2. console' = Replied(Taken, Current.n, FALSE) /\ pc' = pc /\ stream' = stream
  BY DEF RefuseFrame, FrameUnchanged, ConnectionUnchanged
<1>3. Served(FALSE)
  BY <1>1, <1>2, ServesOne
<1>4. Undisturbed(session, session')
  BY ClientsUndisturbed DEF RefuseFrame, Base, IInv, Sound, ClientRole
<1>5. QED
  BY <1>3, <1>4

\* What every answered request leaves behind.
LEMMA ServedShape ==
    ASSUME Base, CInv, NEW acc \in BOOLEAN, Served(acc), NoticesNothing,
           reported' \in AssessmentCode
    PROVE  /\ Place' /\ OneAtATime' /\ OwnFrames'
           /\ Done = at - 1 /\ Done' = (IF acc THEN at ELSE 0)
           /\ Reviews = attempts
           /\ Reviews' = (IF at = 6 /\ acc THEN attempts + 1 ELSE attempts)
           /\ console'.buffer = <<>> /\ pc' \notin Reading
<1>1. console.pending = <<>> /\ stream' = <<>> /\ console'.buffer = <<>>
  BY DEF CInv, OneAtATime, Served
<1>2. console'.pending # <<>>
  BY DEF Served
<1>3. Place'
  BY DEF CInv, Place, Served, NoticesNothing
<1>4. OneAtATime'
  <2>1. Len(<<>>) = 0 /\ console.buffer # <<>>
    BY DEF Served
  <2>2. at' > 0 => waiting'
    <3>1. at > 0 => waiting
      BY <2>1 DEF CInv, OneAtATime
    <3>2. QED
      BY <3>1 DEF NoticesNothing
  <2>3. Len(console'.buffer) <= 1 /\ Len(console'.pending) <= 1 /\ Len(stream') <= 1
    BY <1>1, <2>1 DEF Served
  <2>4. QED
    BY <1>1, <2>2, <2>3 DEF OneAtATime
<1>5. OwnFrames'
  BY <1>1 DEF OwnFrames
<1>6. Done = at - 1 /\ Done' = (IF acc THEN at ELSE 0)
  BY <1>1, <1>2 DEF Done, Served, NoticesNothing
<1>7. /\ Reviews = attempts
      /\ Reviews' = (IF at = 6 /\ acc THEN attempts + 1 ELSE attempts)
  BY <1>1, <1>2 DEF Reviews, Served, NoticesNothing
<1>8. pc' \notin Reading
  BY DEF Served, Reading
<1>9. QED
  BY <1>1, <1>3, <1>4, <1>5, <1>6, <1>7, <1>8

\* While the server runs, a session that settles stays one without an
\* unassessed archive, and its verdict the one reported.
LEMMA SettledReported ==
    ASSUME CInv, pc = "frames", Settles(session, session'), reported' = reported
    PROVE  Reported'
BY DEF CInv, Mission, Reported, Settles

LEMMA ServedRefused ==
    ASSUME Base, CInv, Served(FALSE), NoticesNothing, reported' = reported,
           Settles(session, session'), at = 6 => Carries(session, session')
    PROVE  CInv'
<1>1. /\ Place' /\ OneAtATime' /\ OwnFrames' /\ Done' = 0
      /\ Reviews' = attempts /\ Reviews = attempts
  <2>1. reported' \in AssessmentCode
    BY DEF CInv, Place
  <2>2. QED
    BY <2>1, ServedShape
<1>2. at' = at /\ attempts' = attempts /\ outcomes' = outcomes
  BY DEF NoticesNothing
<1>3. Progress'
  <2>1. ~(Done' >= 2) /\ ~(Done' >= 5)
    BY <1>1
  <2>2. at = 6 => OrderGiven(session')
    BY DEF CInv, Mission, Progress, Carries
  <2>3. QED
    BY <1>2, <2>1, <2>2 DEF Progress
<1>4. Counted'
  BY <1>1 DEF Counted
<1>5. InTime'
  BY <1>1, <1>2 DEF CInv, Mission, InTime
<1>6. Reported'
  BY SettledReported DEF Served
<1>7. Ending'
  BY <1>1, <1>2 DEF CInv, Ending
<1>8. QED
  BY <1>1, <1>3, <1>4, <1>5, <1>6, <1>7 DEF CInv, Mission

LEMMA ServedAccepted ==
    ASSUME Base, CInv, Served(TRUE), NoticesNothing, reported' = reported,
           Settles(session, session'), at # 6, session'.tick \in Nat,
           at = 2 => ~session.ready,
           at >= 2 => session'.code # "InvalidTransition"
                      /\ session'.timeoutTicks = ConsoleTimeout,
           at = 5 => OrderGiven(session') /\ session'.started = session'.tick
    PROVE  CInv'
<1>1. /\ Place' /\ OneAtATime' /\ OwnFrames' /\ Done = at - 1 /\ Done' = at
      /\ Reviews' = attempts /\ console'.buffer = <<>> /\ pc' \notin Reading
  <2>1. reported' \in AssessmentCode
    BY DEF CInv, Place
  <2>2. QED
    BY <2>1, ServedShape
<1>2. at' = at /\ attempts' = attempts /\ outcomes' = outcomes
  BY DEF NoticesNothing
<1>3. at \in 0 .. 5 /\ attempts = 0
  BY DEF CInv, Place
<1>4. Progress'
  <2>1. Done' >= 2 => session'.code # "InvalidTransition"
                      /\ session'.timeoutTicks = ConsoleTimeout
    BY <1>1
  <2>2. Done' >= 5 => OrderGiven(session')
    BY <1>1, <1>3
  <2>3. QED
    BY <1>2, <2>1, <2>2 DEF Progress
<1>5. Counted'
  <2>1. ASSUME Done' >= 5
        PROVE  Reviews' <= session'.tick - session'.started
    <3>1. at = 5
      BY <1>1, <1>3, <2>1
    <3>2. session'.tick - session'.started = 0
      BY <3>1
    <3>3. QED
      BY <1>1, <1>3, <3>2
  <2>2. QED
    BY <1>1, <2>1 DEF Counted
<1>6. InTime'
  BY <1>2 DEF InTime
<1>7. Reported'
  BY SettledReported DEF Served
<1>8. Ending'
  <2>1. ASSUME NEW i \in 1 .. Len(outcomes), outcomes[i] = "verdict"
        PROVE  reported # "Pending" /\ at <= 2 /\ Done' <= 1
    <3>1. reported # "Pending" /\ at <= 2
      BY <2>1 DEF CInv, Ending
    <3>2. session.ready
      BY <3>1 DEF CInv, Mission, Reported
    <3>3. at # 2
      BY <3>2
    <3>4. at <= 1
      BY <1>3, <3>1, <3>3
    <3>5. QED
      BY <1>1, <3>1, <3>4
  <2>2. QED
    BY <1>2, <2>1 DEF CInv, Ending
<1>9. QED
  BY <1>1, <1>4, <1>5, <1>6, <1>7, <1>8 DEF CInv, Mission

\* The request being served is the one of the program's place, or its
\* sender is gone.
LEMMA ServedPlace ==
    ASSUME Base, CInv, NEW kind, Processing(kind), NEW k \in 1 .. 6, Script[k] = kind
    PROVE  at \in {0, k} /\ (at > 0 => Current.req.timeout = ConsoleTimeout)
<1>1. Own(Current)
  BY DEF CInv, OwnFrames, Processing
<1>2. Current.req.kind = kind
  BY DEF Processing
<1>3. ASSUME at # 0
      PROVE  at = k
  <2>1. at \in 1 .. 6 /\ at > 0
    BY <1>3 DEF CInv, Place
  <2>2. Script[at] = Script[k]
    BY <1>1, <1>2, <2>1 DEF Own
  <2>3. QED
    BY <2>1, <2>2 DEF Script
<1>4. QED
  BY <1>1, <1>3 DEF Own

LEMMA SessionJoinCInv ==
    ASSUME Base, CInv, reported' = reported, NoticesNothing, SessionJoin
    PROVE  CInv'
<1>1. pc = "frames" /\ pc' = pc /\ console.buffer # <<>> /\ stream' = stream
  BY DEF SessionJoin, Processing, FrameUnchanged, ConnectionUnchanged
<1>2. at \in {0, 1}
  BY ServedPlace, ScriptPlaces DEF SessionJoin, Script
<1>3. CASE RefuseFrame
  <2>1. Served(FALSE) /\ Undisturbed(session, session')
    BY <1>1, <1>3, RefuseServes DEF SessionJoin
  <2>2. QED
    BY <2>1, ServedRefused DEF Undisturbed
<1>4. CASE ~RefuseFrame
  <2> DEFINE con == [Taken EXCEPT !.sender = Current.req.sender]
  <2>1. /\ console' = Replied(con, Current.n, TRUE)
        /\ \/ session' = session
           \/ session' = ConnectClient(session, "FireControlConsole")
    BY <1>4 DEF SessionJoin
  <2>2. Current.req.sender \in Senders /\ Taken \in Console
    BY <1>1, TakenType DEF Base, IInv, Frame, Request
  <2>3. con \in Console /\ con.link = console.link /\ con.buffer = Tail(console.buffer)
        /\ con.pending = console.pending
    BY <2>2 DEF Taken, Console, Base, IInv
  <2> HIDE DEF con
  <2>4. Served(TRUE)
    BY <1>1, <2>1, <2>3, ServesOne
  <2>5. Undisturbed(session, session')
    BY <2>1, ClientsUndisturbed, UndisturbedItself DEF Base, IInv, Sound, ClientRole
  <2>6. session'.tick \in Nat
    <3>1. IInv'
      BY FramesIInv DEF Base
    <3>2. QED
      BY <3>1 DEF IInv, Sound, Session
  <2>7. at # 6 /\ at # 2 /\ at # 5 /\ ~(at >= 2)
    BY <1>2
  <2>8. QED
    BY <2>4, <2>5, <2>6, <2>7, ServedAccepted DEF Undisturbed
<1>5. QED
  BY <1>3, <1>4

\* A command the session decides about.
LEMMA DecidedServes ==
    ASSUME Base, CInv, pc = "frames", console.buffer # <<>>, FrameUnchanged, ConnectionUnchanged,
           NEW acc \in BOOLEAN, console' = Replied(Taken, Current.n, acc)
    PROVE  Served(acc)
<1>1. Taken \in Console /\ Taken.link = console.link /\ Taken.buffer = Tail(console.buffer)
      /\ Taken.pending = console.pending
  BY TakenType DEF Base, IInv, Taken, Console
<1>2. pc' = pc /\ stream' = stream
  BY DEF FrameUnchanged, ConnectionUnchanged
<1>3. QED
  BY <1>1, <1>2, ServesOne

LEMMA ScenarioStartCInv ==
    ASSUME Base, CInv, reported' = reported, NoticesNothing, ScenarioStart
    PROVE  CInv'
<1>1. pc = "frames" /\ console.buffer # <<>>
  BY DEF ScenarioStart, Processing
<1>2. at \in {0, 2} /\ (at > 0 => Current.req.timeout = ConsoleTimeout)
  BY ServedPlace, ScriptPlaces DEF ScenarioStart, Script
<1>3. CASE RefuseFrame
  <2>1. Served(FALSE) /\ Undisturbed(session, session')
    BY <1>1, <1>3, RefuseServes DEF ScenarioStart
  <2>2. QED
    BY <2>1, ServedRefused DEF Undisturbed
<1>4. CASE ~RefuseFrame
  <2>1. /\ session.phase = "Standby"
        /\ session' = StartScenario(ConfigureScenario(session, Current.req.timeout))
        /\ console' = Replied(Taken, Current.n, Accepted(session, session'))
    BY <1>4 DEF ScenarioStart
  <2>2. Current.req.timeout \in EngagementTimeouts
    BY <1>1, TakenType DEF Base, IInv, Frame, Request
  <2>3. session \in Session /\ MissionFacts(session)
    BY DEF Base, IInv, Sound
  <2>4. /\ Settles(session, session')
        /\ Accepted(session, session') =>
              /\ session'.code # "InvalidTransition"
              /\ session'.timeoutTicks = Current.req.timeout
    BY <2>1, <2>2, <2>3, StartResult
  <2>5. Served(Accepted(session, session'))
    BY <1>1, <2>1, DecidedServes DEF ScenarioStart, Accepted
  <2>6. CASE ~Accepted(session, session')
    <3>1. Served(FALSE)
      BY <2>5, <2>6 DEF Served
    <3>2. QED
      BY <1>2, <2>4, <3>1, ServedRefused
  <2>7. CASE Accepted(session, session')
    <3>1. Served(TRUE)
      BY <2>5, <2>7 DEF Served
    <3>2. session'.tick \in Nat
      <4>1. IInv'
        BY FramesIInv DEF Base
      <4>2. QED
        BY <4>1 DEF IInv, Sound, Session
    <3>3. ~session.ready
      BY <2>1, <2>3 DEF MissionFacts, PhaseFacts, PreLaunch
    <3>4. at # 6 /\ at # 5 /\ (at >= 2 => at > 0)
      BY <1>2
    <3>5. QED
      BY <1>2, <2>4, <2>7, <3>1, <3>2, <3>3, <3>4, ServedAccepted
  <2>8. QED
    BY <2>6, <2>7
<1>5. QED
  BY <1>3, <1>4

\* A command of the mission, k its place in the script.
LEMMA MissionCommandCInv ==
    ASSUME Base, CInv, reported' = reported, NoticesNothing, IInv',
           NEW kind, NEW outcome, MissionCommand(kind, outcome),
           NEW k \in {3, 4, 5}, Script[k] = kind,
           Settles(session, outcome),
           Accepted(session, outcome) =>
               IF k = 5 THEN /\ outcome.order = "Accepted" /\ outcome.code = session.code
                             /\ outcome.timeoutTicks = session.timeoutTicks
                             /\ outcome.started = outcome.tick
                        ELSE Carries(session, outcome)
    PROVE  CInv'
<1>1. pc = "frames" /\ console.buffer # <<>>
  BY DEF MissionCommand, Processing
<1>2. at \in {0, k}
  BY ServedPlace DEF MissionCommand
<1>3. CASE RefuseFrame
  <2>1. Served(FALSE) /\ Undisturbed(session, session')
    BY <1>1, <1>3, RefuseServes DEF MissionCommand
  <2>2. QED
    BY <2>1, ServedRefused DEF Undisturbed
<1>4. CASE ~RefuseFrame
  <2>1. session' = outcome /\ console' = Replied(Taken, Current.n, Accepted(session, outcome))
    BY <1>4 DEF MissionCommand
  <2>2. Served(Accepted(session, outcome))
    BY <1>1, <2>1, DecidedServes DEF MissionCommand, Accepted
  <2>3. at # 6
    BY <1>2
  <2>4. CASE ~Accepted(session, outcome)
    <3>1. Served(FALSE)
      BY <2>2, <2>4 DEF Served
    <3>2. QED
      BY <2>1, <2>3, <3>1, ServedRefused
  <2>5. CASE Accepted(session, outcome)
    <3>1. Served(TRUE)
      BY <2>2, <2>5 DEF Served
    <3>2. session'.tick \in Nat
      BY DEF IInv, Sound, Session
    <3>3. at >= 2 => session.code # "InvalidTransition" /\ session.timeoutTicks = ConsoleTimeout
      <4>1. reported' \in AssessmentCode
        BY DEF CInv, Place
      <4>2. Done = at - 1
        BY <3>1, <4>1, ServedShape
      <4>3. at >= 2 => Done >= 2
        BY <1>2, <4>2
      <4>4. QED
        BY <4>3 DEF CInv, Mission, Progress
    <3>4. at >= 2 => session'.code # "InvalidTransition"
                     /\ session'.timeoutTicks = ConsoleTimeout
      BY <2>1, <2>5, <3>3 DEF Carries
    <3>5. at = 5 => OrderGiven(session') /\ session'.started = session'.tick
      <4>1. at = 5 => k = 5 /\ at >= 2
        BY <1>2
      <4>2. QED
        BY <2>1, <2>5, <3>4, <4>1 DEF OrderGiven
    <3>6. at # 2
      BY <1>2
    <3>7. QED
      BY <2>1, <2>3, <3>1, <3>2, <3>4, <3>5, <3>6, ServedAccepted
  <2>6. QED
    BY <2>4, <2>5
<1>5. QED
  BY <1>3, <1>4

LEMMA CommandsCInv ==
    ASSUME Base, CInv, reported' = reported, NoticesNothing,
           TrackAcquire \/ InterceptorReady \/ EngageOrder
    PROVE  CInv'
<1>1. session \in Session /\ MissionFacts(session)
  BY DEF Base, IInv, Sound
<1>2. IInv'
  BY FramesIInv DEF Base
<1>3. CASE TrackAcquire
  <2>1. Script[3] = "track_acquire"
    BY DEF Script
  <2>2. QED
    BY <1>1, <1>2, <1>3, <2>1, TrackResult, MissionCommandCInv DEF TrackAcquire
<1>4. CASE InterceptorReady
  <2>1. Script[4] = "interceptor_ready"
    BY DEF Script
  <2>2. QED
    BY <1>1, <1>2, <1>4, <2>1, AssetResult, MissionCommandCInv DEF InterceptorReady
<1>5. CASE EngageOrder
  <2>1. Script[5] = "engage_order"
    BY DEF Script
  <2>2. QED
    BY <1>1, <1>2, <1>5, <2>1, OrderResult, MissionCommandCInv DEF EngageOrder
<1>6. QED
  BY <1>3, <1>4, <1>5

\* A review: it shows the verdict, or the order is still under way and the
\* program has reviews left.
LEMMA AarRequestCInv ==
    ASSUME Base, CInv, NoticesNothing, AarRequest,
           reported' = IF EnvelopeValid(Current.req) THEN session.code ELSE reported
    PROVE  CInv'
<1>1. pc = "frames" /\ console.buffer # <<>> /\ Current.req.kind = "aar_request"
  BY DEF AarRequest, Processing
<1>2. at \in {0, 6}
  BY ServedPlace, ScriptPlaces DEF AarRequest, Script
<1>3. CASE ~EnvelopeValid(Current.req)
  <2>1. RefuseFrame
    BY <1>3 DEF AarRequest
  <2>2. Served(FALSE) /\ Undisturbed(session, session')
    BY <1>1, <2>1, RefuseServes DEF AarRequest
  <2>3. QED
    BY <1>3, <2>2, ServedRefused DEF Undisturbed
<1>4. CASE EnvelopeValid(Current.req)
  <2>1. session' = session /\ console' = Replied(Taken, Current.n, TRUE)
        /\ reported' = session.code
    BY <1>4 DEF AarRequest
  <2>2. Served(TRUE)
    BY <1>1, <2>1, DecidedServes DEF AarRequest
  <2>3. session \in Session /\ MissionFacts(session)
    BY DEF Base, IInv, Sound
  <2>4. OrderGiven(session)
    BY <1>1 DEF CInv, OwnFrames, Own
  <2>5. /\ Place' /\ OneAtATime' /\ OwnFrames' /\ Done = at - 1 /\ Done' = at
        /\ Reviews = attempts
        /\ Reviews' = (IF at = 6 THEN attempts + 1 ELSE attempts)
        /\ console'.buffer = <<>> /\ pc' \notin Reading
    <3>1. reported' \in AssessmentCode
      BY <2>1, <2>3 DEF Session
    <3>2. QED
      BY <2>2, <3>1, ServedShape
  <2>6. at' = at /\ attempts' = attempts /\ outcomes' = outcomes /\ attempts \in Nat
    BY DEF NoticesNothing, CInv, Place
  <2>7. session.code # "Pending" <=> session.ready
    BY <2>3, <2>4 DEF MissionFacts, PhaseFacts, OrderGiven
  <2>8. at = 6 => session.code # "InvalidTransition" /\ session.timeoutTicks = ConsoleTimeout
    <3>1. at = 6 => Done >= 2
      BY <2>5
    <3>2. QED
      BY <3>1 DEF CInv, Mission, Progress
  <2>9. Progress'
    <3>1. Done' >= 2 => at = 6
      BY <1>2, <2>5
    <3>2. Done' >= 5 => OrderGiven(session)
      BY <2>4
    <3>3. QED
      BY <2>1, <2>4, <2>8, <3>1, <3>2 DEF Progress
  <2>10. at = 6 /\ UnderWay(session) => attempts + 1 <= session.tick - session.started
    <3> SUFFICES ASSUME at = 6, UnderWay(session)
                 PROVE  attempts + 1 <= session.tick - session.started
      OBVIOUS
    <3>1. Done >= 5
      BY <2>5
    <3>2. attempts < session.tick - session.started
      BY <1>1, <2>5, <3>1 DEF CInv, Mission, Counted
    <3>3. session.tick \in Nat /\ session.started \in Nat
      BY ClockTyped DEF Base
    <3>4. QED
      BY <2>6, <3>2, <3>3
  <2>11. Counted'
    <3>1. Done' >= 5 => at = 6
      BY <1>2, <2>5
    <3>2. QED
      BY <2>1, <2>5, <2>10, <3>1 DEF Counted
  <2>12. InTime'
    <3>1. at = 6 => attempts <= ConsoleTimeout - 1
      BY DEF CInv, Mission, InTime
    <3>2. ASSUME at = 6, session.code = "Pending"
          PROVE  attempts + 1 <= ConsoleTimeout - 1
      <4>1. ~session.ready
        BY <2>7, <3>2
      <4>2. session.phase # "Archived"
        BY <1>1, <4>1 DEF CInv, Mission, Reported
      <4>3. UnderWay(session)
        BY <2>3, <2>4, <4>1, <4>2
        DEF MissionFacts, PhaseFacts, PreLaunch, OrderGiven, UnderWay, Session, SessionPhase
      <4>4. attempts + 1 <= session.tick - session.started
        BY <2>10, <3>2, <4>3
      <4>5. session.tick \in Nat /\ session.started \in Nat
        BY <4>3, ClockTyped DEF Base
      <4>6. session.phase = "Intercepting" /\ session.order = "Executing"
        <5>1. session.phase = "EngageOrdered" => session.started = session.tick
          BY <2>3, <2>4 DEF MissionFacts, PhaseFacts, OrderGiven
        <5>2. session.started # session.tick
          BY <2>6, <4>4, <4>5
        <5>3. session.phase = "Intercepting"
          BY <4>3, <5>1, <5>2 DEF UnderWay
        <5>4. QED
          BY <2>3, <2>4, <5>3 DEF MissionFacts, PhaseFacts, OrderGiven
      <4>7. session.tick - session.started < ConsoleTimeout
        BY <2>3, <2>8, <3>2, <4>6 DEF MissionFacts, TimelyFacts
      <4>8. QED
        BY <2>6, <4>4, <4>5, <4>7, TimeoutTyped
    <3>3. QED
      BY <2>1, <2>5, <2>6, <3>1, <3>2 DEF InTime
  <2>13. Reported'
    <3>1. reported' # "Pending" => session'.ready /\ session'.code = reported'
      BY <2>1, <2>7
    <3>2. QED
      BY <1>1, <2>1, <3>1 DEF CInv, Mission, Reported
  <2>14. Ending'
    <3>1. ASSUME NEW i \in 1 .. Len(outcomes), outcomes[i] = "verdict"
          PROVE  reported' # "Pending" /\ at <= 2 /\ Done' <= 1
      <4>1. reported # "Pending" /\ at <= 2
        BY <3>1 DEF CInv, Ending
      <4>2. session.ready
        BY <4>1 DEF CInv, Mission, Reported
      <4>3. at = 0
        BY <1>2, <4>1
      <4>4. QED
        BY <2>1, <2>5, <2>7, <4>1, <4>2, <4>3
    <3>2. QED
      BY <2>6, <3>1 DEF CInv, Ending
  <2>15. QED
    BY <2>5, <2>9, <2>11, <2>12, <2>13, <2>14 DEF CInv, Mission
<1>5. QED
  BY <1>3, <1>4
--------------------------------------------------------------------------------
(****************************************************************************)
(* Every step, and the theorems                                             *)
(****************************************************************************)

\* A step that moves no answer, seen by the program.
LEMMA UnansweredStep ==
    ASSUME Base, CInv, ServerRuns, NoticesNothing \/ console'.pending = console.pending \/ at = 0
    PROVE  NoticesNothing
<1>1. CASE console'.pending = console.pending
  <2>1. Len(console.pending) \in Nat
    BY DEF Base, IInv, Console
  <2>2. ~Delivered
    BY <1>1, <2>1 DEF Delivered
  <2>3. QED
    BY <2>2 DEF ServerRuns, NoticesNothing
<1>2. CASE at = 0
  BY <1>2 DEF CInv, Place, Delivered, ServerRuns, NoticesNothing
<1>3. QED
  BY <1>1, <1>2

LEMMA ServerRunsCInv ==
    ASSUME Base, CInv, ServerRuns
    PROVE  CInv'
<1>1. CASE \/ BeginPoll \/ NobodyConnects \/ DatagramsDone \/ NothingToRead \/ ReadFailure
           \/ ReadStream \/ ReadEndOfStream \/ Tick \/ LoopEnd
  <2>1. pc # "frames" /\ (console'.pending = console.pending \/ at = 0)
    <3>1. CASE ReadStream
      BY <3>1 DEF ReadStream, Base, IInv, Console
    <3>2. CASE ReadEndOfStream
      <4>1. pc = "recv" /\ console.link # "Open"
        BY <3>2 DEF ReadEndOfStream
      <4>2. QED
        BY <4>1 DEF CInv, Place
    <3>3. CASE \/ BeginPoll \/ NobodyConnects \/ DatagramsDone \/ NothingToRead \/ ReadFailure
               \/ Tick \/ LoopEnd
      BY <3>3 DEF BeginPoll, NobodyConnects, DatagramsDone, NothingToRead, ReadFailure, Tick,
                  LoopEnd
    <3>4. QED
      BY <1>1, <3>1, <3>2, <3>3
  <2>2. NoticesNothing
    BY <2>1, UnansweredStep
  <2>3. reported' = reported
    BY <2>1 DEF ServerRuns, Processing
  <2>4. QED
    BY <1>1, <2>2, <2>3, IdleCInv, ReadStreamCInv, ReadEndOfStreamCInv, TickCInv, LoopEndCInv
<1>2. CASE FlushBeforeReading \/ FlushAfterReading
  <2>1. reported' = reported
    BY <1>2 DEF FlushBeforeReading, FlushAfterReading, ServerRuns, Processing
  <2>2. IF Delivered THEN Answered(Head(console.pending)) ELSE NoticesNothing
    BY DEF ServerRuns, NoticesNothing
  <2>3. CASE FlushBeforeReading
    BY <2>1, <2>2, <2>3, FlushCInv DEF FlushBeforeReading
  <2>4. CASE FlushAfterReading
    BY <2>1, <2>2, <2>4, FlushCInv DEF FlushAfterReading
  <2>5. QED
    BY <1>2, <2>3, <2>4
<1>3. CASE \/ SessionJoin \/ ScenarioStart \/ TrackAcquire \/ InterceptorReady \/ EngageOrder
           \/ AarRequest
  <2>1. console.buffer # <<>> /\ pc = "frames"
    BY <1>3 DEF SessionJoin, ScenarioStart, TrackAcquire, InterceptorReady, EngageOrder,
                MissionCommand, AarRequest, Processing
  <2>2. ~Delivered
    <3>1. console.pending = <<>>
      BY <2>1 DEF CInv, OneAtATime
    <3>2. Len(<<>>) = 0
      OBVIOUS
    <3>3. IInv'
      BY <1>3, FramesIInv DEF Base
    <3>4. Len(console'.pending) \in Nat
      BY <3>3 DEF IInv, Console
    <3>5. QED
      BY <3>1, <3>2, <3>4 DEF Delivered
  <2>3. NoticesNothing
    BY <2>2 DEF ServerRuns, NoticesNothing
  <2>4. CASE AarRequest
    <3>1. Processing("aar_request")
      BY <2>4 DEF AarRequest
    <3>2. reported' = IF EnvelopeValid(Current.req) THEN session.code ELSE reported
      BY <3>1 DEF ServerRuns
    <3>3. QED
      BY <2>3, <2>4, <3>2, AarRequestCInv
  <2>5. CASE SessionJoin \/ ScenarioStart \/ TrackAcquire \/ InterceptorReady \/ EngageOrder
    <3>1. Current.req.kind # "aar_request"
      BY <2>5 DEF SessionJoin, ScenarioStart, TrackAcquire, InterceptorReady, EngageOrder,
                  MissionCommand, Processing
    <3>2. reported' = reported
      BY <3>1 DEF ServerRuns, Processing
    <3>3. QED
      BY <2>3, <2>5, <3>2, SessionJoinCInv, ScenarioStartCInv, CommandsCInv
  <2>6. QED
    BY <1>3, <2>4, <2>5
<1>4. QED
  BY <1>1, <1>2, <1>3 DEF ServerRuns

LEMMA CInvNext ==
    ASSUME Base, CInv, [ConsoleNext]_allVars
    PROVE  CInv'
<1>1. CASE Signal /\ UNCHANGED programVars
  BY <1>1, IdleCInv DEF programVars, NoticesNothing
<1>2. CASE UNCHANGED allVars
  BY <1>2, IdleCInv DEF allVars, programVars, NoticesNothing
<1>3. QED
  BY <1>1, <1>2, ConnectsCInv, ConnectsInVainCInv, AsksCInv, GivesUpCInv, SocketClosesCInv,
     ServerRunsCInv DEF ConsoleNext

LEMMA ConsoleInitCInv ==
    ASSUME ConsoleInit
    PROVE  CInv
<1>1. PICK t \in EngagementTimeouts : session = NewSession(t)
  BY DEF ConsoleInit, Init
<1>2. /\ session.phase = "Standby" /\ ~session.ready
      /\ session.log.count["EngageOrderAccepted"] = 0
  <2>1. /\ session.phase = "Standby" /\ session.ready = FALSE /\ session.log = EmptyLog
    BY <1>1 DEF NewSession
  <2>2. EmptyLog.count = [e \in EventType |-> 0] /\ "EngageOrderAccepted" \in EventType
    BY DEF EmptyLog, EventType
  <2>3. EmptyLog.count["EngageOrderAccepted"] = 0
    BY <2>2
  <2>4. QED
    BY <2>1, <2>3
<1>3. /\ console.buffer = <<>> /\ console.pending = <<>> /\ stream = <<>>
      /\ at = 0 /\ waiting = FALSE /\ attempts = 0 /\ reported = "Pending" /\ outcomes = <<>>
  BY DEF ConsoleInit, Init, NoConsole
<1>4. Place
  <2>1. "Pending" \in AssessmentCode /\ <<>> \in Seq(Outcome) /\ 0 \in 0 .. 6
    BY DEF AssessmentCode
  <2>2. waiting \in BOOLEAN
    BY <1>3
  <2>3. QED
    BY <1>3, <2>1, <2>2 DEF Place
<1>5. OneAtATime /\ OwnFrames
  BY <1>3 DEF OneAtATime, OwnFrames
<1>6. Done = -1
  BY <1>3 DEF Done
<1>7. Progress /\ Counted /\ InTime
  BY <1>3, <1>6 DEF Progress, Counted, InTime
<1>8. Reported
  BY <1>2, <1>3 DEF Reported, OrderCount, OrdersLogged, UnderWay
<1>9. Ending
  <2>1. \A i \in 1 .. Len(outcomes) : FALSE
    BY <1>3
  <2>2. QED
    BY <2>1 DEF Ending
<1>10. QED
  BY <1>4, <1>5, <1>7, <1>8, <1>9 DEF CInv, Mission

\* The program's consoles are consoles of the server: every run of both is one of
\* the server's module.
LEMMA ConsoleSpecIsSpec == ConsoleSpec => Spec
<1>1. ConsoleInit => Init
  BY DEF ConsoleInit
<1>2. [ConsoleNext]_allVars => [Next]_vars
  <2>1. ConsoleNext => Next \/ UNCHANGED vars
    BY DEF ConsoleNext, Connects, ConnectsInVain, Asks, GivesUp, SocketCloses, ServerRuns,
           Next, Server
  <2>2. QED
    BY <2>1 DEF allVars
<1>3. QED
  BY <1>1, <1>2, PTL DEF ConsoleSpec, Spec

LEMMA ConsoleSpecCInv == ConsoleSpec => [](Base /\ CInv)
<1>1. Base /\ CInv /\ [ConsoleNext]_allVars => CInv'
  BY CInvNext
<1>2. ConsoleInit => CInv
  BY ConsoleInitCInv
<1>3. ConsoleSpec => []Base
  <2>1. IInv /\ LinkInv /\ AInv => Base
    BY DEF Base
  <2>2. QED
    BY <2>1, ConsoleSpecIsSpec, SpecTInv, SpecQueues, PTL
<1>4. QED
  BY <1>1, <1>2, <1>3, PTL DEF ConsoleSpec

\* No run of the program ends for want of reviews: there is a tick between two
\* served reviews, and the verdict comes within the timeout the program itself
\* has configured.
THEOREM ReviewsNeverRunOut == ConsoleSpec => []ReviewsSuffice
<1>1. CInv => ReviewsSuffice
  BY DEF CInv, Ending, ReviewsSuffice
<1>2. QED
  BY <1>1, ConsoleSpecCInv, PTL

\* What a program reports is the outcome of its own order: while it waits for the
\* verdict nothing has spoilt the order, one run at most ends with a verdict, it is
\* the session's, and the session has accepted one order.
THEOREM VerdictsOwn == ConsoleSpec => []OutcomeIsOwn
<1>1. ASSUME Base, CInv PROVE ConsoleTypeOK
  <2>1. session \in Session /\ console \in Console /\ stream \in Seq(Frame)
    BY <1>1 DEF Base, IInv, Sound
  <2>2. at \in 0 .. Len(Script) /\ waiting \in BOOLEAN
        /\ reported \in AssessmentCode /\ outcomes \in Seq(Outcome)
    BY <1>1, ScriptPlaces DEF CInv, Place
  <2>3. attempts \in 0 .. MaxAttempts
    <3>1. attempts \in Nat /\ (at # 6 => attempts = 0)
          /\ (at = 6 => attempts <= ConsoleTimeout - 1)
      BY <1>1 DEF CInv, Place, Mission, InTime
    <3>2. MaxAttempts \in Nat /\ ConsoleTimeout <= MaxAttempts
      BY TimeoutTyped DEF MaxAttempts
    <3>3. QED
      BY <3>1, <3>2, TimeoutTyped
  <2>4. Len(console.buffer) + Len(console.pending) + Len(stream) <= 1
    <3>1. /\ Len(console.buffer) \in Nat /\ Len(console.pending) \in Nat /\ Len(stream) \in Nat
          /\ Len(<<>>) = 0
      BY <2>1 DEF Console
    <3>2. /\ Len(console.buffer) <= 1 /\ Len(console.pending) <= 1 /\ Len(stream) <= 1
          /\ console.buffer # <<>> => console.pending = <<>> /\ stream = <<>>
      BY <1>1 DEF CInv, OneAtATime
    <3>3. console.pending # <<>> => stream = <<>>
      BY <1>1 DEF CInv, OneAtATime
    <3>4. /\ Len(console.buffer) = 0 \/ (Len(console.pending) = 0 /\ Len(stream) = 0)
          /\ Len(console.pending) = 0 \/ Len(stream) = 0
      BY <3>1, <3>2, <3>3
    <3>5. \A b, p, f \in Nat :
             b <= 1 /\ p <= 1 /\ f <= 1 /\ (b = 0 \/ (p = 0 /\ f = 0)) /\ (p = 0 \/ f = 0)
             => b + p + f <= 1
      OBVIOUS
    <3>6. QED
      BY <3>1, <3>2, <3>4, <3>5
  <2>5. QED
    BY <2>1, <2>2, <2>3, <2>4 DEF ConsoleTypeOK
<1>2. ASSUME CInv PROVE OrderUndisturbed
  BY <1>2, ScriptPlaces DEF CInv, Mission, Progress, OrderGiven, OrderUndisturbed
<1>3. ASSUME CInv PROVE VerdictIsOwn
  <2> SUFFICES ASSUME NEW i \in Verdicts
               PROVE  /\ \E k \in Verdicts : Verdicts = {k}
                      /\ session.ready /\ session.code = reported
                      /\ session.log.count["EngageOrderAccepted"] = 1
    BY DEF VerdictIsOwn
  <2>1. \A j \in Verdicts : j = i
    BY <1>3 DEF CInv, Ending, Verdicts
  <2>2. reported # "Pending"
    BY <1>3 DEF CInv, Ending, Verdicts
  <2>3. session.ready /\ session.code = reported
    BY <1>3, <2>2 DEF CInv, Mission, Reported
  <2>4. session.log.count["EngageOrderAccepted"] = 1
    BY <1>3, <2>3 DEF CInv, Mission, Reported, OrderCount, OrdersLogged
  <2>5. QED
    BY <2>1, <2>3, <2>4
<1>4. Base /\ CInv => OutcomeIsOwn
  BY <1>1, <1>2, <1>3 DEF OutcomeIsOwn
<1>5. QED
  BY <1>4, ConsoleSpecCInv, PTL
================================================================================
