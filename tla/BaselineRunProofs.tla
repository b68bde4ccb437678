--------------------------- MODULE BaselineRunProofs ---------------------------
(****************************************************************************)
(* Theorems of InProcessTransport and BaselineRun for every timeout and     *)
(* every set of ids.  The transport, under any calls: ids and connections   *)
(* agree, and a refused command moves nothing.  The fixed runs: no call is  *)
(* refused, every run that engages ends with a verdict and its evidence,    *)
(* and transport and bare session come to the same end.  The work is in the *)
(* loop: it counts ticks from the order on, as the session does, and an     *)
(* order is younger than its timeout as long as it has no verdict           *)
(* (TimelyFacts); so the count cannot reach the timeout without one.        *)
(****************************************************************************)
EXTENDS BaselineRun, SessionProofs

--------------------------------------------------------------------------------
(****************************************************************************)
(* The in_process transport under any calls.                                *)
(****************************************************************************)

\* The inductive invariant of the transport.
TransportInv == TypeOK /\ SendersMatchConnections

\* A call that lets nobody come or go and leaves the ids alone.
LEMMA PresenceKept ==
    ASSUME TransportInv, session' \in Session,
           \A r \in ClientRole : SamePresence(session.connection[r], session'.connection[r]),
           UNCHANGED <<commandSender, viewerSender>>, served' \in Payload \cup {NoPayload}
    PROVE  TransportInv'
<1>1. TypeOK'
  BY DEF TransportInv, TypeOK
<1>2. SendersMatchConnections'
  BY DEF TransportInv, SendersMatchConnections, SamePresence
<1>3. QED
  BY <1>1, <1>2 DEF TransportInv

\* An arrival or departure that gives its client an id, or takes it away.
LEMMA ArrivalIdentified ==
    ASSUME TransportInv, session' \in Session, NEW role \in ClientRole,
           NEW sender \in Senders \cup {NoSender}, NEW there \in BOOLEAN,
           Arrives(session, session', role, there), there <=> sender # NoSender,
           Identified(role, sender), served' = NoPayload
    PROVE  TransportInv'
<1>1. TypeOK'
  BY DEF TransportInv, TypeOK, Identified
<1>2. /\ (session'.connection[role] \in Present) <=> there
      /\ \A r \in ClientRole \ {role} :
            SamePresence(session.connection[r], session'.connection[r])
  BY DEF Arrives
<1>3. "Disconnected" \notin Present
  BY DEF Present
<1>4. ASSUME NEW r \in ClientRole
      PROVE  LET id == IF r = "FireControlConsole" THEN commandSender' ELSE viewerSender'
             IN  /\ id # NoSender => session'.connection[r] # "Disconnected"
                 /\ session'.connection[r] \in Present => id # NoSender
  <2>1. CASE r = role
    <3>1. (IF r = "FireControlConsole" THEN commandSender' ELSE viewerSender') = sender
      BY <2>1 DEF Identified
    <3>2. QED
      BY <1>2, <1>3, <2>1, <3>1
  <2>2. CASE r # role
    <3>1. (IF r = "FireControlConsole" THEN commandSender' ELSE viewerSender')
             = (IF r = "FireControlConsole" THEN commandSender ELSE viewerSender)
      BY <2>2 DEF Identified, ClientRole
    <3>2. SamePresence(session.connection[r], session'.connection[r])
      BY <1>2, <2>2
    <3>3. QED
      BY <3>1, <3>2 DEF TransportInv, SendersMatchConnections, SamePresence
  <2>3. QED
    BY <2>1, <2>2
<1>5. SendersMatchConnections'
  BY <1>4 DEF SendersMatchConnections
<1>6. QED
  BY <1>1, <1>5 DEF TransportInv

\* A command is one of four operations of the session.
LEMMA CommandedSteady ==
    ASSUME NEW s \in Session, NEW kind \in CommandKind
    PROVE  Commanded(s, kind) \in Session /\ Steady(s, Commanded(s, kind))
BY TrackCommandsType, ActivateAssetType, IssueCommandType, TrackCommandsSteady, CommandsSteady
DEF Commanded, CommandKind

\* Nobody has an id before the first connect.
LEMMA InitTransportInv == Init => TransportInv
BY NewSessionType
DEF Init, TransportInv, TypeOK, SendersMatchConnections, NewSession, Present, ClientRole

\* Every call keeps the invariant.
LEMMA NextTransportInv == TransportInv /\ [Next]_vars => TransportInv'
<1>1. SUFFICES ASSUME TransportInv, [Next]_vars PROVE TransportInv'
  OBVIOUS
<1>2. session \in Session
  BY <1>1 DEF TransportInv, TypeOK
<1>3. CASE UNCHANGED vars
  BY <1>1, <1>3 DEF vars, TransportInv, TypeOK, SendersMatchConnections
<1>4. ASSUME NEW role \in ClientRole, NEW sender \in Senders, Connect(role, sender)
      PROVE  TransportInv'
  <2>1. Arrives(session, session', role, TRUE) /\ session' \in Session
    BY <1>2, <1>4, ClientsArrive, ClientOperationsType DEF Connect
  <2>2. sender # NoSender
    BY SendersAreIds
  <2>3. QED
    BY <1>1, <1>4, <2>1, <2>2, ArrivalIdentified DEF Connect
<1>5. ASSUME NEW role \in ClientRole, Disconnect(role)
      PROVE  TransportInv'
  <2>1. Arrives(session, session', role, FALSE) /\ session' \in Session
    BY <1>2, <1>5, ClientsArrive, ClientOperationsType DEF Disconnect
  <2>2. QED
    BY <1>1, <1>5, <2>1, ArrivalIdentified DEF Disconnect
<1>6. ASSUME NEW role \in ClientRole, Timeout(role)
      PROVE  TransportInv'
  <2>1. /\ Arrives(session, session', role, FALSE) /\ session' \in Session
        /\ session'.connection[role] # "Disconnected"
        /\ UNCHANGED <<commandSender, viewerSender>> /\ served' = NoPayload
    BY <1>2, <1>6, ClientsArrive, ClientOperationsType DEF Timeout
  <2>2. TypeOK'
    BY <1>1, <2>1 DEF TransportInv, TypeOK
  <2>3. SendersMatchConnections'
    BY <1>1, <2>1 DEF TransportInv, SendersMatchConnections, Arrives, SamePresence
  <2>4. QED
    BY <2>2, <2>3 DEF TransportInv
<1>7. ASSUME NEW p \in Payload, Dispatch(p)
      PROVE  TransportInv'
  <2>1. p.kind \in CommandKind
    BY DEF Payload
  <2>2. session' \in Session /\ Steady(session, session')
    <3>1. RejectPayload(session) \in Session /\ Steady(session, RejectPayload(session))
      BY <1>2, PushEventType, RejectionsSteady
      DEF RejectPayload, RecordTransportRejection, EventType
    <3>2. /\ Commanded(session, p.kind) \in Session
          /\ Steady(session, Commanded(session, p.kind))
      BY <1>2, <2>1, CommandedSteady
    <3>3. session' \in {RejectPayload(session), Commanded(session, p.kind)}
      BY <1>7 DEF Dispatch
    <3>4. QED
      BY <3>1, <3>2, <3>3
  <2>3. QED
    BY <1>1, <1>7, <2>2, PresenceKept DEF Dispatch, Steady
<1>8. CASE Start
  <2>1. session' \in Session /\ Steady(session, session')
    BY <1>2, <1>8, StartScenarioType, StartScenarioSteady DEF Start, Passed
  <2>2. QED
    BY <1>1, <1>8, <2>1, PresenceKept DEF Start, Passed, Steady
<1>9. CASE Reset
  BY <1>1, <1>2, <1>9, ResetSessionType, ResetSessionPresence, PresenceKept DEF Reset, Passed
<1>10. CASE Archive
  <2>1. session' \in Session /\ Steady(session, session')
    BY <1>2, <1>10, ArchiveSessionType, CommandsSteady DEF Archive, Passed
  <2>2. QED
    BY <1>1, <1>10, <2>1, PresenceKept DEF Archive, Passed, Steady
<1>11. ASSUME NEW hit \in BOOLEAN, NEW inFov \in BOOLEAN, Advance(hit, inFov)
       PROVE  TransportInv'
  <2>1. session' \in Session /\ Steady(session, session')
    BY <1>2, <1>11, AdvanceTickType, AdvanceTickSteady DEF Advance, Passed
  <2>2. QED
    BY <1>1, <1>11, <2>1, PresenceKept DEF Advance, Passed, Steady
<1>12. QED
  BY <1>1, <1>3, <1>4, <1>5, <1>6, <1>7, <1>8, <1>9, <1>10, <1>11 DEF Next, Tick

\* Ids and connections agree under any calls of the transport: joins and leaves
\* of either client, timeouts, resets and commands, in any order.
THEOREM SendersKeptMatching == Spec => []SendersMatchConnections
<1>1. TransportInv => SendersMatchConnections
  BY DEF TransportInv
<1>2. QED
  BY InitTransportInv, NextTransportInv, <1>1, PTL DEF Spec

\* A command that is refused for its envelope is an entry in the log, no more.
LEMMA RefusedMovesNothing ==
    ASSUME TransportInv, [Next]_vars, served' # NoPayload,
           \/ served'.sender # commandSender \/ ~served'.sessionOk \/ ~served'.entitiesOk
           \/ session.connection["FireControlConsole"] = "Disconnected"
    PROVE  Mission(session') = Mission(session)
<1>1. session \in Session
  BY DEF TransportInv, TypeOK
<1>2. CASE UNCHANGED vars
  BY <1>2 DEF vars
<1>3. ASSUME NEW p \in Payload, Dispatch(p)
      PROVE  Mission(session') = Mission(session)
  <2>1. served' = p
    BY <1>3 DEF Dispatch
  <2>2. session.connection["FireControlConsole"] = "Disconnected" => commandSender = NoSender
    BY DEF TransportInv, SendersMatchConnections, ClientRole
  <2>3. ~(ValidEnvelope(p) /\ p.entitiesOk)
    BY <2>1, <2>2 DEF ValidEnvelope
  <2>4. session' = PushEvent(session, "EngageOrderRejected")
    BY <1>3, <2>3 DEF Dispatch, RejectPayload, RecordTransportRejection
  <2>5. QED
    BY <1>1, <2>4 DEF PushEvent, Mission, Session
<1>4. CASE Next /\ served' = NoPayload
  BY <1>4
<1>5. QED
  BY <1>2, <1>3, <1>4 DEF Next, Connect, Disconnect, Timeout, Start, Reset, Archive, Tick,
     Advance, Passed

\* Whatever came before, a command in another's name, after the console has left,
\* or for another session or target, moves nothing: dispatch checks the id against
\* the one it keeps, and ids are kept as the session sees its clients.
THEOREM RefusalsHarmless == Spec => RefusalHarmless
<1>1. TransportInv /\ [Next]_vars =>
         [/\ served' # NoPayload
          /\ \/ served'.sender # commandSender \/ ~served'.sessionOk \/ ~served'.entitiesOk
             \/ session.connection["FireControlConsole"] = "Disconnected"
          => Mission(session') = Mission(session)]_vars
  BY RefusedMovesNothing
<1>2. QED
  BY InitTransportInv, NextTransportInv, <1>1, PTL DEF Spec, RefusalHarmless

--------------------------------------------------------------------------------
(****************************************************************************)
(* The runs.                                                                *)
(****************************************************************************)

\* The last snapshot tells whether there is a verdict.
VerdictShown(s) == s.latest.ready = s.ready

\* An order of age n is under way, or the verdict is in.
LoopFacts(s, n) ==
    \/ s.ready
    \/ s.phase = "EngageOrdered" /\ s.order = "Accepted" /\ s.started = s.tick /\ n = 0
    \/ /\ s.phase = "Intercepting" /\ s.order = "Executing"
       /\ s.tick - s.started = n /\ n > 0

\* How far the mission has come when a call is next.
Progress(call, s, n) ==
    /\ call \in {"connect_console", "connect_display", "start"} => s.phase = "Standby"
    /\ call \in {"connect_display", "start"} =>
          s.connection["FireControlConsole"] # "Disconnected"
    /\ call = "acquire" => s.phase = "Detecting"
    /\ call \in {"tick", "ready"} => s.phase = "Tracking"
    /\ call \in {"drop", "leave", "rejoin", "engage"} => s.phase = "InterceptorReady"
    /\ call = "loop" => LoopFacts(s, n)

\* The inductive invariant of a run.
RInv ==
    /\ RunTypeOK /\ MissionFacts(session) /\ VerdictShown(session) /\ RoutesAgree
    /\ pc # "connect_console" => commandSender = ConsoleSender
    /\ pc \notin {"loop", "archive", "report", "done", "threw"} => ticked = 0
    /\ Progress(pc, session, ticked)
    /\ program \in Engagement /\ pc \in {"archive", "report", "done"} => session.ready
    /\ pc # "threw" => exitCode \in {NoExit, 0}

--------------------------------------------------------------------------------
(****************************************************************************)
(* What the calls do to the mission.                                        *)
(****************************************************************************)

\* record_snapshot publishes whether there is a verdict.
LEMMA RecordSnapshotPublishes ==
    ASSUME NEW s \in Session
    PROVE  VerdictShown(RecordSnapshot(s))
BY DEF VerdictShown, RecordSnapshot, SnapshotOf, Session

\* A log entry alone publishes nothing and changes no verdict.
LEMMA PushEventPublished ==
    ASSUME NEW s \in Session, NEW type \in EventType
    PROVE  /\ VerdictShown(s) => VerdictShown(PushEvent(s, type))
           /\ PushEvent(s, type).connection = s.connection
BY DEF VerdictShown, PushEvent, Session

\* A rejected command publishes nothing, and leaves the phase and the verdict.
LEMMA RejectCommandPublished ==
    ASSUME NEW s \in Session
    PROVE  /\ VerdictShown(s) => VerdictShown(RejectCommand(s))
           /\ RejectCommand(s).phase = s.phase
BY DEF VerdictShown, RejectCommand, PushEvent, Session

\* Clients come and go without a word about the verdict; a console that has
\* connected is there, and a display that comes or goes leaves it there.
LEMMA ClientsPublished ==
    ASSUME NEW s \in Session, NEW role \in ClientRole, VerdictShown(s)
    PROVE  /\ VerdictShown(ConnectClient(s, role)) /\ VerdictShown(DisconnectClient(s, role))
           /\ ConnectClient(s, role).connection[role] # "Disconnected"
           /\ \A other \in ClientRole \ {role} :
                 ConnectClient(s, role).connection[other] = s.connection[other]
<1> DEFINE known  == s.joined[role]
           placed == [s EXCEPT !.joined[role] = TRUE,
                               !.connection[role] = IF known THEN "Reconnected" ELSE "Connected",
                               !.reconnectExercised = @ \/ known]
           back   == PushEvent(placed, "ClientReconnected")
<1>1. /\ [s.joined EXCEPT ![role] = TRUE] \in [ClientRole -> BOOLEAN]
      /\ [s.connection EXCEPT ![role] = IF known THEN "Reconnected" ELSE "Connected"]
            \in [ClientRole -> ConnectionState]
      /\ (s.reconnectExercised \/ known) \in BOOLEAN
  BY DEF Session, ConnectionState
<1>2. placed \in Session
  BY <1>1 DEF Session
<1>3. /\ placed.latest = s.latest /\ placed.ready = s.ready
      /\ placed.connection[role] # "Disconnected"
      /\ \A other \in ClientRole \ {role} : placed.connection[other] = s.connection[other]
  BY DEF Session
<1>4. VerdictShown(placed)
  BY <1>3 DEF VerdictShown
<1>5. ConnectClient(s, role) = IF known THEN PushEvent(back, "ResilienceTriggered")
                                        ELSE PushEvent(placed, "ClientJoined")
  BY DEF ConnectClient
<1> HIDE DEF placed
<1>6. back \in Session /\ VerdictShown(back) /\ back.connection = placed.connection
  BY <1>2, <1>4, PushEventType, PushEventPublished DEF EventType
<1> HIDE DEF back
<1>7. /\ VerdictShown(ConnectClient(s, role))
      /\ ConnectClient(s, role).connection = placed.connection
  BY <1>2, <1>4, <1>5, <1>6, PushEventPublished DEF EventType
<1>8. VerdictShown(DisconnectClient(s, role))
  BY DEF DisconnectClient, VerdictShown, PushEvent, Session
<1>9. QED
  BY <1>3, <1>7, <1>8

\* start_scenario of a console that is there begins the detection.
LEMMA StartsDetecting ==
    ASSUME NEW s \in Session, s.phase = "Standby",
           s.connection["FireControlConsole"] # "Disconnected"
    PROVE  VerdictShown(StartScenario(s)) /\ StartScenario(s).phase = "Detecting"
<1> DEFINE u == [s EXCEPT !.phase = "Detecting", !.targetActive = TRUE,
                          !.track = ClearedTrack, !.interceptor = "Idle",
                          !.order = "None", !.ready = FALSE, !.code = "Pending"]
           e == PushEvent(u, "SessionStarted")
<1>1. u \in Session /\ u.phase = "Detecting"
  BY TrackConstantsType
  DEF Session, SessionPhase, InterceptorStatus, EngageOrderStatus, AssessmentCode
<1>2. StartScenario(s) = RecordSnapshot(e)
  BY DEF StartScenario
<1> HIDE DEF u
<1>3. e \in Session /\ SameRecord(u, e)
  BY <1>1, PushEventType, PushEventSame DEF EventType
<1> HIDE DEF e
<1>4. QED
  BY <1>1, <1>2, <1>3, RecordSnapshotSame, RecordSnapshotPublishes DEF SameRecord, SameMission

\* request_track of a detected target begins the tracking.
LEMMA AcquiresTracking ==
    ASSUME NEW s \in Session, s.phase = "Detecting"
    PROVE  VerdictShown(RequestTrack(s)) /\ RequestTrack(s).phase = "Tracking"
<1> DEFINE u == [s EXCEPT !.track = SeededTrack,
                          !.phase = IF @ = "Detecting" THEN "Tracking" ELSE @]
           e == PushTrackEvent(u, "TrackUpdated", TRUE)
<1>1. u \in Session /\ u.phase = "Tracking"
  BY TrackConstantsType DEF Session, SessionPhase
<1>2. RequestTrack(s) = RecordSnapshot(e)
  BY DEF RequestTrack
<1> HIDE DEF u
<1>3. e \in Session /\ SameMission(u, RecordSnapshot(e))
  BY <1>1, PushTrackEventType, PublishTrackSame DEF EventType
<1> HIDE DEF e
<1>4. QED
  BY <1>1, <1>2, <1>3, RecordSnapshotPublishes DEF SameMission

\* activate_asset with a track readies the interceptor.
LEMMA ActivatesReady ==
    ASSUME NEW s \in Session, s.phase = "Tracking", s.track.active
    PROVE  VerdictShown(ActivateAsset(s)) /\ ActivateAsset(s).phase = "InterceptorReady"
<1> DEFINE u == [s EXCEPT !.interceptor = "Ready", !.assetActive = TRUE,
                          !.phase = "InterceptorReady"]
           e == PushEvent(u, "InterceptorUpdated")
<1>1. u \in Session /\ u.phase = "InterceptorReady"
  BY DEF Session, InterceptorStatus, SessionPhase
<1>2. ActivateAsset(s) = RecordSnapshot(e)
  BY DEF ActivateAsset
<1> HIDE DEF u
<1>3. e \in Session /\ SameRecord(u, e)
  BY <1>1, PushEventType, PushEventSame DEF EventType
<1> HIDE DEF e
<1>4. QED
  BY <1>1, <1>2, <1>3, RecordSnapshotSame, RecordSnapshotPublishes DEF SameRecord, SameMission

\* release_track leaves a ready interceptor ready.
LEMMA ReleasesReady ==
    ASSUME NEW s \in Session, s.phase = "InterceptorReady", VerdictShown(s)
    PROVE  VerdictShown(ReleaseTrack(s)) /\ ReleaseTrack(s).phase = "InterceptorReady"
<1> DEFINE u == [s EXCEPT !.track = ClearedTrack,
                          !.phase = IF @ = "Tracking" THEN "Detecting" ELSE @]
           e == PushTrackEvent(u, "TrackUpdated", FALSE)
<1>1. u \in Session /\ u.phase = "InterceptorReady"
  BY TrackConstantsType DEF Session, SessionPhase
<1>2. ReleaseTrack(s) = IF s.track.active THEN RecordSnapshot(e) ELSE RejectCommand(s)
  BY DEF ReleaseTrack
<1> HIDE DEF u
<1>3. e \in Session /\ SameMission(u, RecordSnapshot(e))
  BY <1>1, PushTrackEventType, PublishTrackSame DEF EventType
<1> HIDE DEF e
<1>4. QED
  BY <1>1, <1>2, <1>3, RecordSnapshotPublishes, RejectCommandPublished DEF SameMission

\* issue_command with a ready interceptor gives an order of age zero.
LEMMA OrdersEngagement ==
    ASSUME NEW s \in Session, s.phase = "InterceptorReady", s.interceptor = "Ready"
    PROVE  VerdictShown(IssueCommand(s)) /\ LoopFacts(IssueCommand(s), 0)
<1> DEFINE u == [s EXCEPT !.order = "Accepted", !.phase = "EngageOrdered", !.started = s.tick]
           e == PushTrackEvent(u, "EngageOrderAccepted", s.track.active)
<1>1. /\ u \in Session /\ u.phase = "EngageOrdered" /\ u.order = "Accepted"
      /\ u.started = u.tick
  BY DEF Session, EngageOrderStatus, SessionPhase
<1>2. s.track.active \in BOOLEAN
  BY DEF Session, TrackState
<1>3. IssueCommand(s) = RecordSnapshot(e)
  BY DEF IssueCommand
<1> HIDE DEF u
<1>4. e \in Session /\ SameMission(u, RecordSnapshot(e))
  BY <1>1, <1>2, PushTrackEventType, PublishTrackSame DEF EventType
<1> HIDE DEF e
<1>5. QED
  BY <1>1, <1>3, <1>4, RecordSnapshotPublishes DEF SameMission, LoopFacts

\* archive_session publishes, and keeps the verdict.
LEMMA ArchivesVerdict ==
    ASSUME NEW s \in Session, VerdictShown(s)
    PROVE  VerdictShown(ArchiveSession(s)) /\ ArchiveSession(s).ready = s.ready
<1> DEFINE u == [s EXCEPT !.phase = "Archived"]
           e == PushEvent(u, "SessionEnded")
<1>1. u \in Session /\ u.ready = s.ready
  BY DEF Session, SessionPhase
<1>2. ArchiveSession(s) = IF s.phase = "Archived" THEN s ELSE RecordSnapshot(e)
  BY DEF ArchiveSession
<1> HIDE DEF u
<1>3. e \in Session /\ SameRecord(u, e)
  BY <1>1, PushEventType, PushEventSame DEF EventType
<1> HIDE DEF e
<1>4. QED
  BY <1>1, <1>2, <1>3, RecordSnapshotSame, RecordSnapshotPublishes DEF SameRecord, SameMission

\* Every tick publishes.
LEMMA AdvanceTickPublishes ==
    ASSUME NEW s \in Session, NEW hit \in BOOLEAN, NEW inFov \in BOOLEAN, VerdictShown(s)
    PROVE  VerdictShown(AdvanceTick(s, hit, inFov))
<1>1. CASE s.phase = "Assessed"
  <2> DEFINE u == [s EXCEPT !.tick = @ + 1]
  <2>1. s.tick + 1 \in Nat
    BY DEF Session
  <2>2. u \in Session /\ VerdictShown(u)
    BY <2>1 DEF Session, VerdictShown
  <2>3. AdvanceTick(s, hit, inFov) = ArchiveSession(u)
    BY <1>1 DEF AdvanceTick
  <2> HIDE DEF u
  <2>4. QED
    BY <2>2, <2>3, ArchivesVerdict
<1>2. CASE s.phase # "Assessed"
  <2> DEFINE g == GapExercised(Assessed(SeekerUpdated(Launched(s), inFov), hit))
  <2>1. g \in Session
    BY LaunchedType, SeekerUpdatedType, AssessedType, GapExercisedType
  <2>2. AdvanceTick(s, hit, inFov) = RecordSnapshot(g)
    BY <1>2 DEF AdvanceTick
  <2> HIDE DEF g
  <2>3. QED
    BY <2>1, <2>2, RecordSnapshotPublishes
<1>3. QED
  BY <1>1, <1>2

\* What one tick does to the phase, the order and its age.
Aged(s, t) ==
    \/ t.ready
    \/ /\ t.tick = s.tick + 1 /\ t.started = s.started
       /\ IF s.order = "Accepted" /\ s.phase = "EngageOrdered"
          THEN t.phase = "Intercepting" /\ t.order = "Executing"
          ELSE t.phase = s.phase /\ t.order = s.order

\* Up to the verdict a tick launches an accepted order and changes no other
\* phase; only an executing order gets a verdict.
LEMMA AdvanceTickAges ==
    ASSUME NEW s \in Session, NEW hit \in BOOLEAN, NEW inFov \in BOOLEAN,
           s.phase # "Assessed", ~s.ready
    PROVE  LET t == AdvanceTick(s, hit, inFov)
           IN  Aged(s, t) /\ (s.phase = "Tracking" => t.phase = "Tracking")
<1> DEFINE l == Launched(s)
           k == SeekerUpdated(l, inFov)
           a == Assessed(k, hit)
           u == [a EXCEPT !.gapExercised = TRUE]
           g == GapExercised(a)
<1>1. /\ l \in Session /\ Aged(s, l) /\ l.ready = s.ready
      /\ s.phase = "Tracking" => l.phase = "Tracking"
  <2>1. l \in Session
    BY LaunchedType
  <2>2. QED
    BY <2>1 DEF Launched, Session, Aged
<1>2. AdvanceTick(s, hit, inFov) = RecordSnapshot(g)
  BY DEF AdvanceTick
<1> HIDE DEF l
<1>3. /\ k \in Session /\ k.phase = l.phase /\ k.order = l.order /\ k.tick = l.tick
      /\ k.started = l.started /\ k.ready = l.ready
  <2>1. k \in Session
    BY <1>1, SeekerUpdatedType
  <2>2. QED
    BY <1>1, <2>1 DEF SeekerUpdated, Session
<1> HIDE DEF k
<1>4. a \in Session
  BY <1>3, AssessedType
<1>5. a = k \/ (a.ready /\ k.phase = "Intercepting")
  <2>1. \A v \in Session : \A code : Verdict(v, code).ready
    BY DEF Verdict, PushEvent, Session
  <2>2. [k.track EXCEPT !.active = FALSE] \in TrackState
    BY <1>3 DEF Session, TrackState
  <2>3. [k EXCEPT !.targetActive = FALSE, !.track.active = FALSE, !.seekerLock = FALSE] \in Session
    BY <1>3, <2>2 DEF Session
  <2>4. CASE ~(k.order = "Executing" /\ k.phase = "Intercepting")
    BY <2>4 DEF Assessed
  <2>5. CASE k.order = "Executing" /\ k.phase = "Intercepting"
    <3>1. CASE hit
      BY <1>3, <2>1, <2>3, <2>5, <3>1 DEF Assessed
    <3>2. CASE ~hit
      BY <1>3, <2>1, <2>5, <3>2 DEF Assessed
    <3>3. QED
      BY <3>1, <3>2
  <2>6. QED
    BY <2>4, <2>5
<1> HIDE DEF a
<1>6. u \in Session /\ SameRecord(a, u)
  BY <1>4 DEF Session, SameRecord, SameMission
<1>7. g = IF a.tick = 2 /\ ~a.gapExercised THEN PushEvent(u, "ResilienceTriggered") ELSE a
  BY DEF GapExercised
<1> HIDE DEF u
<1>8. g \in Session /\ SameMission(a, g)
  <2>1. /\ PushEvent(u, "ResilienceTriggered") \in Session
        /\ SameRecord(u, PushEvent(u, "ResilienceTriggered"))
    BY <1>6, PushEventType, PushEventSame DEF EventType
  <2>2. QED
    BY <1>4, <1>6, <1>7, <2>1 DEF SameRecord, SameMission
<1> HIDE DEF g
<1>9. SameMission(a, RecordSnapshot(g))
  BY <1>8, RecordSnapshotSame DEF SameRecord, SameMission
<1>10. CASE a = k
  BY <1>1, <1>2, <1>3, <1>9, <1>10 DEF SameMission, Aged
<1>11. CASE a.ready /\ k.phase = "Intercepting"
  BY <1>1, <1>2, <1>3, <1>9, <1>11 DEF SameMission, Aged
<1>12. QED
  BY <1>5, <1>10, <1>11

\* One more tick makes the order one tick older, unless it brings the verdict.
LEMMA LoopTicks ==
    ASSUME NEW s \in Session, NEW n \in Nat, NEW hit \in BOOLEAN, NEW inFov \in BOOLEAN,
           LoopFacts(s, n), ~s.ready
    PROVE  LoopFacts(AdvanceTick(s, hit, inFov), n + 1)
<1> DEFINE t == AdvanceTick(s, hit, inFov)
<1>1. Aged(s, t)
  BY AdvanceTickAges DEF LoopFacts
<1>2. s.tick \in Nat /\ s.started \in Nat \cup {NoTick}
  BY DEF Session
<1>3. s.started \in Int
  BY <1>2 DEF NoTick
<1> HIDE DEF t
<1>4. LoopFacts(t, n + 1)
  BY <1>1, <1>2, <1>3 DEF Aged, LoopFacts
<1>5. QED
  BY <1>4 DEF t

--------------------------------------------------------------------------------
(****************************************************************************)
(* The invariant.                                                           *)
(****************************************************************************)

\* The calls before the loop.
Opening == Call \ {"loop", "archive", "report", "done", "threw"}

\* What a call must leave behind for the sequence to go on.
Continues(call, s, d) ==
    /\ s \in Session /\ MissionFacts(s) /\ VerdictShown(s)
    /\ program \in Sample => d = s
    /\ Progress(After(call), s, 0)

\* A call before the loop that leaves behind what the next one expects.
LEMMA DoneStep ==
    ASSUME RInv, NEW call \in Opening, NEW d, Done(call, d),
           Continues(call, session', d), commandSender' = ConsoleSender,
           viewerSender' \in Senders \cup {NoSender},
           served' \in Payload \cup {NoPayload}
    PROVE  RInv'
<1>1. pc = call /\ ticked = 0 /\ ticked' = 0 /\ program' = program
  BY DEF RInv, Done, Opening
<1>2. After(call) \in Call
  BY <1>1 DEF After, Opening, Call, RInv, RunTypeOK
<1>3. After(call) \in {"archive", "report", "done"} => program \notin Engagement
  BY DEF After, Opening, Call, Engagement, Program, Sample
<1>4. \/ pc' = "threw" /\ exitCode' = 1
      \/ pc' = After(call) /\ exitCode' = exitCode
  BY DEF Done
<1>5. exitCode \in {NoExit, 0}
  BY <1>1 DEF RInv, Opening
<1>6. RunTypeOK'
  <2>1. TypeOK'
    BY ProgramsIdentified DEF Continues, TypeOK
  <2>2. demo' \in Session
    BY DEF Done, Continues, RInv, RunTypeOK
  <2>3. QED
    BY <1>1, <1>2, <1>4, <1>5, <2>1, <2>2 DEF RInv, RunTypeOK, Call
<1>7. RoutesAgree'
  BY <1>1 DEF Done, Continues, RoutesAgree
<1>8. Progress(pc, session, ticked)'
  <2>1. CASE pc' = "threw"
    BY <2>1 DEF Progress
  <2>2. CASE pc' = After(call)
    BY <1>1, <2>2 DEF Continues
  <2>3. QED
    BY <1>4, <2>1, <2>2
<1>9. program' \in Engagement /\ pc' \in {"archive", "report", "done"} => session'.ready
  BY <1>1, <1>3, <1>4
<1>10. pc' # "threw" => exitCode' \in {NoExit, 0}
  BY <1>4, <1>5
<1>11. MissionFacts(session)' /\ VerdictShown(session)'
  BY DEF Continues
<1>12. QED
  BY <1>1, <1>6, <1>7, <1>8, <1>9, <1>10, <1>11 DEF RInv

\* The program starts with nothing connected and no verdict.
LEMMA InitRInv == RunInit => RInv
<1>1. SUFFICES ASSUME RunInit PROVE RInv
  OBVIOUS
<1>2. PICK t \in EngagementTimeouts : session = NewSession(t)
  BY <1>1 DEF RunInit, Init
<1>3. session \in Session /\ MissionFacts(session)
  BY <1>2, NewSessionType, NewSessionFacts
<1>4. VerdictShown(session) /\ session.phase = "Standby"
  BY <1>2 DEF VerdictShown, NewSession, NoSnapshot
<1>5. RunTypeOK
  BY <1>1, <1>3 DEF RunInit, Init, RunTypeOK, TypeOK, Call
<1>6. Progress(pc, session, ticked)
  BY <1>1, <1>4 DEF RunInit, Progress
<1>7. QED
  BY <1>1, <1>3, <1>4, <1>5, <1>6 DEF RunInit, RInv, RoutesAgree

\* A command in the console's name reaches the session.
LEMMA AskReaches ==
    ASSUME RInv, pc # "connect_console", NEW kind \in CommandKind, Ask(kind)
    PROVE  /\ session' = Commanded(session, kind)
           /\ commandSender' = ConsoleSender /\ viewerSender' \in Senders \cup {NoSender}
           /\ served' \in Payload \cup {NoPayload}
<1> DEFINE p == [kind |-> kind, sender |-> ConsoleSender, sessionOk |-> TRUE,
                 entitiesOk |-> TRUE]
<1>1. commandSender = ConsoleSender /\ ConsoleSender # NoSender
  BY ProgramsIdentified, SendersAreIds DEF RInv
<1>2. p \in Payload
  BY ProgramsIdentified DEF Payload
<1>3. ValidEnvelope(p) /\ p.entitiesOk /\ p.kind = kind
  BY <1>1 DEF ValidEnvelope
<1>4. Dispatch(p)
  BY DEF Ask
<1> HIDE DEF p
<1>5. QED
  BY <1>1, <1>2, <1>3, <1>4 DEF Dispatch, RInv, RunTypeOK, TypeOK

\* The clients' calls.
LEMMA ClientCallsRInv ==
    ASSUME RInv, ConnectConsole \/ ConnectDisplay \/ DisplayLeaves
    PROVE  RInv'
<1>1. /\ session \in Session /\ MissionFacts(session) /\ VerdictShown(session)
      /\ ticked = 0 \/ pc \in {"loop", "archive", "report", "done", "threw"}
      /\ program \in Sample => demo = session
      /\ ConsoleSender \in Senders /\ DisplaySender \in Senders
      /\ {commandSender, viewerSender} \subseteq Senders \cup {NoSender}
  BY ProgramsIdentified DEF RInv, RunTypeOK, TypeOK, RoutesAgree
<1>2. \A role \in ClientRole :
         /\ ConnectClient(session, role) \in Session /\ MissionFacts(ConnectClient(session, role))
         /\ DisconnectClient(session, role) \in Session
         /\ MissionFacts(DisconnectClient(session, role))
         /\ ConnectClient(session, role).phase = session.phase
         /\ DisconnectClient(session, role).phase = session.phase
  BY <1>1, ClientOperationsType, ClientsSame, SameRecordFacts DEF SameRecord, SameMission
<1>3. "FireControlConsole" \in ClientRole /\ "TacticalDisplay" \in ClientRole
  BY DEF ClientRole
<1>4. CASE ConnectConsole
  <2> DEFINE d == ConnectClient(demo, "FireControlConsole")
  <2>1. /\ Done("connect_console", d) /\ pc = "connect_console" /\ ticked = 0
        /\ session' = ConnectClient(session, "FireControlConsole")
        /\ commandSender' = ConsoleSender /\ viewerSender' = viewerSender
        /\ served' = NoPayload
    BY <1>1, <1>4 DEF ConnectConsole, Connect, Identified, Done
  <2>2. session.phase = "Standby"
    BY <2>1 DEF RInv, Progress
  <2>3. Progress(After("connect_console"), session', 0)
    BY <1>1, <1>2, <1>3, <2>1, <2>2, ClientsPublished DEF Progress, After
  <2>4. Continues("connect_console", session', d)
    BY <1>1, <1>2, <1>3, <2>1, <2>3, ClientsPublished DEF Continues
  <2>5. "connect_console" \in Opening
    BY DEF Opening, Call
  <2> HIDE DEF d
  <2>6. QED
    BY <1>1, <2>1, <2>4, <2>5, DoneStep
<1>5. CASE ConnectDisplay
  <2> DEFINE d == ConnectClient(demo, "TacticalDisplay")
  <2>1. PICK call \in {"connect_display", "rejoin"} :
           Connect("TacticalDisplay", DisplaySender) /\ Done(call, d)
    BY <1>5 DEF ConnectDisplay
  <2>2. /\ pc = call /\ ticked = 0 /\ session' = ConnectClient(session, "TacticalDisplay")
        /\ commandSender' = commandSender /\ viewerSender' = DisplaySender
        /\ served' = NoPayload
    BY <1>1, <2>1 DEF Connect, Identified, Done
  <2>3. commandSender = ConsoleSender
    BY <2>2 DEF RInv
  <2>4. session'.connection["FireControlConsole"] = session.connection["FireControlConsole"]
    BY <1>1, <1>3, <2>2, ClientsPublished
  <2>5. Progress(After(call), session', 0)
    BY <1>1, <1>2, <1>3, <2>2, <2>4 DEF Progress, After, RInv
  <2>6. Continues(call, session', d)
    BY <1>1, <1>2, <1>3, <2>2, <2>5, ClientsPublished DEF Continues
  <2>7. call \in Opening
    BY DEF Opening, Call
  <2> HIDE DEF d
  <2>8. QED
    BY <1>1, <2>1, <2>2, <2>3, <2>6, <2>7, DoneStep
<1>6. CASE DisplayLeaves
  <2> DEFINE d == DisconnectClient(demo, "TacticalDisplay")
  <2>1. /\ Done("leave", d) /\ pc = "leave" /\ ticked = 0
        /\ session' = DisconnectClient(session, "TacticalDisplay")
        /\ commandSender' = commandSender /\ viewerSender' = NoSender
        /\ served' = NoPayload
    BY <1>1, <1>6 DEF DisplayLeaves, Disconnect, Identified, Done
  <2>2. commandSender = ConsoleSender /\ session.phase = "InterceptorReady"
    BY <2>1 DEF RInv, Progress
  <2>3. Progress(After("leave"), session', 0)
    BY <1>2, <1>3, <2>1, <2>2 DEF Progress, After
  <2>4. Continues("leave", session', d)
    BY <1>1, <1>2, <1>3, <2>1, <2>3, ClientsPublished DEF Continues
  <2>5. "leave" \in Opening
    BY DEF Opening, Call
  <2> HIDE DEF d
  <2>6. QED
    BY <1>1, <2>1, <2>2, <2>4, <2>5, DoneStep
<1>7. QED
  BY <1>4, <1>5, <1>6

\* The commands and the first tick.
LEMMA OpeningCallsRInv ==
    ASSUME RInv, StartRun \/ Acquire \/ FirstTick \/ MakeReady \/ DropTrack \/ Engage
    PROVE  RInv'
<1>1. /\ session \in Session /\ MissionFacts(session) /\ VerdictShown(session)
      /\ program \in Sample => demo = session
      /\ {commandSender, viewerSender} \subseteq Senders \cup {NoSender}
  BY DEF RInv, RunTypeOK, TypeOK, RoutesAgree
<1>2. CASE StartRun
  <2>1. /\ Done("start", StartScenario(demo)) /\ pc = "start"
        /\ session' = StartScenario(session) /\ commandSender' = commandSender
        /\ viewerSender' = viewerSender /\ served' = NoPayload
    BY <1>2 DEF StartRun, Start, Passed, Done
  <2>2. /\ session.phase = "Standby" /\ commandSender = ConsoleSender
        /\ session.connection["FireControlConsole"] # "Disconnected"
    BY <2>1 DEF RInv, Progress
  <2>3. Progress(After("start"), session', 0)
    BY <1>1, <2>1, <2>2, StartsDetecting DEF Progress, After
  <2>4. Continues("start", session', StartScenario(demo))
    BY <1>1, <2>1, <2>2, <2>3, StartsDetecting, StartScenarioType, StartScenarioFacts
    DEF Continues
  <2>5. "start" \in Opening
    BY DEF Opening, Call
  <2>6. QED
    BY <1>1, <2>1, <2>2, <2>4, <2>5, DoneStep
<1>3. CASE FirstTick
  <2>1. PICK hit \in BOOLEAN, inFov \in BOOLEAN :
           Advance(hit, inFov) /\ Done("tick", AdvanceTick(demo, hit, inFov))
    BY <1>3 DEF FirstTick
  <2>2. /\ pc = "tick" /\ session' = AdvanceTick(session, hit, inFov)
        /\ commandSender' = commandSender /\ viewerSender' = viewerSender
        /\ served' = NoPayload
    BY <2>1 DEF Advance, Passed, Done
  <2>3. session.phase = "Tracking" /\ ~session.ready /\ commandSender = ConsoleSender
    BY <1>1, <2>2 DEF RInv, Progress, MissionFacts, PhaseFacts, PreLaunch
  <2>4. Progress(After("tick"), session', 0)
    BY <1>1, <2>2, <2>3, AdvanceTickAges DEF Progress, After
  <2>5. Continues("tick", session', AdvanceTick(demo, hit, inFov))
    BY <1>1, <2>2, <2>3, <2>4, AdvanceTickType, AdvanceTickFacts, AdvanceTickPublishes
    DEF Continues
  <2>6. "tick" \in Opening
    BY DEF Opening, Call
  <2>7. QED
    BY <1>1, <2>1, <2>2, <2>3, <2>5, <2>6, DoneStep
<1>4. CASE Acquire
  <2>1. /\ Ask("track_acquire") /\ Done("acquire", RequestTrack(demo)) /\ pc = "acquire"
    BY <1>4 DEF Acquire, Done
  <2>2. /\ session' = RequestTrack(session) /\ commandSender' = ConsoleSender
        /\ viewerSender' \in Senders \cup {NoSender} /\ served' \in Payload \cup {NoPayload}
    BY <2>1, AskReaches DEF CommandKind, Commanded
  <2>3. session.phase = "Detecting"
    BY <1>1, <2>1 DEF RInv, Progress, MissionFacts, PhaseFacts
  <2>4. Progress(After("acquire"), session', 0)
    BY <1>1, <2>2, <2>3, AcquiresTracking DEF Progress, After
  <2>5. Continues("acquire", session', RequestTrack(demo))
    BY <1>1, <2>2, <2>3, <2>4, AcquiresTracking, TrackCommandsType, TrackCommandsFacts DEF Continues
  <2>6. "acquire" \in Opening
    BY DEF Opening, Call
  <2>7. QED
    BY <2>1, <2>2, <2>5, <2>6, DoneStep
<1>5. CASE MakeReady
  <2>1. /\ Ask("interceptor_ready") /\ Done("ready", ActivateAsset(demo)) /\ pc = "ready"
    BY <1>5 DEF MakeReady, Done
  <2>2. /\ session' = ActivateAsset(session) /\ commandSender' = ConsoleSender
        /\ viewerSender' \in Senders \cup {NoSender} /\ served' \in Payload \cup {NoPayload}
    BY <2>1, AskReaches DEF CommandKind, Commanded
  <2>3. session.phase = "Tracking" /\ session.track.active
    BY <1>1, <2>1 DEF RInv, Progress, MissionFacts, PhaseFacts
  <2>4. Progress(After("ready"), session', 0)
    BY <1>1, <2>2, <2>3, ActivatesReady DEF Progress, After
  <2>5. Continues("ready", session', ActivateAsset(demo))
    BY <1>1, <2>2, <2>3, <2>4, ActivatesReady, ActivateAssetType, ActivateAssetFacts DEF Continues
  <2>6. "ready" \in Opening
    BY DEF Opening, Call
  <2>7. QED
    BY <2>1, <2>2, <2>5, <2>6, DoneStep
<1>6. CASE DropTrack
  <2>1. /\ Ask("track_drop") /\ Done("drop", ReleaseTrack(demo)) /\ pc = "drop"
    BY <1>6 DEF DropTrack, Done
  <2>2. /\ session' = ReleaseTrack(session) /\ commandSender' = ConsoleSender
        /\ viewerSender' \in Senders \cup {NoSender} /\ served' \in Payload \cup {NoPayload}
    BY <2>1, AskReaches DEF CommandKind, Commanded
  <2>3. session.phase = "InterceptorReady"
    BY <1>1, <2>1 DEF RInv, Progress, MissionFacts, PhaseFacts
  <2>4. Progress(After("drop"), session', 0)
    BY <1>1, <2>2, <2>3, ReleasesReady DEF Progress, After
  <2>5. Continues("drop", session', ReleaseTrack(demo))
    BY <1>1, <2>2, <2>3, <2>4, ReleasesReady, TrackCommandsType, TrackCommandsFacts DEF Continues
  <2>6. "drop" \in Opening
    BY DEF Opening, Call
  <2>7. QED
    BY <2>1, <2>2, <2>5, <2>6, DoneStep
<1>7. CASE Engage
  <2>1. /\ Ask("engage_order") /\ Done("engage", IssueCommand(demo)) /\ pc = "engage"
    BY <1>7 DEF Engage, Done
  <2>2. /\ session' = IssueCommand(session) /\ commandSender' = ConsoleSender
        /\ viewerSender' \in Senders \cup {NoSender} /\ served' \in Payload \cup {NoPayload}
    BY <2>1, AskReaches DEF CommandKind, Commanded
  <2>3. session.phase = "InterceptorReady" /\ session.interceptor = "Ready"
    BY <1>1, <2>1 DEF RInv, Progress, MissionFacts, PhaseFacts
  <2>4. Progress(After("engage"), session', 0)
    BY <1>1, <2>2, <2>3, OrdersEngagement DEF Progress, After
  <2>5. Continues("engage", session', IssueCommand(demo))
    BY <1>1, <2>2, <2>3, <2>4, OrdersEngagement, IssueCommandType, IssueCommandFacts DEF Continues
  <2>6. "engage" \in Opening
    BY DEF Opening, Call
  <2>7. QED
    BY <2>1, <2>2, <2>5, <2>6, DoneStep
<1>8. QED
  BY <1>2, <1>3, <1>4, <1>5, <1>6, <1>7

\* A tick of the loop, and its end: without a verdict the loop goes on, for the
\* order it counts is younger than the timeout.
LEMMA LoopRInv ==
    ASSUME RInv, TickUntilReady \/ LoopEnds
    PROVE  RInv'
<1>1. /\ session \in Session /\ MissionFacts(session) /\ VerdictShown(session)
      /\ program \in Sample => demo = session
      /\ pc = "loop" /\ LoopFacts(session, ticked) /\ commandSender = ConsoleSender
      /\ ticked \in Nat /\ exitCode \in {NoExit, 0}
  BY DEF RInv, RunTypeOK, TypeOK, RoutesAgree, Progress, TickUntilReady, LoopEnds
<1>2. CASE TickUntilReady
  <2>1. PICK hit \in BOOLEAN, inFov \in BOOLEAN :
           /\ Advance(hit, inFov)
           /\ demo' = IF program \in Sample THEN AdvanceTick(demo, hit, inFov) ELSE demo
    BY <1>2 DEF TickUntilReady
  <2>2. /\ session' = AdvanceTick(session, hit, inFov) /\ ticked' = ticked + 1
        /\ program' = program /\ pc' = pc /\ exitCode' = exitCode /\ ~session.latest.ready
        /\ commandSender' = commandSender /\ viewerSender' = viewerSender
        /\ served' = NoPayload
    BY <1>2, <2>1 DEF TickUntilReady, MoreTicks, Advance, Passed
  <2>3. ~session.ready
    BY <1>1, <2>2 DEF VerdictShown
  <2>4. LoopFacts(session', ticked')
    BY <1>1, <2>2, <2>3, LoopTicks
  <2>5. session' \in Session /\ MissionFacts(session') /\ VerdictShown(session')
    BY <1>1, <2>2, AdvanceTickType, AdvanceTickFacts, AdvanceTickPublishes
  <2>6. RoutesAgree' /\ demo' \in Session
    BY <1>1, <2>1, <2>2, <2>5 DEF RoutesAgree, RInv, RunTypeOK
  <2>7. ticked' \in Nat
    BY <1>1, <2>2
  <2>8. RunTypeOK'
    BY <2>2, <2>5, <2>6, <2>7 DEF RInv, RunTypeOK, TypeOK
  <2>9. Progress(pc, session, ticked)'
    BY <1>1, <2>2, <2>4 DEF Progress
  <2>10. QED
    BY <1>1, <2>2, <2>5, <2>6, <2>8, <2>9 DEF RInv
<1>3. CASE LoopEnds
  <2>1. /\ session' = session /\ demo' = demo /\ ticked' = ticked /\ program' = program
        /\ pc' = "archive" /\ exitCode' = exitCode /\ commandSender' = commandSender
        /\ viewerSender' = viewerSender /\ served' = served
        /\ ticked >= session.timeoutTicks \/ session.latest.ready
    <3>1. session.timeoutTicks \in Nat
      BY <1>1, TimeoutTicksPositive
    <3>2. QED
      BY <1>1, <1>3, <3>1 DEF LoopEnds, MoreTicks, Quiet
  <2>2. session.ready
    <3>1. SUFFICES ASSUME ~session.ready PROVE FALSE
      OBVIOUS
    <3>2. ticked >= session.timeoutTicks
      BY <1>1, <2>1, <3>1 DEF VerdictShown
    <3>3. session.timeoutTicks \in Nat /\ session.timeoutTicks > 0
      BY <1>1, TimeoutTicksPositive
    <3>4. CASE ticked = 0
      BY <3>2, <3>3, <3>4
    <3>5. CASE ticked # 0
      <4>1. /\ session.phase = "Intercepting" /\ session.order = "Executing"
            /\ session.tick - session.started = ticked
        BY <1>1, <3>1, <3>5 DEF LoopFacts
      <4>2. session.tick - session.started < session.timeoutTicks
        BY <1>1, <4>1 DEF MissionFacts, TimelyFacts
      <4>3. QED
        BY <1>1, <3>2, <3>3, <4>1, <4>2
    <3>6. QED
      BY <3>4, <3>5
  <2>3. RunTypeOK' /\ RoutesAgree'
    BY <2>1 DEF RInv, RunTypeOK, TypeOK, RoutesAgree, Call
  <2>4. MissionFacts(session)' /\ VerdictShown(session)' /\ Progress(pc, session, ticked)'
    BY <1>1, <2>1 DEF Progress
  <2>5. QED
    BY <1>1, <2>1, <2>2, <2>3, <2>4 DEF RInv
<1>4. QED
  BY <1>2, <1>3

\* The archive and the report.
LEMMA EndRInv ==
    ASSUME RInv, EndRun \/ Report
    PROVE  RInv'
<1>1. /\ session \in Session /\ MissionFacts(session) /\ VerdictShown(session)
      /\ program \in Sample => demo = session
      /\ commandSender = ConsoleSender /\ exitCode \in {NoExit, 0}
      /\ program \in Engagement => session.ready
  BY DEF RInv, RunTypeOK, TypeOK, RoutesAgree, EndRun, Report
<1>2. CASE EndRun
  <2>1. /\ session' = ArchiveSession(session)
        /\ demo' = (IF program \in Sample THEN ArchiveSession(demo) ELSE demo)
        /\ program' = program /\ pc' = "report" /\ ticked' = ticked /\ exitCode' = exitCode
        /\ commandSender' = commandSender /\ viewerSender' = viewerSender
        /\ served' = NoPayload
    BY <1>2 DEF EndRun, Archive, Passed
  <2>2. session' \in Session /\ MissionFacts(session') /\ VerdictShown(session')
        /\ session'.ready = session.ready
    BY <1>1, <2>1, ArchiveSessionType, ArchiveSessionFacts, ArchivesVerdict
  <2>3. RoutesAgree' /\ demo' \in Session
    BY <1>1, <2>1, <2>2 DEF RoutesAgree, RInv, RunTypeOK
  <2>4. RunTypeOK'
    BY <2>1, <2>2, <2>3 DEF RInv, RunTypeOK, TypeOK, Call
  <2>5. Progress(pc, session, ticked)'
    BY <2>1 DEF Progress
  <2>6. QED
    BY <1>1, <2>1, <2>2, <2>3, <2>4, <2>5 DEF RInv
<1>3. CASE Report
  <2>1. /\ session' = session /\ demo' = demo /\ ticked' = ticked /\ program' = program
        /\ pc' = "done" /\ exitCode' = (IF program \in Sample /\ ~session.ready THEN 1 ELSE 0)
        /\ commandSender' = commandSender /\ viewerSender' = viewerSender /\ served' = served
    BY <1>3 DEF Report, Quiet
  <2>2. exitCode' = 0
    BY <1>1, <2>1 DEF Engagement, Program, Sample
  <2>3. RunTypeOK' /\ RoutesAgree'
    BY <2>1, <2>2 DEF RInv, RunTypeOK, TypeOK, RoutesAgree, Call
  <2>4. MissionFacts(session)' /\ VerdictShown(session)' /\ Progress(pc, session, ticked)'
    BY <1>1, <2>1 DEF Progress
  <2>5. QED
    BY <1>1, <2>1, <2>2, <2>3, <2>4 DEF RInv
<1>4. QED
  BY <1>2, <1>3

\* Every step keeps the invariant.
LEMMA NextRInv == RInv /\ [RunNext]_runVars => RInv'
<1>1. CASE UNCHANGED runVars
  <2>1. RInv => RInv'
    BY <1>1 DEF runVars, RInv, RunTypeOK, TypeOK, RoutesAgree
  <2>2. QED
    BY <2>1
<1>2. CASE RunNext
  BY <1>2, ClientCallsRInv, OpeningCallsRInv, LoopRInv, EndRInv DEF RunNext
<1>3. QED
  BY <1>1, <1>2

--------------------------------------------------------------------------------
\* Every field keeps its C++ type, whatever the timeouts and the sender ids are.
THEOREM RunTypeCorrect == RunSpec => []RunTypeOK
<1>1. RInv => RunTypeOK
  BY DEF RInv
<1>2. QED
  BY InitRInv, NextRInv, <1>1, PTL DEF RunSpec

\* No run that engages is archived without a verdict: the loop of
\* drive_sample_transport_sequence is exactly as long as the session needs, for
\* every timeout and every answer of the geometry.
THEOREM RunsEndAssessed == RunSpec => []EndsAssessed
<1>1. RInv => EndsAssessed
  BY DEF RInv, EndsAssessed
<1>2. QED
  BY InitRInv, NextRInv, <1>1, PTL DEF RunSpec

\* The sample sequence drives a transport and a bare session to the same end.
THEOREM RoutesProvedAgree == RunSpec => []RoutesAgree
<1>1. RInv => RoutesAgree
  BY DEF RInv
<1>2. QED
  BY InitRInv, NextRInv, <1>1, PTL DEF RunSpec

--------------------------------------------------------------------------------
(****************************************************************************)
(* The evidence of the samples.  Beyond the mission it rests on the log, on *)
(* who has joined, and on the tick at which the snapshot gap is rehearsed.  *)
(****************************************************************************)

\* From s to t nothing is refused, and the evidence stays as it is.
Kept(s, t) ==
    /\ t.tick = s.tick
    /\ t.log.count["EngageOrderRejected"] = s.log.count["EngageOrderRejected"]
    /\ t.joined = s.joined /\ t.reconnectExercised = s.reconnectExercised
    /\ t.gapExercised = s.gapExercised

\* What has been gathered when a call of a sample is next.
Evidence(call, s, n) ==
    /\ call \notin {"connect_console", "connect_display"} => s.joined["TacticalDisplay"]
    /\ call \in {"engage", "loop", "archive", "report", "done"} => s.reconnectExercised
    /\ call \in {"connect_console", "connect_display", "start", "acquire", "tick"} => s.tick = 0
    /\ call \in {"ready", "drop", "leave", "rejoin", "engage"} => s.tick = 1
    /\ call = "drop" => s.track.active
    /\ call \in {"leave", "rejoin", "engage"} =>
          (s.track.active <=> program = "tracked_intercept")
    /\ call \in {"loop", "archive", "report", "done"} =>
          s.log.profile = IF program = "tracked_intercept" THEN "Tracked" ELSE "Untracked"
    /\ call = "loop" => IF n = 0 THEN s.tick = 1 /\ ~s.ready ELSE s.gapExercised
    /\ call \in {"archive", "report", "done"} => s.gapExercised
    /\ call \in {"report", "done"} => s.phase = "Archived"

\* No call of any program is refused, and the samples gather their evidence.
EInv ==
    /\ pc # "threw" /\ session.log.count["EngageOrderRejected"] = 0
    /\ pc = "drop" => program = "unguided_intercept"
    /\ program \in Sample => Evidence(pc, session, ticked)

\* An event that is no rejection, and a snapshot.
LEMMA EventKept ==
    ASSUME NEW s \in Session, NEW type \in EventType \ {"EngageOrderRejected"},
           NEW tracked \in BOOLEAN
    PROVE  /\ Kept(s, PushEvent(s, type)) /\ Kept(s, PushTrackEvent(s, type, tracked))
           /\ PushTrackEvent(s, type, tracked).log.profile
                 = IF tracked THEN "Tracked" ELSE "Untracked"
<1> DEFINE p == PushEvent(s, type)
           q == PushTrackEvent(s, type, tracked)
           l == Logged(s.log, type)
<1>1. /\ l \in EventLog
      /\ l.count["EngageOrderRejected"] = s.log.count["EngageOrderRejected"]
  BY LoggedType DEF Logged, Session, EventLog, EventType
<1>2. /\ p.log = l /\ p.tick = s.tick /\ p.joined = s.joined
      /\ p.reconnectExercised = s.reconnectExercised /\ p.gapExercised = s.gapExercised
  BY DEF PushEvent, Session
<1>3. /\ q.log = [l EXCEPT !.profile = IF tracked THEN "Tracked" ELSE "Untracked"]
      /\ q.tick = s.tick /\ q.joined = s.joined
      /\ q.reconnectExercised = s.reconnectExercised /\ q.gapExercised = s.gapExercised
  BY DEF PushTrackEvent, Session
<1> HIDE DEF l, p, q
<1>4. q.log.count = l.count /\ q.log.profile = IF tracked THEN "Tracked" ELSE "Untracked"
  BY <1>1, <1>3 DEF EventLog
<1>5. Kept(s, p) /\ Kept(s, q)
  BY <1>1, <1>2, <1>3, <1>4 DEF Kept
<1>6. QED
  BY <1>4, <1>5 DEF p, q

LEMMA SnapshotKept ==
    ASSUME NEW s \in Session
    PROVE  Kept(s, RecordSnapshot(s)) /\ RecordSnapshot(s).log = s.log
BY DEF Kept, RecordSnapshot, Session

\* A call that changes other fields, logs and publishes.
LEMMA PublishKept ==
    ASSUME NEW s \in Session, NEW u \in Session, Kept(s, u),
           NEW type \in EventType \ {"EngageOrderRejected"}, NEW tracked \in BOOLEAN
    PROVE  /\ Kept(s, RecordSnapshot(PushEvent(u, type)))
           /\ Kept(s, RecordSnapshot(PushTrackEvent(u, type, tracked)))
           /\ RecordSnapshot(PushTrackEvent(u, type, tracked)).log.profile
                 = IF tracked THEN "Tracked" ELSE "Untracked"
<1>1. PushEvent(u, type) \in Session /\ PushTrackEvent(u, type, tracked) \in Session
  BY PushEventType, PushTrackEventType
<1>2. QED
  BY <1>1, EventKept, SnapshotKept DEF Kept

\* The calls of a sequence that meet their preconditions.
LEMMA StartKept ==
    ASSUME NEW s \in Session, s.phase = "Standby",
           s.connection["FireControlConsole"] # "Disconnected"
    PROVE  Kept(s, StartScenario(s))
<1> DEFINE u == [s EXCEPT !.phase = "Detecting", !.targetActive = TRUE,
                          !.track = ClearedTrack, !.interceptor = "Idle",
                          !.order = "None", !.ready = FALSE, !.code = "Pending"]
<1>1. u \in Session
  BY TrackConstantsType
  DEF Session, SessionPhase, InterceptorStatus, EngageOrderStatus, AssessmentCode
<1>2. Kept(s, u)
  BY DEF Kept, Session
<1>3. StartScenario(s) = RecordSnapshot(PushEvent(u, "SessionStarted"))
  BY DEF StartScenario
<1> HIDE DEF u
<1>4. QED
  BY <1>1, <1>2, <1>3, PublishKept DEF EventType

LEMMA AcquireKept ==
    ASSUME NEW s \in Session, s.phase = "Detecting"
    PROVE  Kept(s, RequestTrack(s))
<1> DEFINE u == [s EXCEPT !.track = SeededTrack,
                          !.phase = IF @ = "Detecting" THEN "Tracking" ELSE @]
<1>1. u \in Session
  BY TrackConstantsType DEF Session, SessionPhase
<1>2. Kept(s, u)
  BY DEF Kept, Session
<1>3. RequestTrack(s) = RecordSnapshot(PushTrackEvent(u, "TrackUpdated", TRUE))
  BY DEF RequestTrack
<1> HIDE DEF u
<1>4. QED
  BY <1>1, <1>2, <1>3, PublishKept DEF EventType

LEMMA ReadyKept ==
    ASSUME NEW s \in Session, s.phase = "Tracking", s.track.active
    PROVE  Kept(s, ActivateAsset(s)) /\ ActivateAsset(s).track = s.track
<1> DEFINE u == [s EXCEPT !.interceptor = "Ready", !.assetActive = TRUE,
                          !.phase = "InterceptorReady"]
<1>1. u \in Session /\ u.track = s.track
  BY DEF Session, InterceptorStatus, SessionPhase
<1>2. Kept(s, u)
  BY DEF Kept, Session
<1>3. ActivateAsset(s) = RecordSnapshot(PushEvent(u, "InterceptorUpdated"))
  BY DEF ActivateAsset
<1> HIDE DEF u
<1>4. SameRecord(u, RecordSnapshot(PushEvent(u, "InterceptorUpdated")))
  BY <1>1, PublishSame DEF EventType
<1>5. QED
  BY <1>1, <1>2, <1>3, <1>4, PublishKept DEF EventType, SameRecord, SameMission

LEMMA DropKept ==
    ASSUME NEW s \in Session, s.phase = "InterceptorReady", s.track.active
    PROVE  Kept(s, ReleaseTrack(s)) /\ ~ReleaseTrack(s).track.active
<1> DEFINE u == [s EXCEPT !.track = ClearedTrack,
                          !.phase = IF @ = "Tracking" THEN "Detecting" ELSE @]
<1>1. u \in Session /\ ~u.track.active
  BY TrackConstantsType DEF Session, SessionPhase, ClearedTrack
<1>2. Kept(s, u)
  BY DEF Kept, Session
<1>3. ReleaseTrack(s) = RecordSnapshot(PushTrackEvent(u, "TrackUpdated", FALSE))
  BY DEF ReleaseTrack
<1> HIDE DEF u
<1>4. SameMission(u, RecordSnapshot(PushTrackEvent(u, "TrackUpdated", FALSE)))
  BY <1>1, PublishTrackSame DEF EventType
<1>5. QED
  BY <1>1, <1>2, <1>3, <1>4, PublishKept DEF EventType, SameMission

LEMMA OrderKept ==
    ASSUME NEW s \in Session, s.phase = "InterceptorReady", s.interceptor = "Ready"
    PROVE  /\ Kept(s, IssueCommand(s)) /\ IssueCommand(s).ready = s.ready
           /\ IssueCommand(s).log.profile = IF s.track.active THEN "Tracked" ELSE "Untracked"
<1> DEFINE u == [s EXCEPT !.order = "Accepted", !.phase = "EngageOrdered", !.started = s.tick]
<1>1. u \in Session /\ u.ready = s.ready
  BY DEF Session, EngageOrderStatus, SessionPhase
<1>2. Kept(s, u)
  BY DEF Kept, Session
<1>3. s.track.active \in BOOLEAN
  BY DEF Session, TrackState
<1>4. IssueCommand(s) = RecordSnapshot(PushTrackEvent(u, "EngageOrderAccepted", s.track.active))
  BY DEF IssueCommand
<1> HIDE DEF u
<1>5. SameMission(u, RecordSnapshot(PushTrackEvent(u, "EngageOrderAccepted", s.track.active)))
  BY <1>1, <1>3, PublishTrackSame DEF EventType
<1>6. QED
  BY <1>1, <1>2, <1>3, <1>4, <1>5, PublishKept DEF EventType, SameMission

LEMMA ArchiveKept ==
    ASSUME NEW s \in Session
    PROVE  /\ Kept(s, ArchiveSession(s)) /\ ArchiveSession(s).phase = "Archived"
           /\ ArchiveSession(s).log.profile = s.log.profile
<1> DEFINE u == [s EXCEPT !.phase = "Archived"]
<1>1. u \in Session /\ u.phase = "Archived" /\ u.log = s.log
  BY DEF Session, SessionPhase
<1>2. Kept(s, u) /\ Kept(s, s)
  BY DEF Kept, Session
<1>3. ArchiveSession(s) = IF s.phase = "Archived" THEN s
                          ELSE RecordSnapshot(PushEvent(u, "SessionEnded"))
  BY DEF ArchiveSession
<1> HIDE DEF u
<1>4. SameRecord(u, RecordSnapshot(PushEvent(u, "SessionEnded")))
  BY <1>1, PublishSame DEF EventType
<1>5. QED
  BY <1>1, <1>2, <1>3, <1>4, PublishKept DEF EventType, SameRecord, SameMission

\* Clients: a client that comes has joined from then on, and one that has joined
\* before is a reconnect.
LEMMA ClientsKept ==
    ASSUME NEW s \in Session, NEW role \in ClientRole
    PROVE  /\ LET t == ConnectClient(s, role)
              IN  /\ t.log.count["EngageOrderRejected"] = s.log.count["EngageOrderRejected"]
                  /\ t.joined[role] /\ (s.joined[role] => t.reconnectExercised)
                  /\ \A r \in ClientRole : s.joined[r] => t.joined[r]
           /\ Kept(s, DisconnectClient(s, role))
<1> DEFINE known  == s.joined[role]
           placed == [s EXCEPT !.joined[role] = TRUE,
                               !.connection[role] = IF known THEN "Reconnected" ELSE "Connected",
                               !.reconnectExercised = @ \/ known]
           back   == PushEvent(placed, "ClientReconnected")
           gone   == [s EXCEPT !.connection[role] = "Disconnected"]
<1>1. /\ [s.joined EXCEPT ![role] = TRUE] \in [ClientRole -> BOOLEAN]
      /\ [s.connection EXCEPT ![role] = IF known THEN "Reconnected" ELSE "Connected"]
            \in [ClientRole -> ConnectionState]
      /\ [s.connection EXCEPT ![role] = "Disconnected"] \in [ClientRole -> ConnectionState]
      /\ (s.reconnectExercised \/ known) \in BOOLEAN
  BY DEF Session, ConnectionState
<1>2. placed \in Session /\ gone \in Session
  BY <1>1 DEF Session
<1>3. /\ placed.log = s.log /\ placed.joined[role]
      /\ known => placed.reconnectExercised
      /\ \A r \in ClientRole : s.joined[r] => placed.joined[r]
  BY DEF Session
<1>4. Kept(s, gone)
  BY DEF Kept, Session
<1>5. ConnectClient(s, role) = IF known THEN PushEvent(back, "ResilienceTriggered")
                                        ELSE PushEvent(placed, "ClientJoined")
  BY DEF ConnectClient
<1>6. DisconnectClient(s, role) = PushEvent(gone, "ClientLeft")
  BY DEF DisconnectClient
<1> HIDE DEF placed, gone
<1>7. Kept(s, DisconnectClient(s, role))
  <2>1. Kept(gone, PushEvent(gone, "ClientLeft"))
    BY <1>2, EventKept DEF EventType
  <2>2. QED
    BY <1>4, <1>6, <2>1 DEF Kept
<1>8. back \in Session /\ Kept(placed, back)
  BY <1>2, PushEventType, EventKept DEF EventType
<1> HIDE DEF back
<1>9. Kept(placed, ConnectClient(s, role))
  <2>1. /\ Kept(back, PushEvent(back, "ResilienceTriggered"))
        /\ Kept(placed, PushEvent(placed, "ClientJoined"))
    BY <1>2, <1>8, EventKept DEF EventType
  <2>2. QED
    BY <1>5, <1>8, <2>1 DEF Kept
<1>10. QED
  BY <1>3, <1>7, <1>9 DEF Kept

\* A tick before the verdict: the gap is rehearsed at the second.
LEMMA TickKept ==
    ASSUME NEW s \in Session, NEW hit \in BOOLEAN, NEW inFov \in BOOLEAN, s.phase # "Assessed"
    PROVE  LET t == AdvanceTick(s, hit, inFov)
           IN  /\ t.tick = s.tick + 1
               /\ t.log.count["EngageOrderRejected"] = s.log.count["EngageOrderRejected"]
               /\ t.joined = s.joined /\ t.reconnectExercised = s.reconnectExercised
               /\ t.log.profile = s.log.profile
               /\ s.gapExercised \/ t.tick = 2 => t.gapExercised
<1> DEFINE l == Launched(s)
           k == SeekerUpdated(l, inFov)
           a == Assessed(k, hit)
           u == [a EXCEPT !.gapExercised = TRUE]
           g == GapExercised(a)
           c == [s EXCEPT !.tick = @ + 1]
<1>0. s.tick + 1 \in Nat
  BY DEF Session
<1>1. c \in Session /\ c.tick = s.tick + 1 /\ c.log = s.log /\ c.joined = s.joined
      /\ c.reconnectExercised = s.reconnectExercised /\ c.gapExercised = s.gapExercised
  BY <1>0 DEF Session
<1>2. l \in Session /\ Kept(c, l) /\ l.log = c.log
  <2>1. /\ l.tick = s.tick + 1 /\ l.log = s.log /\ l.joined = s.joined
        /\ l.reconnectExercised = s.reconnectExercised /\ l.gapExercised = s.gapExercised
    BY DEF Launched, Session
  <2>2. QED
    BY <1>1, <2>1, LaunchedType DEF Kept
<1>3. AdvanceTick(s, hit, inFov) = RecordSnapshot(g)
  BY DEF AdvanceTick
<1> HIDE DEF c, l
<1>4. k \in Session /\ Kept(l, k) /\ k.log = l.log
  <2>1. /\ k.tick = l.tick /\ k.log = l.log /\ k.joined = l.joined
        /\ k.reconnectExercised = l.reconnectExercised /\ k.gapExercised = l.gapExercised
    BY <1>2 DEF SeekerUpdated, Session
  <2>2. QED
    BY <1>2, <2>1, SeekerUpdatedType DEF Kept
<1> HIDE DEF k
<1>5. a \in Session /\ Kept(k, a) /\ a.log.profile = k.log.profile
  <2> DEFINE h == [k EXCEPT !.targetActive = FALSE, !.track.active = FALSE, !.seekerLock = FALSE]
  <2>1. [k.track EXCEPT !.active = FALSE] \in TrackState
    BY <1>4 DEF Session, TrackState
  <2>2. h \in Session /\ Kept(k, h) /\ h.log = k.log
    BY <1>4, <2>1 DEF Session, Kept
  <2> HIDE DEF h
  <2>3. ASSUME NEW v \in Session, NEW code \in AssessmentCode
        PROVE  Kept(v, Verdict(v, code)) /\ Verdict(v, code).log.profile = v.log.profile
    <3> DEFINE w == [v EXCEPT !.ready = TRUE, !.code = code, !.phase = "Assessed",
                              !.interceptor = "Complete", !.order = "Completed",
                              !.started = NoTick]
    <3>1. w \in Session /\ Kept(v, w) /\ w.log = v.log
      BY DEF Session, SessionPhase, InterceptorStatus, EngageOrderStatus, Kept
    <3>2. Verdict(v, code) = PushEvent(w, "AssessmentProduced")
      BY DEF Verdict
    <3> HIDE DEF w
    <3>3. QED
      BY <3>1, <3>2, EventKept, PushEventSame DEF EventType, Kept, SameRecord
  <2>4. a \in {k, Verdict(h, "InterceptSuccess"), Verdict(k, "TimeoutObserved")}
    BY DEF Assessed, h
  <2>5. Kept(k, k) /\ "InterceptSuccess" \in AssessmentCode /\ "TimeoutObserved" \in AssessmentCode
    BY DEF Kept, AssessmentCode
  <2>6. QED
    BY <1>4, <2>2, <2>3, <2>4, <2>5, AssessedType DEF Kept
<1> HIDE DEF a
<1>6. /\ u \in Session /\ u.gapExercised /\ u.log = a.log /\ u.tick = a.tick
      /\ u.joined = a.joined /\ u.reconnectExercised = a.reconnectExercised
  BY <1>5 DEF Session
<1>7. g = IF a.tick = 2 /\ ~a.gapExercised THEN PushEvent(u, "ResilienceTriggered") ELSE a
  BY DEF GapExercised
<1> HIDE DEF u
<1>8. /\ PushEvent(u, "ResilienceTriggered") \in Session
      /\ Kept(u, PushEvent(u, "ResilienceTriggered"))
      /\ PushEvent(u, "ResilienceTriggered").log.profile = u.log.profile
  BY <1>6, PushEventType, EventKept, PushEventSame DEF EventType, SameRecord
<1>9. /\ g \in Session /\ g.tick = a.tick /\ g.joined = a.joined
      /\ g.reconnectExercised = a.reconnectExercised /\ g.log.profile = a.log.profile
      /\ g.log.count["EngageOrderRejected"] = a.log.count["EngageOrderRejected"]
      /\ a.gapExercised \/ a.tick = 2 => g.gapExercised
  BY <1>5, <1>6, <1>7, <1>8 DEF Kept
<1> HIDE DEF g
<1>10. Kept(g, RecordSnapshot(g)) /\ RecordSnapshot(g).log = g.log
  BY <1>9, SnapshotKept
<1>11. QED
  BY <1>1, <1>2, <1>3, <1>4, <1>5, <1>9, <1>10 DEF Kept

\* A call before the loop that is not refused and leaves the evidence behind.
LEMMA DoneEvidence ==
    ASSUME RInv, EInv, NEW call \in Opening, NEW d, Done(call, d),
           session'.log.count["EngageOrderRejected"] = 0,
           program \in Sample => Evidence(After(call), session', 0)
    PROVE  EInv'
<1>1. pc = call /\ ticked' = 0 /\ program' = program
  BY DEF RInv, Done, Opening
<1>2. ~Refused(session, session')
  BY DEF Refused, EInv
<1>3. pc' = After(call)
  BY <1>2 DEF Done
<1>4. pc' # "threw"
  BY <1>3 DEF After, Opening, Call
<1>5. pc' = "drop" => program' = "unguided_intercept"
  BY <1>1, <1>3 DEF After, Opening, Call
<1>6. program' \in Sample => Evidence(pc', session', ticked')
  BY <1>1, <1>3
<1>7. program' \in Sample => Evidence(pc, session, ticked)'
  BY <1>1, <1>6 DEF Evidence
<1>8. QED
  BY <1>4, <1>5, <1>7 DEF EInv

\* Nothing has happened yet.
LEMMA InitEInv == RunInit => EInv
<1>1. SUFFICES ASSUME RunInit PROVE EInv
  OBVIOUS
<1>2. PICK t \in EngagementTimeouts : session = NewSession(t)
  BY <1>1 DEF RunInit, Init
<1>3. session.log.count["EngageOrderRejected"] = 0 /\ session.tick = 0
  BY <1>2 DEF NewSession, EmptyLog, EventType
<1>4. QED
  BY <1>1, <1>3 DEF RunInit, EInv, Evidence

\* The calls before the loop.
LEMMA OpeningEInv ==
    ASSUME RInv, EInv,
           \/ ConnectConsole \/ ConnectDisplay \/ DisplayLeaves
           \/ StartRun \/ Acquire \/ FirstTick \/ MakeReady \/ DropTrack \/ Engage
    PROVE  EInv'
<1>1. /\ session \in Session /\ MissionFacts(session) /\ Progress(pc, session, ticked)
      /\ session.log.count["EngageOrderRejected"] = 0
      /\ program \in Sample => Evidence(pc, session, ticked)
      /\ program \in Program
  BY DEF RInv, EInv, RunTypeOK, TypeOK
<1>2. "FireControlConsole" \in ClientRole /\ "TacticalDisplay" \in ClientRole
  BY DEF ClientRole
<1>3. CASE ConnectConsole
  <2>1. /\ pc = "connect_console" /\ session' = ConnectClient(session, "FireControlConsole")
        /\ Done("connect_console", ConnectClient(demo, "FireControlConsole"))
    BY <1>3 DEF ConnectConsole, Connect, Done
  <2>2. session'.log.count["EngageOrderRejected"] = 0 /\ session'.tick = session.tick
    BY <1>1, <1>2, <2>1, ClientsKept, ClientsSame DEF SameRecord, SameMission
  <2>3. program \in Sample => Evidence(After("connect_console"), session', 0)
    BY <1>1, <2>1, <2>2 DEF Evidence, After, Sample
  <2>4. QED
    BY <2>1, <2>2, <2>3, DoneEvidence DEF Opening, Call
<1>4. CASE ConnectDisplay
  <2>1. PICK call \in {"connect_display", "rejoin"} :
           Connect("TacticalDisplay", DisplaySender)
           /\ Done(call, ConnectClient(demo, "TacticalDisplay"))
    BY <1>4 DEF ConnectDisplay
  <2>2. /\ pc = call /\ session' = ConnectClient(session, "TacticalDisplay")
    BY <2>1 DEF Connect, Done
  <2>3. /\ session'.log.count["EngageOrderRejected"] = 0 /\ session'.tick = session.tick
        /\ session'.track = session.track /\ session'.joined["TacticalDisplay"]
        /\ session.joined["TacticalDisplay"] => session'.reconnectExercised
    BY <1>1, <1>2, <2>2, ClientsKept, ClientsSame DEF SameRecord, SameMission
  <2>4. program \in Sample => Evidence(After(call), session', 0)
    <3>1. CASE call = "connect_display"
      BY <1>1, <2>2, <2>3, <3>1 DEF Evidence, After, Sample
    <3>2. CASE call = "rejoin"
      BY <1>1, <2>2, <2>3, <3>2 DEF Evidence, After, Sample
    <3>3. QED
      BY <3>1, <3>2
  <2>5. QED
    BY <2>1, <2>3, <2>4, DoneEvidence DEF Opening, Call
<1>5. CASE DisplayLeaves
  <2>1. /\ pc = "leave" /\ session' = DisconnectClient(session, "TacticalDisplay")
        /\ Done("leave", DisconnectClient(demo, "TacticalDisplay"))
    BY <1>5 DEF DisplayLeaves, Disconnect, Done
  <2>2. Kept(session, session') /\ session'.track = session.track
    BY <1>1, <1>2, <2>1, ClientsKept, ClientsSame DEF SameRecord, SameMission
  <2>3. program \in Sample => Evidence(After("leave"), session', 0)
    BY <1>1, <2>1, <2>2 DEF Evidence, After, Sample, Kept
  <2>4. QED
    BY <1>1, <2>1, <2>2, <2>3, DoneEvidence DEF Opening, Call, Kept
<1>6. CASE StartRun
  <2>1. /\ pc = "start" /\ session' = StartScenario(session)
        /\ Done("start", StartScenario(demo))
    BY <1>6 DEF StartRun, Start, Passed, Done
  <2>2. Kept(session, session')
    BY <1>1, <2>1, StartKept DEF Progress
  <2>3. program \in Sample => Evidence(After("start"), session', 0)
    BY <1>1, <2>1, <2>2 DEF Evidence, After, Sample, Kept
  <2>4. QED
    BY <1>1, <2>1, <2>2, <2>3, DoneEvidence DEF Opening, Call, Kept
<1>7. CASE Acquire
  <2>1. /\ pc = "acquire" /\ Ask("track_acquire") /\ Done("acquire", RequestTrack(demo))
    BY <1>7 DEF Acquire, Done
  <2>2. session' = RequestTrack(session)
    BY <2>1, AskReaches DEF CommandKind, Commanded
  <2>3. Kept(session, session')
    BY <1>1, <2>1, <2>2, AcquireKept DEF Progress
  <2>4. program \in Sample => Evidence(After("acquire"), session', 0)
    BY <1>1, <2>1, <2>3 DEF Evidence, After, Sample, Kept
  <2>5. QED
    BY <1>1, <2>1, <2>3, <2>4, DoneEvidence DEF Opening, Call, Kept
<1>8. CASE FirstTick
  <2>1. PICK hit \in BOOLEAN, inFov \in BOOLEAN :
           Advance(hit, inFov) /\ Done("tick", AdvanceTick(demo, hit, inFov))
    BY <1>8 DEF FirstTick
  <2>2. pc = "tick" /\ session' = AdvanceTick(session, hit, inFov)
    BY <2>1 DEF Advance, Passed, Done
  <2>3. /\ session'.tick = session.tick + 1 /\ session'.joined = session.joined
        /\ session'.log.count["EngageOrderRejected"] = 0
    BY <1>1, <2>2, TickKept DEF Progress
  <2>4. program \in Sample => Evidence(After("tick"), session', 0)
    BY <1>1, <2>2, <2>3 DEF Evidence, After, Sample
  <2>5. QED
    BY <2>1, <2>3, <2>4, DoneEvidence DEF Opening, Call
<1>9. CASE MakeReady
  <2>1. /\ pc = "ready" /\ Ask("interceptor_ready") /\ Done("ready", ActivateAsset(demo))
    BY <1>9 DEF MakeReady, Done
  <2>2. session' = ActivateAsset(session)
    BY <2>1, AskReaches DEF CommandKind, Commanded
  <2>3. session.phase = "Tracking" /\ session.track.active
    BY <1>1, <2>1 DEF Progress, MissionFacts, PhaseFacts
  <2>4. Kept(session, session') /\ session'.track = session.track
    BY <1>1, <2>2, <2>3, ReadyKept
  <2>5. program \in Sample => Evidence(After("ready"), session', 0)
    BY <1>1, <2>1, <2>3, <2>4 DEF Evidence, After, Sample, Kept
  <2>6. QED
    BY <1>1, <2>1, <2>4, <2>5, DoneEvidence DEF Opening, Call, Kept
<1>10. CASE DropTrack
  <2>1. /\ pc = "drop" /\ Ask("track_drop") /\ Done("drop", ReleaseTrack(demo))
    BY <1>10 DEF DropTrack, Done
  <2>2. session' = ReleaseTrack(session)
    BY <2>1, AskReaches DEF CommandKind, Commanded
  <2>3. program = "unguided_intercept"
    BY <2>1 DEF EInv
  <2>4. Kept(session, session') /\ ~session'.track.active
    BY <1>1, <2>1, <2>2, <2>3, DropKept DEF Progress, Evidence, Sample
  <2>5. program \in Sample => Evidence(After("drop"), session', 0)
    BY <1>1, <2>1, <2>3, <2>4 DEF Evidence, After, Sample, Kept
  <2>6. QED
    BY <1>1, <2>1, <2>4, <2>5, DoneEvidence DEF Opening, Call, Kept
<1>11. CASE Engage
  <2>1. /\ pc = "engage" /\ Ask("engage_order") /\ Done("engage", IssueCommand(demo))
    BY <1>11 DEF Engage, Done
  <2>2. session' = IssueCommand(session)
    BY <2>1, AskReaches DEF CommandKind, Commanded
  <2>3. session.phase = "InterceptorReady" /\ session.interceptor = "Ready" /\ ~session.ready
    BY <1>1, <2>1 DEF Progress, MissionFacts, PhaseFacts, PreLaunch
  <2>4. /\ Kept(session, session') /\ ~session'.ready
        /\ session'.log.profile = IF session.track.active THEN "Tracked" ELSE "Untracked"
    BY <1>1, <2>2, <2>3, OrderKept
  <2>5. program \in Sample => Evidence(After("engage"), session', 0)
    BY <1>1, <2>1, <2>4 DEF Evidence, After, Sample, Kept
  <2>6. QED
    BY <1>1, <2>1, <2>4, <2>5, DoneEvidence DEF Opening, Call, Kept
<1>12. QED
  BY <1>3, <1>4, <1>5, <1>6, <1>7, <1>8, <1>9, <1>10, <1>11

\* The loop and the end.  Without a verdict the loop has ticked, for the order
\* that is new has none; so the second tick of the run has come.
LEMMA ClosingEInv ==
    ASSUME RInv, EInv, TickUntilReady \/ LoopEnds \/ EndRun \/ Report
    PROVE  EInv'
<1>1. /\ session \in Session /\ MissionFacts(session) /\ VerdictShown(session)
      /\ Progress(pc, session, ticked)
      /\ session.log.count["EngageOrderRejected"] = 0
      /\ program \in Sample => Evidence(pc, session, ticked)
      /\ program \in Program /\ ticked \in Nat
  BY DEF RInv, EInv, RunTypeOK, TypeOK
<1>2. CASE TickUntilReady
  <2>1. PICK hit \in BOOLEAN, inFov \in BOOLEAN : Advance(hit, inFov)
    BY <1>2 DEF TickUntilReady
  <2>2. /\ session' = AdvanceTick(session, hit, inFov) /\ ticked' = ticked + 1
        /\ program' = program /\ pc' = pc /\ pc = "loop" /\ ~session.latest.ready
    BY <1>2, <2>1 DEF TickUntilReady, MoreTicks, Advance, Passed
  <2>3. session.phase # "Assessed"
    BY <1>1, <2>2 DEF VerdictShown, MissionFacts, PhaseFacts
  <2>4. /\ session'.tick = session.tick + 1
        /\ session'.log.count["EngageOrderRejected"] = 0
        /\ session'.joined = session.joined
        /\ session'.reconnectExercised = session.reconnectExercised
        /\ session'.log.profile = session.log.profile
        /\ session.gapExercised \/ session'.tick = 2 => session'.gapExercised
    BY <1>1, <2>2, <2>3, TickKept
  <2>5. program \in Sample => session'.gapExercised
    BY <1>1, <2>2, <2>4 DEF Evidence
  <2>6. ticked' # 0
    BY <1>1, <2>2
  <2>7. program' \in Sample => Evidence(pc, session, ticked)'
    BY <1>1, <2>2, <2>4, <2>5, <2>6 DEF Evidence
  <2>8. QED
    BY <2>2, <2>4, <2>7 DEF EInv
<1>3. CASE LoopEnds
  <2>1. /\ session' = session /\ ticked' = ticked /\ program' = program /\ pc = "loop"
        /\ pc' = "archive" /\ ~MoreTicks
    BY <1>3 DEF LoopEnds, Quiet
  <2>2. program \in Sample => session.gapExercised
    <3>1. SUFFICES ASSUME program \in Sample, ticked = 0 PROVE FALSE
      BY <1>1, <2>1 DEF Evidence
    <3>2. ~session.latest.ready
      BY <1>1, <2>1, <3>1 DEF Evidence, VerdictShown
    <3>3. 0 < session.timeoutTicks /\ session.timeoutTicks \in Nat
      BY <1>1, TimeoutTicksPositive
    <3>4. QED
      BY <2>1, <3>1, <3>2, <3>3 DEF MoreTicks
  <2>3. program' \in Sample => Evidence(pc, session, ticked)'
    BY <1>1, <2>1, <2>2 DEF Evidence
  <2>4. QED
    BY <1>1, <2>1, <2>3 DEF EInv
<1>4. CASE EndRun
  <2>1. /\ session' = ArchiveSession(session) /\ ticked' = ticked /\ program' = program
        /\ pc = "archive" /\ pc' = "report"
    BY <1>4 DEF EndRun, Archive, Passed
  <2>2. /\ Kept(session, session') /\ session'.phase = "Archived"
        /\ session'.log.profile = session.log.profile
    BY <1>1, <2>1, ArchiveKept
  <2>3. program' \in Sample => Evidence(pc, session, ticked)'
    BY <1>1, <2>1, <2>2 DEF Evidence, Kept
  <2>4. QED
    BY <1>1, <2>1, <2>2, <2>3 DEF EInv, Kept
<1>5. CASE Report
  <2>1. /\ session' = session /\ ticked' = ticked /\ program' = program
        /\ pc = "report" /\ pc' = "done"
    BY <1>5 DEF Report, Quiet
  <2>2. program' \in Sample => Evidence(pc, session, ticked)'
    BY <1>1, <2>1 DEF Evidence
  <2>3. QED
    BY <1>1, <2>1, <2>2 DEF EInv
<1>6. QED
  BY <1>2, <1>3, <1>4, <1>5

LEMMA NextEInv == RInv /\ EInv /\ [RunNext]_runVars => EInv'
<1>1. CASE UNCHANGED runVars
  BY <1>1 DEF runVars, EInv, Evidence
<1>2. CASE RunNext
  BY <1>2, OpeningEInv, ClosingEInv DEF RunNext
<1>3. QED
  BY <1>1, <1>2

\* Every call of a run is a call of the transport.
LEMMA RunsCallTransport == RInv /\ [RunNext]_runVars => [Next]_vars
<1>1. SUFFICES ASSUME RInv, [RunNext]_runVars PROVE [Next]_vars
  OBVIOUS
<1>2. /\ ConsoleSender \in Senders /\ DisplaySender \in Senders
      /\ "FireControlConsole" \in ClientRole /\ "TacticalDisplay" \in ClientRole
  BY ProgramsIdentified DEF ClientRole
<1>3. ASSUME NEW kind \in CommandKind, Ask(kind) PROVE Next
  <2>1. [kind |-> kind, sender |-> ConsoleSender, sessionOk |-> TRUE, entitiesOk |-> TRUE]
           \in Payload
    BY <1>2 DEF Payload
  <2>2. QED
    BY <1>3, <2>1 DEF Ask, Next
<1>4. CASE UNCHANGED runVars
  BY <1>4 DEF runVars, vars
<1>5. CASE ConnectConsole \/ ConnectDisplay \/ DisplayLeaves
  BY <1>2, <1>5 DEF ConnectConsole, ConnectDisplay, DisplayLeaves, Next
<1>6. CASE StartRun \/ FirstTick \/ TickUntilReady \/ EndRun
  BY <1>6 DEF StartRun, FirstTick, TickUntilReady, EndRun, Next, Tick
<1>7. CASE Acquire \/ MakeReady \/ DropTrack \/ Engage
  BY <1>3, <1>7 DEF Acquire, MakeReady, DropTrack, Engage, CommandKind
<1>8. CASE LoopEnds \/ Report
  BY <1>8 DEF LoopEnds, Report, Quiet, vars
<1>9. QED
  BY <1>1, <1>4, <1>5, <1>6, <1>7, <1>8 DEF RunNext

\* A fixed run does what it was written for, for every timeout, every sender ids
\* and every answer of the geometry: none of its calls is refused, the ids agree
\* with the connections, and it ends with its verdict and the evidence its sample
\* is named for.
THEOREM RunsProvedToSucceed == RunSpec => []RunsSucceed
<1>1. RInv /\ EInv /\ TransportInv => RunsSucceed
  <2>1. RInv /\ EInv => EvidenceAsNamed
    BY DEF EInv, EvidenceAsNamed, Evidence, ArtifactTrackActive, Sample
  <2>2. RInv => RunTypeOK /\ EndsAssessed
    BY DEF RInv, EndsAssessed
  <2>3. QED
    BY <2>1, <2>2 DEF RunsSucceed, EInv, NeverThrows, TransportInv
<1>2. RunInit => TransportInv
  BY InitTransportInv DEF RunInit
<1>3. TransportInv /\ RInv /\ [RunNext]_runVars => TransportInv'
  BY RunsCallTransport, NextTransportInv
<1>4. QED
  BY InitRInv, NextRInv, InitEInv, NextEInv, <1>1, <1>2, <1>3, PTL DEF RunSpec
================================================================================
