----------------------------- MODULE SessionProofs -----------------------------
(****************************************************************************)
(* Lemmas about the operations of SessionOperations: each returns a session, *)
(* and each preserves the facts of SessionInvariants.  They speak of an     *)
(* arbitrary session record, so every module that holds one can cite them.  *)
(****************************************************************************)
EXTENDS SessionInvariants, TLAPS

--------------------------------------------------------------------------------
(****************************************************************************)
(* Types                                                                    *)
(****************************************************************************)

\* update_track_state yields a track.
LEMMA UpdatedTrackType ==
    ASSUME NEW track \in TrackState, NEW tick \in Nat
    PROVE  UpdatedTrack(track, tick) \in TrackState
<1>1. /\ track.age + 1 \in Nat
      /\ (IF MeasurementDue(tick) THEN track.missed + 1 ELSE track.missed) \in Nat
  BY DEF TrackState
<1>2. QED
  BY <1>1 DEF UpdatedTrack, TrackState

\* The constants for an absent, a cleared and a fresh track are tracks.
LEMMA TrackConstantsType == ClearedTrack \in TrackState /\ SeededTrack \in TrackState
BY DEF ClearedTrack, SeededTrack, TrackState

\* push_event on the log.
LEMMA LoggedType ==
    ASSUME NEW log \in EventLog, NEW type \in EventType
    PROVE  Logged(log, type) \in EventLog
<1>1. /\ log.size + 1 \in Nat
      /\ [log.count EXCEPT ![type] = @ + 1] \in [EventType -> Nat]
  BY DEF EventLog
<1>2. QED
  BY <1>1 DEF Logged, EventLog

\* push_event yields a session.
LEMMA PushEventType ==
    ASSUME NEW s \in Session, NEW type \in EventType
    PROVE  PushEvent(s, type) \in Session
<1>1. Logged(s.log, type) \in EventLog
  BY LoggedType DEF Session
<1>2. QED
  BY <1>1 DEF PushEvent, Session

\* push_event with a track profile yields a session.
LEMMA PushTrackEventType ==
    ASSUME NEW s \in Session, NEW type \in EventType, NEW tracked \in BOOLEAN
    PROVE  PushTrackEvent(s, type, tracked) \in Session
<1>1. Logged(s.log, type) \in EventLog
  BY LoggedType DEF Session
<1>2. [Logged(s.log, type) EXCEPT !.profile = IF tracked THEN "Tracked" ELSE "Untracked"]
        \in EventLog
  BY <1>1 DEF EventLog, TrackProfile
<1>3. QED
  BY <1>2 DEF PushTrackEvent, Session

\* record_snapshot yields a session.
LEMMA RecordSnapshotType ==
    ASSUME NEW s \in Session
    PROVE  RecordSnapshot(s) \in Session
<1>1. SnapshotOf(s) \in Snapshot
  BY DEF SnapshotOf, Snapshot, Session, PublishesSeeker, ClientRole
<1>2. [s.connection EXCEPT !["TacticalDisplay"] = Settled(@)]
        \in [ClientRole -> ConnectionState]
  BY DEF Session, Settled, ConnectionState, ClientRole
<1>3. s.sequence + 1 \in Nat /\ s.snapshots + 1 \in Nat
  BY DEF Session
<1>4. QED
  BY <1>1, <1>2, <1>3 DEF RecordSnapshot, Session

\* The constructor yields a session.
LEMMA NewSessionType ==
    ASSUME NEW t \in EngagementTimeouts
    PROVE  NewSession(t) \in Session
<1>1. EmptyLog \in EventLog
  BY DEF EmptyLog, EventLog, TrackProfile
<1>2. NoSnapshot \in Snapshot
  BY TrackConstantsType
  DEF NoSnapshot, Snapshot, SessionPhase, InterceptorStatus, EngageOrderStatus,
      AssessmentCode, ConnectionState
<1>3. /\ [r \in ClientRole |-> "Disconnected"] \in [ClientRole -> ConnectionState]
      /\ [r \in ClientRole |-> FALSE] \in [ClientRole -> BOOLEAN]
  BY DEF ConnectionState
<1>4. QED
  BY <1>1, <1>2, <1>3, TrackConstantsType
  DEF NewSession, Session, SessionPhase, InterceptorStatus, EngageOrderStatus, AssessmentCode

\* reject_command yields a session.
LEMMA RejectCommandType ==
    ASSUME NEW s \in Session
    PROVE  RejectCommand(s) \in Session
<1> DEFINE logged == PushEvent(s, "EngageOrderRejected")
<1>1. logged \in Session
  BY PushEventType DEF EventType
<1> HIDE DEF logged
<1>2. [logged EXCEPT !.order = "Rejected", !.code = "InvalidTransition"] \in Session
  BY <1>1 DEF Session, EngageOrderStatus, AssessmentCode
<1>3. QED
  BY <1>1, <1>2 DEF RejectCommand, logged

\* connect_client, disconnect_client and timeout_client yield a session.
LEMMA ClientOperationsType ==
    ASSUME NEW s \in Session, NEW role \in ClientRole
    PROVE  /\ ConnectClient(s, role) \in Session
           /\ DisconnectClient(s, role) \in Session
           /\ TimeoutClient(s, role) \in Session
<1>1. \A state \in ConnectionState :
         [s.connection EXCEPT ![role] = state] \in [ClientRole -> ConnectionState]
  BY DEF Session
<1>2. ConnectClient(s, role) \in Session
  <2> DEFINE known  == s.joined[role]
             placed == [s EXCEPT !.joined[role] = TRUE,
                                 !.connection[role] = IF known THEN "Reconnected"
                                                      ELSE "Connected",
                                 !.reconnectExercised = @ \/ known]
  <2>1. /\ [s.joined EXCEPT ![role] = TRUE] \in [ClientRole -> BOOLEAN]
        /\ (IF known THEN "Reconnected" ELSE "Connected") \in ConnectionState
        /\ (s.reconnectExercised \/ known) \in BOOLEAN
    BY DEF Session, ConnectionState
  <2>2. placed \in Session
    BY <1>1, <2>1 DEF Session
  <2> HIDE DEF placed
  <2>3. PushEvent(PushEvent(placed, "ClientReconnected"), "ResilienceTriggered") \in Session
    BY <2>2, PushEventType DEF EventType
  <2>4. PushEvent(placed, "ClientJoined") \in Session
    BY <2>2, PushEventType DEF EventType
  <2>5. QED
    BY <2>3, <2>4 DEF ConnectClient, placed
<1>3. DisconnectClient(s, role) \in Session
  <2>1. [s EXCEPT !.connection[role] = "Disconnected"] \in Session
    BY <1>1 DEF Session, ConnectionState
  <2>2. QED
    BY <2>1, PushEventType DEF DisconnectClient, EventType
<1>4. TimeoutClient(s, role) \in Session
  <2>1. [s EXCEPT !.connection[role] = "TimedOut", !.timeoutExercised = TRUE] \in Session
    BY <1>1 DEF Session, ConnectionState
  <2>2. QED
    BY <2>1, PushEventType, RecordSnapshotType DEF TimeoutClient, EventType
<1>5. QED
  BY <1>2, <1>3, <1>4

\* start_scenario yields a session.
LEMMA StartScenarioType ==
    ASSUME NEW s \in Session
    PROVE  StartScenario(s) \in Session
<1>1. [s EXCEPT !.phase = "Detecting", !.targetActive = TRUE,
                !.track = ClearedTrack, !.interceptor = "Idle",
                !.order = "None", !.ready = FALSE, !.code = "Pending"] \in Session
  BY TrackConstantsType
  DEF Session, SessionPhase, InterceptorStatus, EngageOrderStatus, AssessmentCode
<1>2. QED
  BY <1>1, PushEventType, RecordSnapshotType, RejectCommandType DEF StartScenario, EventType

\* The common part of configure_scenario and reset_session yields a session.
LEMMA ResetWorldType ==
    ASSUME NEW s \in Session
    PROVE  ResetWorld(s) \in Session
BY TrackConstantsType
DEF ResetWorld, Session, InterceptorStatus, EngageOrderStatus, AssessmentCode

\* configure_scenario yields a session.
LEMMA ConfigureScenarioType ==
    ASSUME NEW s \in Session, NEW t \in EngagementTimeouts
    PROVE  ConfigureScenario(s, t) \in Session
<1> DEFINE w == ResetWorld(s)
<1>1. w \in Session
  BY ResetWorldType
<1> HIDE DEF w
<1>2. [w EXCEPT !.timeoutTicks = t] \in Session
  BY <1>1 DEF Session
<1>3. QED
  BY <1>2 DEF ConfigureScenario, w

\* reset_session yields a session.
LEMMA ResetSessionType ==
    ASSUME NEW s \in Session
    PROVE  ResetSession(s) \in Session
<1>1. EmptyLog \in EventLog
  BY DEF EmptyLog, EventLog, TrackProfile
<1>2. NoSnapshot \in Snapshot
  BY TrackConstantsType
  DEF NoSnapshot, Snapshot, SessionPhase, InterceptorStatus, EngageOrderStatus,
      AssessmentCode, ConnectionState
<1>3. [r \in ClientRole |-> Settled(s.connection[r])] \in [ClientRole -> ConnectionState]
  BY DEF Session, Settled, ConnectionState
<1> DEFINE w == ResetWorld(s)
<1>4. w \in Session
  BY ResetWorldType
<1> HIDE DEF w
<1>5. [w EXCEPT !.tick = 0, !.phase = "Standby",
                !.reconnectExercised = FALSE, !.timeoutExercised = FALSE,
                !.gapExercised = FALSE,
                !.log = EmptyLog, !.snapshots = 0, !.latest = NoSnapshot,
                !.connection = [r \in ClientRole |-> Settled(s.connection[r])]] \in Session
  BY <1>1, <1>2, <1>3, <1>4 DEF Session, SessionPhase
<1>6. QED
  BY <1>5, RecordSnapshotType DEF ResetSession, w

\* request_track and release_track yield a session.
LEMMA TrackCommandsType ==
    ASSUME NEW s \in Session
    PROVE  RequestTrack(s) \in Session /\ ReleaseTrack(s) \in Session
<1>1. \A p \in SessionPhase : \A t \in TrackState :
         [s EXCEPT !.track = t, !.phase = p] \in Session
  BY DEF Session
<1>2. /\ (IF s.phase = "Detecting" THEN "Tracking" ELSE s.phase) \in SessionPhase
      /\ (IF s.phase = "Tracking" THEN "Detecting" ELSE s.phase) \in SessionPhase
  BY DEF Session, SessionPhase
<1>3. /\ [s EXCEPT !.track = SeededTrack,
                   !.phase = IF @ = "Detecting" THEN "Tracking" ELSE @] \in Session
      /\ [s EXCEPT !.track = ClearedTrack,
                   !.phase = IF @ = "Tracking" THEN "Detecting" ELSE @] \in Session
  BY <1>1, <1>2, TrackConstantsType
<1>4. "TrackUpdated" \in EventType
  BY DEF EventType
<1>5. QED
  BY <1>3, <1>4, PushTrackEventType, RecordSnapshotType, RejectCommandType
  DEF RequestTrack, ReleaseTrack

\* activate_asset yields a session.
LEMMA ActivateAssetType ==
    ASSUME NEW s \in Session
    PROVE  ActivateAsset(s) \in Session
<1>1. [s EXCEPT !.interceptor = "Ready", !.assetActive = TRUE,
                !.phase = "InterceptorReady"] \in Session
  BY DEF Session, InterceptorStatus, SessionPhase
<1>2. QED
  BY <1>1, PushEventType, RecordSnapshotType, RejectCommandType DEF ActivateAsset, EventType

\* issue_command yields a session.
LEMMA IssueCommandType ==
    ASSUME NEW s \in Session
    PROVE  IssueCommand(s) \in Session
<1>1. [s EXCEPT !.order = "Accepted", !.phase = "EngageOrdered", !.started = s.tick] \in Session
  BY DEF Session, EngageOrderStatus, SessionPhase
<1>2. s.track.active \in BOOLEAN /\ "EngageOrderAccepted" \in EventType
  BY DEF Session, TrackState, EventType
<1>3. QED
  BY <1>1, <1>2, PushTrackEventType, RecordSnapshotType, RejectCommandType DEF IssueCommand

\* archive_session yields a session.
LEMMA ArchiveSessionType ==
    ASSUME NEW s \in Session
    PROVE  ArchiveSession(s) \in Session
<1>1. [s EXCEPT !.phase = "Archived"] \in Session
  BY DEF Session, SessionPhase
<1>2. QED
  BY <1>1, PushEventType, RecordSnapshotType DEF ArchiveSession, EventType

\* The first part of advance_tick yields a session.
LEMMA LaunchedType ==
    ASSUME NEW s \in Session
    PROVE  Launched(s) \in Session
<1> DEFINE launches == s.order = "Accepted" /\ s.phase = "EngageOrdered"
<1>1. s.tick + 1 \in Nat /\ s.track \in TrackState
  BY DEF Session
<1>2. (IF s.track.active THEN UpdatedTrack(s.track, s.tick + 1) ELSE s.track) \in TrackState
  BY <1>1, UpdatedTrackType
<1>3. /\ (IF launches THEN "Intercepting" ELSE s.phase) \in SessionPhase
      /\ (IF launches THEN "Intercepting" ELSE s.interceptor) \in InterceptorStatus
      /\ (IF launches THEN "Executing" ELSE s.order) \in EngageOrderStatus
  BY DEF Session, SessionPhase, InterceptorStatus, EngageOrderStatus
<1>4. QED
  BY <1>1, <1>2, <1>3 DEF Launched, Session

\* The seeker step yields a session.
LEMMA SeekerUpdatedType ==
    ASSUME NEW s \in Session, NEW inFov \in BOOLEAN
    PROVE  SeekerUpdated(s, inFov) \in Session
BY DEF SeekerUpdated, Session

\* A verdict yields a session.
LEMMA VerdictType ==
    ASSUME NEW s \in Session, NEW code \in AssessmentCode
    PROVE  Verdict(s, code) \in Session
<1>1. [s EXCEPT !.ready = TRUE, !.code = code, !.phase = "Assessed",
                !.interceptor = "Complete", !.order = "Completed", !.started = NoTick] \in Session
  BY DEF Session, SessionPhase, InterceptorStatus, EngageOrderStatus
<1>2. QED
  BY <1>1, PushEventType DEF Verdict, EventType

\* The assessment step yields a session.
LEMMA AssessedType ==
    ASSUME NEW s \in Session, NEW hit \in BOOLEAN
    PROVE  Assessed(s, hit) \in Session
<1>1. [s.track EXCEPT !.active = FALSE] \in TrackState
  BY DEF Session, TrackState
<1>2. [s EXCEPT !.targetActive = FALSE, !.track.active = FALSE, !.seekerLock = FALSE] \in Session
  BY <1>1 DEF Session
<1>3. "InterceptSuccess" \in AssessmentCode /\ "TimeoutObserved" \in AssessmentCode
  BY DEF AssessmentCode
<1>4. QED
  BY <1>2, <1>3, VerdictType DEF Assessed

\* The rehearsed gap yields a session.
LEMMA GapExercisedType ==
    ASSUME NEW s \in Session
    PROVE  GapExercised(s) \in Session
<1>1. [s EXCEPT !.gapExercised = TRUE] \in Session
  BY DEF Session
<1>2. QED
  BY <1>1, PushEventType DEF GapExercised, EventType

\* advance_tick yields a session.
LEMMA AdvanceTickType ==
    ASSUME NEW s \in Session, NEW hit \in BOOLEAN, NEW inFov \in BOOLEAN
    PROVE  AdvanceTick(s, hit, inFov) \in Session
<1>1. s.tick + 1 \in Nat
  BY DEF Session
<1>2. [s EXCEPT !.tick = @ + 1] \in Session
  BY <1>1 DEF Session
<1>3. QED
  BY <1>2, ArchiveSessionType, LaunchedType, SeekerUpdatedType, AssessedType,
     GapExercisedType, RecordSnapshotType
  DEF AdvanceTick

--------------------------------------------------------------------------------
(****************************************************************************)
(* What the log, the snapshots and the clients leave alone.  SameMission:   *)
(* the two sessions agree on everything the engagement is decided by.       *)
(****************************************************************************)

SameMission(a, b) ==
    /\ b.phase = a.phase /\ b.tick = a.tick /\ b.timeoutTicks = a.timeoutTicks
    /\ b.targetActive = a.targetActive /\ b.assetActive = a.assetActive
    /\ b.track = a.track /\ b.seekerLock = a.seekerLock
    /\ b.interceptor = a.interceptor /\ b.order = a.order
    /\ b.ready = a.ready /\ b.code = a.code /\ b.started = a.started

\* ... and on the track profile the artifacts report.
SameRecord(a, b) == SameMission(a, b) /\ b.log.profile = a.log.profile

\* push_event changes the log only, and no track profile.
LEMMA PushEventSame ==
    ASSUME NEW s \in Session, NEW type \in EventType
    PROVE  SameRecord(s, PushEvent(s, type))
BY DEF SameRecord, SameMission, PushEvent, Logged, Session, EventLog

\* record_snapshot publishes, numbers and settles the display, nothing else.
LEMMA RecordSnapshotSame ==
    ASSUME NEW s \in Session
    PROVE  SameRecord(s, RecordSnapshot(s))
BY DEF SameRecord, SameMission, RecordSnapshot, Session

\* The two together, as most operations end.
LEMMA PublishSame ==
    ASSUME NEW s \in Session, NEW type \in EventType
    PROVE  SameRecord(s, RecordSnapshot(PushEvent(s, type)))
<1>1. PushEvent(s, type) \in Session
  BY PushEventType
<1>2. SameRecord(s, PushEvent(s, type))
  BY PushEventSame
<1>3. SameRecord(PushEvent(s, type), RecordSnapshot(PushEvent(s, type)))
  BY <1>1, RecordSnapshotSame
<1>4. QED
  BY <1>2, <1>3 DEF SameRecord, SameMission

\* A track event also sets the profile.
LEMMA PublishTrackSame ==
    ASSUME NEW s \in Session, NEW type \in EventType, NEW tracked \in BOOLEAN
    PROVE  LET t == RecordSnapshot(PushTrackEvent(s, type, tracked))
           IN  SameMission(s, t) /\ (t.log.profile = "Tracked") = tracked
<1> DEFINE l == PushTrackEvent(s, type, tracked)
<1>1. l \in Session
  BY PushTrackEventType
<1>2. Logged(s.log, type) \in EventLog
  BY LoggedType DEF Session
<1>3. [Logged(s.log, type) EXCEPT !.profile = IF tracked THEN "Tracked" ELSE "Untracked"].profile
        = IF tracked THEN "Tracked" ELSE "Untracked"
  BY <1>2 DEF EventLog
<1>4. l.log = [Logged(s.log, type) EXCEPT !.profile = IF tracked THEN "Tracked" ELSE "Untracked"]
  BY DEF PushTrackEvent, Session
<1>5. SameMission(s, l)
  BY DEF SameMission, PushTrackEvent, Session
<1>6. (l.log.profile = "Tracked") = tracked
  BY <1>3, <1>4
<1> HIDE DEF l
<1>7. SameRecord(l, RecordSnapshot(l))
  BY <1>1, RecordSnapshotSame
<1>8. SameMission(s, RecordSnapshot(l)) /\ (RecordSnapshot(l).log.profile = "Tracked") = tracked
  BY <1>5, <1>6, <1>7 DEF SameRecord, SameMission
<1>9. QED
  BY <1>8 DEF l

\* Connecting, leaving and timing out touch neither the mission nor the profile:
\* a viewer that times out cannot change the outcome of an engagement.
LEMMA ClientsSame ==
    ASSUME NEW s \in Session, NEW role \in ClientRole
    PROVE  /\ SameRecord(s, ConnectClient(s, role))
           /\ SameRecord(s, DisconnectClient(s, role))
           /\ SameRecord(s, TimeoutClient(s, role))
<1>1. \A state \in ConnectionState :
         [s.connection EXCEPT ![role] = state] \in [ClientRole -> ConnectionState]
  BY DEF Session
<1>2. SameRecord(s, ConnectClient(s, role))
  <2> DEFINE known  == s.joined[role]
             placed == [s EXCEPT !.joined[role] = TRUE,
                                 !.connection[role] = IF known THEN "Reconnected"
                                                      ELSE "Connected",
                                 !.reconnectExercised = @ \/ known]
             back   == PushEvent(placed, "ClientReconnected")
  <2>1. /\ [s.joined EXCEPT ![role] = TRUE] \in [ClientRole -> BOOLEAN]
        /\ (IF known THEN "Reconnected" ELSE "Connected") \in ConnectionState
        /\ (s.reconnectExercised \/ known) \in BOOLEAN
    BY DEF Session, ConnectionState
  <2>2. placed \in Session
    BY <1>1, <2>1 DEF Session
  <2>3. SameRecord(s, placed)
    BY DEF SameRecord, SameMission, Session
  <2> HIDE DEF placed
  <2>4. back \in Session /\ SameRecord(placed, back)
    BY <2>2, PushEventType, PushEventSame DEF EventType
  <2> HIDE DEF back
  <2>5. SameRecord(back, PushEvent(back, "ResilienceTriggered"))
    BY <2>4, PushEventSame DEF EventType
  <2>6. SameRecord(placed, PushEvent(placed, "ClientJoined"))
    BY <2>2, PushEventSame DEF EventType
  <2>7. CASE known
    <3>1. ConnectClient(s, role) = PushEvent(back, "ResilienceTriggered")
      BY <2>7 DEF ConnectClient, placed, back
    <3>2. QED
      BY <2>3, <2>4, <2>5, <3>1 DEF SameRecord, SameMission
  <2>8. CASE ~known
    <3>1. ConnectClient(s, role) = PushEvent(placed, "ClientJoined")
      BY <2>8 DEF ConnectClient, placed
    <3>2. QED
      BY <2>3, <2>6, <3>1 DEF SameRecord, SameMission
  <2>9. QED
    BY <2>7, <2>8
<1>3. SameRecord(s, DisconnectClient(s, role))
  <2> DEFINE gone == [s EXCEPT !.connection[role] = "Disconnected"]
  <2>1. gone \in Session /\ SameRecord(s, gone)
    BY <1>1 DEF Session, ConnectionState, SameRecord, SameMission
  <2> HIDE DEF gone
  <2>2. SameRecord(gone, PushEvent(gone, "ClientLeft"))
    BY <2>1, PushEventSame DEF EventType
  <2>3. DisconnectClient(s, role) = PushEvent(gone, "ClientLeft")
    BY DEF DisconnectClient, gone
  <2>4. QED
    BY <2>1, <2>2, <2>3 DEF SameRecord, SameMission
<1>4. SameRecord(s, TimeoutClient(s, role))
  <2> DEFINE gone == [s EXCEPT !.connection[role] = "TimedOut", !.timeoutExercised = TRUE]
  <2>1. gone \in Session /\ SameRecord(s, gone)
    BY <1>1 DEF Session, ConnectionState, SameRecord, SameMission
  <2> HIDE DEF gone
  <2>2. SameRecord(gone, RecordSnapshot(PushEvent(gone, "ResilienceTriggered")))
    BY <2>1, PublishSame DEF EventType
  <2>3. TimeoutClient(s, role) = RecordSnapshot(PushEvent(gone, "ResilienceTriggered"))
    BY DEF TimeoutClient, gone
  <2>4. QED
    BY <2>1, <2>2, <2>3 DEF SameRecord, SameMission
<1>5. QED
  BY <1>2, <1>3, <1>4

--------------------------------------------------------------------------------
(****************************************************************************)
(* The facts of the mission, preserved by every operation.                  *)
(****************************************************************************)

\* MissionFacts reads nothing but what SameRecord compares.
LEMMA SameRecordFacts ==
    ASSUME NEW a \in Session, NEW b \in Session, SameRecord(a, b), MissionFacts(a)
    PROVE  MissionFacts(b)
<1>1. PhaseFacts(b)
  BY DEF SameRecord, SameMission, MissionFacts, PhaseFacts, PreLaunch
<1>2. TimelyFacts(b) /\ SeekerFacts(b) /\ ProfileFacts(b)
  BY DEF SameRecord, SameMission, MissionFacts, TimelyFacts, SeekerFacts, ProfileFacts
<1>3. QED
  BY <1>1, <1>2 DEF MissionFacts

\* A new session satisfies the facts.
LEMMA NewSessionFacts ==
    ASSUME NEW t \in EngagementTimeouts
    PROVE  MissionFacts(NewSession(t))
BY DEF MissionFacts, NewSession, PhaseFacts, PreLaunch, TimelyFacts, SeekerFacts,
       ProfileFacts, ClearedTrack, EmptyLog

\* A rejected command may spoil a running order, but contradicts nothing.
LEMMA RejectCommandFacts ==
    ASSUME NEW s \in Session, MissionFacts(s)
    PROVE  MissionFacts(RejectCommand(s))
<1> DEFINE logged == PushEvent(s, "EngageOrderRejected")
<1>1. logged \in Session /\ SameRecord(s, logged)
  BY PushEventType, PushEventSame DEF EventType
<1> HIDE DEF logged
<1>2. MissionFacts(logged)
  BY <1>1, SameRecordFacts
<1>3. CASE s.ready
  BY <1>2, <1>3 DEF RejectCommand, logged
<1>4. CASE ~s.ready
  <2> DEFINE spoilt == [logged EXCEPT !.order = "Rejected", !.code = "InvalidTransition"]
  <2>1. ~logged.ready
    BY <1>1, <1>4 DEF SameRecord, SameMission
  <2>2. /\ spoilt.phase = logged.phase /\ spoilt.tick = logged.tick
        /\ spoilt.targetActive = logged.targetActive
        /\ spoilt.assetActive = logged.assetActive
        /\ spoilt.track = logged.track /\ spoilt.seekerLock = logged.seekerLock
        /\ spoilt.interceptor = logged.interceptor /\ spoilt.ready = logged.ready
        /\ spoilt.started = logged.started /\ spoilt.log = logged.log
        /\ spoilt.order = "Rejected" /\ spoilt.code = "InvalidTransition"
    BY <1>1 DEF Session
  <2>3. RejectCommand(s) = spoilt
    BY <1>4 DEF RejectCommand, logged
  <2> HIDE DEF spoilt
  <2>4. PhaseFacts(spoilt)
    BY <1>1, <1>2, <2>1, <2>2 DEF MissionFacts, PhaseFacts, PreLaunch, Session
  <2>5. TimelyFacts(spoilt) /\ SeekerFacts(spoilt) /\ ProfileFacts(spoilt)
    BY <1>2, <2>1, <2>2 DEF MissionFacts, TimelyFacts, SeekerFacts, ProfileFacts
  <2>6. QED
    BY <2>3, <2>4, <2>5 DEF MissionFacts
<1>5. QED
  BY <1>3, <1>4

\* After a track event the profile says what the track says.
LEMMA TrackEventFacts ==
    ASSUME NEW a \in Session, NEW type \in EventType,
           PhaseFacts(a), TimelyFacts(a), SeekerFacts(a)
    PROVE  MissionFacts(RecordSnapshot(PushTrackEvent(a, type, a.track.active)))
<1> DEFINE b == RecordSnapshot(PushTrackEvent(a, type, a.track.active))
<1>1. a.track.active \in BOOLEAN
  BY DEF Session, TrackState
<1>2. SameMission(a, b) /\ (b.log.profile = "Tracked") = a.track.active
  BY <1>1, PublishTrackSame
<1> HIDE DEF b
<1>3. PhaseFacts(b)
  BY <1>2 DEF SameMission, PhaseFacts, PreLaunch
<1>4. TimelyFacts(b) /\ SeekerFacts(b) /\ ProfileFacts(b)
  BY <1>2 DEF SameMission, TimelyFacts, SeekerFacts, ProfileFacts
<1>5. QED
  BY <1>3, <1>4 DEF MissionFacts, b

\* An event and a snapshot keep the facts.
LEMMA PublishFacts ==
    ASSUME NEW s \in Session, NEW type \in EventType, MissionFacts(s)
    PROVE  MissionFacts(RecordSnapshot(PushEvent(s, type)))
BY PushEventType, RecordSnapshotType, PublishSame, SameRecordFacts

\* start_scenario keeps the facts.
LEMMA StartScenarioFacts ==
    ASSUME NEW s \in Session, MissionFacts(s)
    PROVE  MissionFacts(StartScenario(s))
<1> DEFINE u == [s EXCEPT !.phase = "Detecting", !.targetActive = TRUE,
                          !.track = ClearedTrack, !.interceptor = "Idle",
                          !.order = "None", !.ready = FALSE, !.code = "Pending"]
           refused == s.connection["FireControlConsole"] = "Disconnected" \/ s.phase # "Standby"
<1>1. CASE refused
  BY <1>1, RejectCommandFacts DEF StartScenario
<1>2. CASE ~refused
  <2>1. u \in Session
    BY TrackConstantsType, ZenonT(40)
    DEF Session, SessionPhase, InterceptorStatus, EngageOrderStatus, AssessmentCode
  <2>2. /\ u.phase = "Detecting" /\ u.targetActive /\ u.track = ClearedTrack
        /\ u.interceptor = "Idle" /\ u.order = "None" /\ u.ready = FALSE /\ u.code = "Pending"
        /\ u.assetActive = s.assetActive /\ u.seekerLock = s.seekerLock
        /\ u.started = s.started /\ u.log = s.log
    BY DEF Session
  <2>3. StartScenario(s) = RecordSnapshot(PushEvent(u, "SessionStarted"))
    BY <1>2 DEF StartScenario
  <2> HIDE DEF u
  <2>4. /\ s.started = NoTick /\ ~s.seekerLock /\ ~s.assetActive /\ s.log.profile # "Tracked"
    BY <1>2 DEF MissionFacts, PhaseFacts, PreLaunch, ProfileFacts
  <2>5. u.track.active = FALSE
    BY <2>2 DEF ClearedTrack
  <2>6. PhaseFacts(u)
    BY <2>2, <2>4, <2>5 DEF PhaseFacts, PreLaunch
  <2>7. TimelyFacts(u) /\ SeekerFacts(u) /\ ProfileFacts(u)
    BY <2>2, <2>4, <2>5 DEF TimelyFacts, SeekerFacts, ProfileFacts
  <2>8. QED
    BY <2>1, <2>3, <2>6, <2>7, PublishFacts DEF EventType, MissionFacts
<1>3. QED
  BY <1>1, <1>2

\* In standby a new scenario may be configured without harm.
LEMMA ConfigureScenarioFacts ==
    ASSUME NEW s \in Session, NEW t \in EngagementTimeouts, MissionFacts(s), s.phase = "Standby"
    PROVE  MissionFacts(ConfigureScenario(s, t))
<1> DEFINE w == ResetWorld(s)
<1>1. w \in Session
  BY ResetWorldType
<1>2. /\ w.phase = "Standby" /\ ~w.targetActive /\ ~w.assetActive /\ ~w.seekerLock
      /\ w.track = ClearedTrack /\ w.interceptor = "Idle" /\ w.order = "None"
      /\ ~w.ready /\ w.code = "Pending" /\ w.started = NoTick /\ w.log = s.log
  BY DEF ResetWorld, Session
<1> HIDE DEF w
<1> DEFINE c == [w EXCEPT !.timeoutTicks = t]
<1>3. /\ c.phase = "Standby" /\ ~c.targetActive /\ ~c.assetActive /\ ~c.seekerLock
      /\ c.track = ClearedTrack /\ c.interceptor = "Idle" /\ c.order = "None"
      /\ ~c.ready /\ c.code = "Pending" /\ c.started = NoTick /\ c.log = s.log
  BY <1>1, <1>2 DEF Session
<1>4. ConfigureScenario(s, t) = c
  BY DEF ConfigureScenario, w
<1> HIDE DEF c
<1>5. s.log.profile # "Tracked"
  BY DEF MissionFacts, PhaseFacts, PreLaunch, ProfileFacts
<1>6. c.track.active = FALSE
  BY <1>3 DEF ClearedTrack
<1>7. PhaseFacts(c)
  BY <1>3, <1>6 DEF PhaseFacts, PreLaunch
<1>8. TimelyFacts(c) /\ SeekerFacts(c) /\ ProfileFacts(c)
  BY <1>3, <1>5, <1>6 DEF TimelyFacts, SeekerFacts, ProfileFacts
<1>9. QED
  BY <1>4, <1>7, <1>8 DEF MissionFacts

\* reset_session restores the facts whatever the session was.
LEMMA ResetSessionFacts ==
    ASSUME NEW s \in Session
    PROVE  MissionFacts(ResetSession(s))
<1> DEFINE w == ResetWorld(s)
<1>1. w \in Session
  BY ResetWorldType
<1>2. /\ ~w.targetActive /\ ~w.assetActive /\ ~w.seekerLock
      /\ w.track = ClearedTrack /\ w.interceptor = "Idle" /\ w.order = "None"
      /\ ~w.ready /\ w.code = "Pending" /\ w.started = NoTick
  BY DEF ResetWorld, Session
<1> HIDE DEF w
<1> DEFINE c == [w EXCEPT !.tick = 0, !.phase = "Standby",
                          !.reconnectExercised = FALSE, !.timeoutExercised = FALSE,
                          !.gapExercised = FALSE,
                          !.log = EmptyLog, !.snapshots = 0, !.latest = NoSnapshot,
                          !.connection = [r \in ClientRole |-> Settled(s.connection[r])]]
<1>3. c \in Session
  <2>1. EmptyLog \in EventLog
    BY DEF EmptyLog, EventLog, TrackProfile
  <2>2. NoSnapshot \in Snapshot
    BY TrackConstantsType
    DEF NoSnapshot, Snapshot, SessionPhase, InterceptorStatus, EngageOrderStatus,
        AssessmentCode, ConnectionState
  <2>3. [r \in ClientRole |-> Settled(s.connection[r])] \in [ClientRole -> ConnectionState]
    BY DEF Session, Settled, ConnectionState
  <2>4. QED
    BY <1>1, <2>1, <2>2, <2>3 DEF Session, SessionPhase
<1>4. /\ c.phase = "Standby" /\ ~c.targetActive /\ ~c.assetActive /\ ~c.seekerLock
      /\ c.track = ClearedTrack /\ c.interceptor = "Idle" /\ c.order = "None"
      /\ ~c.ready /\ c.code = "Pending" /\ c.started = NoTick /\ c.log = EmptyLog
  BY <1>1, <1>2 DEF Session
<1>5. ResetSession(s) = RecordSnapshot(c)
  BY DEF ResetSession, w
<1> HIDE DEF c
<1>6. c.track.active = FALSE /\ c.log.profile = "None"
  BY <1>4 DEF ClearedTrack, EmptyLog
<1>7. PhaseFacts(c)
  BY <1>4, <1>6 DEF PhaseFacts, PreLaunch
<1>8. TimelyFacts(c) /\ SeekerFacts(c) /\ ProfileFacts(c)
  BY <1>4, <1>6 DEF TimelyFacts, SeekerFacts, ProfileFacts
<1>9. QED
  BY <1>3, <1>5, <1>7, <1>8, RecordSnapshotType, RecordSnapshotSame, SameRecordFacts
  DEF MissionFacts

\* request_track and release_track keep the facts.
LEMMA TrackCommandsFacts ==
    ASSUME NEW s \in Session, MissionFacts(s)
    PROVE  MissionFacts(RequestTrack(s)) /\ MissionFacts(ReleaseTrack(s))
<1>0. "TrackUpdated" \in EventType
  BY DEF EventType
<1>1. \A p \in SessionPhase : \A t \in TrackState :
         [s EXCEPT !.track = t, !.phase = p] \in Session
  BY DEF Session
<1>2. MissionFacts(RequestTrack(s))
  <2> DEFINE u == [s EXCEPT !.track = SeededTrack,
                            !.phase = IF @ = "Detecting" THEN "Tracking" ELSE @]
             allowed == s.phase = "Detecting" \/ (s.phase = "InterceptorReady" /\ ~s.track.active)
  <2>1. CASE ~allowed
    BY <2>1, RejectCommandFacts DEF RequestTrack
  <2>2. CASE allowed
    <3>1. (IF s.phase = "Detecting" THEN "Tracking" ELSE s.phase) \in SessionPhase
      BY DEF Session, SessionPhase
    <3>2. u \in Session
      BY <1>1, <3>1, TrackConstantsType
    <3>3. /\ u.track = SeededTrack
          /\ u.phase = (IF s.phase = "Detecting" THEN "Tracking" ELSE s.phase)
          /\ u.tick = s.tick /\ u.targetActive = s.targetActive
          /\ u.assetActive = s.assetActive /\ u.seekerLock = s.seekerLock
          /\ u.interceptor = s.interceptor /\ u.order = s.order /\ u.ready = s.ready
          /\ u.code = s.code /\ u.started = s.started
      BY DEF Session
    <3> HIDE DEF u
    <3>4. u.track.active = TRUE
      BY <3>3 DEF SeededTrack
    <3>5. RequestTrack(s) = RecordSnapshot(PushTrackEvent(u, "TrackUpdated", u.track.active))
      BY <2>2, <3>4 DEF RequestTrack, u
    <3>6. PhaseFacts(u)
      BY <2>2, <3>3, <3>4 DEF MissionFacts, PhaseFacts, PreLaunch
    <3>7. TimelyFacts(u) /\ SeekerFacts(u)
      BY <2>2, <3>3 DEF MissionFacts, PhaseFacts, PreLaunch, TimelyFacts, SeekerFacts
    <3>8. QED
      BY <1>0, <3>2, <3>5, <3>6, <3>7, TrackEventFacts
  <2>3. QED
    BY <2>1, <2>2
<1>3. MissionFacts(ReleaseTrack(s))
  <2> DEFINE u == [s EXCEPT !.track = ClearedTrack,
                            !.phase = IF @ = "Tracking" THEN "Detecting" ELSE @]
             allowed == s.phase \in {"Tracking", "InterceptorReady"} /\ s.track.active
  <2>1. CASE ~allowed
    BY <2>1, RejectCommandFacts DEF ReleaseTrack
  <2>2. CASE allowed
    <3>1. (IF s.phase = "Tracking" THEN "Detecting" ELSE s.phase) \in SessionPhase
      BY DEF Session, SessionPhase
    <3>2. u \in Session
      BY <1>1, <3>1, TrackConstantsType
    <3>3. /\ u.track = ClearedTrack
          /\ u.phase = (IF s.phase = "Tracking" THEN "Detecting" ELSE s.phase)
          /\ u.tick = s.tick /\ u.targetActive = s.targetActive
          /\ u.assetActive = s.assetActive /\ u.seekerLock = s.seekerLock
          /\ u.interceptor = s.interceptor /\ u.order = s.order /\ u.ready = s.ready
          /\ u.code = s.code /\ u.started = s.started
      BY DEF Session
    <3> HIDE DEF u
    <3>4. u.track.active = FALSE
      BY <3>3 DEF ClearedTrack
    <3>5. ReleaseTrack(s) = RecordSnapshot(PushTrackEvent(u, "TrackUpdated", u.track.active))
      BY <2>2, <3>4 DEF ReleaseTrack, u
    <3>6. PhaseFacts(u)
      BY <2>2, <3>3, <3>4 DEF MissionFacts, PhaseFacts, PreLaunch
    <3>7. TimelyFacts(u) /\ SeekerFacts(u)
      BY <2>2, <3>3 DEF MissionFacts, PhaseFacts, PreLaunch, TimelyFacts, SeekerFacts
    <3>8. QED
      BY <1>0, <3>2, <3>5, <3>6, <3>7, TrackEventFacts
  <2>3. QED
    BY <2>1, <2>2
<1>4. QED
  BY <1>2, <1>3

\* activate_asset keeps the facts.
LEMMA ActivateAssetFacts ==
    ASSUME NEW s \in Session, MissionFacts(s)
    PROVE  MissionFacts(ActivateAsset(s))
<1> DEFINE u == [s EXCEPT !.interceptor = "Ready", !.assetActive = TRUE,
                          !.phase = "InterceptorReady"]
           allowed == s.phase = "Tracking" /\ s.track.active
<1>1. CASE ~allowed
  BY <1>1, RejectCommandFacts DEF ActivateAsset
<1>2. CASE allowed
  <2>1. u \in Session
    BY DEF Session, InterceptorStatus, SessionPhase
  <2>2. /\ u.interceptor = "Ready" /\ u.assetActive /\ u.phase = "InterceptorReady"
        /\ u.tick = s.tick /\ u.targetActive = s.targetActive /\ u.track = s.track
        /\ u.seekerLock = s.seekerLock /\ u.order = s.order /\ u.ready = s.ready
        /\ u.code = s.code /\ u.started = s.started /\ u.log = s.log
    BY DEF Session
  <2>3. ActivateAsset(s) = RecordSnapshot(PushEvent(u, "InterceptorUpdated"))
    BY <1>2 DEF ActivateAsset
  <2> HIDE DEF u
  <2>4. PhaseFacts(u)
    BY <1>2, <2>2 DEF MissionFacts, PhaseFacts, PreLaunch
  <2>5. TimelyFacts(u) /\ SeekerFacts(u) /\ ProfileFacts(u)
    BY <1>2, <2>2 DEF MissionFacts, PhaseFacts, TimelyFacts, SeekerFacts, ProfileFacts
  <2>6. QED
    BY <2>1, <2>3, <2>4, <2>5, PublishFacts DEF MissionFacts, EventType
<1>3. QED
  BY <1>1, <1>2

\* issue_command keeps the facts: the engagement starts at the present tick.
LEMMA IssueCommandFacts ==
    ASSUME NEW s \in Session, MissionFacts(s)
    PROVE  MissionFacts(IssueCommand(s))
<1> DEFINE u == [s EXCEPT !.order = "Accepted", !.phase = "EngageOrdered", !.started = s.tick]
           allowed == s.phase = "InterceptorReady" /\ s.interceptor = "Ready"
<1>1. CASE ~allowed
  BY <1>1, RejectCommandFacts DEF IssueCommand
<1>2. CASE allowed
  <2>1. u \in Session
    BY DEF Session, EngageOrderStatus, SessionPhase
  <2>2. /\ u.order = "Accepted" /\ u.phase = "EngageOrdered" /\ u.started = s.tick
        /\ u.tick = s.tick /\ u.targetActive = s.targetActive /\ u.track = s.track
        /\ u.assetActive = s.assetActive /\ u.interceptor = s.interceptor
        /\ u.seekerLock = s.seekerLock /\ u.ready = s.ready /\ u.code = s.code
    BY DEF Session
  <2>3. IssueCommand(s) = RecordSnapshot(PushTrackEvent(u, "EngageOrderAccepted", u.track.active))
    BY <1>2, <2>2 DEF IssueCommand
  <2>4. s.tick \in Nat
    BY DEF Session
  <2> HIDE DEF u
  <2>5. PhaseFacts(u)
    BY <1>2, <2>2, <2>4 DEF MissionFacts, PhaseFacts, PreLaunch
  <2>6. TimelyFacts(u) /\ SeekerFacts(u)
    BY <1>2, <2>2 DEF MissionFacts, PhaseFacts, PreLaunch, TimelyFacts, SeekerFacts
  <2>7. QED
    BY <2>1, <2>3, <2>5, <2>6, TrackEventFacts DEF EventType
<1>3. QED
  BY <1>1, <1>2

\* archive_session keeps the facts, wherever the run is stopped.
LEMMA ArchiveSessionFacts ==
    ASSUME NEW s \in Session, MissionFacts(s)
    PROVE  MissionFacts(ArchiveSession(s))
<1> DEFINE u == [s EXCEPT !.phase = "Archived"]
<1>1. u \in Session
  BY DEF Session, SessionPhase
<1>2. /\ u.phase = "Archived"
      /\ u.tick = s.tick /\ u.targetActive = s.targetActive /\ u.track = s.track
      /\ u.assetActive = s.assetActive /\ u.interceptor = s.interceptor
      /\ u.seekerLock = s.seekerLock /\ u.order = s.order /\ u.ready = s.ready
      /\ u.code = s.code /\ u.started = s.started /\ u.log = s.log
  BY DEF Session
<1>3. ArchiveSession(s) = IF s.phase = "Archived" THEN s
                          ELSE RecordSnapshot(PushEvent(u, "SessionEnded"))
  BY DEF ArchiveSession
<1> HIDE DEF u
<1>4. PhaseFacts(u)
  BY <1>2 DEF MissionFacts, PhaseFacts
<1>5. TimelyFacts(u) /\ SeekerFacts(u) /\ ProfileFacts(u)
  BY <1>2 DEF MissionFacts, TimelyFacts, SeekerFacts, ProfileFacts
<1>6. QED
  BY <1>1, <1>3, <1>4, <1>5, PublishFacts DEF MissionFacts, EventType

\* Between launch and assessment an order may have reached its timeout, no more.
DueFacts(s) ==
    s.phase = "Intercepting" /\ s.order = "Executing" =>
        s.started < s.tick /\ s.tick - s.started <= s.timeoutTicks

\* validate_runtime_config: the timeout of a session is a positive number.
LEMMA TimeoutTicksPositive ==
    ASSUME NEW s \in Session
    PROVE  s.timeoutTicks \in Nat /\ s.timeoutTicks > 0
<1>1. s.timeoutTicks \in EngagementTimeouts
  BY DEF Session
<1>2. \A t \in EngagementTimeouts : t \in Nat /\ t # 0
  BY EngagementTimeoutsPositive
<1>3. QED
  BY <1>1, <1>2

\* The launch keeps phases and profile, and an order is at most due.
LEMMA LaunchedFacts ==
    ASSUME NEW s \in Session, MissionFacts(s), s.phase # "Assessed"
    PROVE  LET l == Launched(s)
           IN  PhaseFacts(l) /\ DueFacts(l) /\ ProfileFacts(l)
<1> DEFINE l == Launched(s)
           launches == s.order = "Accepted" /\ s.phase = "EngageOrdered"
           moved == IF s.track.active THEN UpdatedTrack(s.track, s.tick + 1) ELSE s.track
<1>1. /\ l.tick = s.tick + 1 /\ l.track = moved
      /\ l.phase = (IF launches THEN "Intercepting" ELSE s.phase)
      /\ l.interceptor = (IF launches THEN "Intercepting" ELSE s.interceptor)
      /\ l.order = (IF launches THEN "Executing" ELSE s.order)
      /\ l.timeoutTicks = s.timeoutTicks /\ l.targetActive = s.targetActive
      /\ l.assetActive = s.assetActive /\ l.seekerLock = s.seekerLock
      /\ l.ready = s.ready /\ l.code = s.code /\ l.started = s.started /\ l.log = s.log
  BY DEF Launched, Session
<1>2. s.track \in TrackState
  BY DEF Session
<1>3. moved.active = s.track.active
  BY <1>2 DEF UpdatedTrack, TrackState
<1> HIDE DEF l, moved
<1>4. l.track.active = s.track.active
  BY <1>1, <1>3
<1>5. s.tick \in Nat /\ s.timeoutTicks \in Nat /\ s.timeoutTicks > 0
  BY TimeoutTicksPositive DEF Session
<1>6. PhaseFacts(l)
  BY <1>1, <1>4, <1>5 DEF MissionFacts, PhaseFacts, PreLaunch
<1>7. DueFacts(l)
  <2>1. CASE launches
    BY <1>1, <1>5, <2>1 DEF MissionFacts, PhaseFacts, DueFacts
  <2>2. CASE ~launches
    <3>1. SUFFICES ASSUME l.phase = "Intercepting", l.order = "Executing"
                   PROVE  l.started < l.tick /\ l.tick - l.started <= l.timeoutTicks
      BY DEF DueFacts
    <3>2. s.started \in 0 .. s.tick /\ s.started < s.tick /\ s.tick - s.started < s.timeoutTicks
      BY <1>1, <2>2, <3>1 DEF MissionFacts, PhaseFacts, TimelyFacts
    <3>3. QED
      BY <1>1, <1>5, <3>2
  <2>3. QED
    BY <2>1, <2>2
<1>8. ProfileFacts(l)
  BY <1>1, <1>4 DEF MissionFacts, ProfileFacts
<1>9. QED
  BY <1>6, <1>7, <1>8 DEF l

\* The recomputed lock agrees with the track, and disturbs nothing else.
LEMMA SeekerUpdatedFacts ==
    ASSUME NEW s \in Session, NEW inFov \in BOOLEAN,
           PhaseFacts(s), DueFacts(s), ProfileFacts(s)
    PROVE  LET u == SeekerUpdated(s, inFov)
           IN  PhaseFacts(u) /\ DueFacts(u) /\ SeekerFacts(u) /\ ProfileFacts(u)
<1> DEFINE u == SeekerUpdated(s, inFov)
<1>1. /\ u.phase = s.phase /\ u.tick = s.tick /\ u.timeoutTicks = s.timeoutTicks
      /\ u.targetActive = s.targetActive /\ u.assetActive = s.assetActive
      /\ u.track = s.track /\ u.interceptor = s.interceptor /\ u.order = s.order
      /\ u.ready = s.ready /\ u.code = s.code /\ u.started = s.started /\ u.log = s.log
      /\ u.seekerLock = (/\ s.assetActive /\ s.order \in {"Accepted", "Executing", "Completed"}
                         /\ s.track.active /\ inFov)
  BY DEF SeekerUpdated, Session
<1> HIDE DEF u
<1>2. PhaseFacts(u)
  BY <1>1 DEF PhaseFacts, PreLaunch
<1>3. DueFacts(u) /\ ProfileFacts(u)
  BY <1>1 DEF DueFacts, ProfileFacts
<1>4. SeekerFacts(u)
  BY <1>1 DEF PhaseFacts, SeekerFacts
<1>5. QED
  BY <1>2, <1>3, <1>4 DEF u

\* A verdict on an executing order keeps the facts.
LEMMA VerdictFacts ==
    ASSUME NEW s \in Session, NEW code \in {"InterceptSuccess", "TimeoutObserved"},
           SeekerFacts(s), s.assetActive, s.phase = "Intercepting",
           s.targetActive = (code = "TimeoutObserved"),
           s.track.active => s.targetActive
    PROVE  MissionFacts(Verdict(s, code))
<1> DEFINE u == [s EXCEPT !.ready = TRUE, !.code = code, !.phase = "Assessed",
                          !.interceptor = "Complete", !.order = "Completed",
                          !.started = NoTick]
<1>1. u \in Session
  BY DEF Session, SessionPhase, InterceptorStatus, EngageOrderStatus, AssessmentCode
<1>2. /\ u.ready = TRUE /\ u.code = code /\ u.phase = "Assessed" /\ u.interceptor = "Complete"
      /\ u.order = "Completed" /\ u.started = NoTick
      /\ u.targetActive = s.targetActive /\ u.assetActive = s.assetActive
      /\ u.track = s.track /\ u.seekerLock = s.seekerLock
  BY DEF Session
<1>3. Verdict(s, code) = PushEvent(u, "AssessmentProduced")
  BY DEF Verdict
<1> HIDE DEF u
<1>4. PhaseFacts(u)
  BY <1>2 DEF PhaseFacts
<1>5. TimelyFacts(u) /\ SeekerFacts(u) /\ ProfileFacts(u)
  BY <1>2 DEF TimelyFacts, SeekerFacts, ProfileFacts
<1>6. QED
  BY <1>1, <1>3, <1>4, <1>5, PushEventType, PushEventSame, SameRecordFacts
  DEF MissionFacts, EventType

\* The assessment settles what is due: afterwards every order is timely again.
LEMMA AssessedFacts ==
    ASSUME NEW s \in Session, NEW hit \in BOOLEAN,
           PhaseFacts(s), DueFacts(s), SeekerFacts(s), ProfileFacts(s)
    PROVE  MissionFacts(Assessed(s, hit))
<1>1. CASE ~(s.order = "Executing" /\ s.phase = "Intercepting")
  <2>1. TimelyFacts(s)
    BY <1>1 DEF TimelyFacts
  <2>2. Assessed(s, hit) = s
    BY <1>1 DEF Assessed
  <2>3. QED
    BY <2>1, <2>2 DEF MissionFacts
<1>2. CASE s.order = "Executing" /\ s.phase = "Intercepting"
  <2>1. s.assetActive /\ s.targetActive = TRUE
    BY <1>2 DEF PhaseFacts, Session
  <2>2. CASE hit
    <3> DEFINE u == [s EXCEPT !.targetActive = FALSE, !.track.active = FALSE,
                              !.seekerLock = FALSE]
    <3>1. [s.track EXCEPT !.active = FALSE] \in TrackState
      BY DEF Session, TrackState
    <3>2. u \in Session
      BY <3>1 DEF Session
    <3>3. /\ u.targetActive = FALSE /\ u.seekerLock = FALSE /\ u.phase = "Intercepting"
          /\ u.assetActive = s.assetActive
      BY <1>2 DEF Session
    <3>4. u.track.active = FALSE
      BY DEF Session, TrackState
    <3>5. Assessed(s, hit) = Verdict(u, "InterceptSuccess")
      BY <1>2, <2>2 DEF Assessed
    <3> HIDE DEF u
    <3>6. SeekerFacts(u)
      BY <3>3 DEF SeekerFacts
    <3>7. QED
      BY <2>1, <3>2, <3>3, <3>4, <3>5, <3>6, VerdictFacts
  <2>3. CASE ~hit /\ EngagementExpired(s)
    <3>1. Assessed(s, hit) = Verdict(s, "TimeoutObserved")
      BY <1>2, <2>3 DEF Assessed
    <3>2. QED
      BY <1>2, <2>1, <3>1, VerdictFacts
  <2>4. CASE ~hit /\ ~EngagementExpired(s)
    <3>1. Assessed(s, hit) = s
      BY <1>2, <2>4 DEF Assessed
    <3>2. s.started # NoTick /\ s.started \in Nat /\ s.tick \in Nat
      BY <1>2 DEF PhaseFacts, NoTick, Session
    <3>3. s.tick - s.started < s.timeoutTicks
      <4>1. s.timeoutTicks \in Nat
        BY TimeoutTicksPositive
      <4>2. QED
        BY <2>4, <3>2, <4>1 DEF EngagementExpired
    <3>4. TimelyFacts(s)
      BY <1>2, <3>3 DEF TimelyFacts, DueFacts
    <3>5. QED
      BY <3>1, <3>4 DEF MissionFacts
  <2>5. QED
    BY <2>2, <2>3, <2>4
<1>3. QED
  BY <1>1, <1>2

\* The rehearsed gap is no part of the mission.
LEMMA GapExercisedFacts ==
    ASSUME NEW s \in Session, MissionFacts(s)
    PROVE  MissionFacts(GapExercised(s))
<1> DEFINE u == [s EXCEPT !.gapExercised = TRUE]
<1>1. u \in Session /\ SameRecord(s, u)
  BY DEF Session, SameRecord, SameMission
<1>2. GapExercised(s) = IF s.tick = 2 /\ ~s.gapExercised
                        THEN PushEvent(u, "ResilienceTriggered") ELSE s
  BY DEF GapExercised
<1> HIDE DEF u
<1>3. MissionFacts(u)
  BY <1>1, SameRecordFacts
<1>4. MissionFacts(PushEvent(u, "ResilienceTriggered"))
  BY <1>1, <1>3, PushEventType, PushEventSame, SameRecordFacts DEF EventType
<1>5. QED
  BY <1>2, <1>4

\* advance_tick keeps the facts, whatever the geometry answers.
LEMMA AdvanceTickFacts ==
    ASSUME NEW s \in Session, NEW hit \in BOOLEAN, NEW inFov \in BOOLEAN, MissionFacts(s)
    PROVE  MissionFacts(AdvanceTick(s, hit, inFov))
<1>1. CASE s.phase = "Assessed"
  <2> DEFINE u == [s EXCEPT !.tick = @ + 1]
  <2>1. s.tick + 1 \in Nat
    BY DEF Session
  <2>2. u \in Session
    BY <2>1 DEF Session
  <2>3. /\ u.phase = "Assessed" /\ u.targetActive = s.targetActive
        /\ u.assetActive = s.assetActive /\ u.track = s.track /\ u.seekerLock = s.seekerLock
        /\ u.interceptor = s.interceptor /\ u.order = s.order /\ u.ready = s.ready
        /\ u.code = s.code /\ u.started = s.started /\ u.log = s.log
    BY <1>1 DEF Session
  <2>4. AdvanceTick(s, hit, inFov) = ArchiveSession(u)
    BY <1>1 DEF AdvanceTick
  <2> HIDE DEF u
  <2>5. PhaseFacts(u)
    BY <1>1, <2>3 DEF MissionFacts, PhaseFacts
  <2>6. TimelyFacts(u) /\ SeekerFacts(u) /\ ProfileFacts(u)
    BY <1>1, <2>3 DEF MissionFacts, TimelyFacts, SeekerFacts, ProfileFacts
  <2>7. QED
    BY <2>2, <2>4, <2>5, <2>6, ArchiveSessionFacts DEF MissionFacts
<1>2. CASE s.phase # "Assessed"
  <2> DEFINE l == Launched(s)
             k == SeekerUpdated(l, inFov)
             a == Assessed(k, hit)
             g == GapExercised(a)
  <2>1. l \in Session /\ PhaseFacts(l) /\ DueFacts(l) /\ ProfileFacts(l)
    BY <1>2, LaunchedType, LaunchedFacts
  <2>2. AdvanceTick(s, hit, inFov) = RecordSnapshot(g)
    BY <1>2 DEF AdvanceTick
  <2> HIDE DEF l
  <2>3. k \in Session /\ PhaseFacts(k) /\ DueFacts(k) /\ SeekerFacts(k) /\ ProfileFacts(k)
    BY <2>1, SeekerUpdatedType, SeekerUpdatedFacts
  <2> HIDE DEF k
  <2>4. a \in Session /\ MissionFacts(a)
    BY <2>3, AssessedType, AssessedFacts
  <2> HIDE DEF a
  <2>5. g \in Session /\ MissionFacts(g)
    BY <2>4, GapExercisedType, GapExercisedFacts
  <2> HIDE DEF g
  <2>6. QED
    BY <2>2, <2>5, RecordSnapshotType, RecordSnapshotSame, SameRecordFacts
<1>3. QED
  BY <1>1, <1>2

--------------------------------------------------------------------------------
(****************************************************************************)
(* Steadiness: what a transport relies on when it calls the session.  An    *)
(* operation takes no event back, numbers its snapshots on and lets nobody  *)
(* come or go, unless it is the reset or an operation on a client, and then *)
(* it does exactly that.                                                    *)
(****************************************************************************)

\* Who was there is there, and who had left has left.
SamePresence(c, d) ==
    (d \in Present) = (c \in Present) /\ (d = "Disconnected") = (c = "Disconnected")

\* From s to t no event is taken back, snapshots are numbered on, and nobody
\* comes or goes.
Steady(s, t) ==
    /\ s.log.size <= t.log.size
    /\ t.sequence - t.snapshots = s.sequence - s.snapshots
    /\ \A r \in ClientRole : SamePresence(s.connection[r], t.connection[r])

\* Two steady changes are one.
LEMMA SteadyTransitive ==
    ASSUME NEW a \in Session, NEW b \in Session, NEW c \in Session, Steady(a, b), Steady(b, c)
    PROVE  Steady(a, c)
BY DEF Steady, SamePresence, Session, EventLog

\* A change of other fields is steady.
LEMMA OtherFieldsSteady ==
    ASSUME NEW a \in Session, NEW b \in Session, b.log = a.log, b.connection = a.connection,
           b.sequence = a.sequence, b.snapshots = a.snapshots
    PROVE  Steady(a, b)
BY DEF Steady, SamePresence, Session, EventLog

\* push_event is steady, with and without a track profile.
LEMMA PushEventSteady ==
    ASSUME NEW s \in Session, NEW type \in EventType, NEW tracked \in BOOLEAN
    PROVE  Steady(s, PushEvent(s, type)) /\ Steady(s, PushTrackEvent(s, type, tracked))
<1>1. /\ PushEvent(s, type).log = Logged(s.log, type)
      /\ PushEvent(s, type).connection = s.connection
      /\ PushEvent(s, type).sequence = s.sequence
      /\ PushEvent(s, type).snapshots = s.snapshots
  BY DEF PushEvent, Session
<1>2. /\ PushTrackEvent(s, type, tracked).log =
            [Logged(s.log, type) EXCEPT !.profile = IF tracked THEN "Tracked" ELSE "Untracked"]
      /\ PushTrackEvent(s, type, tracked).connection = s.connection
      /\ PushTrackEvent(s, type, tracked).sequence = s.sequence
      /\ PushTrackEvent(s, type, tracked).snapshots = s.snapshots
  BY DEF PushTrackEvent, Session
<1>3. s.log.size \in Nat /\ Logged(s.log, type) \in EventLog
      /\ Logged(s.log, type).size = s.log.size + 1
  BY LoggedType DEF Logged, Session, EventLog
<1>4. [Logged(s.log, type) EXCEPT !.profile = IF tracked THEN "Tracked" ELSE "Untracked"].size
        = s.log.size + 1
  BY <1>3 DEF EventLog
<1>5. QED
  BY <1>1, <1>2, <1>3, <1>4 DEF Steady, SamePresence

\* record_snapshot is steady: it numbers and lists one more.
LEMMA RecordSnapshotSteady ==
    ASSUME NEW s \in Session
    PROVE  Steady(s, RecordSnapshot(s))
<1>1. /\ RecordSnapshot(s).log = s.log
      /\ RecordSnapshot(s).sequence = s.sequence + 1
      /\ RecordSnapshot(s).snapshots = s.snapshots + 1
  BY DEF RecordSnapshot, Session
<1>2. RecordSnapshot(s).connection = [s.connection EXCEPT !["TacticalDisplay"] = Settled(@)]
  BY DEF RecordSnapshot, Session
<1>3. \A r \in ClientRole :
         SamePresence(s.connection[r], RecordSnapshot(s).connection[r])
  BY <1>2 DEF Session, ClientRole, Settled, Present, SamePresence
<1>4. s.log.size <= s.log.size /\ s.sequence \in Nat /\ s.snapshots \in Nat
  BY DEF Session, EventLog
<1>5. QED
  BY <1>1, <1>3, <1>4 DEF Steady

\* A command that changes other fields, logs and publishes is steady.
LEMMA PublishSteady ==
    ASSUME NEW s \in Session, NEW u \in Session, Steady(s, u), NEW type \in EventType,
           NEW tracked \in BOOLEAN
    PROVE  /\ Steady(s, RecordSnapshot(PushEvent(u, type)))
           /\ Steady(s, RecordSnapshot(PushTrackEvent(u, type, tracked)))
<1>1. PushEvent(u, type) \in Session /\ PushTrackEvent(u, type, tracked) \in Session
  BY PushEventType, PushTrackEventType
<1>2. Steady(s, PushEvent(u, type)) /\ Steady(s, PushTrackEvent(u, type, tracked))
  BY <1>1, PushEventSteady, SteadyTransitive
<1>3. QED
  BY <1>1, <1>2, RecordSnapshotSteady, RecordSnapshotType, SteadyTransitive

\* reject_command and record_transport_rejection are steady.
LEMMA RejectionsSteady ==
    ASSUME NEW s \in Session
    PROVE  Steady(s, RejectCommand(s)) /\ Steady(s, RecordTransportRejection(s))
<1> DEFINE logged == PushEvent(s, "EngageOrderRejected")
<1>1. logged \in Session /\ Steady(s, logged)
  BY PushEventType, PushEventSteady DEF EventType
<1>2. Steady(s, RecordTransportRejection(s))
  BY <1>1 DEF RecordTransportRejection
<1> HIDE DEF logged
<1> DEFINE refused == [logged EXCEPT !.order = "Rejected", !.code = "InvalidTransition"]
<1>3. refused \in Session
  BY <1>1 DEF Session, EngageOrderStatus, AssessmentCode
<1>4. /\ refused.log = logged.log /\ refused.connection = logged.connection
      /\ refused.sequence = logged.sequence /\ refused.snapshots = logged.snapshots
  BY <1>1 DEF Session
<1> HIDE DEF refused
<1>5. Steady(s, refused)
  BY <1>1, <1>3, <1>4, OtherFieldsSteady, SteadyTransitive
<1>6. RejectCommand(s) = IF s.ready THEN logged ELSE refused
  BY DEF RejectCommand, logged, refused
<1>7. QED
  BY <1>1, <1>2, <1>5, <1>6

\* start_scenario is steady.
LEMMA StartScenarioSteady ==
    ASSUME NEW s \in Session
    PROVE  Steady(s, StartScenario(s))
<1> DEFINE u == [s EXCEPT !.phase = "Detecting", !.targetActive = TRUE,
                          !.track = ClearedTrack, !.interceptor = "Idle",
                          !.order = "None", !.ready = FALSE, !.code = "Pending"]
<1>1. u \in Session
  BY TrackConstantsType
  DEF Session, SessionPhase, InterceptorStatus, EngageOrderStatus, AssessmentCode
<1>2. /\ u.log = s.log /\ u.connection = s.connection
      /\ u.sequence = s.sequence /\ u.snapshots = s.snapshots
  BY DEF Session
<1>3. StartScenario(s) \in {RejectCommand(s), RecordSnapshot(PushEvent(u, "SessionStarted"))}
  BY DEF StartScenario
<1> HIDE DEF u
<1>4. Steady(s, u)
  BY <1>1, <1>2, OtherFieldsSteady
<1>5. Steady(s, RecordSnapshot(PushEvent(u, "SessionStarted")))
  BY <1>1, <1>4, PublishSteady DEF EventType
<1>6. QED
  BY <1>3, <1>5, RejectionsSteady

\* configure_scenario is steady.
LEMMA ConfigureScenarioSteady ==
    ASSUME NEW s \in Session, NEW t \in EngagementTimeouts
    PROVE  Steady(s, ConfigureScenario(s, t))
<1> DEFINE w == ResetWorld(s)
<1>1. w \in Session
  BY ResetWorldType
<1>2. /\ w.log = s.log /\ w.connection = s.connection
      /\ w.sequence = s.sequence /\ w.snapshots = s.snapshots
  BY DEF ResetWorld, Session
<1> HIDE DEF w
<1> DEFINE c == [w EXCEPT !.timeoutTicks = t]
<1>3. /\ c.log = s.log /\ c.connection = s.connection
      /\ c.sequence = s.sequence /\ c.snapshots = s.snapshots
  BY <1>1, <1>2 DEF Session
<1>4. c = ConfigureScenario(s, t)
  BY DEF ConfigureScenario, c, w
<1> HIDE DEF c
<1>5. QED
  BY <1>3, <1>4, ConfigureScenarioType, OtherFieldsSteady

\* request_track and release_track are steady.
LEMMA TrackCommandsSteady ==
    ASSUME NEW s \in Session
    PROVE  Steady(s, RequestTrack(s)) /\ Steady(s, ReleaseTrack(s))
<1>1. ASSUME NEW p \in SessionPhase, NEW t \in TrackState, NEW tracked \in BOOLEAN
      PROVE  Steady(s, RecordSnapshot(PushTrackEvent([s EXCEPT !.track = t, !.phase = p],
                                                     "TrackUpdated", tracked)))
  <2> DEFINE u == [s EXCEPT !.track = t, !.phase = p]
  <2>1. u \in Session
    BY DEF Session
  <2>2. /\ u.log = s.log /\ u.connection = s.connection
        /\ u.sequence = s.sequence /\ u.snapshots = s.snapshots
    BY DEF Session
  <2> HIDE DEF u
  <2>3. "TrackUpdated" \in EventType
    BY DEF EventType
  <2>4. Steady(s, RecordSnapshot(PushTrackEvent(u, "TrackUpdated", tracked)))
    BY <2>1, <2>2, <2>3, OtherFieldsSteady, PublishSteady
  <2>5. QED
    BY <2>4 DEF u
<1>2. /\ (IF s.phase = "Detecting" THEN "Tracking" ELSE s.phase) \in SessionPhase
      /\ (IF s.phase = "Tracking" THEN "Detecting" ELSE s.phase) \in SessionPhase
  BY DEF Session, SessionPhase
<1>3. Steady(s, RequestTrack(s))
  BY <1>1, <1>2, TrackConstantsType, RejectionsSteady DEF RequestTrack
<1>4. Steady(s, ReleaseTrack(s))
  BY <1>1, <1>2, TrackConstantsType, RejectionsSteady DEF ReleaseTrack
<1>5. QED
  BY <1>3, <1>4

\* activate_asset, issue_command and archive_session are steady.
LEMMA CommandsSteady ==
    ASSUME NEW s \in Session
    PROVE  /\ Steady(s, ActivateAsset(s)) /\ Steady(s, IssueCommand(s))
           /\ Steady(s, ArchiveSession(s))
<1>1. Steady(s, ActivateAsset(s))
  <2> DEFINE u == [s EXCEPT !.interceptor = "Ready", !.assetActive = TRUE,
                            !.phase = "InterceptorReady"]
  <2>1. u \in Session
    BY DEF Session, InterceptorStatus, SessionPhase
  <2>2. /\ u.log = s.log /\ u.connection = s.connection
        /\ u.sequence = s.sequence /\ u.snapshots = s.snapshots
    BY DEF Session
  <2>3. ActivateAsset(s) \in {RejectCommand(s), RecordSnapshot(PushEvent(u, "InterceptorUpdated"))}
    BY DEF ActivateAsset
  <2> HIDE DEF u
  <2>4. Steady(s, RecordSnapshot(PushEvent(u, "InterceptorUpdated")))
    BY <2>1, <2>2, OtherFieldsSteady, PublishSteady DEF EventType
  <2>5. QED
    BY <2>3, <2>4, RejectionsSteady
<1>2. Steady(s, IssueCommand(s))
  <2> DEFINE u == [s EXCEPT !.order = "Accepted", !.phase = "EngageOrdered", !.started = s.tick]
  <2>1. u \in Session
    BY DEF Session, EngageOrderStatus, SessionPhase
  <2>2. /\ u.log = s.log /\ u.connection = s.connection
        /\ u.sequence = s.sequence /\ u.snapshots = s.snapshots
    BY DEF Session
  <2>3. IssueCommand(s) \in {RejectCommand(s),
           RecordSnapshot(PushTrackEvent(u, "EngageOrderAccepted", s.track.active))}
    BY DEF IssueCommand
  <2> HIDE DEF u
  <2>4. s.track.active \in BOOLEAN /\ "EngageOrderAccepted" \in EventType
    BY DEF Session, TrackState, EventType
  <2>5. Steady(s, RecordSnapshot(PushTrackEvent(u, "EngageOrderAccepted", s.track.active)))
    BY <2>1, <2>2, <2>4, OtherFieldsSteady, PublishSteady
  <2>6. QED
    BY <2>3, <2>5, RejectionsSteady
<1>3. Steady(s, ArchiveSession(s))
  <2> DEFINE u == [s EXCEPT !.phase = "Archived"]
  <2>1. u \in Session
    BY DEF Session, SessionPhase
  <2>2. /\ u.log = s.log /\ u.connection = s.connection
        /\ u.sequence = s.sequence /\ u.snapshots = s.snapshots
    BY DEF Session
  <2>3. ArchiveSession(s) \in {s, RecordSnapshot(PushEvent(u, "SessionEnded"))}
    BY DEF ArchiveSession
  <2> HIDE DEF u
  <2>4. Steady(s, RecordSnapshot(PushEvent(u, "SessionEnded")))
    BY <2>1, <2>2, OtherFieldsSteady, PublishSteady DEF EventType
  <2>5. Steady(s, s)
    BY OtherFieldsSteady
  <2>6. QED
    BY <2>3, <2>4, <2>5
<1>4. QED
  BY <1>1, <1>2, <1>3
\* A verdict is an event and status fields.
LEMMA VerdictSteady ==
    ASSUME NEW s \in Session, NEW code \in AssessmentCode
    PROVE  Steady(s, Verdict(s, code))
<1> DEFINE u == [s EXCEPT !.ready = TRUE, !.code = code, !.phase = "Assessed",
                          !.interceptor = "Complete", !.order = "Completed", !.started = NoTick]
<1>1. u \in Session
  BY DEF Session, SessionPhase, InterceptorStatus, EngageOrderStatus
<1>2. /\ u.log = s.log /\ u.connection = s.connection
      /\ u.sequence = s.sequence /\ u.snapshots = s.snapshots
  BY DEF Session
<1>3. Verdict(s, code) = PushEvent(u, "AssessmentProduced")
  BY DEF Verdict
<1> HIDE DEF u
<1>4. PushEvent(u, "AssessmentProduced") \in Session /\ Steady(u, PushEvent(u, "AssessmentProduced"))
  BY <1>1, PushEventType, PushEventSteady DEF EventType
<1>5. QED
  BY <1>1, <1>2, <1>3, <1>4, OtherFieldsSteady, SteadyTransitive

\* The parts of advance_tick are steady.
LEMMA TickPartsSteady ==
    ASSUME NEW s \in Session, NEW hit \in BOOLEAN, NEW inFov \in BOOLEAN
    PROVE  /\ Steady(s, Launched(s)) /\ Steady(s, SeekerUpdated(s, inFov))
           /\ Steady(s, Assessed(s, hit)) /\ Steady(s, GapExercised(s))
<1>1. Steady(s, Launched(s))
  <2>1. /\ Launched(s).log = s.log /\ Launched(s).connection = s.connection
        /\ Launched(s).sequence = s.sequence /\ Launched(s).snapshots = s.snapshots
    BY DEF Launched, Session
  <2>2. QED
    BY <2>1, LaunchedType, OtherFieldsSteady
<1>2. Steady(s, SeekerUpdated(s, inFov))
  <2> DEFINE u == SeekerUpdated(s, inFov)
  <2>1. /\ u.log = s.log /\ u.connection = s.connection
        /\ u.sequence = s.sequence /\ u.snapshots = s.snapshots
    BY DEF SeekerUpdated, Session
  <2>2. QED
    BY <2>1, SeekerUpdatedType, OtherFieldsSteady
<1>3. Steady(s, Assessed(s, hit))
  <2> DEFINE u == [s EXCEPT !.targetActive = FALSE, !.track.active = FALSE, !.seekerLock = FALSE]
  <2>1. [s.track EXCEPT !.active = FALSE] \in TrackState
    BY DEF Session, TrackState
  <2>2. u \in Session
    BY <2>1 DEF Session
  <2>3. /\ u.log = s.log /\ u.connection = s.connection
        /\ u.sequence = s.sequence /\ u.snapshots = s.snapshots
    BY DEF Session
  <2>4. Assessed(s, hit) \in {s, Verdict(u, "InterceptSuccess"), Verdict(s, "TimeoutObserved")}
    BY DEF Assessed
  <2> HIDE DEF u
  <2>5. "InterceptSuccess" \in AssessmentCode /\ "TimeoutObserved" \in AssessmentCode
    BY DEF AssessmentCode
  <2>6. Steady(s, Verdict(u, "InterceptSuccess"))
    BY <2>2, <2>3, <2>5, VerdictType, VerdictSteady, OtherFieldsSteady, SteadyTransitive
  <2>7. Steady(s, s) /\ Steady(s, Verdict(s, "TimeoutObserved"))
    BY <2>5, VerdictSteady, OtherFieldsSteady
  <2>8. QED
    BY <2>4, <2>6, <2>7
<1>4. Steady(s, GapExercised(s))
  <2> DEFINE u == [s EXCEPT !.gapExercised = TRUE]
  <2>1. u \in Session
    BY DEF Session
  <2>2. /\ u.log = s.log /\ u.connection = s.connection
        /\ u.sequence = s.sequence /\ u.snapshots = s.snapshots
    BY DEF Session
  <2>3. GapExercised(s) \in {s, PushEvent(u, "ResilienceTriggered")}
    BY DEF GapExercised
  <2> HIDE DEF u
  <2>4. /\ PushEvent(u, "ResilienceTriggered") \in Session
        /\ Steady(u, PushEvent(u, "ResilienceTriggered"))
    BY <2>1, PushEventType, PushEventSteady DEF EventType
  <2>5. Steady(s, PushEvent(u, "ResilienceTriggered")) /\ Steady(s, s)
    BY <2>1, <2>2, <2>4, OtherFieldsSteady, SteadyTransitive
  <2>6. QED
    BY <2>3, <2>5
<1>5. QED
  BY <1>1, <1>2, <1>3, <1>4

\* advance_tick is steady.
LEMMA AdvanceTickSteady ==
    ASSUME NEW s \in Session, NEW hit \in BOOLEAN, NEW inFov \in BOOLEAN
    PROVE  Steady(s, AdvanceTick(s, hit, inFov))
<1>1. CASE s.phase = "Assessed"
  <2> DEFINE u == [s EXCEPT !.tick = @ + 1]
  <2>1. s.tick + 1 \in Nat
    BY DEF Session
  <2>2. u \in Session
    BY <2>1 DEF Session
  <2>3. /\ u.log = s.log /\ u.connection = s.connection
        /\ u.sequence = s.sequence /\ u.snapshots = s.snapshots
    BY DEF Session
  <2>4. AdvanceTick(s, hit, inFov) = ArchiveSession(u)
    BY <1>1 DEF AdvanceTick
  <2> HIDE DEF u
  <2>5. QED
    BY <2>2, <2>3, <2>4, ArchiveSessionType, CommandsSteady, OtherFieldsSteady, SteadyTransitive
<1>2. CASE s.phase # "Assessed"
  <2> DEFINE l == Launched(s)
             k == SeekerUpdated(l, inFov)
             a == Assessed(k, hit)
             g == GapExercised(a)
  <2>1. l \in Session /\ Steady(s, l)
    BY LaunchedType, TickPartsSteady
  <2> HIDE DEF l
  <2>2. k \in Session /\ Steady(l, k)
    BY <2>1, SeekerUpdatedType, TickPartsSteady
  <2> HIDE DEF k
  <2>3. a \in Session /\ Steady(k, a)
    BY <2>2, AssessedType, TickPartsSteady
  <2> HIDE DEF a
  <2>4. g \in Session /\ Steady(a, g)
    BY <2>3, GapExercisedType, TickPartsSteady
  <2> HIDE DEF g
  <2>5. RecordSnapshot(g) \in Session /\ Steady(g, RecordSnapshot(g))
    BY <2>4, RecordSnapshotType, RecordSnapshotSteady
  <2>6. AdvanceTick(s, hit, inFov) = RecordSnapshot(g)
    BY <1>2 DEF AdvanceTick, l, k, a, g
  <2>7. Steady(s, k) /\ Steady(k, g)
    BY <2>1, <2>2, <2>3, <2>4, SteadyTransitive
  <2>8. Steady(s, g)
    BY <2>2, <2>4, <2>7, SteadyTransitive
  <2>9. QED
    BY <2>4, <2>5, <2>6, <2>8, SteadyTransitive
<1>3. QED
  BY <1>1, <1>2

\* reset_session keeps the clients that are there, lists one snapshot and goes
\* on with the numbering; it is the one operation that takes events back.
LEMMA ResetSessionPresence ==
    ASSUME NEW s \in Session
    PROVE  /\ ResetSession(s).snapshots = 1 /\ ResetSession(s).sequence = s.sequence + 1
           /\ \A r \in ClientRole : SamePresence(s.connection[r], ResetSession(s).connection[r])
<1> DEFINE w == ResetWorld(s)
<1>1. w \in Session /\ w.sequence = s.sequence
  BY ResetWorldType DEF ResetWorld, Session
<1> HIDE DEF w
<1> DEFINE settled == [r \in ClientRole |-> Settled(s.connection[r])]
<1>2. settled \in [ClientRole -> ConnectionState]
  BY DEF Session, Settled, ConnectionState, ClientRole
<1>3. \A r \in ClientRole : SamePresence(s.connection[r], settled[r])
  BY DEF Settled, Present, SamePresence
<1> HIDE DEF settled
<1> DEFINE u == [w EXCEPT !.tick = 0, !.phase = "Standby",
                          !.reconnectExercised = FALSE, !.timeoutExercised = FALSE,
                          !.gapExercised = FALSE,
                          !.log = EmptyLog, !.snapshots = 0, !.latest = NoSnapshot,
                          !.connection = settled]
<1>4. u.sequence = s.sequence /\ u.snapshots = 0 /\ u.connection = settled
  BY <1>1 DEF Session
<1>5. EmptyLog \in EventLog
  BY DEF EmptyLog, EventLog, TrackProfile
<1>6. NoSnapshot \in Snapshot
  BY TrackConstantsType
  DEF NoSnapshot, Snapshot, SessionPhase, InterceptorStatus, EngageOrderStatus,
      AssessmentCode, ConnectionState
<1>7. u \in Session
  BY <1>1, <1>2, <1>5, <1>6 DEF Session, SessionPhase
<1>8. ResetSession(s) = RecordSnapshot(u)
  BY DEF ResetSession, u, w, settled
<1> HIDE DEF u
<1>9. /\ RecordSnapshot(u).snapshots = 1 /\ RecordSnapshot(u).sequence = s.sequence + 1
  BY <1>4, <1>7 DEF RecordSnapshot, Session
<1>10. \A r \in ClientRole :
          SamePresence(u.connection[r], RecordSnapshot(u).connection[r])
  BY <1>7, RecordSnapshotSteady DEF Steady
<1>11. QED
  BY <1>3, <1>4, <1>8, <1>9, <1>10 DEF SamePresence

\* What the operations on clients do to the other client, the log and the list.
\* there(r) stands for the presence of r afterwards.
Arrives(s, t, role, there) ==
    /\ s.log.size <= t.log.size
    /\ t.sequence - t.snapshots = s.sequence - s.snapshots
    /\ (t.connection[role] \in Present) = there
    /\ \A r \in ClientRole \ {role} : SamePresence(s.connection[r], t.connection[r])

\* A steady change after an arrival or departure.
LEMMA ArrivesSteady ==
    ASSUME NEW a \in Session, NEW b \in Session, NEW c \in Session, NEW role \in ClientRole,
           NEW there \in BOOLEAN, Arrives(a, b, role, there), Steady(b, c)
    PROVE  Arrives(a, c, role, there)
BY DEF Arrives, Steady, SamePresence, Session, EventLog

\* connect_client brings its client, disconnect_client and timeout_client take it away.
LEMMA ClientsArrive ==
    ASSUME NEW s \in Session, NEW role \in ClientRole
    PROVE  /\ Arrives(s, ConnectClient(s, role), role, TRUE)
           /\ Arrives(s, DisconnectClient(s, role), role, FALSE)
           /\ Arrives(s, TimeoutClient(s, role), role, FALSE)
           /\ TimeoutClient(s, role).connection[role] # "Disconnected"
<1>0. s.log.size \in Nat /\ s.sequence \in Nat /\ s.snapshots \in Nat
      /\ s.connection \in [ClientRole -> ConnectionState]
  BY DEF Session, EventLog
<1>1. ASSUME NEW u \in Session, NEW state \in ConnectionState, NEW there \in BOOLEAN,
             (state \in Present) = there,
             u.log = s.log, u.sequence = s.sequence, u.snapshots = s.snapshots,
             u.connection = [s.connection EXCEPT ![role] = state]
      PROVE  Arrives(s, u, role, there)
  BY <1>0, <1>1 DEF Arrives, SamePresence
<1>2. Arrives(s, ConnectClient(s, role), role, TRUE)
  <2> DEFINE known == s.joined[role]
             state == IF known THEN "Reconnected" ELSE "Connected"
             placed == [s EXCEPT !.joined[role] = TRUE, !.connection[role] = state,
                                 !.reconnectExercised = @ \/ known]
  <2>1. state \in ConnectionState /\ state \in Present
    BY DEF ConnectionState, Present
  <2>2. /\ [s.connection EXCEPT ![role] = state] \in [ClientRole -> ConnectionState]
        /\ [s.joined EXCEPT ![role] = TRUE] \in [ClientRole -> BOOLEAN]
        /\ (s.reconnectExercised \/ known) \in BOOLEAN
    BY <2>1 DEF Session
  <2>3. placed \in Session
    BY <2>2 DEF Session
  <2>4. /\ placed.log = s.log /\ placed.sequence = s.sequence /\ placed.snapshots = s.snapshots
        /\ placed.connection = [s.connection EXCEPT ![role] = state]
    BY DEF Session
  <2>5. ConnectClient(s, role) \in
           {PushEvent(PushEvent(placed, "ClientReconnected"), "ResilienceTriggered"),
            PushEvent(placed, "ClientJoined")}
    BY DEF ConnectClient
  <2> HIDE DEF placed, state
  <2>6. Arrives(s, placed, role, TRUE)
    BY <1>1, <2>1, <2>3, <2>4
  <2>7. /\ PushEvent(placed, "ClientJoined") \in Session
        /\ Steady(placed, PushEvent(placed, "ClientJoined"))
        /\ PushEvent(placed, "ClientReconnected") \in Session
        /\ Steady(placed, PushEvent(placed, "ClientReconnected"))
    BY <2>3, PushEventType, PushEventSteady DEF EventType
  <2>8. LET p == PushEvent(placed, "ClientReconnected")
        IN  /\ PushEvent(p, "ResilienceTriggered") \in Session
            /\ Steady(p, PushEvent(p, "ResilienceTriggered"))
    BY <2>7, PushEventType, PushEventSteady DEF EventType
  <2>9. QED
    BY <2>3, <2>5, <2>6, <2>7, <2>8, ArrivesSteady
<1>3. Arrives(s, DisconnectClient(s, role), role, FALSE)
  <2> DEFINE u == [s EXCEPT !.connection[role] = "Disconnected"]
  <2>1. [s.connection EXCEPT ![role] = "Disconnected"] \in [ClientRole -> ConnectionState]
    BY <1>0 DEF ConnectionState
  <2>2. u \in Session
    BY <2>1 DEF Session
  <2>3. /\ u.log = s.log /\ u.sequence = s.sequence /\ u.snapshots = s.snapshots
        /\ u.connection = [s.connection EXCEPT ![role] = "Disconnected"]
    BY DEF Session
  <2>4. DisconnectClient(s, role) = PushEvent(u, "ClientLeft")
    BY DEF DisconnectClient
  <2> HIDE DEF u
  <2>5. Arrives(s, u, role, FALSE)
    <3>1. "Disconnected" \in ConnectionState /\ ("Disconnected" \in Present) = FALSE
      BY DEF ConnectionState, Present
    <3>2. QED
      BY <1>1, <2>2, <2>3, <3>1
  <2>6. PushEvent(u, "ClientLeft") \in Session /\ Steady(u, PushEvent(u, "ClientLeft"))
    BY <2>2, PushEventType, PushEventSteady DEF EventType
  <2>7. QED
    BY <2>2, <2>4, <2>5, <2>6, ArrivesSteady
<1>4. /\ Arrives(s, TimeoutClient(s, role), role, FALSE)
      /\ TimeoutClient(s, role).connection[role] # "Disconnected"
  <2> DEFINE u == [s EXCEPT !.connection[role] = "TimedOut", !.timeoutExercised = TRUE]
  <2>1. [s.connection EXCEPT ![role] = "TimedOut"] \in [ClientRole -> ConnectionState]
    BY <1>0 DEF ConnectionState
  <2>2. u \in Session
    BY <2>1 DEF Session
  <2>3. /\ u.log = s.log /\ u.sequence = s.sequence /\ u.snapshots = s.snapshots
        /\ u.connection = [s.connection EXCEPT ![role] = "TimedOut"]
    BY DEF Session
  <2>4. TimeoutClient(s, role) = RecordSnapshot(PushEvent(u, "ResilienceTriggered"))
    BY DEF TimeoutClient
  <2> HIDE DEF u
  <2>5. Arrives(s, u, role, FALSE)
    <3>1. "TimedOut" \in ConnectionState /\ ("TimedOut" \in Present) = FALSE
      BY DEF ConnectionState, Present
    <3>2. QED
      BY <1>1, <2>2, <2>3, <3>1
  <2>6. Steady(u, u)
    BY <2>2, OtherFieldsSteady
  <2>7. Steady(u, RecordSnapshot(PushEvent(u, "ResilienceTriggered")))
    BY <2>2, <2>6, PublishSteady DEF EventType
  <2>8. RecordSnapshot(PushEvent(u, "ResilienceTriggered")) \in Session
    BY <2>2, PushEventType, RecordSnapshotType DEF EventType
  <2>9. u.connection[role] = "TimedOut"
    BY <1>0, <2>3
  <2>10. QED
    BY <2>2, <2>4, <2>5, <2>7, <2>8, <2>9, ArrivesSteady, ZenonT(40) DEF Steady, SamePresence
<1>5. QED
  BY <1>2, <1>3, <1>4


--------------------------------------------------------------------------------
(****************************************************************************)
(* Publishing: an operation lists at most one snapshot, and operations on   *)
(* clients that join or leave list none.                                    *)
(****************************************************************************)

\* From s to t the list of snapshots has grown by at most one.
ListsAtMostOne(s, t) == t.snapshots \in {s.snapshots, s.snapshots + 1}

\* What only logs, or moves only clients, lists nothing.
LEMMA NothingListed ==
    ASSUME NEW s \in Session, NEW role \in ClientRole, NEW type, NEW tracked, NEW t
    PROVE  /\ PushEvent(s, type).snapshots = s.snapshots
           /\ PushTrackEvent(s, type, tracked).snapshots = s.snapshots
           /\ RejectCommand(s).snapshots = s.snapshots
           /\ RecordTransportRejection(s).snapshots = s.snapshots
           /\ ConfigureScenario(s, t).snapshots = s.snapshots
           /\ ConnectClient(s, role).snapshots = s.snapshots
           /\ DisconnectClient(s, role).snapshots = s.snapshots
<1>1. /\ PushEvent(s, type).snapshots = s.snapshots
      /\ PushTrackEvent(s, type, tracked).snapshots = s.snapshots
      /\ RecordTransportRejection(s).snapshots = s.snapshots
  BY DEF PushEvent, PushTrackEvent, RecordTransportRejection, Session
<1>2. RejectCommand(s).snapshots = s.snapshots
  BY DEF RejectCommand, PushEvent, Session
<1>3. ConfigureScenario(s, t).snapshots = s.snapshots
  BY DEF ConfigureScenario, ResetWorld, Session
<1>4. ConnectClient(s, role).snapshots = s.snapshots
  BY DEF ConnectClient, PushEvent, Session
<1>5. DisconnectClient(s, role).snapshots = s.snapshots
  BY DEF DisconnectClient, PushEvent, Session
<1>6. QED
  BY <1>1, <1>2, <1>3, <1>4, <1>5

\* A command lists one snapshot or none.
LEMMA CommandsListOne ==
    ASSUME NEW s \in Session
    PROVE  /\ ListsAtMostOne(s, StartScenario(s))
           /\ ListsAtMostOne(s, RequestTrack(s)) /\ ListsAtMostOne(s, ReleaseTrack(s))
           /\ ListsAtMostOne(s, ActivateAsset(s)) /\ ListsAtMostOne(s, IssueCommand(s))
           /\ ListsAtMostOne(s, ArchiveSession(s))
<1>1. ListsAtMostOne(s, RejectCommand(s)) /\ ListsAtMostOne(s, s)
  BY DEF ListsAtMostOne, RejectCommand, PushEvent, Session
<1>2. ListsAtMostOne(s, StartScenario(s))
  BY <1>1 DEF ListsAtMostOne, StartScenario, RecordSnapshot, PushEvent, Session
<1>3. ListsAtMostOne(s, RequestTrack(s))
  BY <1>1 DEF ListsAtMostOne, RequestTrack, RecordSnapshot, PushTrackEvent, Session
<1>4. ListsAtMostOne(s, ReleaseTrack(s))
  BY <1>1 DEF ListsAtMostOne, ReleaseTrack, RecordSnapshot, PushTrackEvent, Session
<1>5. ListsAtMostOne(s, ActivateAsset(s))
  BY <1>1 DEF ListsAtMostOne, ActivateAsset, RecordSnapshot, PushEvent, Session
<1>6. ListsAtMostOne(s, IssueCommand(s))
  BY <1>1 DEF ListsAtMostOne, IssueCommand, RecordSnapshot, PushTrackEvent, Session
<1>7. ListsAtMostOne(s, ArchiveSession(s))
  BY <1>1 DEF ListsAtMostOne, ArchiveSession, RecordSnapshot, PushEvent, Session
<1>8. QED
  BY <1>2, <1>3, <1>4, <1>5, <1>6, <1>7

\* A tick lists one snapshot, whichever way it ends.
LEMMA TickListsOne ==
    ASSUME NEW s \in Session, NEW hit \in BOOLEAN, NEW inFov \in BOOLEAN
    PROVE  ListsAtMostOne(s, AdvanceTick(s, hit, inFov))
<1>1. CASE s.phase = "Assessed"
  BY <1>1 DEF ListsAtMostOne, AdvanceTick, ArchiveSession, RecordSnapshot, PushEvent, Session
<1>2. CASE s.phase # "Assessed"
  <2> DEFINE l == Launched(s)
             k == SeekerUpdated(l, inFov)
             a == Assessed(k, hit)
             g == GapExercised(a)
  <2>1. l \in Session /\ l.snapshots = s.snapshots
    <3>1. l.snapshots = s.snapshots
      BY DEF Launched, Session
    <3>2. QED
      BY <3>1, LaunchedType
  <2> HIDE DEF l
  <2>2. k \in Session /\ k.snapshots = s.snapshots
    <3>1. k.snapshots = l.snapshots
      BY <2>1 DEF SeekerUpdated, Session
    <3>2. QED
      BY <2>1, <3>1, SeekerUpdatedType
  <2> HIDE DEF k
  <2>3. a \in Session /\ a.snapshots = s.snapshots
    <3>1. a.snapshots = k.snapshots
      BY <2>2 DEF Assessed, Verdict, PushEvent, Session
    <3>2. QED
      BY <2>2, <3>1, AssessedType
  <2> HIDE DEF a
  <2>4. g \in Session /\ g.snapshots = s.snapshots
    <3>1. g.snapshots = a.snapshots
      BY <2>3 DEF GapExercised, PushEvent, Session
    <3>2. QED
      BY <2>3, <3>1, GapExercisedType
  <2> HIDE DEF g
  <2>5. RecordSnapshot(g).snapshots = s.snapshots + 1
    BY <2>4 DEF RecordSnapshot, Session
  <2>6. AdvanceTick(s, hit, inFov) = RecordSnapshot(g)
    BY <1>2 DEF AdvanceTick, l, k, a, g
  <2>7. QED
    BY <2>5, <2>6 DEF ListsAtMostOne
<1>3. QED
  BY <1>1, <1>2

--------------------------------------------------------------------------------
(****************************************************************************)
(* The picture.  Every method either leaves alone all that a snapshot must  *)
(* show, or ends in record_snapshot, which shows it under the next number.  *)
(****************************************************************************)

\* The picture is current, and a session in standby has nothing of a track:
\* configure_scenario, which publishes nothing, then changes nothing shown.
Drawn(s) == PictureFacts(s) /\ (s.phase = "Standby" => s.track = ClearedTrack)

\* What a snapshot must show stays as it is, and so does the last snapshot.
SamePicture(s, t) ==
    /\ t.latest = s.latest /\ t.sequence = s.sequence /\ t.snapshots = s.snapshots
    /\ t.phase = s.phase /\ t.tick = s.tick /\ t.track = s.track
    /\ t.interceptor = s.interceptor /\ t.ready = s.ready
    /\ s.ready => t.code = s.code /\ t.order = s.order

\* From s to u nothing was published, and standby is as it was.
Unpublished(s, u) ==
    /\ u.sequence = s.sequence /\ u.snapshots = s.snapshots
    /\ u.phase = "Standby" => s.phase = "Standby" /\ u.track = s.track

\* t is published, out of a session that came from s unpublished or by a reset.
Published(s, t) ==
    \E u \in Session :
       /\ t = RecordSnapshot(u)
       /\ \/ Unpublished(s, u)
          \/ u.sequence = s.sequence /\ u.snapshots = 0 /\ u.track = ClearedTrack

\* Snapshots are numbered upwards from s to t.
NumbersRise(s, t) ==
    t.sequence >= s.sequence /\ (t.latest # s.latest => t.latest.sequence > s.sequence)

\* What record_snapshot leaves in the fields the picture is about.
LEMMA RecordSnapshotFields ==
    ASSUME NEW u \in Session
    PROVE  LET t == RecordSnapshot(u)
           IN  /\ SameRecord(u, t)
               /\ t.sequence = u.sequence + 1 /\ t.snapshots = u.snapshots + 1
               /\ t.latest.sequence = u.sequence + 1
               /\ t.latest.phase = u.phase /\ t.latest.tick = u.tick
               /\ t.latest.track = u.track /\ t.latest.interceptor = u.interceptor
               /\ t.latest.ready = u.ready /\ t.latest.code = u.code
               /\ t.latest.order = u.order
<1>1. /\ RecordSnapshot(u).latest = SnapshotOf(u)
      /\ RecordSnapshot(u).sequence = u.sequence + 1
      /\ RecordSnapshot(u).snapshots = u.snapshots + 1
  BY DEF RecordSnapshot, Session
<1>2. /\ SnapshotOf(u).sequence = u.sequence + 1
      /\ SnapshotOf(u).phase = u.phase /\ SnapshotOf(u).tick = u.tick
      /\ SnapshotOf(u).track = u.track /\ SnapshotOf(u).interceptor = u.interceptor
      /\ SnapshotOf(u).ready = u.ready /\ SnapshotOf(u).code = u.code
      /\ SnapshotOf(u).order = u.order
  BY DEF SnapshotOf
<1>3. QED
  BY <1>1, <1>2, RecordSnapshotSame

\* A step of either kind keeps the picture current and its numbers rising.
LEMMA PictureStep ==
    ASSUME NEW s \in Session, NEW t \in Session, Drawn(s), SamePicture(s, t) \/ Published(s, t)
    PROVE  Drawn(t) /\ NumbersRise(s, t)
<1>1. s.sequence \in Nat /\ s.snapshots \in Nat /\ s.latest.sequence = s.sequence
      /\ s.snapshots <= s.sequence
  BY DEF Session, Drawn, PictureFacts
<1>2. CASE SamePicture(s, t)
  BY <1>1, <1>2 DEF SamePicture, Drawn, PictureFacts, NumbersRise
<1>3. CASE Published(s, t)
  <2>1. PICK u \in Session :
           /\ t = RecordSnapshot(u)
           /\ \/ Unpublished(s, u)
              \/ u.sequence = s.sequence /\ u.snapshots = 0 /\ u.track = ClearedTrack
    BY <1>3 DEF Published
  <2>2. /\ u.sequence = s.sequence /\ u.snapshots \in Nat /\ u.snapshots <= u.sequence
        /\ u.phase = "Standby" => u.track = ClearedTrack
    BY <1>1, <2>1 DEF Unpublished, Drawn, Session
  <2>3. /\ SameMission(u, t)
        /\ t.sequence = u.sequence + 1 /\ t.snapshots = u.snapshots + 1
        /\ t.latest.sequence = u.sequence + 1
        /\ t.latest.phase = u.phase /\ t.latest.tick = u.tick
        /\ t.latest.track = u.track /\ t.latest.interceptor = u.interceptor
        /\ t.latest.ready = u.ready /\ t.latest.code = u.code
        /\ t.latest.order = u.order
    BY <2>1, RecordSnapshotFields DEF SameRecord
  <2>4. t.snapshots # 0 /\ t.snapshots <= t.sequence /\ t.sequence > s.sequence
    BY <1>1, <2>2, <2>3
  <2>5. PictureFacts(t) /\ (t.phase = "Standby" => t.track = ClearedTrack)
    BY <2>2, <2>3, <2>4 DEF SameMission, PictureFacts
  <2>6. QED
    BY <1>1, <2>2, <2>3, <2>4, <2>5 DEF Drawn, NumbersRise
<1>4. QED
  BY <1>2, <1>3

\* push_event shows nothing.
LEMMA PushEventPicture ==
    ASSUME NEW s \in Session, NEW type \in EventType, NEW tracked \in BOOLEAN
    PROVE  /\ SamePicture(s, PushEvent(s, type))
           /\ SamePicture(s, PushTrackEvent(s, type, tracked))
BY DEF SamePicture, PushEvent, PushTrackEvent, Session

\* An event and a snapshot publish what came unpublished from s.
LEMMA PublishPicture ==
    ASSUME NEW s \in Session, NEW u \in Session, Unpublished(s, u), NEW type \in EventType,
           NEW tracked \in BOOLEAN
    PROVE  /\ Published(s, RecordSnapshot(PushEvent(u, type)))
           /\ Published(s, RecordSnapshot(PushTrackEvent(u, type, tracked)))
<1>1. PushEvent(u, type) \in Session /\ PushTrackEvent(u, type, tracked) \in Session
  BY PushEventType, PushTrackEventType
<1>2. /\ Unpublished(s, PushEvent(u, type))
      /\ Unpublished(s, PushTrackEvent(u, type, tracked))
  BY PushEventPicture DEF SamePicture, Unpublished
<1>3. QED
  BY <1>1, <1>2 DEF Published

\* A rejected command shows nothing: it spoils only an order without verdict.
LEMMA RejectionsPicture ==
    ASSUME NEW s \in Session
    PROVE  SamePicture(s, RejectCommand(s)) /\ SamePicture(s, RecordTransportRejection(s))
<1> DEFINE logged == PushEvent(s, "EngageOrderRejected")
<1>1. logged \in Session /\ SamePicture(s, logged)
  BY PushEventType, PushEventPicture DEF EventType
<1>2. SamePicture(s, RecordTransportRejection(s))
  BY <1>1 DEF RecordTransportRejection
<1>3. RejectCommand(s) = IF s.ready THEN logged
                         ELSE [logged EXCEPT !.order = "Rejected", !.code = "InvalidTransition"]
  BY DEF RejectCommand
<1> HIDE DEF logged
<1>4. s.ready \in BOOLEAN
  BY DEF Session
<1>5. CASE s.ready
  BY <1>1, <1>2, <1>3, <1>5
<1>6. CASE ~s.ready
  <2>1. SamePicture(s, [logged EXCEPT !.order = "Rejected", !.code = "InvalidTransition"])
    BY <1>1, <1>6 DEF SamePicture, Session
  <2>2. QED
    BY <1>2, <1>3, <1>6, <2>1
<1>7. QED
  BY <1>4, <1>5, <1>6

\* Clients come, go and time out: only the timeout publishes.
LEMMA ClientsPicture ==
    ASSUME NEW s \in Session, NEW role \in ClientRole
    PROVE  /\ SamePicture(s, ConnectClient(s, role))
           /\ SamePicture(s, DisconnectClient(s, role))
           /\ Published(s, TimeoutClient(s, role))
<1>1. \A state \in ConnectionState :
         [s.connection EXCEPT ![role] = state] \in [ClientRole -> ConnectionState]
  BY DEF Session
<1>2. SamePicture(s, ConnectClient(s, role))
  <2> DEFINE known  == s.joined[role]
             placed == [s EXCEPT !.joined[role] = TRUE,
                                 !.connection[role] = IF known THEN "Reconnected"
                                                      ELSE "Connected",
                                 !.reconnectExercised = @ \/ known]
             back   == PushEvent(placed, "ClientReconnected")
  <2>1. /\ [s.joined EXCEPT ![role] = TRUE] \in [ClientRole -> BOOLEAN]
        /\ (IF known THEN "Reconnected" ELSE "Connected") \in ConnectionState
        /\ (s.reconnectExercised \/ known) \in BOOLEAN
    BY DEF Session, ConnectionState
  <2>2. placed \in Session /\ SamePicture(s, placed)
    BY <1>1, <2>1 DEF Session, SamePicture
  <2>3. ConnectClient(s, role) \in {PushEvent(back, "ResilienceTriggered"),
                                    PushEvent(placed, "ClientJoined")}
    BY DEF ConnectClient
  <2> HIDE DEF placed
  <2>4. back \in Session /\ SamePicture(placed, back)
    BY <2>2, PushEventType, PushEventPicture DEF EventType
  <2>5. SamePicture(placed, PushEvent(placed, "ClientJoined"))
    BY <2>2, PushEventPicture DEF EventType
  <2> HIDE DEF back
  <2>6. SamePicture(back, PushEvent(back, "ResilienceTriggered"))
    BY <2>4, PushEventPicture DEF EventType
  <2>7. QED
    BY <2>2, <2>3, <2>4, <2>5, <2>6 DEF SamePicture
<1>3. SamePicture(s, DisconnectClient(s, role))
  <2> DEFINE gone == [s EXCEPT !.connection[role] = "Disconnected"]
  <2>1. gone \in Session /\ SamePicture(s, gone)
    BY <1>1 DEF Session, ConnectionState, SamePicture
  <2>2. DisconnectClient(s, role) = PushEvent(gone, "ClientLeft")
    BY DEF DisconnectClient
  <2> HIDE DEF gone
  <2>3. SamePicture(gone, PushEvent(gone, "ClientLeft"))
    BY <2>1, PushEventPicture DEF EventType
  <2>4. QED
    BY <2>1, <2>2, <2>3 DEF SamePicture
<1>4. Published(s, TimeoutClient(s, role))
  <2> DEFINE gone == [s EXCEPT !.connection[role] = "TimedOut", !.timeoutExercised = TRUE]
  <2>1. gone \in Session /\ Unpublished(s, gone)
    BY <1>1 DEF Session, ConnectionState, Unpublished
  <2>2. TimeoutClient(s, role) = RecordSnapshot(PushEvent(gone, "ResilienceTriggered"))
    BY DEF TimeoutClient
  <2> HIDE DEF gone
  <2>3. QED
    BY <2>1, <2>2, PublishPicture DEF EventType
<1>5. QED
  BY <1>2, <1>3, <1>4

\* start_scenario publishes the detection or rejects.
LEMMA StartScenarioPicture ==
    ASSUME NEW s \in Session
    PROVE  SamePicture(s, StartScenario(s)) \/ Published(s, StartScenario(s))
<1> DEFINE u == [s EXCEPT !.phase = "Detecting", !.targetActive = TRUE,
                          !.track = ClearedTrack, !.interceptor = "Idle",
                          !.order = "None", !.ready = FALSE, !.code = "Pending"]
<1>1. u \in Session
  BY TrackConstantsType
  DEF Session, SessionPhase, InterceptorStatus, EngageOrderStatus, AssessmentCode
<1>2. Unpublished(s, u)
  BY DEF Session, Unpublished
<1>3. StartScenario(s) \in {RejectCommand(s), RecordSnapshot(PushEvent(u, "SessionStarted"))}
  BY DEF StartScenario
<1> HIDE DEF u
<1>4. Published(s, RecordSnapshot(PushEvent(u, "SessionStarted")))
  BY <1>1, <1>2, PublishPicture DEF EventType
<1>5. QED
  BY <1>3, <1>4, RejectionsPicture

\* configure_scenario publishes nothing, and in standby changes nothing shown.
LEMMA ConfigureScenarioPicture ==
    ASSUME NEW s \in Session, NEW t \in EngagementTimeouts,
           MissionFacts(s), Drawn(s), s.phase = "Standby"
    PROVE  SamePicture(s, ConfigureScenario(s, t))
<1> DEFINE w == ResetWorld(s)
<1>1. w \in Session
  BY ResetWorldType
<1>2. /\ w.latest = s.latest /\ w.sequence = s.sequence /\ w.snapshots = s.snapshots
      /\ w.phase = s.phase /\ w.tick = s.tick /\ w.track = ClearedTrack
      /\ w.interceptor = "Idle" /\ w.ready = FALSE
  BY DEF ResetWorld, Session
<1>3. ConfigureScenario(s, t) = [w EXCEPT !.timeoutTicks = t]
  BY DEF ConfigureScenario
<1> HIDE DEF w
<1>4. s.interceptor = "Idle" /\ ~s.ready /\ s.track = ClearedTrack /\ s.ready \in BOOLEAN
  BY DEF MissionFacts, PhaseFacts, PreLaunch, Drawn, Session
<1> DEFINE c == [w EXCEPT !.timeoutTicks = t]
<1>5. /\ c.latest = w.latest /\ c.sequence = w.sequence /\ c.snapshots = w.snapshots
      /\ c.phase = w.phase /\ c.tick = w.tick /\ c.track = w.track
      /\ c.interceptor = w.interceptor /\ c.ready = w.ready
  BY <1>1 DEF Session
<1> HIDE DEF c
<1>6. SamePicture(s, c)
  BY <1>2, <1>4, <1>5 DEF SamePicture
<1>7. QED
  BY <1>3, <1>6 DEF c

\* reset_session publishes the empty standby and numbers on.
LEMMA ResetSessionPicture ==
    ASSUME NEW s \in Session
    PROVE  Published(s, ResetSession(s))
<1>1. EmptyLog \in EventLog
  BY DEF EmptyLog, EventLog, TrackProfile
<1>2. NoSnapshot \in Snapshot
  BY TrackConstantsType
  DEF NoSnapshot, Snapshot, SessionPhase, InterceptorStatus, EngageOrderStatus,
      AssessmentCode, ConnectionState
<1>3. [r \in ClientRole |-> Settled(s.connection[r])] \in [ClientRole -> ConnectionState]
  BY DEF Session, Settled, ConnectionState
<1> DEFINE w == ResetWorld(s)
<1>4. w \in Session /\ w.sequence = s.sequence /\ w.track = ClearedTrack
  BY ResetWorldType DEF ResetWorld, Session
<1> DEFINE u == [w EXCEPT !.tick = 0, !.phase = "Standby",
                          !.reconnectExercised = FALSE, !.timeoutExercised = FALSE,
                          !.gapExercised = FALSE,
                          !.log = EmptyLog, !.snapshots = 0, !.latest = NoSnapshot,
                          !.connection = [r \in ClientRole |-> Settled(s.connection[r])]]
<1>5. ResetSession(s) = RecordSnapshot(u)
  BY DEF ResetSession
<1> HIDE DEF w
<1>6. u \in Session /\ u.sequence = s.sequence /\ u.snapshots = 0 /\ u.track = ClearedTrack
  BY <1>1, <1>2, <1>3, <1>4, ZenonT(40) DEF Session, SessionPhase
<1> HIDE DEF u
<1>7. QED
  BY <1>5, <1>6 DEF Published

\* request_track and release_track publish the new track or reject.
LEMMA TrackCommandsPicture ==
    ASSUME NEW s \in Session
    PROVE  /\ SamePicture(s, RequestTrack(s)) \/ Published(s, RequestTrack(s))
           /\ SamePicture(s, ReleaseTrack(s)) \/ Published(s, ReleaseTrack(s))
<1>1. ASSUME NEW p \in SessionPhase \ {"Standby"}, NEW t \in TrackState,
             NEW tracked \in BOOLEAN
      PROVE  Published(s, RecordSnapshot(PushTrackEvent([s EXCEPT !.track = t, !.phase = p],
                                                        "TrackUpdated", tracked)))
  <2> DEFINE u == [s EXCEPT !.track = t, !.phase = p]
  <2>1. u \in Session /\ Unpublished(s, u)
    BY DEF Session, Unpublished
  <2> HIDE DEF u
  <2>2. "TrackUpdated" \in EventType
    BY DEF EventType
  <2>3. Published(s, RecordSnapshot(PushTrackEvent(u, "TrackUpdated", tracked)))
    BY <2>1, <2>2, PublishPicture
  <2>4. QED
    BY <2>3 DEF u
<1>2. s.phase \in SessionPhase
  BY DEF Session
<1>3. SamePicture(s, RequestTrack(s)) \/ Published(s, RequestTrack(s))
  <2> DEFINE p == IF s.phase = "Detecting" THEN "Tracking" ELSE s.phase
             u == [s EXCEPT !.track = SeededTrack, !.phase = p]
  <2>1. CASE s.phase \in {"Detecting", "InterceptorReady"}
    <3>1. p \in SessionPhase \ {"Standby"}
      BY <1>2, <2>1 DEF SessionPhase
    <3>2. Published(s, RecordSnapshot(PushTrackEvent(u, "TrackUpdated", TRUE)))
      BY <1>1, <3>1, TrackConstantsType
    <3>3. RequestTrack(s) \in
             {RejectCommand(s), RecordSnapshot(PushTrackEvent(u, "TrackUpdated", TRUE))}
      BY DEF RequestTrack
    <3>4. QED
      BY <3>2, <3>3, RejectionsPicture
  <2>2. CASE s.phase \notin {"Detecting", "InterceptorReady"}
    BY <2>2, RejectionsPicture DEF RequestTrack
  <2>3. QED
    BY <2>1, <2>2
<1>4. SamePicture(s, ReleaseTrack(s)) \/ Published(s, ReleaseTrack(s))
  <2> DEFINE p == IF s.phase = "Tracking" THEN "Detecting" ELSE s.phase
             u == [s EXCEPT !.track = ClearedTrack, !.phase = p]
  <2>1. CASE s.phase \in {"Tracking", "InterceptorReady"}
    <3>1. p \in SessionPhase \ {"Standby"}
      BY <1>2, <2>1 DEF SessionPhase
    <3>2. Published(s, RecordSnapshot(PushTrackEvent(u, "TrackUpdated", FALSE)))
      BY <1>1, <3>1, TrackConstantsType
    <3>3. ReleaseTrack(s) \in
             {RejectCommand(s), RecordSnapshot(PushTrackEvent(u, "TrackUpdated", FALSE))}
      BY DEF ReleaseTrack
    <3>4. QED
      BY <3>2, <3>3, RejectionsPicture
  <2>2. CASE s.phase \notin {"Tracking", "InterceptorReady"}
    BY <2>2, RejectionsPicture DEF ReleaseTrack
  <2>3. QED
    BY <2>1, <2>2
<1>5. QED
  BY <1>3, <1>4

\* activate_asset, issue_command and archive_session publish or show nothing new.
LEMMA CommandsPicture ==
    ASSUME NEW s \in Session
    PROVE  /\ SamePicture(s, ActivateAsset(s)) \/ Published(s, ActivateAsset(s))
           /\ SamePicture(s, IssueCommand(s)) \/ Published(s, IssueCommand(s))
           /\ SamePicture(s, ArchiveSession(s)) \/ Published(s, ArchiveSession(s))
<1>1. SamePicture(s, ActivateAsset(s)) \/ Published(s, ActivateAsset(s))
  <2> DEFINE u == [s EXCEPT !.interceptor = "Ready", !.assetActive = TRUE,
                            !.phase = "InterceptorReady"]
  <2>1. u \in Session /\ Unpublished(s, u)
    BY DEF Session, InterceptorStatus, SessionPhase, Unpublished
  <2>2. ActivateAsset(s) \in {RejectCommand(s), RecordSnapshot(PushEvent(u, "InterceptorUpdated"))}
    BY DEF ActivateAsset
  <2> HIDE DEF u
  <2>3. Published(s, RecordSnapshot(PushEvent(u, "InterceptorUpdated")))
    BY <2>1, PublishPicture DEF EventType
  <2>4. QED
    BY <2>2, <2>3, RejectionsPicture
<1>2. SamePicture(s, IssueCommand(s)) \/ Published(s, IssueCommand(s))
  <2> DEFINE u == [s EXCEPT !.order = "Accepted", !.phase = "EngageOrdered", !.started = s.tick]
  <2>1. u \in Session /\ Unpublished(s, u)
    BY DEF Session, EngageOrderStatus, SessionPhase, Unpublished
  <2>2. IssueCommand(s) \in {RejectCommand(s),
           RecordSnapshot(PushTrackEvent(u, "EngageOrderAccepted", s.track.active))}
    BY DEF IssueCommand
  <2> HIDE DEF u
  <2>3. s.track.active \in BOOLEAN /\ "EngageOrderAccepted" \in EventType
    BY DEF Session, TrackState, EventType
  <2>4. Published(s, RecordSnapshot(PushTrackEvent(u, "EngageOrderAccepted", s.track.active)))
    BY <2>1, <2>3, PublishPicture
  <2>5. QED
    BY <2>2, <2>4, RejectionsPicture
<1>3. SamePicture(s, ArchiveSession(s)) \/ Published(s, ArchiveSession(s))
  <2> DEFINE u == [s EXCEPT !.phase = "Archived"]
  <2>1. u \in Session /\ Unpublished(s, u)
    BY DEF Session, SessionPhase, Unpublished
  <2>2. ArchiveSession(s) \in {s, RecordSnapshot(PushEvent(u, "SessionEnded"))}
    BY DEF ArchiveSession
  <2> HIDE DEF u
  <2>3. Published(s, RecordSnapshot(PushEvent(u, "SessionEnded")))
    BY <2>1, PublishPicture DEF EventType
  <2>4. SamePicture(s, s)
    BY DEF SamePicture
  <2>5. QED
    BY <2>2, <2>3, <2>4
<1>4. QED
  BY <1>1, <1>2, <1>3

\* The parts of advance_tick before record_snapshot publish nothing.
LEMMA TickPartsPicture ==
    ASSUME NEW s \in Session, NEW hit \in BOOLEAN, NEW inFov \in BOOLEAN
    PROVE  /\ (s.phase = "Standby" => ~s.track.active) => Unpublished(s, Launched(s))
           /\ Unpublished(s, SeekerUpdated(s, inFov))
           /\ Unpublished(s, Assessed(s, hit))
           /\ Unpublished(s, GapExercised(s))
<1>1. ASSUME s.phase = "Standby" => ~s.track.active
      PROVE  Unpublished(s, Launched(s))
  BY <1>1 DEF Launched, Session, Unpublished
<1>2. Unpublished(s, SeekerUpdated(s, inFov))
  BY DEF SeekerUpdated, Session, Unpublished
<1>3. Unpublished(s, s)
  BY DEF Unpublished
<1>4. ASSUME NEW a \in Session, NEW code \in AssessmentCode,
             a.sequence = s.sequence, a.snapshots = s.snapshots
      PROVE  Unpublished(s, Verdict(a, code))
  <2> DEFINE u == [a EXCEPT !.ready = TRUE, !.code = code, !.phase = "Assessed",
                            !.interceptor = "Complete", !.order = "Completed",
                            !.started = NoTick]
  <2>1. /\ u \in Session /\ u.sequence = s.sequence /\ u.snapshots = s.snapshots
        /\ u.phase = "Assessed"
    BY <1>4 DEF Session, SessionPhase, InterceptorStatus, EngageOrderStatus
  <2>2. Verdict(a, code) = PushEvent(u, "AssessmentProduced")
    BY DEF Verdict
  <2> HIDE DEF u
  <2>3. SamePicture(u, PushEvent(u, "AssessmentProduced"))
    BY <2>1, PushEventPicture DEF EventType
  <2>4. QED
    BY <2>1, <2>2, <2>3 DEF SamePicture, Unpublished
<1>5. Unpublished(s, Assessed(s, hit))
  <2> DEFINE u == [s EXCEPT !.targetActive = FALSE, !.track.active = FALSE, !.seekerLock = FALSE]
  <2>1. [s.track EXCEPT !.active = FALSE] \in TrackState
    BY DEF Session, TrackState
  <2>2. u \in Session /\ u.sequence = s.sequence /\ u.snapshots = s.snapshots
    BY <2>1 DEF Session
  <2>3. Assessed(s, hit) \in {s, Verdict(u, "InterceptSuccess"), Verdict(s, "TimeoutObserved")}
    BY DEF Assessed
  <2> HIDE DEF u
  <2>4. "InterceptSuccess" \in AssessmentCode /\ "TimeoutObserved" \in AssessmentCode
    BY DEF AssessmentCode
  <2>5. QED
    BY <1>3, <1>4, <2>2, <2>3, <2>4
<1>6. Unpublished(s, GapExercised(s))
  <2> DEFINE u == [s EXCEPT !.gapExercised = TRUE]
  <2>1. u \in Session /\ Unpublished(s, u)
    BY DEF Session, Unpublished
  <2>2. GapExercised(s) \in {s, PushEvent(u, "ResilienceTriggered")}
    BY DEF GapExercised
  <2> HIDE DEF u
  <2>3. SamePicture(u, PushEvent(u, "ResilienceTriggered"))
    BY <2>1, PushEventPicture DEF EventType
  <2>4. QED
    BY <1>3, <2>1, <2>2, <2>3 DEF SamePicture, Unpublished
<1>7. QED
  BY <1>1, <1>2, <1>5, <1>6

\* advance_tick ends in record_snapshot, in every phase.
LEMMA AdvanceTickPicture ==
    ASSUME NEW s \in Session, NEW hit \in BOOLEAN, NEW inFov \in BOOLEAN,
           s.phase = "Standby" => ~s.track.active
    PROVE  Published(s, AdvanceTick(s, hit, inFov))
<1>1. CASE s.phase = "Assessed"
  <2> DEFINE a == [s EXCEPT !.tick = @ + 1]
             u == [a EXCEPT !.phase = "Archived"]
  <2>1. s.tick + 1 \in Nat
    BY DEF Session
  <2>2. a \in Session /\ a.phase = "Assessed" /\ Unpublished(s, a)
    BY <1>1, <2>1 DEF Session, Unpublished
  <2>3. AdvanceTick(s, hit, inFov) = ArchiveSession(a)
    BY <1>1 DEF AdvanceTick
  <2> HIDE DEF a
  <2>4. ArchiveSession(a) = RecordSnapshot(PushEvent(u, "SessionEnded"))
    BY <2>2 DEF ArchiveSession
  <2>5. u \in Session /\ Unpublished(s, u)
    BY <2>2 DEF Session, SessionPhase, Unpublished
  <2> HIDE DEF u
  <2>6. QED
    BY <2>3, <2>4, <2>5, PublishPicture DEF EventType
<1>2. CASE s.phase # "Assessed"
  <2> DEFINE a == Launched(s)
             b == SeekerUpdated(a, inFov)
             c == Assessed(b, hit)
             d == GapExercised(c)
  <2>1. AdvanceTick(s, hit, inFov) = RecordSnapshot(d)
    BY <1>2 DEF AdvanceTick
  <2>2. a \in Session /\ Unpublished(s, a)
    BY LaunchedType, TickPartsPicture
  <2> HIDE DEF a
  <2>3. b \in Session /\ Unpublished(a, b)
    BY <2>2, SeekerUpdatedType, TickPartsPicture
  <2> HIDE DEF b
  <2>4. c \in Session /\ Unpublished(b, c)
    BY <2>3, AssessedType, TickPartsPicture
  <2> HIDE DEF c
  <2>5. d \in Session /\ Unpublished(c, d)
    BY <2>4, GapExercisedType, TickPartsPicture
  <2> HIDE DEF d
  <2>6. Unpublished(s, d)
    BY <2>2, <2>3, <2>4, <2>5 DEF Unpublished
  <2>7. QED
    BY <2>1, <2>5, <2>6 DEF Published
<1>3. QED
  BY <1>1, <1>2

\* A new session's picture is current: there is no snapshot yet.
LEMMA NewSessionDrawn ==
    ASSUME NEW t \in EngagementTimeouts
    PROVE  Drawn(NewSession(t))
<1> DEFINE s == NewSession(t)
<1>1. /\ s.phase = "Standby" /\ s.tick = 0 /\ s.sequence = 0
      /\ s.track = ClearedTrack /\ s.interceptor = "Idle"
      /\ s.ready = FALSE /\ s.snapshots = 0 /\ s.latest = NoSnapshot
  BY DEF NewSession
<1>2. /\ NoSnapshot.phase = "Standby" /\ NoSnapshot.tick = 0 /\ NoSnapshot.sequence = 0
      /\ NoSnapshot.track = ClearedTrack /\ NoSnapshot.interceptor = "Idle"
      /\ NoSnapshot.ready = FALSE
  BY DEF NoSnapshot
<1> HIDE DEF s
<1>3. s.latest.ready = s.ready
  BY <1>1, <1>2, Zenon
<1>4. Drawn(s)
  BY <1>1, <1>2, <1>3 DEF Drawn, PictureFacts
<1>5. QED
  BY <1>4 DEF s
================================================================================
