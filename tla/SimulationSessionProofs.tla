------------------------ MODULE SimulationSessionProofs ------------------------
(****************************************************************************)
(* Theorems of SimulationSession, and of the reports made from it, for      *)
(* every set of timeouts, every set of clients and every bound on the       *)
(* environment.  SessionProofs carries the work: one lemma per operation;   *)
(* here they are put together.                                              *)
(****************************************************************************)
EXTENDS AfterActionReport, SessionProofs, SequenceTheorems, FiniteSetTheorems

\* The inductive invariant of the session.
IInv == TypeOK /\ MissionFacts(session)

\* The initial session satisfies the inductive invariant.
LEMMA InitIInv == Init => IInv
BY NewSessionType, NewSessionFacts DEF Init, IInv, TypeOK

\* Every method of the session preserves the inductive invariant.
LEMMA NextIInv == IInv /\ [Next]_vars => IInv'
<1> SUFFICES ASSUME session \in Session, MissionFacts(session), [Next]_vars
             PROVE  session' \in Session /\ MissionFacts(session')
  BY DEF IInv, TypeOK
<1>1. ASSUME NEW role \in Clients, Connect(role) \/ Disconnect(role) \/ Timeout(role)
      PROVE  session' \in Session /\ MissionFacts(session')
  <2>1. role \in ClientRole
    BY ClientsAreRoles DEF ClientsAreRoles
  <2>2. session' \in Session /\ SameRecord(session, session')
    BY <1>1, <2>1, ClientOperationsType, ClientsSame DEF Connect, Disconnect, Timeout
  <2>3. QED
    BY <2>2, SameRecordFacts
<1>2. CASE Start
  BY <1>2, StartScenarioType, StartScenarioFacts DEF Start
<1>3. CASE ConfigureAndStart
  <2>1. PICK t \in EngagementTimeouts :
           session' = StartScenario(ConfigureScenario(session, t))
    BY <1>3 DEF ConfigureAndStart
  <2>2. /\ ConfigureScenario(session, t) \in Session
        /\ MissionFacts(ConfigureScenario(session, t))
    BY <1>3, ConfigureScenarioType, ConfigureScenarioFacts DEF ConfigureAndStart
  <2>3. QED
    BY <2>1, <2>2, StartScenarioType, StartScenarioFacts
<1>4. CASE Reset
  BY <1>4, ResetSessionType, ResetSessionFacts DEF Reset
<1>5. CASE AcquireTrack \/ DropTrack
  BY <1>5, TrackCommandsType, TrackCommandsFacts DEF AcquireTrack, DropTrack
<1>6. CASE MakeReady
  BY <1>6, ActivateAssetType, ActivateAssetFacts DEF MakeReady
<1>7. CASE Engage
  BY <1>7, IssueCommandType, IssueCommandFacts DEF Engage
<1>8. CASE TransportRejection
  <2>1. session' = PushEvent(session, "EngageOrderRejected")
    BY <1>8 DEF TransportRejection, RecordTransportRejection
  <2>2. session' \in Session /\ SameRecord(session, session')
    BY <2>1, PushEventType, PushEventSame DEF EventType
  <2>3. QED
    BY <2>2, SameRecordFacts
<1>9. CASE Archive
  BY <1>9, ArchiveSessionType, ArchiveSessionFacts DEF Archive
<1>10. CASE Tick
  BY <1>10, AdvanceTickType, AdvanceTickFacts DEF Tick
<1>11. CASE UNCHANGED vars
  BY <1>11 DEF vars
<1>12. QED
  BY <1>1, <1>2, <1>3, <1>4, <1>5, <1>6, <1>7, <1>8, <1>9, <1>10, <1>11 DEF Next

\* The inductive invariant holds throughout.
LEMMA SpecIInv == Spec => []IInv
BY InitIInv, NextIInv, PTL DEF Spec

\* Every field of the session keeps its C++ type under every sequence of calls.
THEOREM TypeCorrect == Spec => []TypeOK
<1>1. IInv => TypeOK
  BY DEF IInv
<1>2. QED
  BY <1>1, SpecIInv, PTL

\* Phase, order, interceptor, entities and verdict never contradict one another.
THEOREM PhasesConsistent == Spec => []PhaseConsistent
<1>1. IInv => PhaseConsistent
  BY DEF IInv, MissionFacts, PhaseConsistent
<1>2. QED
  BY <1>1, SpecIInv, PTL

\* An order that no rejection spoilt is assessed by its timeout, for every timeout.
THEOREM EngagementsTimely == Spec => []EngagementTimely
<1>1. IInv => EngagementTimely
  BY DEF IInv, MissionFacts, EngagementTimely
<1>2. QED
  BY <1>1, SpecIInv, PTL

\* The seeker's lock, which only ticks recompute, never outlives the track.
THEOREM SeekerLockTracked == Spec => []SeekerLockNeedsTrack
<1>1. IInv => SeekerLockNeedsTrack
  BY DEF IInv, MissionFacts, SeekerLockNeedsTrack
<1>2. QED
  BY <1>1, SpecIInv, PTL

\* The profile in the log is the one flown, up to the verdict.
THEOREM ProfileFaithful == Spec => []ProfileMatchesTrack
<1>1. IInv => ProfileMatchesTrack
  BY DEF IInv, MissionFacts, ProfileMatchesTrack
<1>2. QED
  BY <1>1, SpecIInv, PTL

--------------------------------------------------------------------------------
(****************************************************************************)
(* The picture (SessionProofs: each method draws it anew or leaves alone    *)
(* all that it must show).                                                  *)
(****************************************************************************)

\* The session starts with a current picture.
LEMMA InitDrawn == Init => Drawn(session)
BY NewSessionDrawn DEF Init

\* Every method keeps the picture current and numbers snapshots upwards.
LEMMA NextDrawn ==
    IInv /\ IInv' /\ Drawn(session) /\ [Next]_vars
        => Drawn(session)' /\ NumbersRise(session, session')
<1> SUFFICES ASSUME session \in Session, session' \in Session, MissionFacts(session),
                    Drawn(session), [Next]_vars
             PROVE  Drawn(session') /\ NumbersRise(session, session')
  BY DEF IInv, TypeOK
<1>1. ASSUME NEW role \in Clients, Connect(role) \/ Disconnect(role) \/ Timeout(role)
      PROVE  SamePicture(session, session') \/ Published(session, session')
  <2>1. role \in ClientRole
    BY ClientsAreRoles DEF ClientsAreRoles
  <2>2. QED
    BY <1>1, <2>1, ClientsPicture DEF Connect, Disconnect, Timeout
<1>2. CASE Start
  BY <1>2, StartScenarioPicture, PictureStep DEF Start
<1>3. CASE ConfigureAndStart
  <2>1. PICK t \in EngagementTimeouts :
           session' = StartScenario(ConfigureScenario(session, t))
    BY <1>3 DEF ConfigureAndStart
  <2> DEFINE c == ConfigureScenario(session, t)
  <2>2. c \in Session /\ SamePicture(session, c)
    BY <1>3, ConfigureScenarioType, ConfigureScenarioPicture DEF ConfigureAndStart
  <2>3. session' = StartScenario(c)
    BY <2>1
  <2> HIDE DEF c
  <2>4. Drawn(c)
    BY <2>2, PictureStep
  <2>5. Drawn(session') /\ NumbersRise(c, session')
    BY <2>2, <2>3, <2>4, StartScenarioPicture, PictureStep
  <2>6. QED
    BY <2>2, <2>5 DEF NumbersRise, SamePicture
<1>4. CASE Reset
  BY <1>4, ResetSessionPicture, PictureStep DEF Reset
<1>5. CASE AcquireTrack \/ DropTrack
  BY <1>5, TrackCommandsPicture, PictureStep DEF AcquireTrack, DropTrack
<1>6. CASE MakeReady \/ Engage \/ Archive
  BY <1>6, CommandsPicture, PictureStep DEF MakeReady, Engage, Archive
<1>7. CASE TransportRejection
  BY <1>7, RejectionsPicture, PictureStep DEF TransportRejection
<1>8. CASE Tick
  <2>1. session.phase = "Standby" => ~session.track.active
    BY DEF MissionFacts, PhaseFacts
  <2>2. QED
    BY <1>8, <2>1, AdvanceTickPicture, PictureStep DEF Tick
<1>9. CASE UNCHANGED vars
  BY <1>9 DEF vars, NumbersRise, Session
<1>10. QED
  BY <1>1, <1>2, <1>3, <1>4, <1>5, <1>6, <1>7, <1>8, <1>9, PictureStep DEF Next

\* The picture is current throughout.
LEMMA SpecDrawn == Spec => [](IInv /\ Drawn(session))
<1>1. IInv /\ Drawn(session) /\ [Next]_vars => (IInv /\ Drawn(session))'
  BY NextIInv, NextDrawn
<1>2. Init => IInv /\ Drawn(session)
  BY InitIInv, InitDrawn
<1>3. QED
  BY <1>1, <1>2, PTL DEF Spec

\* No operation changes phase, tick, track, weapon or verdict without publishing.
THEOREM PictureKeptCurrent == Spec => []PictureCurrent
<1>1. IInv /\ Drawn(session) => PictureCurrent
  BY DEF Drawn, PictureCurrent
<1>2. QED
  BY <1>1, SpecDrawn, PTL

\* Snapshot numbers only rise, across every reset.
THEOREM SequencesRise == Spec => SequenceNeverReused
<1>1. IInv /\ IInv' /\ Drawn(session) /\ [Next]_vars
        => [/\ session'.sequence >= session.sequence
            /\ session'.latest # session.latest
                  => session'.latest.sequence > session.sequence]_vars
  BY NextDrawn DEF NumbersRise
<1>2. QED
  BY <1>1, SpecDrawn, PTL DEF Spec, SequenceNeverReused

--------------------------------------------------------------------------------
(****************************************************************************)
(* The course of the engagement.  Every method leaves the course alone or   *)
(* moves it by one step of EngagementLifecycle.                             *)
(****************************************************************************)

\* The verdict of s, if there is one.
JudgedAs(s, t) == t.ready = s.ready /\ (s.ready => t.code = s.code /\ t.order = s.order)

\* Phase, profile and verdict stay.
SameCourse(s, t) ==
    t.phase = s.phase /\ t.log.profile = s.log.profile /\ JudgedAs(s, t)

\* A verdict on an engagement under way.
Judgement(s, t) ==
    /\ s.phase \in {"EngageOrdered", "Intercepting"} /\ t.phase = "Assessed"
    /\ t.log.profile = s.log.profile
    /\ t.ready /\ t.code \in {"InterceptSuccess", "TimeoutObserved"}

\* The steps of the course, in the terms of the session.
Course(s, t) ==
    \/ SameCourse(s, t)
    \/ /\ s.phase = "Standby" /\ t.phase = "Detecting"
       /\ t.log.profile = s.log.profile /\ ~t.ready
    \/ /\ ~s.track.active /\ t.log.profile = "Tracked" /\ JudgedAs(s, t)
       /\ \/ s.phase = "Detecting" /\ t.phase = "Tracking"
          \/ s.phase = "InterceptorReady" /\ t.phase = "InterceptorReady"
    \/ /\ s.track.active /\ t.log.profile = "Untracked" /\ JudgedAs(s, t)
       /\ \/ s.phase = "Tracking" /\ t.phase = "Detecting"
          \/ s.phase = "InterceptorReady" /\ t.phase = "InterceptorReady"
    \/ /\ s.phase = "Tracking" /\ s.track.active /\ t.phase = "InterceptorReady"
       /\ t.log.profile = s.log.profile /\ JudgedAs(s, t)
    \/ /\ s.phase = "InterceptorReady" /\ t.phase = "EngageOrdered" /\ JudgedAs(s, t)
       /\ t.log.profile = IF s.track.active THEN "Tracked" ELSE "Untracked"
    \/ /\ s.phase = "EngageOrdered" /\ t.phase = "Intercepting"
       /\ t.log.profile = s.log.profile /\ JudgedAs(s, t)
    \/ Judgement(s, t)
    \/ /\ s.phase # "Archived" /\ t.phase = "Archived"
       /\ t.log.profile = s.log.profile /\ JudgedAs(s, t)
    \/ t.phase = "Standby" /\ t.log.profile = "None" /\ ~t.ready

\* Equal records have the same course.
LEMMA SameRecordCourse ==
    ASSUME NEW s \in Session, NEW t \in Session, SameRecord(s, t)
    PROVE  SameCourse(s, t)
BY DEF SameRecord, SameMission, SameCourse, JudgedAs

\* What publishing leaves of a session with another phase, track or weapon.
LEMMA PublishCourse ==
    ASSUME NEW u \in Session, NEW type \in EventType, NEW tracked \in BOOLEAN
    PROVE  /\ SameRecord(u, RecordSnapshot(PushEvent(u, type)))
           /\ SameMission(u, RecordSnapshot(PushTrackEvent(u, type, tracked)))
           /\ RecordSnapshot(PushTrackEvent(u, type, tracked)).log.profile
                 = IF tracked THEN "Tracked" ELSE "Untracked"
<1> DEFINE p == PushTrackEvent(u, type, tracked)
<1>1. Logged(u.log, type) \in EventLog
  BY LoggedType DEF Session
<1>2. p \in Session /\ p.log = [Logged(u.log, type) EXCEPT
                                   !.profile = IF tracked THEN "Tracked" ELSE "Untracked"]
  BY PushTrackEventType DEF PushTrackEvent, Session
<1>3. p.log.profile = IF tracked THEN "Tracked" ELSE "Untracked"
  BY <1>1, <1>2 DEF EventLog
<1> HIDE DEF p
<1>4. SameRecord(p, RecordSnapshot(p))
  BY <1>2, RecordSnapshotSame
<1>5. RecordSnapshot(p).log.profile = IF tracked THEN "Tracked" ELSE "Untracked"
  BY <1>3, <1>4 DEF SameRecord
<1>6. QED
  BY <1>5, PublishSame, PublishTrackSame DEF p

\* A rejected command leaves the course alone.
LEMMA RejectionsCourse ==
    ASSUME NEW s \in Session
    PROVE  SameCourse(s, RejectCommand(s)) /\ SameCourse(s, RecordTransportRejection(s))
<1> DEFINE logged == PushEvent(s, "EngageOrderRejected")
<1>1. logged \in Session /\ SameCourse(s, logged)
  BY PushEventType, PushEventSame, SameRecordCourse DEF EventType
<1>2. SameCourse(s, RecordTransportRejection(s))
  BY <1>1 DEF RecordTransportRejection
<1>3. RejectCommand(s) = IF s.ready THEN logged
                         ELSE [logged EXCEPT !.order = "Rejected", !.code = "InvalidTransition"]
  BY DEF RejectCommand
<1> HIDE DEF logged
<1>4. s.ready \in BOOLEAN
  BY DEF Session
<1>5. CASE s.ready
  BY <1>1, <1>2, <1>3, <1>5
<1>6. CASE ~s.ready
  <2>1. SameCourse(s, [logged EXCEPT !.order = "Rejected", !.code = "InvalidTransition"])
    BY <1>1, <1>6 DEF SameCourse, JudgedAs, Session
  <2>2. QED
    BY <1>2, <1>3, <1>6, <2>1
<1>7. QED
  BY <1>4, <1>5, <1>6

\* start_scenario begins the course or leaves it alone.
LEMMA StartScenarioCourse ==
    ASSUME NEW s \in Session
    PROVE  Course(s, StartScenario(s))
<1> DEFINE u == [s EXCEPT !.phase = "Detecting", !.targetActive = TRUE,
                          !.track = ClearedTrack, !.interceptor = "Idle",
                          !.order = "None", !.ready = FALSE, !.code = "Pending"]
           t == RecordSnapshot(PushEvent(u, "SessionStarted"))
<1>1. u \in Session
  BY TrackConstantsType, ZenonT(40)
  DEF Session, SessionPhase, InterceptorStatus, EngageOrderStatus, AssessmentCode
<1>2. u.phase = "Detecting" /\ u.ready = FALSE /\ u.log = s.log
  BY DEF Session
<1>3. \/ StartScenario(s) = RejectCommand(s)
      \/ s.phase = "Standby" /\ StartScenario(s) = t
  BY DEF StartScenario
<1> HIDE DEF u
<1>4. SameRecord(u, t)
  BY <1>1, PublishCourse DEF EventType
<1> HIDE DEF t
<1>5. t.phase = "Detecting" /\ ~t.ready /\ t.log.profile = s.log.profile
  BY <1>2, <1>4 DEF SameRecord, SameMission
<1>6. QED
  BY <1>3, <1>5, RejectionsCourse DEF Course

\* configure_scenario in standby leaves the course alone.
LEMMA ConfigureScenarioCourse ==
    ASSUME NEW s \in Session, NEW t \in EngagementTimeouts, ~s.ready
    PROVE  SameCourse(s, ConfigureScenario(s, t))
<1> DEFINE w == ResetWorld(s)
<1>1. w \in Session /\ w.phase = s.phase /\ w.ready = FALSE /\ w.log = s.log
  BY ResetWorldType DEF ResetWorld, Session
<1>2. ConfigureScenario(s, t) = [w EXCEPT !.timeoutTicks = t]
  BY DEF ConfigureScenario
<1> HIDE DEF w
<1>3. QED
  BY <1>1, <1>2 DEF Session, SameCourse, JudgedAs

\* reset_session takes the course back to its beginning.
LEMMA ResetSessionCourse ==
    ASSUME NEW s \in Session
    PROVE  LET t == ResetSession(s)
           IN  t.phase = "Standby" /\ t.log.profile = "None" /\ ~t.ready
<1>1. EmptyLog \in EventLog /\ EmptyLog.profile = "None"
  BY DEF EmptyLog, EventLog, TrackProfile
<1>2. NoSnapshot \in Snapshot
  BY TrackConstantsType
  DEF NoSnapshot, Snapshot, SessionPhase, InterceptorStatus, EngageOrderStatus,
      AssessmentCode, ConnectionState
<1>3. [r \in ClientRole |-> Settled(s.connection[r])] \in [ClientRole -> ConnectionState]
  BY DEF Session, Settled, ConnectionState
<1> DEFINE w == ResetWorld(s)
<1>4. w \in Session /\ w.ready = FALSE
  BY ResetWorldType DEF ResetWorld, Session
<1> DEFINE u == [w EXCEPT !.tick = 0, !.phase = "Standby",
                          !.reconnectExercised = FALSE, !.timeoutExercised = FALSE,
                          !.gapExercised = FALSE,
                          !.log = EmptyLog, !.snapshots = 0, !.latest = NoSnapshot,
                          !.connection = [r \in ClientRole |-> Settled(s.connection[r])]]
<1>5. ResetSession(s) = RecordSnapshot(u)
  BY DEF ResetSession
<1> HIDE DEF w
<1>6. u \in Session /\ u.phase = "Standby" /\ u.log = EmptyLog /\ u.ready = FALSE
  BY <1>1, <1>2, <1>3, <1>4 DEF Session, SessionPhase
<1> HIDE DEF u
<1>7. SameRecord(u, RecordSnapshot(u))
  BY <1>6, RecordSnapshotSame
<1>8. QED
  BY <1>1, <1>5, <1>6, <1>7 DEF SameRecord, SameMission

\* request_track takes up the track, release_track drops it, where they may.
LEMMA TrackCommandsCourse ==
    ASSUME NEW s \in Session, PhaseFacts(s)
    PROVE  Course(s, RequestTrack(s)) /\ Course(s, ReleaseTrack(s))
<1>1. Course(s, RequestTrack(s))
  <2> DEFINE u == [s EXCEPT !.track = SeededTrack,
                            !.phase = IF @ = "Detecting" THEN "Tracking" ELSE @]
             t == RecordSnapshot(PushTrackEvent(u, "TrackUpdated", TRUE))
             taken == \/ s.phase = "Detecting"
                      \/ s.phase = "InterceptorReady" /\ ~s.track.active
  <2>1. (IF s.phase = "Detecting" THEN "Tracking" ELSE s.phase) \in SessionPhase
    BY DEF Session, SessionPhase
  <2>2. /\ u \in Session /\ u.ready = s.ready /\ u.code = s.code /\ u.order = s.order
        /\ u.phase = IF s.phase = "Detecting" THEN "Tracking" ELSE s.phase
    BY <2>1, TrackConstantsType DEF Session
  <2>3. RequestTrack(s) = IF taken THEN t ELSE RejectCommand(s)
    BY DEF RequestTrack
  <2> HIDE DEF u
  <2>4. SameMission(u, t) /\ t.log.profile = "Tracked"
    BY <2>2, PublishCourse DEF EventType
  <2> HIDE DEF t
  <2>5. /\ JudgedAs(s, t)
        /\ t.phase = IF s.phase = "Detecting" THEN "Tracking" ELSE s.phase
    BY <2>2, <2>4 DEF SameMission, JudgedAs
  <2>6. CASE s.phase = "InterceptorReady" /\ ~s.track.active
    BY <2>3, <2>4, <2>5, <2>6 DEF Course
  <2>7. CASE s.phase = "Detecting" /\ ~s.track.active
    BY <2>3, <2>4, <2>5, <2>7 DEF Course
  <2>8. CASE ~taken
    BY <2>3, <2>8, RejectionsCourse DEF Course
  <2>9. s.phase = "Detecting" => ~s.track.active
    BY DEF PhaseFacts
  <2>10. QED
    BY <2>6, <2>7, <2>8, <2>9
<1>2. Course(s, ReleaseTrack(s))
  <2> DEFINE u == [s EXCEPT !.track = ClearedTrack,
                            !.phase = IF @ = "Tracking" THEN "Detecting" ELSE @]
             t == RecordSnapshot(PushTrackEvent(u, "TrackUpdated", FALSE))
             dropped == s.phase \in {"Tracking", "InterceptorReady"} /\ s.track.active
  <2>1. (IF s.phase = "Tracking" THEN "Detecting" ELSE s.phase) \in SessionPhase
    BY DEF Session, SessionPhase
  <2>2. /\ u \in Session /\ u.ready = s.ready /\ u.code = s.code /\ u.order = s.order
        /\ u.phase = IF s.phase = "Tracking" THEN "Detecting" ELSE s.phase
    BY <2>1, TrackConstantsType DEF Session
  <2>3. ReleaseTrack(s) = IF dropped THEN t ELSE RejectCommand(s)
    BY DEF ReleaseTrack
  <2> HIDE DEF u
  <2>4. SameMission(u, t) /\ t.log.profile = "Untracked"
    BY <2>2, PublishCourse DEF EventType
  <2> HIDE DEF t
  <2>5. /\ JudgedAs(s, t)
        /\ t.phase = IF s.phase = "Tracking" THEN "Detecting" ELSE s.phase
    BY <2>2, <2>4 DEF SameMission, JudgedAs
  <2>6. CASE dropped
    BY <2>3, <2>4, <2>5, <2>6 DEF Course
  <2>7. CASE ~dropped
    BY <2>3, <2>7, RejectionsCourse DEF Course
  <2>8. QED
    BY <2>6, <2>7
<1>3. QED
  BY <1>1, <1>2

\* activate_asset, issue_command and archive_session take their step or none.
LEMMA CommandsCourse ==
    ASSUME NEW s \in Session, PhaseFacts(s)
    PROVE  Course(s, ActivateAsset(s)) /\ Course(s, IssueCommand(s)) /\ Course(s, ArchiveSession(s))
<1>1. Course(s, ActivateAsset(s))
  <2> DEFINE u == [s EXCEPT !.interceptor = "Ready", !.assetActive = TRUE,
                            !.phase = "InterceptorReady"]
             t == RecordSnapshot(PushEvent(u, "InterceptorUpdated"))
  <2>1. /\ u \in Session /\ u.ready = s.ready /\ u.code = s.code /\ u.order = s.order
        /\ u.phase = "InterceptorReady" /\ u.log = s.log
    BY DEF Session, InterceptorStatus, SessionPhase
  <2>2. \/ ActivateAsset(s) = RejectCommand(s)
        \/ s.phase = "Tracking" /\ s.track.active /\ ActivateAsset(s) = t
    BY DEF ActivateAsset
  <2> HIDE DEF u
  <2>3. SameRecord(u, t)
    BY <2>1, PublishCourse DEF EventType
  <2> HIDE DEF t
  <2>4. JudgedAs(s, t) /\ t.phase = "InterceptorReady" /\ t.log.profile = s.log.profile
    BY <2>1, <2>3 DEF SameRecord, SameMission, JudgedAs
  <2>5. QED
    BY <2>2, <2>4, RejectionsCourse DEF Course
<1>2. Course(s, IssueCommand(s))
  <2> DEFINE u == [s EXCEPT !.order = "Accepted", !.phase = "EngageOrdered", !.started = s.tick]
             t == RecordSnapshot(PushTrackEvent(u, "EngageOrderAccepted", s.track.active))
  <2>1. u \in Session /\ u.ready = s.ready /\ u.code = s.code /\ u.phase = "EngageOrdered"
    BY DEF Session, EngageOrderStatus, SessionPhase
  <2>2. \/ IssueCommand(s) = RejectCommand(s)
        \/ s.phase = "InterceptorReady" /\ IssueCommand(s) = t
    BY DEF IssueCommand
  <2> HIDE DEF u
  <2>3. s.track.active \in BOOLEAN /\ "EngageOrderAccepted" \in EventType
    BY DEF Session, TrackState, EventType
  <2>4. /\ SameMission(u, t)
        /\ t.log.profile = IF s.track.active THEN "Tracked" ELSE "Untracked"
    BY <2>1, <2>3, PublishCourse
  <2> HIDE DEF t
  <2>5. t.ready = s.ready /\ t.code = s.code /\ t.phase = "EngageOrdered"
    BY <2>1, <2>4 DEF SameMission
  <2>6. s.phase = "InterceptorReady" => ~s.ready
    BY DEF PhaseFacts, PreLaunch
  <2>7. QED
    BY <2>2, <2>4, <2>5, <2>6, RejectionsCourse DEF Course, JudgedAs
<1>3. Course(s, ArchiveSession(s))
  <2> DEFINE u == [s EXCEPT !.phase = "Archived"]
             t == RecordSnapshot(PushEvent(u, "SessionEnded"))
  <2>1. /\ u \in Session /\ u.ready = s.ready /\ u.code = s.code /\ u.order = s.order
        /\ u.phase = "Archived" /\ u.log = s.log
    BY DEF Session, SessionPhase
  <2>2. \/ ArchiveSession(s) = s
        \/ s.phase # "Archived" /\ ArchiveSession(s) = t
    BY DEF ArchiveSession
  <2> HIDE DEF u
  <2>3. SameRecord(u, t)
    BY <2>1, PublishCourse DEF EventType
  <2> HIDE DEF t
  <2>4. JudgedAs(s, t) /\ t.phase = "Archived" /\ t.log.profile = s.log.profile
    BY <2>1, <2>3 DEF SameRecord, SameMission, JudgedAs
  <2>5. SameCourse(s, s)
    BY DEF SameCourse, JudgedAs
  <2>6. QED
    BY <2>2, <2>4, <2>5 DEF Course
<1>4. QED
  BY <1>1, <1>2, <1>3

\* The parts of advance_tick: launch, seeker, assessment and the rehearsed gap.
LEMMA TickPartsCourse ==
    ASSUME NEW s \in Session, NEW hit \in BOOLEAN, NEW inFov \in BOOLEAN
    PROVE  /\ PhaseFacts(s) => \/ SameCourse(s, Launched(s))
                               \/ /\ s.phase = "EngageOrdered" /\ Launched(s).phase = "Intercepting"
                                  /\ Launched(s).log.profile = s.log.profile
                                  /\ JudgedAs(s, Launched(s))
           /\ SameCourse(s, SeekerUpdated(s, inFov))
           /\ SameCourse(s, Assessed(s, hit)) \/ Judgement(s, Assessed(s, hit))
           /\ SameCourse(s, GapExercised(s))
<1> DEFINE launches == s.order = "Accepted" /\ s.phase = "EngageOrdered"
<1>1. ASSUME PhaseFacts(s)
      PROVE  \/ SameCourse(s, Launched(s))
             \/ /\ s.phase = "EngageOrdered" /\ Launched(s).phase = "Intercepting"
                /\ Launched(s).log.profile = s.log.profile /\ JudgedAs(s, Launched(s))
  <2>1. /\ Launched(s).ready = s.ready /\ Launched(s).code = s.code
        /\ Launched(s).log = s.log
        /\ Launched(s).phase = IF launches THEN "Intercepting" ELSE s.phase
        /\ Launched(s).order = IF launches THEN "Executing" ELSE s.order
    BY DEF Launched, Session
  <2>2. launches => ~s.ready
    BY <1>1 DEF PhaseFacts
  <2>3. QED
    BY <2>1, <2>2 DEF SameCourse, JudgedAs
<1>2. SameCourse(s, SeekerUpdated(s, inFov))
  BY DEF SeekerUpdated, Session, SameCourse, JudgedAs
<1>3. SameCourse(s, s)
  BY DEF SameCourse, JudgedAs
<1>4. ASSUME NEW a \in Session, NEW code \in {"InterceptSuccess", "TimeoutObserved"},
             s.phase = "Intercepting", a.log = s.log
      PROVE  Judgement(s, Verdict(a, code))
  <2> DEFINE u == [a EXCEPT !.ready = TRUE, !.code = code, !.phase = "Assessed",
                            !.interceptor = "Complete", !.order = "Completed",
                            !.started = NoTick]
  <2>1. /\ u \in Session /\ u.phase = "Assessed" /\ u.ready = TRUE /\ u.code = code
        /\ u.log = s.log
    BY <1>4 DEF Session, SessionPhase, InterceptorStatus, EngageOrderStatus, AssessmentCode
  <2>2. Verdict(a, code) = PushEvent(u, "AssessmentProduced")
    BY DEF Verdict
  <2> HIDE DEF u
  <2>3. SameRecord(u, PushEvent(u, "AssessmentProduced"))
    BY <2>1, PushEventSame DEF EventType
  <2>4. QED
    BY <1>4, <2>1, <2>2, <2>3 DEF SameRecord, SameMission, Judgement
<1>5. SameCourse(s, Assessed(s, hit)) \/ Judgement(s, Assessed(s, hit))
  <2> DEFINE u == [s EXCEPT !.targetActive = FALSE, !.track.active = FALSE, !.seekerLock = FALSE]
  <2>1. [s.track EXCEPT !.active = FALSE] \in TrackState
    BY DEF Session, TrackState
  <2>2. u \in Session /\ u.log = s.log
    BY <2>1 DEF Session
  <2>3. \/ Assessed(s, hit) = s
        \/ /\ s.phase = "Intercepting"
           /\ Assessed(s, hit) \in {Verdict(u, "InterceptSuccess"), Verdict(s, "TimeoutObserved")}
    BY DEF Assessed
  <2> HIDE DEF u
  <2>4. QED
    BY <1>3, <1>4, <2>2, <2>3
<1>6. SameCourse(s, GapExercised(s))
  <2> DEFINE u == [s EXCEPT !.gapExercised = TRUE]
  <2>1. u \in Session /\ SameCourse(s, u)
    BY DEF Session, SameCourse, JudgedAs
  <2>2. GapExercised(s) \in {s, PushEvent(u, "ResilienceTriggered")}
    BY DEF GapExercised
  <2> HIDE DEF u
  <2>3. SameCourse(u, PushEvent(u, "ResilienceTriggered"))
    BY <2>1, PushEventType, PushEventSame, SameRecordCourse DEF EventType
  <2>4. QED
    BY <1>3, <2>1, <2>2, <2>3 DEF SameCourse, JudgedAs
<1>7. QED
  BY <1>1, <1>2, <1>5, <1>6

\* advance_tick launches, judges, launches and judges at once, archives, or
\* leaves the course alone.
LEMMA AdvanceTickCourse ==
    ASSUME NEW s \in Session, NEW hit \in BOOLEAN, NEW inFov \in BOOLEAN, PhaseFacts(s)
    PROVE  Course(s, AdvanceTick(s, hit, inFov))
<1>1. CASE s.phase = "Assessed"
  <2> DEFINE a == [s EXCEPT !.tick = @ + 1]
             u == [a EXCEPT !.phase = "Archived"]
             t == RecordSnapshot(PushEvent(u, "SessionEnded"))
  <2>1. s.tick + 1 \in Nat
    BY DEF Session
  <2>2. a \in Session /\ SameCourse(s, a)
    BY <2>1 DEF Session, SameCourse, JudgedAs
  <2>3. AdvanceTick(s, hit, inFov) = ArchiveSession(a)
    BY <1>1 DEF AdvanceTick
  <2> HIDE DEF a
  <2>4. ArchiveSession(a) = t
    BY <1>1, <2>2 DEF ArchiveSession, SameCourse
  <2>5. /\ u \in Session /\ u.phase = "Archived" /\ u.log = a.log
        /\ u.ready = a.ready /\ u.code = a.code /\ u.order = a.order
    BY <2>2 DEF Session, SessionPhase
  <2> HIDE DEF u
  <2>6. SameRecord(u, t)
    BY <2>5, PublishCourse DEF EventType
  <2> HIDE DEF t
  <2>7. t.phase = "Archived" /\ t.log.profile = s.log.profile /\ JudgedAs(s, t)
    BY <2>2, <2>5, <2>6 DEF SameRecord, SameMission, SameCourse, JudgedAs
  <2>8. QED
    BY <1>1, <2>3, <2>4, <2>7 DEF Course
<1>2. CASE s.phase # "Assessed"
  <2> DEFINE a == Launched(s)
             b == SeekerUpdated(a, inFov)
             c == Assessed(b, hit)
             d == GapExercised(c)
             t == RecordSnapshot(d)
  <2>1. AdvanceTick(s, hit, inFov) = t
    BY <1>2 DEF AdvanceTick
  <2>2. a \in Session /\ (SameCourse(s, a) \/ (/\ s.phase = "EngageOrdered"
                                                /\ a.phase = "Intercepting"
                                                /\ a.log.profile = s.log.profile
                                                /\ JudgedAs(s, a)))
    BY LaunchedType, TickPartsCourse
  <2> HIDE DEF a
  <2>3. b \in Session /\ SameCourse(a, b)
    BY <2>2, SeekerUpdatedType, TickPartsCourse
  <2> HIDE DEF b
  <2>4. c \in Session /\ (SameCourse(b, c) \/ Judgement(b, c))
    BY <2>3, AssessedType, TickPartsCourse
  <2> HIDE DEF c
  <2>5. d \in Session /\ SameCourse(c, d)
    BY <2>4, GapExercisedType, TickPartsCourse
  <2> HIDE DEF d
  <2>6. SameCourse(d, t)
    BY <2>5, RecordSnapshotType, RecordSnapshotSame, SameRecordCourse
  <2> HIDE DEF t
  <2>7. SameCourse(c, t)
    BY <2>5, <2>6 DEF SameCourse, JudgedAs
  <2>8. CASE SameCourse(b, c)
    <3>1. SameCourse(a, t)
      BY <2>3, <2>7, <2>8 DEF SameCourse, JudgedAs
    <3>2. Course(s, t)
      BY <2>2, <3>1 DEF SameCourse, JudgedAs, Course
    <3>3. QED
      BY <2>1, <3>2
  <2>9. CASE Judgement(b, c)
    <3>1. Judgement(a, t)
      BY <2>3, <2>7, <2>9 DEF SameCourse, JudgedAs, Judgement
    <3>2. Judgement(s, t)
      BY <2>2, <3>1 DEF SameCourse, Judgement
    <3>3. QED
      BY <2>1, <3>2 DEF Course
  <2>10. QED
    BY <2>4, <2>8, <2>9
<1>3. QED
  BY <1>1, <1>2

\* A start that sets the scenario first is one step of the course.
LEMMA SameThenCourse ==
    ASSUME NEW a \in Session, NEW b \in Session, NEW c \in Session, SameCourse(a, b),
           Course(b, c), b.track.active = a.track.active
    PROVE  Course(a, c)
BY DEF SameCourse, JudgedAs, Judgement, Course

\* Every method moves the course by one step or leaves it alone.
LEMMA NextCourse == IInv /\ Drawn(session) /\ [Next]_vars => Course(session, session')
<1> SUFFICES ASSUME session \in Session, MissionFacts(session), Drawn(session), [Next]_vars
             PROVE  Course(session, session')
  BY DEF IInv, TypeOK
<1>1. PhaseFacts(session)
  BY DEF MissionFacts
<1>2. ASSUME NEW role \in Clients, Connect(role) \/ Disconnect(role) \/ Timeout(role)
      PROVE  Course(session, session')
  <2>1. role \in ClientRole
    BY ClientsAreRoles DEF ClientsAreRoles
  <2>2. session' \in Session /\ SameRecord(session, session')
    BY <1>2, <2>1, ClientOperationsType, ClientsSame DEF Connect, Disconnect, Timeout
  <2>3. QED
    BY <2>2, SameRecordCourse DEF Course
<1>3. CASE Start
  BY <1>3, StartScenarioCourse DEF Start
<1>4. CASE ConfigureAndStart
  <2>1. PICK t \in EngagementTimeouts :
           session' = StartScenario(ConfigureScenario(session, t))
    BY <1>4 DEF ConfigureAndStart
  <2> DEFINE c == ConfigureScenario(session, t)
  <2>2. session.phase = "Standby" /\ ~session.ready
    BY <1>1, <1>4 DEF ConfigureAndStart, PhaseFacts, PreLaunch
  <2>3. c \in Session /\ SameCourse(session, c) /\ c.track.active = session.track.active
    BY <2>2, ConfigureScenarioType, ConfigureScenarioCourse, ConfigureScenarioPicture
    DEF SamePicture
  <2>4. session' = StartScenario(c)
    BY <2>1
  <2> HIDE DEF c
  <2>5. session' \in Session /\ Course(c, session')
    BY <2>3, <2>4, StartScenarioType, StartScenarioCourse
  <2>6. QED
    BY <2>3, <2>5, SameThenCourse
<1>5. CASE Reset
  BY <1>5, ResetSessionCourse DEF Reset, Course
<1>6. CASE AcquireTrack \/ DropTrack
  BY <1>1, <1>6, TrackCommandsCourse DEF AcquireTrack, DropTrack
<1>7. CASE MakeReady \/ Engage \/ Archive
  BY <1>1, <1>7, CommandsCourse DEF MakeReady, Engage, Archive
<1>8. CASE TransportRejection
  BY <1>8, RejectionsCourse DEF TransportRejection, Course
<1>9. CASE Tick
  BY <1>1, <1>9, AdvanceTickCourse DEF Tick
<1>10. CASE UNCHANGED vars
  BY <1>10 DEF vars, Course, SameCourse, JudgedAs
<1>11. QED
  BY <1>2, <1>3, <1>4, <1>5, <1>6, <1>7, <1>8, <1>9, <1>10 DEF Next

\* The new session is at the beginning of the lifecycle.
LEMMA InitLifecycle == Init => Lifecycle!Init
<1> SUFFICES ASSUME NEW t \in EngagementTimeouts, session = NewSession(t)
             PROVE  Lifecycle!Init
  BY DEF Init
<1>1. session.phase = "Standby" /\ session.ready = FALSE /\ session.log = EmptyLog
  BY DEF NewSession
<1>2. session.log.profile = "None"
  BY <1>1 DEF EmptyLog
<1>3. QED
  BY <1>1, <1>2 DEF Lifecycle!Init

\* A step of the course is a step of the lifecycle, or none.
LEMMA CourseLifecycle ==
    IInv /\ IInv' /\ Course(session, session') => [Lifecycle!Next]_Lifecycle!vars
<1> SUFFICES ASSUME session \in Session, session' \in Session, MissionFacts(session),
                    Course(session, session')
             PROVE  [Lifecycle!Next]_Lifecycle!vars
  BY DEF IInv, TypeOK
<1> DEFINE s == session
           t == session'
<1>1. /\ s.ready \in BOOLEAN /\ t.ready \in BOOLEAN /\ s.track.active \in BOOLEAN
  BY DEF Session, TrackState
<1>2. /\ s.ready => s.phase \in {"Assessed", "Archived"}
      /\ ~s.ready => (s.log.profile = "Tracked") = s.track.active
      /\ s.phase = "Standby" => ~s.ready
  BY DEF MissionFacts, PhaseFacts, PreLaunch, ProfileFacts
<1>3. CASE SameCourse(s, t)
  BY <1>1, <1>3 DEF SameCourse, JudgedAs, Lifecycle!vars
<1>4. CASE s.phase = "Standby" /\ t.phase = "Detecting" /\ t.log.profile = s.log.profile /\ ~t.ready
  BY <1>2, <1>4 DEF Lifecycle!Next, Lifecycle!Start
<1>5. CASE /\ ~s.track.active /\ t.log.profile = "Tracked" /\ JudgedAs(s, t)
           /\ \/ s.phase = "Detecting" /\ t.phase = "Tracking"
              \/ s.phase = "InterceptorReady" /\ t.phase = "InterceptorReady"
  BY <1>1, <1>2, <1>5 DEF JudgedAs, Lifecycle!Next, Lifecycle!AcquireTrack
<1>6. CASE /\ s.track.active /\ t.log.profile = "Untracked" /\ JudgedAs(s, t)
           /\ \/ s.phase = "Tracking" /\ t.phase = "Detecting"
              \/ s.phase = "InterceptorReady" /\ t.phase = "InterceptorReady"
  BY <1>1, <1>2, <1>6 DEF JudgedAs, Lifecycle!Next, Lifecycle!DropTrack
<1>7. CASE /\ s.phase = "Tracking" /\ s.track.active /\ t.phase = "InterceptorReady"
           /\ t.log.profile = s.log.profile /\ JudgedAs(s, t)
  BY <1>1, <1>2, <1>7 DEF JudgedAs, Lifecycle!Next, Lifecycle!MakeReady
<1>8. CASE /\ s.phase = "InterceptorReady" /\ t.phase = "EngageOrdered" /\ JudgedAs(s, t)
           /\ t.log.profile = IF s.track.active THEN "Tracked" ELSE "Untracked"
  BY <1>1, <1>2, <1>8 DEF JudgedAs, Lifecycle!Next, Lifecycle!Engage
<1>9. CASE /\ s.phase = "EngageOrdered" /\ t.phase = "Intercepting"
           /\ t.log.profile = s.log.profile /\ JudgedAs(s, t)
  BY <1>1, <1>2, <1>9 DEF JudgedAs, Lifecycle!Next, Lifecycle!Launch
<1>10. CASE Judgement(s, t)
  BY <1>1, <1>2, <1>10 DEF Judgement, Lifecycle!Next, Lifecycle!Assess, Lifecycle!Verdicts
<1>11. CASE /\ s.phase # "Archived" /\ t.phase = "Archived"
            /\ t.log.profile = s.log.profile /\ JudgedAs(s, t)
  BY <1>1, <1>2, <1>11 DEF JudgedAs, Lifecycle!Next, Lifecycle!Archive
<1>12. CASE t.phase = "Standby" /\ t.log.profile = "None" /\ ~t.ready
  BY <1>12 DEF Lifecycle!Next, Lifecycle!Reset
<1>13. QED
  BY <1>3, <1>4, <1>5, <1>6, <1>7, <1>8, <1>9, <1>10, <1>11, <1>12 DEF Course

\* SimulationSession implements the lifecycle of the engagement: whatever is
\* called in whatever order, operator and review see only its steps.
THEOREM SessionImplementsLifecycle == Spec => ImplementsLifecycle
<1>1. Init => Lifecycle!Init
  BY InitLifecycle
<1>2. IInv /\ IInv' /\ Drawn(session) /\ [Next]_vars => [Lifecycle!Next]_Lifecycle!vars
  BY NextCourse, CourseLifecycle
<1>3. QED
  BY <1>1, <1>2, SpecDrawn, PTL DEF Spec, ImplementsLifecycle, Lifecycle!Spec

--------------------------------------------------------------------------------
(****************************************************************************)
(* The finality of the verdict.  The artifacts read the track off the log   *)
(* only if it holds a track event: from the interceptor's readiness on one  *)
(* is there, so that the last snapshot is not asked.                        *)
(****************************************************************************)

\* From InterceptorReady to the verdict and after it, the log has a profile.
ProfileKnown(s) ==
    s.phase \in {"InterceptorReady", "EngageOrdered", "Intercepting"} \/ s.ready
        => s.log.profile # "None"

\* Every step of the course keeps it: readiness takes a track, acquired by an event.
LEMMA CourseProfileKnown ==
    ASSUME NEW s \in Session, NEW t \in Session, PhaseFacts(s), ProfileFacts(s),
           ProfileKnown(s), Course(s, t)
    PROVE  ProfileKnown(t)
<1>1. /\ s.ready => s.phase \in {"Assessed", "Archived"}
      /\ s.phase = "Tracking" /\ s.track.active => s.log.profile = "Tracked"
  BY DEF PhaseFacts, PreLaunch, ProfileFacts
<1>2. CASE SameCourse(s, t)
  BY <1>2 DEF SameCourse, JudgedAs, ProfileKnown
<1>3. CASE Judgement(s, t)
  BY <1>3 DEF Judgement, ProfileKnown
<1>4. CASE ~SameCourse(s, t) /\ ~Judgement(s, t)
  BY <1>1, <1>4 DEF Course, JudgedAs, ProfileKnown
<1>5. QED
  BY <1>2, <1>3, <1>4

\* The profile is known throughout.
LEMMA SpecProfileKnown == Spec => [](IInv /\ Drawn(session) /\ ProfileKnown(session))
<1>1. Init => ProfileKnown(session)
  BY DEF Init, NewSession, ProfileKnown
<1>2. IInv /\ IInv' /\ Drawn(session) /\ ProfileKnown(session) /\ [Next]_vars
        => ProfileKnown(session)'
  BY NextCourse, CourseProfileKnown DEF IInv, TypeOK, MissionFacts
<1>3. QED
  BY <1>1, <1>2, SpecDrawn, PTL DEF Spec

\* No late or rejected command, client, tick or archive alters a verdict, its
\* order or the track the artifacts report with it; a reset takes it back.
THEOREM VerdictsFinal == Spec => VerdictFinal
<1> DEFINE Final ==
       session.ready =>
          \/ /\ session'.ready /\ session'.code = session.code
             /\ session'.order = session.order
             /\ ArtifactTrackActive(session') = ArtifactTrackActive(session)
          \/ session'.phase = "Standby"
<1>1. IInv /\ Drawn(session) /\ ProfileKnown(session) /\ [Next]_vars => Final
  <2> SUFFICES ASSUME IInv, Drawn(session), ProfileKnown(session), [Next]_vars, session.ready,
                      session'.phase # "Standby"
               PROVE  /\ session'.ready /\ session'.code = session.code
                      /\ session'.order = session.order
                      /\ ArtifactTrackActive(session') = ArtifactTrackActive(session)
    OBVIOUS
  <2>1. Course(session, session')
    BY NextCourse
  <2>2. session.phase \in {"Assessed", "Archived"} /\ session.log.profile # "None"
    BY DEF IInv, MissionFacts, PhaseFacts, ProfileKnown
  <2>3. JudgedAs(session, session') /\ session'.log.profile = session.log.profile
    BY <2>1, <2>2 DEF Course, SameCourse, Judgement
  <2>4. QED
    BY <2>2, <2>3 DEF JudgedAs, ArtifactTrackActive
<1>2. QED
  BY <1>1, SpecProfileKnown, PTL DEF Spec, VerdictFinal

--------------------------------------------------------------------------------
(****************************************************************************)
(* The age of the track.  The sensor's schedule has a period of 15 ticks,   *)
(* of which it delivers at 0, 3, 6 and 12; the tick's place in the period   *)
(* bounds how old a measurement can be.  One sample more is skipped by the  *)
(* tick that archives an assessed run, and no later one by the same run.    *)
(****************************************************************************)

\* A run that was archived with a verdict: it may have skipped a sample.
Late(s) == s.phase = "Archived" /\ s.ready

\* The ticks since the last sample of the schedule, at place r of its period.
SinceSample(r) == r - (IF r < 3 THEN 0 ELSE IF r < 6 THEN 3 ELSE IF r < 12 THEN 6 ELSE 12)

\* The same if one sample was skipped, whichever it was.
SinceSkipped(r) == r - (IF r < 3 THEN -2 ELSE IF r < 6 THEN 1 ELSE IF r < 12 THEN 4 ELSE 7)

\* A held track is as old as its place in the period allows.
Aged(s) ==
    LET r == s.tick % 15
    IN  s.track.active =>
           IF Late(s)
           THEN s.track.age <= SinceSkipped(r) /\ s.track.missed <= IF r < 9 THEN 0 ELSE 1
           ELSE s.track.age <= SinceSample(r) /\ s.track.missed <= IF r \in 9 .. 11 THEN 1 ELSE 0

\* The bounds as TrackFacts states them.
LEMMA AgedFresh ==
    ASSUME NEW s \in Session, Aged(s)
    PROVE  TrackFacts(s)
<1>1. /\ s.tick \in Nat /\ s.tick % 15 \in 0 .. 14
      /\ s.track.age \in Nat /\ s.track.missed \in Nat
  BY DEF Session, TrackState
<1>2. QED
  BY <1>1 DEF Aged, Late, SinceSample, SinceSkipped, TrackFacts

\* measurement_available in terms of the place in the period.
LEMMA SamplePlaces ==
    ASSUME NEW n \in Nat
    PROVE  /\ MeasurementAvailable(n) <=> n % 15 \in {0, 3, 6, 12}
           /\ MeasurementDue(n) <=> n % 15 \in {0, 3, 6, 9, 12}
           /\ n % 15 \in 0 .. 14
           /\ (n + 1) % 15 = IF n % 15 = 14 THEN 0 ELSE (n % 15) + 1
BY SMT DEF MeasurementAvailable, MeasurementDue

\* The course never takes a skipped sample back, but with the track.
LEMMA CourseLate ==
    ASSUME NEW s \in Session, NEW t \in Session, PhaseFacts(t), Course(s, t),
           t.track.active, Late(s)
    PROVE  Late(t)
<1>1. t.phase # "Standby"
  BY DEF PhaseFacts
<1>2. QED
  BY <1>1 DEF Course, SameCourse, JudgedAs, Judgement, Late

\* Without a tick, a track is kept, taken up anew or dropped.
TrackKept(s, t) ==
    ~t.track.active \/ t.track = SeededTrack \/ (t.tick = s.tick /\ t.track = s.track)

\* ... and then stays within its bounds.
LEMMA TrackKeptAged ==
    ASSUME NEW s \in Session, NEW t \in Session, PhaseFacts(t), Course(s, t),
           Aged(s), TrackKept(s, t)
    PROVE  Aged(t)
<1>1. /\ s.tick \in Nat /\ t.tick \in Nat /\ s.track.age \in Nat /\ s.track.missed \in Nat
      /\ s.track.active \in BOOLEAN /\ t.track.active \in BOOLEAN
  BY DEF Session, TrackState
<1>2. s.tick % 15 \in 0 .. 14 /\ t.tick % 15 \in 0 .. 14
  BY <1>1, SamplePlaces
<1>3. CASE ~t.track.active
  BY <1>3 DEF Aged
<1>4. CASE t.track = SeededTrack
  BY <1>2, <1>4 DEF Aged, SeededTrack, SinceSample, SinceSkipped
<1>5. CASE t.track.active /\ t.tick = s.tick /\ t.track = s.track
  <2>1. Late(s) => Late(t)
    BY <1>5, CourseLate
  <2>2. QED
    BY <1>1, <1>2, <1>5, <2>1 DEF Aged, SinceSample, SinceSkipped
<1>6. QED
  BY <1>1, <1>3, <1>4, <1>5 DEF TrackKept

\* update_track_state at a tick keeps the bounds.
LEMMA UpdatedTrackAged ==
    ASSUME NEW s \in Session, NEW t \in Session, PhaseFacts(t), Course(s, t), Aged(s),
           s.track.active, t.tick = s.tick + 1, t.track = UpdatedTrack(s.track, s.tick + 1)
    PROVE  Aged(t)
<1> DEFINE r == s.tick % 15
           q == t.tick % 15
           a == s.track.age
           m == s.track.missed
<1>1. s.tick \in Nat /\ t.tick \in Nat /\ a \in Nat /\ m \in Nat /\ s.track \in TrackState
  BY DEF Session, TrackState
<1>2. r \in 0 .. 14 /\ q = IF r = 14 THEN 0 ELSE r + 1
  BY <1>1, SamplePlaces
<1>3. /\ MeasurementAvailable(s.tick + 1) <=> q \in {0, 3, 6, 12}
      /\ MeasurementDue(s.tick + 1) <=> q \in {0, 3, 6, 9, 12}
  BY <1>1, SamplePlaces
<1>4. t.track.active => (Late(s) => Late(t))
  BY CourseLate
<1>5. CASE q \in {0, 3, 6, 12}
  <2>1. t.track.age = 0 /\ t.track.missed = 0
    BY <1>1, <1>3, <1>5 DEF UpdatedTrack, TrackState
  <2>2. QED
    BY <1>2, <1>5, <2>1 DEF Aged, SinceSample, SinceSkipped
<1>6. CASE q \notin {0, 3, 6, 12}
  <2>1. t.track.age = a + 1 /\ t.track.missed = (IF q = 9 THEN m + 1 ELSE m)
        /\ t.track.active = s.track.active
    BY <1>1, <1>2, <1>3, <1>6 DEF UpdatedTrack, TrackState
  <2>2. CASE Late(s)
    <3>1. Late(t) /\ a <= SinceSkipped(r) /\ m <= IF r < 9 THEN 0 ELSE 1
      BY <1>4, <2>1, <2>2 DEF Aged
    <3>2. t.track.age <= SinceSkipped(q) /\ t.track.missed <= IF q < 9 THEN 0 ELSE 1
      BY <1>1, <1>2, <1>6, <2>1, <3>1 DEF SinceSkipped
    <3>3. QED
      BY <3>1, <3>2 DEF Aged
  <2>3. CASE ~Late(s)
    <3>1. a <= SinceSample(r) /\ m <= IF r \in 9 .. 11 THEN 1 ELSE 0
      BY <2>3 DEF Aged
    <3>2. /\ t.track.age <= SinceSample(q) /\ SinceSample(q) <= SinceSkipped(q)
          /\ t.track.missed <= IF q \in 9 .. 11 THEN 1 ELSE 0
          /\ t.track.missed <= IF q < 9 THEN 0 ELSE 1
      BY <1>1, <1>2, <1>6, <2>1, <3>1 DEF SinceSample, SinceSkipped
    <3>3. SinceSample(q) \in Int /\ SinceSkipped(q) \in Int /\ t.track.age \in Nat
      BY <1>1, <1>2, <2>1 DEF SinceSample, SinceSkipped
    <3>4. QED
      BY <3>2, <3>3 DEF Aged
  <2>4. QED
    BY <2>2, <2>3
<1>7. QED
  BY <1>5, <1>6

\* The tick that archives an assessed run skips at most the sample due at it.
LEMMA SkippedSampleAged ==
    ASSUME NEW s \in Session, NEW t \in Session, Aged(s), ~Late(s), Late(t),
           t.tick = s.tick + 1, t.track = s.track
    PROVE  Aged(t)
<1> DEFINE r == s.tick % 15
           q == t.tick % 15
<1>1. s.tick \in Nat /\ s.track.age \in Nat /\ s.track.missed \in Nat
  BY DEF Session, TrackState
<1>2. r \in 0 .. 14 /\ q = IF r = 14 THEN 0 ELSE r + 1
  BY <1>1, SamplePlaces
<1>3. ASSUME s.track.active
      PROVE  s.track.age <= SinceSkipped(q) /\ s.track.missed <= IF q < 9 THEN 0 ELSE 1
  <2>1. s.track.age <= SinceSample(r) /\ s.track.missed <= IF r \in 9 .. 11 THEN 1 ELSE 0
    BY <1>3 DEF Aged
  <2>2. QED
    BY <1>1, <1>2, <2>1 DEF SinceSample, SinceSkipped
<1>4. QED
  BY <1>3 DEF Aged

\* Every command keeps the track, takes one up anew or drops it.
LEMMA CommandsKeepTrack ==
    ASSUME NEW s \in Session
    PROVE  /\ TrackKept(s, RejectCommand(s)) /\ TrackKept(s, StartScenario(s))
           /\ TrackKept(s, ResetSession(s))
           /\ TrackKept(s, RequestTrack(s)) /\ TrackKept(s, ReleaseTrack(s))
           /\ TrackKept(s, ActivateAsset(s)) /\ TrackKept(s, IssueCommand(s))
           /\ TrackKept(s, ArchiveSession(s))
<1>1. TrackKept(s, RejectCommand(s))
  BY RejectionsPicture DEF SamePicture, TrackKept
<1>2. ASSUME NEW u \in Session, NEW type \in EventType, NEW tracked \in BOOLEAN,
             TrackKept(s, u)
      PROVE  /\ TrackKept(s, RecordSnapshot(u))
             /\ TrackKept(s, RecordSnapshot(PushEvent(u, type)))
             /\ TrackKept(s, RecordSnapshot(PushTrackEvent(u, type, tracked)))
  BY <1>2, RecordSnapshotSame, PublishCourse DEF SameRecord, SameMission, TrackKept
<1>3. ~ClearedTrack.active /\ "TrackUpdated" \in EventType /\ "SessionStarted" \in EventType
      /\ "InterceptorUpdated" \in EventType /\ "EngageOrderAccepted" \in EventType
      /\ "SessionEnded" \in EventType
  BY DEF ClearedTrack, EventType
<1>4. TrackKept(s, StartScenario(s))
  <2> DEFINE u == [s EXCEPT !.phase = "Detecting", !.targetActive = TRUE,
                            !.track = ClearedTrack, !.interceptor = "Idle",
                            !.order = "None", !.ready = FALSE, !.code = "Pending"]
  <2>1. u \in Session /\ u.track = ClearedTrack
    BY TrackConstantsType, ZenonT(40)
    DEF Session, SessionPhase, InterceptorStatus, EngageOrderStatus, AssessmentCode
  <2>2. StartScenario(s) \in {RejectCommand(s), RecordSnapshot(PushEvent(u, "SessionStarted"))}
    BY DEF StartScenario
  <2> HIDE DEF u
  <2>3. TrackKept(s, u)
    BY <1>3, <2>1 DEF TrackKept
  <2>4. QED
    BY <1>1, <1>2, <1>3, <2>1, <2>2, <2>3
<1>5. TrackKept(s, ResetSession(s))
  <2>1. PhaseFacts(ResetSession(s)) /\ ResetSession(s).phase = "Standby"
    BY ResetSessionFacts, ResetSessionCourse DEF MissionFacts
  <2>2. QED
    BY <2>1 DEF PhaseFacts, TrackKept
<1>6. TrackKept(s, RequestTrack(s)) /\ TrackKept(s, ReleaseTrack(s))
  <2>1. ASSUME NEW p \in SessionPhase, NEW t \in {SeededTrack, ClearedTrack},
               NEW tracked \in BOOLEAN
        PROVE  TrackKept(s, RecordSnapshot(PushTrackEvent([s EXCEPT !.track = t, !.phase = p],
                                                          "TrackUpdated", tracked)))
    <3> DEFINE u == [s EXCEPT !.track = t, !.phase = p]
    <3>1. u \in Session /\ u.track = t
      BY TrackConstantsType DEF Session
    <3> HIDE DEF u
    <3>2. TrackKept(s, u)
      BY <1>3, <3>1 DEF TrackKept
    <3>3. TrackKept(s, RecordSnapshot(PushTrackEvent(u, "TrackUpdated", tracked)))
      BY <1>2, <1>3, <3>1, <3>2
    <3>4. QED
      BY <3>3 DEF u
  <2>2. /\ (IF s.phase = "Detecting" THEN "Tracking" ELSE s.phase) \in SessionPhase
        /\ (IF s.phase = "Tracking" THEN "Detecting" ELSE s.phase) \in SessionPhase
    BY DEF Session, SessionPhase
  <2>3. TrackKept(s, RequestTrack(s))
    BY <1>1, <2>1, <2>2 DEF RequestTrack
  <2>4. TrackKept(s, ReleaseTrack(s))
    BY <1>1, <2>1, <2>2 DEF ReleaseTrack
  <2>5. QED
    BY <2>3, <2>4
<1>7. TrackKept(s, ActivateAsset(s))
  <2> DEFINE u == [s EXCEPT !.interceptor = "Ready", !.assetActive = TRUE,
                            !.phase = "InterceptorReady"]
  <2>1. u \in Session /\ TrackKept(s, u)
    BY DEF Session, InterceptorStatus, SessionPhase, TrackKept
  <2>2. ActivateAsset(s) \in {RejectCommand(s), RecordSnapshot(PushEvent(u, "InterceptorUpdated"))}
    BY DEF ActivateAsset
  <2> HIDE DEF u
  <2>3. QED
    BY <1>1, <1>2, <1>3, <2>1, <2>2
<1>8. TrackKept(s, IssueCommand(s))
  <2> DEFINE u == [s EXCEPT !.order = "Accepted", !.phase = "EngageOrdered", !.started = s.tick]
  <2>1. u \in Session /\ TrackKept(s, u) /\ s.track.active \in BOOLEAN
    BY DEF Session, TrackState, EngageOrderStatus, SessionPhase, TrackKept
  <2>2. IssueCommand(s) \in {RejectCommand(s),
           RecordSnapshot(PushTrackEvent(u, "EngageOrderAccepted", s.track.active))}
    BY DEF IssueCommand
  <2> HIDE DEF u
  <2>3. QED
    BY <1>1, <1>2, <1>3, <2>1, <2>2
<1>9. TrackKept(s, ArchiveSession(s))
  <2> DEFINE u == [s EXCEPT !.phase = "Archived"]
  <2>1. u \in Session /\ TrackKept(s, u) /\ TrackKept(s, s)
    BY DEF Session, SessionPhase, TrackKept
  <2>2. ArchiveSession(s) \in {s, RecordSnapshot(PushEvent(u, "SessionEnded"))}
    BY DEF ArchiveSession
  <2> HIDE DEF u
  <2>3. QED
    BY <1>2, <1>3, <2>1, <2>2
<1>10. QED
  BY <1>1, <1>4, <1>5, <1>6, <1>7, <1>8, <1>9

\* What advance_tick does to a track it starts with.
LEMMA AdvanceTickTrack ==
    ASSUME NEW s \in Session, NEW hit \in BOOLEAN, NEW inFov \in BOOLEAN
    PROVE  LET t == AdvanceTick(s, hit, inFov)
           IN  /\ t.tick = s.tick + 1
               /\ IF s.phase = "Assessed" THEN t.track = s.track /\ t.phase = "Archived"
                                               /\ t.ready = s.ready
                  ELSE \/ ~t.track.active
                       \/ s.track.active /\ t.track = UpdatedTrack(s.track, s.tick + 1)
<1> DEFINE t == AdvanceTick(s, hit, inFov)
<1>1. CASE s.phase = "Assessed"
  <2> DEFINE a == [s EXCEPT !.tick = @ + 1]
             u == [a EXCEPT !.phase = "Archived"]
  <2>1. s.tick + 1 \in Nat
    BY DEF Session
  <2>2. /\ a \in Session /\ a.phase = "Assessed" /\ a.tick = s.tick + 1
        /\ a.track = s.track /\ a.ready = s.ready
    BY <1>1, <2>1 DEF Session
  <2>3. t = ArchiveSession(a)
    BY <1>1 DEF AdvanceTick
  <2> HIDE DEF a
  <2>4. ArchiveSession(a) = RecordSnapshot(PushEvent(u, "SessionEnded"))
    BY <2>2 DEF ArchiveSession
  <2>5. /\ u \in Session /\ u.phase = "Archived" /\ u.tick = a.tick /\ u.track = a.track
        /\ u.ready = a.ready
    BY <2>2 DEF Session, SessionPhase
  <2> HIDE DEF u
  <2>6. SameRecord(u, RecordSnapshot(PushEvent(u, "SessionEnded")))
    BY <2>5, PublishCourse DEF EventType
  <2> HIDE DEF t
  <2>7. /\ t.tick = s.tick + 1 /\ t.track = s.track /\ t.phase = "Archived"
        /\ t.ready = s.ready
    BY <2>2, <2>3, <2>4, <2>5, <2>6 DEF SameRecord, SameMission
  <2>8. QED
    BY <1>1, <2>7 DEF t
<1>2. CASE s.phase # "Assessed"
  <2> DEFINE a == Launched(s)
             b == SeekerUpdated(a, inFov)
             c == Assessed(b, hit)
             d == GapExercised(c)
             v == [b EXCEPT !.targetActive = FALSE, !.track.active = FALSE, !.seekerLock = FALSE]
  <2>1. t = RecordSnapshot(d)
    BY <1>2 DEF AdvanceTick
  <2>2. /\ a \in Session /\ a.tick = s.tick + 1
        /\ a.track = IF s.track.active THEN UpdatedTrack(s.track, s.tick + 1) ELSE s.track
    <3>1. /\ Launched(s).tick = s.tick + 1
          /\ Launched(s).track
                = IF s.track.active THEN UpdatedTrack(s.track, s.tick + 1) ELSE s.track
      BY DEF Launched, Session
    <3>2. QED
      BY <3>1, LaunchedType
  <2> HIDE DEF a, t
  <2>3. b \in Session /\ b.tick = a.tick /\ b.track = a.track
    BY <2>2, SeekerUpdatedType, SMTT(30) DEF SeekerUpdated, Session
  <2> HIDE DEF b
  <2>4. c \in Session /\ c.tick = b.tick /\ (c.track = b.track \/ ~c.track.active)
    <3>1. [b.track EXCEPT !.active = FALSE] \in TrackState
          /\ ~[b.track EXCEPT !.active = FALSE].active
      BY <2>3 DEF Session, TrackState
    <3>2. v \in Session /\ v.tick = b.tick /\ ~v.track.active
      BY <2>3, <3>1 DEF Session
    <3>3. c \in {b, Verdict(v, "InterceptSuccess"), Verdict(b, "TimeoutObserved")}
      BY DEF Assessed
    <3>4. ASSUME NEW w \in Session, NEW code \in AssessmentCode
          PROVE  Verdict(w, code).tick = w.tick /\ Verdict(w, code).track = w.track
      BY DEF Verdict, PushEvent, Session
    <3>5. "InterceptSuccess" \in AssessmentCode /\ "TimeoutObserved" \in AssessmentCode
      BY DEF AssessmentCode
    <3>6. c \in Session
      BY <2>3, AssessedType
    <3> HIDE DEF c, v
    <3>7. QED
      BY <2>3, <3>2, <3>3, <3>4, <3>5, <3>6
  <2> HIDE DEF c, v
  <2>5. d \in Session /\ d.tick = c.tick /\ d.track = c.track
    BY <2>4, GapExercisedType DEF GapExercised, PushEvent, Session
  <2> HIDE DEF d
  <2>6. t.tick = d.tick /\ t.track = d.track
    BY <2>1, <2>5, RecordSnapshotSame DEF SameRecord, SameMission
  <2>7. s.track.active \in BOOLEAN
    BY DEF Session, TrackState
  <2>8. /\ t.tick = s.tick + 1
        /\ \/ ~t.track.active
           \/ s.track.active /\ t.track = UpdatedTrack(s.track, s.tick + 1)
    BY <2>2, <2>3, <2>4, <2>5, <2>6, <2>7
  <2>9. QED
    BY <1>2, <2>8 DEF t
<1>3. QED
  BY <1>1, <1>2

\* Every method keeps a held track within its bounds.
LEMMA NextAged ==
    IInv /\ IInv' /\ Drawn(session) /\ Aged(session) /\ [Next]_vars => Aged(session)'
<1> SUFFICES ASSUME session \in Session, session' \in Session, MissionFacts(session),
                    MissionFacts(session'), Drawn(session), Aged(session), [Next]_vars
             PROVE  Aged(session')
  BY DEF IInv, TypeOK
<1>1. PhaseFacts(session) /\ PhaseFacts(session') /\ Course(session, session')
  BY NextCourse DEF MissionFacts, IInv, TypeOK
<1>2. ASSUME TrackKept(session, session')
      PROVE  Aged(session')
  BY <1>1, <1>2, TrackKeptAged
<1>3. ASSUME NEW role \in Clients, Connect(role) \/ Disconnect(role) \/ Timeout(role)
      PROVE  TrackKept(session, session')
  <2>1. role \in ClientRole
    BY ClientsAreRoles DEF ClientsAreRoles
  <2>2. SameRecord(session, session')
    BY <1>3, <2>1, ClientsSame DEF Connect, Disconnect, Timeout
  <2>3. QED
    BY <2>2 DEF SameRecord, SameMission, TrackKept
<1>4. CASE ConfigureAndStart
  <2>1. PICK t \in EngagementTimeouts :
           session' = StartScenario(ConfigureScenario(session, t))
    BY <1>4 DEF ConfigureAndStart
  <2> DEFINE c == ConfigureScenario(session, t)
  <2>2. c \in Session /\ SamePicture(session, c)
    BY <1>4, ConfigureScenarioType, ConfigureScenarioPicture DEF ConfigureAndStart
  <2>3. session' = StartScenario(c)
    BY <2>1
  <2> HIDE DEF c
  <2>4. TrackKept(c, session')
    BY <2>2, <2>3, CommandsKeepTrack
  <2>5. TrackKept(session, session')
    BY <2>2, <2>4 DEF SamePicture, TrackKept
  <2>6. QED
    BY <1>2, <2>5
<1>5. CASE \/ Start \/ Reset \/ AcquireTrack \/ DropTrack \/ MakeReady \/ Engage \/ Archive
  <2>1. TrackKept(session, session')
    BY <1>5, CommandsKeepTrack
    DEF Start, Reset, AcquireTrack, DropTrack, MakeReady, Engage, Archive
  <2>2. QED
    BY <1>2, <2>1
<1>6. CASE TransportRejection
  <2>1. TrackKept(session, session')
    BY <1>6, RejectionsPicture DEF TransportRejection, SamePicture, TrackKept
  <2>2. QED
    BY <1>2, <2>1
<1>7. CASE Tick
  <2>1. PICK hit \in BOOLEAN, inFov \in BOOLEAN : session' = AdvanceTick(session, hit, inFov)
    BY <1>7 DEF Tick
  <2>2. /\ session'.tick = session.tick + 1
        /\ IF session.phase = "Assessed"
           THEN session'.track = session.track /\ session'.phase = "Archived"
                /\ session'.ready = session.ready
           ELSE \/ ~session'.track.active
                \/ /\ session.track.active
                   /\ session'.track = UpdatedTrack(session.track, session.tick + 1)
    BY <2>1, AdvanceTickTrack
  <2>3. CASE session.phase = "Assessed"
    <3>1. session.ready
      BY <1>1, <2>3 DEF PhaseFacts
    <3>2. ~Late(session) /\ Late(session')
      BY <2>2, <2>3, <3>1 DEF Late
    <3>3. QED
      BY <2>2, <2>3, <3>2, SkippedSampleAged
  <2>4. CASE session.phase # "Assessed" /\ ~session'.track.active
    BY <1>2, <2>4 DEF TrackKept
  <2>5. CASE /\ session.phase # "Assessed" /\ session.track.active
             /\ session'.track = UpdatedTrack(session.track, session.tick + 1)
    BY <1>1, <2>2, <2>5, UpdatedTrackAged
  <2>6. QED
    BY <2>2, <2>3, <2>4, <2>5
<1>8. CASE UNCHANGED vars
  BY <1>8 DEF vars
<1>9. QED
  BY <1>2, <1>3, <1>4, <1>5, <1>6, <1>7, <1>8 DEF Next

\* However long a run, a held track is at most five ticks past its last sample,
\* seven in a run archived with its verdict, and has missed at most one.
THEOREM TracksFresh == Spec => []TrackFresh
<1>1. Init => Aged(session)
  <2> SUFFICES ASSUME NEW t \in EngagementTimeouts, session = NewSession(t)
               PROVE  Aged(session)
    BY DEF Init
  <2>1. ~session.track.active
    BY DEF NewSession, ClearedTrack
  <2>2. QED
    BY <2>1 DEF Aged
<1>2. IInv /\ IInv' /\ Drawn(session) /\ Aged(session) /\ [Next]_vars => Aged(session)'
  BY NextAged
<1>3. IInv /\ Aged(session) => TrackFresh
  BY AgedFresh DEF IInv, TypeOK, TrackFresh
<1>4. QED
  BY <1>1, <1>2, <1>3, SpecDrawn, PTL DEF Spec

--------------------------------------------------------------------------------
(****************************************************************************)
(* The log.  Every method enters its events and moves the phase in one      *)
(* step, so that the phase tells which milestones are in the log, and each  *)
(* flag of the resilience case comes with its event.                        *)
(****************************************************************************)

\* The log and the flags of the resilience case agree with the session.
Counted(s) == LogFacts(s) /\ ResilienceFacts(s)

\* The flags of the resilience case.
SameFlags(s, t) ==
    /\ t.reconnectExercised = s.reconnectExercised
    /\ t.timeoutExercised = s.timeoutExercised
    /\ t.gapExercised = s.gapExercised

\* From s to t exactly one event was entered, of the given type.
Entered(s, t, type) ==
    \A e \in EventType : t.log.count[e] = IF e = type THEN s.log.count[e] + 1 ELSE s.log.count[e]

\* What the facts of the log say in s, they say in t: nothing they speak of differs.
SameTally(s, t) ==
    t.log.count = s.log.count /\ SameFlags(s, t) /\ t.phase = s.phase /\ t.ready = s.ready

\* push_event enters its event, and record_snapshot none.
LEMMA PushEventEntered ==
    ASSUME NEW s \in Session, NEW type \in EventType, NEW tracked \in BOOLEAN
    PROVE  /\ Entered(s, PushEvent(s, type), type) /\ SameFlags(s, PushEvent(s, type))
           /\ Entered(s, PushTrackEvent(s, type, tracked), type)
           /\ SameFlags(s, PushTrackEvent(s, type, tracked))
<1> DEFINE p == PushEvent(s, type)
           q == PushTrackEvent(s, type, tracked)
           l == Logged(s.log, type)
<1>1. /\ l \in EventLog
      /\ \A e \in EventType : l.count[e] = IF e = type THEN s.log.count[e] + 1 ELSE s.log.count[e]
  BY LoggedType DEF Logged, Session, EventLog
<1>2. p.log = l /\ SameFlags(s, p)
  BY DEF PushEvent, Session, SameFlags
<1>3. /\ q.log = [l EXCEPT !.profile = IF tracked THEN "Tracked" ELSE "Untracked"]
      /\ SameFlags(s, q)
  BY DEF PushTrackEvent, Session, SameFlags
<1> HIDE DEF l, p, q
<1>4. q.log.count = l.count
  BY <1>1, <1>3 DEF EventLog
<1>5. QED
  BY <1>1, <1>2, <1>3, <1>4 DEF Entered, p, q

LEMMA RecordSnapshotTally ==
    ASSUME NEW s \in Session
    PROVE  SameTally(s, RecordSnapshot(s))
BY DEF SameTally, SameFlags, RecordSnapshot, Session

LEMMA SameTallyCounted ==
    ASSUME NEW s, NEW t, SameTally(s, t), Counted(s)
    PROVE  Counted(t)
BY DEF SameTally, SameFlags, Counted, LogFacts, ResilienceFacts

\* Two sessions agree on all the facts of the log speak of, but for the log.
SameStage(s, t) == SameFlags(s, t) /\ t.phase = s.phase /\ t.ready = s.ready

\* An event and a snapshot, as most operations end.
LEMMA PublishEntered ==
    ASSUME NEW u \in Session, NEW type \in EventType, NEW tracked \in BOOLEAN
    PROVE  /\ Entered(u, RecordSnapshot(PushEvent(u, type)), type)
           /\ SameStage(u, RecordSnapshot(PushEvent(u, type)))
           /\ Entered(u, RecordSnapshot(PushTrackEvent(u, type, tracked)), type)
           /\ SameStage(u, RecordSnapshot(PushTrackEvent(u, type, tracked)))
<1> DEFINE p == PushEvent(u, type)
           q == PushTrackEvent(u, type, tracked)
<1>1. /\ p \in Session /\ Entered(u, p, type) /\ SameFlags(u, p)
      /\ q \in Session /\ Entered(u, q, type) /\ SameFlags(u, q)
  BY PushEventType, PushTrackEventType, PushEventEntered
<1>2. p.phase = u.phase /\ p.ready = u.ready /\ q.phase = u.phase /\ q.ready = u.ready
  BY DEF PushEvent, PushTrackEvent, Session
<1> HIDE DEF p, q
<1>3. SameTally(p, RecordSnapshot(p)) /\ SameTally(q, RecordSnapshot(q))
  BY <1>1, RecordSnapshotTally
<1>4. QED
  BY <1>1, <1>2, <1>3 DEF Entered, SameTally, SameFlags, SameStage, p, q

\* A rejection is an event of its own kind, which no fact of the log is about.
LEMMA RejectionsCounted ==
    ASSUME NEW s \in Session, Counted(s)
    PROVE  Counted(RejectCommand(s)) /\ Counted(RecordTransportRejection(s))
<1> DEFINE logged == PushEvent(s, "EngageOrderRejected")
           refused == [logged EXCEPT !.order = "Rejected", !.code = "InvalidTransition"]
<1>1. "EngageOrderRejected" \in EventType
  BY DEF EventType
<1>2. /\ logged \in Session /\ Entered(s, logged, "EngageOrderRejected") /\ SameFlags(s, logged)
      /\ logged.phase = s.phase /\ logged.ready = s.ready
  BY <1>1, PushEventType, PushEventEntered, PushEventSame DEF SameRecord, SameMission
<1>3. RejectCommand(s) \in {logged, refused} /\ RecordTransportRejection(s) = logged
  BY DEF RejectCommand, RecordTransportRejection
<1> HIDE DEF logged
<1>4. SameTally(logged, refused)
  BY <1>2 DEF Session, SameTally, SameFlags
<1>5. Counted(logged)
  BY <1>2 DEF Entered, EventType, SameFlags, Counted, LogFacts, ResilienceFacts
<1>6. QED
  BY <1>3, <1>4, <1>5, SameTallyCounted

\* The timeouts among the resilience events: what is neither a reconnection nor
\* the rehearsed gap.
Timeouts(s) ==
    s.log.count["ResilienceTriggered"] - s.log.count["ClientReconnected"]
        - (IF s.gapExercised THEN 1 ELSE 0)

\* The facts of the resilience case, each flag read as a statement.
LEMMA ResilienceRead ==
    ASSUME NEW s \in Session
    PROVE  ResilienceFacts(s) <=>
              /\ s.reconnectExercised <=> s.log.count["ClientReconnected"] > 0
              /\ s.timeoutExercised <=> Timeouts(s) > 0
              /\ Timeouts(s) >= 0
<1> DEFINE back == s.log.count["ClientReconnected"] > 0
           late == Timeouts(s) > 0
<1>1. ResilienceFacts(s) <=> /\ s.reconnectExercised = back /\ s.timeoutExercised = late
                             /\ Timeouts(s) >= 0
  BY DEF ResilienceFacts, Timeouts
<1>2. /\ s.reconnectExercised \in BOOLEAN /\ s.timeoutExercised \in BOOLEAN
      /\ back \in BOOLEAN /\ late \in BOOLEAN
  BY DEF Session
<1> HIDE DEF back, late
<1>3. /\ (s.reconnectExercised = back) <=> (s.reconnectExercised <=> back)
      /\ (s.timeoutExercised = late) <=> (s.timeoutExercised <=> late)
  BY <1>2, Zenon
<1>4. QED
  BY <1>1, <1>3 DEF back, late

\* A client that comes back or times out sets its flag and enters its event.
LEMMA ClientsCounted ==
    ASSUME NEW s \in Session, NEW role \in ClientRole, Counted(s)
    PROVE  /\ Counted(ConnectClient(s, role))
           /\ Counted(DisconnectClient(s, role))
           /\ Counted(TimeoutClient(s, role))
<1>1. \A state \in ConnectionState :
         [s.connection EXCEPT ![role] = state] \in [ClientRole -> ConnectionState]
  BY DEF Session
<1>2. Counted(ConnectClient(s, role))
  <2> DEFINE known  == s.joined[role]
             placed == [s EXCEPT !.joined[role] = TRUE,
                                 !.connection[role] = IF known THEN "Reconnected"
                                                      ELSE "Connected",
                                 !.reconnectExercised = @ \/ known]
             back   == PushEvent(placed, "ClientReconnected")
  <2>1. /\ [s.joined EXCEPT ![role] = TRUE] \in [ClientRole -> BOOLEAN]
        /\ (IF known THEN "Reconnected" ELSE "Connected") \in ConnectionState
        /\ (s.reconnectExercised \/ known) \in BOOLEAN
    BY DEF Session, ConnectionState
  <2>2. /\ placed \in Session /\ placed.log = s.log
        /\ placed.phase = s.phase /\ placed.ready = s.ready
        /\ placed.reconnectExercised = (s.reconnectExercised \/ known)
        /\ placed.timeoutExercised = s.timeoutExercised /\ placed.gapExercised = s.gapExercised
    BY <1>1, <2>1 DEF Session
  <2>3. ConnectClient(s, role) = IF known THEN PushEvent(back, "ResilienceTriggered")
                                          ELSE PushEvent(placed, "ClientJoined")
    BY DEF ConnectClient
  <2>4. known \in BOOLEAN
    BY DEF Session
  <2> HIDE DEF placed, known
  <2>5. /\ back \in Session /\ Entered(placed, back, "ClientReconnected") /\ SameFlags(placed, back)
        /\ back.phase = placed.phase /\ back.ready = placed.ready
    BY <2>2, PushEventType, PushEventEntered, PushEventSame DEF EventType, SameRecord, SameMission
  <2>6. CASE known
    <3> DEFINE t == PushEvent(back, "ResilienceTriggered")
    <3> HIDE DEF back
    <3>1. /\ Entered(back, t, "ResilienceTriggered") /\ SameFlags(back, t)
          /\ t.phase = back.phase /\ t.ready = back.ready
      BY <2>5, PushEventEntered, PushEventSame DEF EventType, SameRecord, SameMission
    <3> HIDE DEF t
    <3>2. s.log.count \in [EventType -> Nat]
      BY DEF Session, EventLog
    <3>3. /\ t.log.count["ClientReconnected"] = s.log.count["ClientReconnected"] + 1
          /\ t.log.count["ResilienceTriggered"] = s.log.count["ResilienceTriggered"] + 1
          /\ \A e \in EventType \ {"ClientReconnected", "ResilienceTriggered"} :
                t.log.count[e] = s.log.count[e]
      BY <2>2, <2>5, <3>1 DEF Entered, EventType
    <3>4. /\ t.phase = s.phase /\ t.ready = s.ready /\ t.reconnectExercised
          /\ t.timeoutExercised = s.timeoutExercised /\ t.gapExercised = s.gapExercised
      BY <2>2, <2>5, <2>6, <3>1 DEF SameFlags
    <3>5. LogFacts(t)
      BY <3>3, <3>4 DEF Counted, LogFacts, EventType
    <3>6. ResilienceFacts(t)
      <4>1. t \in Session /\ Timeouts(t) = Timeouts(s) /\ t.log.count["ClientReconnected"] > 0
        BY <2>5, <3>2, <3>3, <3>4, PushEventType DEF Timeouts, EventType, t
      <4>2. QED
        BY <3>4, <4>1, ResilienceRead DEF Counted
    <3>7. QED
      BY <2>3, <2>6, <3>5, <3>6 DEF Counted, t
  <2>7. CASE ~known
    <3> DEFINE t == PushEvent(placed, "ClientJoined")
    <3>1. /\ Entered(placed, t, "ClientJoined") /\ SameFlags(placed, t)
          /\ t.phase = placed.phase /\ t.ready = placed.ready
      BY <2>2, PushEventEntered, PushEventSame DEF EventType, SameRecord, SameMission
    <3> HIDE DEF t
    <3>2. s.reconnectExercised \in BOOLEAN
      BY DEF Session
    <3>3. Counted(t)
      BY <2>2, <2>7, <3>1, <3>2 DEF Entered, EventType, SameFlags, Counted, LogFacts, ResilienceFacts
    <3>4. QED
      BY <2>3, <2>7, <3>3 DEF t
  <2>8. QED
    BY <2>4, <2>6, <2>7
<1>3. Counted(DisconnectClient(s, role))
  <2> DEFINE gone == [s EXCEPT !.connection[role] = "Disconnected"]
  <2>1. gone \in Session /\ SameTally(s, gone)
    BY <1>1 DEF Session, ConnectionState, SameTally, SameFlags
  <2>2. DisconnectClient(s, role) = PushEvent(gone, "ClientLeft")
    BY DEF DisconnectClient
  <2> HIDE DEF gone
  <2> DEFINE t == PushEvent(gone, "ClientLeft")
  <2>3. /\ Entered(gone, t, "ClientLeft") /\ SameFlags(gone, t)
        /\ t.phase = gone.phase /\ t.ready = gone.ready
    BY <2>1, PushEventEntered, PushEventSame DEF EventType, SameRecord, SameMission
  <2> HIDE DEF t
  <2>4. Counted(gone)
    BY <2>1, SameTallyCounted
  <2>5. Counted(t)
    BY <2>3, <2>4 DEF Entered, EventType, SameFlags, Counted, LogFacts, ResilienceFacts
  <2>6. QED
    BY <2>2, <2>5 DEF t
<1>4. Counted(TimeoutClient(s, role))
  <2> DEFINE gone == [s EXCEPT !.connection[role] = "TimedOut", !.timeoutExercised = TRUE]
  <2>1. /\ gone \in Session /\ gone.log = s.log
        /\ gone.phase = s.phase /\ gone.ready = s.ready /\ gone.timeoutExercised
        /\ gone.reconnectExercised = s.reconnectExercised /\ gone.gapExercised = s.gapExercised
    BY <1>1 DEF Session, ConnectionState
  <2>2. TimeoutClient(s, role) = RecordSnapshot(PushEvent(gone, "ResilienceTriggered"))
    BY DEF TimeoutClient
  <2> HIDE DEF gone
  <2> DEFINE t == RecordSnapshot(PushEvent(gone, "ResilienceTriggered"))
  <2>3. Entered(gone, t, "ResilienceTriggered") /\ SameStage(gone, t)
    BY <2>1, PublishEntered DEF EventType
  <2> HIDE DEF t
  <2>4. s.log.count \in [EventType -> Nat] /\ s.timeoutExercised \in BOOLEAN
    BY DEF Session, EventLog
  <2>5. LogFacts(t)
    BY <2>1, <2>3 DEF Entered, EventType, SameStage, Counted, LogFacts
  <2>6. ResilienceFacts(t)
    <3>1. /\ Timeouts(t) = Timeouts(s) + 1 /\ Timeouts(s) \in Int
          /\ t.log.count["ClientReconnected"] = s.log.count["ClientReconnected"]
      BY <2>1, <2>3, <2>4 DEF Timeouts, EventType, Entered, SameStage, SameFlags
    <3>2. /\ t.reconnectExercised = s.reconnectExercised /\ t.timeoutExercised
          /\ t \in Session
      BY <2>1, <2>3, PushEventType, RecordSnapshotType DEF SameStage, SameFlags, EventType, t
    <3>3. QED
      BY <3>1, <3>2, ResilienceRead DEF Counted
  <2>7. QED
    BY <2>2, <2>5, <2>6 DEF Counted, t
<1>5. QED
  BY <1>2, <1>3, <1>4

\* A step that enters one event of the mission keeps the case of the resilience.
LEMMA OtherEventBacked ==
    ASSUME NEW s \in Session, NEW t \in Session, NEW type \in EventType, ResilienceFacts(s),
           type \notin {"ClientReconnected", "ResilienceTriggered"},
           Entered(s, t, type), SameFlags(s, t)
    PROVE  ResilienceFacts(t)
<1>1. /\ t.log.count["ClientReconnected"] = s.log.count["ClientReconnected"]
      /\ Timeouts(t) = Timeouts(s)
  BY DEF Entered, EventType, SameFlags, Timeouts
<1>2. QED
  BY <1>1, ResilienceRead DEF SameFlags

\* start_scenario enters the start in the phase it belongs to.
LEMMA StartScenarioCounted ==
    ASSUME NEW s \in Session, MissionFacts(s), Counted(s)
    PROVE  Counted(StartScenario(s))
<1> DEFINE u == [s EXCEPT !.phase = "Detecting", !.targetActive = TRUE,
                          !.track = ClearedTrack, !.interceptor = "Idle",
                          !.order = "None", !.ready = FALSE, !.code = "Pending"]
           t == RecordSnapshot(PushEvent(u, "SessionStarted"))
<1>1. u \in Session
  BY TrackConstantsType
  DEF Session, SessionPhase, InterceptorStatus, EngageOrderStatus, AssessmentCode
<1>2. /\ u.log = s.log /\ u.phase = "Detecting" /\ u.ready = FALSE /\ SameFlags(s, u)
  BY DEF Session, SameFlags
<1>3. StartScenario(s) = IF s.connection["FireControlConsole"] = "Disconnected" \/ s.phase # "Standby"
                         THEN RejectCommand(s) ELSE t
  BY DEF StartScenario
<1> HIDE DEF u
<1>4. t \in Session /\ Entered(u, t, "SessionStarted") /\ SameStage(u, t)
  BY <1>1, PublishEntered, PushEventType, RecordSnapshotType DEF EventType
<1> HIDE DEF t
<1>5. ASSUME s.phase = "Standby"
      PROVE  Counted(t)
  <2>1. s.log.count \in [EventType -> Nat] /\ ~s.ready
    BY <1>5 DEF Session, EventLog, MissionFacts, PhaseFacts, PreLaunch
  <2>2. Entered(s, t, "SessionStarted") /\ SameFlags(s, t)
    BY <1>2, <1>4 DEF Entered, SameStage, SameFlags
  <2>3. LogFacts(t)
    BY <1>2, <1>4, <1>5, <2>1, <2>2 DEF Entered, EventType, SameStage, Counted, LogFacts
  <2>4. QED
    BY <1>4, <2>2, <2>3, OtherEventBacked DEF Counted, EventType
<1>6. QED
  BY <1>3, <1>5, RejectionsCounted

\* configure_scenario, in standby, changes nothing the log is about.
LEMMA ConfigureScenarioCounted ==
    ASSUME NEW s \in Session, NEW t \in EngagementTimeouts,
           MissionFacts(s), Counted(s), s.phase = "Standby"
    PROVE  Counted(ConfigureScenario(s, t))
<1> DEFINE w == ResetWorld(s)
           c == [w EXCEPT !.timeoutTicks = t]
<1>1. w \in Session /\ w.log = s.log /\ w.phase = s.phase /\ w.ready = FALSE /\ SameFlags(s, w)
  BY ResetWorldType DEF ResetWorld, Session, SameFlags
<1>2. ConfigureScenario(s, t) = c
  BY DEF ConfigureScenario
<1> HIDE DEF w
<1>3. s.ready = FALSE
  BY DEF MissionFacts, PhaseFacts, PreLaunch, Session
<1>4. c.log = w.log /\ c.phase = w.phase /\ c.ready = w.ready /\ SameFlags(w, c)
  BY <1>1 DEF Session, SameFlags
<1>5. SameTally(s, c)
  BY <1>1, <1>3, <1>4 DEF SameTally, SameFlags
<1>6. QED
  BY <1>2, <1>5, SameTallyCounted

\* reset_session empties the log and takes all flags back.
LEMMA ResetSessionCounted ==
    ASSUME NEW s \in Session
    PROVE  Counted(ResetSession(s))
<1> DEFINE w == ResetWorld(s)
           u == [w EXCEPT
                   !.tick = 0, !.phase = "Standby",
                   !.reconnectExercised = FALSE, !.timeoutExercised = FALSE,
                   !.gapExercised = FALSE,
                   !.log = EmptyLog, !.snapshots = 0, !.latest = NoSnapshot,
                   !.connection = [r \in ClientRole |-> Settled(s.connection[r])]]
<1>1. w \in Session /\ w.ready = FALSE
  BY ResetWorldType DEF ResetWorld, Session
<1>2. ResetSession(s) = RecordSnapshot(u)
  BY DEF ResetSession
<1> HIDE DEF w
<1>3. /\ u.phase = "Standby" /\ u.ready = FALSE /\ u.log = EmptyLog
      /\ u.reconnectExercised = FALSE /\ u.timeoutExercised = FALSE /\ u.gapExercised = FALSE
  BY <1>1 DEF Session
<1>4. /\ RecordSnapshot(u).phase = u.phase /\ RecordSnapshot(u).ready = u.ready
      /\ RecordSnapshot(u).log = u.log /\ SameFlags(u, RecordSnapshot(u))
  BY <1>1 DEF RecordSnapshot, Session, SameFlags
<1> HIDE DEF u
<1>5. \A e \in EventType : EmptyLog.count[e] = 0
  BY DEF EmptyLog
<1> DEFINE t == RecordSnapshot(u)
<1>6. /\ t.phase = "Standby" /\ t.ready = FALSE /\ \A e \in EventType : t.log.count[e] = 0
      /\ t.reconnectExercised = FALSE /\ t.timeoutExercised = FALSE /\ t.gapExercised = FALSE
  BY <1>3, <1>4, <1>5 DEF SameFlags
<1>7. t \in Session
  BY <1>2, ResetSessionType
<1> HIDE DEF t
<1>8. LogFacts(t)
  BY <1>6 DEF LogFacts, EventType
<1>9. Timeouts(t) = 0 /\ t.log.count["ClientReconnected"] = 0
  BY <1>6 DEF Timeouts, EventType
<1>10. QED
  BY <1>2, <1>6, <1>7, <1>8, <1>9, ResilienceRead DEF Counted, t

\* A command that is carried out: u is the session with its changes, before the
\* event, with a phase that the log's facts allow.
LEMMA CarriedOutCounted ==
    ASSUME NEW s \in Session, NEW u \in Session, NEW type \in EventType, NEW tracked \in BOOLEAN,
           type \notin {"ClientReconnected", "ResilienceTriggered"},
           ResilienceFacts(s), u.log = s.log, SameFlags(s, u),
           \A t \in Session : Entered(s, t, type) /\ t.phase = u.phase /\ t.ready = u.ready
                               => LogFacts(t)
    PROVE  /\ Counted(RecordSnapshot(PushEvent(u, type)))
           /\ Counted(RecordSnapshot(PushTrackEvent(u, type, tracked)))
<1>1. ASSUME NEW t \in Session, Entered(u, t, type), SameStage(u, t)
      PROVE  Counted(t)
  <2>1. Entered(s, t, type) /\ SameFlags(s, t) /\ t.phase = u.phase /\ t.ready = u.ready
    BY <1>1 DEF Entered, SameStage, SameFlags
  <2>2. QED
    BY <2>1, OtherEventBacked DEF Counted
<1>2. /\ RecordSnapshot(PushEvent(u, type)) \in Session
      /\ RecordSnapshot(PushTrackEvent(u, type, tracked)) \in Session
  BY PushEventType, PushTrackEventType, RecordSnapshotType
<1>3. QED
  BY <1>1, <1>2, PublishEntered

\* A track acquired or dropped is no milestone.
LEMMA TrackCommandsCounted ==
    ASSUME NEW s \in Session, Counted(s)
    PROVE  Counted(RequestTrack(s)) /\ Counted(ReleaseTrack(s))
<1>1. ASSUME NEW p \in SessionPhase, NEW track \in TrackState, NEW tracked \in BOOLEAN,
             s.phase \in {"Detecting", "Tracking", "InterceptorReady"},
             p \in {"Detecting", "Tracking"} \cup {s.phase},
             p = "InterceptorReady" <=> s.phase = "InterceptorReady"
      PROVE  Counted(RecordSnapshot(PushTrackEvent([s EXCEPT !.track = track, !.phase = p],
                                                   "TrackUpdated", tracked)))
  <2> DEFINE u == [s EXCEPT !.track = track, !.phase = p]
  <2>1. u \in Session /\ u.log = s.log /\ SameFlags(s, u) /\ u.phase = p /\ u.ready = s.ready
    BY DEF Session, SameFlags
  <2> HIDE DEF u
  <2>2. ASSUME NEW t \in Session, Entered(s, t, "TrackUpdated"), t.phase = u.phase, t.ready = u.ready
        PROVE  LogFacts(t)
    BY <1>1, <2>1, <2>2 DEF Entered, EventType, Counted, LogFacts
  <2>3. Counted(RecordSnapshot(PushTrackEvent(u, "TrackUpdated", tracked)))
    BY <2>1, <2>2, CarriedOutCounted DEF Counted, EventType
  <2>4. QED
    BY <2>3 DEF u
<1>2. Counted(RequestTrack(s))
  <2> DEFINE p == IF s.phase = "Detecting" THEN "Tracking" ELSE s.phase
             u == [s EXCEPT !.track = SeededTrack, !.phase = p]
  <2>1. CASE s.phase \in {"Detecting", "InterceptorReady"}
    <3>1. /\ p \in SessionPhase /\ p \in {"Detecting", "Tracking"} \cup {s.phase}
          /\ p = "InterceptorReady" <=> s.phase = "InterceptorReady"
      BY <2>1 DEF SessionPhase
    <3>2. Counted(RecordSnapshot(PushTrackEvent(u, "TrackUpdated", TRUE)))
      BY <1>1, <2>1, <3>1, TrackConstantsType
    <3>3. RequestTrack(s) \in
             {RejectCommand(s), RecordSnapshot(PushTrackEvent(u, "TrackUpdated", TRUE))}
      BY DEF RequestTrack
    <3>4. QED
      BY <3>2, <3>3, RejectionsCounted
  <2>2. CASE s.phase \notin {"Detecting", "InterceptorReady"}
    BY <2>2, RejectionsCounted DEF RequestTrack
  <2>3. QED
    BY <2>1, <2>2
<1>3. Counted(ReleaseTrack(s))
  <2> DEFINE p == IF s.phase = "Tracking" THEN "Detecting" ELSE s.phase
             u == [s EXCEPT !.track = ClearedTrack, !.phase = p]
  <2>1. CASE s.phase \in {"Tracking", "InterceptorReady"}
    <3>1. /\ p \in SessionPhase /\ p \in {"Detecting", "Tracking"} \cup {s.phase}
          /\ p = "InterceptorReady" <=> s.phase = "InterceptorReady"
      BY <2>1 DEF SessionPhase
    <3>2. Counted(RecordSnapshot(PushTrackEvent(u, "TrackUpdated", FALSE)))
      BY <1>1, <2>1, <3>1, TrackConstantsType
    <3>3. ReleaseTrack(s) \in
             {RejectCommand(s), RecordSnapshot(PushTrackEvent(u, "TrackUpdated", FALSE))}
      BY DEF ReleaseTrack
    <3>4. QED
      BY <3>2, <3>3, RejectionsCounted
  <2>2. CASE s.phase \notin {"Tracking", "InterceptorReady"}
    BY <2>2, RejectionsCounted DEF ReleaseTrack
  <2>3. QED
    BY <2>1, <2>2
<1>4. QED
  BY <1>2, <1>3

\* Readiness, the order and the end are entered in the phases they belong to.
LEMMA CommandsCounted ==
    ASSUME NEW s \in Session, MissionFacts(s), Counted(s)
    PROVE  /\ Counted(ActivateAsset(s))
           /\ Counted(IssueCommand(s))
           /\ Counted(ArchiveSession(s))
<1>1. s.log.count \in [EventType -> Nat]
  BY DEF Session, EventLog
<1>2. Counted(ActivateAsset(s))
  <2> DEFINE u == [s EXCEPT !.interceptor = "Ready", !.assetActive = TRUE,
                            !.phase = "InterceptorReady"]
  <2>1. /\ u \in Session /\ u.log = s.log /\ SameFlags(s, u)
        /\ u.phase = "InterceptorReady" /\ u.ready = s.ready
    BY DEF Session, InterceptorStatus, SessionPhase, SameFlags
  <2>2. ActivateAsset(s) = IF s.phase = "Tracking" /\ s.track.active
                           THEN RecordSnapshot(PushEvent(u, "InterceptorUpdated"))
                           ELSE RejectCommand(s)
    BY DEF ActivateAsset
  <2> HIDE DEF u
  <2>3. ASSUME s.phase = "Tracking",
               NEW t \in Session, Entered(s, t, "InterceptorUpdated"),
               t.phase = u.phase, t.ready = u.ready
        PROVE  LogFacts(t)
    BY <1>1, <2>1, <2>3 DEF Entered, EventType, Counted, LogFacts
  <2>4. QED
    BY <2>1, <2>2, <2>3, RejectionsCounted, CarriedOutCounted DEF Counted, EventType
<1>3. Counted(IssueCommand(s))
  <2> DEFINE u == [s EXCEPT !.order = "Accepted", !.phase = "EngageOrdered", !.started = s.tick]
  <2>1. /\ u \in Session /\ u.log = s.log /\ SameFlags(s, u)
        /\ u.phase = "EngageOrdered" /\ u.ready = s.ready
    BY DEF Session, EngageOrderStatus, SessionPhase, SameFlags
  <2>2. IssueCommand(s) = IF s.phase = "InterceptorReady" /\ s.interceptor = "Ready"
           THEN RecordSnapshot(PushTrackEvent(u, "EngageOrderAccepted", s.track.active))
           ELSE RejectCommand(s)
    BY DEF IssueCommand
  <2> HIDE DEF u
  <2>3. s.track.active \in BOOLEAN /\ "EngageOrderAccepted" \in EventType
    BY DEF Session, TrackState, EventType
  <2>4. ASSUME s.phase = "InterceptorReady",
               NEW t \in Session, Entered(s, t, "EngageOrderAccepted"),
               t.phase = u.phase, t.ready = u.ready
        PROVE  LogFacts(t)
    BY <1>1, <2>1, <2>4 DEF Entered, EventType, Counted, LogFacts, MissionFacts, PhaseFacts, PreLaunch
  <2>5. QED
    BY <2>1, <2>2, <2>3, <2>4, RejectionsCounted, CarriedOutCounted DEF Counted
<1>4. Counted(ArchiveSession(s))
  <2> DEFINE u == [s EXCEPT !.phase = "Archived"]
  <2>1. /\ u \in Session /\ u.log = s.log /\ SameFlags(s, u)
        /\ u.phase = "Archived" /\ u.ready = s.ready
    BY DEF Session, SessionPhase, SameFlags
  <2>2. ArchiveSession(s) = IF s.phase = "Archived" THEN s
                            ELSE RecordSnapshot(PushEvent(u, "SessionEnded"))
    BY DEF ArchiveSession
  <2> HIDE DEF u
  <2>3. ASSUME s.phase # "Archived",
               NEW t \in Session, Entered(s, t, "SessionEnded"),
               t.phase = u.phase, t.ready = u.ready
        PROVE  LogFacts(t)
    BY <1>1, <2>1, <2>3 DEF Entered, EventType, Counted, LogFacts
  <2>4. QED
    BY <2>1, <2>2, <2>3, CarriedOutCounted DEF Counted, EventType
<1>5. QED
  BY <1>2, <1>3, <1>4

\* The parts of advance_tick: the launch and the seeker enter nothing, the
\* assessment its event with the verdict, the gap its event with its flag.
LEMMA TickPartsCounted ==
    ASSUME NEW s \in Session, Counted(s), NEW hit \in BOOLEAN, NEW inFov \in BOOLEAN
    PROVE  /\ Counted(Launched(s))
           /\ Counted(SeekerUpdated(s, inFov))
           /\ (s.phase = "Intercepting" => ~s.ready) => Counted(Assessed(s, hit))
           /\ Counted(GapExercised(s))
<1>1. s.log.count \in [EventType -> Nat]
  BY DEF Session, EventLog
<1>2. Counted(Launched(s))
  <2>1. /\ Launched(s).log = s.log /\ SameFlags(s, Launched(s)) /\ Launched(s).ready = s.ready
        /\ Launched(s).phase = IF s.order = "Accepted" /\ s.phase = "EngageOrdered"
                               THEN "Intercepting" ELSE s.phase
    BY DEF Launched, Session, SameFlags
  <2>2. LogFacts(Launched(s))
    BY <2>1 DEF Counted, LogFacts
  <2>3. ResilienceFacts(Launched(s))
    BY <2>1, LaunchedType, ResilienceRead DEF Counted, SameFlags, Timeouts
  <2>4. QED
    BY <2>2, <2>3 DEF Counted
<1>3. Counted(SeekerUpdated(s, inFov))
  <2>1. SameTally(s, SeekerUpdated(s, inFov))
    BY DEF SeekerUpdated, Session, SameTally, SameFlags
  <2>2. QED
    BY <2>1, SameTallyCounted
<1>4. ASSUME NEW a \in Session, NEW code \in AssessmentCode, a.log = s.log, SameFlags(s, a),
             s.phase = "Intercepting", ~s.ready
      PROVE  Counted(Verdict(a, code))
  <2> DEFINE u == [a EXCEPT !.ready = TRUE, !.code = code, !.phase = "Assessed",
                            !.interceptor = "Complete", !.order = "Completed",
                            !.started = NoTick]
             t == PushEvent(u, "AssessmentProduced")
  <2>1. /\ u \in Session /\ u.log = a.log /\ SameFlags(a, u) /\ u.ready = TRUE /\ u.phase = "Assessed"
    BY <1>4 DEF Session, SessionPhase, InterceptorStatus, EngageOrderStatus, SameFlags
  <2>2. Verdict(a, code) = t
    BY DEF Verdict
  <2> HIDE DEF u
  <2>3. /\ t \in Session /\ Entered(u, t, "AssessmentProduced") /\ SameFlags(u, t)
        /\ t.ready = TRUE /\ t.phase = "Assessed"
    BY <2>1, PushEventType, PushEventEntered, PushEventSame DEF EventType, SameRecord, SameMission
  <2> HIDE DEF t
  <2>4. Entered(s, t, "AssessmentProduced") /\ SameFlags(s, t)
    BY <1>4, <2>1, <2>3 DEF Entered, SameFlags
  <2>5. LogFacts(t)
    BY <1>1, <1>4, <2>3, <2>4 DEF Entered, EventType, Counted, LogFacts
  <2>6. QED
    BY <2>2, <2>3, <2>4, <2>5, OtherEventBacked DEF Counted, EventType
<1>5. ASSUME s.phase = "Intercepting", ~s.ready
      PROVE  Counted(Assessed(s, hit))
  <2> DEFINE u == [s EXCEPT !.targetActive = FALSE, !.track.active = FALSE, !.seekerLock = FALSE]
  <2>1. [s.track EXCEPT !.active = FALSE] \in TrackState
    BY DEF Session, TrackState
  <2>2. u \in Session /\ u.log = s.log /\ SameFlags(s, u)
    BY <2>1 DEF Session, SameFlags
  <2>3. Assessed(s, hit) \in {s, Verdict(u, "InterceptSuccess"), Verdict(s, "TimeoutObserved")}
    BY DEF Assessed
  <2> HIDE DEF u
  <2>4. /\ "InterceptSuccess" \in AssessmentCode /\ "TimeoutObserved" \in AssessmentCode
        /\ SameFlags(s, s)
    BY DEF AssessmentCode, SameFlags
  <2>5. QED
    BY <1>4, <1>5, <2>2, <2>3, <2>4
<1>6. s.phase # "Intercepting" => Counted(Assessed(s, hit))
  BY DEF Assessed
<1>7. Counted(GapExercised(s))
  <2> DEFINE u == [s EXCEPT !.gapExercised = TRUE]
             t == PushEvent(u, "ResilienceTriggered")
  <2>1. /\ u \in Session /\ u.log = s.log /\ u.phase = s.phase /\ u.ready = s.ready
        /\ u.reconnectExercised = s.reconnectExercised
        /\ u.timeoutExercised = s.timeoutExercised /\ u.gapExercised = TRUE
    BY DEF Session
  <2>2. GapExercised(s) = IF s.tick = 2 /\ ~s.gapExercised THEN t ELSE s
    BY DEF GapExercised
  <2> HIDE DEF u
  <2>3. /\ t \in Session /\ Entered(u, t, "ResilienceTriggered") /\ SameFlags(u, t)
        /\ t.ready = u.ready /\ t.phase = u.phase
    BY <2>1, PushEventType, PushEventEntered, PushEventSame DEF EventType, SameRecord, SameMission
  <2> HIDE DEF t
  <2>4. ASSUME ~s.gapExercised
        PROVE  Counted(t)
    <3>1. LogFacts(t)
      BY <2>1, <2>3 DEF Entered, EventType, Counted, LogFacts
    <3>2. /\ Timeouts(t) = Timeouts(s)
          /\ t.log.count["ClientReconnected"] = s.log.count["ClientReconnected"]
      BY <1>1, <2>1, <2>3, <2>4 DEF Timeouts, EventType, Entered, SameFlags
    <3>3. QED
      BY <2>1, <2>3, <3>1, <3>2, ResilienceRead DEF Counted, SameFlags
  <2>5. QED
    BY <2>2, <2>4
<1>8. QED
  BY <1>2, <1>3, <1>5, <1>6, <1>7

\* advance_tick keeps log and session in step.
LEMMA AdvanceTickCounted ==
    ASSUME NEW s \in Session, NEW hit \in BOOLEAN, NEW inFov \in BOOLEAN,
           MissionFacts(s), Counted(s)
    PROVE  Counted(AdvanceTick(s, hit, inFov))
<1>1. CASE s.phase = "Assessed"
  <2> DEFINE a == [s EXCEPT !.tick = @ + 1]
             u == [a EXCEPT !.phase = "Archived"]
  <2>1. s.tick + 1 \in Nat
    BY DEF Session
  <2>2. /\ a \in Session /\ a.phase = "Assessed" /\ a.log = s.log /\ SameFlags(s, a)
        /\ a.ready = s.ready
    BY <1>1, <2>1 DEF Session, SameFlags
  <2>3. AdvanceTick(s, hit, inFov) = ArchiveSession(a)
    BY <1>1 DEF AdvanceTick
  <2> HIDE DEF a
  <2>4. ArchiveSession(a) = RecordSnapshot(PushEvent(u, "SessionEnded"))
    BY <2>2 DEF ArchiveSession
  <2>5. /\ u \in Session /\ u.log = s.log /\ SameFlags(s, u) /\ u.phase = "Archived"
        /\ u.ready = s.ready
    BY <2>2 DEF Session, SessionPhase, SameFlags
  <2> HIDE DEF u
  <2>6. ASSUME NEW t \in Session, Entered(s, t, "SessionEnded"),
               t.phase = u.phase, t.ready = u.ready
        PROVE  LogFacts(t)
    BY <1>1, <2>5, <2>6 DEF Entered, EventType, Counted, LogFacts
  <2>7. QED
    BY <2>3, <2>4, <2>5, <2>6, CarriedOutCounted DEF Counted, EventType
<1>2. CASE s.phase # "Assessed"
  <2> DEFINE a == Launched(s)
             b == SeekerUpdated(a, inFov)
             c == Assessed(b, hit)
             d == GapExercised(c)
  <2>1. AdvanceTick(s, hit, inFov) = RecordSnapshot(d)
    BY <1>2 DEF AdvanceTick
  <2>2. a \in Session /\ Counted(a)
    BY LaunchedType, TickPartsCounted
  <2>3. a.phase = "Intercepting" => ~a.ready
    <3>1. /\ a.ready <=> s.ready
          /\ a.phase = IF s.order = "Accepted" /\ s.phase = "EngageOrdered"
                       THEN "Intercepting" ELSE s.phase
      BY DEF Launched, Session
    <3> HIDE DEF a
    <3>2. s.phase \in {"EngageOrdered", "Intercepting"} => ~s.ready
      <4>1. s.phase = "EngageOrdered" => ~s.ready
        BY DEF MissionFacts, PhaseFacts
      <4>2. s.phase = "Intercepting" => ~s.ready
        BY DEF MissionFacts, PhaseFacts
      <4>3. QED
        BY <4>1, <4>2
    <3>3. QED
      BY <3>1, <3>2
  <2> HIDE DEF a
  <2>4. b \in Session /\ Counted(b) /\ b.phase = a.phase /\ b.ready = a.ready
    <3>1. b \in Session /\ Counted(b)
      BY <2>2, SeekerUpdatedType, TickPartsCounted
    <3>2. b.phase = a.phase /\ b.ready = a.ready
      BY <2>2 DEF SeekerUpdated, Session
    <3>3. QED
      BY <3>1, <3>2
  <2> HIDE DEF b
  <2>5. c \in Session /\ Counted(c)
    BY <2>3, <2>4, AssessedType, TickPartsCounted
  <2> HIDE DEF c
  <2>6. d \in Session /\ Counted(d)
    BY <2>5, GapExercisedType, TickPartsCounted
  <2> HIDE DEF d
  <2>7. QED
    BY <2>1, <2>6, RecordSnapshotTally, SameTallyCounted
<1>3. QED
  BY <1>1, <1>2

\* A new session has an empty log.
LEMMA InitCounted == Init => Counted(session)
<1> SUFFICES ASSUME NEW t \in EngagementTimeouts, session = NewSession(t)
             PROVE  Counted(session)
  BY DEF Init
<1>1. /\ session.phase = "Standby" /\ session.ready = FALSE /\ session.log = EmptyLog
      /\ session.reconnectExercised = FALSE /\ session.timeoutExercised = FALSE
      /\ session.gapExercised = FALSE /\ session \in Session
  BY NewSessionType DEF NewSession
<1>2. \A e \in EventType : session.log.count[e] = 0
  BY <1>1 DEF EmptyLog
<1>3. LogFacts(session)
  BY <1>1, <1>2 DEF LogFacts, EventType
<1>4. Timeouts(session) = 0 /\ session.log.count["ClientReconnected"] = 0
  BY <1>1, <1>2 DEF Timeouts, EventType
<1>5. QED
  BY <1>1, <1>3, <1>4, ResilienceRead DEF Counted

\* Every method keeps log and session in step.
LEMMA NextCounted == IInv /\ Counted(session) /\ [Next]_vars => Counted(session)'
<1> SUFFICES ASSUME session \in Session, MissionFacts(session), Counted(session), [Next]_vars
             PROVE  Counted(session')
  BY DEF IInv, TypeOK
<1>1. ASSUME NEW role \in Clients, Connect(role) \/ Disconnect(role) \/ Timeout(role)
      PROVE  Counted(session')
  <2>1. role \in ClientRole
    BY ClientsAreRoles DEF ClientsAreRoles
  <2>2. QED
    BY <1>1, <2>1, ClientsCounted DEF Connect, Disconnect, Timeout
<1>2. CASE Start
  BY <1>2, StartScenarioCounted DEF Start
<1>3. CASE ConfigureAndStart
  <2>1. PICK t \in EngagementTimeouts :
           session' = StartScenario(ConfigureScenario(session, t))
    BY <1>3 DEF ConfigureAndStart
  <2>2. /\ ConfigureScenario(session, t) \in Session
        /\ MissionFacts(ConfigureScenario(session, t))
        /\ Counted(ConfigureScenario(session, t))
    BY <1>3, ConfigureScenarioType, ConfigureScenarioFacts, ConfigureScenarioCounted
    DEF ConfigureAndStart
  <2>3. QED
    BY <2>1, <2>2, StartScenarioCounted
<1>4. CASE Reset
  BY <1>4, ResetSessionCounted DEF Reset
<1>5. CASE AcquireTrack \/ DropTrack
  BY <1>5, TrackCommandsCounted DEF AcquireTrack, DropTrack
<1>6. CASE MakeReady \/ Engage \/ Archive
  BY <1>6, CommandsCounted DEF MakeReady, Engage, Archive
<1>7. CASE TransportRejection
  BY <1>7, RejectionsCounted DEF TransportRejection
<1>8. CASE Tick
  BY <1>8, AdvanceTickCounted DEF Tick
<1>9. CASE UNCHANGED vars
  BY <1>9 DEF vars
<1>10. QED
  BY <1>1, <1>2, <1>3, <1>4, <1>5, <1>6, <1>7, <1>8, <1>9 DEF Next

LEMMA SpecCounted == Spec => [](IInv /\ Counted(session))
<1>1. IInv /\ Counted(session) /\ [Next]_vars => (IInv /\ Counted(session))'
  BY NextIInv, NextCounted
<1>2. Init => IInv /\ Counted(session)
  BY InitIInv, InitCounted
<1>3. QED
  BY <1>1, <1>2, PTL DEF Spec

\* The log of a run has one assessment exactly if there is a verdict, one end
\* exactly if the run is archived, and each milestone after what it follows from.
THEOREM LogTellsRun == Spec => []LogTellsTheRun
<1>1. IInv /\ Counted(session) => LogTellsTheRun
  BY DEF Counted, LogTellsTheRun
<1>2. QED
  BY <1>1, SpecCounted, PTL

\* Every flag of the resilience case has its event in the log of the same run,
\* and every resilience event its flag.
THEOREM ResilienceBacked == Spec => []ResilienceCaseBacked
<1>1. IInv /\ Counted(session) => ResilienceCaseBacked
  BY DEF Counted, ResilienceCaseBacked
<1>2. QED
  BY <1>1, SpecCounted, PTL

--------------------------------------------------------------------------------
(****************************************************************************)
(* The reports.  What a step tells them: nothing, a track taken up or       *)
(* dropped, an order, or that the log was cleared.                          *)
(****************************************************************************)

\* No decisive event is pushed.
TellsNothing(s, t) ==
    /\ t.log.profile = s.log.profile
    /\ t.log.count["TrackUpdated"] = s.log.count["TrackUpdated"]
    /\ t.log.count["EngageOrderAccepted"] = s.log.count["EngageOrderAccepted"]

\* A track is taken up or dropped, before the order.
TellsTrack(s, t) ==
    /\ t.log.profile \in {"Tracked", "Untracked"}
    /\ t.log.count["TrackUpdated"] = s.log.count["TrackUpdated"] + 1
    /\ t.log.count["EngageOrderAccepted"] = s.log.count["EngageOrderAccepted"]
    /\ t.phase \in {"Detecting", "Tracking", "InterceptorReady"}

\* The order, and how it is launched.
TellsOrder(s, t) ==
    /\ t.log.profile = IF s.track.active THEN "Tracked" ELSE "Untracked"
    /\ t.log.count["EngageOrderAccepted"] = s.log.count["EngageOrderAccepted"] + 1
    /\ t.phase = "EngageOrdered"

Tells(s, t) ==
    TellsNothing(s, t) \/ TellsTrack(s, t) \/ TellsOrder(s, t) \/ t.log = EmptyLog

LEMMA TellsNothingTransitive ==
    ASSUME NEW s, NEW t, NEW u, TellsNothing(s, t), TellsNothing(t, u)
    PROVE  TellsNothing(s, u)
BY DEF TellsNothing

\* An event of another type tells nothing, nor does a snapshot.
LEMMA OtherEventTells ==
    ASSUME NEW s \in Session, NEW type \in EventType,
           type \notin {"TrackUpdated", "EngageOrderAccepted"}
    PROVE  TellsNothing(s, PushEvent(s, type))
<1>1. Entered(s, PushEvent(s, type), type)
  BY PushEventEntered
<1>2. PushEvent(s, type).log.profile = s.log.profile
  BY PushEventSame DEF SameRecord
<1>3. QED
  BY <1>1, <1>2 DEF Entered, TellsNothing, EventType

LEMMA SnapshotTells ==
    ASSUME NEW s \in Session
    PROVE  TellsNothing(s, RecordSnapshot(s))
<1>1. RecordSnapshot(s).log = s.log
  BY DEF RecordSnapshot, Session
<1>2. QED
  BY <1>1 DEF TellsNothing

\* What is published after a change that leaves the log alone tells as much.
LEMMA PublishTells ==
    ASSUME NEW s \in Session, NEW u \in Session, u.log = s.log, NEW type \in EventType,
           type \notin {"TrackUpdated", "EngageOrderAccepted"}
    PROVE  TellsNothing(s, RecordSnapshot(PushEvent(u, type)))
<1> DEFINE p == PushEvent(u, type)
<1>1. p \in Session /\ TellsNothing(u, p)
  BY PushEventType, OtherEventTells
<1> HIDE DEF p
<1>2. TellsNothing(u, RecordSnapshot(p))
  BY <1>1, SnapshotTells, TellsNothingTransitive
<1>3. QED
  BY <1>2 DEF TellsNothing, p

\* Rejections tell nothing.
LEMMA RejectionsTell ==
    ASSUME NEW s \in Session
    PROVE  TellsNothing(s, RejectCommand(s)) /\ TellsNothing(s, RecordTransportRejection(s))
<1> DEFINE logged == PushEvent(s, "EngageOrderRejected")
           refused == [logged EXCEPT !.order = "Rejected", !.code = "InvalidTransition"]
<1>1. logged \in Session /\ TellsNothing(s, logged)
  BY PushEventType, OtherEventTells DEF EventType
<1>2. RejectCommand(s) \in {logged, refused} /\ RecordTransportRejection(s) = logged
  BY DEF RejectCommand, RecordTransportRejection
<1> HIDE DEF logged
<1>3. refused.log = logged.log
  BY <1>1 DEF Session
<1> HIDE DEF refused
<1>4. TellsNothing(s, refused)
  BY <1>1, <1>3 DEF TellsNothing
<1>5. QED
  BY <1>1, <1>2, <1>4

\* Clients that come and go tell nothing.
LEMMA ClientsTell ==
    ASSUME NEW s \in Session, NEW role \in ClientRole
    PROVE  /\ TellsNothing(s, ConnectClient(s, role))
           /\ TellsNothing(s, DisconnectClient(s, role))
           /\ TellsNothing(s, TimeoutClient(s, role))
<1>1. TellsNothing(s, ConnectClient(s, role))
  <2> DEFINE u == [s EXCEPT !.joined[role] = TRUE,
                            !.connection[role] = IF s.joined[role] THEN "Reconnected"
                                                                   ELSE "Connected",
                            !.reconnectExercised = @ \/ s.joined[role]]
             back == PushEvent(u, "ClientReconnected")
  <2>1. (s.reconnectExercised \/ s.joined[role]) \in BOOLEAN
    BY DEF Session
  <2>2. u \in Session /\ u.log = s.log
    BY <2>1 DEF Session, ConnectionState
  <2>3. ConnectClient(s, role) \in {PushEvent(back, "ResilienceTriggered"),
                                    PushEvent(u, "ClientJoined")}
    BY DEF ConnectClient
  <2> HIDE DEF u
  <2>4. back \in Session /\ TellsNothing(u, back) /\ TellsNothing(u, PushEvent(u, "ClientJoined"))
    BY <2>2, PushEventType, OtherEventTells DEF EventType
  <2> HIDE DEF back
  <2>5. TellsNothing(u, PushEvent(back, "ResilienceTriggered"))
    BY <2>4, OtherEventTells, TellsNothingTransitive DEF EventType
  <2>6. TellsNothing(u, ConnectClient(s, role))
    BY <2>3, <2>4, <2>5
  <2>7. QED
    BY <2>2, <2>6 DEF TellsNothing
<1>2. TellsNothing(s, DisconnectClient(s, role))
  <2> DEFINE u == [s EXCEPT !.connection[role] = "Disconnected"]
  <2>1. u \in Session /\ u.log = s.log
    BY DEF Session, ConnectionState
  <2>2. DisconnectClient(s, role) = PushEvent(u, "ClientLeft")
    BY DEF DisconnectClient
  <2> HIDE DEF u
  <2>3. TellsNothing(u, PushEvent(u, "ClientLeft"))
    BY <2>1, OtherEventTells DEF EventType
  <2>4. QED
    BY <2>1, <2>2, <2>3 DEF TellsNothing
<1>3. TellsNothing(s, TimeoutClient(s, role))
  <2> DEFINE u == [s EXCEPT !.connection[role] = "TimedOut", !.timeoutExercised = TRUE]
  <2>1. u \in Session /\ u.log = s.log
    BY DEF Session, ConnectionState
  <2>2. TimeoutClient(s, role) = RecordSnapshot(PushEvent(u, "ResilienceTriggered"))
    BY DEF TimeoutClient
  <2> HIDE DEF u
  <2>3. QED
    BY <2>1, <2>2, PublishTells DEF EventType
<1>4. QED
  BY <1>1, <1>2, <1>3

\* start_scenario, activate_asset and archive_session tell nothing.
LEMMA MilestonesTell ==
    ASSUME NEW s \in Session
    PROVE  /\ TellsNothing(s, StartScenario(s))
           /\ TellsNothing(s, ActivateAsset(s))
           /\ TellsNothing(s, ArchiveSession(s))
<1>1. TellsNothing(s, StartScenario(s))
  <2> DEFINE u == [s EXCEPT !.phase = "Detecting", !.targetActive = TRUE,
                            !.track = ClearedTrack, !.interceptor = "Idle",
                            !.order = "None", !.ready = FALSE, !.code = "Pending"]
  <2>1. u \in Session /\ u.log = s.log
    BY TrackConstantsType, ZenonT(40)
    DEF Session, SessionPhase, InterceptorStatus, EngageOrderStatus, AssessmentCode
  <2>2. StartScenario(s) \in {RejectCommand(s), RecordSnapshot(PushEvent(u, "SessionStarted"))}
    BY DEF StartScenario
  <2> HIDE DEF u
  <2>3. QED
    BY <2>1, <2>2, RejectionsTell, PublishTells DEF EventType
<1>2. TellsNothing(s, ActivateAsset(s))
  <2> DEFINE u == [s EXCEPT !.interceptor = "Ready", !.assetActive = TRUE,
                            !.phase = "InterceptorReady"]
  <2>1. u \in Session /\ u.log = s.log
    BY DEF Session, InterceptorStatus, SessionPhase
  <2>2. ActivateAsset(s) \in {RejectCommand(s), RecordSnapshot(PushEvent(u, "InterceptorUpdated"))}
    BY DEF ActivateAsset
  <2> HIDE DEF u
  <2>3. QED
    BY <2>1, <2>2, RejectionsTell, PublishTells DEF EventType
<1>3. TellsNothing(s, ArchiveSession(s))
  <2> DEFINE u == [s EXCEPT !.phase = "Archived"]
  <2>1. u \in Session /\ u.log = s.log /\ TellsNothing(s, s)
    BY DEF Session, SessionPhase, TellsNothing
  <2>2. ArchiveSession(s) \in {s, RecordSnapshot(PushEvent(u, "SessionEnded"))}
    BY DEF ArchiveSession
  <2> HIDE DEF u
  <2>3. QED
    BY <2>1, <2>2, PublishTells DEF EventType
<1>4. QED
  BY <1>1, <1>2, <1>3

\* configure_scenario leaves the log alone; the reset clears it.
LEMMA ScenarioTells ==
    ASSUME NEW s \in Session
    PROVE  /\ \A t \in EngagementTimeouts : TellsNothing(s, ConfigureScenario(s, t))
           /\ ResetSession(s).log = EmptyLog
<1> DEFINE w == ResetWorld(s)
           u == [w EXCEPT
                   !.tick = 0, !.phase = "Standby",
                   !.reconnectExercised = FALSE, !.timeoutExercised = FALSE,
                   !.gapExercised = FALSE,
                   !.log = EmptyLog, !.snapshots = 0, !.latest = NoSnapshot,
                   !.connection = [r \in ClientRole |-> Settled(s.connection[r])]]
<1>1. w \in Session /\ w.log = s.log
  BY ResetWorldType DEF ResetWorld, Session
<1>2. ResetSession(s) = RecordSnapshot(u)
  BY DEF ResetSession
<1>3. \A t \in EngagementTimeouts : ConfigureScenario(s, t) = [w EXCEPT !.timeoutTicks = t]
  BY DEF ConfigureScenario
<1> HIDE DEF w
<1>4. \A t \in EngagementTimeouts : ConfigureScenario(s, t).log = s.log
  BY <1>1, <1>3 DEF Session
<1>5. RecordSnapshot(u).log = EmptyLog
  BY <1>1 DEF RecordSnapshot, Session
<1>6. QED
  BY <1>2, <1>4, <1>5 DEF TellsNothing

\* A track event and a snapshot: which event, and the profile.
LEMMA TrackEventTells ==
    ASSUME NEW s \in Session, NEW u \in Session, u.log = s.log, NEW tracked \in BOOLEAN,
           NEW type \in {"TrackUpdated", "EngageOrderAccepted"}
    PROVE  LET t == RecordSnapshot(PushTrackEvent(u, type, tracked))
           IN  /\ Entered(s, t, type) /\ t.phase = u.phase
               /\ t.log.profile = IF tracked THEN "Tracked" ELSE "Untracked"
<1> DEFINE t == RecordSnapshot(PushTrackEvent(u, type, tracked))
<1>1. type \in EventType
  BY DEF EventType
<1>2. Entered(u, t, type) /\ SameStage(u, t)
  BY <1>1, PublishEntered
<1>3. t.log.profile = IF tracked THEN "Tracked" ELSE "Untracked"
  BY <1>1, PublishCourse
<1> HIDE DEF t
<1>4. Entered(s, t, type) /\ t.phase = u.phase
  BY <1>2 DEF Entered, SameStage
<1>5. QED
  BY <1>3, <1>4 DEF t

\* request_track and release_track tell of the track they carry out.
LEMMA TrackCommandsTell ==
    ASSUME NEW s \in Session
    PROVE  Tells(s, RequestTrack(s)) /\ Tells(s, ReleaseTrack(s))
<1>1. ASSUME NEW p \in {"Detecting", "Tracking", "InterceptorReady"},
             NEW track \in TrackState, NEW tracked \in BOOLEAN
      PROVE  TellsTrack(s, RecordSnapshot(PushTrackEvent([s EXCEPT !.track = track, !.phase = p],
                                                         "TrackUpdated", tracked)))
  <2> DEFINE u == [s EXCEPT !.track = track, !.phase = p]
             t == RecordSnapshot(PushTrackEvent(u, "TrackUpdated", tracked))
  <2>1. u \in Session /\ u.log = s.log /\ u.phase = p
    BY DEF Session, SessionPhase
  <2> HIDE DEF u
  <2>2. /\ Entered(s, t, "TrackUpdated") /\ t.phase = p
        /\ t.log.profile = IF tracked THEN "Tracked" ELSE "Untracked"
    BY <2>1, TrackEventTells
  <2> HIDE DEF t
  <2>3. TellsTrack(s, t)
    BY <2>2 DEF Entered, EventType, TellsTrack
  <2>4. QED
    BY <2>3 DEF t, u
<1>2. Tells(s, RequestTrack(s))
  <2> DEFINE p == IF s.phase = "Detecting" THEN "Tracking" ELSE s.phase
             t == RecordSnapshot(PushTrackEvent([s EXCEPT !.track = SeededTrack, !.phase = p],
                                                "TrackUpdated", TRUE))
  <2>1. CASE s.phase \in {"Detecting", "InterceptorReady"}
    <3>1. p \in {"Detecting", "Tracking", "InterceptorReady"}
      BY <2>1
    <3>2. RequestTrack(s) \in {RejectCommand(s), t}
      BY DEF RequestTrack
    <3> HIDE DEF p
    <3>3. TellsTrack(s, t)
      BY <1>1, <3>1, TrackConstantsType
    <3>4. QED
      BY <3>2, <3>3, RejectionsTell DEF Tells
  <2>2. CASE s.phase \notin {"Detecting", "InterceptorReady"}
    BY <2>2, RejectionsTell DEF RequestTrack, Tells
  <2>3. QED
    BY <2>1, <2>2
<1>3. Tells(s, ReleaseTrack(s))
  <2> DEFINE p == IF s.phase = "Tracking" THEN "Detecting" ELSE s.phase
             t == RecordSnapshot(PushTrackEvent([s EXCEPT !.track = ClearedTrack, !.phase = p],
                                                "TrackUpdated", FALSE))
  <2>1. CASE s.phase \in {"Tracking", "InterceptorReady"}
    <3>1. p \in {"Detecting", "Tracking", "InterceptorReady"}
      BY <2>1
    <3>2. ReleaseTrack(s) \in {RejectCommand(s), t}
      BY DEF ReleaseTrack
    <3> HIDE DEF p
    <3>3. TellsTrack(s, t)
      BY <1>1, <3>1, TrackConstantsType
    <3>4. QED
      BY <3>2, <3>3, RejectionsTell DEF Tells
  <2>2. CASE s.phase \notin {"Tracking", "InterceptorReady"}
    BY <2>2, RejectionsTell DEF ReleaseTrack, Tells
  <2>3. QED
    BY <2>1, <2>2
<1>4. QED
  BY <1>2, <1>3

\* issue_command tells how the interceptor is launched.
LEMMA IssueCommandTells ==
    ASSUME NEW s \in Session
    PROVE  Tells(s, IssueCommand(s))
<1> DEFINE u == [s EXCEPT !.order = "Accepted", !.phase = "EngageOrdered", !.started = s.tick]
           t == RecordSnapshot(PushTrackEvent(u, "EngageOrderAccepted", s.track.active))
<1>1. u \in Session /\ u.log = s.log /\ u.phase = "EngageOrdered" /\ s.track.active \in BOOLEAN
  BY DEF Session, EngageOrderStatus, SessionPhase, TrackState
<1>2. IssueCommand(s) \in {RejectCommand(s), t}
  BY DEF IssueCommand
<1> HIDE DEF u
<1>3. /\ Entered(s, t, "EngageOrderAccepted") /\ t.phase = "EngageOrdered"
      /\ t.log.profile = IF s.track.active THEN "Tracked" ELSE "Untracked"
  BY <1>1, TrackEventTells
<1> HIDE DEF t
<1>4. TellsOrder(s, t)
  BY <1>3 DEF Entered, EventType, TellsOrder
<1>5. QED
  BY <1>2, <1>4, RejectionsTell DEF Tells

\* A tick pushes the verdict and the gap, no decisive event.
LEMMA AdvanceTickTells ==
    ASSUME NEW s \in Session, NEW hit \in BOOLEAN, NEW inFov \in BOOLEAN
    PROVE  TellsNothing(s, AdvanceTick(s, hit, inFov))
<1>1. CASE s.phase = "Assessed"
  <2> DEFINE a == [s EXCEPT !.tick = @ + 1]
  <2>1. s.tick + 1 \in Nat
    BY DEF Session
  <2>2. a \in Session /\ a.log = s.log
    BY <2>1 DEF Session
  <2>3. AdvanceTick(s, hit, inFov) = ArchiveSession(a)
    BY <1>1 DEF AdvanceTick
  <2> HIDE DEF a
  <2>4. TellsNothing(a, ArchiveSession(a))
    BY <2>2, MilestonesTell
  <2>5. QED
    BY <2>2, <2>3, <2>4 DEF TellsNothing
<1>2. ASSUME NEW x \in Session
      PROVE  TellsNothing(x, Launched(x)) /\ TellsNothing(x, SeekerUpdated(x, inFov))
  <2>1. Launched(x).log = x.log /\ SeekerUpdated(x, inFov).log = x.log
    BY DEF Launched, SeekerUpdated, Session
  <2>2. QED
    BY <2>1 DEF TellsNothing
<1>3. ASSUME NEW x \in Session, NEW code \in AssessmentCode
      PROVE  TellsNothing(x, Verdict(x, code))
  <2> DEFINE u == [x EXCEPT !.ready = TRUE, !.code = code, !.phase = "Assessed",
                            !.interceptor = "Complete", !.order = "Completed",
                            !.started = NoTick]
  <2>1. u \in Session /\ u.log = x.log
    BY <1>3 DEF Session, SessionPhase, InterceptorStatus, EngageOrderStatus
  <2>2. Verdict(x, code) = PushEvent(u, "AssessmentProduced")
    BY DEF Verdict
  <2> HIDE DEF u
  <2>3. TellsNothing(u, PushEvent(u, "AssessmentProduced"))
    BY <2>1, OtherEventTells DEF EventType
  <2>4. QED
    BY <2>1, <2>2, <2>3 DEF TellsNothing
<1>4. ASSUME NEW x \in Session
      PROVE  TellsNothing(x, Assessed(x, hit))
  <2> DEFINE u == [x EXCEPT !.targetActive = FALSE, !.track.active = FALSE, !.seekerLock = FALSE]
  <2>1. [x.track EXCEPT !.active = FALSE] \in TrackState
    BY DEF Session, TrackState
  <2>2. u \in Session /\ u.log = x.log /\ TellsNothing(x, x)
    BY <2>1 DEF Session, TellsNothing
  <2>3. Assessed(x, hit) \in {x, Verdict(u, "InterceptSuccess"), Verdict(x, "TimeoutObserved")}
    BY DEF Assessed
  <2> HIDE DEF u
  <2>4. /\ TellsNothing(u, Verdict(u, "InterceptSuccess"))
        /\ TellsNothing(x, Verdict(x, "TimeoutObserved"))
    BY <1>3, <2>2 DEF AssessmentCode
  <2>5. QED
    BY <2>2, <2>3, <2>4 DEF TellsNothing
<1>5. ASSUME NEW x \in Session
      PROVE  TellsNothing(x, GapExercised(x))
  <2> DEFINE u == [x EXCEPT !.gapExercised = TRUE]
  <2>1. u \in Session /\ u.log = x.log /\ TellsNothing(x, x)
    BY DEF Session, TellsNothing
  <2>2. GapExercised(x) \in {x, PushEvent(u, "ResilienceTriggered")}
    BY DEF GapExercised
  <2> HIDE DEF u
  <2>3. TellsNothing(u, PushEvent(u, "ResilienceTriggered"))
    BY <2>1, OtherEventTells DEF EventType
  <2>4. QED
    BY <2>1, <2>2, <2>3 DEF TellsNothing
<1>6. CASE s.phase # "Assessed"
  <2> DEFINE a == Launched(s)
             b == SeekerUpdated(a, inFov)
             c == Assessed(b, hit)
             d == GapExercised(c)
  <2>1. AdvanceTick(s, hit, inFov) = RecordSnapshot(d)
    BY <1>6 DEF AdvanceTick
  <2>2. a \in Session /\ TellsNothing(s, a)
    BY <1>2, LaunchedType
  <2> HIDE DEF a
  <2>3. b \in Session /\ TellsNothing(s, b)
    BY <1>2, <2>2, SeekerUpdatedType, TellsNothingTransitive
  <2> HIDE DEF b
  <2>4. c \in Session /\ TellsNothing(s, c)
    BY <1>4, <2>3, AssessedType, TellsNothingTransitive
  <2> HIDE DEF c
  <2>5. d \in Session /\ TellsNothing(s, d)
    BY <1>5, <2>4, GapExercisedType, TellsNothingTransitive
  <2> HIDE DEF d
  <2>6. QED
    BY <2>1, <2>5, SnapshotTells, TellsNothingTransitive
<1>7. QED
  BY <1>1, <1>6

\* What any step of the session tells.
LEMMA NextTells == IInv /\ [Next]_vars => Tells(session, session')
<1> SUFFICES ASSUME session \in Session, MissionFacts(session), [Next]_vars
             PROVE  Tells(session, session')
  BY DEF IInv, TypeOK
<1>1. ASSUME NEW role \in Clients, Connect(role) \/ Disconnect(role) \/ Timeout(role)
      PROVE  Tells(session, session')
  <2>1. role \in ClientRole
    BY ClientsAreRoles DEF ClientsAreRoles
  <2>2. QED
    BY <1>1, <2>1, ClientsTell DEF Connect, Disconnect, Timeout, Tells
<1>2. CASE Start \/ MakeReady \/ Archive
  BY <1>2, MilestonesTell DEF Start, MakeReady, Archive, Tells
<1>3. CASE ConfigureAndStart
  <2>1. PICK t \in EngagementTimeouts :
           session' = StartScenario(ConfigureScenario(session, t))
    BY <1>3 DEF ConfigureAndStart
  <2>2. /\ ConfigureScenario(session, t) \in Session
        /\ TellsNothing(session, ConfigureScenario(session, t))
    BY <1>3, ConfigureScenarioType, ScenarioTells DEF ConfigureAndStart
  <2>3. TellsNothing(session, session')
    BY <2>1, <2>2, MilestonesTell, TellsNothingTransitive
  <2>4. QED
    BY <2>3 DEF Tells
<1>4. CASE Reset
  BY <1>4, ScenarioTells DEF Reset, Tells
<1>5. CASE AcquireTrack \/ DropTrack
  BY <1>5, TrackCommandsTell DEF AcquireTrack, DropTrack
<1>6. CASE Engage
  BY <1>6, IssueCommandTells DEF Engage
<1>7. CASE TransportRejection
  BY <1>7, RejectionsTell DEF TransportRejection, Tells
<1>8. CASE Tick
  BY <1>8, AdvanceTickTells DEF Tick, Tells
<1>9. CASE UNCHANGED vars
  BY <1>9 DEF vars, Tells, TellsNothing
<1>10. QED
  BY <1>1, <1>2, <1>3, <1>4, <1>5, <1>6, <1>7, <1>8, <1>9 DEF Next

--------------------------------------------------------------------------------
(****************************************************************************)
(* The windows on the log.                                                  *)
(****************************************************************************)

\* The entries a step may push: their type grew.
Fresh(s, t) == {e \in LogEntry : Pushes(s, t, e.type)}

\* Every text is made of words.
LEMMA WordsType ==
    ASSUME NEW s, NEW t, NEW type
    PROVE  Words(s, t, type) \in SUBSET Word
<1>1. CASE type = "TrackUpdated" /\ t.log.profile = "Tracked"
  BY <1>1 DEF Words, Word
<1>2. CASE type = "TrackUpdated" /\ t.log.profile = "Untracked"
  BY <1>2 DEF Words, Word
<1>3. CASE type = "EngageOrderAccepted"
  BY <1>3 DEF Words, Word
<1>4. CASE type \notin {"TrackUpdated", "EngageOrderAccepted"}
  BY <1>4 DEF Words, NoWords
<1>5. CASE type = "TrackUpdated" /\ t.log.profile \notin {"Tracked", "Untracked"}
  BY <1>5 DEF Words, NoWords
<1>6. QED
  BY <1>1, <1>2, <1>3, <1>4, <1>5

\* A step pushes entries whose type grew, and every type that grew.
LEMMA PushedFresh ==
    ASSUME NEW s, NEW t
    PROVE  /\ Pushed(s, t) \in Seq(Fresh(s, t))
           /\ Pushes(s, t, "SessionEnded") => Pushed(s, t) # <<>>
<1> DEFINE F == Fresh(s, t)
           E(type) == Entry(s, t, type)
<1>1. ASSUME NEW type \in EventType
      PROVE  /\ E(type) \in Seq(F)
             /\ Pushes(s, t, type) => Len(E(type)) = 1
  <2>1. CASE Pushes(s, t, type)
    <3>1. [type |-> type, words |-> Words(s, t, type)] \in F
      BY <2>1, WordsType DEF Fresh, LogEntry
    <3>2. E(type) = <<[type |-> type, words |-> Words(s, t, type)]>>
      BY <2>1 DEF Entry
    <3> HIDE DEF F, E
    <3>3. QED
      BY <3>1, <3>2
  <2>2. CASE ~Pushes(s, t, type)
    BY <2>2 DEF Entry
  <2>3. QED
    BY <2>1, <2>2
<1> DEFINE a == E("SessionStarted") \o E("SessionEnded")
           b == a \o E("ClientJoined") \o E("ClientLeft")
           c == b \o E("ClientReconnected") \o E("TrackUpdated")
           d == c \o E("InterceptorUpdated") \o E("EngageOrderAccepted")
           e == d \o E("EngageOrderRejected") \o E("AssessmentProduced")
           f == e \o E("ResilienceTriggered")
<1>2. Pushed(s, t) = f
  BY DEF Pushed
<1>3. /\ E("SessionStarted") \in Seq(F) /\ E("SessionEnded") \in Seq(F)
      /\ E("ClientJoined") \in Seq(F) /\ E("ClientLeft") \in Seq(F)
      /\ E("ClientReconnected") \in Seq(F) /\ E("TrackUpdated") \in Seq(F)
      /\ E("InterceptorUpdated") \in Seq(F) /\ E("EngageOrderAccepted") \in Seq(F)
      /\ E("EngageOrderRejected") \in Seq(F) /\ E("AssessmentProduced") \in Seq(F)
      /\ E("ResilienceTriggered") \in Seq(F)
      /\ Pushes(s, t, "SessionEnded") => Len(E("SessionEnded")) = 1
  BY <1>1 DEF EventType
<1> HIDE DEF E, F
<1>4. a \in Seq(F) /\ Len(a) = Len(E("SessionStarted")) + Len(E("SessionEnded"))
  BY <1>3, ConcatProperties
<1> HIDE DEF a
<1>5. b \in Seq(F) /\ Len(b) >= Len(a)
  BY <1>3, <1>4
<1> HIDE DEF b
<1>6. c \in Seq(F) /\ Len(c) >= Len(b)
  BY <1>3, <1>5
<1> HIDE DEF c
<1>7. d \in Seq(F) /\ Len(d) >= Len(c)
  BY <1>3, <1>6
<1> HIDE DEF d
<1>8. e \in Seq(F) /\ Len(e) >= Len(d)
  BY <1>3, <1>7
<1> HIDE DEF e
<1>9. f \in Seq(F) /\ Len(f) >= Len(e)
  BY <1>3, <1>8
<1> HIDE DEF f
<1>10. /\ Len(E("SessionStarted")) \in Nat /\ Len(a) \in Nat /\ Len(b) \in Nat
       /\ Len(c) \in Nat /\ Len(d) \in Nat /\ Len(e) \in Nat /\ Len(f) \in Nat
  BY <1>3, <1>4, <1>5, <1>6, <1>7, <1>8, <1>9, SMTT(30)
<1>11. Len(f) >= Len(a)
  <2>1. Len(d) >= Len(a)
    BY <1>5, <1>6, <1>7, <1>10
  <2>2. QED
    BY <1>8, <1>9, <1>10, <2>1
<1>12. Pushes(s, t, "SessionEnded") => f # <<>>
  <2>1. SUFFICES ASSUME Pushes(s, t, "SessionEnded")
                 PROVE  f # <<>>
    OBVIOUS
  <2>2. Len(a) = Len(E("SessionStarted")) + 1
    BY <1>3, <1>4, <2>1
  <2>3. Len(f) >= 1
    BY <1>10, <1>11, <2>2
  <2>4. QED
    BY <2>3
<1>13. QED
  BY <1>2, <1>9, <1>12 DEF F

\* The window keeps the end of the log.
LEMMA LastFourKeepsLast ==
    ASSUME NEW S, NEW log \in Seq(S)
    PROVE  /\ LastFour(log) \in Seq(S) /\ Len(LastFour(log)) <= 4
           /\ log # <<>> => LastFour(log) # <<>> /\ Last(LastFour(log)) = Last(log)
           /\ log = <<>> => LastFour(log) = <<>>
<1>1. CASE Len(log) > 4
  <2> DEFINE w == SubSeq(log, Len(log) - 3, Len(log))
  <2>1. \A i \in Len(log) - 3 .. Len(log) : log[i] \in S
    BY <1>1
  <2>2. Len(log) \in Nat /\ Len(log) - 3 \in Int
    OBVIOUS
  <2>3. /\ w \in Seq(S) /\ Len(w) = 4
        /\ \A i \in 1 .. Len(log) - (Len(log) - 3) + 1 : w[i] = log[Len(log) - 3 + i - 1]
    BY <2>1, <2>2, SubSeqProperties
  <2>4. LastFour(log) = w
    BY <1>1 DEF LastFour
  <2> HIDE DEF w
  <2>5. 4 \in 1 .. Len(log) - (Len(log) - 3) + 1 /\ Len(log) - 3 + 4 - 1 = Len(log)
    BY <2>2
  <2>6. w[4] = log[Len(log)]
    BY <2>3, <2>5
  <2>7. Len(w) = 4 /\ w \in Seq(S) /\ w # <<>> /\ log # <<>>
    <3>1. Len(w) = 4 /\ w \in Seq(S)
      BY <2>3
    <3>2. \A x \in Seq(S) : Len(x) = 4 => x # <<>>
      OBVIOUS
    <3>3. log # <<>>
      BY <1>1
    <3>4. QED
      BY <3>1, <3>2, <3>3
  <2>8. Last(w) = Last(log)
    BY <2>6, <2>7 DEF Last
  <2>9. QED
    BY <2>4, <2>7, <2>8
<1>2. CASE Len(log) <= 4
  BY <1>2 DEF LastFour
<1>3. QED
  BY <1>1, <1>2

\* The last of two logs in a row is the last of the second, or of the first.
LEMMA LastOfConcat ==
    ASSUME NEW S, NEW x \in Seq(S), NEW y \in Seq(S), x \o y # <<>>
    PROVE  \/ y # <<>> /\ Last(x \o y) \in S /\ Last(x \o y) = Last(y)
           \/ y = <<>> /\ x # <<>> /\ Last(x \o y) = Last(x)
<1>1. CASE y = <<>>
  BY <1>1, ConcatEmptySeq
<1>2. CASE y # <<>>
  <2>1. Len(y) \in Nat \ {0} /\ Len(x) \in Nat
    BY <1>2, EmptySeq
  <2>2. Len(x \o y) = Len(x) + Len(y)
    BY ConcatProperties
  <2>3. (x \o y)[Len(x) + Len(y)] = y[Len(y)]
    BY <2>1, ConcatProperties
  <2>4. y[Len(y)] \in S
    BY <2>1
  <2>5. QED
    BY <1>2, <2>2, <2>3, <2>4 DEF Last
<1>3. QED
  BY <1>1, <1>2

--------------------------------------------------------------------------------
(****************************************************************************)
(* The reports' windows on the log keep step with the session.              *)
(****************************************************************************)

\* The texts a decisive event may have, by the profile it leaves in the log.
Telling(profile) ==
    IF profile = "None" THEN {NoWords}
    ELSE IF profile = "Tracked" THEN {{"established"}, {"tracked_intercept"}}
    ELSE {{"dropped", "established"}, {"unguided_intercept"}}

LaunchWord(how) == IF how = "tracked" THEN "tracked_intercept" ELSE "unguided_intercept"

\* What the reports search the log for is what the log's profile says, and the
\* launch of an order; in standby the log has no profile.
DecisiveFacts ==
    /\ decisive \in Telling(session.log.profile)
    /\ launch \in Profile \cup {"none"}
    /\ launch # "none" =>
          /\ session.log.count["EngageOrderAccepted"] > 0
          /\ decisive = {LaunchWord(launch)}
    /\ session.phase = "Standby" => session.log.profile = "None"

Settling == {"EngageOrderAccepted", "AssessmentProduced"}

\* The window on the log, which in a run that ended ends with neither.
RecentFacts ==
    /\ recent \in Seq(LogEntry) /\ Len(recent) <= 4
    /\ session.phase = "Archived" => recent = <<>> \/ Last(recent).type \notin Settling

ReportInv == IInv /\ Drawn(session) /\ Counted(session) /\ DecisiveFacts /\ RecentFacts

\* At the beginning nothing was told.
LEMMA InitReport == ReportInit => ReportInv
<1> SUFFICES ASSUME ReportInit
             PROVE  ReportInv
  OBVIOUS
<1>1. IInv /\ Drawn(session) /\ Counted(session)
  BY InitIInv, InitDrawn, InitCounted DEF ReportInit
<1>2. session.log.profile = "None" /\ session.phase = "Standby"
  BY DEF ReportInit, Init, NewSession, EmptyLog
<1>3. DecisiveFacts
  BY <1>2 DEF ReportInit, DecisiveFacts, Telling
<1>4. RecentFacts
  BY <1>2 DEF ReportInit, RecentFacts
<1>5. QED
  BY <1>1, <1>3, <1>4 DEF ReportInv

\* The texts keep step with the profile.
LEMMA NextDecisive ==
    ASSUME IInv, IInv', Counted(session), Counted(session)', Course(session, session'),
           Tells(session, session'), DecisiveFacts, Journal
    PROVE  DecisiveFacts'
<1> DEFINE s == session
           t == session'
           n == t.log.count["EngageOrderAccepted"]
<1>1. /\ s.log.count \in [EventType -> Nat] /\ t.log.count \in [EventType -> Nat]
      /\ s.log.profile \in TrackProfile /\ s.track.active \in BOOLEAN
  BY DEF IInv, TypeOK, Session, EventLog, TrackState
<1>2. t.phase = "Standby" => t.log.profile = "None"
  BY DEF Course, SameCourse, Judgement, DecisiveFacts
<1>3. CASE t.log = EmptyLog
  <2>1. t.log.profile = "None" /\ decisive' = NoWords /\ launch' = "none"
    BY <1>3 DEF Journal, EmptyLog
  <2>2. QED
    BY <2>1 DEF DecisiveFacts, Telling
<1>4. ASSUME t.log # EmptyLog, TellsNothing(s, t)
      PROVE  DecisiveFacts'
  <2>1. ~Pushes(s, t, "EngageOrderAccepted") /\ ~Pushes(s, t, "TrackUpdated")
    BY <1>1, <1>4 DEF TellsNothing, Pushes, EventType
  <2>2. decisive' = decisive /\ launch' = launch
    BY <1>4, <2>1 DEF Journal, DecisiveAfter, LaunchAfter
  <2>3. QED
    BY <1>2, <1>4, <2>2 DEF DecisiveFacts, TellsNothing
<1>5. ASSUME t.log # EmptyLog, TellsTrack(s, t)
      PROVE  DecisiveFacts'
  <2>1. ~Pushes(s, t, "EngageOrderAccepted") /\ Pushes(s, t, "TrackUpdated")
    BY <1>1, <1>5 DEF TellsTrack, Pushes, EventType
  <2>2. decisive' = Words(s, t, "TrackUpdated") /\ launch' = launch
    BY <1>5, <2>1 DEF Journal, DecisiveAfter, LaunchAfter
  <2>3. n = 0
    BY <1>5 DEF TellsTrack, Counted, LogFacts
  <2>4. launch = "none"
    BY <1>1, <1>5, <2>3 DEF TellsTrack, DecisiveFacts, EventType
  <2>5. Words(s, t, "TrackUpdated") \in Telling(t.log.profile)
    <3>1. CASE t.log.profile = "Tracked"
      BY <3>1 DEF Words, Telling
    <3>2. CASE t.log.profile = "Untracked"
      BY <3>2 DEF Words, Telling
    <3>3. QED
      BY <1>5, <3>1, <3>2 DEF TellsTrack
  <2>6. t.phase # "Standby"
    BY <1>5 DEF TellsTrack
  <2>7. QED
    BY <2>2, <2>4, <2>5, <2>6 DEF DecisiveFacts
<1>6. ASSUME t.log # EmptyLog, TellsOrder(s, t)
      PROVE  DecisiveFacts'
  <2>1. Pushes(s, t, "EngageOrderAccepted") /\ n > 0
    BY <1>1, <1>6 DEF TellsOrder, Pushes, EventType
  <2>2. /\ decisive' = Words(s, t, "EngageOrderAccepted")
        /\ launch' = IF s.track.active THEN "tracked" ELSE "untracked"
    BY <1>6, <2>1 DEF Journal, DecisiveAfter, LaunchAfter
  <2>3. Words(s, t, "EngageOrderAccepted") =
           {IF s.track.active THEN "tracked_intercept" ELSE "unguided_intercept"}
    BY DEF Words
  <2>4. t.phase # "Standby" /\ t.log.profile = IF s.track.active THEN "Tracked" ELSE "Untracked"
    BY <1>6 DEF TellsOrder
  <2>5. CASE s.track.active
    BY <2>1, <2>2, <2>3, <2>4, <2>5 DEF DecisiveFacts, Telling, LaunchWord, Profile
  <2>6. CASE ~s.track.active
    BY <2>1, <2>2, <2>3, <2>4, <2>6 DEF DecisiveFacts, Telling, LaunchWord, Profile
  <2>7. QED
    BY <2>5, <2>6
<1>7. QED
  BY <1>3, <1>4, <1>5, <1>6 DEF Tells

\* A step into or in the archive pushes neither order nor verdict, and the step
\* into it pushes the end.
LEMMA ArchivedTells ==
    ASSUME IInv, IInv', Counted(session), Counted(session)', Course(session, session'),
           Tells(session, session'), session'.phase = "Archived", session'.log # EmptyLog
    PROVE  /\ ~Pushes(session, session', "EngageOrderAccepted")
           /\ ~Pushes(session, session', "AssessmentProduced")
           /\ session.phase # "Archived" => Pushes(session, session', "SessionEnded")
<1> DEFINE s == session
           t == session'
<1>1. s.log.count \in [EventType -> Nat] /\ t.log.count \in [EventType -> Nat]
  BY DEF IInv, TypeOK, Session, EventLog
<1>2. ~Pushes(s, t, "EngageOrderAccepted")
  BY <1>1 DEF Tells, TellsNothing, TellsTrack, TellsOrder, Pushes, EventType
<1>3. t.ready = s.ready
  BY DEF Course, SameCourse, Judgement, JudgedAs
<1>4. ~Pushes(s, t, "AssessmentProduced")
  BY <1>3 DEF Pushes, Counted, LogFacts
<1>5. s.phase # "Archived" => Pushes(s, t, "SessionEnded")
  BY DEF Pushes, Counted, LogFacts
<1>6. QED
  BY <1>2, <1>4, <1>5

\* The window on the log keeps its type and, in a run that ended, its end.
LEMMA NextRecent ==
    ASSUME IInv, IInv', Counted(session), Counted(session)', Course(session, session'),
           Tells(session, session'), RecentFacts, Journal
    PROVE  RecentFacts'
<1> DEFINE new == Pushed(session, session')
           F == Fresh(session, session')
<1>1. CASE session'.log = EmptyLog
  BY <1>1 DEF Journal, RecentFacts
<1>2. CASE session'.log # EmptyLog
  <2>1. recent' = LastFour(recent \o new)
    BY <1>2 DEF Journal
  <2>2. new \in Seq(F) /\ F \subseteq LogEntry
    BY PushedFresh DEF Fresh
  <2>3. new \in Seq(LogEntry) /\ recent \in Seq(LogEntry)
    BY <2>2 DEF RecentFacts
  <2>4. /\ \A e \in F : Pushes(session, session', e.type)
        /\ Pushes(session, session', "SessionEnded") => new # <<>>
    BY PushedFresh DEF Fresh
  <2> HIDE DEF new, F
  <2> DEFINE all == recent \o new
  <2>5. all \in Seq(LogEntry) /\ recent' = LastFour(all)
    BY <2>1, <2>3
  <2>6. new # <<>> => Last(new) \in F
    <3>1. ASSUME NEW x \in Seq(F), x # <<>>
          PROVE  Last(x) \in F
      <4>1. Len(x) \in Nat \ {0}
        BY <3>1, EmptySeq
      <4>2. QED
        BY <4>1 DEF Last
    <3>2. QED
      BY <2>2, <3>1
  <2>7. \/ all = <<>>
        \/ new # <<>> /\ Last(all) = Last(new)
        \/ new = <<>> /\ recent # <<>> /\ Last(all) = Last(recent)
    BY <2>3, LastOfConcat
  <2> HIDE DEF all
  <2>8. /\ recent' \in Seq(LogEntry) /\ Len(recent') <= 4
        /\ all # <<>> => Last(recent') = Last(all)
        /\ all = <<>> => recent' = <<>>
    BY <2>5, LastFourKeepsLast
  <2>9. ASSUME session'.phase = "Archived", all # <<>>
        PROVE  Last(all).type \notin Settling
    <3>1. /\ ~Pushes(session, session', "EngageOrderAccepted")
          /\ ~Pushes(session, session', "AssessmentProduced")
          /\ session.phase # "Archived" => Pushes(session, session', "SessionEnded")
      BY <1>2, <2>9, ArchivedTells
    <3>2. CASE new # <<>> /\ Last(all) = Last(new)
      <4>1. Pushes(session, session', Last(all).type)
        BY <2>4, <2>6, <3>2
      <4>2. QED
        BY <3>1, <4>1 DEF Settling
    <3>3. CASE new = <<>> /\ recent # <<>> /\ Last(all) = Last(recent)
      <4>1. session.phase = "Archived"
        BY <2>4, <3>1, <3>3
      <4>2. QED
        BY <3>3, <4>1 DEF RecentFacts
    <3>4. QED
      BY <2>7, <2>9, <3>2, <3>3
  <2>10. QED
    BY <2>8, <2>9 DEF RecentFacts
<1>3. QED
  BY <1>1, <1>2

\* Every step of the session keeps the reports' windows true.
LEMMA NextReport == ReportInv /\ [ReportNext]_reportVars => ReportInv'
<1> SUFFICES ASSUME ReportInv, [ReportNext]_reportVars
             PROVE  ReportInv'
  OBVIOUS
<1>1. [Next]_vars
  BY DEF ReportNext, reportVars, vars
<1>2. IInv' /\ Drawn(session)' /\ Counted(session)'
  BY <1>1, NextIInv, NextDrawn, NextCounted DEF ReportInv
<1>3. Course(session, session') /\ Tells(session, session')
  BY <1>1, NextCourse, NextTells DEF ReportInv
<1>4. CASE Journal
  BY <1>2, <1>3, <1>4, NextDecisive, NextRecent DEF ReportInv
<1>5. CASE UNCHANGED reportVars
  <2>1. DecisiveFacts' /\ RecentFacts'
    BY <1>5 DEF reportVars, ReportInv, DecisiveFacts, RecentFacts
  <2>2. QED
    BY <1>2, <2>1 DEF ReportInv
<1>6. QED
  BY <1>4, <1>5 DEF ReportNext

--------------------------------------------------------------------------------
(****************************************************************************)
(* What the reports say of the run.                                         *)
(****************************************************************************)

\* The rules agree on every text a decisive event may have.
LEMMA RulesAgree ==
    ASSUME NEW profile \in TrackProfile, profile # "None", NEW words \in Telling(profile)
    PROVE  /\ words # NoWords
           /\ EventTrackActive(words) <=> profile = "Tracked"
           /\ SampleTrackActive(words) <=> profile = "Tracked"
<1>1. CASE words \in {{"established"}, {"tracked_intercept"}} /\ profile = "Tracked"
  <2>1. words # {}
    BY <1>1
  <2>2. words \intersect {"dropped", "disabled", "unguided_intercept"} = {}
    BY <1>1
  <2>3. words \intersect {"acquired", "established", "enabled", "tracked_intercept"} # {}
    BY <1>1
  <2>4. words \intersect {"dropped", "unguided_intercept"} = {}
    BY <1>1
  <2>5. QED
    BY <1>1, <2>1, <2>2, <2>3, <2>4 DEF NoWords, EventTrackActive, SampleTrackActive
<1>2. CASE /\ words \in {{"dropped", "established"}, {"unguided_intercept"}}
           /\ profile = "Untracked"
  <2>1. words # {}
    BY <1>2
  <2>2. words \intersect {"dropped", "disabled", "unguided_intercept"} # {}
    BY <1>2
  <2>3. words \intersect {"dropped", "unguided_intercept"} # {}
    BY <1>2
  <2>4. QED
    BY <1>2, <2>1, <2>2, <2>3 DEF NoWords, EventTrackActive, SampleTrackActive
<1>3. QED
  BY <1>1, <1>2 DEF TrackProfile, Telling

\* All reports read the same profile, and none where nothing was published.
LEMMA InvReportsAgree == ReportInv => ReportsAgree
<1> SUFFICES ASSUME ReportInv
             PROVE  ReportsAgree
  OBVIOUS
<1> DEFINE p == session.log.profile
<1>1. /\ p \in TrackProfile /\ decisive \in Telling(p) /\ session.snapshots \in Nat
      /\ session.latest.track.active \in BOOLEAN
  BY DEF ReportInv, IInv, TypeOK, Session, EventLog, Snapshot, TrackState, DecisiveFacts
<1>2. session.snapshots = 0 => decisive = NoWords
  BY DEF ReportInv, Drawn, PictureFacts, DecisiveFacts, Telling
<1>3. SummaryProfile = SampleProfile
  <2>1. CASE p = "None"
    BY <1>1, <2>1 DEF Telling, SummaryProfile, SampleProfile
  <2>2. CASE p # "None"
    BY <1>1, <2>2, RulesAgree DEF SummaryProfile, SampleProfile, ProfileLabel
  <2>3. QED
    BY <2>1, <2>2
<1>4. session.snapshots > 0 => SummaryProfile = RuntimeLogProfile
  BY <1>1 DEF SummaryProfile, RuntimeLogProfile, ProfileLabel
<1>5. RuntimeLogProfile = "unknown" <=> session.snapshots = 0
  BY <1>1, <1>2 DEF RuntimeLogProfile, ProfileLabel
<1>6. (RuntimeLogProfile = "unknown") = (session.snapshots = 0)
  BY <1>5
<1>7. QED
  BY <1>3, <1>4, <1>6 DEF ReportsAgree

\* From the order on, the reports read its launch.
LEMMA InvLaunch == ReportInv => ReportTellsLaunch
<1> SUFFICES ASSUME ReportInv, launch # "none"
             PROVE  SummaryProfile = launch
  BY DEF ReportTellsLaunch
<1>1. launch \in Profile /\ decisive = {LaunchWord(launch)}
  BY DEF ReportInv, DecisiveFacts
<1>2. CASE launch = "tracked"
  <2>1. decisive = {"tracked_intercept"}
    BY <1>1, <1>2 DEF LaunchWord
  <2>2. decisive # NoWords /\ EventTrackActive(decisive)
    BY <2>1 DEF NoWords, EventTrackActive
  <2>3. QED
    BY <1>2, <2>2 DEF SummaryProfile, ProfileLabel
<1>3. CASE launch = "untracked"
  <2>1. decisive = {"unguided_intercept"}
    BY <1>1, <1>3 DEF LaunchWord
  <2>2. decisive # NoWords /\ ~EventTrackActive(decisive)
    BY <2>1 DEF NoWords, EventTrackActive
  <2>3. QED
    BY <1>3, <2>2 DEF SummaryProfile, ProfileLabel
<1>4. QED
  BY <1>1, <1>2, <1>3 DEF Profile

\* Sets of two and three names have at most as many members.
LEMMA FewNames ==
    ASSUME NEW a, NEW b, NEW c
    PROVE  Cardinality({a, b}) \in 0 .. 2 /\ Cardinality({a, b, c}) \in 0 .. 3
<1> DEFINE S == {a}
           T == S \cup {b}
           U == T \cup {c}
<1>1. IsFiniteSet(S) /\ Cardinality(S) = 1
  BY FS_Singleton
<1>2. {a, b} = T /\ {a, b, c} = U
  OBVIOUS
<1> HIDE DEF S
<1>3. IsFiniteSet(T) /\ Cardinality(T) = IF b \in S THEN Cardinality(S) ELSE Cardinality(S) + 1
  BY <1>1, FS_AddElement
<1>4. Cardinality(T) \in 0 .. 2
  BY <1>1, <1>3
<1> HIDE DEF T
<1>5. Cardinality(U) = IF c \in T THEN Cardinality(T) ELSE Cardinality(T) + 1
  BY <1>3, FS_AddElement
<1>6. Cardinality(U) \in 0 .. 3
  BY <1>4, <1>5
<1>7. QED
  BY <1>2, <1>4, <1>6

Flag(set) == IF set THEN 1 ELSE 0

\* The case has one name for each flag.
LEMMA CaseNames ==
    ASSUME NEW reconnect \in BOOLEAN, NEW timeout \in BOOLEAN, NEW gap \in BOOLEAN,
           NEW c, c = ResilienceCase(reconnect, timeout, gap)
    PROVE  /\ "reconnect_and_resync" \in c <=> reconnect
           /\ "udp_snapshot_gap_convergence" \in c <=> gap
           /\ "timeout_visibility" \in c <=> timeout
           /\ c # {} <=> reconnect \/ timeout \/ gap
           /\ Cardinality(c) \in 0 .. Flag(reconnect) + Flag(timeout) + Flag(gap)
<1> DEFINE r == "reconnect_and_resync"
           g == "udp_snapshot_gap_convergence"
           o == "timeout_visibility"
<1>1. /\ r \in c <=> reconnect
      /\ g \in c <=> gap
      /\ o \in c <=> timeout
      /\ c # {} <=> reconnect \/ timeout \/ gap
  BY DEF ResilienceCase
<1>2. CASE reconnect /\ timeout /\ gap
  <2>1. c = {r, g, o} /\ Flag(reconnect) + Flag(timeout) + Flag(gap) = 3
    BY <1>2 DEF ResilienceCase, Flag
  <2>2. Cardinality({r, g, o}) \in 0 .. 3
    BY FewNames
  <2>3. QED
    BY <1>1, <2>1, <2>2
<1>3. CASE reconnect /\ ~timeout /\ gap
  <2>1. c = {r, g} /\ Flag(reconnect) + Flag(timeout) + Flag(gap) = 2
    BY <1>3 DEF ResilienceCase, Flag
  <2>2. Cardinality({r, g}) \in 0 .. 2
    BY FewNames
  <2>3. QED
    BY <1>1, <2>1, <2>2
<1>4. CASE reconnect /\ timeout /\ ~gap
  <2>1. c = {r, o} /\ Flag(reconnect) + Flag(timeout) + Flag(gap) = 2
    BY <1>4 DEF ResilienceCase, Flag
  <2>2. Cardinality({r, o}) \in 0 .. 2
    BY FewNames
  <2>3. QED
    BY <1>1, <2>1, <2>2
<1>5. CASE ~reconnect /\ timeout /\ gap
  <2>1. c = {g, o} /\ Flag(reconnect) + Flag(timeout) + Flag(gap) = 2
    BY <1>5 DEF ResilienceCase, Flag
  <2>2. Cardinality({g, o}) \in 0 .. 2
    BY FewNames
  <2>3. QED
    BY <1>1, <2>1, <2>2
<1>6. CASE reconnect /\ ~timeout /\ ~gap
  <2>1. c = {r} /\ Flag(reconnect) + Flag(timeout) + Flag(gap) = 1
    BY <1>6 DEF ResilienceCase, Flag
  <2>2. Cardinality(c) = 1
    BY <2>1, FS_Singleton
  <2>3. Cardinality(c) \in 0 .. 1
    BY <2>2
  <2>4. QED
    BY <1>1, <2>1, <2>3
<1>7. CASE ~reconnect /\ timeout /\ ~gap
  <2>1. c = {o} /\ Flag(reconnect) + Flag(timeout) + Flag(gap) = 1
    BY <1>7 DEF ResilienceCase, Flag
  <2>2. Cardinality(c) = 1
    BY <2>1, FS_Singleton
  <2>3. Cardinality(c) \in 0 .. 1
    BY <2>2
  <2>4. QED
    BY <1>1, <2>1, <2>3
<1>8. CASE ~reconnect /\ ~timeout /\ gap
  <2>1. c = {g} /\ Flag(reconnect) + Flag(timeout) + Flag(gap) = 1
    BY <1>8 DEF ResilienceCase, Flag
  <2>2. Cardinality(c) = 1
    BY <2>1, FS_Singleton
  <2>3. Cardinality(c) \in 0 .. 1
    BY <2>2
  <2>4. QED
    BY <1>1, <2>1, <2>3
<1>9. CASE ~reconnect /\ ~timeout /\ ~gap
  <2>1. c = {} /\ Flag(reconnect) + Flag(timeout) + Flag(gap) = 0
    BY <1>9 DEF ResilienceCase, Flag
  <2>2. QED
    BY <1>1, <2>1, FS_EmptySet
<1>10. QED
  BY <1>2, <1>3, <1>4, <1>5, <1>6, <1>7, <1>8, <1>9

\* The summary's case is the one the log shows, and its last event fits its phase.
LEMMA InvSummary == ReportInv => SummaryConsistent
<1> SUFFICES ASSUME ReportInv
             PROVE  SummaryConsistent
  OBVIOUS
<1> DEFINE n == session.log.count
           names == BuildSummary.resilience
           back == session.reconnectExercised
           late == session.timeoutExercised
           gap == session.gapExercised
<1>1. /\ session \in Session /\ back \in BOOLEAN /\ late \in BOOLEAN /\ gap \in BOOLEAN
      /\ n["ResilienceTriggered"] \in Nat /\ n["ClientReconnected"] \in Nat
  BY DEF ReportInv, IInv, TypeOK, Session, EventLog, EventType
<1>2. /\ back <=> n["ClientReconnected"] > 0
      /\ late <=> Timeouts(session) > 0
      /\ Timeouts(session) >= 0
  BY <1>1, ResilienceRead DEF ReportInv, Counted
<1>3. Timeouts(session) = n["ResilienceTriggered"] - n["ClientReconnected"] - Flag(gap)
  BY DEF Timeouts, Flag
<1>4. names = ResilienceCase(back, late, gap)
  BY DEF BuildSummary
<1>5. /\ BuildSummary.phase = session.phase
      /\ BuildSummary.lastEvent = IF recent = <<>> THEN "none" ELSE Last(recent).type
  BY DEF BuildSummary
<1> HIDE DEF names
<1>6. /\ "reconnect_and_resync" \in names <=> back
      /\ "udp_snapshot_gap_convergence" \in names <=> gap
      /\ "timeout_visibility" \in names <=> late
      /\ names # {} <=> back \/ late \/ gap
      /\ Cardinality(names) \in 0 .. Flag(back) + Flag(late) + Flag(gap)
  BY <1>1, <1>4, CaseNames
<1>7. names # {} <=> n["ResilienceTriggered"] > 0
  BY <1>1, <1>2, <1>3, <1>6 DEF Flag
<1>8. Flag(back) + Flag(late) + Flag(gap) <= n["ResilienceTriggered"]
  BY <1>1, <1>2, <1>3 DEF Flag
<1>9. Cardinality(names) <= n["ResilienceTriggered"]
  <2>1. Flag(back) + Flag(late) + Flag(gap) \in Nat
    BY DEF Flag
  <2>2. QED
    BY <1>1, <1>6, <1>8, <2>1
<1>10. session.phase = "Archived" =>
          BuildSummary.lastEvent \notin {"EngageOrderAccepted", "AssessmentProduced"}
  BY <1>5 DEF ReportInv, RecentFacts, Settling
<1>11. /\ ("reconnect_and_resync" \in names) = (n["ClientReconnected"] > 0)
       /\ ("udp_snapshot_gap_convergence" \in names) = gap
       /\ ("timeout_visibility" \in names) = late
       /\ (names # {}) = (n["ResilienceTriggered"] > 0)
  <2>1. "reconnect_and_resync" \in names <=> n["ClientReconnected"] > 0
    BY <1>2, <1>6
  <2>2. QED
    BY <1>1, <1>6, <1>7, <2>1
<1>12. QED
  BY <1>5, <1>9, <1>10, <1>11 DEF SummaryConsistent, names

\* Whenever reports are written, for every timeout and every order of calls:
\* they agree on the profile, tell the launch of the order and the case the log
\* shows, and the log they are made from tells the run.
THEOREM ReportsTrue == ReportSpec => []ReportsTellTheRun
<1>1. ReportSpec => []ReportInv
  BY InitReport, NextReport, PTL DEF ReportSpec
<1>2. ReportInv => ReportTypeOK
  BY DEF ReportInv, IInv, ReportTypeOK, DecisiveFacts, RecentFacts, Telling, Word, NoWords
<1>3. ReportInv => LogTellsTheRun /\ ResilienceCaseBacked
  BY DEF ReportInv, Counted, LogTellsTheRun, ResilienceCaseBacked
<1>4. ReportInv => ReportsTellTheRun
  BY <1>2, <1>3, InvReportsAgree, InvLaunch, InvSummary DEF ReportsTellTheRun
<1>5. QED
  BY <1>1, <1>4, PTL
================================================================================
