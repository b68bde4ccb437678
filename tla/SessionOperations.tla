--------------------------- MODULE SessionOperations ---------------------------
(****************************************************************************)
(* The operations of the authoritative SimulationSession, each one a        *)
(* function from a session record to the session record the C++ method      *)
(* leaves behind.  The transports call several of them in one handler, so   *)
(* they are operators to compose rather than actions; the modules that own  *)
(* a VARIABLE session turn them into actions.                               *)
(*                                                                          *)
(* Abstractions.  Positions, velocities and angles are left out: whether    *)
(* the interceptor is inside the intercept radius, and whether the target   *)
(* is inside the seeker's field of view, are arguments of AdvanceTick.  The *)
(* event log keeps its size, how often each type occurs and the track       *)
(* profile of its last track or engage event; the snapshot list             *)
(* keeps its size and its last element (record_snapshot numbers snapshots   *)
(* with ++sequence_, so the list holds the last "snapshots" numbers).       *)
(*                                                                          *)
(* Source: common/src/simulation*.cpp, common/include/icss/core/types.hpp   *)
(****************************************************************************)
EXTENDS Integers, TrackFilter

CONSTANT EngagementTimeouts  \* the values scenario.engagement_timeout_ticks may take

\* validate_runtime_config requires a positive engagement_timeout_ticks.
ASSUME EngagementTimeoutsPositive ==
    EngagementTimeouts # {} /\ EngagementTimeouts \subseteq Nat \ {0}

ClientRole == {"FireControlConsole", "TacticalDisplay"}
ConnectionState == {"Disconnected", "Connected", "Reconnected", "TimedOut"}
SessionPhase == {"Standby", "Detecting", "Tracking", "InterceptorReady",
                 "EngageOrdered", "Intercepting", "Assessed", "Archived"}
InterceptorStatus == {"Idle", "Ready", "Intercepting", "Complete"}
EngageOrderStatus == {"None", "Accepted", "Executing", "Completed", "Rejected"}
AssessmentCode == {"Pending", "InterceptSuccess", "InvalidTransition", "TimeoutObserved"}
EventType == {"SessionStarted", "SessionEnded", "ClientJoined", "ClientLeft",
              "ClientReconnected", "TrackUpdated", "InterceptorUpdated",
              "EngageOrderAccepted", "EngageOrderRejected", "AssessmentProduced",
              "ResilienceTriggered"}

\* engagement_started_tick_ is an optional; NoTick is its empty value.
NoTick == -1

\* What event_track_active reads off the last TrackUpdated or EngageOrderAccepted.
TrackProfile == {"None", "Tracked", "Untracked"}

EventLog == [size : Nat, count : [EventType -> Nat], profile : TrackProfile]

Snapshot == [sequence : Nat, tick : Nat, phase : SessionPhase, track : TrackState,
             lock : BOOLEAN, interceptor : InterceptorStatus, order : EngageOrderStatus,
             ready : BOOLEAN, code : AssessmentCode, display : ConnectionState]

Session ==
    [phase : SessionPhase, tick : Nat, sequence : Nat,
     timeoutTicks : EngagementTimeouts,
     targetActive : BOOLEAN, assetActive : BOOLEAN,
     connection : [ClientRole -> ConnectionState], joined : [ClientRole -> BOOLEAN],
     track : TrackState, seekerLock : BOOLEAN,
     interceptor : InterceptorStatus, order : EngageOrderStatus,
     ready : BOOLEAN, code : AssessmentCode, started : Nat \cup {NoTick},
     reconnectExercised : BOOLEAN, timeoutExercised : BOOLEAN, gapExercised : BOOLEAN,
     log : EventLog, snapshots : Nat, latest : Snapshot]

EmptyLog == [size |-> 0, count |-> [e \in EventType |-> 0], profile |-> "None"]

\* The value of "latest" while the list is empty; latest_snapshot throws then.
NoSnapshot == [sequence |-> 0, tick |-> 0, phase |-> "Standby", track |-> ClearedTrack,
               lock |-> FALSE, interceptor |-> "Idle", order |-> "None",
               ready |-> FALSE, code |-> "Pending", display |-> "Disconnected"]

\* The constructor, and the initial values of the class's fields.
NewSession(timeout) ==
    [phase |-> "Standby", tick |-> 0, sequence |-> 0,
     timeoutTicks |-> timeout,
     targetActive |-> FALSE, assetActive |-> FALSE,
     connection |-> [r \in ClientRole |-> "Disconnected"],
     joined |-> [r \in ClientRole |-> FALSE],
     track |-> ClearedTrack, seekerLock |-> FALSE,
     interceptor |-> "Idle", order |-> "None",
     ready |-> FALSE, code |-> "Pending", started |-> NoTick,
     reconnectExercised |-> FALSE, timeoutExercised |-> FALSE, gapExercised |-> FALSE,
     log |-> EmptyLog, snapshots |-> 0, latest |-> NoSnapshot]

--------------------------------------------------------------------------------
(****************************************************************************)
(* Event log and snapshots                                                  *)
(****************************************************************************)

Logged(log, type) ==
    [log EXCEPT !.size = @ + 1, !.count[type] = @ + 1]

PushEvent(s, type) ==
    [s EXCEPT !.log = Logged(@, type)]

\* An event whose text carries the track profile (event_track_active).
PushTrackEvent(s, type, tracked) ==
    [s EXCEPT !.log = [Logged(@, type) EXCEPT
                          !.profile = IF tracked THEN "Tracked" ELSE "Untracked"]]

\* The engagement_context of record_snapshot (broader than advance_tick's).
PublishesSeeker(s) ==
    /\ s.assetActive
    /\ s.order \in {"Accepted", "Executing", "Completed"} \/ s.ready
    /\ s.track.active

SnapshotOf(s) ==
    [sequence |-> s.sequence + 1, tick |-> s.tick, phase |-> s.phase,
     track |-> s.track, lock |-> PublishesSeeker(s) /\ s.seekerLock,
     interceptor |-> s.interceptor, order |-> s.order,
     ready |-> s.ready, code |-> s.code,
     display |-> s.connection["TacticalDisplay"]]

\* A reconnected display is shown as such in one snapshot only.
Settled(connection) == IF connection = "Reconnected" THEN "Connected" ELSE connection

RecordSnapshot(s) ==
    [s EXCEPT !.sequence = @ + 1,
              !.snapshots = @ + 1, !.latest = SnapshotOf(s),
              !.connection["TacticalDisplay"] = Settled(@)]

\* Mutant: the test of assessment_.ready is dropped.
RejectCommandAlways(s) ==
    [PushEvent(s, "EngageOrderRejected") EXCEPT !.order = "Rejected",
                                                !.code = "InvalidTransition"]

\* reject_command: the order and the code change unless a verdict is in; no snapshot.
RejectCommand(s) ==
    LET logged == PushEvent(s, "EngageOrderRejected")
    IN  IF s.ready THEN logged
        ELSE [logged EXCEPT !.order = "Rejected", !.code = "InvalidTransition"]

RecordTransportRejection(s) == PushEvent(s, "EngageOrderRejected")

--------------------------------------------------------------------------------
(****************************************************************************)
(* Clients                                                                  *)
(****************************************************************************)

ConnectClient(s, role) ==
    LET known  == s.joined[role]
        placed == [s EXCEPT !.joined[role] = TRUE,
                            !.connection[role] = IF known THEN "Reconnected" ELSE "Connected",
                            !.reconnectExercised = @ \/ known]
    IN  IF known
        THEN PushEvent(PushEvent(placed, "ClientReconnected"), "ResilienceTriggered")
        ELSE PushEvent(placed, "ClientJoined")

DisconnectClient(s, role) ==
    PushEvent([s EXCEPT !.connection[role] = "Disconnected"], "ClientLeft")

TimeoutClient(s, role) ==
    RecordSnapshot(PushEvent([s EXCEPT !.connection[role] = "TimedOut",
                                       !.timeoutExercised = TRUE],
                             "ResilienceTriggered"))

--------------------------------------------------------------------------------
(****************************************************************************)
(* Commands of the fire control console                                     *)
(****************************************************************************)

StartScenario(s) ==
    IF s.connection["FireControlConsole"] = "Disconnected" \/ s.phase # "Standby"
    THEN RejectCommand(s)
    ELSE RecordSnapshot(PushEvent(
            [s EXCEPT !.phase = "Detecting", !.targetActive = TRUE,
                      !.track = ClearedTrack, !.interceptor = "Idle",
                      !.order = "None", !.ready = FALSE, !.code = "Pending"],
            "SessionStarted"))

\* reset_world_state_from_scenario and clear_track_state, with the status fields
\* that configure_scenario and reset_session both restore.
ResetWorld(s) ==
    [s EXCEPT !.targetActive = FALSE, !.assetActive = FALSE, !.seekerLock = FALSE,
              !.track = ClearedTrack, !.interceptor = "Idle", !.order = "None",
              !.ready = FALSE, !.code = "Pending", !.started = NoTick]

\* Mutant: the session keeps the timeout it was created with.
ConfigureScenarioOldTimeout(s, timeout) == ResetWorld(s)

ConfigureScenario(s, timeout) == [ResetWorld(s) EXCEPT !.timeoutTicks = timeout]

\* Mutant: the snapshot numbering starts over.
ResetSessionRestartsSequence(s) ==
    RecordSnapshot([NewSession(s.timeoutTicks) EXCEPT !.connection = s.connection,
                                                      !.joined = s.joined])

\* Mutant: the event log of the previous run is kept.
ResetSessionKeepsLog(s) ==
    RecordSnapshot(
        [ResetWorld(s) EXCEPT
            !.tick = 0, !.phase = "Standby",
            !.reconnectExercised = FALSE, !.timeoutExercised = FALSE,
            !.gapExercised = FALSE, !.snapshots = 0, !.latest = NoSnapshot,
            !.connection = [r \in ClientRole |-> Settled(s.connection[r])]])

ResetSession(s) ==
    RecordSnapshot(
        [ResetWorld(s) EXCEPT
            !.tick = 0, !.phase = "Standby",
            !.reconnectExercised = FALSE, !.timeoutExercised = FALSE,
            !.gapExercised = FALSE,
            !.log = EmptyLog, !.snapshots = 0, !.latest = NoSnapshot,
            !.connection = [r \in ClientRole |-> Settled(s.connection[r])]])

RequestTrack(s) ==
    LET seeded == [s EXCEPT !.track = SeededTrack,
                            !.phase = IF @ = "Detecting" THEN "Tracking" ELSE @]
    IN  IF \/ s.phase = "Detecting"
           \/ s.phase = "InterceptorReady" /\ ~s.track.active
        THEN RecordSnapshot(PushTrackEvent(seeded, "TrackUpdated", TRUE))
        ELSE RejectCommand(s)

ReleaseTrack(s) ==
    LET cleared == [s EXCEPT !.track = ClearedTrack,
                             !.phase = IF @ = "Tracking" THEN "Detecting" ELSE @]
    IN  IF s.phase \in {"Tracking", "InterceptorReady"} /\ s.track.active
        THEN RecordSnapshot(PushTrackEvent(cleared, "TrackUpdated", FALSE))
        ELSE RejectCommand(s)

\* Mutant: the record_snapshot at the end is missing.
ActivateAssetUnpublished(s) ==
    IF s.phase = "Tracking" /\ s.track.active
    THEN PushEvent([s EXCEPT !.interceptor = "Ready", !.assetActive = TRUE,
                             !.phase = "InterceptorReady"],
                   "InterceptorUpdated")
    ELSE RejectCommand(s)

ActivateAsset(s) ==
    IF s.phase = "Tracking" /\ s.track.active
    THEN RecordSnapshot(PushEvent(
            [s EXCEPT !.interceptor = "Ready", !.assetActive = TRUE,
                      !.phase = "InterceptorReady"],
            "InterceptorUpdated"))
    ELSE RejectCommand(s)

\* Mutant: the event always reports a tracked launch.
IssueCommandAssumesTrack(s) ==
    IF s.phase = "InterceptorReady" /\ s.interceptor = "Ready"
    THEN RecordSnapshot(PushTrackEvent(
            [s EXCEPT !.order = "Accepted", !.phase = "EngageOrdered", !.started = s.tick],
            "EngageOrderAccepted", TRUE))
    ELSE RejectCommand(s)

IssueCommand(s) ==
    IF s.phase = "InterceptorReady" /\ s.interceptor = "Ready"
    THEN RecordSnapshot(PushTrackEvent(
            [s EXCEPT !.order = "Accepted", !.phase = "EngageOrdered", !.started = s.tick],
            "EngageOrderAccepted", s.track.active))
    ELSE RejectCommand(s)

ArchiveSession(s) ==
    IF s.phase = "Archived" THEN s
    ELSE RecordSnapshot(PushEvent([s EXCEPT !.phase = "Archived"], "SessionEnded"))

--------------------------------------------------------------------------------
(****************************************************************************)
(* advance_tick, in the order of its statements.                            *)
(****************************************************************************)

\* Mutant: only a tracked order is launched.
LaunchedTrackedOnly(s) ==
    LET ticked   == s.tick + 1
        launches == s.order = "Accepted" /\ s.phase = "EngageOrdered" /\ s.track.active
    IN  [s EXCEPT
            !.tick = ticked,
            !.track = IF @.active THEN UpdatedTrack(@, ticked) ELSE @,
            !.phase = IF launches THEN "Intercepting" ELSE @,
            !.interceptor = IF launches THEN "Intercepting" ELSE @,
            !.order = IF launches THEN "Executing" ELSE @]

\* The tick, the target's track and the launch of an accepted order.
Launched(s) ==
    LET ticked   == s.tick + 1
        launches == s.order = "Accepted" /\ s.phase = "EngageOrdered"
    IN  [s EXCEPT
            !.tick = ticked,
            !.track = IF @.active THEN UpdatedTrack(@, ticked) ELSE @,
            !.phase = IF launches THEN "Intercepting" ELSE @,
            !.interceptor = IF launches THEN "Intercepting" ELSE @,
            !.order = IF launches THEN "Executing" ELSE @]

\* The seeker, recomputed on every tick; inFov is the geometry's answer.
SeekerUpdated(s, inFov) ==
    [s EXCEPT !.seekerLock = /\ s.assetActive
                             /\ s.order \in {"Accepted", "Executing", "Completed"}
                             /\ s.track.active
                             /\ inFov]

\* Mutant: > for >=.
EngagementExpiredLate(s) ==
    (IF s.started = NoTick THEN 0 ELSE s.tick - s.started) > s.timeoutTicks

EngagementExpired(s) ==
    (IF s.started = NoTick THEN 0 ELSE s.tick - s.started) >= s.timeoutTicks

\* Mutant: engagement_started_tick_ is not reset.
VerdictKeepsStart(s, code) ==
    PushEvent([s EXCEPT !.ready = TRUE, !.code = code, !.phase = "Assessed",
                        !.interceptor = "Complete", !.order = "Completed"],
              "AssessmentProduced")

Verdict(s, code) ==
    PushEvent([s EXCEPT !.ready = TRUE, !.code = code, !.phase = "Assessed",
                        !.interceptor = "Complete", !.order = "Completed",
                        !.started = NoTick],
              "AssessmentProduced")

\* Mutant: a hit leaves the seeker locked.
AssessedKeepsLock(s, hit) ==
    IF ~(s.order = "Executing" /\ s.phase = "Intercepting") THEN s
    ELSE IF hit
         THEN Verdict([s EXCEPT !.targetActive = FALSE, !.track.active = FALSE], "InterceptSuccess")
         ELSE IF EngagementExpired(s) THEN Verdict(s, "TimeoutObserved") ELSE s

\* The assessment of an executing order; hit is the geometry's answer.
Assessed(s, hit) ==
    IF ~(s.order = "Executing" /\ s.phase = "Intercepting") THEN s
    ELSE IF hit
         THEN Verdict([s EXCEPT !.targetActive = FALSE, !.track.active = FALSE,
                                !.seekerLock = FALSE],
                      "InterceptSuccess")
         ELSE IF EngagementExpired(s) THEN Verdict(s, "TimeoutObserved") ELSE s

\* The snapshot gap rehearsed at the second tick of every run.
GapExercised(s) ==
    IF s.tick = 2 /\ ~s.gapExercised
    THEN PushEvent([s EXCEPT !.gapExercised = TRUE], "ResilienceTriggered")
    ELSE s

AdvanceTick(s, hit, inFov) ==
    IF s.phase = "Assessed"
    THEN ArchiveSession([s EXCEPT !.tick = @ + 1])
    ELSE RecordSnapshot(GapExercised(Assessed(SeekerUpdated(Launched(s), inFov), hit)))

--------------------------------------------------------------------------------
(****************************************************************************)
(* artifact_track_active: the track state the after-action artifacts report. *)
(****************************************************************************)
ArtifactTrackActive(s) ==
    IF s.log.profile = "None" THEN s.latest.track.active ELSE s.log.profile = "Tracked"
================================================================================
