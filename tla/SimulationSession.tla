--------------------------- MODULE SimulationSession ---------------------------
(****************************************************************************)
(* The authoritative session as a state machine: the public methods of      *)
(* SimulationSession in any order its callers may choose.  Every method     *)
(* runs to completion on the server's only thread, so each is one action.   *)
(****************************************************************************)
EXTENDS SessionInvariants

CONSTANTS
    Clients,          \* the roles whose connections change in a run
    MaxTick,          \* ticks of a run (run_socket_live's tick_limit)
    MaxSequence,      \* no reset once this many snapshots were recorded
    MaxChurn,         \* leaves, reconnects, timeouts and gaps in a run
    MaxRejections,    \* rejections in a run
    MaxTrackUpdates   \* track acquisitions and drops in a run

ASSUME ClientsAreRoles == Clients \subseteq ClientRole

ASSUME BoundsAreNaturals ==
    {MaxTick, MaxSequence, MaxChurn, MaxRejections, MaxTrackUpdates} \subseteq Nat

VARIABLE session

vars == session

Init == \E t \in EngagementTimeouts : session = NewSession(t)

\* The bounds on the environment; the operations themselves have none.
ClientsAct ==
    session.log.count["ClientLeft"] + session.log.count["ResilienceTriggered"] < MaxChurn
OperatorActs == session.log.count["EngageOrderRejected"] < MaxRejections

Connect(role)    == ClientsAct /\ session' = ConnectClient(session, role)
Disconnect(role) == ClientsAct /\ session' = DisconnectClient(session, role)
Timeout(role)    == ClientsAct /\ session' = TimeoutClient(session, role)

\* The in-process transport starts the scenario it was constructed with.
Start == OperatorActs /\ session' = StartScenario(session)

\* socket_live applies the scenario of the request first, in standby only.
ConfigureAndStart ==
    /\ OperatorActs
    /\ session.phase = "Standby"
    /\ \E t \in EngagementTimeouts :
          session' = StartScenario(ConfigureScenario(session, t))

Reset == session.sequence < MaxSequence /\ session' = ResetSession(session)

AcquireTrack ==
    /\ OperatorActs /\ session.log.count["TrackUpdated"] < MaxTrackUpdates
    /\ session' = RequestTrack(session)

DropTrack ==
    /\ OperatorActs /\ session.log.count["TrackUpdated"] < MaxTrackUpdates
    /\ session' = ReleaseTrack(session)

MakeReady == OperatorActs /\ session' = ActivateAsset(session)
Engage    == OperatorActs /\ session' = IssueCommand(session)

\* A transport refuses a request without asking the session.
TransportRejection == OperatorActs /\ session' = RecordTransportRejection(session)

\* scenario_stop, the end of the baseline run and a signalled shutdown.
Archive == session' = ArchiveSession(session)

Tick ==
    /\ session.tick < MaxTick
    /\ \E hit, inFov \in BOOLEAN : session' = AdvanceTick(session, hit, inFov)

Next ==
    \/ \E role \in Clients : Connect(role) \/ Disconnect(role) \/ Timeout(role)
    \/ Start \/ ConfigureAndStart \/ Reset
    \/ AcquireTrack \/ DropTrack \/ MakeReady \/ Engage
    \/ TransportRejection \/ Archive
    \/ Tick

Spec == Init /\ [][Next]_vars

\* Only the server loop is fair: it calls advance_tick on every iteration.
FairSpec == Spec /\ WF_vars(Tick)
--------------------------------------------------------------------------------
(****************************************************************************)
(* Safety                                                                   *)
(****************************************************************************)

\* Every field keeps its C++ type.
TypeOK == session \in Session

Engaged == session.phase \in {"EngageOrdered", "Intercepting"}

\* The phase, the order, the interceptor, the entities and the verdict never
\* contradict one another, whatever commands, rejections, ticks, stops and
\* resets came before: in particular a verdict exists only for an order that
\* was executed, and a successful one leaves neither target nor track.
PhaseConsistent == PhaseFacts(session)

\* An order under way never outlives its timeout: as long as no rejected
\* command has disturbed it, the engagement is younger than
\* engagement_timeout_ticks after every tick (boundary of advance_tick's >=).
EngagementTimely == TimelyFacts(session)

\* The seeker is locked only on a tracked target by an active interceptor whose
\* order was given: the lock is recomputed by ticks only, so every command
\* between two ticks must be unable to take the track away under it.
SeekerLockNeedsTrack == SeekerFacts(session)

\* The track profile that the after-action artifacts read off the log is the
\* one the interceptor flies: up to the verdict it says whether a track is held.
ProfileMatchesTrack == ProfileFacts(session)

\* The log of a run tells the run: one assessment event exactly if there is a
\* verdict, one end exactly if it is archived, at most one start and one
\* accepted order, each before what follows from it.
LogTellsTheRun == LogFacts(session)

\* The resilience case of the summary is backed by the log of the same run:
\* every flag by an event, every resilience event by a flag, also across resets.
ResilienceCaseBacked == ResilienceFacts(session)

\* Once there is a snapshot, the last one shows the present phase, tick, track,
\* weapon and verdict under the present sequence number: no operation changes
\* any of them without publishing.  (The order status, the provisional code
\* and the display's connection may lag until the next snapshot.)
PictureCurrent == PictureFacts(session)

\* A held track is never more than five ticks past its last measurement, and at
\* most one measurement was missed since (measurement_due, measurement_available);
\* after a verdict it may be seven, since the tick that archives skips a sample.
TrackFresh == TrackFacts(session)

--------------------------------------------------------------------------------
(****************************************************************************)
(* Action properties                                                        *)
(****************************************************************************)

\* A verdict is final: late or rejected commands, client churn, ticks and the
\* archive leave code and order alone; only a reset to standby takes it back.
VerdictFinal ==
    [][session.ready =>
          \/ /\ session'.ready /\ session'.code = session.code
             /\ session'.order = session.order
             /\ ArtifactTrackActive(session') = ArtifactTrackActive(session)
          \/ session'.phase = "Standby"]_vars

\* A snapshot number is never used twice, not even across a reset: the display
\* drops every snapshot whose number is not above the last one it applied.
SequenceNeverReused ==
    [][/\ session'.sequence >= session.sequence
       /\ session'.latest # session.latest => session'.latest.sequence > session.sequence]_vars

--------------------------------------------------------------------------------
(****************************************************************************)
(* Refinement and liveness                                                  *)
(****************************************************************************)

Lifecycle == INSTANCE EngagementLifecycle WITH
    stage <- session.phase,
    guided <- session.log.profile = "Tracked",
    verdict <- IF session.ready THEN session.code ELSE "None"

\* The session implements the engagement's lifecycle: every method call is one
\* lifecycle step or none.
ImplementsLifecycle == Lifecycle!Spec

\* An order that no rejected command disturbs is settled: the loop keeps ticking
\* until the verdict, a stop or a reset.  (The tick limit must leave it the time.)
OrderSettles ==
    (Engaged /\ session.order # "Rejected" /\ session.started + session.timeoutTicks <= MaxTick)
        ~> (session.ready \/ session.order = "Rejected" \/ ~Engaged)

\* PROJECT.md 8.3: past the timeout ticks the assessment is TimeoutObserved.
TimeoutAlwaysObserved ==
    Engaged => session.tick - session.started < session.timeoutTicks
================================================================================
