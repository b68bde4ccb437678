--------------------------- MODULE SessionInvariants ---------------------------
(****************************************************************************)
(* What holds of a session record between two operations, as predicates on  *)
(* the record: SimulationSession checks them of its variable, and modules   *)
(* that hold a session as part of their state can use them too.             *)
(****************************************************************************)
EXTENDS SessionOperations

\* The world and the weapon before the order.  A rejected command may have
\* marked the order Rejected, which is why None and Rejected stand together.
PreLaunch(s) ==
    /\ s.order \in {"None", "Rejected"} /\ s.code \in {"Pending", "InvalidTransition"}
    /\ ~s.ready /\ s.started = NoTick /\ ~s.seekerLock

\* What holds in each phase.  Archived is either an assessed run or a run
\* stopped in the middle, whose fields stay as they were.
PhaseFacts(s) ==
    /\ s.phase = "Standby" =>
          /\ PreLaunch(s) /\ s.interceptor = "Idle"
          /\ ~s.targetActive /\ ~s.assetActive /\ ~s.track.active
    /\ s.phase = "Detecting" =>
          /\ PreLaunch(s) /\ s.interceptor = "Idle"
          /\ s.targetActive /\ ~s.assetActive /\ ~s.track.active
    /\ s.phase = "Tracking" =>
          /\ PreLaunch(s) /\ s.interceptor = "Idle"
          /\ s.targetActive /\ ~s.assetActive /\ s.track.active
    /\ s.phase = "InterceptorReady" =>
          /\ PreLaunch(s) /\ s.interceptor = "Ready"
          /\ s.targetActive /\ s.assetActive
    /\ s.phase = "EngageOrdered" =>
          /\ s.targetActive /\ s.assetActive /\ ~s.ready
          /\ s.interceptor = "Ready" /\ s.order \in {"Accepted", "Rejected"}
          /\ s.started \in 0 .. s.tick
          /\ s.order = "Accepted" => s.started = s.tick
    /\ s.phase = "Intercepting" =>
          /\ s.targetActive /\ s.assetActive /\ ~s.ready
          /\ s.interceptor = "Intercepting" /\ s.order \in {"Executing", "Rejected"}
          /\ s.started \in 0 .. s.tick
    /\ s.phase = "Assessed" => s.ready
    /\ s.ready =>
          /\ s.phase \in {"Assessed", "Archived"}
          /\ s.interceptor = "Complete" /\ s.order = "Completed" /\ s.started = NoTick
          /\ s.code \in {"InterceptSuccess", "TimeoutObserved"}
          /\ s.targetActive = (s.code = "TimeoutObserved")
          /\ s.code = "InterceptSuccess" => ~s.track.active
    /\ ~s.ready => s.code \in {"Pending", "InvalidTransition"}
    /\ s.track.active => s.targetActive

\* An order under way is younger than its timeout.
TimelyFacts(s) ==
    s.phase = "Intercepting" /\ s.order = "Executing" =>
        /\ s.started < s.tick
        /\ s.tick - s.started < s.timeoutTicks

\* The seeker is locked only on a tracked target, after the order.
SeekerFacts(s) ==
    s.seekerLock => s.assetActive /\ s.targetActive /\ s.track.active
                    /\ s.phase \notin {"Standby", "Detecting", "Tracking"}

\* Up to the verdict, the profile in the log says whether a track is held.
ProfileFacts(s) ==
    ~s.ready => (s.log.profile = "Tracked") = s.track.active

\* The facts of the mission, inductive together: the timeout and the seeker's
\* lock rest on the phases, and the profile on the phases and the track.
MissionFacts(s) == PhaseFacts(s) /\ TimelyFacts(s) /\ SeekerFacts(s) /\ ProfileFacts(s)

\* How often each milestone is in the log, by phase.
LogFacts(s) ==
    LET n == s.log.count
    IN  /\ n["AssessmentProduced"] = IF s.ready THEN 1 ELSE 0
        /\ n["SessionEnded"] = IF s.phase = "Archived" THEN 1 ELSE 0
        /\ n["AssessmentProduced"] <= n["EngageOrderAccepted"]
        /\ n["EngageOrderAccepted"] <= n["InterceptorUpdated"]
        /\ n["InterceptorUpdated"] <= n["SessionStarted"]
        /\ n["SessionStarted"] <= 1
        /\ s.phase = "Standby" => n["SessionStarted"] = 0
        /\ s.phase \in {"Detecting", "Tracking", "InterceptorReady"} =>
              n["SessionStarted"] = 1 /\ n["EngageOrderAccepted"] = 0
        /\ s.phase \in {"Detecting", "Tracking"} => n["InterceptorUpdated"] = 0
        /\ s.phase = "InterceptorReady" => n["InterceptorUpdated"] = 1
        /\ s.phase \in {"EngageOrdered", "Intercepting"} => n["EngageOrderAccepted"] = 1

\* The exercised flags and the resilience events, each counted from the other.
ResilienceFacts(s) ==
    LET n == s.log.count
        timeouts == n["ResilienceTriggered"] - n["ClientReconnected"]
                    - (IF s.gapExercised THEN 1 ELSE 0)
    IN  /\ s.reconnectExercised = (n["ClientReconnected"] > 0)
        /\ s.timeoutExercised = (timeouts > 0)
        /\ timeouts >= 0

\* The last snapshot shows the present session.
PictureFacts(s) ==
    /\ s.latest.sequence = s.sequence /\ s.snapshots <= s.sequence
    /\ s.snapshots = 0 => s.phase = "Standby" /\ s.tick = 0 /\ s.sequence = 0
    /\ s.latest.phase = s.phase /\ s.latest.tick = s.tick
    /\ s.latest.track = s.track /\ s.latest.interceptor = s.interceptor
    /\ s.latest.ready = s.ready
    /\ s.ready => s.latest.code = s.code /\ s.latest.order = s.order

\* The states of a client that is there.
Present == {"Connected", "Reconnected"}

\* A held track is recent.  The tick that archives an assessed run does not ask
\* the sensor: a measurement due at it is lost besides the one of the schedule.
TrackFacts(s) ==
    s.track.active => s.track.missed <= 1 /\ s.track.age <= IF s.ready THEN 7 ELSE 5
================================================================================
