--------------------------- MODULE AfterActionReport ---------------------------
(****************************************************************************)
(* What the reports of a run say of it: the summary and the timeline        *)
(* (write_aar_artifacts), the runtime log (write_runtime_session_log), the  *)
(* sample output of a transport and the tactical frame printed under it.    *)
(* Each reads the track profile off the words of an event in the log, with  *)
(* a rule of its own, and any state of the session may be the one that is   *)
(* reported: a signal ends the server in whatever phase it is.              *)
(*                                                                          *)
(* Abstractions.  A text is the set of the words in it that a rule looks    *)
(* for.  Of the log only the last decisive event and the last four events   *)
(* are kept: nothing else is searched.                                      *)
(*                                                                          *)
(* Source: common/src/simulation_summary.cpp, runtime.cpp,                  *)
(* transport_inprocess.cpp, transport_socket_live.cpp,                      *)
(* ascii_tactical_view.cpp; the texts are in simulation_commands.cpp.       *)
(****************************************************************************)
EXTENDS SimulationSession, SequencesExt

VARIABLES
    decisive,   \* the words of the last TrackUpdated or EngageOrderAccepted
    recent,     \* the last four events, each with its type and words
    launch      \* how the order of this run was launched

reportVars == <<session, decisive, recent, launch>>

Word == {"dropped", "disabled", "unguided_intercept",
         "acquired", "established", "enabled", "tracked_intercept"}

NoWords == {}

LogEntry == [type : EventType, words : SUBSET Word]

Profile == {"tracked", "untracked"}

--------------------------------------------------------------------------------
(****************************************************************************)
(* The texts of the events, and the windows on the log.                     *)
(****************************************************************************)

\* The text of an event pushed by the step from s to t.
Words(s, t, type) ==
    CASE type = "TrackUpdated" /\ t.log.profile = "Tracked"   -> {"established"}
      [] type = "TrackUpdated" /\ t.log.profile = "Untracked" -> {"dropped", "established"}
      [] type = "EngageOrderAccepted" -> {IF s.track.active THEN "tracked_intercept"
                                                            ELSE "unguided_intercept"}
      [] OTHER -> NoWords

Pushes(s, t, type) == t.log.count[type] > s.log.count[type]

Entry(s, t, type) ==
    IF Pushes(s, t, type) THEN <<[type |-> type, words |-> Words(s, t, type)]>> ELSE <<>>

\* The events in the order in which one operation pushes them: the resilience
\* event follows the one it comes with, and no operation pushes a type twice.
Pushed(s, t) ==
    Entry(s, t, "SessionStarted") \o Entry(s, t, "SessionEnded")
    \o Entry(s, t, "ClientJoined") \o Entry(s, t, "ClientLeft")
    \o Entry(s, t, "ClientReconnected") \o Entry(s, t, "TrackUpdated")
    \o Entry(s, t, "InterceptorUpdated") \o Entry(s, t, "EngageOrderAccepted")
    \o Entry(s, t, "EngageOrderRejected") \o Entry(s, t, "AssessmentProduced")
    \o Entry(s, t, "ResilienceTriggered")

LastFour(log) == IF Len(log) > 4 THEN SubSeq(log, Len(log) - 3, Len(log)) ELSE log

\* The last decisive event after the step from s to t; none pushes both types.
DecisiveAfter(s, t) ==
    IF Pushes(s, t, "EngageOrderAccepted") THEN Words(s, t, "EngageOrderAccepted")
    ELSE IF Pushes(s, t, "TrackUpdated") THEN Words(s, t, "TrackUpdated")
    ELSE decisive

LaunchAfter(s, t) ==
    IF ~Pushes(s, t, "EngageOrderAccepted") THEN launch
    ELSE IF s.track.active THEN "tracked" ELSE "untracked"

\* The reset is the one operation that clears the log.
Journal ==
    IF session'.log = EmptyLog
    THEN recent' = <<>> /\ decisive' = NoWords /\ launch' = "none"
    ELSE /\ recent' = LastFour(recent \o Pushed(session, session'))
         /\ decisive' = DecisiveAfter(session, session')
         /\ launch' = LaunchAfter(session, session')

ReportInit == Init /\ decisive = NoWords /\ recent = <<>> /\ launch = "none"

ReportNext == Next /\ Journal

ReportSpec == ReportInit /\ [][ReportNext]_reportVars

--------------------------------------------------------------------------------
(****************************************************************************)
(* The reports                                                              *)
(****************************************************************************)

ProfileLabel(active) == IF active THEN "tracked" ELSE "untracked"

\* Mutant: the rule does not know the word of a dropped track.
EventTrackActiveMissesDrop(words) ==
    /\ words \intersect {"disabled", "unguided_intercept"} = {}
    /\ words \intersect {"acquired", "established", "enabled", "tracked_intercept"} # {}

\* event_track_active, of simulation_summary.cpp and again of runtime.cpp.
EventTrackActive(words) ==
    /\ words \intersect {"dropped", "disabled", "unguided_intercept"} = {}
    /\ words \intersect {"acquired", "established", "enabled", "tracked_intercept"} # {}

\* The rule of write_example_output, in both transports.
SampleTrackActive(words) == words \intersect {"dropped", "unguided_intercept"} = {}

\* The rule of render_tactical_frame.
FrameTrackActive(words) == words \intersect {"disabled", "unguided_intercept"} = {}

SummaryProfile ==
    ProfileLabel(IF decisive = NoWords THEN session.latest.track.active
                                       ELSE EventTrackActive(decisive))

SampleProfile ==
    ProfileLabel(IF decisive = NoWords THEN session.latest.track.active
                                       ELSE SampleTrackActive(decisive))

\* run_socket_live passes no snapshot while there is none; the log says so.
RuntimeLogProfile ==
    LET active == IF decisive # NoWords THEN EventTrackActive(decisive)
                  ELSE session.snapshots > 0 /\ session.latest.track.active
    IN  IF ~active /\ session.snapshots = 0 THEN "unknown" ELSE ProfileLabel(active)

DecisiveType == {"TrackUpdated", "EngageOrderAccepted"}

\* The frame gets the last four events only.
FrameProfile ==
    LET found == SelectSeq(recent, LAMBDA e : e.type \in DecisiveType)
    IN  ProfileLabel(IF found = <<>> THEN session.latest.track.active
                                     ELSE FrameTrackActive(Last(found).words))

\* build_resilience_case, in the order of its tests.
ResilienceCase(reconnect, timeout, gap) ==
    IF reconnect /\ gap /\ timeout
    THEN {"reconnect_and_resync", "udp_snapshot_gap_convergence", "timeout_visibility"}
    ELSE IF reconnect /\ gap THEN {"reconnect_and_resync", "udp_snapshot_gap_convergence"}
    ELSE IF reconnect /\ timeout THEN {"reconnect_and_resync", "timeout_visibility"}
    ELSE IF gap /\ timeout THEN {"udp_snapshot_gap_convergence", "timeout_visibility"}
    ELSE IF reconnect THEN {"reconnect_and_resync"}
    ELSE IF timeout THEN {"timeout_visibility"}
    ELSE IF gap THEN {"udp_snapshot_gap_convergence"}
    ELSE {}

\* build_summary: what every report repeats of the session.
BuildSummary ==
    [phase |-> session.phase,
     snapshots |-> session.snapshots, events |-> session.log.size,
     console |-> session.connection["FireControlConsole"],
     display |-> session.connection["TacticalDisplay"],
     ready |-> session.ready, code |-> session.code,
     lastEvent |-> IF recent = <<>> THEN "none" ELSE Last(recent).type,
     resilience |-> ResilienceCase(session.reconnectExercised, session.timeoutExercised,
                                   session.gapExercised)]

--------------------------------------------------------------------------------
(****************************************************************************)
(* Properties                                                               *)
(****************************************************************************)

\* The session has its type, and the windows on the log hold entries of it.
ReportTypeOK ==
    /\ TypeOK
    /\ decisive \in SUBSET Word /\ launch \in Profile \cup {"none"}
    /\ recent \in Seq(LogEntry) /\ Len(recent) <= 4

\* Whenever the reports are written, they tell the same profile, whichever copy
\* of the rule they were written by; the log knows none exactly while nothing
\* was published.
ReportsAgree ==
    /\ session.snapshots > 0 =>
          SummaryProfile = SampleProfile /\ SummaryProfile = RuntimeLogProfile
    /\ (RuntimeLogProfile = "unknown") = (session.snapshots = 0)

\* From the order on, the reports tell how the interceptor was launched, also
\* when the track is gone with its target, until the reset.
ReportTellsLaunch == launch # "none" => SummaryProfile = launch

\* The summary never contradicts itself: the case it tells is the one its log
\* shows, a verdict comes with its code, and the event it names as the last one
\* of a run that ended is not an order or a verdict.
SummaryConsistent ==
    LET n == session.log.count
    IN  /\ ("reconnect_and_resync" \in BuildSummary.resilience) = (n["ClientReconnected"] > 0)
        /\ ("udp_snapshot_gap_convergence" \in BuildSummary.resilience) = session.gapExercised
        /\ ("timeout_visibility" \in BuildSummary.resilience) = session.timeoutExercised
        /\ (BuildSummary.resilience # {}) = (n["ResilienceTriggered"] > 0)
        /\ Cardinality(BuildSummary.resilience) <= n["ResilienceTriggered"]
        /\ BuildSummary.phase = "Archived" =>
              BuildSummary.lastEvent \notin {"EngageOrderAccepted", "AssessmentProduced"}

\* The reports written at any moment tell the run: they and the log they are
\* made from agree with each other and with the session.
ReportsTellTheRun ==
    /\ ReportTypeOK /\ LogTellsTheRun /\ ResilienceCaseBacked
    /\ ReportsAgree /\ ReportTellsLaunch /\ SummaryConsistent

\* The frame shows the track as it is: until the verdict it says "tracked"
\* exactly while a track is held.
FrameShowsTrack ==
    session.snapshots > 0 /\ ~session.ready =>
        FrameProfile = ProfileLabel(session.latest.track.active)
================================================================================
