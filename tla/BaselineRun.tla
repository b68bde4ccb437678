------------------------------- MODULE BaselineRun -------------------------------
(****************************************************************************)
(* The programs that run an engagement from start to end without a network: *)
(* the baseline runtime in its two sample modes, the text viewer and the    *)
(* preview of the command console.  Each makes a fixed sequence of calls on *)
(* an in_process transport; the baseline throws when one is refused.  Next  *)
(* to it the same sequence drives a bare session, as run_baseline_demo does *)
(* for the tests, under the same geometry.                                  *)
(*                                                                          *)
(* Source: common/src/runtime.cpp, server/src/main.cpp,                     *)
(* clients/tactical-viewer/src/main.cpp, clients/command-console/src/main.cpp *)
(****************************************************************************)
EXTENDS InProcessTransport

Sample == {"tracked_intercept", "unguided_intercept"}
Program == Sample \cup {"text_viewer", "console_preview"}

Call == {"connect_console", "connect_display", "start", "acquire", "tick", "ready", "drop",
         "leave", "rejoin", "engage", "loop", "archive", "report", "done", "threw"}

CONSTANTS ConsoleSender, DisplaySender   \* 101U and 201U

ASSUME ProgramsIdentified == {ConsoleSender, DisplaySender} \subseteq Senders

VARIABLES
    program,
    pc,         \* the next call
    ticked,     \* i of the for loop
    demo,       \* the session of run_baseline_demo
    exitCode    \* what main returns, once it did

runVars == <<session, commandSender, viewerSender, served, program, pc, ticked, demo, exitCode>>

NoExit == -1

RunInit ==
    /\ Init
    /\ program \in Program /\ pc = "connect_console"
    /\ ticked = 0 /\ demo = session /\ exitCode = NoExit

--------------------------------------------------------------------------------
\* The order of the calls, by program.
After(call) ==
    CASE call = "connect_console" ->
            IF program = "console_preview" THEN "start" ELSE "connect_display"
      [] call = "connect_display" -> "start"
      [] call = "start" -> "acquire"
      [] call = "acquire" -> IF program = "console_preview" THEN "ready" ELSE "tick"
      [] call = "tick" -> "ready"
      [] call = "ready" ->
            IF program = "unguided_intercept" THEN "drop"
            ELSE IF program = "tracked_intercept" THEN "leave" ELSE "engage"
      [] call = "drop" -> "leave"
      [] call = "leave" -> "rejoin"
      [] call = "rejoin" -> "engage"
      [] call = "engage" -> IF program = "console_preview" THEN "report" ELSE "loop"

\* The result of a command, as its reason in the log has it.
Refused(s, t) == t.log.count["EngageOrderRejected"] > s.log.count["EngageOrderRejected"]

\* One call of the sequence.  Only the baseline looks at the results; main
\* catches what it throws.
Done(call, demoAfter) ==
    /\ pc = call
    /\ IF program \in Sample /\ Refused(session, session')
       THEN pc' = "threw" /\ exitCode' = 1
       ELSE pc' = After(call) /\ exitCode' = exitCode
    /\ demo' = IF program \in Sample THEN demoAfter ELSE demo
    /\ UNCHANGED <<program, ticked>>

Ask(kind) ==
    Dispatch([kind |-> kind, sender |-> ConsoleSender, sessionOk |-> TRUE, entitiesOk |-> TRUE])

ConnectConsole ==
    /\ Connect("FireControlConsole", ConsoleSender)
    /\ Done("connect_console", ConnectClient(demo, "FireControlConsole"))

ConnectDisplay ==
    \E call \in {"connect_display", "rejoin"} :
        /\ Connect("TacticalDisplay", DisplaySender)
        /\ Done(call, ConnectClient(demo, "TacticalDisplay"))

DisplayLeaves ==
    Disconnect("TacticalDisplay") /\ Done("leave", DisconnectClient(demo, "TacticalDisplay"))

StartRun  == Start /\ Done("start", StartScenario(demo))
Acquire   == Ask("track_acquire") /\ Done("acquire", RequestTrack(demo))
MakeReady == Ask("interceptor_ready") /\ Done("ready", ActivateAsset(demo))
DropTrack == Ask("track_drop") /\ Done("drop", ReleaseTrack(demo))
Engage    == Ask("engage_order") /\ Done("engage", IssueCommand(demo))

FirstTick ==
    \E hit, inFov \in BOOLEAN :
        Advance(hit, inFov) /\ Done("tick", AdvanceTick(demo, hit, inFov))

\* Mutant: one tick fewer.
MoreTicksButOne == ticked + 1 < session.timeoutTicks /\ ~session.latest.ready

\* The condition of the for loop: the verdict is read off the last snapshot.
MoreTicks == ticked < session.timeoutTicks /\ ~session.latest.ready

TickUntilReady ==
    /\ pc = "loop" /\ MoreTicks
    /\ \E hit, inFov \in BOOLEAN :
          /\ Advance(hit, inFov)
          /\ demo' = IF program \in Sample THEN AdvanceTick(demo, hit, inFov) ELSE demo
    /\ ticked' = ticked + 1
    /\ UNCHANGED <<program, pc, exitCode>>

Quiet == UNCHANGED <<session, commandSender, viewerSender, served>>

LoopEnds ==
    /\ pc = "loop" /\ ~MoreTicks /\ pc' = "archive"
    /\ Quiet /\ UNCHANGED <<program, ticked, demo, exitCode>>

EndRun ==
    /\ pc = "archive" /\ Archive /\ pc' = "report"
    /\ demo' = IF program \in Sample THEN ArchiveSession(demo) ELSE demo
    /\ UNCHANGED <<program, ticked, exitCode>>

\* The artifacts are written from the session as it is; only the server's exit
\* code depends on it.
Report ==
    /\ pc = "report" /\ pc' = "done"
    /\ exitCode' = IF program \in Sample /\ ~session.ready THEN 1 ELSE 0
    /\ Quiet /\ UNCHANGED <<program, ticked, demo>>

RunNext ==
    \/ ConnectConsole \/ ConnectDisplay \/ DisplayLeaves
    \/ StartRun \/ Acquire \/ FirstTick \/ MakeReady \/ DropTrack \/ Engage
    \/ TickUntilReady \/ LoopEnds \/ EndRun \/ Report

RunSpec == RunInit /\ [][RunNext]_runVars
--------------------------------------------------------------------------------
(****************************************************************************)
(* Properties                                                               *)
(****************************************************************************)

RunTypeOK ==
    /\ TypeOK
    /\ program \in Program /\ pc \in Call /\ ticked \in Nat
    /\ demo \in Session /\ exitCode \in {NoExit, 0, 1}

\* The fixed sequences meet every precondition of the calls they make, the drop
\* of the track between ready and order included: no sample ends in an exception.
NeverThrows == pc # "threw"

Engagement == Program \ {"console_preview"}

\* Every run ends with a verdict: the loop ticks exactly as often as the session
\* takes to observe its timeout, whatever the timeout is and whether or not the
\* interceptor hits, so no run is archived undecided (and the server's exit code
\* never tells a failure).
EndsAssessed ==
    program \in Engagement /\ pc \in {"archive", "report", "done"} =>
        session.ready /\ exitCode \in {NoExit, 0}

\* The transport and the bare session come to the same end: the tests that use
\* run_baseline_demo test what the server's baseline does.
RoutesAgree == program \in Sample => session = demo

\* The evidence of a sample is what its name says: the profile in the reports,
\* and the reconnect and the snapshot gap in its resilience case.
EvidenceAsNamed ==
    program \in Sample /\ pc = "done" =>
        /\ ArtifactTrackActive(session) = (program = "tracked_intercept")
        /\ session.reconnectExercised /\ session.gapExercised
        /\ session.phase = "Archived" /\ session.log.count["EngageOrderRejected"] = 0

\* A fixed run does what it was written for: no call of it is refused, transport
\* and session agree all along on who is there, and it ends with its verdict and
\* its evidence.
RunsSucceed ==
    RunTypeOK /\ SendersMatchConnections /\ NeverThrows /\ EndsAssessed /\ EvidenceAsNamed
================================================================================
