---------------------------- MODULE TacticalDisplay ----------------------------
(****************************************************************************)
(* The tactical display against the authoritative session: pictures reach   *)
(* it over UDP, late, twice, out of order or not at all, while commands go  *)
(* over TCP and are shown before their snapshot arrives.                    *)
(*                                                                          *)
(* perform_control_action blocks until the answer is there and reads no     *)
(* datagram meanwhile, and a tick of the server changes nothing the display *)
(* holds, so command, handling and answer are one step, with the join ahead *)
(* of the first command, which takes no snapshot.  An answer that takes more*)
(* than a second while the link is up, which also ends the display, is left *)
(* out.  A second console may hold the command link; the server may be      *)
(* restarted.  Registration, telemetry and heartbeats are in DisplayLink: an*)
(* unregistered display is one whose datagrams are lost.                    *)
(****************************************************************************)
EXTENDS ViewerOperations

CONSTANTS
    Script,      \* --auto-controls
    Conditions   \* the conditions of the runs looked at

\* Who gives commands, whether a datagram may be overtaken by a newer picture, and
\* the bounds: snapshots after which only an engagement still runs, presses and
\* commands of the other console, and restarts of the server.
Condition == [operators : SUBSET {"Panel", "Script", "Console"}, late : BOOLEAN,
              pictures : Nat, commands : Nat, restarts : Nat]

ASSUME DisplayBounded == Conditions \subseteq Condition /\ Script \in Seq(LiveActions)

VARIABLES
    conditions, \* those of this run
    session,    \* session_ of the running server
    server,     \* how often it was started, less one
    run,        \* resets of all servers
    published,  \* every picture sent, in order
    holder,     \* who holds the command connection
    viewer,     \* the display's ViewerState
    running,    \* whether the display's process runs
    ahead,      \* whether a command was shown since the last snapshot applied
    step,       \* control.auto_step
    commands    \* commands so far

serverVars == <<session, server, run, published>>
vars == <<serverVars, holder, viewer, running, ahead, step, commands>>

Init ==
    /\ conditions \in Conditions
    /\ \E t \in EngagementTimeouts : session = NewSession(t)
    /\ server = 0 /\ run = 0 /\ published = <<>>
    /\ holder = "Nobody" /\ viewer = NewViewer /\ running = TRUE
    /\ ahead = FALSE /\ step = 0 /\ commands = 0

--------------------------------------------------------------------------------
(****************************************************************************)
(* The server                                                               *)
(****************************************************************************)

\* The picture the server has recorded last, with its session s.
PictureOf(s, r) ==
    [server |-> server, run |-> r, sequence |-> s.latest.sequence,
     phase |-> s.latest.phase, target |-> s.targetActive, asset |-> s.assetActive,
     tracked |-> s.latest.track.active, interceptor |-> s.latest.interceptor,
     order |-> s.latest.order, ready |-> s.latest.ready, code |-> s.latest.code]

\* The session becomes s, in run r; a new snapshot is sent.
Becomes(s, r) ==
    /\ session' = s
    /\ run' = r
    /\ published' = IF s.sequence = session.sequence THEN published
                    ELSE Append(published, PictureOf(s, r))
    /\ UNCHANGED server

\* Bound: past the pictures the clock only goes on until an order has its verdict.
Tick ==
    /\ Len(published) < conditions.pictures \/ session.order \in {"Accepted", "Executing"}
    /\ \E hit \in BOOLEAN : Becomes(AdvanceTick(session, hit, TRUE), run)
    /\ UNCHANGED <<holder, viewer, running, ahead, step, commands>>

\* The process is started anew: a new session that numbers from one.
Restart ==
    /\ server < conditions.restarts
    /\ server' = server + 1 /\ run' = run + 1
    /\ session' = NewSession(session.timeoutTicks)
    /\ holder' = "Nobody"
    /\ UNCHANGED <<published, viewer, running, ahead, step, commands>>

\* The session after the command a label stands for.
Outcome(label, s) ==
    CASE label = "Start" -> StartScenario(ConfigureScenario(s, s.timeoutTicks))
      [] label = "Acquire Track" -> RequestTrack(s)
      [] label = "Drop Track" -> ReleaseTrack(s)
      [] label = "Ready" -> ActivateAsset(s)
      [] label = "Engage" -> IssueCommand(s)
      [] label = "Reset" -> ResetSession(s)

\* A start outside standby is refused by the transport.
Handled(label, s) ==
    IF label = "Start" /\ s.phase # "Standby" THEN RecordTransportRejection(s)
    ELSE Outcome(label, s)

Accepts(label, s) ==
    label = "Reset" \/ Handled(label, s).log.count["EngageOrderRejected"]
                          = s.log.count["EngageOrderRejected"]

Commanded(label, s) ==
    Becomes(Handled(label, s), IF label = "Reset" THEN run + 1 ELSE run)

--------------------------------------------------------------------------------
(****************************************************************************)
(* The other console                                                        *)
(****************************************************************************)

ConsoleJoins ==
    /\ "Console" \in conditions.operators /\ holder = "Nobody" /\ holder' = "Console"
    /\ commands < conditions.commands /\ commands' = commands + 1
    /\ Becomes(ConnectClient(session, "FireControlConsole"), run)
    /\ UNCHANGED <<viewer, running, ahead, step>>

ConsoleCommands ==
    /\ holder = "Console"
    /\ commands < conditions.commands /\ commands' = commands + 1
    /\ \E label \in {"Start", "Acquire Track", "Drop Track", "Ready", "Engage", "Reset"} :
          Commanded(label, session)
    /\ UNCHANGED <<holder, viewer, running, ahead, step>>

ConsoleLeaves ==
    /\ holder = "Console" /\ holder' = "Nobody"
    /\ Becomes(DisconnectClient(session, "FireControlConsole"), run)
    /\ UNCHANGED <<viewer, running, ahead, step, commands>>

--------------------------------------------------------------------------------
(****************************************************************************)
(* The display                                                              *)
(****************************************************************************)

\* What may still be on its way: anything ever sent, or the newest picture only.
InFlight ==
    IF conditions.late THEN DOMAIN published ELSE DOMAIN published \cap {Len(published)}

Receive(i) ==
    /\ running /\ i \in InFlight
    /\ viewer' = ApplySnapshot(viewer, published[i])
    /\ ahead' = (ahead /\ viewer' = viewer)
    /\ UNCHANGED <<serverVars, holder, running, step, commands>>

\* ensure_control_connected joins once; a link the server has dropped, or one it
\* refuses because a console holds it, ends the display with an exception.
LinkFails == holder = "Console" \/ (viewer.connected /\ holder # "Viewer")

Joined == IF holder = "Viewer" THEN session ELSE ConnectClient(session, "FireControlConsole")

Perform(action) ==
    /\ holder' = "Viewer"
    /\ \/ /\ action = "AAR" /\ ~AarAvailable(viewer.shown)
          /\ viewer' = ReviewRefused(viewer)
          /\ Becomes(Joined, run) /\ UNCHANGED ahead
       \/ /\ action = "AAR" /\ AarAvailable(viewer.shown)
          /\ viewer' = ReviewLoaded(viewer)
          /\ Becomes(Joined, run) /\ UNCHANGED ahead
       \/ /\ action # "AAR"
          /\ LET label == EffectiveLabel(action, viewer)
                 accepted == Accepts(label, Joined)
             IN  /\ Commanded(label, Joined)
                 /\ viewer' = Acknowledged(viewer, label, accepted)
                 /\ ahead' = (ahead \/ accepted)

\* A click on a visible button, whether or not it is drawn as enabled.
Press ==
    /\ running /\ "Panel" \in conditions.operators /\ ~LinkFails
    /\ commands < conditions.commands /\ commands' = commands + 1
    /\ \E action \in VisibleLiveActions(LayoutModeForState(viewer)) : Perform(action)
    /\ UNCHANGED <<running, step>>

PressSetup ==
    /\ running /\ "Panel" \in conditions.operators /\ LayoutModeForState(viewer) = "StandbySetup"
    /\ commands < conditions.commands /\ commands' = commands + 1
    /\ viewer' = SetupChanged(viewer)
    /\ UNCHANGED <<serverVars, holder, running, ahead, step>>

\* Mutant: the script does not wait for the verdict.
ScriptStepHasty ==
    /\ running /\ "Script" \in conditions.operators /\ ~LinkFails /\ step < Len(Script)
    /\ Perform(Script[step + 1])
    /\ step' = step + 1
    /\ UNCHANGED <<running, commands>>

\* The next control of the script, 140 ms after the one before.
ScriptStep ==
    /\ running /\ "Script" \in conditions.operators /\ ~LinkFails /\ step < Len(Script)
    /\ ~RequiresAssessment(Script[step + 1], viewer)
    /\ Perform(Script[step + 1])
    /\ step' = step + 1
    /\ UNCHANGED <<running, commands>>

\* No connection, no answer from a server that does not hold it, or the end of the
\* connection: the exception leaves main.
ControlFails ==
    /\ running /\ LinkFails /\ "Panel" \in conditions.operators
    /\ running' = FALSE
    /\ UNCHANGED <<serverVars, holder, viewer, ahead, step, commands>>

Step ==
    \/ Tick \/ Restart
    \/ ConsoleJoins \/ ConsoleCommands \/ ConsoleLeaves
    \/ \E i \in DOMAIN published : Receive(i)
    \/ Press \/ PressSetup \/ ScriptStep \/ ControlFails

Next == Step /\ UNCHANGED conditions

Spec == Init /\ [][Next]_<<conditions, vars>>

\* The server keeps ticking, the script keeps going, and of the pictures that
\* keep coming one gets through; the operators owe nothing.
ReceiveNewest == published # <<>> /\ Receive(Len(published)) /\ viewer' # viewer

FairSpec == Spec /\ WF_vars(Tick) /\ WF_vars(ScriptStep) /\ WF_vars(ReceiveNewest)
--------------------------------------------------------------------------------
(****************************************************************************)
(* Safety                                                                   *)
(****************************************************************************)

\* Every field keeps its type.
TypeOK ==
    /\ session \in Session /\ published \in Seq(Picture) /\ viewer \in Viewer
    /\ {server, run, step, commands} \subseteq Nat
    /\ holder \in {"Nobody", "Viewer", "Console"}
    /\ {running, ahead} \subseteq BOOLEAN

\* The picture agrees with the authority in what a command is judged by.
Agrees(shown, s) ==
    /\ shown.phase = s.phase /\ shown.tracked = s.track.active
    /\ shown.target = s.targetActive /\ shown.asset = s.assetActive
    /\ shown.interceptor = s.interceptor /\ shown.ready = s.ready

\* Unless a command was shown ahead of its snapshot, what the display shows is
\* one picture some server has published, whole: it never mixes two pictures,
\* whatever was lost, repeated or overtaken, and whichever server it came from.
PictureGenuine ==
    viewer.received /\ ~ahead => \E i \in DOMAIN published : viewer.shown = published[i]

\* The buttons of a picture that agrees with the authority tell the truth: an
\* enabled one is accepted and a disabled one would be refused
\* (control_button_enabled against the session's own conditions).
ButtonsTellTruth ==
    running /\ holder # "Console" /\ ~LinkFails /\ Agrees(viewer.shown, session) =>
        \A action \in VisibleLiveActions(LayoutModeForState(viewer)) \ {"AAR"} :
            ControlButtonEnabled(action, viewer)
                = Accepts(EffectiveLabel(action, viewer), Joined)

\* A review is on display only of a run that is over in the picture.
ReviewOfFinishedRun == viewer.aar.visible => AarAvailable(viewer.shown)

\* What the display shows is genuine: one published picture, and a review only of
\* a run that is over in it.
ShownGenuine == TypeOK /\ PictureGenuine /\ ReviewOfFinishedRun

--------------------------------------------------------------------------------
(****************************************************************************)
(* Action properties and liveness                                           *)
(****************************************************************************)

\* A newer run is never replaced by an older one of the same server, however
\* late its pictures arrive: the numbering survives a reset, and apply_snapshot
\* relies on it.
RunNeverGoesBack ==
    [][viewer'.shown.server = viewer.shown.server => viewer'.shown.run >= viewer.shown.run]_vars

\* A command shown ahead of its snapshot is shown right: if the picture agreed
\* with the authority, it still does once the authority has accepted.
AnticipationRight ==
    [][(Press \/ ScriptStep) /\ viewer'.ok /\ Agrees(viewer.shown, session)
          => Agrees(viewer'.shown, session')]_vars

\* An operator who does what the display recommends gets on: of a picture that
\* agrees with the authority, the recommended control is there to press, is
\* accepted, and leads to another recommendation.
RecommendationLeadsOn ==
    [][Press /\ Agrees(viewer.shown, session) /\ RecommendedControl(viewer) # "none" =>
          /\ RecommendedControl(viewer) \in VisibleLiveActions(LayoutModeForState(viewer))
          /\ Perform(RecommendedControl(viewer)) =>
                viewer'.ok /\ RecommendedControl(viewer') # RecommendedControl(viewer)]_vars

\* The script resets no run whose order was accepted and still has no verdict.
ScriptAwaitsVerdict ==
    [][ScriptStep /\ Script[step + 1] = "Reset"
          => session.order \notin {"Accepted", "Executing"}]_vars

\* The display ends up with the authority's picture, whatever it has shown ahead
\* or late, once the authority comes to rest; only a restarted server that has
\* not yet counted past the old one's pictures is never believed.
Converges ==
    <>[](\/ ~running \/ session.sequence = 0
         \/ Agrees(viewer.shown, session)
         \/ viewer.shown.server < server /\ session.sequence <= viewer.shown.sequence)

\* The script comes to its end: the gate before its review opens, because every
\* order gets a verdict and the picture of it gets through.
ScriptCompletes == "Script" \in conditions.operators => <>(step = Len(Script))
================================================================================
