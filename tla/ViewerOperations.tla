--------------------------- MODULE ViewerOperations ---------------------------
(****************************************************************************)
(* The state of the tactical display and the functions that change it, each *)
(* an operator from a viewer record to the viewer record the C++ function   *)
(* leaves behind: what a snapshot or an accepted command does to the        *)
(* picture, and what the picture lets the operator do.                      *)
(*                                                                          *)
(* Abstractions.  Geometry, the motion histories and the timeline's texts   *)
(* are left out; telemetry and the age of the picture are in DisplayLink.   *)
(* server and run say where a picture comes from; the display does not      *)
(* know them.                                                               *)
(*                                                                          *)
(* Source: clients/tactical-viewer-gui/src/app_{snapshot,control,labels,    *)
(* setup,layout}.cpp                                                        *)
(****************************************************************************)
EXTENDS SessionOperations, Sequences

\* One world_snapshot.
Picture ==
    [server : Nat, run : Nat, sequence : Nat,
     phase : SessionPhase, target : BOOLEAN, asset : BOOLEAN, tracked : BOOLEAN,
     interceptor : InterceptorStatus, order : EngageOrderStatus,
     ready : BOOLEAN, code : AssessmentCode]

Review == [available : BOOLEAN, loaded : BOOLEAN, visible : BOOLEAN]
NoReview == [available |-> FALSE, loaded |-> FALSE, visible |-> FALSE]

LiveActions == {"Start", "Track", "Ready", "Engage", "Reset", "AAR"}
ControlLabels == LiveActions \cup {"idle", "join", "Acquire Track", "Drop Track", "Review", "Setup"}

\* shown: snapshot; effective: effective_track_active; connected, ok, label: control.
Viewer ==
    [received : BOOLEAN, shown : Picture, effective : BOOLEAN, aar : Review,
     connected : BOOLEAN, ok : BOOLEAN, label : ControlLabels]

\* initialize_preview_state: the planned scenario in standby.
NewViewer ==
    [received |-> FALSE,
     shown |-> [server |-> 0, run |-> 0, sequence |-> 0,
                phase |-> "Standby", target |-> FALSE, asset |-> FALSE, tracked |-> FALSE,
                interceptor |-> "Idle", order |-> "None", ready |-> FALSE, code |-> "Pending"],
     effective |-> FALSE, aar |-> NoReview,
     connected |-> FALSE, ok |-> FALSE, label |-> "idle"]

--------------------------------------------------------------------------------
(****************************************************************************)
(* Snapshots                                                                *)
(****************************************************************************)

AarAvailable(shown) == shown.phase \in {"Assessed", "Archived"} \/ shown.ready

\* The picture replaces the one shown; the profile of the run is taken from it
\* until the order is given and kept from then on.
Shown(v, p) ==
    [v EXCEPT
        !.received = TRUE,
        !.shown = p,
        !.effective = CASE p.phase = "Standby" -> FALSE
                        [] p.phase \in {"Detecting", "Tracking", "InterceptorReady"} -> p.tracked
                        [] OTHER -> @,
        !.aar = IF AarAvailable(p) THEN [@ EXCEPT !.available = TRUE] ELSE NoReview]

\* Mutant: the phase is taken before the sequence is looked at.
ApplySnapshotPhaseFirst(v, p) ==
    IF v.received /\ p.sequence <= v.shown.sequence THEN [v EXCEPT !.shown.phase = p.phase]
    ELSE Shown(v, p)

\* Mutant: every snapshot is taken as it comes.
ApplySnapshotUnordered(v, p) == Shown(v, p)

ApplySnapshot(v, p) ==
    IF v.received /\ p.sequence <= v.shown.sequence THEN v ELSE Shown(v, p)

--------------------------------------------------------------------------------
(****************************************************************************)
(* The control panel                                                        *)
(****************************************************************************)

LayoutModeForState(v) ==
    CASE v.aar.visible \/ v.shown.phase \in {"Assessed", "Archived"} -> "ReviewTactical"
      [] v.shown.phase = "Standby" /\ ~v.aar.visible -> "StandbySetup"
      [] OTHER -> "LiveTactical"

VisibleLiveActions(mode) ==
    CASE mode = "StandbySetup" -> {"Start"}
      [] mode = "LiveTactical" -> {"Track", "Ready", "Engage", "Reset"}
      [] mode = "ReviewTactical" -> {"AAR", "Reset"}

\* Mutant: the weapon may be readied while the target is only detected.
ControlButtonEnabledEarly(action, v) ==
    CASE action = "Start"  -> v.shown.phase = "Standby"
      [] action = "Track"  -> v.shown.phase \in {"Detecting", "Tracking", "InterceptorReady"}
      [] action = "Ready"  -> v.shown.phase \in {"Detecting", "Tracking"}
      [] action = "Engage" -> v.shown.phase = "InterceptorReady" /\ v.shown.interceptor = "Ready"
      [] action = "Reset"  -> v.shown.phase # "Standby" \/ v.received \/ v.label # "idle"
      [] action = "AAR"    -> AarAvailable(v.shown)

ControlButtonEnabled(action, v) ==
    CASE action = "Start"  -> v.shown.phase = "Standby"
      [] action = "Track"  -> v.shown.phase \in {"Detecting", "Tracking", "InterceptorReady"}
      [] action = "Ready"  -> v.shown.phase = "Tracking" /\ v.shown.tracked
      [] action = "Engage" -> v.shown.phase = "InterceptorReady" /\ v.shown.interceptor = "Ready"
      [] action = "Reset"  -> v.shown.phase # "Standby" \/ v.received \/ v.label # "idle"
      [] action = "AAR"    -> AarAvailable(v.shown)

\* Mutant: the review is recommended even after it was read.
RecommendedControlReview(v) ==
    CASE v.shown.phase = "Standby" -> "Start"
      [] v.shown.phase = "Detecting" -> "Track"
      [] v.shown.phase = "Tracking" -> "Ready"
      [] v.shown.phase = "InterceptorReady" -> IF v.shown.tracked THEN "Engage" ELSE "Track"
      [] v.shown.phase \in {"EngageOrdered", "Intercepting"} -> "none"
      [] v.shown.phase \in {"Assessed", "Archived"} -> "AAR"

\* recommended_control_label, as the action of the button it names.
RecommendedControl(v) ==
    CASE v.shown.phase = "Standby" -> "Start"
      [] v.shown.phase = "Detecting" -> "Track"
      [] v.shown.phase = "Tracking" -> "Ready"
      [] v.shown.phase = "InterceptorReady" -> IF v.shown.tracked THEN "Engage" ELSE "Track"
      [] v.shown.phase \in {"EngageOrdered", "Intercepting"} -> "none"
      [] v.shown.phase \in {"Assessed", "Archived"} ->
            IF AarAvailable(v.shown) /\ ~v.aar.loaded THEN "AAR" ELSE "Reset"

\* The label of a press, and with it the command sent: Track toggles on the picture.
EffectiveLabel(action, v) ==
    IF action # "Track" THEN action
    ELSE IF v.shown.tracked THEN "Drop Track" ELSE "Acquire Track"

\* Mutant: the phase of the picture waits for the next snapshot.
AnticipatedPhaseKept(phase, label) ==
    CASE label = "Start" -> "Detecting"
      [] label = "Reset" -> "Standby"
      [] OTHER -> phase

\* The phase an accepted command is shown to lead to, ahead of its snapshot.
AnticipatedPhase(phase, label) ==
    CASE label = "Start" -> "Detecting"
      [] label = "Acquire Track" /\ phase = "Detecting" -> "Tracking"
      [] label = "Drop Track" /\ phase = "Tracking" -> "Detecting"
      [] label = "Ready" -> "InterceptorReady"
      [] label = "Engage" -> "EngageOrdered"
      [] label = "Reset" -> "Standby"
      [] OTHER -> phase

\* What else an accepted command changes in the picture.
Anticipated(shown, label) ==
    LET next == [shown EXCEPT !.phase = AnticipatedPhase(@, label)]
    IN  CASE label = "Start" ->
                [next EXCEPT !.target = TRUE, !.order = "None",
                             !.interceptor = "Idle", !.tracked = FALSE]
          [] label = "Ready" -> [next EXCEPT !.asset = TRUE, !.interceptor = "Ready"]
          [] label = "Acquire Track" -> [next EXCEPT !.tracked = TRUE]
          [] label = "Drop Track" -> [next EXCEPT !.tracked = FALSE]
          [] label = "Engage" -> [next EXCEPT !.order = "Accepted", !.interceptor = "Ready"]
          [] label = "Reset" ->
                [next EXCEPT !.target = FALSE, !.asset = FALSE, !.tracked = FALSE,
                             !.order = "None", !.interceptor = "Idle",
                             !.ready = FALSE, !.code = "Pending"]

\* A reset hides the review even if refused, any accepted command does, and an
\* accepted reset forgets it.
ReviewAfter(aar, label, accepted) ==
    CASE accepted /\ label = "Reset" -> NoReview
      [] accepted \/ label = "Reset" -> [aar EXCEPT !.visible = FALSE]
      [] OTHER -> aar

\* send_and_expect_ack, with the rest of perform_control_action for Start and Reset.
Acknowledged(v, label, accepted) ==
    [v EXCEPT
        !.connected = TRUE, !.ok = accepted, !.label = label,
        !.shown = IF accepted THEN Anticipated(@, label) ELSE @,
        !.effective = CASE accepted /\ label = "Acquire Track" -> TRUE
                        [] accepted /\ label \in {"Start", "Drop Track", "Reset"} -> FALSE
                        [] OTHER -> @,
        !.aar = ReviewAfter(@, label, accepted)]

\* The AAR action, refused without asking the server or answered by it.
ReviewRefused(v) == [v EXCEPT !.connected = TRUE, !.ok = FALSE, !.label = "Review"]
ReviewLoaded(v) ==
    [v EXCEPT !.connected = TRUE, !.ok = TRUE, !.label = "Review",
              !.aar = [available |-> TRUE, loaded |-> TRUE, visible |-> TRUE]]

\* apply_parameter_action: the setup touches the plan; in standby the preview
\* drops its track with it.
SetupChanged(v) ==
    [v EXCEPT !.ok = TRUE, !.label = "Setup", !.aar.visible = FALSE,
              !.shown.tracked = IF ~v.received \/ v.shown.phase = "Standby" THEN FALSE ELSE @]

\* Mutant: the review is held back even once the verdict is there.
RequiresAssessmentForever(action, v) == action = "AAR" /\ v.shown.order # "None"

\* The auto-control script waits for the verdict of an order before its review.
RequiresAssessment(action, v) ==
    action = "AAR" /\ v.shown.order # "None" /\ ~v.shown.ready
================================================================================
