----------------------------- MODULE ScenarioSetup -----------------------------
(****************************************************************************)
(* How a scenario gets from the configuration into a run: the display       *)
(* preloads it, the operator edits the plan with the setup buttons, "Start" *)
(* sends a randomized copy, and the server validates what it is sent before *)
(* it starts the run.                                                       *)
(*                                                                          *)
(* Abstractions.  Radius, field of view, name and counts are carried along  *)
(* unchanged and left out, as is the origin of the interceptor, which the   *)
(* validation, the configuration and the setup all hold at zero.            *)
(*                                                                          *)
(* Source: clients/tactical-viewer-gui/src/app_{setup,control}.cpp,         *)
(* common/src/{config,transport_socket_live,simulation_commands}.cpp        *)
(****************************************************************************)
EXTENDS Integers

CONSTANTS
    WorldWidth, WorldHeight,  \* world_width, world_height
    Configs,                  \* the scenarios a configuration file may hold
    Draws,                    \* what the generator of the position jitter may return
    MaxEdits, MaxRuns         \* bounds on the operator's steps

VARIABLES
    planned,   \* planned_scenario
    scenario,  \* the server's scenario_
    standby,   \* phase_ = Standby
    answer,    \* the answer to the last start request
    edits, runs

setupVars == <<planned, scenario, standby, answer, edits, runs>>

Scenario == [x : Int, y : Int, vx : Int, vy : Int, speed : Int, timeout : Int, angle : Int]

\* validate_runtime_config, as far as the scenario goes.
Valid(s) ==
    /\ 0 <= s.x /\ s.x < WorldWidth
    /\ 0 <= s.y /\ s.y < WorldHeight
    /\ s.speed > 0 /\ s.timeout > 0
    /\ 0 <= s.angle /\ s.angle <= 90

ASSUME WorldIsLarge == WorldWidth \in Nat \ {0} /\ WorldHeight \in Nat \ {0}
ASSUME ConfigsValid == Configs \subseteq Scenario /\ \A s \in Configs : Valid(s)
ASSUME DrawsInSpread == Draws \subseteq -24..24
ASSUME EditsBounded == MaxEdits \in Nat /\ MaxRuns \in Nat

--------------------------------------------------------------------------------

\* clamp_int, with std::max applied last.
Clamp(value, lo, hi) ==
    LET capped == IF value < hi THEN value ELSE hi
    IN  IF lo > capped THEN lo ELSE capped

Position(value, size) == Clamp(value, 0, size - 1)
Velocity(value) == Clamp(value, -12, 12)

\* apply_parameter_action: the plans one press of a setup button may leave.
Edited(s) ==
    UNION {{[s EXCEPT !.x = Position(@ + d, WorldWidth)] : d \in {-16, 16}},
           {[s EXCEPT !.y = Position(@ + d, WorldHeight)] : d \in {-16, 16}},
           {[s EXCEPT !.vx = Velocity(@ + d)] : d \in {-1, 1}},
           {[s EXCEPT !.vy = Velocity(@ + d)] : d \in {-1, 1}},
           {[s EXCEPT !.angle = Clamp(@ + d, 0, 90)] : d \in {-1, 1}},
           {[s EXCEPT !.speed = Clamp(@ + d, 4, 96)] : d \in {-8, 8}},
           {[s EXCEPT !.timeout = Clamp(@ + d, 10, 180)] : d \in {-10, 10}}}

Edit ==
    /\ edits < MaxEdits /\ edits' = edits + 1
    /\ planned' \in Edited(planned)
    /\ UNCHANGED <<scenario, standby, answer, runs>>

--------------------------------------------------------------------------------

Sign(v) == IF v >= 0 THEN 1 ELSE -1

\* A target at rest is given a speed.
SetMoving(s, base) ==
    IF s.vx = 0 /\ s.vy = 0 THEN [s EXCEPT !.vx = Sign(base.vx)] ELSE s

\* A start like the plan is moved to the right.
SetApart(s, base) ==
    IF <<s.x, s.y, s.vx, s.vy>> = <<base.x, base.y, base.vx, base.vy>>
    THEN [s EXCEPT !.x = Position(base.x + 16, WorldWidth)]
    ELSE s

\* Mutant: the jitter of the position is not clamped.
JitteredUnclamped(base, dx, dy, dvx, dvy) ==
    [base EXCEPT !.x = @ + dx, !.y = @ + dy, !.vx = Velocity(@ + dvx), !.vy = Velocity(@ + dvy)]

Jittered(base, dx, dy, dvx, dvy) ==
    [base EXCEPT !.x = Position(@ + dx, WorldWidth), !.y = Position(@ + dy, WorldHeight),
                 !.vx = Velocity(@ + dvx), !.vy = Velocity(@ + dvy)]

RandomizeStartScenario(base, dx, dy, dvx, dvy) ==
    SetApart(SetMoving(Jittered(base, dx, dy, dvx, dvy), base), base)

\* The server's scenario_start: phase, validation, configure_scenario and
\* start_scenario.
ScenarioStart(payload) ==
    IF ~standby
    THEN answer' = "not in standby" /\ UNCHANGED <<scenario, standby>>
    ELSE IF ~Valid(payload)
    THEN answer' = "invalid" /\ UNCHANGED <<scenario, standby>>
    ELSE answer' = "accepted" /\ scenario' = payload /\ standby' = FALSE

SetupStart ==
    /\ runs < MaxRuns /\ runs' = runs + 1
    /\ \E dx, dy \in Draws, dvx, dvy \in -1..1 :
           ScenarioStart(RandomizeStartScenario(planned, dx, dy, dvx, dvy))
    /\ UNCHANGED <<planned, edits>>

\* reset_session: the run ends, the scenario is the one of the last start.
SetupReset ==
    /\ ~standby /\ standby' = TRUE
    /\ UNCHANGED <<planned, scenario, answer, edits, runs>>

\* Display and server load a configuration each; the display falls back to the
\* built-in one if it cannot.
SetupInit ==
    /\ planned \in Configs /\ scenario \in Configs
    /\ standby = TRUE /\ answer = "none" /\ edits = 0 /\ runs = 0

SetupNext == Edit \/ SetupStart \/ SetupReset

SetupSpec == SetupInit /\ [][SetupNext]_setupVars
--------------------------------------------------------------------------------

\* Every variable has its type; plan and scenario are ones the server accepts.
SetupTypeOK ==
    /\ planned \in Scenario /\ Valid(planned)
    /\ scenario \in Scenario /\ Valid(scenario)
    /\ standby \in BOOLEAN /\ answer \in {"none", "not in standby", "invalid", "accepted"}
    /\ edits \in 0..MaxEdits /\ runs \in 0..MaxRuns

\* The validation of the server never refuses what the setup and the generator
\* of the display make of a configured scenario.
StartNeverInvalid == answer # "invalid"

\* A run never starts with a target at rest.
TargetMoves == ~standby => scenario.vx # 0 \/ scenario.vy # 0

CloseTo(a, b, spread) == a - b <= spread /\ b - a <= spread

\* README.md:153: the actual start is "within a small bounded envelope around the
\* planned setup values".
Near(s, plan) ==
    /\ CloseTo(s.x, plan.x, 24) /\ CloseTo(s.y, plan.y, 24)
    /\ CloseTo(s.vx, plan.vx, 1) /\ CloseTo(s.vy, plan.vy, 1)
    /\ s.speed = plan.speed /\ s.timeout = plan.timeout /\ s.angle = plan.angle

\* Whatever is started lies near the plan it was started from.
StartNearPlan == [][standby /\ ~standby' => Near(scenario', planned)]_setupVars

\* A start is never the plan itself, except with the target planned on the right
\* edge of the world, whence it cannot be moved to the right.
StartVaries ==
    [][standby /\ ~standby' => scenario' # planned \/ planned.x = WorldWidth - 1]_setupVars

\* The display's jitter and the server's validation go together: no start is
\* refused as invalid, and each that is made has a moving target, near its plan
\* but, away from the right edge, not on it.
StartsAsPlanned ==
    [][/\ StartNeverInvalid'
       /\ standby /\ ~standby' =>
             /\ TargetMoves' /\ Near(scenario', planned)
             /\ scenario' # planned \/ planned.x = WorldWidth - 1]_setupVars
================================================================================
