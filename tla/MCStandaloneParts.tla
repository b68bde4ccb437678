--------------------------- MODULE MCStandaloneParts ---------------------------
(****************************************************************************)
(* The parts that are checked by themselves, side by side in one run: a     *)
(* behaviour is one of one part, chosen at the start, while the others stay *)
(* in an initial state.  They have no variable in common, so that each part *)
(* reaches exactly the states it reaches alone.                             *)
(*                                                                          *)
(* The session behind the in_process transport is driven either by the      *)
(* programs of BaselineRun or by a caller that makes any call at any time.  *)
(****************************************************************************)
EXTENDS LinkDelay, DisplayFeed, DisplayLayout, ScenarioSetup, FrameStream, TargetMotion,
        BaselineRun

CONSTANTS CallerTicks, CallerChurn   \* bounds of the free caller

VARIABLE part   \* the part whose steps are taken

Part == {"delay", "feed", "layout", "setup", "wire", "motion", "programs", "caller"}

partsVars == <<part, delayVars, feedVars, layoutVars, setupVars, streamVars, motionVars, runVars>>

--------------------------------------------------------------------------------
(****************************************************************************)
(* Values of the constants                                                  *)
(****************************************************************************)

\* Around every width and height at which a panel appears or a button no longer
\* fits, and the default, 1360 by 860.
WindowWidths == {-1, 0, 1, 48, 49, 364, 365, 366, 367, 405, 406, 407, 408, 800, 1360}

WindowHeights == {0, 100, 223, 224, 225, 437, 438, 439, 440, 477, 478, 479, 580,
                  597, 598, 599, 625, 626, 627, 860}

\* The target at the edges and in the middle of a small world, at rest and as
\* fast as the setup allows.
Planned(x, y, vx, vy) ==
    [x |-> x, y |-> y, vx |-> vx, vy |-> vy, speed |-> 32, timeout |-> 20, angle |-> 90]

SlowConfigs == {Planned(0, 0, 0, 0), Planned(39, 19, 12, -12), Planned(20, 10, -1, 1)}

Extremes == {-24, 0, 24}

\* Texts and kinds of up to three of the bytes the codecs treat specially, of hex
\* digits and of the key words: '%' ';' '=' '"' '\' newline, "n", "2", "5", "p", "v",
Texts ==
    LET Special == {37, 59, 61, 34, 92, 10, 110, 50, 53, 112, 118}
    IN  BoundedSeq(Special, 2) \cup {<<37, a, b>> : a, b \in {37, 50, 53, 10}}

\* and '"' '\' ',' ';' with the key words.
Kinds == BoundedSeq({34, 92, 44, 112, 59}, 2) \cup {<<34, 112, a>> : a \in {34, 92, 58}}

OneOfEach ==
    {[kind |-> KindKey, text |-> t] : t \in Texts} \cup {[kind |-> k, text |-> <<>>] : k \in Kinds}

FewMessages ==
    {[kind |-> <<107>>, text |-> <<>>],
     [kind |-> <<107>>, text |-> <<37, 10>>],
     [kind |-> <<115, 116>>, text |-> <<34>>]}

AnyMessages == OneOfEach \cup FewMessages

--------------------------------------------------------------------------------
(****************************************************************************)
(* The parts side by side                                                   *)
(****************************************************************************)

\* An idle part starts in the one of its initial states named here.
PartsInit ==
    /\ part \in Part
    /\ DelayInit
    /\ FeedInit
    /\ LayoutInit /\ (part # "layout" => width = 1360 /\ height = 860)
    /\ SetupInit /\ (part # "setup" => planned = Planned(0, 0, 0, 0) /\ scenario = planned)
    /\ StreamInit /\ (part # "wire" => receiver = "server" /\ format = "json")
    /\ MotionInit /\ (part # "motion" => limit = 1 /\ launched = 0)
    /\ RunInit
    /\ part # "programs" => program = "text_viewer" /\ session.timeoutTicks = 1

\* Only a few messages follow each other on one connection.
WireStep == StreamNext /\ (Len(given') > 1 => \A i \in DOMAIN given' : given'[i] \in FewMessages)

\* A call of the free caller, within its bounds.
CallerStep ==
    /\ Next /\ UNCHANGED <<program, pc, ticked, demo, exitCode>>
    /\ session'.tick <= CallerTicks /\ session'.sequence <= CallerTicks + 1
    /\ session'.log.count["EngageOrderRejected"] <= 1 /\ session'.log.count["TrackUpdated"] <= 2
    /\ session'.log.count["ClientLeft"] + session'.log.count["ResilienceTriggered"] <= CallerChurn

PartsNext ==
    \/ /\ part = "delay" /\ DelayNext
       /\ UNCHANGED <<part, feedVars, layoutVars, setupVars, streamVars, motionVars, runVars>>
    \/ /\ part = "feed" /\ FeedNext
       /\ UNCHANGED <<part, delayVars, layoutVars, setupVars, streamVars, motionVars, runVars>>
    \/ /\ part = "layout" /\ LayoutNext
       /\ UNCHANGED <<part, delayVars, feedVars, setupVars, streamVars, motionVars, runVars>>
    \/ /\ part = "setup" /\ SetupNext
       /\ UNCHANGED <<part, delayVars, feedVars, layoutVars, streamVars, motionVars, runVars>>
    \/ /\ part = "wire" /\ WireStep
       /\ UNCHANGED <<part, delayVars, feedVars, layoutVars, setupVars, motionVars, runVars>>
    \/ /\ part = "motion" /\ MotionTick
       /\ UNCHANGED <<part, delayVars, feedVars, layoutVars, setupVars, streamVars, runVars>>
    \/ /\ part = "programs" /\ RunNext
       /\ UNCHANGED <<part, delayVars, feedVars, layoutVars, setupVars, streamVars, motionVars>>
    \/ /\ part = "caller" /\ CallerStep
       /\ UNCHANGED <<part, delayVars, feedVars, layoutVars, setupVars, streamVars, motionVars>>

PartsSpec == PartsInit /\ [][PartsNext]_partsVars
================================================================================
