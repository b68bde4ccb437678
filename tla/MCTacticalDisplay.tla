--------------------------- MODULE MCTacticalDisplay ---------------------------
(****************************************************************************)
(* The conditions and the auto-control script of the runs of                *)
(* TacticalDisplay.                                                         *)
(****************************************************************************)
EXTENDS TacticalDisplay

\* kDefaultScript of main.cpp
DefaultScript == <<"Start", "Track", "Ready", "Engage", "AAR", "Reset", "Start">>

\* Two operators and a server that is started anew; one operator with commands
\* enough for a whole run and the next one's start.
Disturbed == [operators |-> {"Panel", "Console"}, late |-> TRUE,
              pictures |-> 5, commands |-> 4, restarts |-> 1]

LongRun == [operators |-> {"Panel"}, late |-> TRUE,
            pictures |-> 5, commands |-> 6, restarts |-> 0]

SafetyConditions == {Disturbed, LongRun}
================================================================================
