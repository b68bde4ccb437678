---------------------------- MODULE MCCommandConsole ----------------------------
(****************************************************************************)
(* The frames and the bounds of console_run.  A run of this model has one   *)
(* of two kinds of programs, chosen at the start: a patient one, alone and  *)
(* with turns enough for its whole script and every review it may ask for,  *)
(* so that only the verdict can keep it from running out of them; or        *)
(* several, that give up, overlap and follow each other.                    *)
(****************************************************************************)
EXTENDS CommandConsole

VARIABLE programs   \* the kind of this behaviour

ScriptRequests ==
    {[kind |-> Script[i], sender |-> ConsoleSender, sessionOk |-> TRUE, bodyOk |-> TRUE,
      timeout |-> ConsoleTimeout, control |-> "absolute", index |-> 999] : i \in 1 .. Len(Script)}

NoDatagrams == {}

\* Bounds: turns of the loop, connections and frames.  The commands come before
\* the reviews, and a poll serves one request at most.
Turns == [patient |-> Len(Script) + MaxAttempts + 4, several |-> 12]
Connections == [patient |-> 1, several |-> 3]
Frames == [patient |-> Len(Script) + MaxAttempts, several |-> 13]

ProgramsInit == programs \in DOMAIN Turns /\ ConsoleInit

ProgramsNext ==
    /\ ConsoleNext /\ UNCHANGED programs
    /\ iteration' <= Turns[programs] /\ opened' <= Connections[programs]
    /\ asked' <= Frames[programs]

ProgramsSpec == ProgramsInit /\ [][ProgramsNext]_<<programs, allVars>>
================================================================================
