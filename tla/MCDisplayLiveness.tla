--------------------------- MODULE MCDisplayLiveness ---------------------------
(****************************************************************************)
(* The liveness of the tactical display, in one run: its commands and       *)
(* pictures (TacticalDisplay) or its registration (DisplayLink), chosen at  *)
(* the start.  The two have no variable in common; the fairness is that of  *)
(* the part whose steps are taken.                                          *)
(****************************************************************************)
EXTENDS MCTacticalDisplay, DisplayLink

VARIABLE part   \* the part whose steps are taken

\* The default script with every picture in time; and an operator whose server
\* is started anew, with pictures late and lost.
Scripted == [operators |-> {"Script"}, late |-> FALSE,
             pictures |-> 4, commands |-> 0, restarts |-> 0]

Restarted == [operators |-> {"Panel"}, late |-> TRUE,
              pictures |-> 4, commands |-> 3, restarts |-> 1]

LivenessConditions == {Scripted, Restarted}

displayPart == <<conditions, vars>>
linkPart == <<punctual, linkVars>>

PartInit ==
    /\ part \in {"commands", "link"}
    /\ Init /\ (part # "commands" => conditions = Restarted)
    /\ LinkInit /\ (part # "link" => punctual)

PartNext ==
    \/ part = "commands" /\ Next /\ UNCHANGED <<part, linkPart>>
    \/ part = "link" /\ LinkNext /\ UNCHANGED <<part, displayPart>>

PartFairSpec ==
    /\ PartInit /\ [][PartNext]_<<part, displayPart, linkPart>>
    /\ WF_vars(part = "commands" /\ Tick)
    /\ WF_vars(part = "commands" /\ ScriptStep)
    /\ WF_vars(part = "commands" /\ ReceiveNewest)
    /\ WF_linkVars(part = "link" /\ Pass)
    /\ WF_linkVars(part = "link" /\ ServerTick)
    /\ WF_linkVars(part = "link" /\ SendDisplayHeartbeat)
    /\ WF_linkVars(part = "link" /\ SendViewerJoin)
    /\ SF_linkVars(part = "link" /\ HandleJoin)
    /\ SF_linkVars(part = "link" /\ ReceivePicture)
    /\ WF_linkVars(part = "link" /\ punctual /\ HandleHeartbeat)
================================================================================
