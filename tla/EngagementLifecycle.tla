-------------------------- MODULE EngagementLifecycle --------------------------
(****************************************************************************)
(* What the engagement promises to an operator and to the after-action      *)
(* review, without ticks, clients, sequence numbers or rejections: the      *)
(* stages of docs/scenario.md, whether the interceptor flies guided, and a  *)
(* verdict that only an engagement under way can receive.  SimulationSession *)
(* implements this specification.                                           *)
(****************************************************************************)

VARIABLES stage, guided, verdict

vars == <<stage, guided, verdict>>

Stages == {"Standby", "Detecting", "Tracking", "InterceptorReady",
           "EngageOrdered", "Intercepting", "Assessed", "Archived"}
Verdicts == {"InterceptSuccess", "TimeoutObserved"}

TypeOK ==
    /\ stage \in Stages
    /\ guided \in BOOLEAN
    /\ verdict \in Verdicts \cup {"None"}

Init == stage = "Standby" /\ guided = FALSE /\ verdict = "None"

Start ==
    /\ stage = "Standby"
    /\ stage' = "Detecting"
    /\ UNCHANGED <<guided, verdict>>

\* The track may be taken up and dropped until the order is given, not after.
AcquireTrack ==
    /\ ~guided
    /\ \/ stage = "Detecting" /\ stage' = "Tracking"
       \/ stage = "InterceptorReady" /\ stage' = stage
    /\ guided' = TRUE
    /\ UNCHANGED verdict

DropTrack ==
    /\ guided
    /\ \/ stage = "Tracking" /\ stage' = "Detecting"
       \/ stage = "InterceptorReady" /\ stage' = stage
    /\ guided' = FALSE
    /\ UNCHANGED verdict

\* Arming needs a track; the track may be dropped again before the order.
MakeReady ==
    /\ stage = "Tracking" /\ guided
    /\ stage' = "InterceptorReady"
    /\ UNCHANGED <<guided, verdict>>

Engage ==
    /\ stage = "InterceptorReady"
    /\ stage' = "EngageOrdered"
    /\ UNCHANGED <<guided, verdict>>

Launch ==
    /\ stage = "EngageOrdered"
    /\ stage' = "Intercepting"
    /\ UNCHANGED <<guided, verdict>>

\* Launch and assessment may fall into one tick.
Assess ==
    /\ stage \in {"EngageOrdered", "Intercepting"}
    /\ stage' = "Assessed"
    /\ verdict' \in Verdicts
    /\ UNCHANGED guided

Archive ==
    /\ stage # "Archived"
    /\ stage' = "Archived"
    /\ UNCHANGED <<guided, verdict>>

Reset ==
    /\ stage' = "Standby"
    /\ guided' = FALSE
    /\ verdict' = "None"

Next ==
    \/ Start \/ AcquireTrack \/ DropTrack \/ MakeReady \/ Engage
    \/ Launch \/ Assess \/ Archive \/ Reset

Spec == Init /\ [][Next]_vars
================================================================================
