---------------------------- MODULE MCServerLiveness ----------------------------
(****************************************************************************)
(* SocketLiveTransport started with --run-forever, whose loop only a signal *)
(* ends, under a fair server and two kinds of traffic: a console that flies *)
(* a mission, with a viewer that is heard now and then, so that signal and  *)
(* silence meet every phase; and one that sends anything and reconnects.    *)
(* The traffic narrows what clients do; the server is free.                 *)
(****************************************************************************)
EXTENDS MCSocketLiveTransport

VARIABLE traffic   \* the traffic of this behaviour

\* The frames of the mission in their order.
Mission == <<"session_join", "scenario_start", "track_acquire", "interceptor_ready",
             "engage_order">>

\* Bounds: turns of the loop, connections, frames and datagrams.
Turns == [mission |-> 4, anything |-> 2]
Connections == [mission |-> 1, anything |-> 2]
Frames == [mission |-> Len(Mission), anything |-> 2]
DatagramsRead == [mission |-> 2, anything |-> 0]

InOrder(frame) == frame.n \in DOMAIN Mission /\ frame.req.kind = Mission[frame.n]

Within ==
    /\ iteration' <= Turns[traffic] /\ opened' <= Connections[traffic]
    /\ asked' <= Frames[traffic] /\ received' <= DatagramsRead[traffic]
    /\ traffic = "mission" /\ asked' > asked => InOrder(stream'[Len(stream')])
    /\ UNCHANGED traffic

LiveInit == traffic \in DOMAIN Turns /\ Init

\* The server has a step in every state but these: it has ended, or its turns are
\* used up and it waits for the signal.
Running ==
    /\ pc \notin {"exited", "failed"}
    /\ pc = "head" => shutdown \/ iteration < Turns[traffic]

\* FairSpec, with Running for the ENABLED of the server's steps.
LiveSpec ==
    /\ LiveInit /\ [][Next /\ Within]_<<traffic, vars>>
    /\ []<>~Running \/ []<><<Server>>_vars
================================================================================
