---------------------------- MODULE MCServerTraffic ----------------------------
(****************************************************************************)
(* SocketLiveTransport under four kinds of traffic in one run: two viewers  *)
(* that come and go, a console that sends anything, one that flies whole    *)
(* missions, and one that reviews them.  The traffic is chosen at the start *)
(* and narrows what clients send and how much of it; the server is free.    *)
(****************************************************************************)
EXTENDS MCSocketLiveTransport, TLC

\* The addresses of viewers are interchangeable: no state starts with one, and
\* the datagram that is ignored is handled alike from all.
Addresses == Permutations(Endpoints)

VARIABLE traffic   \* the traffic of this behaviour

Kind == {"viewers", "anything", "mission", "review"}

\* The kinds whose contents no handler looks at: the broken ones and the ones
\* that carry none.  A frame of them with other contents changes nothing.
Broken == {"malformed", "malformed_aar_request"}
Empty == Broken \cup {"session_leave", "scenario_stop", "scenario_reset", "aar_request"}

FramesOf ==
    LET Of(kinds) == {Sound(k, 1) : k \in kinds}
    IN  [viewers  |-> Of({"session_join", "scenario_reset"}),
         anything |-> {r \in AllRequests :
                         /\ r.sender = 1
                         /\ r.kind \in Broken => r.sessionOk
                         /\ r.kind \in Empty => r.bodyOk}
                      \cup {Sound("session_join", NoSender), Sound("scenario_start", NoSender)},
         mission  |-> Of({"session_join", "scenario_start", "track_acquire", "track_drop",
                          "interceptor_ready", "engage_order"}),
         review   |-> {r \in Reviews : r.sender = 1}
                      \cup Of({"session_join", "scenario_start", "scenario_reset"})]

AllFrames == UNION {FramesOf[t] : t \in Kind}

\* Bounds: turns of the loop, connections, frames and datagrams.  No signal
\* comes: the loop ends by its counter here, by the signal in MCServerLiveness.
Turns == [viewers |-> 3, anything |-> 2, mission |-> 2, review |-> 1]
Connections == [viewers |-> 1, anything |-> 2, mission |-> 1, review |-> 1]
Frames == [viewers |-> 2, anything |-> 3, mission |-> 5, review |-> 5]
DatagramsRead == [viewers |-> 3, anything |-> 0, mission |-> 0, review |-> 0]

TrafficInit == traffic \in Kind /\ Init

TrafficNext ==
    /\ Next /\ UNCHANGED traffic
    /\ iteration' <= Turns[traffic] /\ opened' <= Connections[traffic]
    /\ asked' <= Frames[traffic] /\ received' <= DatagramsRead[traffic]
    /\ ~shutdown'
    /\ asked' > asked => stream'[Len(stream')].req \in FramesOf[traffic]

TrafficSpec == TrafficInit /\ [][TrafficNext]_<<traffic, vars>>
================================================================================
