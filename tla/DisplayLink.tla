------------------------------ MODULE DisplayLink ------------------------------
(****************************************************************************)
(* How the tactical display gets and keeps its place on the UDP feed: it    *)
(* registers once when it starts, sends heartbeats, is released by the      *)
(* server when they stay away, and registers again when the feed goes       *)
(* quiet.  Registrations, heartbeats and pictures are lost or late, the     *)
(* display's loop and the server's may be held up, and the server may be    *)
(* started anew.                                                            *)
(*                                                                          *)
(* Abstractions.  Clocks are the times since something happened, which stop *)
(* counting once they are past the test they are for.  A picture (snapshot  *)
(* and telemetry) is the display_connection it carries; which pictures are  *)
(* dropped for newer ones is in TacticalDisplay.  No scenario is reset, and *)
(* no other display registers (SocketLiveTransport has both).               *)
(*                                                                          *)
(* Source: clients/tactical-viewer-gui/src/{main,app_net,app_snapshot}.cpp, *)
(* common/src/transport_socket_live.cpp                                     *)
(****************************************************************************)
EXTENDS Naturals, Sequences

CONSTANTS
    HeartbeatInterval,   \* the display's --heartbeat-interval-ms
    HeartbeatTimeout,    \* the server's heartbeat_timeout_ms
    MaxInFlight,         \* pictures on their way at a time; the oldest is lost
    MaxLate,             \* pictures that arrive after a newer one
    MaxServerRestarts    \* restarts of the server

ASSUME LinkTimes == {HeartbeatInterval, HeartbeatTimeout, MaxInFlight} \subseteq Nat \ {0}
ASSUME LinkBounds == {MaxLate, MaxServerRestarts} \subseteq Nat

Connection == {"Disconnected", "Connected", "Reconnected", "TimedOut"}

VARIABLES
    punctual,  \* whether no heartbeat is lost or held up in this behaviour
    bound,     \* whether the server holds the display's endpoint
    heard,     \* time since last_display_heartbeat_at_
    known,     \* whether the tactical display ever joined the session
    current,   \* its connection in the session
    latest,    \* display_connection of the latest snapshot, "None" before it
    up,        \* registrations and heartbeats on their way to the server
    air,       \* pictures on their way to the display
    received,  \* received_snapshot or received_telemetry
    label,     \* snapshot.display_connection of the display
    quiet,     \* time since last_datagram_received_ms
    tried,     \* time since last_join_attempt_ms
    beat,      \* time since the last heartbeat
    behind,    \* whether the feed's server numbers below what the display has seen
    late, restarts

linkServer == <<bound, heard, known, current, latest>>
linkDisplay == <<received, label, quiet, tried, beat, behind, late>>
linkVars == <<linkServer, up, air, linkDisplay, restarts>>

LinkInit ==
    /\ punctual \in BOOLEAN
    /\ bound = FALSE /\ heard = 0 /\ known = FALSE
    /\ current = "Disconnected" /\ latest = "None"
    /\ up = {"session_join"} /\ air = <<>>
    /\ received = FALSE /\ label = "Disconnected"
    /\ quiet = 0 /\ tried = 0 /\ beat = 0
    /\ behind = FALSE /\ late = 0 /\ restarts = 0

--------------------------------------------------------------------------------
(****************************************************************************)
(* Time                                                                     *)
(****************************************************************************)

\* One more, up to a limit.
Older(age, limit) == IF age < limit THEN age + 1 ELSE age

\* A punctual display sends its heartbeat when it is due, and it gets through.
Pass ==
    /\ punctual => beat < HeartbeatInterval /\ up = {}
    /\ heard' = Older(heard, HeartbeatTimeout)
    /\ quiet' = Older(quiet, 2 * HeartbeatInterval + 1)
    /\ tried' = Older(tried, HeartbeatInterval + 1)
    /\ beat' = Older(beat, HeartbeatInterval)
    /\ UNCHANGED <<bound, known, current, latest, up, air, received, label, behind, late, restarts>>

--------------------------------------------------------------------------------
(****************************************************************************)
(* The server                                                               *)
(****************************************************************************)

\* A picture is sent; the network holds MaxInFlight of them.
Sent(picture) ==
    LET queue == Append(air, picture)
    IN  IF Len(queue) > MaxInFlight THEN Tail(queue) ELSE queue

\* Mutant: a reconnected display stays one.
SettleNot(c) == c

\* record_snapshot settles a reconnected display.
Settle(c) == IF c = "Reconnected" THEN "Connected" ELSE c

\* maybe_timeout_viewer within advance_tick: the display is released before the
\* pictures that report its time-out are sent.
TimeoutViewer ==
    /\ bound /\ heard >= HeartbeatTimeout
    /\ bound' = FALSE
    /\ current' = "TimedOut" /\ latest' = "TimedOut"
    /\ UNCHANGED <<heard, known, up, air, linkDisplay, restarts>>

\* advance_tick of a display that is in time, or that is not registered.
RecordPicture ==
    /\ ~(bound /\ heard >= HeartbeatTimeout)
    /\ latest' = current /\ current' = Settle(current)
    /\ air' = IF bound THEN Sent(current) ELSE air
    /\ UNCHANGED <<bound, heard, known, up, linkDisplay, restarts>>

ServerTick == TimeoutViewer \/ RecordPicture

\* Mutant: the time of a heartbeat is only noted when it reports a reconnection.
AliveUnheard ==
    /\ heard' = IF latest = "TimedOut" THEN 0 ELSE heard
    /\ current' = IF latest = "TimedOut" THEN "Reconnected" ELSE current
    /\ UNCHANGED <<bound, known, latest, air>>

\* A sign of life of the registered display reports a reconnection while the
\* latest picture shows it timed out.
Alive ==
    /\ heard' = 0
    /\ current' = IF latest = "TimedOut" THEN "Reconnected" ELSE current
    /\ UNCHANGED <<bound, known, latest, air>>

\* A registration starts with the latest picture there is.
Register ==
    /\ bound' = TRUE /\ known' = TRUE /\ heard' = 0
    /\ current' = IF known THEN "Reconnected" ELSE "Connected"
    /\ air' = IF latest = "None" THEN air ELSE Sent(latest)
    /\ UNCHANGED latest

HandleJoin ==
    /\ "session_join" \in up /\ up' = up \ {"session_join"}
    /\ IF bound THEN Alive ELSE Register
    /\ UNCHANGED <<linkDisplay, restarts>>

\* Without a registration the sender is not known and the heartbeat ignored.
HandleHeartbeat ==
    /\ "display_heartbeat" \in up /\ up' = up \ {"display_heartbeat"}
    /\ IF bound THEN Alive ELSE UNCHANGED <<linkServer, air>>
    /\ UNCHANGED <<linkDisplay, restarts>>

Lose ==
    /\ ~punctual
    /\ \E datagram \in up : up' = up \ {datagram}
    /\ UNCHANGED <<linkServer, air, linkDisplay, restarts>>

ServerRestarts ==
    /\ restarts < MaxServerRestarts /\ restarts' = restarts + 1
    /\ bound' = FALSE /\ heard' = 0 /\ known' = FALSE
    /\ current' = "Disconnected" /\ latest' = "None"
    /\ behind' = received
    /\ air' = <<>>
    /\ UNCHANGED <<up, received, label, quiet, tried, beat, late>>

--------------------------------------------------------------------------------
(****************************************************************************)
(* The display's loop                                                       *)
(****************************************************************************)

SendDisplayHeartbeat ==
    /\ beat >= HeartbeatInterval /\ beat' = 0
    /\ up' = up \cup {"display_heartbeat"}
    /\ UNCHANGED <<linkServer, air, received, label, quiet, tried, behind, late, restarts>>

\* Mutant: the display only looks for a lost feed once it was told of a time-out.
RejoinDueWhenTold == received /\ label = "TimedOut" /\ tried > HeartbeatInterval

\* The feed was there and has been quiet for two intervals.
RejoinDue ==
    /\ received
    /\ quiet > 2 * HeartbeatInterval /\ tried > HeartbeatInterval

SendViewerJoin ==
    /\ RejoinDue /\ tried' = 0
    /\ up' = up \cup {"session_join"}
    /\ UNCHANGED <<linkServer, air, received, label, quiet, beat, behind, late, restarts>>

\* Any picture on its way may be the next to arrive; the older ones are late.
ReceivePicture ==
    /\ \E k \in DOMAIN air :
          /\ air' = SubSeq(air, k + 1, Len(air))
          /\ label' = air[k]
    /\ received' = TRUE /\ quiet' = 0 /\ behind' = FALSE
    /\ UNCHANGED <<linkServer, up, tried, beat, late, restarts>>

\* A picture with a stamp below the shown one: late, or of a server started anew
\* that has not counted so far.  It is dropped, but the feed was heard.
ReceiveOutdated ==
    /\ received
    /\ \/ behind /\ air # <<>> /\ air' = Tail(air) /\ UNCHANGED late
       \/ late < MaxLate /\ late' = late + 1 /\ UNCHANGED air
    /\ quiet' = 0
    /\ UNCHANGED <<linkServer, up, received, label, tried, beat, behind, restarts>>

Display == SendDisplayHeartbeat \/ SendViewerJoin \/ ReceivePicture \/ ReceiveOutdated

LinkNext ==
    /\ Pass \/ ServerTick \/ HandleJoin \/ HandleHeartbeat \/ Lose \/ ServerRestarts \/ Display
    /\ UNCHANGED punctual

LinkSpec == LinkInit /\ [][LinkNext]_<<punctual, linkVars>>

\* Time passes, both loops go on, and of the datagrams that keep being sent some
\* get through; a punctual display's heartbeats all do.
FairLinkSpec ==
    /\ LinkSpec
    /\ WF_linkVars(Pass) /\ WF_linkVars(ServerTick)
    /\ WF_linkVars(SendDisplayHeartbeat) /\ WF_linkVars(SendViewerJoin)
    /\ SF_linkVars(HandleJoin) /\ SF_linkVars(ReceivePicture)
    /\ WF_linkVars(punctual /\ HandleHeartbeat)

--------------------------------------------------------------------------------

\* Every variable has its type, and no clock outlives its test.
LinkTypeOK ==
    /\ {punctual, bound, known, received, behind} \subseteq BOOLEAN
    /\ heard \in 0 .. HeartbeatTimeout /\ quiet \in 0 .. 2 * HeartbeatInterval + 1
    /\ tried \in 0 .. HeartbeatInterval + 1 /\ beat \in 0 .. HeartbeatInterval
    /\ {current, label} \subseteq Connection /\ latest \in Connection \cup {"None"}
    /\ up \subseteq {"session_join", "display_heartbeat"}
    /\ air \in Seq(Connection) /\ Len(air) <= MaxInFlight
    /\ late \in 0 .. MaxLate /\ restarts \in 0 .. MaxServerRestarts

\* A display whose heartbeats are sent and delivered in time is never timed out,
\* however the loops interleave, if the server waits longer than one interval.
PunctualNeverTimedOut == punctual => current # "TimedOut"

\* The two timers agree: no clock outlives its test, and heartbeats in time keep
\* the registration.
TimersAgree == LinkTypeOK /\ PunctualNeverTimedOut

\* A display that was ever served and has lost its registration, by a time-out
\* or a restart of the server, gets it back (auto-rejoin).
RegistrationHeals == received /\ ~bound ~> bound

\* A display that stays registered ends up showing itself on the net, whatever
\* time-outs and reconnections it was shown before.
LabelSettles == <>[]bound => <>[](label = "Connected")
================================================================================
