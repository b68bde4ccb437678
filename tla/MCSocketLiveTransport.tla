------------------------- MODULE MCSocketLiveTransport -------------------------
(****************************************************************************)
(* The traffic of the runs of SocketLiveTransport.                          *)
(****************************************************************************)
EXTENDS SocketLiveTransport

CONSTANTS Kinds   \* the kinds of frames in a run

\* A frame as a client of the repository builds it.
Sound(kind, sender) ==
    [kind |-> kind, sender |-> sender, sessionOk |-> TRUE, bodyOk |-> TRUE,
     timeout |-> 1, control |-> "absolute", index |-> 0]

\* A frame of each kind from each sender.
SoundRequests == {Sound(k, s) : k \in Kinds, s \in Senders}

\* A frame each handler refuses, for its session and for its contents.
Refused == {[Sound(k, s) EXCEPT !.sessionOk = FALSE] : k \in Kinds, s \in Senders}
           \cup {[Sound(k, s) EXCEPT !.bodyOk = FALSE] : k \in Kinds, s \in Senders}

\* Reviews: absolute jumps inside and past the log, and steps, which carry an
\* index of no meaning.
Reviews == {[Sound("aar_request", s) EXCEPT !.control = c, !.index = i] :
               s \in Senders, c \in AarControl, i \in {0, 3}}

AllRequests == SoundRequests \cup Refused
ReviewRequests == SoundRequests \cup Reviews

NoDatagrams == {}
JoinsAndHeartbeats == {d \in Datagram : d.kind # "ignored"}
AllDatagrams ==
    JoinsAndHeartbeats
    \cup {CHOOSE d \in Datagram : d.kind = "ignored"}
================================================================================
