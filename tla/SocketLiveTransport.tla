-------------------------- MODULE SocketLiveTransport --------------------------
(****************************************************************************)
(* The live server: run_socket_live's loop of poll_once and advance_tick,   *)
(* the handlers of SocketLiveTransport, and the consoles (TCP), the viewers *)
(* (UDP), the clock and the signal around them.                             *)
(*                                                                          *)
(* The server is one thread; pc says where in its loop it is, and a step is *)
(* one accept, one datagram, one read of the TCP socket, one frame, one     *)
(* flush or one tick.  Clients act at any time, but what they do matters    *)
(* only when the server next looks: a connection when it accepts, a         *)
(* datagram or a frame when it reads, the age of the last heartbeat when it *)
(* ticks.  So a client's step is taken there.  Datagrams may be lost,       *)
(* delayed, reordered and duplicated: any one may be read at any time.      *)
(*                                                                          *)
(* Abstractions.  A frame or datagram is a record of what the handlers      *)
(* test.  A snapshot and its telemetry are one picture, known by its        *)
(* snapshot number.  server_sequence_, wall times and texts are left out.   *)
(*                                                                          *)
(* Source: common/src/transport_socket_live.cpp, server/src/main.cpp        *)
(****************************************************************************)
EXTENDS SessionInvariants, ReplayCursor, Sequences

CONSTANTS
    Endpoints,       \* the UDP addresses viewers send from
    NoEndpoint,      \* viewer_endpoint_ when it is empty
    Senders,         \* sender ids of clients
    Requests,        \* the frames consoles may send
    Datagrams,       \* the datagrams viewers may send
    UdpMaxBatchSnapshots, UdpSendLatestOnly,
    RunForever,      \* --run-forever
    TickLimit,       \* --tick-limit; with RunForever a bound on the model
    MaxConnections,  \* TCP connections in a run
    MaxRequests,     \* frames in a run
    MaxDatagrams     \* datagrams in a run

\* The value of an unset sender id.  Nothing keeps a client from sending it.
NoSender == 0

RequestKind == {"session_join", "session_leave", "scenario_start", "scenario_stop",
                "scenario_reset", "track_acquire", "track_drop", "interceptor_ready",
                "engage_order", "aar_request", "malformed_aar_request", "malformed"}

\* sessionOk: the envelope names this session; bodyOk: role, entity ids, or
\* scenario name and validated parameters are as the handler wants them.
Request == [kind : RequestKind, sender : Senders, sessionOk : BOOLEAN, bodyOk : BOOLEAN,
            timeout : EngagementTimeouts, control : AarControl, index : Nat]

\* "ignored": malformed, another kind, another session or another role.
Datagram == [kind : {"session_join", "display_heartbeat", "ignored"},
             sender : Senders, from : Endpoints]

ASSUME ClientsIdentified == NoEndpoint \notin Endpoints /\ Senders \subseteq Nat
ASSUME TrafficTyped == Requests \subseteq Request /\ Datagrams \subseteq Datagram
\* validate_runtime_config requires a positive batch size.
ASSUME BatchPositive == UdpMaxBatchSnapshots \in Nat \ {0} /\ UdpSendLatestOnly \in BOOLEAN
ASSUME LoopBounded ==
    /\ RunForever \in BOOLEAN
    /\ {TickLimit, MaxConnections, MaxRequests, MaxDatagrams} \subseteq Nat

VARIABLES
    pc,         \* where run_socket_live is
    iteration,  \* its loop variable
    shutdown,   \* g_shutdown_requested
    session,    \* session_
    console,    \* command_client_ (link), command_sender_id_, tcp_buffer_,
                \* pending_tcp_lines_
    viewer,     \* viewer_endpoint_, viewer_sender_id_, last_display_heartbeat_at_ (heard),
                \* last_snapshot_sent_index_, pending_udp_messages_
    replay,     \* replay_cursor_
    opened,     \* connections opened so far
    stream,     \* frames sent on the accepted connection, not yet read
    asked,      \* frames sent so far
    awaiting,   \* numbers of the frames the connected console awaits an answer to
    received    \* datagrams read so far

clientVars == <<opened, stream, asked, awaiting, received, shutdown>>
vars == <<pc, iteration, session, console, viewer, replay, clientVars>>

\* A frame and its number; an answer and the number of the frame it answers.
Frame == [n : Nat, req : Request]
Answer == [n : Nat, accepted : BOOLEAN]
\* What waits in pending_udp_messages_; sequence is 0 in a heartbeat's ack.
Outgoing == [sequence : Nat, to : Endpoints]

\* link is "None" without a command_client_; otherwise "Open" is a connection,
\* "Finished" one the console has closed and "Aborted" one that was reset.
Console == [link : {"None", "Open", "Finished", "Aborted"}, sender : Senders \cup {NoSender},
            buffer : Seq(Frame), pending : Seq(Answer)]

\* heard: whether heartbeat_timeout_ms have passed since the viewer was heard.
Viewer == [endpoint : Endpoints \cup {NoEndpoint}, sender : Senders \cup {NoSender},
           heard : {"Never", "Recent", "Overdue"}, sent : Nat, pending : Seq(Outgoing)]

NoConsole == [link |-> "None", sender |-> NoSender, buffer |-> <<>>, pending |-> <<>>]

\* clear_viewer_binding
NoViewer == [endpoint |-> NoEndpoint, sender |-> NoSender, heard |-> "Never",
             sent |-> 0, pending |-> <<>>]

Init ==
    /\ pc = "head" /\ iteration = 0 /\ shutdown = FALSE
    /\ \E t \in EngagementTimeouts : session = NewSession(t)
    /\ console = NoConsole /\ viewer = NoViewer /\ replay = NoCursor
    /\ opened = 0 /\ stream = <<>> /\ asked = 0 /\ awaiting = <<>> /\ received = 0

--------------------------------------------------------------------------------
(****************************************************************************)
(* Delivery of snapshots to the viewer                                      *)
(****************************************************************************)

Smaller(a, b) == IF a <= b THEN a ELSE b

\* send_pending_snapshots: snapshot i of the list has number
\* s.sequence - s.snapshots + i.
SendPendingSnapshots(v, s) ==
    LET count == Smaller(s.snapshots - v.sent, UdpMaxBatchSnapshots)
        first == s.sequence - s.snapshots + v.sent
        picture(n) == [sequence |-> n, to |-> v.endpoint]
    IN  IF v.endpoint = NoEndpoint \/ v.sent >= s.snapshots THEN v
        ELSE IF UdpSendLatestOnly /\ s.snapshots - v.sent > 1
        THEN [v EXCEPT !.pending = <<picture(s.sequence)>>, !.sent = s.snapshots]
        ELSE [v EXCEPT !.pending = @ \o [i \in 1 .. count |-> picture(first + i)],
                       !.sent = @ + count]

\* Mutant: the cursor is left where it was.
ResetViewerDeliveryCursorNot(v, s) == v

\* reset_viewer_delivery_cursor
ResetViewerDeliveryCursor(v, s) ==
    LET rewind == IF UdpSendLatestOnly THEN 1 ELSE Smaller(s.snapshots, UdpMaxBatchSnapshots)
    IN  [v EXCEPT !.sent = IF s.snapshots = 0 THEN 0 ELSE s.snapshots - rewind]

--------------------------------------------------------------------------------
(****************************************************************************)
(* Writes                                                                   *)
(****************************************************************************)

\* send_ack and send_aar_response
Replied(con, n, accepted) ==
    IF con.link = "None" THEN con
    ELSE [con EXCEPT !.pending = Append(@, [n |-> n, accepted |-> accepted])]

\* What is left of a queue whose first k elements are gone.
Rest(queue, k) == SubSeq(queue, k + 1, Len(queue))

\* A send that ends the process: ECONNRESET leaves poll_once as an exception,
\* EPIPE comes with SIGPIPE.  It is certain on a reset connection and possible
\* on one the console has closed, which resets it at the next line.
SendFails == console.link \in {"Finished", "Aborted"} /\ console.pending # <<>>

\* flush_tcp_writes and flush_udp_datagrams.  The sockets take some of the lines
\* and datagrams (EAGAIN ends a flush), no line without a connection; a console
\* takes its answers in order.
FlushThen(next) ==
    \/ SendFails /\ pc' = "failed" /\ UNCHANGED <<console, viewer, awaiting>>
    \/ /\ ~(SendFails /\ console.link = "Aborted")
       /\ \E k \in 0 .. Len(console.pending), j \in 0 .. Len(viewer.pending) :
             /\ console' = [console EXCEPT !.pending = Rest(@, k)]
             /\ viewer' = [viewer EXCEPT !.pending = Rest(@, j)]
             /\ awaiting' = Rest(awaiting, k)
             /\ pc' = next

FlushUnchanged == UNCHANGED <<iteration, session, replay, opened, stream, asked, received, shutdown>>

--------------------------------------------------------------------------------
(****************************************************************************)
(* poll_once: accept_tcp_client                                             *)
(****************************************************************************)

BeginPoll ==
    /\ pc = "head" /\ iteration < TickLimit /\ ~(RunForever /\ shutdown)
    /\ pc' = "accept" /\ iteration' = iteration + 1
    /\ UNCHANGED <<session, console, viewer, replay, clientVars>>

\* A second connection is closed at once.
RefuseConnection ==
    /\ pc = "accept" /\ console.link # "None"
    /\ opened < MaxConnections /\ opened' = opened + 1
    /\ session' = RecordTransportRejection(session)
    /\ UNCHANGED <<pc, iteration, console, viewer, replay, stream, asked, awaiting, received, shutdown>>

\* One connection is taken; others wait for the next poll.
AcceptConnection ==
    /\ pc = "accept" /\ console.link = "None"
    /\ opened < MaxConnections /\ opened' = opened + 1
    /\ console' = [console EXCEPT !.link = "Open"]
    /\ pc' = "flush"
    /\ UNCHANGED <<iteration, session, viewer, replay, stream, asked, awaiting, received, shutdown>>

NobodyConnects ==
    /\ pc = "accept" /\ pc' = "flush"
    /\ UNCHANGED <<iteration, session, console, viewer, replay, clientVars>>

FlushBeforeReading == pc = "flush" /\ FlushThen("udp") /\ FlushUnchanged

--------------------------------------------------------------------------------
(****************************************************************************)
(* poll_once: receive_udp_datagrams                                         *)
(****************************************************************************)

\* The test both handlers make before they report a reconnect.
PictureShowsTimeout == session.snapshots > 0 /\ session.latest.display = "TimedOut"

AcceptsHeartbeat(d) ==
    /\ d.sender = viewer.sender
    /\ viewer.endpoint \in {NoEndpoint, d.from}

\* A sign of life from the registered viewer; v is the viewer with it noted.
ViewerAlive(v) ==
    IF PictureShowsTimeout
    THEN /\ session' = ConnectClient(session, "TacticalDisplay")
         /\ viewer' = SendPendingSnapshots(v, session')
    ELSE viewer' = v /\ UNCHANGED session

DisplayHeartbeat(d) ==
    IF AcceptsHeartbeat(d)
    THEN ViewerAlive([viewer EXCEPT
             !.heard = "Recent",
             !.pending = Append(@, [sequence |-> 0, to |-> d.from])])
    ELSE UNCHANGED <<session, viewer>>

\* A registration: of another viewer, of the registered one, or a new one.
ViewerJoin(d) ==
    IF viewer.endpoint # NoEndpoint /\ viewer.sender # NoSender /\ d.sender # viewer.sender
    THEN session' = RecordTransportRejection(session) /\ UNCHANGED viewer
    ELSE IF viewer.endpoint = d.from /\ viewer.sender = d.sender
    THEN ViewerAlive([viewer EXCEPT !.heard = "Recent"])
    ELSE LET bound == [viewer EXCEPT !.sender = d.sender, !.endpoint = d.from, !.heard = "Recent"]
         IN  /\ session' = ConnectClient(session, "TacticalDisplay")
             /\ viewer' = SendPendingSnapshots(ResetViewerDeliveryCursor(bound, session), session')

ReceiveDatagram ==
    /\ pc = "udp" /\ received < MaxDatagrams /\ received' = received + 1
    /\ \E d \in Datagrams :
          \/ d.kind = "session_join" /\ ViewerJoin(d)
          \/ d.kind = "display_heartbeat" /\ DisplayHeartbeat(d)
          \/ d.kind = "ignored" /\ UNCHANGED <<session, viewer>>
    /\ UNCHANGED <<pc, iteration, console, replay, opened, stream, asked, awaiting, shutdown>>

DatagramsDone ==
    /\ pc = "udp" /\ pc' = "recv"
    /\ UNCHANGED <<iteration, session, console, viewer, replay, clientVars>>

--------------------------------------------------------------------------------
(****************************************************************************)
(* poll_once: receive_tcp_messages                                          *)
(****************************************************************************)

\* Mutant: command_sender_id_ survives the disconnect.
ConsoleDisconnectedKeepsSender(con) == [NoConsole EXCEPT !.sender = con.sender]

ConsoleDisconnected(con) == NoConsole

\* disconnect_client for the console; frames it had sent are lost.
DisconnectConsole ==
    /\ session' = IF console.sender = NoSender THEN session
                  ELSE DisconnectClient(session, "FireControlConsole")
    /\ console' = ConsoleDisconnected(console)
    /\ stream' = <<>> /\ awaiting' = <<>>

NothingToRead ==
    /\ pc = "recv" /\ console.link = "None" /\ pc' = "frames"
    /\ UNCHANGED <<iteration, session, console, viewer, replay, clientVars>>

ReadStream ==
    /\ pc = "recv" /\ console.link = "Open" /\ pc' = "frames"
    /\ console' = [console EXCEPT !.buffer = @ \o stream]
    /\ stream' = <<>>
    /\ UNCHANGED <<iteration, session, viewer, replay, opened, asked, awaiting, received, shutdown>>

\* Frames read together with the end of the stream are thrown away with it.
ReadEndOfStream ==
    /\ pc = "recv" /\ console.link = "Finished" /\ pc' = "frames"
    /\ DisconnectConsole
    /\ UNCHANGED <<iteration, viewer, replay, opened, asked, received, shutdown>>

ReadFailure ==
    /\ pc = "recv" /\ console.link = "Aborted" /\ pc' = "failed"
    /\ UNCHANGED <<iteration, session, console, viewer, replay, clientVars>>

--------------------------------------------------------------------------------
(****************************************************************************)
(* process_tcp_frame, one action per kind of frame                          *)
(****************************************************************************)

\* The frame being processed and the console without it.
Current == Head(console.buffer)
Taken == [console EXCEPT !.buffer = Tail(@)]

Processing(kind) == pc = "frames" /\ console.buffer # <<>> /\ Current.req.kind = kind

FrameUnchanged == UNCHANGED <<pc, iteration, opened, asked, received, shutdown>>
ConnectionUnchanged == UNCHANGED <<stream, awaiting>>

\* validate_command_envelope
EnvelopeValid(r) == console.sender # NoSender /\ r.sessionOk /\ r.sender = console.sender

\* A command the session refuses leaves one more rejection in the log.
Accepted(s, t) == t.log.count["EngageOrderRejected"] = s.log.count["EngageOrderRejected"]

\* Mutant: the rejection is logged and not answered.
RefuseFrameSilently ==
    /\ session' = RecordTransportRejection(session)
    /\ console' = Taken
    /\ UNCHANGED <<viewer, replay>>

\* reject_payload, sent as the answer.
RefuseFrame ==
    /\ session' = RecordTransportRejection(session)
    /\ console' = Replied(Taken, Current.n, FALSE)
    /\ UNCHANGED <<viewer, replay>>

SessionJoin ==
    LET r == Current.req
    IN  /\ Processing("session_join") /\ FrameUnchanged /\ ConnectionUnchanged
        /\ IF ~r.bodyOk \/ ~r.sessionOk \/ console.sender \notin {NoSender, r.sender}
           THEN RefuseFrame
           ELSE /\ console' = Replied([Taken EXCEPT !.sender = r.sender], Current.n, TRUE)
                /\ session' = IF console.sender = r.sender THEN session
                              ELSE ConnectClient(session, "FireControlConsole")
                /\ UNCHANGED <<viewer, replay>>

\* The answer is flushed before the connection is closed.  On a reset connection
\* that flush throws, and the exception is logged as a rejected frame; on one
\* the console has closed the second line may bring SIGPIPE.
SessionLeave ==
    /\ Processing("session_leave")
    /\ \/ ~EnvelopeValid(Current.req) /\ RefuseFrame /\ ConnectionUnchanged /\ UNCHANGED pc
       \/ /\ EnvelopeValid(Current.req) /\ console.link = "Aborted"
          /\ session' = RecordTransportRejection(session)
          /\ console' = Replied(Taken, Current.n, TRUE)
          /\ ConnectionUnchanged /\ UNCHANGED pc
       \/ EnvelopeValid(Current.req) /\ console.link # "Aborted" /\ DisconnectConsole /\ UNCHANGED pc
       \/ /\ EnvelopeValid(Current.req) /\ SendFails /\ console.link # "Aborted"
          /\ pc' = "failed" /\ UNCHANGED <<session, console, stream, awaiting>>
    /\ UNCHANGED <<iteration, viewer, replay, opened, asked, received, shutdown>>

\* Mutant: the phase is left to start_scenario to test.
ScenarioStartInAnyPhase ==
    LET r == Current.req
    IN  /\ Processing("scenario_start") /\ FrameUnchanged /\ ConnectionUnchanged
        /\ IF ~EnvelopeValid(r) \/ ~r.bodyOk THEN RefuseFrame
           ELSE /\ session' = StartScenario(ConfigureScenario(session, r.timeout))
                /\ console' = Replied(Taken, Current.n, Accepted(session, session'))
                /\ viewer' = SendPendingSnapshots(viewer, session')
                /\ UNCHANGED replay

ScenarioStart ==
    LET r == Current.req
    IN  /\ Processing("scenario_start") /\ FrameUnchanged /\ ConnectionUnchanged
        /\ IF ~EnvelopeValid(r) \/ session.phase # "Standby" \/ ~r.bodyOk THEN RefuseFrame
           ELSE /\ session' = StartScenario(ConfigureScenario(session, r.timeout))
                /\ console' = Replied(Taken, Current.n, Accepted(session, session'))
                /\ viewer' = SendPendingSnapshots(viewer, session')
                /\ UNCHANGED replay

ScenarioStop ==
    /\ Processing("scenario_stop") /\ FrameUnchanged /\ ConnectionUnchanged
    /\ IF ~EnvelopeValid(Current.req) \/ session.phase \in {"Standby", "Archived"}
       THEN RefuseFrame
       ELSE /\ session' = ArchiveSession(session)
            /\ console' = Replied(Taken, Current.n, TRUE)
            /\ viewer' = SendPendingSnapshots(viewer, session')
            /\ UNCHANGED replay

\* Mutant: the review goes on with the cursor of the run before.
ScenarioResetKeepsCursor ==
    /\ Processing("scenario_reset") /\ FrameUnchanged /\ ConnectionUnchanged
    /\ IF ~EnvelopeValid(Current.req) THEN RefuseFrame
       ELSE /\ session' = ResetSession(session)
            /\ viewer' = SendPendingSnapshots(ResetViewerDeliveryCursor(viewer, session'), session')
            /\ console' = Replied(Taken, Current.n, TRUE)
            /\ UNCHANGED replay

ScenarioReset ==
    /\ Processing("scenario_reset") /\ FrameUnchanged /\ ConnectionUnchanged
    /\ IF ~EnvelopeValid(Current.req) THEN RefuseFrame
       ELSE /\ session' = ResetSession(session)
            /\ replay' = NoCursor
            /\ viewer' = SendPendingSnapshots(ResetViewerDeliveryCursor(viewer, session'), session')
            /\ console' = Replied(Taken, Current.n, TRUE)

\* A command of the mission; outcome is the session after it.
MissionCommand(kind, outcome) ==
    /\ Processing(kind) /\ FrameUnchanged /\ ConnectionUnchanged
    /\ IF ~EnvelopeValid(Current.req) \/ ~Current.req.bodyOk THEN RefuseFrame
       ELSE /\ session' = outcome
            /\ console' = Replied(Taken, Current.n, Accepted(session, outcome))
            /\ viewer' = SendPendingSnapshots(viewer, outcome)
            /\ UNCHANGED replay

TrackAcquire     == MissionCommand("track_acquire", RequestTrack(session))
TrackDrop        == MissionCommand("track_drop", ReleaseTrack(session))
InterceptorReady == MissionCommand("interceptor_ready", ActivateAsset(session))
EngageOrder      == MissionCommand("engage_order", IssueCommand(session))

AarRequest ==
    LET r == Current.req
    IN  /\ Processing("aar_request") /\ FrameUnchanged /\ ConnectionUnchanged
        /\ IF ~EnvelopeValid(r) THEN RefuseFrame
           ELSE /\ replay' = ResolveReplayCursor(replay, session.log.size, r.control, r.index)
                /\ console' = Replied(Taken, Current.n, TRUE)
                /\ UNCHANGED <<session, viewer>>

\* A malformed aar_request is answered, without an event.
MalformedAarRequest ==
    /\ Processing("malformed_aar_request") /\ FrameUnchanged /\ ConnectionUnchanged
    /\ console' = Replied(Taken, Current.n, FALSE)
    /\ UNCHANGED <<session, viewer, replay>>

\* Any other frame that does not parse is logged and not answered.
MalformedFrame ==
    /\ Processing("malformed") /\ FrameUnchanged /\ ConnectionUnchanged
    /\ session' = RecordTransportRejection(session)
    /\ console' = Taken
    /\ UNCHANGED <<viewer, replay>>

FlushAfterReading ==
    pc = "frames" /\ console.buffer = <<>> /\ FlushThen("tick") /\ FlushUnchanged

--------------------------------------------------------------------------------
(****************************************************************************)
(* advance_tick and the end of the loop                                     *)
(****************************************************************************)

\* Mutant: nobody is timed out any more once the run is archived.
HeartbeatOverdueUnarchived ==
    /\ viewer.endpoint # NoEndpoint /\ viewer.heard = "Overdue"
    /\ session.phase # "Archived"

\* maybe_timeout_viewer's condition.
HeartbeatOverdue == viewer.endpoint # NoEndpoint /\ viewer.heard = "Overdue"

Tick ==
    /\ pc = "tick" /\ pc' = "head"
    /\ \E hit, inFov \in BOOLEAN :
          session' = AdvanceTick(IF HeartbeatOverdue
                                 THEN TimeoutClient(session, "TacticalDisplay")
                                 ELSE session, hit, inFov)
    /\ viewer' = SendPendingSnapshots(IF HeartbeatOverdue THEN NoViewer ELSE viewer, session')
    /\ UNCHANGED <<iteration, console, replay, clientVars>>

\* Mutant: a run that has its verdict is taken for archived.
LoopEndUnassessed ==
    /\ pc = "head" /\ pc' = "exited"
    /\ IF RunForever THEN shutdown ELSE iteration = TickLimit
    /\ IF shutdown /\ ~session.ready /\ (session.snapshots > 0 \/ session.log.size > 0)
       THEN /\ session' = ArchiveSession(session)
            /\ viewer' = SendPendingSnapshots(viewer, session')
       ELSE UNCHANGED <<session, viewer>>
    /\ UNCHANGED <<iteration, console, replay, clientVars>>

\* The loop ends; a run that was told to shut down is archived.
LoopEnd ==
    /\ pc = "head" /\ pc' = "exited"
    /\ IF RunForever THEN shutdown ELSE iteration = TickLimit
    /\ IF shutdown /\ (session.snapshots > 0 \/ session.log.size > 0)
       THEN /\ session' = ArchiveSession(session)
            /\ viewer' = SendPendingSnapshots(viewer, session')
       ELSE UNCHANGED <<session, viewer>>
    /\ UNCHANGED <<iteration, console, replay, clientVars>>

Server ==
    \/ BeginPoll \/ RefuseConnection \/ AcceptConnection \/ NobodyConnects
    \/ FlushBeforeReading
    \/ ReceiveDatagram \/ DatagramsDone
    \/ NothingToRead \/ ReadStream \/ ReadEndOfStream \/ ReadFailure
    \/ SessionJoin \/ SessionLeave
    \/ ScenarioStart \/ ScenarioStop \/ ScenarioReset
    \/ TrackAcquire \/ TrackDrop \/ InterceptorReady \/ EngageOrder
    \/ AarRequest \/ MalformedAarRequest \/ MalformedFrame
    \/ FlushAfterReading
    \/ Tick \/ LoopEnd

--------------------------------------------------------------------------------
(****************************************************************************)
(* The connected console, the clock and the signal                          *)
(****************************************************************************)

ConsoleAsks ==
    /\ pc = "recv" /\ console.link = "Open"
    /\ asked < MaxRequests /\ asked' = asked + 1
    /\ \E r \in Requests :
          /\ stream' = Append(stream, [n |-> asked', req |-> r])
          /\ awaiting' = IF r.kind = "malformed" THEN awaiting ELSE Append(awaiting, asked')
    /\ UNCHANGED <<pc, iteration, session, console, viewer, replay, opened, received, shutdown>>

\* The console closes its end, or the connection is reset.
ConsoleEnds ==
    /\ pc \in {"recv", "frames"} /\ console.link = "Open"
    /\ \E end \in {"Finished", "Aborted"} : console' = [console EXCEPT !.link = end]
    /\ UNCHANGED <<pc, iteration, session, viewer, replay, clientVars>>

\* heartbeat_timeout_ms pass since the viewer was last heard.
HeartbeatExpires ==
    /\ pc \in {"head", "tick"} /\ viewer.heard = "Recent"
    /\ viewer' = [viewer EXCEPT !.heard = "Overdue"]
    /\ UNCHANGED <<pc, iteration, session, console, replay, clientVars>>

Signal ==
    /\ pc = "head" /\ ~shutdown /\ shutdown' = TRUE
    /\ UNCHANGED <<pc, iteration, session, console, viewer, replay,
                   opened, stream, asked, awaiting, received>>

Next == Server \/ ConsoleAsks \/ ConsoleEnds \/ HeartbeatExpires \/ Signal

Spec == Init /\ [][Next]_vars

\* The server's thread keeps running; clients, clock and operator owe nothing.
FairSpec == Spec /\ WF_vars(Server)
--------------------------------------------------------------------------------
(****************************************************************************)
(* Safety                                                                   *)
(****************************************************************************)

\* Every member keeps its type, also what waits in the queues.
TypeOK ==
    /\ pc \in {"head", "accept", "flush", "udp", "recv", "frames", "tick", "exited", "failed"}
    /\ iteration \in Nat /\ shutdown \in BOOLEAN
    /\ session \in Session
    /\ console \in Console /\ viewer \in Viewer
    /\ replay \in Cursor
    /\ stream \in Seq(Frame) /\ awaiting \in Seq(Nat)
    /\ opened \in Nat /\ asked \in Nat /\ received \in Nat

\* The facts of the mission survive everything the transport does with its
\* session: configure and start in one frame, a timeout and a tick in one call,
\* commands and a reset in one poll.
MissionConsistent == MissionFacts(session)

\* A heartbeat with the sender id 0 passes for the registered viewer's when none
\* is registered: the one way to be heard without an address.
HeardWithoutId == NoSender \in Senders /\ viewer.heard # "Never"

\* The connections the session reports are the ones the transport has: a
\* console is connected exactly while a sender id is bound, which takes an
\* accepted connection, and a display exactly while an endpoint is registered,
\* with one exception: a heartbeat with the id 0 after a timeout reconnects a
\* display that has no address.  In particular a new connection never inherits
\* the sender of the one before.
BindingsAgree ==
    /\ (console.sender # NoSender) = (session.connection["FireControlConsole"] \in Present)
    /\ console.sender # NoSender => console.link # "None"
    /\ viewer.endpoint # NoEndpoint => session.connection["TacticalDisplay"] \in Present
    /\ session.connection["TacticalDisplay"] \in Present =>
          viewer.endpoint # NoEndpoint \/ HeardWithoutId
    /\ viewer.endpoint # NoEndpoint => viewer.sender \in Senders
    /\ viewer.sender # NoSender => viewer.endpoint # NoEndpoint

\* Whether the i-th of what waits for v is a picture for its endpoint.
PictureQueued(v, i) == v.pending[i].to = v.endpoint /\ v.pending[i].sequence > 0

\* The viewer is never behind: after every handler, each snapshot of the list
\* has been queued for the registered endpoint or is older than the rewind at
\* its registration, also when a reset has shortened the list; the last picture
\* still queued for it is the newest, and no picture is queued when no viewer is
\* registered, at most answers to heartbeats with the id 0.  So
\* send_pending_snapshots never has two snapshots to send except at a registration,
\* and its coalescing for udp_send_latest_only has nothing to do.
DeliveryCurrent ==
    IF viewer.endpoint = NoEndpoint
    THEN /\ \A i \in 1 .. Len(viewer.pending) : viewer.pending[i].sequence = 0
         /\ NoSender \notin Senders => viewer.pending = <<>>
    ELSE /\ viewer.sent = session.snapshots
         /\ \A i \in 1 .. Len(viewer.pending) : PictureQueued(viewer, i) =>
               \/ viewer.pending[i].sequence = session.sequence
               \/ \E j \in i + 1 .. Len(viewer.pending) : PictureQueued(viewer, j)

\* Frames sent on the connection that no handler has taken yet.
Unread == console.buffer \o stream

\* A console matches answers to frames by their order alone: every frame that
\* parses has exactly one answer, on the connection it came on and in the order
\* of the frames.  What the console waits for is what is queued for it, then, in
\* the order they were sent, the frames the server has still to answer.
AnswersInOrder ==
    LET answered == Len(console.pending)
        open     == answered + 1 .. Len(awaiting)
        asking   == {k \in 1 .. Len(Unread) : Unread[k].req.kind # "malformed"}
    IN  IF console.link = "None" THEN awaiting = <<>>
        ELSE /\ answered <= Len(awaiting)
             /\ \A i \in 1 .. answered : awaiting[i] = console.pending[i].n
             /\ {awaiting[i] : i \in open} = {Unread[k].n : k \in asking}
             /\ \A i, j \in open : i < j => awaiting[i] < awaiting[j]
             /\ \A k, l \in 1 .. Len(Unread) : k < l => Unread[k].n < Unread[l].n

\* The review cursor is a place in the log of the present run: events[index] in
\* send_aar_response exists, and a reset leaves no cursor of the run before.
ReplayInLog ==
    /\ replay.total <= session.log.size
    /\ IF replay.total = 0 THEN replay.index = 0 ELSE replay.index < replay.total

--------------------------------------------------------------------------------
(****************************************************************************)
(* Action and liveness properties                                           *)
(****************************************************************************)

\* docs/aar.md: "step_forward advances from the current cursor".  When a cursor
\* exists and the answer moves it, it moves by one.
StepsFromCurrentCursor ==
    [][Processing("aar_request") /\ Current.req.control = "step_forward"
          /\ replay.total > 0 /\ replay'.index # replay.index
          => replay'.index = replay.index + 1]_vars

Silent == viewer.endpoint # NoEndpoint /\ viewer.heard = "Overdue"

\* A viewer that has fallen silent is released in every phase of the session, as
\* long as another turn of the loop is left: only a reset connection, or with
\* --run-forever a signal, may end the server before.
SilentViewerReleased ==
    Silent /\ iteration < TickLimit
        ~> ~Silent \/ pc = "failed" \/ (RunForever /\ shutdown)

\* A signal ends the run and archives it, whatever phase it is in and whatever
\* clients still send, unless there is nothing to archive (or a reset
\* connection has ended the server before).
SignalArchives ==
    shutdown ~> \/ pc = "failed"
                \/ pc = "exited" /\ session.phase = "Archived"
                \/ pc = "exited" /\ session.snapshots = 0 /\ session.log.size = 0
================================================================================
