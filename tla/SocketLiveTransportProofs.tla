----------------------- MODULE SocketLiveTransportProofs -----------------------
(****************************************************************************)
(* The mission's facts hold in the live server for every traffic: every set *)
(* of frames and datagrams, every loss, delay and duplication, and every    *)
(* bound.  The lemmas of SessionProofs say what an operation of the session *)
(* keeps; here the handlers are shown to call them only where they may, and *)
(* with what the wire carries in the types the operations want.             *)
(****************************************************************************)
EXTENDS SocketLiveTransport, SessionProofs, SequenceTheorems

\* The inductive invariant: the session, and the types of what the handlers
\* take out of the console's buffers.
Sound(s) == s \in Session /\ MissionFacts(s)

IInv == Sound(session) /\ console \in Console /\ stream \in Seq(Frame) /\ asked \in Nat

--------------------------------------------------------------------------------
(****************************************************************************)
(* Operations that leave the mission alone, and the ones that move it.      *)
(****************************************************************************)

\* A rejection by the transport is an event and nothing else.
LEMMA TransportRejectionSound ==
    ASSUME NEW s, Sound(s)
    PROVE  Sound(RecordTransportRejection(s))
<1>1. /\ PushEvent(s, "EngageOrderRejected") \in Session
      /\ SameRecord(s, PushEvent(s, "EngageOrderRejected"))
  BY PushEventType, PushEventSame DEF Sound, EventType
<1>2. QED
  BY <1>1, SameRecordFacts DEF Sound, RecordTransportRejection

\* A client that joins, leaves or times out does not touch the mission.
LEMMA ClientsSound ==
    ASSUME NEW s, Sound(s), NEW role \in ClientRole
    PROVE  /\ Sound(ConnectClient(s, role))
           /\ Sound(DisconnectClient(s, role))
           /\ Sound(TimeoutClient(s, role))
BY ClientOperationsType, ClientsSame, SameRecordFacts DEF Sound

\* configure and start in one frame keep the facts, from standby.
LEMMA ConfiguredStartSound ==
    ASSUME NEW s, Sound(s), s.phase = "Standby", NEW t \in EngagementTimeouts
    PROVE  Sound(StartScenario(ConfigureScenario(s, t)))
<1>1. Sound(ConfigureScenario(s, t))
  BY ConfigureScenarioType, ConfigureScenarioFacts DEF Sound
<1>2. QED
  BY <1>1, StartScenarioType, StartScenarioFacts DEF Sound

\* Commands, archive, reset and tick keep the facts.
LEMMA OperationsSound ==
    ASSUME NEW s, Sound(s)
    PROVE  /\ Sound(RequestTrack(s)) /\ Sound(ReleaseTrack(s))
           /\ Sound(ActivateAsset(s)) /\ Sound(IssueCommand(s))
           /\ Sound(ArchiveSession(s)) /\ Sound(ResetSession(s))
           /\ \A hit, inFov \in BOOLEAN : Sound(AdvanceTick(s, hit, inFov))
<1>1. Sound(RequestTrack(s)) /\ Sound(ReleaseTrack(s))
  BY TrackCommandsType, TrackCommandsFacts DEF Sound
<1>2. Sound(ActivateAsset(s)) /\ Sound(IssueCommand(s))
  BY ActivateAssetType, ActivateAssetFacts, IssueCommandType, IssueCommandFacts DEF Sound
<1>3. Sound(ArchiveSession(s)) /\ Sound(ResetSession(s))
  BY ArchiveSessionType, ArchiveSessionFacts, ResetSessionType, ResetSessionFacts DEF Sound
<1>4. \A hit, inFov \in BOOLEAN : Sound(AdvanceTick(s, hit, inFov))
  BY AdvanceTickType, AdvanceTickFacts DEF Sound
<1>5. QED
  BY <1>1, <1>2, <1>3, <1>4

--------------------------------------------------------------------------------
(****************************************************************************)
(* The console's record                                                     *)
(****************************************************************************)

\* What a flush leaves of a queue is a queue.
LEMMA RestType ==
    ASSUME NEW S, NEW queue \in Seq(S), NEW k \in Nat
    PROVE  Rest(queue, k) \in Seq(S)
<1>1. k + 1 \in Int /\ Len(queue) \in Int
  OBVIOUS
<1>2. \A i \in k + 1 .. Len(queue) : queue[i] \in S
  OBVIOUS
<1>3. QED
  BY <1>1, <1>2, SubSeqProperties DEF Rest

\* An answer to a frame of the buffer keeps the console's type.
LEMMA RepliedType ==
    ASSUME NEW con \in Console, NEW n \in Nat, NEW accepted \in BOOLEAN
    PROVE  Replied(con, n, accepted) \in Console
<1>1. [n |-> n, accepted |-> accepted] \in Answer
  BY DEF Answer
<1>2. Append(con.pending, [n |-> n, accepted |-> accepted]) \in Seq(Answer)
  BY <1>1 DEF Console
<1>3. QED
  BY <1>2 DEF Replied, Console

\* The frame being processed is a frame, and taking it leaves a console.
LEMMA TakenType ==
    ASSUME console \in Console, console.buffer # <<>>
    PROVE  Current \in Frame /\ Taken \in Console
<1>1. console.buffer \in Seq(Frame)
  BY DEF Console
<1>2. Head(console.buffer) \in Frame /\ Tail(console.buffer) \in Seq(Frame)
  BY <1>1, HeadTailProperties
<1>3. QED
  BY <1>2 DEF Current, Taken, Console

\* A console that is gone is a console record.
LEMMA NoConsoleType == NoConsole \in Console
<1>1. <<>> \in Seq(Frame) /\ <<>> \in Seq(Answer)
  OBVIOUS
<1>2. QED
  BY <1>1 DEF NoConsole, Console

--------------------------------------------------------------------------------
(****************************************************************************)
(* The invariant                                                            *)
(****************************************************************************)

\* The server starts with it.
LEMMA InitIInv == Init => IInv
<1> SUFFICES ASSUME Init PROVE IInv
  OBVIOUS
<1>1. PICK t \in EngagementTimeouts : session = NewSession(t)
  BY DEF Init
<1>2. Sound(session)
  BY <1>1, NewSessionType, NewSessionFacts DEF Sound
<1>3. console \in Console
  BY NoConsoleType DEF Init
<1>4. stream \in Seq(Frame) /\ asked \in Nat
  BY DEF Init
<1>5. QED
  BY <1>2, <1>3, <1>4 DEF IInv

\* A refused frame is answered and logged.
LEMMA RefuseFrameIInv ==
    ASSUME IInv, console.buffer # <<>>, RefuseFrame
    PROVE  Sound(session') /\ console' \in Console
<1>1. Current.n \in Nat /\ Taken \in Console
  BY TakenType DEF IInv, Frame
<1>2. console' \in Console
  BY <1>1, RepliedType DEF RefuseFrame
<1>3. QED
  BY <1>2, TransportRejectionSound DEF IInv, RefuseFrame

\* Reading keeps it.
LEMMA ReadingIInv ==
    ASSUME IInv, NothingToRead \/ ReadStream \/ ReadEndOfStream \/ ReadFailure
    PROVE  IInv'
<1>1. CASE NothingToRead \/ ReadFailure
  BY <1>1 DEF IInv, NothingToRead, ReadFailure, clientVars
<1>2. CASE ReadStream
  <2>1. console.buffer \in Seq(Frame)
    BY DEF IInv, Console
  <2>2. console.buffer \o stream \in Seq(Frame)
    BY <2>1, ConcatProperties DEF IInv
  <2>3. console' \in Console
    BY <1>2, <2>2 DEF IInv, ReadStream, Console
  <2>4. stream' \in Seq(Frame) /\ asked' \in Nat /\ session' = session
    BY <1>2 DEF IInv, ReadStream
  <2>5. QED
    BY <2>3, <2>4 DEF IInv
<1>3. CASE ReadEndOfStream
  <2>1. console' \in Console /\ stream' \in Seq(Frame) /\ asked' \in Nat
    BY <1>3, NoConsoleType DEF IInv, ReadEndOfStream, DisconnectConsole, ConsoleDisconnected
  <2>2. Sound(session')
    BY <1>3, ClientsSound DEF IInv, ReadEndOfStream, DisconnectConsole, ClientRole
  <2>3. QED
    BY <2>1, <2>2 DEF IInv
<1>4. QED
  BY <1>1, <1>2, <1>3

\* Datagrams, connections, flushes and ticks keep it.
LEMMA PollIInv ==
    ASSUME IInv,
           \/ BeginPoll \/ RefuseConnection \/ AcceptConnection \/ NobodyConnects
           \/ FlushBeforeReading \/ ReceiveDatagram \/ DatagramsDone
           \/ FlushAfterReading \/ Tick \/ LoopEnd
    PROVE  IInv'
<1>1. CASE BeginPoll \/ NobodyConnects \/ DatagramsDone
  BY <1>1 DEF IInv, BeginPoll, NobodyConnects, DatagramsDone, clientVars
<1>2. CASE RefuseConnection
  BY <1>2, TransportRejectionSound DEF IInv, RefuseConnection
<1>3. CASE AcceptConnection
  <2>1. console' \in Console
    BY <1>3 DEF IInv, AcceptConnection, Console
  <2>2. QED
    BY <1>3, <2>1 DEF IInv, AcceptConnection
<1>4. CASE FlushBeforeReading \/ FlushAfterReading
  <2>1. /\ FlushUnchanged
        /\ \/ UNCHANGED console
           \/ \E k \in 0 .. Len(console.pending) :
                 console' = [console EXCEPT !.pending = Rest(@, k)]
    BY <1>4 DEF FlushBeforeReading, FlushAfterReading, FlushThen
  <2>2. ASSUME NEW k \in 0 .. Len(console.pending),
               console' = [console EXCEPT !.pending = Rest(@, k)]
        PROVE  console' \in Console
    <3>1. console.pending \in Seq(Answer)
      BY DEF IInv, Console
    <3>2. Rest(console.pending, k) \in Seq(Answer)
      BY <3>1, RestType
    <3>3. QED
      BY <2>2, <3>2 DEF IInv, Console
  <2>3. QED
    BY <2>1, <2>2 DEF IInv, FlushUnchanged
<1>5. CASE ReceiveDatagram
  <2>1. \/ session' = session
        \/ session' = RecordTransportRejection(session)
        \/ session' = ConnectClient(session, "TacticalDisplay")
    BY <1>5 DEF ReceiveDatagram, ViewerJoin, DisplayHeartbeat, ViewerAlive
  <2>2. Sound(session')
    BY <2>1, TransportRejectionSound, ClientsSound DEF IInv, ClientRole
  <2>3. QED
    BY <1>5, <2>2 DEF IInv, ReceiveDatagram
<1>6. CASE Tick
  <2>1. PICK hit \in BOOLEAN, inFov \in BOOLEAN :
           session' = AdvanceTick(IF HeartbeatOverdue
                                  THEN TimeoutClient(session, "TacticalDisplay")
                                  ELSE session, hit, inFov)
    BY <1>6 DEF Tick
  <2>2. Sound(IF HeartbeatOverdue THEN TimeoutClient(session, "TacticalDisplay") ELSE session)
    BY ClientsSound DEF IInv, ClientRole
  <2>3. Sound(session')
    BY <2>1, <2>2, OperationsSound
  <2>4. QED
    BY <1>6, <2>3 DEF IInv, Tick, clientVars
<1>7. CASE LoopEnd
  <2>1. Sound(session')
    BY <1>7, OperationsSound DEF IInv, LoopEnd
  <2>2. QED
    BY <1>7, <2>1 DEF IInv, LoopEnd, clientVars
<1>8. QED
  BY <1>1, <1>2, <1>3, <1>4, <1>5, <1>6, <1>7

\* Every frame keeps it.
LEMMA FramesIInv ==
    ASSUME IInv,
           \/ SessionJoin \/ SessionLeave \/ ScenarioStart \/ ScenarioStop \/ ScenarioReset
           \/ TrackAcquire \/ TrackDrop \/ InterceptorReady \/ EngageOrder
           \/ AarRequest \/ MalformedAarRequest \/ MalformedFrame
    PROVE  IInv'
<1>1. console.buffer # <<>>
  BY DEF SessionJoin, SessionLeave, ScenarioStart, ScenarioStop, ScenarioReset, MissionCommand,
         TrackAcquire, TrackDrop, InterceptorReady, EngageOrder, AarRequest,
         MalformedAarRequest, MalformedFrame, Processing
<1>2. Current \in Frame /\ Taken \in Console
  BY <1>1, TakenType DEF IInv
<1>3. Current.n \in Nat /\ Current.req \in Request
  BY <1>2 DEF Frame
<1>4. \A accepted \in BOOLEAN : Replied(Taken, Current.n, accepted) \in Console
  BY <1>2, <1>3, RepliedType
<1>5. RefuseFrame => Sound(session') /\ console' \in Console
  BY <1>1, RefuseFrameIInv
<1>6. FrameUnchanged /\ ConnectionUnchanged => stream' \in Seq(Frame) /\ asked' \in Nat
  BY DEF IInv, FrameUnchanged, ConnectionUnchanged
<1>7. \A t : Accepted(session, t) \in BOOLEAN
  BY DEF Accepted
<1>8. ASSUME NEW kind, NEW outcome, Sound(outcome), MissionCommand(kind, outcome)
      PROVE  IInv'
  <2>1. Sound(session') /\ console' \in Console
    BY <1>4, <1>5, <1>7, <1>8 DEF MissionCommand
  <2>2. QED
    BY <1>6, <1>8, <2>1 DEF MissionCommand, IInv
<1>9. CASE SessionJoin
  <2>1. [Taken EXCEPT !.sender = Current.req.sender] \in Console
    BY <1>2, <1>3 DEF Console, Request
  <2>2. Replied([Taken EXCEPT !.sender = Current.req.sender], Current.n, TRUE) \in Console
    BY <1>3, <2>1, RepliedType
  <2>3. Sound(session') /\ console' \in Console
    BY <1>5, <1>9, <2>2, ClientsSound DEF SessionJoin, IInv, ClientRole
  <2>4. QED
    BY <1>6, <1>9, <2>3 DEF SessionJoin, IInv
<1>10. CASE SessionLeave
  <2>1. asked' \in Nat
    BY <1>10 DEF SessionLeave, IInv
  <2>2. Sound(DisconnectClient(session, "FireControlConsole"))
    BY ClientsSound DEF IInv, ClientRole
  <2>3. DisconnectConsole => Sound(session') /\ console' \in Console /\ stream' \in Seq(Frame)
    BY <2>2, NoConsoleType DEF DisconnectConsole, ConsoleDisconnected, IInv
  <2>4. Sound(session') /\ console' \in Console
    BY <1>4, <1>5, <1>10, <2>3, TransportRejectionSound DEF SessionLeave, IInv
  <2>5. stream' \in Seq(Frame)
    BY <1>10, <2>3 DEF SessionLeave, ConnectionUnchanged, IInv
  <2>6. QED
    BY <2>1, <2>4, <2>5 DEF IInv
<1>11. CASE ScenarioStart
  <2>1. Current.req.timeout \in EngagementTimeouts
    BY <1>3 DEF Request
  <2>2. session.phase = "Standby" =>
           Sound(StartScenario(ConfigureScenario(session, Current.req.timeout)))
    BY <2>1, ConfiguredStartSound DEF IInv
  <2>3. Sound(session') /\ console' \in Console
    BY <1>4, <1>5, <1>7, <1>11, <2>2 DEF ScenarioStart
  <2>4. QED
    BY <1>6, <1>11, <2>3 DEF ScenarioStart, IInv
<1>12. CASE ScenarioStop
  <2>1. Sound(session') /\ console' \in Console
    BY <1>4, <1>5, <1>12, OperationsSound DEF ScenarioStop, IInv
  <2>2. QED
    BY <1>6, <1>12, <2>1 DEF ScenarioStop, IInv
<1>13. CASE ScenarioReset
  <2>1. Sound(session') /\ console' \in Console
    BY <1>4, <1>5, <1>13, OperationsSound DEF ScenarioReset, IInv
  <2>2. QED
    BY <1>6, <1>13, <2>1 DEF ScenarioReset, IInv
<1>14. CASE TrackAcquire \/ TrackDrop \/ InterceptorReady \/ EngageOrder
  <2>1. /\ Sound(RequestTrack(session)) /\ Sound(ReleaseTrack(session))
        /\ Sound(ActivateAsset(session)) /\ Sound(IssueCommand(session))
    BY OperationsSound DEF IInv
  <2>2. QED
    BY <1>8, <1>14, <2>1 DEF TrackAcquire, TrackDrop, InterceptorReady, EngageOrder
<1>15. CASE AarRequest
  <2>1. Sound(session') /\ console' \in Console
    BY <1>4, <1>5, <1>15 DEF AarRequest, IInv
  <2>2. QED
    BY <1>6, <1>15, <2>1 DEF AarRequest, IInv
<1>16. CASE MalformedAarRequest
  BY <1>4, <1>6, <1>16 DEF MalformedAarRequest, IInv
<1>17. CASE MalformedFrame
  BY <1>2, <1>6, <1>17, TransportRejectionSound DEF MalformedFrame, IInv
<1>18. QED
  BY <1>9, <1>10, <1>11, <1>12, <1>13, <1>14, <1>15, <1>16, <1>17

\* What clients, the clock and the operator do keeps it.
LEMMA EnvironmentIInv ==
    ASSUME IInv, ConsoleAsks \/ ConsoleEnds \/ HeartbeatExpires \/ Signal
    PROVE  IInv'
<1>1. CASE ConsoleAsks
  <2>1. PICK r \in Requests : stream' = Append(stream, [n |-> asked', req |-> r])
    BY <1>1 DEF ConsoleAsks
  <2>2. asked' \in Nat /\ session' = session /\ console' = console
    BY <1>1 DEF ConsoleAsks, IInv
  <2>3. [n |-> asked', req |-> r] \in Frame
    BY <2>2, TrafficTyped DEF Frame
  <2>4. stream' \in Seq(Frame)
    BY <2>1, <2>3 DEF IInv
  <2>5. QED
    BY <2>2, <2>4 DEF IInv
<1>2. CASE ConsoleEnds
  <2>1. console' \in Console
    BY <1>2 DEF ConsoleEnds, IInv, Console
  <2>2. QED
    BY <1>2, <2>1 DEF ConsoleEnds, IInv, clientVars
<1>3. CASE HeartbeatExpires \/ Signal
  BY <1>3 DEF HeartbeatExpires, Signal, IInv, clientVars
<1>4. QED
  BY <1>1, <1>2, <1>3

\* The inductive invariant holds throughout.
LEMMA SpecIInv == Spec => []IInv
<1>1. ASSUME IInv, UNCHANGED vars PROVE IInv'
  BY <1>1 DEF IInv, vars, clientVars
<1>2. IInv /\ [Next]_vars => IInv'
  BY <1>1, ReadingIInv, PollIInv, FramesIInv, EnvironmentIInv DEF Next, Server
<1>3. QED
  BY <1>2, InitIInv, PTL DEF Spec

\* Under every traffic and every interleaving of clients, clock and server, phase,
\* order, weapon, verdict, seeker and log of the live session agree, and no order
\* that no rejection spoilt outlives its timeout.
THEOREM MissionSound == Spec => []MissionConsistent
<1>1. IInv => MissionConsistent
  BY DEF IInv, Sound, MissionConsistent
<1>2. QED
  BY <1>1, SpecIInv, PTL

--------------------------------------------------------------------------------
(****************************************************************************)
(* The transport's own invariants: types, bindings and the review cursor.   *)
(****************************************************************************)

\* Where the loop is, and what is counted.
ControlType ==
    /\ pc \in {"head", "accept", "flush", "udp", "recv", "frames", "tick", "exited", "failed"}
    /\ iteration \in Nat /\ shutdown \in BOOLEAN
    /\ awaiting \in Seq(Nat) /\ opened \in Nat /\ received \in Nat

\* The loop and the counters keep their types.
LEMMA ControlTypeNext ==
    ASSUME ControlType, console \in Console, asked' \in Nat, Next \/ UNCHANGED vars
    PROVE  ControlType'
<1>1. CASE UNCHANGED vars
  BY <1>1 DEF ControlType, vars, clientVars
<1>2. CASE \/ BeginPoll \/ RefuseConnection \/ AcceptConnection \/ NobodyConnects
           \/ ReceiveDatagram \/ DatagramsDone \/ NothingToRead \/ ReadStream \/ ReadFailure
           \/ Tick \/ LoopEnd
  BY <1>2 DEF ControlType, BeginPoll, RefuseConnection, AcceptConnection, NobodyConnects,
              ReceiveDatagram, DatagramsDone, NothingToRead, ReadStream, ReadFailure,
              Tick, LoopEnd, clientVars
<1>3. CASE FlushBeforeReading \/ FlushAfterReading
  <2>1. \A k \in Nat : Rest(awaiting, k) \in Seq(Nat)
    BY RestType DEF ControlType
  <2>2. Len(console.pending) \in Nat
    BY DEF Console
  <2>3. \/ UNCHANGED awaiting /\ pc' = "failed"
        \/ /\ \E k \in 0 .. Len(console.pending) : awaiting' = Rest(awaiting, k)
           /\ pc' \in {"udp", "tick"}
    BY <1>3 DEF FlushBeforeReading, FlushAfterReading, FlushThen
  <2>4. awaiting' \in Seq(Nat)
    BY <2>1, <2>2, <2>3 DEF ControlType
  <2>5. QED
    BY <1>3, <2>3, <2>4
    DEF ControlType, FlushBeforeReading, FlushAfterReading, FlushUnchanged
<1>4. CASE ReadEndOfStream \/ SessionLeave
  <2>1. awaiting' = <<>> \/ awaiting' = awaiting
    BY <1>4 DEF ReadEndOfStream, SessionLeave, DisconnectConsole, ConnectionUnchanged
  <2>2. awaiting \in Seq(Nat) /\ <<>> \in Seq(Nat)
    BY DEF ControlType
  <2>3. awaiting' \in Seq(Nat)
    BY <2>1, <2>2
  <2>4. QED
    BY <1>4, <2>3 DEF ControlType, ReadEndOfStream, SessionLeave
<1>5. CASE \/ SessionJoin \/ ScenarioStart \/ ScenarioStop \/ ScenarioReset
           \/ TrackAcquire \/ TrackDrop \/ InterceptorReady \/ EngageOrder
           \/ AarRequest \/ MalformedAarRequest \/ MalformedFrame
  <2>1. FrameUnchanged /\ ConnectionUnchanged
    BY <1>5 DEF SessionJoin, ScenarioStart, ScenarioStop, ScenarioReset, TrackAcquire,
                TrackDrop, InterceptorReady, EngageOrder, MissionCommand, AarRequest,
                MalformedAarRequest, MalformedFrame
  <2>2. QED
    BY <2>1 DEF ControlType, FrameUnchanged, ConnectionUnchanged
<1>6. CASE ConsoleAsks
  <2>1. awaiting' = awaiting \/ awaiting' = Append(awaiting, asked')
    BY <1>6 DEF ConsoleAsks
  <2>2. awaiting \in Seq(Nat) /\ Append(awaiting, asked') \in Seq(Nat)
    BY DEF ControlType
  <2>3. awaiting' \in Seq(Nat)
    BY <2>1, <2>2
  <2>4. QED
    BY <1>6, <2>3 DEF ControlType, ConsoleAsks
<1>7. CASE ConsoleEnds \/ HeartbeatExpires \/ Signal
  BY <1>7 DEF ControlType, ConsoleEnds, HeartbeatExpires, Signal, clientVars
<1>8. QED
  BY <1>1, <1>2, <1>3, <1>4, <1>5, <1>6, <1>7 DEF Next, Server

--------------------------------------------------------------------------------
(****************************************************************************)
(* Delivery keeps the binding                                               *)
(****************************************************************************)

SameBinding(v, w) ==
    /\ w.endpoint = v.endpoint /\ w.sender = v.sender
    /\ v.heard # "Never" => w.heard # "Never"

\* The delivery cursor and the queue move, the binding does not; a number that
\* is sent is a number of the list, as the list is never longer than the count.
LEMMA SendPendingSnapshotsType ==
    ASSUME NEW v \in Viewer, NEW s \in Session, s.snapshots <= s.sequence
    PROVE  /\ SendPendingSnapshots(v, s) \in Viewer
           /\ SameBinding(v, SendPendingSnapshots(v, s))
<1> DEFINE count == Smaller(s.snapshots - v.sent, UdpMaxBatchSnapshots)
           first == s.sequence - s.snapshots + v.sent
           picture(n) == [sequence |-> n, to |-> v.endpoint]
           batch == [i \in 1 .. count |-> picture(first + i)]
<1>1. /\ s.snapshots \in Nat /\ s.sequence \in Nat /\ v.sent \in Nat
      /\ v.pending \in Seq(Outgoing) /\ v.endpoint \in Endpoints \cup {NoEndpoint}
  BY DEF Viewer, Session
<1>2. CASE v.endpoint = NoEndpoint \/ v.sent >= s.snapshots
  BY <1>2 DEF SendPendingSnapshots, SameBinding
<1>3. CASE v.endpoint # NoEndpoint /\ v.sent < s.snapshots
  <2>1. v.endpoint \in Endpoints /\ UdpMaxBatchSnapshots \in Nat
    BY <1>1, <1>3, BatchPositive
  <2>2. count \in Nat /\ first \in Nat
    BY <1>1, <1>3, <2>1 DEF Smaller
  <2>3. \A n \in Nat : picture(n) \in Outgoing
    BY <2>1 DEF Outgoing
  <2> HIDE DEF picture
  <2>4. \A i \in 1 .. count : picture(first + i) \in Outgoing
    BY <2>2, <2>3
  <2>5. batch \in Seq(Outgoing)
    BY <2>2, <2>4
  <2>6. v.pending \o batch \in Seq(Outgoing) /\ <<picture(s.sequence)>> \in Seq(Outgoing)
    BY <1>1, <2>3, <2>5, ConcatProperties
  <2>7. v.sent + count \in Nat
    BY <1>1, <2>2
  <2> HIDE DEF batch, count, first
  <2>8. \A q \in Seq(Outgoing), k \in Nat :
           /\ [v EXCEPT !.pending = q, !.sent = k] \in Viewer
           /\ SameBinding(v, [v EXCEPT !.pending = q, !.sent = k])
    BY DEF Viewer, SameBinding
  <2>9. SendPendingSnapshots(v, s) \in
           {[v EXCEPT !.pending = <<picture(s.sequence)>>, !.sent = s.snapshots],
            [v EXCEPT !.pending = v.pending \o batch, !.sent = v.sent + count]}
    BY <1>1, <1>3 DEF SendPendingSnapshots, batch, count, first, picture, Viewer
  <2>10. QED
    BY <1>1, <2>6, <2>7, <2>8, <2>9
<1>4. QED
  BY <1>1, <1>2, <1>3

\* The rewind at a registration or a reset stays inside the list.
LEMMA ResetViewerDeliveryCursorType ==
    ASSUME NEW v \in Viewer, NEW s \in Session
    PROVE  /\ ResetViewerDeliveryCursor(v, s) \in Viewer
           /\ SameBinding(v, ResetViewerDeliveryCursor(v, s))
<1> DEFINE rewind == IF UdpSendLatestOnly THEN 1 ELSE Smaller(s.snapshots, UdpMaxBatchSnapshots)
           sent == IF s.snapshots = 0 THEN 0 ELSE s.snapshots - rewind
<1>1. sent \in Nat
  BY BatchPositive DEF Session, Smaller
<1>2. ResetViewerDeliveryCursor(v, s) = [v EXCEPT !.sent = sent]
  BY DEF ResetViewerDeliveryCursor
<1> HIDE DEF sent
<1>3. QED
  BY <1>1, <1>2 DEF Viewer, SameBinding

--------------------------------------------------------------------------------
(****************************************************************************)
(* Bindings and review cursor                                               *)
(****************************************************************************)

Numbered(s) == s.snapshots <= s.sequence

\* A place in a log of that size.
InLog(cursor, size) ==
    /\ cursor.total <= size
    /\ IF cursor.total = 0 THEN cursor.index = 0 ELSE cursor.index < cursor.total

\* The second inductive invariant, on top of IInv.
TInv == /\ viewer \in Viewer /\ replay \in Cursor /\ Numbered(session)
        /\ BindingsAgree /\ InLog(replay, session.log.size)

\* A steady change keeps the list no longer than the count of snapshots.
LEMMA SteadyNumbered ==
    ASSUME NEW s \in Session, NEW t \in Session, Steady(s, t), Numbered(s)
    PROVE  Numbered(t)
BY DEF Steady, Numbered, Session

\* resolve_replay_cursor yields a place in the present log, whatever is asked.
LEMMA ResolveReplayCursorInLog ==
    ASSUME NEW cursor \in Cursor, NEW total \in Nat, InLog(cursor, total),
           NEW control \in AarControl, NEW requested \in Nat
    PROVE  LET resolved == ResolveReplayCursor(cursor, total, control, requested)
           IN  resolved \in Cursor /\ InLog(resolved, total)
<1> DEFINE seed == SeedCursor(cursor, total, requested)
<1>1. \A t \in Nat, r \in Nat :
         /\ MakeReplayCursor(t, r) \in Cursor /\ MakeReplayCursor(t, r).total = t
         /\ InLog(MakeReplayCursor(t, r), t)
  BY DEF MakeReplayCursor, NoCursor, Cursor, InLog
<1>2. seed \in Cursor /\ seed.total = total /\ InLog(seed, total)
  BY <1>1 DEF SeedCursor
<1> HIDE DEF seed
<1>3. /\ JumpTo(seed, requested) \in Cursor /\ InLog(JumpTo(seed, requested), total)
  BY <1>1, <1>2 DEF JumpTo
<1>4. StepForward(seed) \in Cursor /\ InLog(StepForward(seed), total)
  BY <1>2 DEF StepForward, Cursor, InLog
<1>5. StepBackward(seed) \in Cursor /\ InLog(StepBackward(seed), total)
  BY <1>2 DEF StepBackward, Cursor, InLog
<1>6. QED
  BY <1>3, <1>4, <1>5 DEF ResolveReplayCursor, AarControl, seed

\* An answer changes neither the connection nor the sender.
LEMMA RepliedKeeps ==
    ASSUME NEW con \in Console, NEW n, NEW accepted
    PROVE  /\ Replied(con, n, accepted).link = con.link
           /\ Replied(con, n, accepted).sender = con.sender
BY DEF Replied, Console

\* Taking a frame changes neither the connection nor the sender.
LEMMA TakenKeeps ==
    ASSUME console \in Console
    PROVE  Taken.link = console.link /\ Taken.sender = console.sender
BY DEF Taken, Console

\* A buffer with frames belongs to a connection.
LinkInv == console.buffer # <<>> => console.link # "None"

\* The buffer goes with its connection.
LEMMA LinkInvNext ==
    ASSUME IInv, LinkInv, Next \/ UNCHANGED vars
    PROVE  LinkInv'
<1>0. console \in Console
  BY DEF IInv
<1>1. CASE UNCHANGED console
  BY <1>1 DEF LinkInv
<1>2. CASE \/ BeginPoll \/ RefuseConnection \/ NobodyConnects \/ ReceiveDatagram
           \/ DatagramsDone \/ NothingToRead \/ ReadFailure \/ Tick \/ LoopEnd
           \/ ConsoleAsks \/ HeartbeatExpires \/ Signal \/ UNCHANGED vars
  <2>1. UNCHANGED console
    BY <1>2 DEF BeginPoll, RefuseConnection, NobodyConnects, ReceiveDatagram, DatagramsDone,
                NothingToRead, ReadFailure, Tick, LoopEnd, ConsoleAsks, HeartbeatExpires,
                Signal, vars
  <2>2. QED
    BY <1>1, <2>1
<1>3. CASE AcceptConnection \/ ReadStream \/ ConsoleEnds
  BY <1>0, <1>3 DEF LinkInv, AcceptConnection, ReadStream, ConsoleEnds, Console
<1>4. CASE FlushBeforeReading \/ FlushAfterReading
  <2>1. \/ console' = console
        \/ \E k \in 0 .. Len(console.pending) :
              console' = [console EXCEPT !.pending = Rest(@, k)]
    BY <1>4 DEF FlushBeforeReading, FlushAfterReading, FlushThen
  <2>2. QED
    BY <1>0, <2>1 DEF LinkInv, Console
<1>5. CASE ReadEndOfStream
  BY <1>5 DEF LinkInv, ReadEndOfStream, DisconnectConsole, ConsoleDisconnected, NoConsole
<1>6. CASE \/ SessionJoin \/ SessionLeave \/ ScenarioStart \/ ScenarioStop \/ ScenarioReset
           \/ TrackAcquire \/ TrackDrop \/ InterceptorReady \/ EngageOrder
           \/ AarRequest \/ MalformedAarRequest \/ MalformedFrame
  <2>1. console.buffer # <<>>
    BY <1>6 DEF SessionJoin, SessionLeave, ScenarioStart, ScenarioStop, ScenarioReset,
                MissionCommand, TrackAcquire, TrackDrop, InterceptorReady, EngageOrder,
                AarRequest, MalformedAarRequest, MalformedFrame, Processing
  <2>2. console.link # "None" /\ Taken \in Console /\ Taken.link = console.link
    BY <1>0, <2>1, TakenType, TakenKeeps DEF LinkInv
  <2>3. \/ console' = console \/ console' = Taken \/ console' = NoConsole
        \/ \E n, accepted : console' = Replied(Taken, n, accepted)
        \/ \E id, n, accepted : console' = Replied([Taken EXCEPT !.sender = id], n, accepted)
    BY <1>6 DEF SessionJoin, SessionLeave, ScenarioStart, ScenarioStop, ScenarioReset,
                MissionCommand, TrackAcquire, TrackDrop, InterceptorReady, EngageOrder,
                AarRequest, MalformedAarRequest, MalformedFrame, RefuseFrame,
                DisconnectConsole, ConsoleDisconnected
  <2>4. \A n, accepted : Replied(Taken, n, accepted).link = console.link
    BY <2>2, RepliedKeeps
  <2>5. \A id, n, accepted :
           Replied([Taken EXCEPT !.sender = id], n, accepted).link = console.link
    BY <2>2 DEF Replied, Console
  <2>6. NoConsole.buffer = <<>>
    BY DEF NoConsole
  <2>7. CASE console' = console \/ console' = Taken \/ console' = NoConsole
    BY <2>2, <2>6, <2>7 DEF LinkInv
  <2>8. ASSUME NEW n, NEW accepted, console' = Replied(Taken, n, accepted)
        PROVE  LinkInv'
    BY <2>2, <2>4, <2>8 DEF LinkInv
  <2>9. ASSUME NEW id, NEW n, NEW accepted,
               console' = Replied([Taken EXCEPT !.sender = id], n, accepted)
        PROVE  LinkInv'
    BY <2>2, <2>5, <2>9 DEF LinkInv
  <2>10. QED
    BY <2>3, <2>7, <2>8, <2>9
<1>7. QED
  BY <1>2, <1>3, <1>4, <1>5, <1>6 DEF Next, Server

SameLink(con, new) ==
    new.sender = con.sender /\ (con.link # "None" => new.link # "None")

\* A step that is steady for the session and keeps both bindings keeps the invariant.
LEMMA SteadyStep ==
    ASSUME IInv, TInv, session' \in Session, Steady(session, session'),
           SameLink(console, console'), viewer' \in Viewer, SameBinding(viewer, viewer'),
           replay' = replay
    PROVE  TInv'
<1>1. Numbered(session')
  BY SteadyNumbered DEF IInv, Sound, TInv
<1>2. InLog(replay', session'.log.size)
  BY DEF TInv, IInv, Sound, InLog, Steady, Cursor, Session, EventLog
<1>3. /\ (session'.connection["FireControlConsole"] \in Present)
            = (session.connection["FireControlConsole"] \in Present)
      /\ (session'.connection["TacticalDisplay"] \in Present)
            = (session.connection["TacticalDisplay"] \in Present)
  BY DEF Steady, SamePresence, ClientRole
<1>4. BindingsAgree'
  BY <1>3 DEF TInv, BindingsAgree, HeardWithoutId, SameLink, SameBinding
<1>5. QED
  BY <1>1, <1>2, <1>4 DEF TInv

\* A session that stays as it is is steady.
LEMMA SteadyItself ==
    ASSUME NEW s \in Session
    PROVE  Steady(s, s)
BY OtherFieldsSteady

\* Steps that do not call the session.
LEMMA IdleTInv ==
    ASSUME IInv, TInv,
           \/ BeginPoll \/ NobodyConnects \/ AcceptConnection
           \/ FlushBeforeReading \/ DatagramsDone
           \/ NothingToRead \/ ReadStream \/ ReadFailure \/ FlushAfterReading
           \/ ConsoleAsks \/ ConsoleEnds \/ HeartbeatExpires \/ Signal
    PROVE  TInv'
<1>1. session' = session /\ replay' = replay
  BY DEF BeginPoll, NobodyConnects, AcceptConnection, FlushBeforeReading, DatagramsDone,
         NothingToRead, ReadStream, ReadFailure, FlushAfterReading, FlushUnchanged,
         ConsoleAsks, ConsoleEnds, HeartbeatExpires, Signal, clientVars
<1>2. SameLink(console, console')
  <2>1. CASE \/ BeginPoll \/ NobodyConnects \/ DatagramsDone \/ NothingToRead \/ ReadFailure
             \/ ConsoleAsks \/ HeartbeatExpires \/ Signal
    BY <2>1 DEF BeginPoll, NobodyConnects, DatagramsDone, NothingToRead, ReadFailure,
                ConsoleAsks, HeartbeatExpires, Signal, SameLink
  <2>2. CASE AcceptConnection \/ ReadStream \/ ConsoleEnds
    BY <2>2 DEF AcceptConnection, ReadStream, ConsoleEnds, SameLink, IInv, Console
  <2>3. CASE FlushBeforeReading \/ FlushAfterReading
    <3>1. \/ console' = console
          \/ \E k \in 0 .. Len(console.pending) :
                console' = [console EXCEPT !.pending = Rest(@, k)]
      BY <2>3 DEF FlushBeforeReading, FlushAfterReading, FlushThen
    <3>2. QED
      BY <3>1 DEF SameLink, IInv, Console
  <2>4. QED
    BY <2>1, <2>2, <2>3
<1>3. viewer' \in Viewer /\ SameBinding(viewer, viewer')
  <2>1. CASE \/ BeginPoll \/ NobodyConnects \/ DatagramsDone \/ NothingToRead \/ ReadFailure
             \/ ConsoleAsks \/ Signal \/ AcceptConnection \/ ReadStream \/ ConsoleEnds
    BY <2>1 DEF BeginPoll, NobodyConnects, DatagramsDone, NothingToRead, ReadFailure,
                ConsoleAsks, Signal, AcceptConnection, ReadStream, ConsoleEnds,
                SameBinding, TInv
  <2>2. CASE HeartbeatExpires
    BY <2>2 DEF HeartbeatExpires, SameBinding, TInv, Viewer
  <2>3. CASE FlushBeforeReading \/ FlushAfterReading
    <3>1. viewer.pending \in Seq(Outgoing)
      BY DEF TInv, Viewer
    <3>2. \/ viewer' = viewer
          \/ \E j \in 0 .. Len(viewer.pending) :
                viewer' = [viewer EXCEPT !.pending = Rest(@, j)]
      BY <2>3 DEF FlushBeforeReading, FlushAfterReading, FlushThen
    <3>3. \A j \in 0 .. Len(viewer.pending) : Rest(viewer.pending, j) \in Seq(Outgoing)
      BY <3>1, RestType
    <3>4. QED
      BY <3>2, <3>3 DEF SameBinding, TInv, Viewer
  <2>4. QED
    BY <2>1, <2>2, <2>3
<1>4. session' \in Session /\ Steady(session, session')
  BY <1>1, SteadyItself DEF IInv, Sound
<1>5. QED
  BY <1>1, <1>2, <1>3, <1>4, SteadyStep

\* The connections a handler refuses, the end of the loop, and ticks.
LEMMA TickTInv ==
    ASSUME IInv, TInv, IInv', RefuseConnection \/ Tick \/ LoopEnd
    PROVE  TInv'
<1>0. /\ session \in Session /\ session' \in Session /\ viewer \in Viewer /\ Numbered(session)
      /\ console \in Console
  BY DEF IInv, Sound, TInv
<1>1. CASE RefuseConnection
  <2>1. Steady(session, session')
    BY <1>0, <1>1, RejectionsSteady DEF RefuseConnection
  <2>2. QED
    BY <1>0, <1>1, <2>1, SteadyStep DEF RefuseConnection, SameLink, SameBinding
<1>2. CASE LoopEnd
  <2>1. Steady(session, session')
    BY <1>0, <1>2, CommandsSteady, SteadyItself DEF LoopEnd
  <2>2. Numbered(session')
    BY <1>0, <2>1, SteadyNumbered
  <2>3. viewer' \in Viewer /\ SameBinding(viewer, viewer')
    BY <1>0, <1>2, <2>2, SendPendingSnapshotsType DEF LoopEnd, SameBinding, Numbered
  <2>4. QED
    BY <1>0, <1>2, <2>1, <2>3, SteadyStep DEF LoopEnd, SameLink
<1>3. CASE Tick /\ ~HeartbeatOverdue
  <2>1. Steady(session, session')
    BY <1>0, <1>3, AdvanceTickSteady DEF Tick
  <2>2. Numbered(session')
    BY <1>0, <2>1, SteadyNumbered
  <2>3. viewer' \in Viewer /\ SameBinding(viewer, viewer')
    BY <1>0, <1>3, <2>2, SendPendingSnapshotsType DEF Tick, Numbered
  <2>4. QED
    BY <1>0, <1>3, <2>1, <2>3, SteadyStep DEF Tick, SameLink
<1>4. CASE Tick /\ HeartbeatOverdue
  <2> DEFINE released == TimeoutClient(session, "TacticalDisplay")
  <2>1. released \in Session /\ Arrives(session, released, "TacticalDisplay", FALSE)
    BY <1>0, ClientOperationsType, ClientsArrive DEF ClientRole
  <2>2. PICK hit \in BOOLEAN, inFov \in BOOLEAN : session' = AdvanceTick(released, hit, inFov)
    BY <1>4 DEF Tick
  <2> HIDE DEF released
  <2>3. Steady(released, session')
    BY <2>1, <2>2, AdvanceTickSteady
  <2>4. Arrives(session, session', "TacticalDisplay", FALSE)
    BY <1>0, <2>1, <2>3, ArrivesSteady DEF ClientRole
  <2>5. viewer' = NoViewer
    BY <1>4 DEF Tick, SendPendingSnapshots, NoViewer
  <2>6. viewer' \in Viewer
    <3>1. <<>> \in Seq(Outgoing)
      OBVIOUS
    <3>2. QED
      BY <2>5, <3>1 DEF NoViewer, Viewer
  <2>7. console' = console /\ replay' = replay
    BY <1>4 DEF Tick
  <2>8. /\ (session'.connection["TacticalDisplay"] \in Present) = FALSE
        /\ (session'.connection["FireControlConsole"] \in Present)
              = (session.connection["FireControlConsole"] \in Present)
    BY <2>4 DEF Arrives, SamePresence, ClientRole
  <2>9. viewer'.endpoint = NoEndpoint /\ viewer'.sender = NoSender
    BY <2>5 DEF NoViewer
  <2>10. BindingsAgree'
    BY <2>7, <2>8, <2>9 DEF BindingsAgree, HeardWithoutId, TInv
  <2>11. Numbered(session') /\ InLog(replay', session'.log.size)
    BY <1>0, <2>4, <2>7 DEF Arrives, Numbered, InLog, TInv, Session, EventLog, Cursor
  <2>12. QED
    BY <2>6, <2>7, <2>10, <2>11 DEF TInv
<1>5. QED
  BY <1>1, <1>2, <1>3, <1>4

\* A viewer with an address, or one that was heard under the id 0 without one.
Known(v) ==
    \/ v.endpoint # NoEndpoint /\ v.sender \in Senders
    \/ /\ v.endpoint = NoEndpoint /\ v.sender = NoSender
       /\ NoSender \in Senders /\ v.heard # "Never"

\* A display that joins or comes back: it is known, and its session is connected.
LEMMA DisplayArrives ==
    ASSUME IInv, TInv, session' = ConnectClient(session, "TacticalDisplay"),
           viewer' \in Viewer, Known(viewer'),
           console' = console, replay' = replay
    PROVE  TInv'
<1>1. /\ session \in Session /\ session' \in Session
      /\ Arrives(session, session', "TacticalDisplay", TRUE)
  BY ClientOperationsType, ClientsArrive DEF IInv, Sound, ClientRole
<1>2. /\ (session'.connection["TacticalDisplay"] \in Present) = TRUE
      /\ (session'.connection["FireControlConsole"] \in Present)
            = (session.connection["FireControlConsole"] \in Present)
  BY <1>1 DEF Arrives, SamePresence, ClientRole
<1>3. BindingsAgree'
  BY <1>2 DEF BindingsAgree, HeardWithoutId, Known, TInv
<1>4. Numbered(session') /\ InLog(replay', session'.log.size)
  BY <1>1 DEF Arrives, Numbered, InLog, TInv, Session, EventLog, Cursor
<1>5. QED
  BY <1>3, <1>4 DEF TInv

\* connect_client numbers nothing, so the list stays no longer than the count.
LEMMA ConnectNumbered ==
    ASSUME NEW s \in Session, NEW role \in ClientRole, Numbered(s)
    PROVE  ConnectClient(s, role) \in Session /\ Numbered(ConnectClient(s, role))
<1>1. ConnectClient(s, role) \in Session /\ Arrives(s, ConnectClient(s, role), role, TRUE)
  BY ClientOperationsType, ClientsArrive
<1>2. QED
  BY <1>1 DEF Arrives, Numbered, Session

\* A sign of life keeps the invariant when v is the viewer, heard.
LEMMA ViewerAliveTInv ==
    ASSUME IInv, TInv, NEW v \in Viewer, SameBinding(viewer, v), ViewerAlive(v),
           viewer.endpoint # NoEndpoint \/ NoSender \in Senders, v.heard # "Never",
           console' = console, replay' = replay
    PROVE  TInv'
<1>1. Known(v)
  BY DEF TInv, BindingsAgree, Known, SameBinding
<1>2. CASE PictureShowsTimeout
  <2>1. session' = ConnectClient(session, "TacticalDisplay")
        /\ viewer' = SendPendingSnapshots(v, session')
    BY <1>2 DEF ViewerAlive
  <2>2. session' \in Session /\ Numbered(session')
    BY <2>1, ConnectNumbered DEF IInv, Sound, TInv, ClientRole
  <2>3. viewer' \in Viewer /\ SameBinding(v, viewer')
    BY <2>1, <2>2, SendPendingSnapshotsType DEF Numbered
  <2>4. Known(viewer')
    BY <1>1, <2>3 DEF Known, SameBinding
  <2>5. QED
    BY <2>1, <2>3, <2>4, DisplayArrives
<1>3. CASE ~PictureShowsTimeout
  <2>1. session' = session /\ viewer' = v
    BY <1>3 DEF ViewerAlive
  <2>2. session' \in Session /\ Steady(session, session')
    BY <2>1, SteadyItself DEF IInv, Sound
  <2>3. SameLink(console, console')
    BY DEF SameLink
  <2>4. QED
    BY <2>1, <2>2, <2>3, SteadyStep
<1>4. QED
  BY <1>2, <1>3

\* Datagrams keep the invariant; a heartbeat counts only from the registered
\* viewer or, when there is none, under the id 0.
LEMMA DatagramTInv ==
    ASSUME IInv, TInv, IInv', ReceiveDatagram
    PROVE  TInv'
<1>0. /\ session \in Session /\ session' \in Session /\ viewer \in Viewer /\ Numbered(session)
      /\ console' = console /\ replay' = replay /\ SameLink(console, console')
  BY DEF IInv, Sound, TInv, ReceiveDatagram, SameLink
<1>1. PICK d \in Datagrams :
         \/ d.kind = "session_join" /\ ViewerJoin(d)
         \/ d.kind = "display_heartbeat" /\ DisplayHeartbeat(d)
         \/ d.kind = "ignored" /\ UNCHANGED <<session, viewer>>
  BY DEF ReceiveDatagram
<1>2. d.sender \in Senders /\ d.from \in Endpoints /\ d.from # NoEndpoint
  BY TrafficTyped, ClientsIdentified DEF Datagram
<1>3. CASE UNCHANGED <<session, viewer>>
  <2>1. Steady(session, session') /\ SameBinding(viewer, viewer') /\ viewer' \in Viewer
    BY <1>0, <1>3, SteadyItself DEF SameBinding
  <2>2. QED
    BY <1>0, <2>1, SteadyStep
<1>4. CASE DisplayHeartbeat(d) /\ AcceptsHeartbeat(d)
  <2> DEFINE v == [viewer EXCEPT !.heard = "Recent",
                                 !.pending = Append(@, [sequence |-> 0, to |-> d.from])]
  <2>1. [sequence |-> 0, to |-> d.from] \in Outgoing
    BY <1>2 DEF Outgoing
  <2>2. viewer.pending \in Seq(Outgoing)
    BY <1>0 DEF Viewer
  <2>3. Append(viewer.pending, [sequence |-> 0, to |-> d.from]) \in Seq(Outgoing)
    BY <2>1, <2>2
  <2>4. v \in Viewer /\ SameBinding(viewer, v) /\ v.heard # "Never"
    BY <1>0, <2>3 DEF Viewer, SameBinding
  <2>5. viewer.endpoint # NoEndpoint \/ NoSender \in Senders
    BY <1>2, <1>4 DEF AcceptsHeartbeat, TInv, BindingsAgree
  <2>6. ViewerAlive(v)
    BY <1>4 DEF DisplayHeartbeat
  <2> HIDE DEF v
  <2>7. QED
    BY <1>0, <2>4, <2>5, <2>6, ViewerAliveTInv
<1>5. CASE ViewerJoin(d)
  <2>1. CASE viewer.endpoint # NoEndpoint /\ viewer.sender # NoSender /\ d.sender # viewer.sender
    <3>1. session' = RecordTransportRejection(session) /\ viewer' = viewer
      BY <1>5, <2>1 DEF ViewerJoin
    <3>2. Steady(session, session') /\ SameBinding(viewer, viewer') /\ viewer' \in Viewer
      BY <1>0, <3>1, RejectionsSteady DEF SameBinding
    <3>3. QED
      BY <1>0, <3>2, SteadyStep
  <2>2. CASE viewer.endpoint = d.from /\ viewer.sender = d.sender
    <3> DEFINE v == [viewer EXCEPT !.heard = "Recent"]
    <3>1. v \in Viewer /\ SameBinding(viewer, v) /\ v.heard # "Never"
      BY <1>0 DEF Viewer, SameBinding
    <3>2. ViewerAlive(v) /\ viewer.endpoint # NoEndpoint
      BY <1>2, <1>5, <2>2 DEF ViewerJoin
    <3> HIDE DEF v
    <3>3. QED
      BY <1>0, <3>1, <3>2, ViewerAliveTInv
  <2>3. CASE /\ ~(viewer.endpoint # NoEndpoint /\ viewer.sender # NoSender
                    /\ d.sender # viewer.sender)
             /\ ~(viewer.endpoint = d.from /\ viewer.sender = d.sender)
    <3> DEFINE bound == [viewer EXCEPT !.sender = d.sender, !.endpoint = d.from,
                                       !.heard = "Recent"]
               rewound == ResetViewerDeliveryCursor(bound, session)
    <3>1. bound \in Viewer /\ bound.endpoint = d.from /\ bound.sender = d.sender
      BY <1>0, <1>2 DEF Viewer
    <3>2. /\ session' = ConnectClient(session, "TacticalDisplay")
          /\ viewer' = SendPendingSnapshots(rewound, session')
      BY <1>5, <2>3 DEF ViewerJoin
    <3> HIDE DEF bound
    <3>3. rewound \in Viewer /\ SameBinding(bound, rewound)
      BY <1>0, <3>1, ResetViewerDeliveryCursorType
    <3> HIDE DEF rewound
    <3>4. Numbered(session')
      BY <1>0, <3>2, ConnectNumbered DEF ClientRole
    <3>5. viewer' \in Viewer /\ SameBinding(rewound, viewer')
      BY <1>0, <3>2, <3>3, <3>4, SendPendingSnapshotsType DEF Numbered
    <3>6. Known(viewer')
      BY <1>2, <3>1, <3>3, <3>5 DEF Known, SameBinding
    <3>7. QED
      BY <1>0, <3>2, <3>5, <3>6, DisplayArrives
  <2>4. QED
    BY <2>1, <2>2, <2>3
<1>6. QED
  BY <1>1, <1>3, <1>4, <1>5 DEF DisplayHeartbeat

\* A console that is gone, with its session told if it had joined.
LEMMA DisconnectTInv ==
    ASSUME IInv, TInv, IInv', DisconnectConsole, viewer' = viewer, replay' = replay
    PROVE  TInv'
<1>0. session \in Session /\ session' \in Session
  BY DEF IInv, Sound
<1>1. console'.sender = NoSender
  BY DEF DisconnectConsole, ConsoleDisconnected, NoConsole
<1>2. /\ (session'.connection["FireControlConsole"] \in Present) = FALSE
      /\ (session'.connection["TacticalDisplay"] \in Present)
            = (session.connection["TacticalDisplay"] \in Present)
      /\ session.log.size <= session'.log.size
      /\ session'.sequence - session'.snapshots = session.sequence - session.snapshots
  <2>1. CASE console.sender = NoSender
    BY <1>0, <2>1, SteadyItself DEF DisconnectConsole, TInv, BindingsAgree, Steady, SamePresence
  <2>2. CASE console.sender # NoSender
    <3>1. Arrives(session, session', "FireControlConsole", FALSE)
      BY <1>0, <2>2, ClientsArrive DEF DisconnectConsole, ClientRole
    <3>2. QED
      BY <3>1 DEF Arrives, SamePresence, ClientRole
  <2>3. QED
    BY <2>1, <2>2
<1>3. BindingsAgree'
  BY <1>1, <1>2 DEF BindingsAgree, HeardWithoutId, TInv
<1>4. Numbered(session') /\ InLog(replay', session'.log.size)
  BY <1>0, <1>2 DEF Numbered, InLog, TInv, Session, EventLog, Cursor
<1>5. QED
  BY <1>3, <1>4 DEF TInv

\* A frame that the session answers steadily, delivered to the viewer.
LEMMA FrameSteadyTInv ==
    ASSUME IInv, TInv, session' \in Session, Steady(session, session'),
           NEW n, NEW accepted, console' = Replied(Taken, n, accepted), Taken \in Console,
           viewer' = viewer \/ viewer' = SendPendingSnapshots(viewer, session'),
           replay' = replay
    PROVE  TInv'
<1>1. Numbered(session') /\ viewer \in Viewer
  BY SteadyNumbered DEF IInv, Sound, TInv
<1>2. viewer' \in Viewer /\ SameBinding(viewer, viewer')
  <2>1. CASE viewer' = viewer
    BY <1>1, <2>1 DEF SameBinding
  <2>2. CASE viewer' = SendPendingSnapshots(viewer, session')
    BY <1>1, <2>2, SendPendingSnapshotsType DEF Numbered
  <2>3. QED
    BY <2>1, <2>2
<1>3. SameLink(console, console')
  BY RepliedKeeps, TakenKeeps DEF IInv, SameLink
<1>4. QED
  BY <1>2, <1>3, SteadyStep

\* Every frame keeps the invariant.
LEMMA FramesTInv ==
    ASSUME IInv, LinkInv, TInv, IInv',
           \/ SessionJoin \/ SessionLeave \/ ScenarioStart \/ ScenarioStop \/ ScenarioReset
           \/ TrackAcquire \/ TrackDrop \/ InterceptorReady \/ EngageOrder
           \/ AarRequest \/ MalformedAarRequest \/ MalformedFrame
    PROVE  TInv'
<1>0. /\ session \in Session /\ session' \in Session /\ console \in Console /\ viewer \in Viewer
      /\ Numbered(session)
  BY DEF IInv, Sound, TInv
<1>1. console.buffer # <<>>
  BY DEF SessionJoin, SessionLeave, ScenarioStart, ScenarioStop, ScenarioReset, MissionCommand,
         TrackAcquire, TrackDrop, InterceptorReady, EngageOrder, AarRequest,
         MalformedAarRequest, MalformedFrame, Processing
<1>2. Current \in Frame /\ Taken \in Console /\ Current.n \in Nat /\ Current.req \in Request
  BY <1>0, <1>1, TakenType DEF Frame
<1>3. RefuseFrame => TInv'
  <2>1. Steady(session, RecordTransportRejection(session))
    BY <1>0, RejectionsSteady
  <2>2. QED
    BY <1>0, <1>2, <2>1, FrameSteadyTInv DEF RefuseFrame
<1>4. CASE TrackAcquire \/ TrackDrop \/ InterceptorReady \/ EngageOrder
  <2>1. CASE RefuseFrame
    BY <1>3, <2>1
  <2>2. CASE ~RefuseFrame
    <3>1. /\ \/ session' = RequestTrack(session) \/ session' = ReleaseTrack(session)
             \/ session' = ActivateAsset(session) \/ session' = IssueCommand(session)
          /\ \E accepted : console' = Replied(Taken, Current.n, accepted)
          /\ viewer' = SendPendingSnapshots(viewer, session') /\ replay' = replay
      BY <1>4, <2>2 DEF TrackAcquire, TrackDrop, InterceptorReady, EngageOrder, MissionCommand
    <3>2. Steady(session, session')
      BY <1>0, <3>1, TrackCommandsSteady, CommandsSteady
    <3>3. QED
      BY <1>0, <1>2, <3>1, <3>2, FrameSteadyTInv
  <2>3. QED
    BY <2>1, <2>2
<1>5. CASE ScenarioStart
  <2> DEFINE configured == ConfigureScenario(session, Current.req.timeout)
  <2>1. Current.req.timeout \in EngagementTimeouts
    BY <1>2 DEF Request
  <2>2. configured \in Session /\ Steady(session, configured)
    BY <1>0, <2>1, ConfigureScenarioType, ConfigureScenarioSteady
  <2>3. StartScenario(configured) \in Session /\ Steady(configured, StartScenario(configured))
    BY <2>2, StartScenarioType, StartScenarioSteady
  <2>4. Steady(session, StartScenario(configured))
    BY <1>0, <2>2, <2>3, SteadyTransitive
  <2>5. \/ RefuseFrame
        \/ /\ session' = StartScenario(configured)
           /\ \E accepted : console' = Replied(Taken, Current.n, accepted)
           /\ viewer' = SendPendingSnapshots(viewer, session') /\ replay' = replay
    BY <1>5 DEF ScenarioStart
  <2> HIDE DEF configured
  <2>6. QED
    BY <1>0, <1>2, <1>3, <2>4, <2>5, FrameSteadyTInv
<1>6. CASE ScenarioStop
  <2>1. Steady(session, ArchiveSession(session))
    BY <1>0, CommandsSteady
  <2>2. QED
    BY <1>0, <1>2, <1>3, <1>6, <2>1, FrameSteadyTInv DEF ScenarioStop
<1>7. CASE ScenarioReset /\ ~RefuseFrame
  <2> DEFINE rewound == ResetViewerDeliveryCursor(viewer, session')
  <2>1. /\ session' = ResetSession(session) /\ replay' = NoCursor
        /\ viewer' = SendPendingSnapshots(rewound, session')
        /\ console' = Replied(Taken, Current.n, TRUE)
    BY <1>7 DEF ScenarioReset
  <2>2. /\ session'.snapshots = 1 /\ session'.sequence = session.sequence + 1
        /\ (session'.connection["FireControlConsole"] \in Present)
              = (session.connection["FireControlConsole"] \in Present)
        /\ (session'.connection["TacticalDisplay"] \in Present)
              = (session.connection["TacticalDisplay"] \in Present)
    BY <1>0, <2>1, ResetSessionPresence DEF ClientRole, SamePresence
  <2>3. Numbered(session') /\ session'.log.size \in Nat
    BY <1>0, <2>2 DEF Numbered, Session, EventLog
  <2>4. rewound \in Viewer /\ SameBinding(viewer, rewound)
    BY <1>0, ResetViewerDeliveryCursorType
  <2> HIDE DEF rewound
  <2>5. viewer' \in Viewer /\ SameBinding(viewer, viewer')
    BY <1>0, <2>1, <2>3, <2>4, SendPendingSnapshotsType DEF Numbered, SameBinding
  <2>6. SameLink(console, console')
    BY <1>0, <1>2, <2>1, RepliedKeeps, TakenKeeps, ZenonT(40) DEF SameLink
  <2>7. BindingsAgree'
    BY <2>2, <2>5, <2>6 DEF BindingsAgree, HeardWithoutId, TInv, SameLink, SameBinding
  <2>8. replay' \in Cursor /\ InLog(replay', session'.log.size)
    BY <2>1, <2>3 DEF NoCursor, Cursor, InLog
  <2>9. QED
    BY <2>3, <2>5, <2>7, <2>8 DEF TInv
<1>8. CASE SessionJoin /\ ~RefuseFrame
  <2> DEFINE joined == [Taken EXCEPT !.sender = Current.req.sender]
  <2>1. /\ console' = Replied(joined, Current.n, TRUE)
        /\ session' = IF console.sender = Current.req.sender THEN session
                      ELSE ConnectClient(session, "FireControlConsole")
        /\ viewer' = viewer /\ replay' = replay
    BY <1>8 DEF SessionJoin
  <2>2. /\ Current.req.sender \in Senders
        /\ console.sender \in {NoSender, Current.req.sender}
    BY <1>2, <1>8 DEF Request, SessionJoin
  <2>3. /\ joined \in Console /\ joined.sender = Current.req.sender
        /\ joined.link = console.link
    BY <1>0, <1>2, <2>2, TakenKeeps DEF Console
  <2> HIDE DEF joined
  <2>4. console'.sender = Current.req.sender /\ console'.link = console.link
    <3>1. /\ Replied(joined, Current.n, TRUE).link = joined.link
          /\ Replied(joined, Current.n, TRUE).sender = joined.sender
      BY <2>3, RepliedKeeps, ZenonT(40)
    <3>2. QED
      BY <2>1, <2>3, <3>1
  <2>5. CASE console.sender = Current.req.sender
    <3>1. Steady(session, session') /\ SameLink(console, console')
      BY <1>0, <2>1, <2>4, <2>5, SteadyItself DEF SameLink
    <3>2. QED
      BY <1>0, <2>1, <3>1, SteadyStep DEF SameBinding
  <2>6. CASE console.sender # Current.req.sender
    <3>1. Arrives(session, session', "FireControlConsole", TRUE)
      BY <1>0, <2>1, <2>6, ClientsArrive DEF ClientRole
    <3>2. /\ (session'.connection["FireControlConsole"] \in Present) = TRUE
          /\ (session'.connection["TacticalDisplay"] \in Present)
                = (session.connection["TacticalDisplay"] \in Present)
      BY <3>1 DEF Arrives, SamePresence, ClientRole
    <3>3. console.link # "None"
      BY <1>1 DEF LinkInv
    <3>4. BindingsAgree'
      BY <2>1, <2>2, <2>4, <2>6, <3>2, <3>3 DEF BindingsAgree, HeardWithoutId, TInv
    <3>5. Numbered(session') /\ InLog(replay', session'.log.size)
      BY <1>0, <2>1, <3>1 DEF Arrives, Numbered, InLog, TInv, Session, EventLog, Cursor
    <3>6. QED
      BY <1>0, <2>1, <3>4, <3>5 DEF TInv
  <2>7. QED
    BY <2>5, <2>6
<1>9. CASE SessionLeave
  <2>1. CASE RefuseFrame
    BY <1>3, <2>1
  <2>2. CASE DisconnectConsole
    BY <1>9, <2>2, DisconnectTInv DEF SessionLeave
  <2>3. CASE /\ session' = RecordTransportRejection(session)
             /\ console' = Replied(Taken, Current.n, TRUE)
    <3>1. Steady(session, session') /\ viewer' = viewer /\ replay' = replay
      BY <1>0, <1>9, <2>3, RejectionsSteady DEF SessionLeave
    <3>2. QED
      BY <1>0, <1>2, <2>3, <3>1, FrameSteadyTInv
  <2>4. CASE UNCHANGED <<session, console>>
    <3>1. viewer' = viewer /\ replay' = replay
      BY <1>9 DEF SessionLeave
    <3>2. Steady(session, session') /\ SameLink(console, console') /\ SameBinding(viewer, viewer')
      BY <1>0, <2>4, <3>1, SteadyItself DEF SameLink, SameBinding
    <3>3. QED
      BY <1>0, <3>1, <3>2, SteadyStep
  <2>5. QED
    BY <1>9, <2>1, <2>2, <2>3, <2>4 DEF SessionLeave
<1>10. CASE AarRequest /\ ~RefuseFrame
  <2>1. /\ replay' = ResolveReplayCursor(replay, session.log.size, Current.req.control,
                                         Current.req.index)
        /\ console' = Replied(Taken, Current.n, TRUE)
        /\ session' = session /\ viewer' = viewer
    BY <1>10 DEF AarRequest
  <2>2. /\ Current.req.control \in AarControl /\ Current.req.index \in Nat
        /\ session.log.size \in Nat
    BY <1>0, <1>2 DEF Request, Session, EventLog
  <2>3. replay \in Cursor /\ InLog(replay, session.log.size)
    BY DEF TInv
  <2>4. replay' \in Cursor /\ InLog(replay', session'.log.size)
    BY <2>1, <2>2, <2>3, ResolveReplayCursorInLog
  <2>5. SameLink(console, console')
    BY <1>0, <1>2, <2>1, RepliedKeeps, TakenKeeps, ZenonT(40) DEF SameLink
  <2>6. BindingsAgree'
    BY <2>1, <2>5 DEF BindingsAgree, HeardWithoutId, TInv, SameLink
  <2>7. QED
    BY <2>1, <2>4, <2>6 DEF TInv
<1>11. CASE MalformedAarRequest
  <2>1. Steady(session, session')
    BY <1>0, <1>11, SteadyItself DEF MalformedAarRequest
  <2>2. QED
    BY <1>0, <1>2, <1>11, <2>1, FrameSteadyTInv DEF MalformedAarRequest
<1>12. CASE MalformedFrame
  <2>1. Steady(session, session') /\ SameLink(console, console')
    BY <1>0, <1>12, RejectionsSteady, TakenKeeps DEF MalformedFrame, SameLink
  <2>2. QED
    BY <1>0, <1>12, <2>1, SteadyStep DEF MalformedFrame, SameBinding
<1>13. QED
  BY <1>3, <1>4, <1>5, <1>6, <1>7, <1>8, <1>9, <1>10, <1>11, <1>12

--------------------------------------------------------------------------------
(****************************************************************************)
(* What is queued for the viewer                                            *)
(****************************************************************************)

\* No picture is queued whose number the session has not given out, and a session
\* that lists nothing has given out none.
Issued(v, s) ==
    /\ s.snapshots = 0 => s.sequence = 0
    /\ \A i \in 1 .. Len(v.pending) : v.pending[i].sequence <= s.sequence

\* The last picture that waits for v is number n.
LastIs(v, n) ==
    \A i \in 1 .. Len(v.pending) : PictureQueued(v, i) =>
        \/ v.pending[i].sequence = n
        \/ \E j \in i + 1 .. Len(v.pending) : PictureQueued(v, j)

\* DeliveryCurrent, of any viewer and session.
UpToDate(v, s) ==
    IF v.endpoint = NoEndpoint
    THEN /\ \A i \in 1 .. Len(v.pending) : v.pending[i].sequence = 0
         /\ NoSender \notin Senders => v.pending = <<>>
    ELSE v.sent = s.snapshots /\ LastIs(v, s.sequence)

\* The third inductive invariant.
DInv == Issued(viewer, session) /\ UpToDate(viewer, session)

\* Two queues one after the other, by their elements.
LEMMA ConcatParts ==
    ASSUME NEW S, NEW a \in Seq(S), NEW b \in Seq(S)
    PROVE  /\ a \o b \in Seq(S) /\ Len(a) \in Nat /\ Len(b) \in Nat
           /\ Len(a \o b) = Len(a) + Len(b)
           /\ \A i \in 1 .. Len(a) : (a \o b)[i] = a[i]
           /\ \A i \in Len(a) + 1 .. Len(a) + Len(b) : (a \o b)[i] = b[i - Len(a)]
<1>1. Len(a) \in Nat /\ Len(b) \in Nat
  OBVIOUS
<1>2. a \o b \in Seq(S) /\ Len(a \o b) = Len(a) + Len(b)
  BY ConcatProperties
<1>3. \A i \in 1 .. Len(a) + Len(b) :
         (a \o b)[i] = IF i <= Len(a) THEN a[i] ELSE b[i - Len(a)]
  BY ConcatProperties
<1>4. ASSUME NEW i \in 1 .. Len(a) PROVE (a \o b)[i] = a[i]
  <2>1. i \in 1 .. Len(a) + Len(b) /\ i <= Len(a)
    BY <1>1
  <2>2. QED
    BY <1>3, <2>1
<1>5. ASSUME NEW i \in Len(a) + 1 .. Len(a) + Len(b) PROVE (a \o b)[i] = b[i - Len(a)]
  <2>1. i \in 1 .. Len(a) + Len(b) /\ ~(i <= Len(a))
    BY <1>1
  <2>2. QED
    BY <1>3, <2>1
<1>6. QED
  BY <1>1, <1>2, <1>4, <1>5

\* A queue with one more element, by its elements.
LEMMA AppendParts ==
    ASSUME NEW S, NEW a \in Seq(S), NEW x \in S
    PROVE  /\ Append(a, x) \in Seq(S) /\ Len(a) \in Nat /\ Len(Append(a, x)) = Len(a) + 1
           /\ \A i \in 1 .. Len(a) : Append(a, x)[i] = a[i]
           /\ Append(a, x)[Len(a) + 1] = x
OBVIOUS

\* The number of a queued datagram.
LEMMA QueuedNumbers ==
    ASSUME NEW q \in Seq(Outgoing), NEW i \in 1 .. Len(q)
    PROVE  q[i].sequence \in Nat
<1>1. q[i] \in Outgoing
  OBVIOUS
<1>2. QED
  BY <1>1 DEF Outgoing

\* Whatever was queued, after the next pictures up to n the last one is n.
LEMMA PicturesQueued ==
    ASSUME NEW v \in Viewer, NEW s \in Session, v.endpoint # NoEndpoint,
           NEW count \in Nat \ {0}, count <= s.sequence, s.snapshots # 0, Issued(v, s),
           NEW w, w = [v EXCEPT !.pending = @ \o [i \in 1 .. count |->
                                   [sequence |-> s.sequence - count + i, to |-> v.endpoint]],
                                !.sent = s.snapshots]
    PROVE  Issued(w, s) /\ UpToDate(w, s)
<1> DEFINE n == s.sequence
           old == v.pending
           batch == [i \in 1 .. count |-> [sequence |-> n - count + i, to |-> v.endpoint]]
<1>1. old \in Seq(Outgoing) /\ n \in Nat /\ Len(old) \in Nat
  BY DEF Viewer, Session
<1>2. \A i \in 1 .. Len(old) : old[i].sequence <= n
  BY DEF Issued
<1>3. \A i \in 1 .. count : /\ batch[i].sequence = n - count + i
                            /\ batch[i].to = v.endpoint
  OBVIOUS
<1>4. w.pending = old \o batch /\ w.endpoint = v.endpoint /\ w.sent = s.snapshots
  BY DEF Viewer
<1>5. batch \in Seq(Outgoing) /\ Len(batch) = count
  <2>1. v.endpoint \in Endpoints
    BY DEF Viewer
  <2>2. \A i \in 1 .. count : batch[i] \in Outgoing
    BY <1>1, <2>1 DEF Outgoing
  <2>3. QED
    BY <2>2
<1>6. n = s.sequence
  OBVIOUS
<1> HIDE DEF batch, old, n
<1>7. /\ Len(old \o batch) = Len(old) + Len(batch)
      /\ \A i \in 1 .. Len(old) : (old \o batch)[i] = old[i]
      /\ \A i \in Len(old) + 1 .. Len(old) + Len(batch) :
            (old \o batch)[i] = batch[i - Len(old)]
  BY <1>1, <1>5, ConcatParts
<1>8. Len(w.pending) = Len(old) + count
  BY <1>4, <1>5, <1>7
<1>9. ASSUME NEW i \in 1 .. Len(old) PROVE w.pending[i].sequence <= s.sequence
  BY <1>2, <1>4, <1>6, <1>7
<1>10. ASSUME NEW i \in Len(old) + 1 .. Len(old) + count
       PROVE  /\ w.pending[i].sequence = n - count + (i - Len(old))
              /\ w.pending[i].to = w.endpoint
  <2>1. i - Len(old) \in 1 .. count
    BY <1>1
  <2>2. w.pending[i] = batch[i - Len(old)]
    BY <1>4, <1>5, <1>7
  <2>3. QED
    BY <1>3, <1>4, <2>1, <2>2
<1>11. Issued(w, s)
  <2>1. ASSUME NEW i \in 1 .. Len(w.pending) PROVE w.pending[i].sequence <= s.sequence
    <3>1. CASE i \in 1 .. Len(old)
      BY <1>9, <3>1
    <3>2. CASE i \in Len(old) + 1 .. Len(old) + count
      <4>1. n - count + (i - Len(old)) <= n
        BY <1>1, <3>2
      <4>2. QED
        BY <1>6, <1>10, <3>2, <4>1
    <3>3. QED
      BY <1>1, <1>8, <3>1, <3>2
  <2>2. QED
    BY <2>1 DEF Issued
<1>12. PictureQueued(w, Len(w.pending)) /\ w.pending[Len(w.pending)].sequence = n
  <2>1. Len(w.pending) \in Len(old) + 1 .. Len(old) + count
    BY <1>1, <1>8
  <2>2. /\ w.pending[Len(w.pending)].sequence = n - count + (Len(w.pending) - Len(old))
        /\ w.pending[Len(w.pending)].to = w.endpoint
    BY <1>10, <2>1
  <2>3. n - count + (Len(w.pending) - Len(old)) = n
    BY <1>1, <1>6, <1>8
  <2>4. n > 0
    BY <1>1, <1>6
  <2>5. w.pending[Len(w.pending)].sequence = n
    BY <2>2, <2>3
  <2>6. QED
    BY <2>2, <2>4, <2>5 DEF PictureQueued
<1>13. LastIs(w, n)
  <2>1. ASSUME NEW i \in 1 .. Len(w.pending), i # Len(w.pending)
        PROVE  Len(w.pending) \in i + 1 .. Len(w.pending)
    BY <1>1, <1>8, <2>1
  <2>2. QED
    BY <1>12, <2>1 DEF LastIs
<1>14. QED
  BY <1>4, <1>6, <1>11, <1>13 DEF UpToDate

\* A viewer that is up to date gets the snapshot just listed, if there is one.
LEMMA NextDelivered ==
    ASSUME NEW v \in Viewer, NEW s \in Session, NEW t \in Session, Numbered(t),
           Issued(v, s), UpToDate(v, s), ListsAtMostOne(s, t),
           t.sequence - t.snapshots = s.sequence - s.snapshots
    PROVE  Issued(SendPendingSnapshots(v, t), t) /\ UpToDate(SendPendingSnapshots(v, t), t)
<1>0. /\ s.snapshots \in Nat /\ s.sequence \in Nat /\ t.snapshots \in Nat /\ t.sequence \in Nat
      /\ s.sequence <= t.sequence /\ (t.snapshots = 0 => t.sequence = 0)
  BY DEF Session, ListsAtMostOne, Issued
<1>1. v.pending \in Seq(Outgoing)
  BY DEF Viewer
<1>2. Issued(v, t)
  <2>1. \A i \in 1 .. Len(v.pending) : v.pending[i].sequence \in Nat
    BY <1>1, QueuedNumbers
  <2>2. QED
    BY <1>0, <2>1 DEF Issued
<1>3. CASE v.endpoint = NoEndpoint
  BY <1>2, <1>3 DEF SendPendingSnapshots, UpToDate
<1>4. CASE v.endpoint # NoEndpoint /\ t.snapshots = s.snapshots
  <2>1. SendPendingSnapshots(v, t) = v
    BY <1>0, <1>4 DEF SendPendingSnapshots, UpToDate
  <2>2. t.sequence = s.sequence
    BY <1>0, <1>4
  <2>3. QED
    BY <1>2, <1>4, <2>1, <2>2 DEF UpToDate
<1>5. CASE v.endpoint # NoEndpoint /\ t.snapshots = s.snapshots + 1
  <2>1. v.sent = s.snapshots
    BY <1>5 DEF UpToDate
  <2>2. /\ Smaller(t.snapshots - v.sent, UdpMaxBatchSnapshots) = 1
        /\ t.sequence - t.snapshots + v.sent = t.sequence - 1
        /\ v.sent + 1 = t.snapshots
        /\ ~(v.sent >= t.snapshots) /\ ~(t.snapshots - v.sent > 1)
    BY <1>0, <1>5, <2>1, BatchPositive DEF Smaller
  <2>3. SendPendingSnapshots(v, t) =
           [v EXCEPT !.pending = @ \o [i \in 1 .. 1 |->
                        [sequence |-> t.sequence - 1 + i, to |-> v.endpoint]],
                     !.sent = t.snapshots]
    <3>1. SendPendingSnapshots(v, t) =
             [v EXCEPT !.pending = @ \o [i \in 1 .. 1 |->
                          [sequence |-> t.sequence - 1 + i, to |-> v.endpoint]],
                       !.sent = @ + 1]
      BY <1>5, <2>2 DEF SendPendingSnapshots
    <3>2. QED
      BY <2>2, <3>1 DEF Viewer
  <2>4. 1 <= t.sequence /\ t.snapshots # 0
    BY <1>0, <1>5 DEF Numbered
  <2>5. t.sequence - 1 + 0 = t.sequence - 1 /\ 1 \in Nat \ {0}
    BY <1>0
  <2> DEFINE w == SendPendingSnapshots(v, t)
  <2>6. w = [v EXCEPT !.pending = @ \o [i \in 1 .. 1 |->
                        [sequence |-> t.sequence - 1 + i, to |-> v.endpoint]],
                     !.sent = t.snapshots]
    BY <2>3
  <2> HIDE DEF w
  <2>7. Issued(w, t) /\ UpToDate(w, t)
    BY <1>2, <1>5, <2>4, <2>5, <2>6, PicturesQueued
  <2>8. QED
    BY <2>7 DEF w
<1>6. QED
  BY <1>3, <1>4, <1>5 DEF ListsAtMostOne

\* After a rewind a batch reaches the newest snapshot.
LEMMA RewoundDelivered ==
    ASSUME NEW v \in Viewer, NEW s \in Session, NEW t \in Session, Numbered(t), Issued(v, t),
           s.snapshots = t.snapshots, v.endpoint = NoEndpoint => UpToDate(v, s),
           NEW w, w = SendPendingSnapshots(ResetViewerDeliveryCursor(v, s), t)
    PROVE  Issued(w, t) /\ UpToDate(w, t)
<1> DEFINE rewind == IF UdpSendLatestOnly THEN 1 ELSE Smaller(s.snapshots, UdpMaxBatchSnapshots)
           sent == IF s.snapshots = 0 THEN 0 ELSE s.snapshots - rewind
           r == [v EXCEPT !.sent = sent]
<1>0. s.snapshots \in Nat /\ t.snapshots \in Nat /\ t.sequence \in Nat
  BY DEF Session
<1>1. ResetViewerDeliveryCursor(v, s) = r
  BY DEF ResetViewerDeliveryCursor
<1>2. s.snapshots # 0 => rewind \in Nat \ {0} /\ rewind <= s.snapshots /\ rewind <= UdpMaxBatchSnapshots
  BY <1>0, BatchPositive DEF Smaller
<1>3. UdpSendLatestOnly => rewind = 1
  OBVIOUS
<1> HIDE DEF rewind
<1>4. /\ s.snapshots = 0 => sent = 0
      /\ s.snapshots # 0 => sent = s.snapshots - rewind
  OBVIOUS
<1>5. sent \in Nat
  BY <1>0, <1>2, <1>4
<1> HIDE DEF sent
<1>6. /\ r \in Viewer /\ r.endpoint = v.endpoint /\ r.pending = v.pending /\ r.sent = sent
  BY <1>5 DEF Viewer
<1>7. Issued(r, t)
  BY <1>6 DEF Issued
<1> HIDE DEF r
<1>8. CASE v.endpoint = NoEndpoint
  <2>1. w = r
    BY <1>1, <1>6, <1>8 DEF SendPendingSnapshots
  <2>2. QED
    BY <1>6, <1>7, <1>8, <2>1 DEF UpToDate
<1>9. CASE v.endpoint # NoEndpoint /\ s.snapshots = 0
  <2>1. w = r
    BY <1>1, <1>4, <1>6, <1>9 DEF SendPendingSnapshots
  <2>2. r.pending \in Seq(Outgoing)
    BY <1>6 DEF Viewer
  <2>3. \A i \in 1 .. Len(r.pending) : ~PictureQueued(r, i)
    <3>1. \A i \in 1 .. Len(r.pending) : r.pending[i].sequence \in Nat
      BY <2>2, QueuedNumbers
    <3>2. \A i \in 1 .. Len(r.pending) : r.pending[i].sequence <= 0
      BY <1>0, <1>7, <1>9 DEF Issued
    <3>3. QED
      BY <3>1, <3>2 DEF PictureQueued
  <2>4. QED
    BY <1>4, <1>6, <1>7, <1>9, <2>1, <2>3 DEF UpToDate, LastIs
<1>10. CASE v.endpoint # NoEndpoint /\ s.snapshots # 0
  <2>1. /\ Smaller(t.snapshots - r.sent, UdpMaxBatchSnapshots) = rewind
        /\ t.sequence - t.snapshots + r.sent = t.sequence - rewind
        /\ r.sent + rewind = t.snapshots
        /\ ~(r.sent >= t.snapshots) /\ ~(UdpSendLatestOnly /\ t.snapshots - r.sent > 1)
    <3>1. t.snapshots - r.sent = rewind
      BY <1>0, <1>2, <1>4, <1>6, <1>10
    <3>2. Smaller(rewind, UdpMaxBatchSnapshots) = rewind
      BY <1>2, <1>10 DEF Smaller
    <3>3. QED
      BY <1>0, <1>2, <1>3, <1>5, <1>6, <1>10, <3>1, <3>2
  <2>2. w = [r EXCEPT !.pending = @ \o [i \in 1 .. rewind |->
                         [sequence |-> t.sequence - rewind + i, to |-> r.endpoint]],
                      !.sent = t.snapshots]
    <3>1. w = [r EXCEPT !.pending = @ \o [i \in 1 .. rewind |->
                           [sequence |-> t.sequence - rewind + i, to |-> r.endpoint]],
                        !.sent = @ + rewind]
      BY <1>1, <1>6, <1>10, <2>1 DEF SendPendingSnapshots
    <3>2. QED
      BY <1>6, <2>1, <3>1 DEF Viewer
  <2>3. rewind \in Nat \ {0} /\ rewind <= t.sequence /\ t.snapshots # 0
    BY <1>0, <1>2, <1>10 DEF Numbered
  <2>4. QED
    BY <1>6, <1>7, <1>10, <2>2, <2>3, PicturesQueued
<1>11. QED
  BY <1>8, <1>9, <1>10

\* A step that moves neither the numbers nor what is queued.
LEMMA QuietDInv ==
    ASSUME DInv, session'.snapshots = session.snapshots, session'.sequence = session.sequence,
           viewer'.pending = viewer.pending, viewer'.endpoint = viewer.endpoint,
           viewer'.sent = viewer.sent
    PROVE  DInv'
<1>1. Issued(viewer', session')
  BY DEF DInv, Issued
<1>2. UpToDate(viewer', session')
  BY DEF DInv, UpToDate, LastIs, PictureQueued
<1>3. QED
  BY <1>1, <1>2 DEF DInv

\* A rejection by the transport, or a console that comes or goes, lists nothing.
LEMMA ConsoleStepDInv ==
    ASSUME IInv, DInv, viewer' = viewer,
           \/ session' = session \/ session' = RecordTransportRejection(session)
           \/ session' = ConnectClient(session, "FireControlConsole")
           \/ session' = DisconnectClient(session, "FireControlConsole")
    PROVE  DInv'
<1>0. session \in Session /\ "FireControlConsole" \in ClientRole
  BY DEF IInv, Sound, ClientRole
<1>1. session'.snapshots = session.snapshots
  BY <1>0, NothingListed
<1>2. session'.sequence = session.sequence
  <2>1. CASE session' = session
    BY <2>1
  <2>2. CASE session' = RecordTransportRejection(session)
    BY <1>0, <2>2 DEF RecordTransportRejection, PushEvent, Session
  <2>3. CASE session' = ConnectClient(session, "FireControlConsole")
    BY <1>0, <2>3 DEF ConnectClient, PushEvent, Session
  <2>4. CASE session' = DisconnectClient(session, "FireControlConsole")
    BY <1>0, <2>4 DEF DisconnectClient, PushEvent, Session
  <2>5. QED
    BY <2>1, <2>2, <2>3, <2>4
<1>3. QED
  BY <1>1, <1>2, QuietDInv

\* A flush takes the oldest; what is left ends as before.
LEMMA FlushDInv ==
    ASSUME TInv, DInv, FlushBeforeReading \/ FlushAfterReading
    PROVE  DInv'
<1>1. session' = session
  BY DEF FlushBeforeReading, FlushAfterReading, FlushUnchanged
<1>2. CASE viewer' = viewer
  BY <1>1, <1>2, QuietDInv
<1>3. CASE \E j \in 0 .. Len(viewer.pending) : viewer' = [viewer EXCEPT !.pending = Rest(@, j)]
  <2> DEFINE old == viewer.pending
             new == viewer'.pending
  <2>1. PICK j \in 0 .. Len(viewer.pending) : viewer' = [viewer EXCEPT !.pending = Rest(@, j)]
    BY <1>3
  <2>2. viewer \in Viewer /\ old \in Seq(Outgoing) /\ Len(old) \in Nat
    BY DEF TInv, Viewer
  <2>3. /\ new = Rest(old, j) /\ viewer'.endpoint = viewer.endpoint /\ viewer'.sent = viewer.sent
    BY <2>1, <2>2 DEF Viewer
  <2>4. /\ Len(new) = Len(old) - j
        /\ \A i \in 1 .. Len(old) - j : new[i] = old[i + j]
    <3>1. \A i \in j + 1 .. Len(old) : old[i] \in Outgoing
      BY <2>2
    <3>2. QED
      BY <2>2, <2>3, <3>1 DEF Rest
  <2>5. /\ \A i \in 1 .. Len(old) : old[i].sequence <= session.sequence
    BY DEF DInv, Issued
  <2> HIDE DEF old, new
  <2>6. \A i \in 1 .. Len(new) : i + j \in 1 .. Len(old) /\ new[i] = old[i + j]
    BY <2>2, <2>4
  <2>7. \A i \in 1 .. Len(new) : new[i].sequence <= session.sequence
    BY <2>5, <2>6
  <2>8. Issued(viewer', session')
    BY <1>1, <2>7 DEF DInv, Issued, new
  <2>9. CASE viewer.endpoint = NoEndpoint
    <3>1. \A i \in 1 .. Len(new) : new[i].sequence = 0
      BY <2>6, <2>9 DEF DInv, UpToDate, old
    <3>2. ASSUME old = <<>> PROVE new = <<>>
      <4>1. Len(old) = 0
        BY <3>2
      <4>2. QED
        BY <2>1, <2>2, <2>3, <3>2, <4>1 DEF Rest, old
    <3>3. NoSender \notin Senders => new = <<>>
      BY <2>9, <3>2 DEF DInv, UpToDate, old
    <3>4. QED
      BY <2>3, <2>8, <2>9, <3>1, <3>3 DEF DInv, UpToDate, new
  <2>10. CASE viewer.endpoint # NoEndpoint
    <3>1. \A i \in 1 .. Len(new) : PictureQueued(viewer', i) <=> PictureQueued(viewer, i + j)
      BY <2>3, <2>6 DEF PictureQueued, new, old
    <3>2. ASSUME NEW i \in 1 .. Len(new), PictureQueued(viewer', i),
                 new[i].sequence # session.sequence
          PROVE  \E k \in i + 1 .. Len(new) : PictureQueued(viewer', k)
      <4>1. PictureQueued(viewer, i + j) /\ old[i + j].sequence # session.sequence
        BY <2>6, <3>1, <3>2
      <4>2. PICK k \in i + j + 1 .. Len(old) : PictureQueued(viewer, k)
        BY <2>6, <2>10, <4>1 DEF DInv, UpToDate, LastIs, old
      <4>3. k - j \in i + 1 .. Len(new) /\ k - j \in 1 .. Len(new) /\ (k - j) + j = k
        BY <2>2, <2>4, <4>2
      <4>4. PictureQueued(viewer', k - j)
        BY <3>1, <4>2, <4>3
      <4>5. QED
        BY <4>3, <4>4
    <3>3. LastIs(viewer', session'.sequence)
      BY <1>1, <3>2 DEF LastIs, new
    <3>4. QED
      BY <1>1, <2>3, <2>8, <2>10, <3>3 DEF DInv, UpToDate
  <2>11. QED
    BY <2>9, <2>10
<1>4. QED
  BY <1>2, <1>3 DEF FlushBeforeReading, FlushAfterReading, FlushThen

\* A sign of life: the ack of a heartbeat is no picture, and a display that comes
\* back lists nothing.
LEMMA ViewerAliveDInv ==
    ASSUME IInv, TInv, DInv, NEW v \in Viewer, ViewerAlive(v),
           Issued(v, session), UpToDate(v, session)
    PROVE  DInv'
<1>1. CASE PictureShowsTimeout
  <2>1. session \in Session /\ "TacticalDisplay" \in ClientRole /\ Numbered(session)
    BY DEF IInv, Sound, TInv, ClientRole
  <2>2. /\ session' = ConnectClient(session, "TacticalDisplay")
        /\ viewer' = SendPendingSnapshots(v, session')
    BY <1>1 DEF ViewerAlive
  <2>3. session' \in Session /\ Numbered(session')
    BY <2>1, <2>2, ConnectNumbered
  <2>4. session'.snapshots = session.snapshots
    BY <2>1, <2>2, NothingListed
  <2>5. session'.sequence - session'.snapshots = session.sequence - session.snapshots
    BY <2>1, <2>2, ClientsArrive DEF Arrives
  <2>6. QED
    BY <2>1, <2>2, <2>3, <2>4, <2>5, NextDelivered DEF ListsAtMostOne, DInv
<1>2. CASE ~PictureShowsTimeout
  BY <1>2 DEF ViewerAlive, DInv
<1>3. QED
  BY <1>1, <1>2

\* The ack of a heartbeat leaves the last picture the last.
LEMMA AckQueued ==
    ASSUME NEW v \in Viewer, NEW s \in Session, NEW from \in Endpoints,
           v.endpoint # NoEndpoint \/ NoSender \in Senders, Issued(v, s), UpToDate(v, s),
           NEW w, w = [v EXCEPT !.heard = "Recent",
                                !.pending = Append(@, [sequence |-> 0, to |-> from])]
    PROVE  w \in Viewer /\ Issued(w, s) /\ UpToDate(w, s)
<1> DEFINE ack == [sequence |-> 0, to |-> from]
<1>1. v.pending \in Seq(Outgoing) /\ ack \in Outgoing /\ s.sequence \in Nat
  BY DEF Viewer, Outgoing, Session
<1>2. /\ w.pending = Append(v.pending, ack) /\ w.endpoint = v.endpoint /\ w.sent = v.sent
      /\ w.pending \in Seq(Outgoing)
  BY <1>1 DEF Viewer
<1>3. w \in Viewer
  <2>1. w = [v EXCEPT !.heard = "Recent", !.pending = Append(@, ack)]
    OBVIOUS
  <2>2. Append(v.pending, ack) \in Seq(Outgoing)
    BY <1>1
  <2> HIDE DEF ack
  <2>3. QED
    BY <2>1, <2>2 DEF Viewer
<1>4. /\ Len(w.pending) = Len(v.pending) + 1 /\ Len(v.pending) \in Nat
      /\ \A i \in 1 .. Len(v.pending) : w.pending[i] = v.pending[i]
      /\ w.pending[Len(v.pending) + 1].sequence = 0
  <2>1. ack.sequence = 0
    OBVIOUS
  <2> HIDE DEF ack
  <2>2. QED
    BY <1>1, <1>2, <2>1, AppendParts
<1>5. Issued(w, s)
  <2>1. \A i \in 1 .. Len(w.pending) : i \in 1 .. Len(v.pending) \/ i = Len(v.pending) + 1
    BY <1>4
  <2>2. QED
    BY <1>1, <1>4, <2>1 DEF Issued
<1>6. \A i \in 1 .. Len(w.pending) :
         PictureQueued(w, i) => i \in 1 .. Len(v.pending) /\ PictureQueued(v, i)
  BY <1>2, <1>4 DEF PictureQueued
<1>7. \A i \in 1 .. Len(v.pending) : PictureQueued(v, i) => PictureQueued(w, i)
  BY <1>2, <1>4 DEF PictureQueued
<1>8. ASSUME NEW i \in 1 .. Len(w.pending), PictureQueued(w, i),
             w.pending[i].sequence # s.sequence
      PROVE  v.endpoint # NoEndpoint => \E k \in i + 1 .. Len(w.pending) : PictureQueued(w, k)
  <2>0. HAVE v.endpoint # NoEndpoint
  <2>1. i \in 1 .. Len(v.pending) /\ PictureQueued(v, i) /\ v.pending[i].sequence # s.sequence
    BY <1>4, <1>6, <1>8
  <2>2. PICK k \in i + 1 .. Len(v.pending) : PictureQueued(v, k)
    BY <2>0, <2>1 DEF UpToDate, LastIs
  <2>3. k \in 1 .. Len(v.pending) /\ k \in i + 1 .. Len(w.pending)
    BY <1>4, <2>2
  <2>4. QED
    BY <1>7, <2>2, <2>3
<1>9. UpToDate(w, s)
  <2>1. CASE v.endpoint = NoEndpoint
    BY <1>2, <1>4, <2>1 DEF UpToDate
  <2>2. CASE v.endpoint # NoEndpoint
    BY <1>2, <1>8, <2>2 DEF UpToDate, LastIs
  <2>3. QED
    BY <2>1, <2>2
<1>10. QED
  BY <1>3, <1>5, <1>9

\* Datagrams keep the viewer up to date: a registration rewinds and delivers.
LEMMA DatagramDInv ==
    ASSUME IInv, TInv, DInv, IInv', ReceiveDatagram
    PROVE  DInv'
<1>0. /\ session \in Session /\ session' \in Session /\ viewer \in Viewer /\ Numbered(session)
      /\ "TacticalDisplay" \in ClientRole
  BY DEF IInv, Sound, TInv, ClientRole
<1>1. PICK d \in Datagrams :
         \/ d.kind = "session_join" /\ ViewerJoin(d)
         \/ d.kind = "display_heartbeat" /\ DisplayHeartbeat(d)
         \/ d.kind = "ignored" /\ UNCHANGED <<session, viewer>>
  BY DEF ReceiveDatagram
<1>2. d.sender \in Senders /\ d.from \in Endpoints /\ d.from # NoEndpoint
  BY TrafficTyped, ClientsIdentified DEF Datagram
<1>3. CASE UNCHANGED <<session, viewer>>
  BY <1>3, QuietDInv
<1>4. CASE DisplayHeartbeat(d) /\ AcceptsHeartbeat(d)
  <2> DEFINE v == [viewer EXCEPT !.heard = "Recent",
                                 !.pending = Append(@, [sequence |-> 0, to |-> d.from])]
  <2>1. viewer.endpoint # NoEndpoint \/ NoSender \in Senders
    BY <1>2, <1>4 DEF AcceptsHeartbeat, TInv, BindingsAgree
  <2>2. v \in Viewer /\ Issued(v, session) /\ UpToDate(v, session)
    BY <1>0, <1>2, <2>1, AckQueued DEF DInv
  <2>3. ViewerAlive(v)
    BY <1>4 DEF DisplayHeartbeat
  <2> HIDE DEF v
  <2>4. QED
    BY <2>2, <2>3, ViewerAliveDInv
<1>5. CASE ViewerJoin(d)
  <2>1. CASE viewer.endpoint # NoEndpoint /\ viewer.sender # NoSender /\ d.sender # viewer.sender
    BY <1>5, <2>1, ConsoleStepDInv DEF ViewerJoin
  <2>2. CASE viewer.endpoint = d.from /\ viewer.sender = d.sender
    <3> DEFINE v == [viewer EXCEPT !.heard = "Recent"]
    <3>1. /\ v \in Viewer /\ v.pending = viewer.pending /\ v.endpoint = viewer.endpoint
          /\ v.sent = viewer.sent
      BY <1>0 DEF Viewer
    <3>2. ViewerAlive(v)
      BY <1>2, <1>5, <2>2 DEF ViewerJoin
    <3> HIDE DEF v
    <3>3. Issued(v, session) /\ UpToDate(v, session)
      BY <3>1 DEF DInv, Issued, UpToDate, LastIs, PictureQueued
    <3>4. QED
      BY <3>1, <3>2, <3>3, ViewerAliveDInv
  <2>3. CASE /\ ~(viewer.endpoint # NoEndpoint /\ viewer.sender # NoSender
                    /\ d.sender # viewer.sender)
             /\ ~(viewer.endpoint = d.from /\ viewer.sender = d.sender)
    <3> DEFINE bound == [viewer EXCEPT !.sender = d.sender, !.endpoint = d.from,
                                       !.heard = "Recent"]
    <3>1. /\ bound \in Viewer /\ bound.endpoint = d.from /\ bound.pending = viewer.pending
      BY <1>0, <1>2 DEF Viewer
    <3>2. /\ session' = ConnectClient(session, "TacticalDisplay")
          /\ viewer' = SendPendingSnapshots(ResetViewerDeliveryCursor(bound, session), session')
      BY <1>5, <2>3 DEF ViewerJoin
    <3> HIDE DEF bound
    <3>3. Numbered(session')
      BY <1>0, <3>2, ConnectNumbered
    <3>4. session'.snapshots = session.snapshots
      BY <1>0, <3>2, NothingListed
    <3>5. session'.sequence - session'.snapshots = session.sequence - session.snapshots
      BY <1>0, <3>2, ClientsArrive DEF Arrives
    <3>6. session'.sequence = session.sequence
      BY <1>0, <3>4, <3>5 DEF Session
    <3>7. Issued(bound, session')
      BY <3>1, <3>4, <3>6 DEF DInv, Issued
    <3>8. QED
      BY <1>0, <1>2, <3>1, <3>2, <3>3, <3>4, <3>7, RewoundDelivered DEF DInv
  <2>4. QED
    BY <2>1, <2>2, <2>3
<1>6. QED
  BY <1>1, <1>3, <1>4, <1>5 DEF DisplayHeartbeat

\* An operation that lists at most one snapshot and delivers it.
LEMMA PublishedDInv ==
    ASSUME IInv, TInv, DInv, session' \in Session, Steady(session, session'),
           ListsAtMostOne(session, session'), viewer' = SendPendingSnapshots(viewer, session')
    PROVE  DInv'
<1>1. session \in Session /\ viewer \in Viewer /\ Numbered(session')
  BY SteadyNumbered DEF IInv, Sound, TInv
<1>2. QED
  BY <1>1, NextDelivered DEF DInv, Steady

\* Ticks, the end of the loop and refused connections keep it.
LEMMA TickDInv ==
    ASSUME IInv, TInv, DInv, IInv', RefuseConnection \/ Tick \/ LoopEnd
    PROVE  DInv'
<1>0. session \in Session /\ session' \in Session
  BY DEF IInv, Sound
<1>1. CASE RefuseConnection
  BY <1>1, ConsoleStepDInv DEF RefuseConnection
<1>2. CASE LoopEnd
  <2>1. CASE session' = session /\ viewer' = viewer
    BY <2>1, QuietDInv
  <2>2. CASE session' = ArchiveSession(session) /\ viewer' = SendPendingSnapshots(viewer, session')
    BY <1>0, <2>2, CommandsSteady, CommandsListOne, PublishedDInv
  <2>3. QED
    BY <1>2, <2>1, <2>2 DEF LoopEnd
<1>3. CASE Tick /\ ~HeartbeatOverdue
  BY <1>0, <1>3, AdvanceTickSteady, TickListsOne, PublishedDInv DEF Tick
<1>4. CASE Tick /\ HeartbeatOverdue
  <2> DEFINE released == TimeoutClient(session, "TacticalDisplay")
  <2>1. released \in Session
    BY <1>0, ClientOperationsType DEF ClientRole
  <2>2. released.snapshots = session.snapshots + 1
    BY <1>0 DEF TimeoutClient, RecordSnapshot, PushEvent, Session
  <2>3. PICK hit \in BOOLEAN, inFov \in BOOLEAN : session' = AdvanceTick(released, hit, inFov)
    BY <1>4 DEF Tick
  <2> HIDE DEF released
  <2>4. ListsAtMostOne(released, session')
    BY <2>1, <2>3, TickListsOne
  <2>5. session'.snapshots # 0
    BY <1>0, <2>2, <2>4 DEF ListsAtMostOne, Session
  <2>6. viewer' = NoViewer
    BY <1>4 DEF Tick, SendPendingSnapshots, NoViewer
  <2>7. viewer'.pending = <<>> /\ viewer'.endpoint = NoEndpoint /\ Len(<<>>) = 0
    BY <2>6 DEF NoViewer
  <2>8. QED
    BY <2>5, <2>7 DEF DInv, Issued, UpToDate
<1>5. QED
  BY <1>1, <1>2, <1>3, <1>4

\* Every frame keeps the viewer up to date: what lists a snapshot delivers it, and a
\* reset rewinds to the one snapshot it leaves.
LEMMA FramesDInv ==
    ASSUME IInv, TInv, DInv, IInv',
           \/ SessionJoin \/ SessionLeave \/ ScenarioStart \/ ScenarioStop \/ ScenarioReset
           \/ TrackAcquire \/ TrackDrop \/ InterceptorReady \/ EngageOrder
           \/ AarRequest \/ MalformedAarRequest \/ MalformedFrame
    PROVE  DInv'
<1>0. /\ session \in Session /\ session' \in Session /\ viewer \in Viewer /\ Numbered(session)
  BY DEF IInv, Sound, TInv
<1>1. RefuseFrame => DInv'
  BY ConsoleStepDInv DEF RefuseFrame
<1>2. CASE TrackAcquire \/ TrackDrop \/ InterceptorReady \/ EngageOrder
  <2>1. \/ RefuseFrame
        \/ /\ \/ session' = RequestTrack(session) \/ session' = ReleaseTrack(session)
              \/ session' = ActivateAsset(session) \/ session' = IssueCommand(session)
           /\ viewer' = SendPendingSnapshots(viewer, session')
    BY <1>2 DEF TrackAcquire, TrackDrop, InterceptorReady, EngageOrder, MissionCommand
  <2>2. QED
    BY <1>0, <1>1, <2>1, TrackCommandsSteady, CommandsSteady, CommandsListOne, PublishedDInv
<1>3. CASE ScenarioStart
  <2> DEFINE configured == ConfigureScenario(session, Current.req.timeout)
  <2>1. CASE RefuseFrame
    BY <1>1, <2>1
  <2>2. CASE ~RefuseFrame
    <3>1. console.buffer # <<>>
      BY <1>3 DEF ScenarioStart, Processing
    <3>2. Current.req.timeout \in EngagementTimeouts
      BY <3>1, TakenType DEF IInv, Frame, Request
    <3>3. configured \in Session /\ Steady(session, configured)
      BY <1>0, <3>2, ConfigureScenarioType, ConfigureScenarioSteady
    <3>4. configured.snapshots = session.snapshots
      BY <1>0, NothingListed DEF ClientRole
    <3>5. StartScenario(configured) \in Session /\ Steady(configured, StartScenario(configured))
      BY <3>3, StartScenarioType, StartScenarioSteady
    <3>6. Steady(session, StartScenario(configured))
      BY <1>0, <3>3, <3>5, SteadyTransitive
    <3>7. ListsAtMostOne(session, StartScenario(configured))
      BY <3>3, <3>4, CommandsListOne DEF ListsAtMostOne
    <3>8. session' = StartScenario(configured) /\ viewer' = SendPendingSnapshots(viewer, session')
      BY <1>3, <2>2 DEF ScenarioStart
    <3> HIDE DEF configured
    <3>9. QED
      BY <1>0, <3>6, <3>7, <3>8, PublishedDInv
  <2>3. QED
    BY <2>1, <2>2
<1>4. CASE ScenarioStop
  BY <1>0, <1>1, <1>4, CommandsSteady, CommandsListOne, PublishedDInv DEF ScenarioStop
<1>5. CASE ScenarioReset /\ ~RefuseFrame
  <2>1. /\ session' = ResetSession(session)
        /\ viewer' = SendPendingSnapshots(ResetViewerDeliveryCursor(viewer, session'), session')
    BY <1>5 DEF ScenarioReset
  <2>2. session'.snapshots = 1 /\ session'.sequence = session.sequence + 1
    BY <1>0, <2>1, ResetSessionPresence
  <2>3. Numbered(session') /\ session.sequence \in Nat
    BY <1>0, <2>2 DEF Numbered, Session
  <2>4. \A i \in 1 .. Len(viewer.pending) : viewer.pending[i].sequence \in Nat
    BY <1>0, QueuedNumbers DEF Viewer
  <2>5. Issued(viewer, session')
    BY <2>2, <2>3, <2>4 DEF DInv, Issued
  <2>6. QED
    BY <1>0, <2>1, <2>3, <2>5, RewoundDelivered DEF DInv, UpToDate
<1>6. CASE SessionJoin
  BY <1>1, <1>6, ConsoleStepDInv DEF SessionJoin
<1>7. CASE SessionLeave
  BY <1>1, <1>7, ConsoleStepDInv DEF SessionLeave, DisconnectConsole
<1>8. CASE AarRequest
  BY <1>1, <1>8, ConsoleStepDInv DEF AarRequest
<1>9. CASE MalformedAarRequest \/ MalformedFrame
  BY <1>9, ConsoleStepDInv DEF MalformedAarRequest, MalformedFrame
<1>10. QED
  BY <1>1, <1>2, <1>3, <1>4, <1>5, <1>6, <1>7, <1>8, <1>9

\* Steps that touch neither the session's numbers nor the queue, and flushes.
LEMMA IdleDInv ==
    ASSUME IInv, TInv, DInv,
           \/ BeginPoll \/ NobodyConnects \/ AcceptConnection
           \/ FlushBeforeReading \/ DatagramsDone
           \/ NothingToRead \/ ReadStream \/ ReadEndOfStream \/ ReadFailure \/ FlushAfterReading
           \/ ConsoleAsks \/ ConsoleEnds \/ HeartbeatExpires \/ Signal \/ UNCHANGED vars
    PROVE  DInv'
<1>1. CASE FlushBeforeReading \/ FlushAfterReading
  BY <1>1, FlushDInv
<1>2. CASE HeartbeatExpires
  <2>1. /\ viewer'.pending = viewer.pending /\ viewer'.endpoint = viewer.endpoint
        /\ viewer'.sent = viewer.sent /\ session' = session
    BY <1>2 DEF HeartbeatExpires, TInv, Viewer
  <2>2. QED
    BY <2>1, QuietDInv
<1>3. CASE ReadEndOfStream
  BY <1>3, ConsoleStepDInv DEF ReadEndOfStream, DisconnectConsole
<1>4. CASE \/ BeginPoll \/ NobodyConnects \/ AcceptConnection \/ DatagramsDone \/ NothingToRead
           \/ ReadStream \/ ReadFailure \/ ConsoleAsks \/ ConsoleEnds \/ Signal \/ UNCHANGED vars
  <2>1. session' = session /\ viewer' = viewer
    BY <1>4 DEF BeginPoll, NobodyConnects, AcceptConnection, DatagramsDone, NothingToRead,
                ReadStream, ReadFailure, ConsoleAsks, ConsoleEnds, Signal, vars, clientVars
  <2>2. QED
    BY <2>1, QuietDInv
<1>5. QED
  BY <1>1, <1>2, <1>3, <1>4

--------------------------------------------------------------------------------
(****************************************************************************)
(* Answers and the frames they belong to                                    *)
(****************************************************************************)

\* AnswersInOrder for the numbers a that are awaited, the answers p that are queued
\* and the frames u that are unread; none of these has a number above top.
Orderly(a, p, u, top) ==
    /\ Len(p) <= Len(a)
    /\ \A i \in 1 .. Len(p) : a[i] = p[i].n
    /\ \A i \in Len(p) + 1 .. Len(a) :
          \E k \in 1 .. Len(u) : u[k].req.kind # "malformed" /\ a[i] = u[k].n
    /\ \A k \in 1 .. Len(u) : u[k].req.kind # "malformed" =>
          \E i \in Len(p) + 1 .. Len(a) : a[i] = u[k].n
    /\ \A i, j \in Len(p) + 1 .. Len(a) : i < j => a[i] < a[j]
    /\ \A k, l \in 1 .. Len(u) : k < l => u[k].n < u[l].n
    /\ \A k \in 1 .. Len(u) : u[k].n <= top

\* The fourth inductive invariant.  Without a connection nothing is left of one.
AInv ==
    /\ console.link = "None" =>
          console.pending = <<>> /\ console.buffer = <<>> /\ stream = <<>> /\ awaiting = <<>>
    /\ Orderly(awaiting, console.pending, Unread, asked)

\* The queues of the invariant have the types of their parts.
QueuesTyped ==
    /\ awaiting \in Seq(Nat) /\ console.pending \in Seq(Answer) /\ console.buffer \in Seq(Frame)
    /\ stream \in Seq(Frame) /\ Unread \in Seq(Frame) /\ asked \in Nat

LEMMA QueuesType ==
    ASSUME IInv, ControlType
    PROVE  QueuesTyped
<1>1. console.pending \in Seq(Answer) /\ console.buffer \in Seq(Frame) /\ stream \in Seq(Frame)
  BY DEF IInv, Console
<1>2. Unread \in Seq(Frame)
  BY <1>1, ConcatProperties DEF Unread
<1>3. QED
  BY <1>1, <1>2 DEF QueuesTyped, IInv, ControlType

\* The number of a queued frame.
LEMMA FrameNumbers ==
    ASSUME NEW u \in Seq(Frame), NEW k \in 1 .. Len(u)
    PROVE  u[k] \in Frame /\ u[k].n \in Nat
<1>1. u[k] \in Frame
  OBVIOUS
<1>2. QED
  BY <1>1 DEF Frame

\* The first frame that awaits an answer is the one the console awaits next: both
\* lists rise and hold the same numbers.
LEMMA NextAwaited ==
    ASSUME NEW a \in Seq(Nat), NEW p \in Seq(Answer), NEW u \in Seq(Frame), NEW top \in Nat,
           Orderly(a, p, u, top), u # <<>>, u[1].req.kind # "malformed"
    PROVE  Len(p) + 1 <= Len(a) /\ a[Len(p) + 1] = u[1].n
<1>1. Len(u) \in Nat \ {0} /\ Len(p) \in Nat /\ Len(a) \in Nat
  BY EmptySeq
<1>2. \A k \in 1 .. Len(u) : u[k].n \in Nat
  BY FrameNumbers
<1>3. \A i \in 1 .. Len(a) : a[i] \in Nat
  OBVIOUS
<1>4. PICK i \in Len(p) + 1 .. Len(a) : a[i] = u[1].n
  BY <1>1 DEF Orderly
<1>5. Len(p) + 1 \in Len(p) + 1 .. Len(a)
  BY <1>1, <1>4
<1>6. PICK k \in 1 .. Len(u) : a[Len(p) + 1] = u[k].n
  BY <1>5 DEF Orderly
<1>7. u[1].n <= u[k].n
  <2>1. ASSUME k # 1 PROVE u[1].n < u[k].n
    <3>1. 1 \in 1 .. Len(u) /\ 1 < k
      BY <1>1, <2>1
    <3>2. QED
      BY <3>1 DEF Orderly
  <2>2. QED
    BY <1>1, <1>2, <2>1
<1>8. CASE i = Len(p) + 1
  <2>1. Len(p) + 1 <= Len(a)
    BY <1>1, <1>5
  <2>2. QED
    BY <1>4, <1>8, <2>1
<1>9. CASE i # Len(p) + 1
  <2>1. Len(p) + 1 < i
    BY <1>1, <1>9
  <2>2. a[Len(p) + 1] < a[i]
    BY <1>5, <2>1 DEF Orderly
  <2>3. u[k].n < u[1].n /\ u[1].n \in Nat /\ u[k].n \in Nat
    BY <1>1, <1>2, <1>4, <1>6, <2>2
  <2>4. QED
    BY <1>7, <2>3, SMTT(30)
<1>10. QED
  BY <1>8, <1>9

\* Tail of a queue, by its elements.
LEMMA TailElements ==
    ASSUME NEW S, NEW u \in Seq(S), u # <<>>
    PROVE  /\ Tail(u) \in Seq(S) /\ Len(u) \in Nat \ {0} /\ Len(Tail(u)) = Len(u) - 1
           /\ \A k \in 1 .. Len(Tail(u)) : Tail(u)[k] = u[k + 1]
BY HeadTailProperties, EmptySeq

\* An element behind the first is one place further forward in the tail.
LEMMA TailIndex ==
    ASSUME NEW S, NEW u \in Seq(S), u # <<>>, NEW k \in 1 .. Len(u), k # 1
    PROVE  \E l \in 1 .. Len(Tail(u)) : l + 1 = k /\ Tail(u)[l] = u[k]
<1>1. /\ Len(u) \in Nat \ {0} /\ Len(Tail(u)) = Len(u) - 1
      /\ \A l \in 1 .. Len(Tail(u)) : Tail(u)[l] = u[l + 1]
  BY TailElements
<1>2. k - 1 \in 1 .. Len(u) - 1 /\ (k - 1) + 1 = k
  BY <1>1
<1>3. k - 1 \in 1 .. Len(Tail(u))
  BY <1>1, <1>2
<1>4. Tail(u)[k - 1] = u[k]
  BY <1>1, <1>2, <1>3
<1>5. QED
  BY <1>2, <1>3, <1>4

\* An element put after another queue is put after both.
LEMMA AppendToConcat ==
    ASSUME NEW S, NEW a \in Seq(S), NEW b \in Seq(S), NEW x \in S
    PROVE  a \o Append(b, x) = Append(a \o b, x)
<1>1. Len(a) \in Nat /\ Len(b) \in Nat
  OBVIOUS
<1> DEFINE y == Append(b, x)
           ab == a \o b
           c == a \o y
           d == Append(ab, x)
<1>2. /\ y \in Seq(S) /\ Len(y) = Len(b) + 1
      /\ \A i \in 1 .. Len(b) : y[i] = b[i]
      /\ y[Len(b) + 1] = x
  BY AppendParts
<1> HIDE DEF y
<1>3. /\ ab \in Seq(S) /\ Len(ab) = Len(a) + Len(b)
      /\ \A i \in 1 .. Len(a) : ab[i] = a[i]
      /\ \A i \in Len(a) + 1 .. Len(a) + Len(b) : ab[i] = b[i - Len(a)]
  BY ConcatParts
<1>4. /\ c \in Seq(S) /\ Len(c) = Len(a) + Len(y)
      /\ \A i \in 1 .. Len(a) : c[i] = a[i]
      /\ \A i \in Len(a) + 1 .. Len(a) + Len(y) : c[i] = y[i - Len(a)]
  BY <1>2, ConcatParts
<1> HIDE DEF ab
<1>5. /\ d \in Seq(S) /\ Len(d) = Len(ab) + 1
      /\ \A i \in 1 .. Len(ab) : d[i] = ab[i]
      /\ d[Len(ab) + 1] = x
  BY <1>3, AppendParts
<1> HIDE DEF c, d
<1>6. Len(y) = Len(b) + 1 /\ Len(ab) = Len(a) + Len(b) /\ Len(d) = Len(a) + Len(b) + 1
  BY <1>1, <1>2, <1>3, <1>5
<1>7. ASSUME NEW i \in 1 .. Len(d) PROVE c[i] = d[i]
  <2>1. CASE i \in 1 .. Len(a)
    <3>1. i \in 1 .. Len(ab)
      BY <1>1, <1>6, <2>1
    <3>2. QED
      BY <1>3, <1>4, <1>5, <2>1, <3>1
  <2>2. CASE i \in Len(a) + 1 .. Len(a) + Len(b)
    <3>1. /\ i \in 1 .. Len(ab) /\ i - Len(a) \in 1 .. Len(b)
          /\ i \in Len(a) + 1 .. Len(a) + Len(y)
      BY <1>1, <1>6, <2>2
    <3>2. c[i] = y[i - Len(a)] /\ d[i] = ab[i]
      BY <1>4, <1>5, <3>1
    <3>3. ab[i] = b[i - Len(a)]
      BY <1>3, <2>2
    <3>4. y[i - Len(a)] = b[i - Len(a)]
      BY <1>2, <3>1
    <3>5. QED
      BY <3>2, <3>3, <3>4
  <2>3. CASE i = Len(a) + Len(b) + 1
    <3>1. i \in Len(a) + 1 .. Len(a) + Len(y) /\ i - Len(a) = Len(b) + 1 /\ i = Len(ab) + 1
      BY <1>1, <1>6, <2>3
    <3>2. c[i] = y[i - Len(a)] /\ d[i] = x
      BY <1>4, <1>5, <3>1
    <3>3. QED
      BY <1>2, <3>1, <3>2
  <2>4. i \in 1 .. Len(a) \/ i \in Len(a) + 1 .. Len(a) + Len(b) \/ i = Len(a) + Len(b) + 1
    BY <1>1, <1>6
  <2>5. QED
    BY <2>1, <2>2, <2>3, <2>4
<1>8. Len(c) = Len(d)
  BY <1>1, <1>4, <1>6
<1>9. c = d
  BY <1>4, <1>5, <1>7, <1>8, SeqEqual
<1>10. QED
  BY <1>9 DEF c, d, y, ab

\* Answering the first frame keeps the order.
LEMMA AnsweredOrderly ==
    ASSUME NEW a \in Seq(Nat), NEW p \in Seq(Answer), NEW u \in Seq(Frame), NEW top \in Nat,
           Orderly(a, p, u, top), u # <<>>, u[1].req.kind # "malformed",
           NEW accepted \in BOOLEAN
    PROVE  Orderly(a, Append(p, [n |-> u[1].n, accepted |-> accepted]), Tail(u), top)
<1> DEFINE answer == [n |-> u[1].n, accepted |-> accepted]
           q == Append(p, answer)
           t == Tail(u)
<1>1. Len(p) + 1 <= Len(a) /\ a[Len(p) + 1] = u[1].n
  BY NextAwaited
<1>2. /\ t \in Seq(Frame) /\ Len(u) \in Nat \ {0} /\ Len(t) = Len(u) - 1
      /\ \A k \in 1 .. Len(t) : t[k] = u[k + 1]
  BY TailElements
<1>3. \A k \in 1 .. Len(u) : u[k].n \in Nat
  BY FrameNumbers
<1>4. Len(p) \in Nat /\ Len(a) \in Nat /\ \A i \in 1 .. Len(a) : a[i] \in Nat
  OBVIOUS
<1>5. /\ Len(q) = Len(p) + 1 /\ q[Len(p) + 1].n = u[1].n
      /\ \A i \in 1 .. Len(p) : q[i] = p[i]
  <2>1. answer \in Answer
    BY <1>2, <1>3 DEF Answer
  <2>2. answer.n = u[1].n
    OBVIOUS
  <2> HIDE DEF answer
  <2>3. QED
    BY <2>1, <2>2
<1> HIDE DEF q, t
<1>6. \A i \in 1 .. Len(q) : a[i] = q[i].n
  <2>1. ASSUME NEW i \in 1 .. Len(q) PROVE a[i] = q[i].n
    <3>1. CASE i = Len(p) + 1
      BY <1>1, <1>5, <3>1
    <3>2. CASE i \in 1 .. Len(p)
      BY <1>5, <3>2 DEF Orderly
    <3>3. QED
      BY <1>4, <1>5, <3>1, <3>2
  <2>2. QED
    BY <2>1
<1>7. ASSUME NEW i \in Len(q) + 1 .. Len(a), NEW j \in Len(q) + 1 .. Len(a), i < j
      PROVE  a[i] < a[j]
  <2>1. i \in Len(p) + 1 .. Len(a) /\ j \in Len(p) + 1 .. Len(a)
    BY <1>4, <1>5
  <2>2. QED
    BY <1>7, <2>1 DEF Orderly
<1>8. \A k \in 1 .. Len(t) : k + 1 \in 1 .. Len(u) /\ t[k] = u[k + 1] /\ u[1].n < u[k + 1].n
  <2>1. \A k, l \in 1 .. Len(u) : k < l => u[k].n < u[l].n
    BY DEF Orderly
  <2>2. QED
    BY <1>2, <2>1
<1>9. ASSUME NEW i \in Len(q) + 1 .. Len(a)
      PROVE  \E k \in 1 .. Len(t) : t[k].req.kind # "malformed" /\ a[i] = t[k].n
  <2>1. i \in Len(p) + 1 .. Len(a) /\ Len(p) + 1 \in Len(p) + 1 .. Len(a) /\ Len(p) + 1 < i
    BY <1>1, <1>4, <1>5
  <2>2. a[Len(p) + 1] < a[i]
    BY <2>1 DEF Orderly
  <2>3. PICK k \in 1 .. Len(u) : u[k].req.kind # "malformed" /\ a[i] = u[k].n
    BY <2>1 DEF Orderly
  <2>4. k # 1
    BY <1>1, <1>2, <1>3, <2>2, <2>3
  <2>5. PICK l \in 1 .. Len(t) : t[l] = u[k]
    BY <2>4, TailIndex DEF t
  <2>6. QED
    BY <2>3, <2>5
<1>10. ASSUME NEW k \in 1 .. Len(t), t[k].req.kind # "malformed"
       PROVE  \E i \in Len(q) + 1 .. Len(a) : a[i] = t[k].n
  <2>1. u[k + 1].req.kind # "malformed" /\ k + 1 \in 1 .. Len(u)
    BY <1>8, <1>10
  <2>2. PICK i \in Len(p) + 1 .. Len(a) : a[i] = u[k + 1].n
    BY <2>1 DEF Orderly
  <2>3. u[1].n < u[k + 1].n /\ u[1].n \in Nat
    BY <1>2, <1>3, <1>8, SMTT(30)
  <2>4. i # Len(p) + 1
    BY <1>1, <2>1, <2>2, <2>3, <1>3
  <2>5. i \in Len(q) + 1 .. Len(a)
    BY <1>4, <1>5, <2>2, <2>4
  <2>6. QED
    BY <1>8, <2>2, <2>5
<1>11. /\ \A k, l \in 1 .. Len(t) : k < l => t[k].n < t[l].n
       /\ \A k \in 1 .. Len(t) : t[k].n <= top
  <2>1. /\ \A k, l \in 1 .. Len(u) : k < l => u[k].n < u[l].n
        /\ \A k \in 1 .. Len(u) : u[k].n <= top
    BY DEF Orderly
  <2>2. \A k, l \in 1 .. Len(t) : k < l => k + 1 < l + 1
    BY <1>2
  <2>3. QED
    BY <1>8, <2>1, <2>2
<1>12. Len(q) <= Len(a)
  BY <1>1, <1>5
<1>13. Orderly(a, q, t, top)
  BY <1>6, <1>7, <1>9, <1>10, <1>11, <1>12 DEF Orderly
<1>14. QED
  BY <1>13 DEF q, t, answer

\* Dropping a first frame that gets no answer keeps the order.
LEMMA DroppedOrderly ==
    ASSUME NEW a \in Seq(Nat), NEW p \in Seq(Answer), NEW u \in Seq(Frame), NEW top \in Nat,
           Orderly(a, p, u, top), u # <<>>, u[1].req.kind = "malformed"
    PROVE  Orderly(a, p, Tail(u), top)
<1> DEFINE t == Tail(u)
<1>1. /\ t \in Seq(Frame) /\ Len(u) \in Nat \ {0} /\ Len(t) = Len(u) - 1
      /\ \A k \in 1 .. Len(t) : t[k] = u[k + 1]
  BY TailElements
<1> HIDE DEF t
<1>2. \A k \in 1 .. Len(t) : k + 1 \in 1 .. Len(u) /\ t[k] = u[k + 1]
  BY <1>1
<1>3. \A i \in Len(p) + 1 .. Len(a) :
         \E k \in 1 .. Len(t) : t[k].req.kind # "malformed" /\ a[i] = t[k].n
  <2> SUFFICES ASSUME NEW i \in Len(p) + 1 .. Len(a)
               PROVE  \E k \in 1 .. Len(t) : t[k].req.kind # "malformed" /\ a[i] = t[k].n
    OBVIOUS
  <2>1. PICK k \in 1 .. Len(u) : u[k].req.kind # "malformed" /\ a[i] = u[k].n
    BY DEF Orderly
  <2>2. k # 1
    BY <2>1
  <2>3. PICK l \in 1 .. Len(t) : t[l] = u[k]
    BY <2>2, TailIndex DEF t
  <2>4. QED
    BY <2>1, <2>3
<1>4. ASSUME NEW k \in 1 .. Len(t), t[k].req.kind # "malformed"
      PROVE  \E i \in Len(p) + 1 .. Len(a) : a[i] = t[k].n
  <2>1. k + 1 \in 1 .. Len(u) /\ u[k + 1].req.kind # "malformed"
    BY <1>2, <1>4
  <2>2. PICK i \in Len(p) + 1 .. Len(a) : a[i] = u[k + 1].n
    BY <2>1 DEF Orderly
  <2>3. QED
    BY <1>2, <2>2
<1>5. /\ \A k, l \in 1 .. Len(t) : k < l => t[k].n < t[l].n
      /\ \A k \in 1 .. Len(t) : t[k].n <= top
  <2>1. /\ \A k, l \in 1 .. Len(u) : k < l => u[k].n < u[l].n
        /\ \A k \in 1 .. Len(u) : u[k].n <= top
    BY DEF Orderly
  <2>2. \A k, l \in 1 .. Len(t) : k < l => k + 1 < l + 1
    BY <1>1
  <2>3. QED
    BY <1>2, <2>1, <2>2
<1>6. Orderly(a, p, t, top)
  BY <1>3, <1>4, <1>5 DEF Orderly
<1>7. QED
  BY <1>6 DEF t

\* A frame sent after all others keeps the order; it is awaited if it parses.
LEMMA AskedOrderly ==
    ASSUME NEW a \in Seq(Nat), NEW p \in Seq(Answer), NEW u \in Seq(Frame), NEW top \in Nat,
           Orderly(a, p, u, top), NEW r \in Request, NEW b, NEW v,
           b = IF r.kind = "malformed" THEN a ELSE Append(a, top + 1),
           v = Append(u, [n |-> top + 1, req |-> r])
    PROVE  Orderly(b, p, v, top + 1)
<1> DEFINE f == [n |-> top + 1, req |-> r]
<1>1. f \in Frame /\ f.n = top + 1 /\ f.req = r
  BY DEF Frame
<1>2. /\ Len(u) \in Nat /\ Len(v) = Len(u) + 1 /\ v[Len(u) + 1] = f
      /\ \A k \in 1 .. Len(u) : v[k] = u[k]
  BY <1>1
<1> HIDE DEF f
<1>3. \A k \in 1 .. Len(v) : k \in 1 .. Len(u) \/ k = Len(u) + 1
  BY <1>2
<1>4. \A k \in 1 .. Len(u) : u[k].n \in Nat /\ u[k].n <= top
  <2>1. \A k \in 1 .. Len(u) : u[k].n \in Nat
    BY FrameNumbers
  <2>2. \A k \in 1 .. Len(u) : u[k].n <= top
    BY DEF Orderly
  <2>3. QED
    BY <2>1, <2>2
<1>5. Len(a) \in Nat /\ Len(p) \in Nat /\ Len(p) <= Len(a) /\ \A i \in 1 .. Len(a) : a[i] \in Nat
  BY DEF Orderly
<1>6. \A i \in Len(p) + 1 .. Len(a) : a[i] <= top
  BY <1>4 DEF Orderly
<1>7. /\ Len(b) \in Nat /\ Len(a) <= Len(b)
      /\ \A i \in 1 .. Len(a) : b[i] = a[i]
      /\ r.kind = "malformed" => Len(b) = Len(a)
      /\ r.kind # "malformed" => Len(b) = Len(a) + 1 /\ b[Len(a) + 1] = top + 1
  <2>1. CASE r.kind = "malformed"
    BY <1>5, <2>1
  <2>2. CASE r.kind # "malformed"
    <3>1. b = Append(a, top + 1)
      BY <2>2
    <3>2. QED
      BY <1>5, <2>2, <3>1
  <2>3. QED
    BY <2>1, <2>2
<1>8. \A i \in Len(p) + 1 .. Len(b) :
         i \in Len(p) + 1 .. Len(a) \/ (r.kind # "malformed" /\ i = Len(a) + 1)
  BY <1>5, <1>7
<1>9. \A i \in 1 .. Len(p) : b[i] = p[i].n
  BY <1>5, <1>7 DEF Orderly
<1>10. ASSUME NEW i \in Len(p) + 1 .. Len(b)
       PROVE  \E k \in 1 .. Len(v) : v[k].req.kind # "malformed" /\ b[i] = v[k].n
  <2>1. CASE i \in Len(p) + 1 .. Len(a)
    <3>1. PICK k \in 1 .. Len(u) : u[k].req.kind # "malformed" /\ a[i] = u[k].n
      BY <2>1 DEF Orderly
    <3>2. k \in 1 .. Len(v) /\ v[k] = u[k] /\ b[i] = a[i]
      BY <1>2, <1>5, <1>7, <2>1
    <3>3. QED
      BY <3>1, <3>2
  <2>2. CASE r.kind # "malformed" /\ i = Len(a) + 1
    <3>1. Len(u) + 1 \in 1 .. Len(v)
      BY <1>2
    <3>2. QED
      BY <1>1, <1>2, <1>7, <2>2, <3>1
  <2>3. QED
    BY <1>8, <2>1, <2>2
<1>11. ASSUME NEW k \in 1 .. Len(v), v[k].req.kind # "malformed"
       PROVE  \E i \in Len(p) + 1 .. Len(b) : b[i] = v[k].n
  <2>1. CASE k \in 1 .. Len(u)
    <3>1. PICK i \in Len(p) + 1 .. Len(a) : a[i] = u[k].n
      BY <1>2, <1>11, <2>1 DEF Orderly
    <3>2. i \in Len(p) + 1 .. Len(b) /\ b[i] = a[i]
      BY <1>5, <1>7
    <3>3. QED
      BY <1>2, <2>1, <3>1, <3>2
  <2>2. CASE k = Len(u) + 1
    <3>1. r.kind # "malformed" /\ v[k].n = top + 1
      BY <1>1, <1>2, <1>11, <2>2
    <3>2. Len(a) + 1 \in Len(p) + 1 .. Len(b)
      BY <1>5, <1>7, <3>1
    <3>3. QED
      BY <1>7, <3>1, <3>2
  <2>3. QED
    BY <1>3, <2>1, <2>2
<1>12. \A i, j \in Len(p) + 1 .. Len(b) : i < j => b[i] < b[j]
  <2> SUFFICES ASSUME NEW i \in Len(p) + 1 .. Len(b), NEW j \in Len(p) + 1 .. Len(b), i < j
               PROVE  b[i] < b[j]
    OBVIOUS
  <2>1. i \in Len(p) + 1 .. Len(a) /\ b[i] = a[i] /\ a[i] \in Nat /\ a[i] <= top
    BY <1>5, <1>6, <1>7, <1>8
  <2>2. CASE j \in Len(p) + 1 .. Len(a)
    BY <1>5, <1>7, <2>1, <2>2 DEF Orderly
  <2>3. CASE r.kind # "malformed" /\ j = Len(a) + 1
    BY <1>7, <2>1, <2>3
  <2>4. QED
    BY <1>8, <2>2, <2>3
<1>13. /\ \A k, l \in 1 .. Len(v) : k < l => v[k].n < v[l].n
       /\ \A k \in 1 .. Len(v) : v[k].n <= top + 1
  <2>1. \A k, l \in 1 .. Len(u) : k < l => u[k].n < u[l].n
    BY DEF Orderly
  <2>2. \A k \in 1 .. Len(v) : v[k].n <= top + 1
    BY <1>1, <1>2, <1>3, <1>4
  <2>3. ASSUME NEW k \in 1 .. Len(v), NEW l \in 1 .. Len(v), k < l
        PROVE  v[k].n < v[l].n
    <3>1. k \in 1 .. Len(u)
      BY <1>2, <1>3, <2>3
    <3>2. CASE l \in 1 .. Len(u)
      BY <1>2, <2>1, <2>3, <3>1, <3>2
    <3>3. CASE l = Len(u) + 1
      BY <1>1, <1>2, <1>4, <3>1, <3>3
    <3>4. QED
      BY <1>3, <3>2, <3>3
  <2>4. QED
    BY <2>2, <2>3
<1>14. Len(p) <= Len(b)
  BY <1>5, <1>7
<1>15. QED
  BY <1>9, <1>10, <1>11, <1>12, <1>13, <1>14 DEF Orderly

\* A console takes its answers in order; what is left is in order.
LEMMA TakenAnswersOrderly ==
    ASSUME NEW a \in Seq(Nat), NEW p \in Seq(Answer), NEW u \in Seq(Frame), NEW top \in Nat,
           Orderly(a, p, u, top), NEW k \in 0 .. Len(p)
    PROVE  Orderly(Rest(a, k), Rest(p, k), u, top)
<1> DEFINE b == Rest(a, k)
           q == Rest(p, k)
<1>1. Len(p) \in Nat /\ Len(a) \in Nat /\ Len(p) <= Len(a)
  BY DEF Orderly
<1>2. /\ Len(q) = Len(p) - k
      /\ \A i \in 1 .. Len(p) - k : q[i] = p[i + k]
  <2>1. \A i \in k + 1 .. Len(p) : p[i] \in Answer
    OBVIOUS
  <2>2. QED
    BY <1>1, <2>1 DEF Rest
<1>3. /\ Len(b) = Len(a) - k
      /\ \A i \in 1 .. Len(a) - k : b[i] = a[i + k]
  <2>1. \A i \in k + 1 .. Len(a) : a[i] \in Nat
    OBVIOUS
  <2>2. QED
    BY <1>1, <2>1 DEF Rest
<1> HIDE DEF b, q
<1>0. Len(q) = Len(p) - k /\ Len(b) = Len(a) - k
  BY <1>2, <1>3
<1>4. Len(q) <= Len(b)
  BY <1>0, <1>1
<1>5. \A i \in 1 .. Len(q) : b[i] = q[i].n
  <2>1. \A i \in 1 .. Len(p) : a[i] = p[i].n
    BY DEF Orderly
  <2>2. ASSUME NEW i \in 1 .. Len(q)
        PROVE  i + k \in 1 .. Len(p) /\ i \in 1 .. Len(p) - k /\ i \in 1 .. Len(a) - k
    BY <1>1, <1>0
  <2>3. QED
    BY <1>2, <1>3, <2>1, <2>2
<1>6. ASSUME NEW i \in Len(q) + 1 .. Len(b)
      PROVE  i + k \in Len(p) + 1 .. Len(a) /\ b[i] = a[i + k]
  <2>1. i + k \in Len(p) + 1 .. Len(a) /\ i \in 1 .. Len(a) - k
    BY <1>0, <1>1
  <2>2. QED
    BY <1>3, <2>1
<1>7. ASSUME NEW i \in Len(q) + 1 .. Len(b)
      PROVE  \E m \in 1 .. Len(u) : u[m].req.kind # "malformed" /\ b[i] = u[m].n
  <2>1. i + k \in Len(p) + 1 .. Len(a) /\ b[i] = a[i + k]
    BY <1>6
  <2>2. PICK m \in 1 .. Len(u) : u[m].req.kind # "malformed" /\ a[i + k] = u[m].n
    BY <2>1 DEF Orderly
  <2>3. QED
    BY <2>1, <2>2
<1>8. ASSUME NEW m \in 1 .. Len(u), u[m].req.kind # "malformed"
      PROVE  \E i \in Len(q) + 1 .. Len(b) : b[i] = u[m].n
  <2>1. PICK i \in Len(p) + 1 .. Len(a) : a[i] = u[m].n
    BY <1>8 DEF Orderly
  <2>2. i - k \in Len(q) + 1 .. Len(b) /\ (i - k) + k = i
    <3>2. i \in Int /\ k \in Int /\ Len(p) + 1 <= i /\ i <= Len(a)
      BY <1>1
    <3>3. Len(q) + 1 <= i - k /\ i - k <= Len(b) /\ i - k \in Int /\ (i - k) + k = i
      BY <1>0, <1>1, <3>2
    <3>4. QED
      BY <1>0, <1>1, <3>2, <3>3
  <2>3. QED
    BY <1>6, <2>1, <2>2
<1>9. \A i, j \in Len(q) + 1 .. Len(b) : i < j => b[i] < b[j]
  <2> SUFFICES ASSUME NEW i \in Len(q) + 1 .. Len(b), NEW j \in Len(q) + 1 .. Len(b), i < j
               PROVE  b[i] < b[j]
    OBVIOUS
  <2>1. i + k < j + k
    BY <1>0, <1>1
  <2>2. /\ i + k \in Len(p) + 1 .. Len(a) /\ b[i] = a[i + k]
        /\ j + k \in Len(p) + 1 .. Len(a) /\ b[j] = a[j + k]
    BY <1>6
  <2>3. a[i + k] < a[j + k]
    BY <2>1, <2>2 DEF Orderly
  <2>4. QED
    BY <2>2, <2>3
<1>10. /\ \A i, j \in 1 .. Len(u) : i < j => u[i].n < u[j].n
       /\ \A i \in 1 .. Len(u) : u[i].n <= top
  BY DEF Orderly
<1>11. Orderly(b, q, u, top)
  BY <1>4, <1>5, <1>7, <1>8, <1>9, <1>10 DEF Orderly
<1>12. QED
  BY <1>11 DEF b, q

\* Taking the first element before or after another queue is appended.
LEMMA TailOfConcat ==
    ASSUME NEW S, NEW a \in Seq(S), a # <<>>, NEW b \in Seq(S)
    PROVE  Tail(a) \o b = Tail(a \o b)
<1>1. /\ Tail(a) \in Seq(S) /\ Len(a) \in Nat \ {0} /\ Len(Tail(a)) = Len(a) - 1
      /\ \A k \in 1 .. Len(Tail(a)) : Tail(a)[k] = a[k + 1]
  BY TailElements
<1>2. /\ a \o b \in Seq(S) /\ Len(a \o b) = Len(a) + Len(b) /\ Len(b) \in Nat
      /\ \A i \in 1 .. Len(a) : (a \o b)[i] = a[i]
      /\ \A i \in Len(a) + 1 .. Len(a) + Len(b) : (a \o b)[i] = b[i - Len(a)]
  BY ConcatProperties, LenProperties
<1>3. a \o b # <<>>
  BY <1>1, <1>2, EmptySeq
<1>4. /\ Tail(a \o b) \in Seq(S) /\ Len(Tail(a \o b)) = Len(a) + Len(b) - 1
      /\ \A k \in 1 .. Len(a) + Len(b) - 1 : Tail(a \o b)[k] = (a \o b)[k + 1]
  BY <1>2, <1>3, TailElements
<1>5. /\ Tail(a) \o b \in Seq(S) /\ Len(Tail(a) \o b) = Len(a) - 1 + Len(b)
      /\ \A i \in 1 .. Len(a) - 1 : (Tail(a) \o b)[i] = a[i + 1]
      /\ \A i \in Len(a) .. Len(a) + Len(b) - 1 : (Tail(a) \o b)[i] = b[i - (Len(a) - 1)]
  BY <1>1, <1>2, ConcatProperties
<1> DEFINE c == Tail(a) \o b
           d == Tail(a \o b)
<1>6. ASSUME NEW i \in 1 .. Len(a) + Len(b) - 1 PROVE (Tail(a) \o b)[i] = Tail(a \o b)[i]
  <2>1. CASE i \in 1 .. Len(a) - 1
    BY <1>1, <1>2, <1>4, <1>5, <2>1
  <2>2. CASE i \in Len(a) .. Len(a) + Len(b) - 1
    <3>1. i + 1 \in Len(a) + 1 .. Len(a) + Len(b) /\ (i + 1) - Len(a) = i - (Len(a) - 1)
      BY <1>1, <1>2, <2>2
    <3>2. QED
      BY <1>2, <1>4, <1>5, <1>6, <2>2, <3>1
  <2>3. QED
    BY <1>1, <1>2, <1>6, <2>1, <2>2
<1>7. Len(c) = Len(d) /\ c \in Seq(S) /\ d \in Seq(S) /\ Len(d) = Len(a) + Len(b) - 1
  BY <1>1, <1>2, <1>4, <1>5
<1>8. \A i \in 1 .. Len(d) : c[i] = d[i]
  BY <1>6, <1>7
<1> HIDE DEF c, d
<1>9. c = d
  BY <1>7, <1>8, SeqEqual
<1>10. QED
  BY <1>9 DEF c, d

\* The first unread frame is the first of the buffer.
LEMMA UnreadFirst ==
    ASSUME QueuesTyped, console.buffer # <<>>
    PROVE  /\ Unread # <<>> /\ Unread[1] = Current
           /\ Tail(console.buffer) \o stream = Tail(Unread)
<1>1. console.buffer \in Seq(Frame) /\ stream \in Seq(Frame)
  BY DEF QueuesTyped
<1>2. /\ Len(console.buffer) \in Nat \ {0} /\ Len(Unread) = Len(console.buffer) + Len(stream)
      /\ Unread[1] = console.buffer[1]
  BY <1>1, EmptySeq, ConcatProperties DEF Unread
<1>3. Tail(console.buffer) \o stream = Tail(console.buffer \o stream)
  BY <1>1, TailOfConcat
<1>4. QED
  BY <1>1, <1>2, <1>3 DEF Current, Unread

\* An answer to the first frame, sent with or without a sender id bound.
LEMMA AnsweredAInv ==
    ASSUME QueuesTyped, LinkInv, AInv, console \in Console, console.buffer # <<>>,
           Current.req.kind # "malformed", NEW accepted \in BOOLEAN,
           \/ console' = Replied(Taken, Current.n, accepted)
           \/ \E id : console' = Replied([Taken EXCEPT !.sender = id], Current.n, accepted),
           stream' = stream, awaiting' = awaiting, asked' = asked
    PROVE  AInv'
<1> DEFINE answer == [n |-> Current.n, accepted |-> accepted]
<1>1. console.link # "None"
  BY DEF LinkInv
<1>2. /\ console'.link = console.link /\ console'.buffer = Tail(console.buffer)
      /\ console'.pending = Append(console.pending, answer)
  BY <1>1 DEF Replied, Taken, Console
<1>3. Unread # <<>> /\ Unread[1] = Current /\ Unread' = Tail(Unread)
  BY <1>2, UnreadFirst DEF Unread
<1>4. Orderly(awaiting, Append(console.pending, [n |-> Unread[1].n, accepted |-> accepted]),
              Tail(Unread), asked)
  BY <1>3, AnsweredOrderly DEF QueuesTyped, AInv
<1>5. Orderly(awaiting', console'.pending, Unread', asked')
  BY <1>2, <1>3, <1>4
<1>6. QED
  BY <1>1, <1>2, <1>5 DEF AInv

\* The same queues are in the same order.
LEMMA SameAInv ==
    ASSUME AInv, console'.link = console.link, console'.pending = console.pending,
           console'.buffer = console.buffer, stream' = stream, awaiting' = awaiting,
           asked' = asked
    PROVE  AInv'
BY DEF AInv, Unread

\* Nothing is left of a connection that has ended.
LEMMA GoneAInv ==
    ASSUME QueuesTyped, DisconnectConsole, asked' = asked
    PROVE  AInv'
<1>1. /\ console'.link = "None" /\ console'.pending = <<>> /\ console'.buffer = <<>>
      /\ stream' = <<>> /\ awaiting' = <<>>
  BY DEF DisconnectConsole, ConsoleDisconnected, NoConsole
<1>2. Unread' = <<>>
  BY <1>1 DEF Unread
<1>3. Orderly(<<>>, <<>>, <<>>, asked')
  BY DEF Orderly
<1>4. QED
  BY <1>1, <1>2, <1>3 DEF AInv

\* Every frame is answered in its turn or, when it does not parse, dropped.
LEMMA FramesAInv ==
    ASSUME IInv, QueuesTyped, LinkInv, AInv,
           \/ SessionJoin \/ SessionLeave \/ ScenarioStart \/ ScenarioStop \/ ScenarioReset
           \/ TrackAcquire \/ TrackDrop \/ InterceptorReady \/ EngageOrder
           \/ AarRequest \/ MalformedAarRequest \/ MalformedFrame
    PROVE  AInv'
<1>0. console \in Console
  BY DEF IInv
<1>1. CASE MalformedFrame
  <2>1. /\ console.buffer # <<>> /\ Current.req.kind = "malformed"
        /\ console' = Taken /\ stream' = stream /\ awaiting' = awaiting /\ asked' = asked
    BY <1>1 DEF MalformedFrame, Processing, FrameUnchanged, ConnectionUnchanged
  <2>2. /\ console'.link = console.link /\ console'.buffer = Tail(console.buffer)
        /\ console'.pending = console.pending
    BY <1>0, <2>1 DEF Taken, Console
  <2>3. Unread # <<>> /\ Unread[1] = Current /\ Unread' = Tail(Unread)
    BY <2>1, <2>2, UnreadFirst DEF Unread
  <2>4. Orderly(awaiting, console.pending, Tail(Unread), asked)
    BY <2>1, <2>3, DroppedOrderly DEF QueuesTyped, AInv
  <2>5. console.link # "None"
    BY <2>1 DEF LinkInv
  <2>6. QED
    BY <2>1, <2>2, <2>3, <2>4, <2>5 DEF AInv
<1>2. CASE SessionLeave
  <2>1. asked' = asked
    BY <1>2 DEF SessionLeave
  <2>2. CASE DisconnectConsole
    BY <2>1, <2>2, GoneAInv
  <2>3. CASE ~DisconnectConsole
    <3>1. /\ console.buffer # <<>> /\ Current.req.kind # "malformed"
          /\ \/ UNCHANGED <<console, stream, awaiting>>
             \/ /\ ConnectionUnchanged
                /\ \E accepted \in BOOLEAN : console' = Replied(Taken, Current.n, accepted)
      BY <1>2, <2>3 DEF SessionLeave, Processing, RefuseFrame
    <3>2. CASE UNCHANGED <<console, stream, awaiting>>
      BY <2>1, <3>2, SameAInv
    <3>3. QED
      BY <1>0, <2>1, <3>1, <3>2, AnsweredAInv DEF ConnectionUnchanged
  <2>4. QED
    BY <2>2, <2>3
<1>3. CASE \/ SessionJoin \/ ScenarioStart \/ ScenarioStop \/ ScenarioReset
           \/ TrackAcquire \/ TrackDrop \/ InterceptorReady \/ EngageOrder
           \/ AarRequest \/ MalformedAarRequest
  <2>1. /\ console.buffer # <<>> /\ FrameUnchanged /\ ConnectionUnchanged
        /\ Current.req.kind # "malformed"
    BY <1>3 DEF SessionJoin, ScenarioStart, ScenarioStop, ScenarioReset, MissionCommand,
                TrackAcquire, TrackDrop, InterceptorReady, EngageOrder, AarRequest,
                MalformedAarRequest, Processing
  <2>2. \A t : Accepted(session, t) \in BOOLEAN
    BY DEF Accepted
  <2>3. \E accepted \in BOOLEAN :
           \/ console' = Replied(Taken, Current.n, accepted)
           \/ \E id : console' = Replied([Taken EXCEPT !.sender = id], Current.n, accepted)
    BY <1>3, <2>2
    DEF SessionJoin, ScenarioStart, ScenarioStop, ScenarioReset, MissionCommand,
        TrackAcquire, TrackDrop, InterceptorReady, EngageOrder, AarRequest,
        MalformedAarRequest, RefuseFrame
  <2>4. QED
    BY <1>0, <2>1, <2>3, AnsweredAInv DEF FrameUnchanged, ConnectionUnchanged
<1>4. QED
  BY <1>1, <1>2, <1>3

\* Reads, flushes, questions and everything else keep the order.
LEMMA OthersAInv ==
    ASSUME IInv, QueuesTyped, AInv,
           \/ BeginPoll \/ RefuseConnection \/ AcceptConnection \/ NobodyConnects
           \/ FlushBeforeReading \/ ReceiveDatagram \/ DatagramsDone
           \/ NothingToRead \/ ReadStream \/ ReadEndOfStream \/ ReadFailure
           \/ FlushAfterReading \/ Tick \/ LoopEnd
           \/ ConsoleAsks \/ ConsoleEnds \/ HeartbeatExpires \/ Signal \/ UNCHANGED vars
    PROVE  AInv'
<1>0. console \in Console
  BY DEF IInv
<1>1. CASE \/ BeginPoll \/ RefuseConnection \/ NobodyConnects \/ ReceiveDatagram
           \/ DatagramsDone \/ NothingToRead \/ ReadFailure \/ Tick \/ LoopEnd
           \/ HeartbeatExpires \/ Signal \/ UNCHANGED vars
  <2>1. UNCHANGED <<console, stream, awaiting, asked>>
    BY <1>1 DEF BeginPoll, RefuseConnection, NobodyConnects, ReceiveDatagram, DatagramsDone,
                NothingToRead, ReadFailure, Tick, LoopEnd, HeartbeatExpires, Signal,
                clientVars, vars
  <2>2. QED
    BY <2>1, SameAInv
<1>2. CASE AcceptConnection
  <2>1. /\ console.link = "None" /\ console'.pending = console.pending
        /\ console'.buffer = console.buffer /\ console'.link = "Open"
        /\ stream' = stream /\ awaiting' = awaiting /\ asked' = asked
    BY <1>0, <1>2 DEF AcceptConnection, Console
  <2>2. QED
    BY <2>1 DEF AInv, Unread
<1>3. CASE ConsoleEnds
  <2>1. /\ console.link # "None" /\ console'.pending = console.pending
        /\ console'.buffer = console.buffer /\ console'.link # "None"
        /\ stream' = stream /\ awaiting' = awaiting /\ asked' = asked
    BY <1>0, <1>3 DEF ConsoleEnds, Console, clientVars
  <2>2. QED
    BY <2>1 DEF AInv, Unread
<1>4. CASE FlushBeforeReading \/ FlushAfterReading
  <2>1. /\ stream' = stream /\ asked' = asked
        /\ \/ UNCHANGED <<console, awaiting>>
           \/ \E k \in 0 .. Len(console.pending) :
                 /\ console' = [console EXCEPT !.pending = Rest(@, k)]
                 /\ awaiting' = Rest(awaiting, k)
    BY <1>4 DEF FlushBeforeReading, FlushAfterReading, FlushThen, FlushUnchanged
  <2>2. CASE UNCHANGED <<console, awaiting>>
    BY <2>1, <2>2, SameAInv
  <2>3. ASSUME NEW k \in 0 .. Len(console.pending),
               console' = [console EXCEPT !.pending = Rest(@, k)], awaiting' = Rest(awaiting, k)
        PROVE  AInv'
    <3>1. /\ console'.link = console.link /\ console'.buffer = console.buffer
          /\ console'.pending = Rest(console.pending, k) /\ Unread' = Unread
      BY <1>0, <2>1, <2>3 DEF Console, Unread
    <3>2. Orderly(awaiting', console'.pending, Unread', asked')
      BY <2>1, <2>3, <3>1, TakenAnswersOrderly DEF QueuesTyped, AInv
    <3>3. CASE console.link = "None"
      <4>1. /\ console.pending = <<>> /\ console.buffer = <<>> /\ stream = <<>>
            /\ awaiting = <<>>
        BY <3>3 DEF AInv
      <4>2. Rest(<<>>, k) = <<>>
        BY <4>1, <2>3 DEF Rest
      <4>3. QED
        BY <2>1, <2>3, <3>1, <3>2, <4>1, <4>2 DEF AInv
    <3>4. QED
      BY <3>1, <3>2, <3>3 DEF AInv
  <2>4. QED
    BY <2>1, <2>2, <2>3
<1>5. CASE ReadStream
  <2>1. /\ console.link # "None" /\ console'.link = console.link
        /\ console'.pending = console.pending /\ console'.buffer = console.buffer \o stream
        /\ stream' = <<>> /\ awaiting' = awaiting /\ asked' = asked
    BY <1>0, <1>5 DEF ReadStream, Console
  <2>2. Unread' = Unread
    BY <2>1, ConcatEmptySeq DEF Unread, QueuesTyped
  <2>3. QED
    BY <2>1, <2>2 DEF AInv
<1>6. CASE ReadEndOfStream
  BY <1>6, GoneAInv DEF ReadEndOfStream
<1>7. CASE ConsoleAsks
  <2>1. PICK r \in Requests :
           /\ stream' = Append(stream, [n |-> asked + 1, req |-> r])
           /\ awaiting' = IF r.kind = "malformed" THEN awaiting ELSE Append(awaiting, asked + 1)
    BY <1>7 DEF ConsoleAsks
  <2>2. console' = console /\ asked' = asked + 1 /\ console.link # "None" /\ r \in Request
    BY <1>7, TrafficTyped DEF ConsoleAsks
  <2>3. Unread' = Append(Unread, [n |-> asked + 1, req |-> r])
    <3>1. [n |-> asked + 1, req |-> r] \in Frame
      BY <2>2 DEF Frame, QueuesTyped
    <3>2. ASSUME NEW f \in Frame
          PROVE  console.buffer \o Append(stream, f) = Append(console.buffer \o stream, f)
      <4>1. PICK a \in Seq(Frame), b \in Seq(Frame) : a = console.buffer /\ b = stream
        BY DEF QueuesTyped
      <4>2. a \o Append(b, f) = Append(a \o b, f)
        BY AppendToConcat
      <4>3. QED
        BY <4>1, <4>2
    <3>3. QED
      BY <2>1, <2>2, <3>1, <3>2 DEF Unread
  <2>4. Orderly(awaiting', console.pending, Unread', asked + 1)
    BY <2>1, <2>2, <2>3, AskedOrderly DEF QueuesTyped, AInv
  <2>5. QED
    BY <2>2, <2>4 DEF AInv
<1>8. QED
  BY <1>1, <1>2, <1>3, <1>4, <1>5, <1>6, <1>7

--------------------------------------------------------------------------------
(****************************************************************************)
(* The theorems                                                             *)
(****************************************************************************)

\* The invariants of the transport hold throughout.
LEMMA SpecTInv == Spec => [](IInv /\ ControlType /\ LinkInv /\ TInv)
<1>1. Init => ControlType /\ LinkInv /\ TInv
  <2> SUFFICES ASSUME Init PROVE ControlType /\ LinkInv /\ TInv
    OBVIOUS
  <2>1. <<>> \in Seq(Nat) /\ <<>> \in Seq(Outgoing)
    OBVIOUS
  <2>2. ControlType /\ LinkInv
    BY <2>1 DEF Init, ControlType, LinkInv, NoConsole
  <2>3. viewer \in Viewer /\ replay \in Cursor
    BY <2>1 DEF Init, NoViewer, Viewer, NoCursor, Cursor
  <2>4. PICK t \in EngagementTimeouts : session = NewSession(t)
    BY DEF Init
  <2>5. /\ session.snapshots = 0 /\ session.sequence = 0 /\ session.log.size = 0
        /\ \A r \in ClientRole : session.connection[r] = "Disconnected"
    BY <2>4 DEF NewSession, EmptyLog
  <2>6. Numbered(session) /\ InLog(replay, session.log.size)
    BY <2>5 DEF Init, NoCursor, Numbered, InLog
  <2>7. BindingsAgree
    BY <2>5 DEF Init, BindingsAgree, NoConsole, NoViewer, Present, ClientRole
  <2>8. QED
    BY <2>2, <2>3, <2>6, <2>7 DEF TInv
<1>2. ASSUME IInv, IInv', LinkInv, TInv, [Next]_vars PROVE TInv'
  <2>1. CASE ReadEndOfStream
    BY <1>2, <2>1, DisconnectTInv DEF ReadEndOfStream
  <2>2. CASE UNCHANGED vars
    BY <1>2, <2>2 DEF TInv, BindingsAgree, HeardWithoutId, vars
  <2>3. QED
    BY <1>2, <2>1, <2>2, IdleTInv, TickTInv, DatagramTInv, FramesTInv DEF Next, Server
<1>3. IInv /\ IInv' /\ ControlType /\ LinkInv /\ TInv /\ [Next]_vars
        => ControlType' /\ LinkInv' /\ TInv'
  <2>1. IInv /\ IInv' /\ ControlType /\ [Next]_vars => ControlType'
    BY ControlTypeNext DEF IInv
  <2>2. QED
    BY <1>2, <2>1, LinkInvNext
<1>4. QED
  BY <1>1, <1>3, SpecIInv, PTL DEF Spec

\* Every member of the transport keeps its C++ type, the numbers in the queued
\* datagrams included: no number is computed from a list longer than the count.
THEOREM TransportTyped == Spec => []TypeOK
<1>1. IInv /\ ControlType /\ TInv => TypeOK
  BY DEF IInv, Sound, ControlType, TInv, TypeOK
<1>2. QED
  BY <1>1, SpecTInv, PTL

\* The session's connections are the transport's: one console while a sender id is
\* bound to an accepted connection, one display while an endpoint is registered.
THEOREM BindingsTrue == Spec => []BindingsAgree
<1>1. TInv => BindingsAgree
  BY DEF TInv
<1>2. QED
  BY <1>1, SpecTInv, PTL

\* The review cursor is a place in the present log, also after a reset.
THEOREM ReviewInLog == Spec => []ReplayInLog
<1>1. TInv => ReplayInLog
  BY DEF TInv, InLog, ReplayInLog
<1>2. QED
  BY <1>1, SpecTInv, PTL

\* What is queued for the viewer and for the console is as the properties want it.
LEMMA SpecQueues == Spec => [](DInv /\ AInv)
<1>1. Init => DInv /\ AInv
  <2> SUFFICES ASSUME Init PROVE DInv /\ AInv
    OBVIOUS
  <2>1. PICK t \in EngagementTimeouts : session = NewSession(t)
    BY DEF Init
  <2>2. session.snapshots = 0 /\ session.sequence = 0
    BY <2>1 DEF NewSession
  <2>3. DInv
    BY <2>2 DEF Init, NoViewer, DInv, Issued, UpToDate
  <2>4. AInv
    BY DEF Init, NoConsole, AInv, Orderly, Unread
  <2>5. QED
    BY <2>3, <2>4
<1>2. IInv /\ IInv' /\ TInv /\ DInv /\ [Next]_vars => DInv'
  BY IdleDInv, TickDInv, DatagramDInv, FramesDInv DEF Next, Server
<1>3. IInv /\ ControlType /\ LinkInv /\ AInv /\ [Next]_vars => AInv'
  BY QueuesType, FramesAInv, OthersAInv DEF Next, Server
<1>4. QED
  BY <1>1, <1>2, <1>3, SpecTInv, PTL DEF Spec

\* The viewer is never behind: what the session lists is queued for the registered
\* endpoint in the same handler, whatever registers, times out, resets or is lost.
THEOREM ViewerNeverBehind == Spec => []DeliveryCurrent
<1>1. DInv => DeliveryCurrent
  BY DEF DInv, UpToDate, LastIs, DeliveryCurrent
<1>2. QED
  BY <1>1, SpecQueues, PTL

\* Every frame that parses is answered once, in its turn and on its connection.
THEOREM AnswersMatchFrames == Spec => []AnswersInOrder
<1>1. ASSUME AInv, console.link # "None" PROVE AnswersInOrder
  <2> DEFINE open == Len(console.pending) + 1 .. Len(awaiting)
             asking == {k \in 1 .. Len(Unread) : Unread[k].req.kind # "malformed"}
  <2>1. Orderly(awaiting, console.pending, Unread, asked)
    BY <1>1 DEF AInv
  <2>2. {awaiting[i] : i \in open} = {Unread[k].n : k \in asking}
    <3>1. \A i \in open : \E k \in asking : awaiting[i] = Unread[k].n
      BY <2>1 DEF Orderly
    <3>2. \A k \in asking : \E i \in open : awaiting[i] = Unread[k].n
      BY <2>1 DEF Orderly
    <3> HIDE DEF open, asking
    <3>3. QED
      BY <3>1, <3>2
  <2>3. QED
    BY <1>1, <2>1, <2>2 DEF Orderly, AnswersInOrder
<1>2. AInv => AnswersInOrder
  BY <1>1 DEF AInv, AnswersInOrder
<1>3. QED
  BY <1>2, SpecQueues, PTL
================================================================================
