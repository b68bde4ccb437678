--------------------------- MODULE InProcessTransport ---------------------------
(****************************************************************************)
(* The in_process transport: the session behind the same interface as       *)
(* socket_live, called directly.  It knows its clients by the sender ids    *)
(* they connected with and admits a mission command only in the name of the *)
(* console.  One action is one call of the interface; "served" remembers    *)
(* which command was dispatched last, for the properties.                   *)
(*                                                                          *)
(* Source: common/src/transport_inprocess.cpp                               *)
(****************************************************************************)
EXTENDS SessionInvariants

CONSTANTS
    Senders,    \* the sender ids clients connect with
    MaxTick, MaxSequence, MaxRejections, MaxTrackUpdates, MaxChurn   \* bounds of a run

NoSender == 0

ASSUME SendersAreIds == Senders \subseteq Nat \ {NoSender}

ASSUME RunBounded == {MaxTick, MaxSequence, MaxRejections, MaxTrackUpdates, MaxChurn} \subseteq Nat

CommandKind == {"track_acquire", "track_drop", "interceptor_ready", "engage_order"}

\* A payload: its envelope, and whether it names the session and the entities.
Payload == [kind : CommandKind, sender : Senders, sessionOk : BOOLEAN, entitiesOk : BOOLEAN]

NoPayload == [kind |-> "none"]

VARIABLES
    session,
    commandSender,   \* command_sender_id_
    viewerSender,    \* viewer_sender_id_
    served           \* the payload dispatched by the last step

vars == <<session, commandSender, viewerSender, served>>

Init ==
    /\ \E t \in EngagementTimeouts : session = NewSession(t)
    /\ commandSender = NoSender /\ viewerSender = NoSender
    /\ served = NoPayload

\* The bounds, as in SimulationSession.
ClientsAct ==
    session.log.count["ClientLeft"] + session.log.count["ResilienceTriggered"] < MaxChurn
OperatorActs ==
    /\ session.log.count["EngageOrderRejected"] < MaxRejections
    /\ session.log.count["TrackUpdated"] < MaxTrackUpdates

--------------------------------------------------------------------------------
Identified(role, sender) ==
    IF role = "FireControlConsole"
    THEN commandSender' = sender /\ viewerSender' = viewerSender
    ELSE viewerSender' = sender /\ commandSender' = commandSender

Connect(role, sender) ==
    /\ ClientsAct
    /\ Identified(role, sender)
    /\ session' = ConnectClient(session, role)
    /\ served' = NoPayload

Disconnect(role) ==
    /\ ClientsAct
    /\ Identified(role, NoSender)
    /\ session' = DisconnectClient(session, role)
    /\ served' = NoPayload

\* The sender stays: a client that timed out is not forgotten, unlike in socket_live.
Timeout(role) ==
    /\ ClientsAct
    /\ session' = TimeoutClient(session, role)
    /\ served' = NoPayload
    /\ UNCHANGED <<commandSender, viewerSender>>

--------------------------------------------------------------------------------
\* Mutant: any connected console may name any sender.
ValidEnvelopeAnySender(p) == commandSender # NoSender /\ p.sessionOk

\* validate_envelope
ValidEnvelope(p) == commandSender # NoSender /\ p.sessionOk /\ p.sender = commandSender

\* reject_payload
RejectPayload(s) == RecordTransportRejection(s)

\* Mutant: two of the overloads make each other's call.
CommandedCrossed(s, kind) ==
    CASE kind = "track_acquire"     -> ReleaseTrack(s)
      [] kind = "track_drop"        -> RequestTrack(s)
      [] kind = "interceptor_ready" -> ActivateAsset(s)
      [] kind = "engage_order"      -> IssueCommand(s)

Commanded(s, kind) ==
    CASE kind = "track_acquire"     -> RequestTrack(s)
      [] kind = "track_drop"        -> ReleaseTrack(s)
      [] kind = "interceptor_ready" -> ActivateAsset(s)
      [] kind = "engage_order"      -> IssueCommand(s)

\* The four overloads of dispatch.
Dispatch(p) ==
    /\ OperatorActs
    /\ session' = IF ValidEnvelope(p) /\ p.entitiesOk THEN Commanded(session, p.kind)
                                                      ELSE RejectPayload(session)
    /\ served' = p
    /\ UNCHANGED <<commandSender, viewerSender>>

\* The calls that go straight to the session.
Passed(s) == session' = s /\ served' = NoPayload /\ UNCHANGED <<commandSender, viewerSender>>

Start == OperatorActs /\ Passed(StartScenario(session))
Reset == session.sequence < MaxSequence /\ Passed(ResetSession(session))
Archive == Passed(ArchiveSession(session))
Advance(hit, inFov) == session.tick < MaxTick /\ Passed(AdvanceTick(session, hit, inFov))
Tick == \E hit, inFov \in BOOLEAN : Advance(hit, inFov)

Next ==
    \/ \E role \in ClientRole, sender \in Senders : Connect(role, sender)
    \/ \E role \in ClientRole : Disconnect(role) \/ Timeout(role)
    \/ \E p \in Payload : Dispatch(p)
    \/ Start \/ Reset \/ Archive \/ Tick

Spec == Init /\ [][Next]_vars
--------------------------------------------------------------------------------
(****************************************************************************)
(* Properties                                                               *)
(****************************************************************************)

\* Every field keeps its C++ type.
TypeOK ==
    /\ session \in Session
    /\ {commandSender, viewerSender} \subseteq Senders \cup {NoSender}
    /\ served \in Payload \cup {NoPayload}

\* The transport and the session agree on who is there, whatever joins, leaves,
\* timeouts and resets came before: an id is kept only for a client the session
\* does not call disconnected, and every client it calls connected has one.  (A
\* timeout after the leave is the gap: timed out, and known by no id.)
SendersMatchConnections ==
    \A role \in ClientRole :
        LET sender == IF role = "FireControlConsole" THEN commandSender ELSE viewerSender
        IN  /\ sender # NoSender => session.connection[role] # "Disconnected"
            /\ session.connection[role] \in Present => sender # NoSender

\* What a command may move: all of the session except its log.
Mission(s) == <<s.phase, s.tick, s.sequence, s.track, s.targetActive, s.assetActive,
                s.interceptor, s.order, s.ready, s.code, s.started, s.seekerLock, s.latest>>

\* A command in another's name, after the console has left, or for another
\* session or target, moves nothing, in whatever state it comes: unlike a command
\* the session itself rejects, it cannot spoil an order that is under way.
RefusalHarmless ==
    [][/\ served' # NoPayload
       /\ \/ served'.sender # commandSender \/ ~served'.sessionOk \/ ~served'.entitiesOk
          \/ session.connection["FireControlConsole"] = "Disconnected"
       => Mission(session') = Mission(session)]_vars
================================================================================
