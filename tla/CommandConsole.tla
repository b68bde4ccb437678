----------------------------- MODULE CommandConsole -----------------------------
(****************************************************************************)
(* The command console program against the live server.  A run of the       *)
(* program joins, starts the configured scenario, acquires the track,       *)
(* readies the interceptor and orders the engagement, each after the answer *)
(* to the one before; then it asks for the after-action review every 50 ms  *)
(* until the assessment is no longer pending.  A refusal, a missing answer  *)
(* or too many pending reviews end it with an exception.  It never leaves   *)
(* the session and never resets it; several runs may follow each other, and *)
(* one may be tried while another holds the connection.                     *)
(*                                                                          *)
(* The server is SocketLiveTransport; what its consoles may do is narrowed  *)
(* to what this program does.                                               *)
(*                                                                          *)
(* Source: clients/command-console/src/main.cpp                             *)
(****************************************************************************)
EXTENDS SocketLiveTransport

CONSTANTS
    ConsoleTimeout,   \* scenario.engagement_timeout_ticks of the console's own configuration
    ConsoleSender     \* options.sender_id

ASSUME ConsoleConfigured ==
    ConsoleTimeout \in EngagementTimeouts /\ ConsoleSender \in Senders

Script == <<"session_join", "scenario_start", "track_acquire", "interceptor_ready",
            "engage_order", "aar_request">>

Outcome == {"verdict", "refused", "no_answer", "no_verdict"}

VARIABLES
    at,         \* the place in the script; 0 when no program holds the connection
    waiting,    \* in recv_frame
    attempts,   \* reviews answered "pending"
    reported,   \* assessment_code of the last aar_response the server has built
    outcomes    \* how the runs that are over ended

programVars == <<at, waiting, attempts, reported, outcomes>>
allVars == <<vars, programVars>>

ConsoleInit ==
    /\ Init
    /\ at = 0 /\ waiting = FALSE /\ attempts = 0 /\ reported = "Pending" /\ outcomes = <<>>

--------------------------------------------------------------------------------
\* max_attempts
MaxAttempts == IF ConsoleTimeout * 4 > 20 THEN ConsoleTimeout * 4 ELSE 20

Ended(outcome) ==
    /\ outcomes' = Append(outcomes, outcome)
    /\ at' = 0 /\ waiting' = FALSE /\ attempts' = 0

\* TcpSocket: the server takes the connection.
Connects ==
    /\ AcceptConnection
    /\ at' = 1
    /\ UNCHANGED <<waiting, attempts, reported, outcomes>>

\* The server closes the connection at once: the first recv_frame throws.
ConnectsInVain ==
    /\ RefuseConnection
    /\ outcomes' = Append(outcomes, "no_answer")
    /\ UNCHANGED <<at, waiting, attempts, reported>>

\* send_frame
Asks ==
    /\ at > 0 /\ ~waiting /\ waiting' = TRUE
    /\ ConsoleAsks
    /\ stream'[Len(stream')].req =
          [kind |-> Script[at], sender |-> ConsoleSender, sessionOk |-> TRUE, bodyOk |-> TRUE,
           timeout |-> ConsoleTimeout, control |-> "absolute", index |-> 999]
    /\ UNCHANGED <<at, attempts, reported, outcomes>>

\* The receive timeout of a second, a connection that was reset, a server that
\* has ended: recv_frame throws.
GivesUp ==
    /\ waiting /\ Ended("no_answer")
    /\ UNCHANGED <<vars, reported>>

\* The process is gone; its socket closes some time after.
SocketCloses == at = 0 /\ ConsoleEnds /\ UNCHANGED programVars

--------------------------------------------------------------------------------
\* send_and_expect_ack
CommandAnswered(answer) ==
    IF answer.accepted
    THEN at' = at + 1 /\ waiting' = FALSE /\ UNCHANGED <<attempts, outcomes>>
    ELSE Ended("refused")

\* Mutant: the first review is taken for the final one.
ReviewAnsweredEarly(answer) ==
    IF answer.accepted THEN Ended("verdict") ELSE Ended("refused")

\* The body of the for loop and what follows it.
ReviewAnswered(answer) ==
    IF ~answer.accepted THEN Ended("refused")
    ELSE IF reported # "Pending" THEN Ended("verdict")
    ELSE IF attempts + 1 = MaxAttempts THEN Ended("no_verdict")
    ELSE attempts' = attempts + 1 /\ waiting' = FALSE /\ UNCHANGED <<at, outcomes>>

\* An answer reaches the program that waits for it.
Delivered == waiting /\ Len(console'.pending) < Len(console.pending)

Answered(answer) == IF at = Len(Script) THEN ReviewAnswered(answer) ELSE CommandAnswered(answer)

\* A step of the server's loop other than to accept.
ServerRuns ==
    /\ \/ BeginPoll \/ NobodyConnects \/ FlushBeforeReading \/ DatagramsDone
       \/ NothingToRead \/ ReadStream \/ ReadEndOfStream \/ ReadFailure
       \/ SessionJoin \/ ScenarioStart \/ TrackAcquire \/ InterceptorReady \/ EngageOrder
       \/ AarRequest \/ FlushAfterReading \/ Tick \/ LoopEnd
    /\ reported' = IF Processing("aar_request") /\ EnvelopeValid(Current.req)
                   THEN session.code ELSE reported
    /\ IF Delivered THEN Answered(Head(console.pending))
                    ELSE UNCHANGED <<at, waiting, attempts, outcomes>>

ConsoleNext ==
    \/ Connects \/ ConnectsInVain \/ Asks \/ GivesUp \/ SocketCloses
    \/ ServerRuns
    \/ Signal /\ UNCHANGED programVars

ConsoleSpec == ConsoleInit /\ [][ConsoleNext]_allVars
--------------------------------------------------------------------------------
(****************************************************************************)
(* Properties                                                               *)
(****************************************************************************)

\* Every variable keeps its type, and the program waits for one answer at most.
ConsoleTypeOK ==
    /\ session \in Session /\ console \in Console
    /\ at \in 0 .. Len(Script) /\ waiting \in BOOLEAN /\ attempts \in 0 .. MaxAttempts
    /\ reported \in AssessmentCode /\ outcomes \in Seq(Outcome)
    /\ Len(console.buffer) + Len(console.pending) + Len(stream) <= 1

\* The reviews never run out before the verdict, however slowly the server
\* takes the requests and whatever timeout its own configuration has: an answer
\* is flushed after the poll has read, so two reviews are never served in one
\* poll, and every poll is followed by a tick.
ReviewsSuffice == \A i \in 1 .. Len(outcomes) : outcomes[i] # "no_verdict"

\* While a program waits for the verdict on its order, nothing spoils the order:
\* not what a program before it has left behind, not a request of it that was
\* served after it gave up, and not another console trying to connect.
OrderUndisturbed ==
    at = Len(Script) =>
        /\ session.order \in {"Accepted", "Executing", "Completed"}
        /\ session.code # "InvalidTransition"

Verdicts == {i \in 1 .. Len(outcomes) : outcomes[i] = "verdict"}

\* Exit code 0 stands for a verdict on the program's own order: as no program
\* resets the session, at most one run ends with a verdict, and it is the one
\* the session reports; every run after one that started the scenario fails,
\* also when the one before gave up and its order was executed nonetheless.
VerdictIsOwn ==
    Verdicts # {} =>
        /\ \E i \in Verdicts : Verdicts = {i}
        /\ session.ready /\ session.code = reported
        /\ session.log.count["EngageOrderAccepted"] = 1

\* What a program reports is the outcome of its own order, asked for one request
\* at a time, whatever programs before it and next to it do.
OutcomeIsOwn == ConsoleTypeOK /\ OrderUndisturbed /\ VerdictIsOwn
================================================================================
