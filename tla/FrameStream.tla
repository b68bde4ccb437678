------------------------------- MODULE FrameStream -------------------------------
(****************************************************************************)
(* Messages on the TCP connection, down to the bytes.  The receiver gets    *)
(* them in pieces of any size, cut anywhere, and takes the frames out of    *)
(* what it has.  Towards the server, frames may follow each other at once;  *)
(* the server appends what it reads to tcp_buffer_ and takes every complete *)
(* frame out of it.  Towards the console, the server's send may take part   *)
(* of a frame only, whose rest stays at the head of the queue; the console  *)
(* waits for one answer at a time, in a buffer that lives as long as the    *)
(* call of recv_frame.                                                      *)
(*                                                                          *)
(* Source: common/src/transport_socket_live.cpp,                            *)
(* clients/command-console/src/main.cpp                                     *)
(****************************************************************************)
EXTENDS WireFormat

CONSTANTS
    Messages,     \* what may be sent
    MaxMessages   \* bound: messages of a behaviour

ASSUME MessagesAreMessages == Messages \subseteq Message /\ MaxMessages \in Nat

\* No frame reaches 4 GiB, where its sizes would no longer fit into 32 bits.
ASSUME FramesFit ==
    \A message \in Messages :
        FitsU32(Len(EncodeBinaryFrame(message.kind, Serialize(message))))

Receiver == {"server", "console"}
FrameFormat == {"json", "binary"}

VARIABLES
    receiver, format,
    given,      \* the messages given to the sender
    unsent,     \* pending_tcp_lines_, or the frame in send_frame
    wire,       \* the bytes in the connection
    buffer,     \* tcp_buffer_, or the buffer of recv_frame
    received    \* the messages taken out

streamVars == <<receiver, format, given, unsent, wire, buffer, received>>

StreamInit ==
    /\ receiver \in Receiver /\ format \in FrameFormat
    /\ given = <<>> /\ unsent = <<>> /\ wire = <<>> /\ buffer = <<>> /\ received = <<>>

--------------------------------------------------------------------------------
\* What queue_tcp_frame and send_frame make of a message.
Frames ==
    [message \in Messages |->
        LET payload == Serialize(message)
        IN  [json |-> Append(EncodeJsonFrame(message.kind, payload), Newline),
             binary |-> EncodeBinaryFrame(message.kind, payload)]]

Framed(message) == Frames[message][format]

Queue(message) ==
    /\ Len(given) < MaxMessages
    /\ receiver = "console" => Len(received) = Len(given)
    /\ given' = Append(given, message)
    /\ unsent' = Append(unsent, Framed(message))
    /\ UNCHANGED <<receiver, format, wire, buffer, received>>

\* Mutant: a frame of which a part was sent is done.
SendForgetsRest(n) ==
    /\ unsent # <<>> /\ n \in 1 .. Len(Head(unsent))
    /\ receiver = "server" => n = Len(Head(unsent))
    /\ wire' = wire \o SubSeq(Head(unsent), 1, n)
    /\ unsent' = Tail(unsent)
    /\ UNCHANGED <<receiver, format, given, buffer, received>>

\* flush_tcp_writes: the first n bytes go out, the rest stays at the head.
Send(n) ==
    /\ unsent # <<>> /\ n \in 1 .. Len(Head(unsent))
    /\ receiver = "server" => n = Len(Head(unsent))
    /\ wire' = wire \o SubSeq(Head(unsent), 1, n)
    /\ LET rest == SubSeq(Head(unsent), n + 1, Len(Head(unsent)))
       IN  unsent' = (IF rest = <<>> THEN <<>> ELSE <<rest>>) \o Tail(unsent)
    /\ UNCHANGED <<receiver, format, given, buffer, received>>

\* The size of the frame at the front of the buffer, 0 if there is none yet.
FrameSize ==
    IF format = "json" THEN SelectInSeq(buffer, LAMBDA b : b = Newline) ELSE BinaryFrameSize(buffer)

\* recv: the console reads JSON byte by byte.
Read(n) ==
    /\ n \in 1 .. Len(wire) /\ FrameSize = 0
    /\ receiver = "console" => Len(received) < Len(given) /\ (format = "json" => n = 1)
    /\ buffer' = buffer \o SubSeq(wire, 1, n)
    /\ wire' = SubSeq(wire, n + 1, Len(wire))
    /\ UNCHANGED <<receiver, format, given, unsent, received>>

Decoded(frame) ==
    IF format = "json" THEN DecodeJsonFrame(SubSeq(frame, 1, Len(frame) - 1))
                       ELSE DecodeBinaryFrame(frame)

\* The console's buffer ends with the call.
Kept(rest) == IF receiver = "server" THEN rest ELSE <<>>

\* The body of the loops of receive_tcp_messages, and the end of recv_frame; an
\* empty line is skipped.
Take ==
    /\ FrameSize > 0
    /\ received' = IF format = "json" /\ FrameSize = 1 THEN received
                   ELSE Append(received, Decoded(SubSeq(buffer, 1, FrameSize)))
    /\ buffer' = Kept(SubSeq(buffer, FrameSize + 1, Len(buffer)))
    /\ UNCHANGED <<receiver, format, given, unsent, wire>>

StreamNext ==
    \/ \E message \in Messages : Queue(message)
    \/ \E n \in 1 .. (IF unsent = <<>> THEN 0 ELSE Len(Head(unsent))) : Send(n)
    \/ \E n \in 1 .. Len(wire) : Read(n)
    \/ Take

StreamSpec == StreamInit /\ [][StreamNext]_streamVars
--------------------------------------------------------------------------------
(****************************************************************************)
(* Properties                                                               *)
(****************************************************************************)

\* What is taken out is what was put in, message by message and in order: no
\* text, however it looks, breaks its line, ends its string, splits its field or
\* is read as an escape, and no cut moves the border of a frame.
ReceivedAsSent == IsPrefix(received, given)

\* What the framing of the messages not yet received amounts to.
Unreceived ==
    FlattenSeq([i \in 1 .. Len(given) - Len(received) |-> Framed(given[Len(received) + i])])

\* No byte is lost, doubled or moved between the sender's queue, the connection
\* and the buffer, whatever was cut where: together they hold exactly the frames
\* that are still to be taken out.
NothingLost == buffer \o wire \o FlattenSeq(unsent) = Unreceived

\* A frame whose last byte has been read is not held back: the receiver goes back
\* to its socket only with less than a frame in its buffer.
NothingHeldBack ==
    FrameSize = 0 /\ Len(given) > Len(received) => Len(buffer) < Len(Framed(given[Len(received) + 1]))

\* The stream is faithful: what comes out is what went in, nothing is lost on
\* the way and nothing complete waits at its end.
StreamFaithful == ReceivedAsSent /\ NothingLost /\ NothingHeldBack
================================================================================
