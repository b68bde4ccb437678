------------------------------- MODULE WireFormat -------------------------------
(****************************************************************************)
(* The text of a message and the two frames it travels in.  A message is a  *)
(* list of fields key=value, separated by ';', whose values are             *)
(* percent-encoded; the frame is a JSON object with the kind and the        *)
(* payload as strings, or both of them behind four bytes of length.         *)
(*                                                                          *)
(* Abstractions.  A text is a sequence of bytes, as in the code, but the    *)
(* key words "kind", "payload" and the key of the one text field of a       *)
(* message are one letter each.  The numbers and flags of a message are     *)
(* digits and letters and pass every step below as the letters do.          *)
(*                                                                          *)
(* Source: common/src/serialization.cpp, frame_codec.cpp                    *)
(****************************************************************************)
EXTENDS Integers, Sequences, SequencesExt

Byte == 0 .. 255
Text == Seq(Byte)

Tab == 9
Newline == 10
CarriageReturn == 13
Quote == 34
Percent == 37
Comma == 44
Colon == 58
Semicolon == 59
Equals == 61
Backslash == 92
OpenBrace == 123
CloseBrace == 125

KindKey == <<107>>      \* "kind"
PayloadKey == <<112>>   \* "payload"
TextKey == <<118>>      \* the key of the text: reason, scenario_name, event_summary

Message == [kind : Text, text : Text]

\* Stands for an exception of the decoder.
Rejected == [kind |-> <<>>, text |-> <<-1>>]

--------------------------------------------------------------------------------
(****************************************************************************)
(* Fields                                                                   *)
(****************************************************************************)

HexDigit(n) == IF n < 10 THEN 48 + n ELSE 55 + n

EncodedByte(b) ==
    IF b \in {Percent, Semicolon, Equals} \/ b < 32
    THEN <<Percent, HexDigit(b \div 16), HexDigit(b % 16)>>
    ELSE <<b>>

EncodeFieldValue(value) == FlattenSeq([i \in DOMAIN value |-> EncodedByte(value[i])])

Hex(c) ==
    CASE c \in 48 .. 57  -> c - 48
      [] c \in 65 .. 70  -> c - 55
      [] c \in 97 .. 102 -> c - 87
      [] OTHER           -> -512   \* invalid percent-encoding

\* What a reader puts together that starts at position start of a text of n bytes,
\* adds piece[i] when it comes to position i and goes on at next[i].
ReadFrom(start, n, piece, next) ==
    LET from[i \in 1 .. n + 1] == IF i > n THEN <<>> ELSE piece[i] \o from[next[i]]
    IN  from[start]

\* Two more characters are needed for an escape; without them '%' is itself.
DecodeFieldValue(value) ==
    LET n == Len(value)
        Escape(i) == value[i] = Percent /\ i + 2 <= n
    IN  ReadFrom(1, n,
            [i \in 1 .. n |-> IF Escape(i) THEN <<16 * Hex(value[i + 1]) + Hex(value[i + 2])>>
                                           ELSE <<value[i]>>],
            [i \in 1 .. n |-> IF Escape(i) THEN i + 3 ELSE i + 1])

\* The first place from position i on with this byte, or the one behind the end.
Find(text, byte, i) ==
    Min({j \in i .. Len(text) : text[j] = byte} \cup {Len(text) + 1})

JoinFields(fields) ==
    FlattenSeq([i \in DOMAIN fields |->
                  (IF i = 1 THEN <<>> ELSE <<Semicolon>>)
                  \o fields[i].key \o <<Equals>> \o EncodeFieldValue(fields[i].value)])

\* A field without '=' has no key, one with a bad escape has a negative byte.
ParseField(part) ==
    LET pos == Find(part, Equals, 1)
    IN  [key |-> IF pos > Len(part) THEN <<-1>> ELSE SubSeq(part, 1, pos - 1),
         value |-> DecodeFieldValue(SubSeq(part, pos + 1, Len(part)))]

\* The fields of a wire, in order; the empty ones are skipped.
ParseFields(wire) ==
    LET n == Len(wire)
        End(i) == Find(wire, Semicolon, i)
    IN  ReadFrom(1, n,
            [i \in 1 .. n |-> IF End(i) = i THEN <<>> ELSE <<ParseField(SubSeq(wire, i, End(i) - 1))>>],
            [i \in 1 .. n |-> IF End(i) > n THEN n + 1 ELSE End(i) + 1])

Malformed(fields) ==
    \E i \in DOMAIN fields :
        fields[i].key = <<-1>> \/ \E j \in DOMAIN fields[i].value : fields[i].value[j] < 0

Has(fields, key) == \E i \in DOMAIN fields : fields[i].key = key

\* emplace keeps the first of two fields with one key.
Require(fields, key) == fields[SelectInSeq(fields, LAMBDA f : f.key = key)].value

\* serialize and parse_* of the messages that carry a text.
Serialize(message) ==
    JoinFields(<<[key |-> KindKey, value |-> message.kind],
                 [key |-> TextKey, value |-> message.text]>>)

Parse(kind, wire) ==
    LET fields == ParseFields(wire)
    IN  IF Malformed(fields) \/ ~Has(fields, KindKey) \/ ~Has(fields, TextKey) THEN Rejected
        ELSE IF Require(fields, KindKey) # kind THEN Rejected
        ELSE [kind |-> kind, text |-> Require(fields, TextKey)]
--------------------------------------------------------------------------------
(****************************************************************************)
(* JSON lines                                                               *)
(****************************************************************************)

Letter == [n |-> 110, r |-> 114, t |-> 116]

EscapedByte(b) ==
    CASE b = Backslash      -> <<Backslash, Backslash>>
      [] b = Quote          -> <<Backslash, Quote>>
      [] b = Newline        -> <<Backslash, Letter.n>>
      [] b = CarriageReturn -> <<Backslash, Letter.r>>
      [] b = Tab            -> <<Backslash, Letter.t>>
      [] OTHER              -> <<b>>

EscapeJson(text) == FlattenSeq([i \in DOMAIN text |-> EscapedByte(text[i])])

Unescaped(c) ==
    CASE c \in {Backslash, Quote} -> c
      [] c = Letter.n -> Newline
      [] c = Letter.r -> CarriageReturn
      [] c = Letter.t -> Tab
      [] OTHER -> -512   \* unsupported json escape

EncodeJsonFrame(kind, payload) ==
    <<OpenBrace, Quote>> \o KindKey \o <<Quote, Colon, Quote>> \o EscapeJson(kind)
    \o <<Quote, Comma, Quote>> \o PayloadKey \o <<Quote, Colon, Quote>> \o EscapeJson(payload)
    \o <<Quote, CloseBrace>>

\* From the first place where the key is found as a key, up to the next quote
\* that is not escaped; the escapes are undone on the way.
ExtractJsonField(frame, key) ==
    LET needle == <<Quote>> \o key \o <<Quote, Colon, Quote>>
        places == {i \in 1 .. Len(frame) - Len(needle) + 1 :
                      SubSeq(frame, i, i + Len(needle) - 1) = needle}
        start == CHOOSE i \in places : \A j \in places : i <= j
        n == Len(frame)
        Ends(i) == frame[i] = Quote \/ (frame[i] = Backslash /\ i = n)
        Escape(i) == frame[i] = Backslash
    IN  IF places = {} THEN <<-1>>
        ELSE ReadFrom(start + Len(needle), n,
                 [i \in 1 .. n |-> IF Ends(i) THEN <<>>
                                   ELSE IF Escape(i) THEN <<Unescaped(frame[i + 1])>> ELSE <<frame[i]>>],
                 [i \in 1 .. n |-> IF Ends(i) THEN n + 1 ELSE IF Escape(i) THEN i + 2 ELSE i + 1])

DecodeJsonFrame(frame) ==
    Parse(ExtractJsonField(frame, KindKey), ExtractJsonField(frame, PayloadKey))
--------------------------------------------------------------------------------
(****************************************************************************)
(* Binary frames                                                            *)
(****************************************************************************)

\* The casts to 32 and to 8 bits; more than 32 bits lose their upper part.
AppendU32(n) ==
    LET upper == (n \div 256) \div 256
    IN  <<(upper \div 256) % 256, upper % 256, (n \div 256) % 256, n % 256>>

FitsU32(n) == ((n \div 256) \div 256) \div 256 < 256

\* A sum of two sizes, in 32 bits.
SumU32(m, n) == IF FitsU32(m + n) THEN m + n ELSE m + n - 65536 * 65536

ReadU32(data, offset) ==
    256 * (256 * (256 * data[offset + 1] + data[offset + 2]) + data[offset + 3]) + data[offset + 4]

EncodeBinaryFrame(kind, payload) == AppendU32(Len(kind)) \o kind \o AppendU32(Len(payload)) \o payload

\* try_decode_binary_frame: the size of the frame at the front of the buffer, or
\* 0 while it is not complete.
BinaryFrameSize(buffer) ==
    LET offset == SumU32(4, ReadU32(buffer, 0))
        size == SumU32(SumU32(offset, 4), ReadU32(buffer, offset))
    IN  IF Len(buffer) < 8 \/ SumU32(offset, 4) > Len(buffer) \/ size > Len(buffer) THEN 0 ELSE size

\* Of the frames try_decode_binary_frame cuts out of what the encoder made.
DecodeBinaryFrame(frame) ==
    LET kindSize == ReadU32(frame, 0)
        offset == SumU32(4, kindSize)
        payloadBegin == SumU32(offset, 4)
    IN  Parse(SubSeq(frame, 5, 4 + kindSize),
              SubSeq(frame, payloadBegin + 1, payloadBegin + ReadU32(frame, offset)))
================================================================================
