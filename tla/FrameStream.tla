----------------------------- MODULE FrameStream -----------------------------
(***************************************************************************)
(* Frames on a stream (network/src/wire.rs), byte by byte: write_raw_frame *)
(* at one end, read_raw_frame at the other, in loops of the applications;  *)
(* between them a yamux stream that holds bytes back until it is flushed   *)
(* and may close at any byte.  An application may drop either call at an   *)
(* await, by a timeout say, and use the stream again.                      *)
(***************************************************************************)
EXTENDS Numerals, SequencesExt

CONSTANTS
  ByteBase,         \* number of values of a byte, 256 in the code
  SeqWidth,         \* bytes of seq_id, 8 in the code
  LenWidth,         \* bytes of the length, 4 in the code
  MaxFramePayload,  \* 50 MB in the code
  Frames,           \* frames that applications write
  MaxFrames         \* bound on the frames written

ASSUME FrameAssumption ==
  /\ ByteBase \in Nat \ {0, 1} /\ SeqWidth \in Nat \ {0} /\ LenWidth \in Nat \ {0}
  /\ MaxFramePayload \in Nat /\ MaxFramePayload < Power(ByteBase, LenWidth)
  /\ MaxFrames \in Nat
  /\ \A f \in Frames :
       /\ f = [seq_id |-> f.seq_id, msg_type |-> f.msg_type, payload |-> f.payload]
       /\ f.seq_id \in 0..(Power(ByteBase, SeqWidth) - 1) /\ f.msg_type \in 0..(ByteBase - 1)
       /\ f.payload \in Seq(0..(ByteBase - 1))

VARIABLES
  writer,    \* "idle", "write_all" or "flush": where write_raw_frame is
  rest,      \* bytes write_all has not handed over yet
  buffer,    \* bytes the transport holds back
  wire,      \* bytes on their way to the reader
  closed,    \* the stream is closed
  reader,    \* "reading", or "failed" after an error
  got,       \* bytes read_raw_frame has taken of the frame it reads
  sent,      \* history: frames write_raw_frame took on
  flushed,   \* history: number of frames before the last flush
  received,  \* frames read_raw_frame returned
  cut        \* history: a call was dropped inside a frame

streamVars ==
  <<writer, rest, buffer, wire, closed, reader, got, sent, flushed, received, cut>>

-----------------------------------------------------------------------------
BigEndian(n, width) == Reverse(Digits(n, ByteBase, width))

FromBigEndian(bytes) == ValueOf(Reverse(bytes), ByteBase)

\* Faulty variant of Encode: the length counts the type byte.
Encode_LongLength(f) ==
  BigEndian(f.seq_id, SeqWidth) \o <<f.msg_type>> \o
    BigEndian(Len(f.payload) + 1, LenWidth) \o f.payload

Encode(f) ==
  BigEndian(f.seq_id, SeqWidth) \o <<f.msg_type>> \o
    BigEndian(Len(f.payload), LenWidth) \o f.payload

HeaderLen == SeqWidth + 1 + LenWidth

\* The length field of a header that is read.
LengthIn(bytes) == FromBigEndian(SubSeq(bytes, SeqWidth + 2, HeaderLen))

Decode(bytes) ==
  [seq_id |-> FromBigEndian(SubSeq(bytes, 1, SeqWidth)), msg_type |-> bytes[SeqWidth + 1],
   payload |-> SubSeq(bytes, HeaderLen + 1, Len(bytes))]

-----------------------------------------------------------------------------
StreamInit ==
  /\ writer = "idle" /\ rest = <<>> /\ buffer = <<>> /\ wire = <<>>
  /\ closed = FALSE
  /\ reader = "reading" /\ got = <<>>
  /\ sent = <<>> /\ flushed = 0 /\ received = <<>>
  /\ cut = FALSE

\* A payload that is too large is refused before a byte is written.
WriteFrame(f) ==
  /\ writer = "idle" /\ ~closed
  /\ Len(sent) < MaxFrames
  /\ Len(f.payload) <= MaxFramePayload
  /\ rest' = Encode(f)
  /\ sent' = Append(sent, f)
  /\ writer' = "write_all"
  /\ UNCHANGED <<buffer, wire, closed, reader, got, flushed, received, cut>>

\* write_all, one byte.
WriteByte ==
  /\ writer = "write_all" /\ ~closed
  /\ buffer' = Append(buffer, Head(rest))
  /\ rest' = Tail(rest)
  /\ writer' = IF rest' = <<>> THEN "flush" ELSE "write_all"
  /\ UNCHANGED <<wire, closed, reader, got, sent, flushed, received, cut>>

\* Faulty variant of Flush: the call is missing.
Flush_Missing ==
  /\ writer = "flush" /\ ~closed
  /\ flushed' = Len(sent)
  /\ writer' = "idle"
  /\ UNCHANGED <<rest, buffer, wire, closed, reader, got, sent, received, cut>>

Flush ==
  /\ writer = "flush" /\ ~closed
  /\ wire' = wire \o buffer /\ buffer' = <<>>
  /\ flushed' = Len(sent)
  /\ writer' = "idle"
  /\ UNCHANGED <<rest, closed, reader, got, sent, received, cut>>

\* The transport may send what it holds before it is told to.
Push ==
  /\ buffer # <<>>
  /\ wire' = Append(wire, Head(buffer)) /\ buffer' = Tail(buffer)
  /\ UNCHANGED <<writer, rest, closed, reader, got, sent, flushed, received, cut>>

\* write_raw_frame ends with an error if it is under way; what the transport
\* holds is lost, and of what is on its way any end may be.
Close ==
  /\ ~closed
  /\ closed' = TRUE
  /\ writer' = "idle" /\ rest' = <<>> /\ buffer' = <<>>
  /\ \E n \in 0..Len(wire) : wire' = SubSeq(wire, 1, n)
  /\ UNCHANGED <<reader, got, sent, flushed, received, cut>>

\* read_exact takes one byte; the field it belongs to follows from how many
\* there are.  A frame is returned with its last byte, which is the header's
\* when the payload is empty.
ReadByte ==
  /\ reader = "reading" /\ wire # <<>>
  /\ wire' = Tail(wire)
  /\ LET bytes == Append(got, Head(wire))
         header == Len(bytes) >= HeaderLen
     IN  \/ /\ header /\ LengthIn(bytes) > MaxFramePayload
            /\ reader' = "failed" /\ got' = <<>>
            /\ UNCHANGED received
         \/ /\ header /\ LengthIn(bytes) <= MaxFramePayload
            /\ Len(bytes) = HeaderLen + LengthIn(bytes)
            /\ received' = Append(received, Decode(bytes))
            /\ got' = <<>>
            /\ UNCHANGED reader
         \/ /\ header => Len(bytes) < HeaderLen + LengthIn(bytes)
            /\ got' = bytes
            /\ UNCHANGED <<reader, received>>
  /\ UNCHANGED <<writer, rest, buffer, closed, sent, flushed, cut>>

\* read_exact meets the end of the stream, also between two frames.
ReadEof ==
  /\ reader = "reading" /\ wire = <<>> /\ closed
  /\ reader' = "failed" /\ got' = <<>>
  /\ UNCHANGED <<writer, rest, buffer, wire, closed, sent, flushed, received, cut>>

\* The future of write_raw_frame is dropped.
AbandonWrite ==
  /\ writer # "idle"
  /\ writer' = "idle" /\ rest' = <<>>
  /\ LET untouched == rest = Encode(Last(sent))
     IN  /\ sent' = IF untouched THEN Front(sent) ELSE sent
         /\ cut' = (cut \/ (rest # <<>> /\ ~untouched))
  /\ UNCHANGED <<buffer, wire, closed, reader, got, flushed, received>>

\* The future of read_raw_frame is dropped, and the bytes it took with it.
AbandonRead ==
  /\ reader = "reading" /\ got # <<>>
  /\ got' = <<>> /\ cut' = TRUE
  /\ UNCHANGED <<writer, rest, buffer, wire, closed, reader, sent, flushed, received>>

StreamNext ==
  \/ \E f \in Frames : WriteFrame(f)
  \/ WriteByte \/ Flush \/ Push \/ Close \/ ReadByte \/ ReadEof
  \/ AbandonWrite \/ AbandonRead

StreamSpec == StreamInit /\ [][StreamNext]_streamVars

\* A runtime polls the calls, and the reading application calls again.
StreamFairness ==
  /\ WF_streamVars(WriteByte) /\ WF_streamVars(Flush)
  /\ WF_streamVars(ReadByte) /\ WF_streamVars(ReadEof)

-----------------------------------------------------------------------------
\* The stream implements the link, if a frame counts as sent from its first
\* byte: frames arrive whole, once and in order, whatever the payloads look
\* like and wherever the stream ends.
Link == INSTANCE FrameLink WITH
  sent <- IF rest # <<>> /\ rest = Encode(Last(sent)) THEN Front(sent) ELSE sent

LinkSpec == Link!Spec

\* "Flush after every write - yamux buffers data, flush pushes it to the wire":
\* a frame whose write_raw_frame returned reaches the reader, unless the stream
\* closes or a call is dropped inside a frame.
FramesArrive ==
  \A n \in 1..MaxFrames : (flushed >= n) ~> (Len(received) >= n \/ closed \/ cut)
=============================================================================
