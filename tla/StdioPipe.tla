----------------------------- MODULE StdioPipe -----------------------------
(***************************************************************************)
(* The frames between a StdioProducer and a StdioConsumer at the two ends  *)
(* of a pipe: push_raw, pop_raw and close, and the death of the writer at  *)
(* any byte.                                                               *)
(*                                                                         *)
(* The pipe is a sequence of frames, each with the number of its bytes     *)
(* that were written: a frame is only ever cut short by the death of the   *)
(* writer.  A pop is one step: the reader blocks until it has a whole      *)
(* frame or the end of the file, and nobody else reads.  Of a message only *)
(* its two sizes matter here.                                              *)
(***************************************************************************)
EXTENDS Integers, Sequences

CONSTANTS Messages,           \* what push_raw is called with
          Empty,              \* the message without a byte
          MetadataSize(_),    \* of a message, in bytes
          PayloadSize(_),
          MAX_METADATA_SIZE,
          MaxPushed           \* bound: messages pushed

ASSUME PipeAssumption ==
  /\ \A m \in Messages \cup {Empty} :
       /\ MetadataSize(m) \in Nat /\ PayloadSize(m) \in Nat
       /\ m = Empty <=> MetadataSize(m) = 0 /\ PayloadSize(m) = 0
  /\ MAX_METADATA_SIZE \in Nat /\ MaxPushed \in Nat

VARIABLES output,             \* the frames in the pipe
          writer,             \* "running" or "gone"
          closed_, eos_received_,
          sent,               \* history: the messages written whole
          received            \* history: the messages pop_raw returned

pipe == <<output, writer, closed_, eos_received_, sent, received>>

-----------------------------------------------------------------------------
(* Where in a frame its parts end: two size fields of 4 and 8 bytes, the   *)
(* metadata, a sentinel, the payload, a sentinel.                          *)
SizesEnd == 12
MetadataEnd(m) == SizesEnd + MetadataSize(m)
PayloadEnd(m) == MetadataEnd(m) + 1 + PayloadSize(m)
FrameSize(m) == PayloadEnd(m) + 1
Frame(m, written) == [message |-> m, written |-> written]

(* Mutant: a size field of zero is enough.                                 *)
IsEosMarker_Either(m) == MetadataSize(m) = 0 \/ PayloadSize(m) = 0

(* Both size fields are zero, whether it is the marker of close() or an    *)
(* empty message.                                                          *)
IsEosMarker(m) == MetadataSize(m) = 0 /\ PayloadSize(m) = 0

-----------------------------------------------------------------------------
(* Mutant: a closed producer still writes.                                 *)
CanPush_Closed(m) ==
  /\ writer = "running" /\ Len(sent) < MaxPushed
  /\ MetadataSize(m) <= MAX_METADATA_SIZE

(* Otherwise push_raw throws before it writes anything.                    *)
CanPush(m) ==
  /\ writer = "running" /\ Len(sent) < MaxPushed
  /\ ~closed_
  /\ MetadataSize(m) <= MAX_METADATA_SIZE

push_raw(m) ==
  /\ CanPush(m)
  /\ output' = Append(output, Frame(m, FrameSize(m)))
  /\ sent' = Append(sent, m)
  /\ UNCHANGED <<writer, closed_, eos_received_, received>>

(* The marker is the two size fields only.                                 *)
close ==
  /\ writer = "running" /\ ~closed_
  /\ output' = Append(output, Frame(Empty, SizesEnd))
  /\ closed_' = TRUE
  /\ UNCHANGED <<writer, sent, eos_received_, received>>

(* The process ends, between two calls, in the middle of a frame or of the *)
(* marker: the destructor writes no marker.                                *)
Exit ==
  /\ writer = "running"
  /\ writer' = "gone"
  /\ UNCHANGED <<output, closed_, eos_received_, sent, received>>
ExitWithin(m, size) ==
  /\ \E written \in 1 .. size - 1 : output' = Append(output, Frame(m, written))
  /\ writer' = "gone"
  /\ UNCHANGED <<closed_, eos_received_, sent, received>>
ExitWriting(m) == CanPush(m) /\ ExitWithin(m, FrameSize(m))
ExitClosing == writer = "running" /\ ~closed_ /\ ExitWithin(Empty, SizesEnd)

-----------------------------------------------------------------------------
(* Mutant: nobody asks for the end sentinel.                               *)
Parse_NoEndSentinel(f) ==
  IF f.written < SizesEnd THEN "incomplete sizes"
  ELSE IF IsEosMarker(f.message) THEN "end of stream"
  ELSE IF f.written < PayloadEnd(f.message) THEN "incomplete payload"
  ELSE "message"

(* The reads of pop_raw in their order: what it finds in a frame.          *)
Parse(f) ==
  IF f.written < SizesEnd THEN "incomplete sizes"
  ELSE IF IsEosMarker(f.message) THEN "end of stream"
  ELSE IF f.written < MetadataEnd(f.message) THEN "incomplete metadata"
  ELSE IF f.written < MetadataEnd(f.message) + 1 THEN "incomplete start sentinel"
  ELSE IF f.written < PayloadEnd(f.message) THEN "incomplete payload"
  ELSE IF f.written < FrameSize(f.message) THEN "incomplete end sentinel"
  ELSE "message"

(* A pop that finds nothing: the end of the file, without a marker.        *)
PopEof ==
  /\ ~eos_received_ /\ output = <<>> /\ writer = "gone"
  /\ eos_received_' = TRUE
  /\ UNCHANGED <<output, writer, closed_, sent, received>>

(* The marker; an empty message leaves its sentinels behind, unread.       *)
PopEos ==
  /\ ~eos_received_ /\ output # <<>> /\ Parse(Head(output)) = "end of stream"
  /\ output' = Tail(output)
  /\ eos_received_' = TRUE
  /\ UNCHANGED <<writer, closed_, sent, received>>

(* Mutant: the incomplete frame is not consumed.                           *)
PopCut_Again ==
  /\ ~eos_received_ /\ output # <<>>
  /\ Parse(Head(output)) \notin {"end of stream", "message"}
  /\ UNCHANGED pipe

(* A frame cut short by the end of the file: CorruptPayload.  The next pop *)
(* finds nothing.                                                          *)
PopCut ==
  /\ ~eos_received_ /\ output # <<>>
  /\ Parse(Head(output)) \notin {"end of stream", "message"}
  /\ output' = Tail(output)
  /\ UNCHANGED <<writer, closed_, eos_received_, sent, received>>

(* A whole frame.                                                          *)
PopMessage ==
  /\ ~eos_received_ /\ output # <<>> /\ Parse(Head(output)) = "message"
  /\ output' = Tail(output)
  /\ received' = Append(received, Head(output).message)
  /\ UNCHANGED <<writer, closed_, eos_received_, sent>>

-----------------------------------------------------------------------------
PipeInit ==
  /\ output = <<>> /\ writer = "running"
  /\ closed_ = FALSE /\ eos_received_ = FALSE
  /\ sent = <<>> /\ received = <<>>

Write ==
  \/ \E m \in Messages : push_raw(m) \/ ExitWriting(m)
  \/ close \/ ExitClosing \/ Exit
pop_raw == PopEof \/ PopEos \/ PopCut \/ PopMessage
PipeNext == Write \/ pop_raw

(* The reader pops until it is told the end; the writer is forced to       *)
(* nothing.                                                                *)
PipeFairness == WF_pipe(pop_raw)
PipeSpec == PipeInit /\ [][PipeNext]_pipe /\ PipeFairness

-----------------------------------------------------------------------------
(***************************************************************************)
(* Properties                                                              *)
(***************************************************************************)
(* Every variable keeps its type; only the last frame may be cut short,    *)
(* and nothing follows the marker (StdioProducer::push_raw and close).     *)
TypeOK ==
  /\ writer \in {"running", "gone"}
  /\ closed_ \in BOOLEAN /\ eos_received_ \in BOOLEAN
  /\ \A i \in DOMAIN output :
       LET f == output[i]
       IN /\ f.message \in Messages \cup {Empty}
          /\ f.written \in 1 .. FrameSize(f.message)
          /\ f.written < FrameSize(f.message) => i = Len(output)

(* pop_raw returns the messages that were written whole, in the order of   *)
(* the pushes, each once, and never a part of one.                         *)
ReceivedInOrder ==
  /\ Len(received) <= Len(sent)
  /\ \A i \in DOMAIN received : received[i] = sent[i]

(* End of stream means that every message written whole was popped, up to  *)
(* the first empty one, whether the writer closed or died in mid-frame     *)
(* (stdio.cpp, pop_raw: EOF, cut frames and the marker).                   *)
EosIsHonest ==
  eos_received_ =>
    \A i \in DOMAIN sent :
      i > Len(received) => \E j \in 1 .. i : sent[j] = Empty

(* A reader that keeps popping gets its end of stream, after a marker and  *)
(* after the death of the writer at any byte.                              *)
ReaderFinishes == (writer = "gone" \/ closed_) ~> eos_received_
=============================================================================
