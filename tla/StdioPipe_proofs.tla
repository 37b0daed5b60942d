------------------------- MODULE StdioPipe_proofs --------------------------
(***************************************************************************)
(* Proofs about StdioPipe, for every set of messages and all their sizes,  *)
(* whichever byte the writer dies at: the types, that messages come out in *)
(* order, whole and once, and that end of stream is told honestly.         *)
(***************************************************************************)
EXTENDS StdioPipe, TLAPS

Sendable == Messages \cup {Empty}
Frames == [message : Sendable, written : Int]
SequencesTyped ==
  /\ output \in Seq(Frames) /\ sent \in Seq(Messages) /\ received \in Seq(Sendable)

(* Nothing can be written any more: the marker or a cut frame may be there. *)
Finished == closed_ \/ writer = "gone"

(* Written whole and not yet returned.                                     *)
Pending == Len(sent) - Len(received)

Whole(m) == Frame(m, FrameSize(m))

(* Until the reader sees the end, the pipe holds the pending messages in   *)
(* the order of the pushes, and behind them at most one frame cut short.   *)
PendingInPipe ==
  ~eos_received_ =>
    /\ Len(output) \in Pending .. Pending + 1
    /\ \A i \in 1 .. Pending : output[i] = Whole(sent[Len(received) + i])
    /\ Len(output) = Pending + 1 =>
         output[Len(output)].written < FrameSize(output[Len(output)].message)

CutIsLast ==
  \A i \in DOMAIN output :
    output[i].written < FrameSize(output[i].message) => i = Len(output) /\ Finished

(* At the end of stream nothing is pending, nor ever will be, or the next  *)
(* message is the empty one.                                               *)
EndSeen ==
  eos_received_ =>
    \/ Pending = 0 /\ Finished
    \/ Pending > 0 /\ sent[Len(received) + 1] = Empty

PipeInv ==
  /\ SequencesTyped /\ TypeOK /\ ReceivedInOrder
  /\ PendingInPipe /\ CutIsLast /\ EndSeen

-----------------------------------------------------------------------------
(* Sizes are numbers, and only a whole frame is as long as its message     *)
(* says.                                                                   *)
LEMMA FrameSizes ==
  ASSUME NEW m \in Sendable
  PROVE  /\ MetadataSize(m) \in Nat /\ PayloadSize(m) \in Nat
         /\ FrameSize(m) \in Nat /\ FrameSize(m) >= SizesEnd + 2
         /\ MetadataEnd(m) \in SizesEnd .. FrameSize(m) - 2
         /\ PayloadEnd(m) \in MetadataEnd(m) + 1 .. FrameSize(m) - 1
         /\ IsEosMarker(m) <=> m = Empty
  BY PipeAssumption
  DEF Sendable, FrameSize, PayloadEnd, MetadataEnd, SizesEnd, IsEosMarker

(* What pop_raw makes of a frame: a message of a whole frame only, the end *)
(* of the stream of two sizes of zero only, and nothing else of a whole    *)
(* frame.                                                                  *)
LEMMA ParseFrame ==
  ASSUME NEW f \in Frames
  PROVE  /\ Parse(f) = "message" => f.written >= FrameSize(f.message)
         /\ Parse(f) = "end of stream" => f.message = Empty
         /\ f.written >= FrameSize(f.message) =>
              Parse(f) \in {"message", "end of stream"}
<1>1. f.message \in Sendable /\ f.written \in Int
  BY DEF Frames
<1> QED BY <1>1, FrameSizes DEF Parse, SizesEnd

(* What is in the pipe.                                                    *)
LEMMA FrameTyped ==
  ASSUME SequencesTyped, NEW i \in DOMAIN output
  PROVE  /\ output[i] \in Frames
         /\ output[i].message \in Sendable /\ output[i].written \in Int
         /\ FrameSize(output[i].message) \in Nat
<1>1. output \in Seq(Frames)
  BY DEF SequencesTyped
<1>2. output[i] \in Frames
  BY <1>1
<1>3. output[i].message \in Sendable /\ output[i].written \in Int
  BY <1>2 DEF Frames
<1> QED BY <1>2, <1>3, FrameSizes

LEMMA Lengths ==
  ASSUME SequencesTyped, ReceivedInOrder
  PROVE  /\ Len(output) \in Nat /\ Len(sent) \in Nat /\ Len(received) \in Nat
         /\ Pending \in Nat
         /\ DOMAIN output = 1 .. Len(output)
         /\ DOMAIN sent = 1 .. Len(sent)
         /\ DOMAIN received = 1 .. Len(received)
  BY DEF SequencesTyped, ReceivedInOrder, Pending

(* While the writer may write, every frame is whole, and the pipe holds    *)
(* just what is pending.                                                   *)
LEMMA NothingCut ==
  ASSUME PipeInv, ~Finished
  PROVE  /\ \A i \in DOMAIN output :
              output[i].written >= FrameSize(output[i].message)
         /\ ~eos_received_ => Len(output) = Pending
<1>1. SequencesTyped /\ ReceivedInOrder /\ CutIsLast /\ PendingInPipe
  BY DEF PipeInv
<1>2. \A i \in DOMAIN output :
        output[i].written >= FrameSize(output[i].message)
  BY <1>1, FrameTyped DEF CutIsLast
<1>3. ASSUME ~eos_received_ PROVE Len(output) = Pending
  <2>1. /\ Len(output) \in Pending .. Pending + 1
        /\ Len(output) = Pending + 1 =>
             output[Len(output)].written < FrameSize(output[Len(output)].message)
    BY <1>1, <1>3 DEF PendingInPipe
  <2>2. Len(output) # Pending + 1
    <3> SUFFICES ASSUME Len(output) = Pending + 1 PROVE FALSE
      OBVIOUS
    <3>1. Len(output) \in DOMAIN output
      BY <1>1, Lengths
    <3> QED BY <1>1, <1>2, <2>1, <3>1, FrameTyped
  <2> QED BY <1>1, <2>1, <2>2, Lengths
<1> QED BY <1>2, <1>3

-----------------------------------------------------------------------------
(* push_raw of a message that is written whole.                            *)
LEMMA PushKeeps ==
  ASSUME PipeInv, NEW m \in Messages, push_raw(m)
  PROVE  PipeInv'
<1>1. /\ SequencesTyped /\ TypeOK /\ ReceivedInOrder
      /\ PendingInPipe /\ CutIsLast /\ EndSeen
  BY DEF PipeInv
<1>2. /\ output' = Append(output, Whole(m)) /\ sent' = Append(sent, m)
      /\ writer' = writer /\ closed_' = closed_
      /\ eos_received_' = eos_received_ /\ received' = received
      /\ writer = "running" /\ ~closed_
  BY DEF push_raw, CanPush, Whole
<1>3. ~Finished
  BY <1>2 DEF Finished
<1>4. m \in Sendable /\ FrameSize(m) \in Nat /\ FrameSize(m) >= 1
  BY FrameSizes DEF Sendable, SizesEnd
<1>5. /\ Whole(m) \in Frames
      /\ Whole(m).message = m /\ Whole(m).written = FrameSize(m)
  BY <1>4 DEF Whole, Frame, Frames
<1>6. SequencesTyped'
  BY <1>1, <1>2, <1>5 DEF SequencesTyped
<1>7. /\ Len(output') = Len(output) + 1
      /\ \A i \in 1 .. Len(output) : output'[i] = output[i]
      /\ output'[Len(output) + 1] = Whole(m)
      /\ DOMAIN output' = 1 .. Len(output) + 1
  BY <1>1, <1>2, Lengths DEF SequencesTyped
<1>8. /\ Len(sent') = Len(sent) + 1
      /\ \A i \in 1 .. Len(sent) : sent'[i] = sent[i]
      /\ sent'[Len(sent) + 1] = m
  BY <1>1, <1>2, Lengths DEF SequencesTyped
<1>9. Pending' = Pending + 1
  BY <1>1, <1>2, <1>8, Lengths DEF Pending
<1>10. \A i \in DOMAIN output' :
         /\ output'[i].written \in Int /\ FrameSize(output'[i].message) \in Nat
         /\ output'[i].written >= FrameSize(output'[i].message)
  BY <1>1, <1>3, <1>4, <1>5, <1>7, NothingCut, FrameTyped, Lengths
<1>11. TypeOK'
  <2> SUFFICES ASSUME NEW i \in DOMAIN output'
               PROVE  /\ output'[i].message \in Sendable
                      /\ output'[i].written \in 1 .. FrameSize(output'[i].message)
                      /\ output'[i].written < FrameSize(output'[i].message)
                           => i = Len(output')
    BY <1>1, <1>2 DEF TypeOK, Sendable
  <2>1. CASE i \in 1 .. Len(output)
    BY <1>1, <1>7, <2>1, <1>10, FrameTyped, Lengths DEF TypeOK, Sendable
  <2>2. CASE i = Len(output) + 1
    BY <1>4, <1>5, <1>7, <2>2
  <2> QED BY <1>1, <1>7, <2>1, <2>2, Lengths
<1>12. ReceivedInOrder'
  BY <1>1, <1>2, <1>8, Lengths DEF ReceivedInOrder
<1>13. PendingInPipe'
  <2> SUFFICES ASSUME ~eos_received_
               PROVE  /\ Len(output') = Pending + 1
                      /\ \A i \in 1 .. Pending + 1 :
                           output'[i] = Whole(sent'[Len(received) + i])
    <3>1. /\ eos_received_' = eos_received_ /\ received' = received
          /\ Pending \in Nat
      BY <1>1, <1>2, Lengths
    <3>2. ASSUME Len(output') = Pending + 1,
                 \A i \in 1 .. Pending + 1 :
                   output'[i] = Whole(sent'[Len(received) + i])
          PROVE  /\ Len(output') \in Pending' .. Pending' + 1
                 /\ \A i \in 1 .. Pending' :
                      output'[i] = Whole(sent'[Len(received') + i])
                 /\ Len(output') # Pending' + 1
      BY <1>9, <3>1, <3>2
    <3> QED BY <3>1, <3>2 DEF PendingInPipe, Whole
  <2>1. /\ Len(output) = Pending
        /\ \A i \in 1 .. Pending : output[i] = Whole(sent[Len(received) + i])
    BY <1>1, <1>3, NothingCut DEF PendingInPipe
  <2>2. ASSUME NEW i \in 1 .. Pending
        PROVE  output'[i] = Whole(sent'[Len(received) + i])
    <3>1. Len(received) + i \in 1 .. Len(sent)
      BY <1>1, Lengths DEF Pending
    <3> QED BY <1>7, <1>8, <2>1, <3>1
  <2>3. output'[Pending + 1] = Whole(sent'[Len(received) + (Pending + 1)])
    <3>1. Len(received) + (Pending + 1) = Len(sent) + 1
      BY <1>1, Lengths DEF Pending
    <3> QED BY <1>7, <1>8, <2>1, <3>1
  <2>4. Pending \in Nat
    BY <1>1, Lengths
  <2>5. \A i \in 1 .. Pending + 1 : output'[i] = Whole(sent'[Len(received) + i])
    BY <2>2, <2>3, <2>4
  <2> QED BY <1>7, <2>1, <2>5
<1>14. CutIsLast'
  BY <1>10 DEF CutIsLast
<1>15. EndSeen'
  BY <1>1, <1>2, <1>3, <1>8, <1>9, Lengths DEF EndSeen, ReceivedInOrder, Pending
<1> QED BY <1>6, <1>11, <1>12, <1>13, <1>14, <1>15 DEF PipeInv

(* The last the writer writes: the marker, or a frame or marker cut short  *)
(* by its death.                                                           *)
LEMMA LastFrameKeeps ==
  ASSUME PipeInv, ~Finished, NEW m \in Sendable,
         NEW written \in 1 .. FrameSize(m) - 1,
         output' = Append(output, Frame(m, written)),
         Finished', writer' \in {"running", "gone"}, closed_' \in BOOLEAN,
         UNCHANGED <<eos_received_, sent, received>>
  PROVE  PipeInv'
<1>1. /\ SequencesTyped /\ TypeOK /\ ReceivedInOrder
      /\ PendingInPipe /\ CutIsLast /\ EndSeen
  BY DEF PipeInv
<1>2. FrameSize(m) \in Nat /\ written \in Int
  BY FrameSizes
<1> DEFINE f == Frame(m, written)
<1>3. f \in Frames /\ f.message = m /\ f.written = written
  BY <1>2 DEF Frame, Frames
<1> HIDE DEF f
<1>4. output' = Append(output, f)
  BY DEF f
<1>5. SequencesTyped'
  BY <1>1, <1>3, <1>4 DEF SequencesTyped
<1>6. /\ Len(output') = Len(output) + 1
      /\ \A i \in 1 .. Len(output) : output'[i] = output[i]
      /\ output'[Len(output) + 1] = f
      /\ DOMAIN output' = 1 .. Len(output) + 1
  BY <1>1, <1>4, Lengths DEF SequencesTyped
<1>7. Pending' = Pending
  BY DEF Pending
<1>8. \A i \in DOMAIN output' :
        /\ output'[i].message \in Sendable
        /\ output'[i].written \in 1 .. FrameSize(output'[i].message)
        /\ output'[i].written < FrameSize(output'[i].message) => i = Len(output')
  <2> TAKE i \in DOMAIN output'
  <2>1. CASE i \in 1 .. Len(output)
    BY <1>1, <1>6, <2>1, NothingCut, FrameTyped, Lengths DEF TypeOK, Sendable
  <2>2. CASE i = Len(output) + 1
    BY <1>2, <1>3, <1>6, <2>2
  <2> QED BY <1>1, <1>6, <2>1, <2>2, Lengths
<1>9. TypeOK'
  BY <1>1, <1>8 DEF TypeOK, Sendable
<1>10. ReceivedInOrder'
  BY <1>1 DEF ReceivedInOrder
<1>11. CutIsLast'
  BY <1>8 DEF CutIsLast
<1>12. PendingInPipe'
  <2> SUFFICES ASSUME ~eos_received_
               PROVE  /\ Len(output') = Pending + 1
                      /\ \A i \in 1 .. Pending :
                           output'[i] = Whole(sent[Len(received) + i])
                      /\ f.written < FrameSize(f.message)
    BY <1>1, <1>6, <1>7, Lengths DEF PendingInPipe, Whole
  <2>1. /\ Len(output) = Pending
        /\ \A i \in 1 .. Pending : output[i] = Whole(sent[Len(received) + i])
    BY <1>1, NothingCut DEF PendingInPipe
  <2> QED BY <1>2, <1>3, <1>6, <2>1
<1>13. EndSeen'
  BY <1>1, <1>7 DEF EndSeen
<1> QED BY <1>5, <1>9, <1>10, <1>11, <1>12, <1>13 DEF PipeInv

-----------------------------------------------------------------------------
(* What the reader finds at the head of the pipe: a pending message,       *)
(* whole, or the one frame that is not, with nothing pending.              *)
LEMMA HeadOfPipe ==
  ASSUME PipeInv, ~eos_received_, output # <<>>
  PROVE  /\ Head(output) \in Frames
         /\ \/ /\ Pending > 0 /\ Len(received) + 1 \in DOMAIN sent
               /\ sent[Len(received) + 1] \in Sendable
               /\ Head(output) = Whole(sent[Len(received) + 1])
               /\ Parse(Head(output)) \in {"message", "end of stream"}
            \/ /\ Pending = 0 /\ Len(output) = 1 /\ Finished
               /\ Parse(Head(output)) # "message"
<1>1. SequencesTyped /\ ReceivedInOrder /\ PendingInPipe /\ CutIsLast
  BY DEF PipeInv
<1>2. 1 \in DOMAIN output /\ Head(output) = output[1]
  BY <1>1, Lengths DEF SequencesTyped
<1>3. /\ Head(output) \in Frames /\ Head(output).written \in Int
      /\ FrameSize(Head(output).message) \in Nat
  BY <1>1, <1>2, FrameTyped
<1>4. CASE Pending > 0
  <2>1. Len(received) + 1 \in DOMAIN sent
    BY <1>1, <1>4, Lengths DEF Pending
  <2>2. sent[Len(received) + 1] \in Sendable
    BY <1>1, <2>1 DEF SequencesTyped, Sendable
  <2>3. Head(output) = Whole(sent[Len(received) + 1])
    BY <1>1, <1>2, <1>4, Lengths DEF PendingInPipe
  <2>4. Head(output).written = FrameSize(Head(output).message)
    BY <2>3 DEF Whole, Frame
  <2>5. Head(output).written >= FrameSize(Head(output).message)
    BY <1>3, <2>4
  <2>6. Parse(Head(output)) \in {"message", "end of stream"}
    BY <1>3, <2>5, ParseFrame, Zenon
  <2> QED BY <1>3, <1>4, <2>1, <2>2, <2>3, <2>6
<1>5. CASE Pending = 0
  <2>1. Len(output) = 1
    BY <1>1, <1>2, <1>5, Lengths DEF PendingInPipe
  <2>2. Head(output).written < FrameSize(Head(output).message)
    BY <1>1, <1>2, <1>5, <2>1 DEF PendingInPipe
  <2>3. Finished
    BY <1>1, <1>2, <2>2 DEF CutIsLast
  <2>4. ~(Head(output).written >= FrameSize(Head(output).message))
    BY <1>3, <2>2
  <2>5. Parse(Head(output)) # "message"
    BY <1>3, <2>4, ParseFrame, Zenon
  <2> QED BY <1>3, <1>5, <2>1, <2>3, <2>5
<1>6. Pending > 0 \/ Pending = 0
  BY <1>1, Lengths
<1> QED BY <1>4, <1>5, <1>6

(* A frame is taken from the pipe.                                         *)
LEMMA TailOfPipe ==
  ASSUME SequencesTyped, TypeOK, CutIsLast, output # <<>>, output' = Tail(output),
         UNCHANGED <<writer, closed_>>, eos_received_' \in BOOLEAN
  PROVE  /\ output' \in Seq(Frames) /\ TypeOK' /\ CutIsLast'
         /\ Len(output') = Len(output) - 1
         /\ \A i \in 1 .. Len(output') : output'[i] = output[i + 1]
<1>1. /\ output' \in Seq(Frames) /\ Len(output') = Len(output) - 1
      /\ DOMAIN output' = 1 .. Len(output')
      /\ \A i \in 1 .. Len(output') :
           output'[i] = output[i + 1] /\ i + 1 \in DOMAIN output
  BY DEF SequencesTyped
<1>2. Finished' <=> Finished
  BY DEF Finished
<1>3. Len(output) \in Nat
  BY DEF SequencesTyped
<1>4. CutIsLast'
  BY <1>1, <1>2, <1>3 DEF CutIsLast
<1>5. TypeOK'
  BY <1>1, <1>3 DEF TypeOK
<1> QED BY <1>1, <1>4, <1>5

LEMMA PopEofKeeps ==
  ASSUME PipeInv, PopEof
  PROVE  PipeInv'
<1>1. /\ SequencesTyped /\ TypeOK /\ ReceivedInOrder
      /\ PendingInPipe /\ CutIsLast
  BY DEF PipeInv
<1>2. /\ ~eos_received_ /\ eos_received_' /\ output = <<>> /\ writer = "gone"
      /\ UNCHANGED <<output, writer, closed_, sent, received>>
      /\ eos_received_' \in BOOLEAN
  BY DEF PopEof
<1>3. Pending = 0 /\ Finished
  BY <1>1, <1>2, Lengths DEF PendingInPipe, Finished
<1>4. Pending' = 0 /\ Finished'
  BY <1>2, <1>3 DEF Pending, Finished
<1>5. EndSeen'
  BY <1>4 DEF EndSeen
<1>6. PendingInPipe'
  BY <1>2 DEF PendingInPipe
<1>7. SequencesTyped' /\ TypeOK' /\ ReceivedInOrder' /\ CutIsLast'
  BY <1>1, <1>2 DEF SequencesTyped, TypeOK, ReceivedInOrder, CutIsLast, Finished
<1> QED BY <1>5, <1>6, <1>7 DEF PipeInv

LEMMA PopEosKeeps ==
  ASSUME PipeInv, PopEos
  PROVE  PipeInv'
<1>1. /\ SequencesTyped /\ TypeOK /\ ReceivedInOrder /\ CutIsLast
  BY DEF PipeInv
<1>2. /\ ~eos_received_ /\ eos_received_' /\ eos_received_' \in BOOLEAN
      /\ output # <<>> /\ output' = Tail(output)
      /\ Parse(Head(output)) = "end of stream"
      /\ UNCHANGED <<writer, closed_, sent, received>>
  BY DEF PopEos
<1>3. /\ Head(output) \in Frames
      /\ \/ /\ Pending > 0
            /\ Head(output) = Whole(sent[Len(received) + 1])
         \/ Pending = 0 /\ Finished
  BY <1>2, HeadOfPipe
<1>4. Head(output).message = Empty
  BY <1>2, <1>3, ParseFrame, Zenon
<1>5. Pending' = Pending /\ (Finished' <=> Finished)
  BY <1>2 DEF Pending, Finished
<1>6. EndSeen'
  <2>1. \/ Pending > 0 /\ sent[Len(received) + 1] = Empty
        \/ Pending = 0 /\ Finished
    BY <1>3, <1>4 DEF Whole, Frame
  <2> QED BY <1>2, <1>5, <2>1 DEF EndSeen
<1>7. PendingInPipe'
  BY <1>2 DEF PendingInPipe
<1>8. output' \in Seq(Frames) /\ TypeOK' /\ CutIsLast'
  BY <1>1, <1>2, TailOfPipe
<1>9. SequencesTyped' /\ ReceivedInOrder'
  BY <1>1, <1>2, <1>8 DEF SequencesTyped, ReceivedInOrder
<1> QED BY <1>6, <1>7, <1>8, <1>9 DEF PipeInv

(* A frame cut short is the last one, and nothing was pending.             *)
LEMMA PopCutKeeps ==
  ASSUME PipeInv, PopCut
  PROVE  PipeInv'
<1>1. /\ SequencesTyped /\ TypeOK /\ ReceivedInOrder
      /\ PendingInPipe /\ CutIsLast /\ EndSeen
  BY DEF PipeInv
<1>2. /\ ~eos_received_ /\ eos_received_' = eos_received_
      /\ output # <<>> /\ output' = Tail(output)
      /\ Parse(Head(output)) \notin {"end of stream", "message"}
      /\ UNCHANGED <<writer, closed_, sent, received>>
  BY DEF PopCut
<1>3. Pending = 0 /\ Len(output) = 1
  BY <1>2, HeadOfPipe
<1>4. eos_received_' \in BOOLEAN
  BY <1>1, <1>2 DEF TypeOK
<1>5. /\ output' \in Seq(Frames) /\ TypeOK' /\ CutIsLast'
      /\ Len(output') = Len(output) - 1
  BY <1>1, <1>2, <1>4, TailOfPipe
<1>6. SequencesTyped' /\ ReceivedInOrder'
  BY <1>1, <1>2, <1>5 DEF SequencesTyped, ReceivedInOrder
<1>7. Pending' = 0
  BY <1>2, <1>3 DEF Pending
<1>8. PendingInPipe'
  BY <1>3, <1>5, <1>7 DEF PendingInPipe
<1>9. EndSeen'
  BY <1>2 DEF EndSeen
<1> QED BY <1>5, <1>6, <1>8, <1>9 DEF PipeInv

(* A message returned is the oldest one pending.                           *)
LEMMA PopMessageKeeps ==
  ASSUME PipeInv, PopMessage
  PROVE  PipeInv'
<1>1. /\ SequencesTyped /\ TypeOK /\ ReceivedInOrder
      /\ PendingInPipe /\ CutIsLast
  BY DEF PipeInv
<1>2. /\ ~eos_received_ /\ eos_received_' = eos_received_
      /\ output # <<>> /\ output' = Tail(output)
      /\ Parse(Head(output)) = "message"
      /\ received' = Append(received, Head(output).message)
      /\ UNCHANGED <<writer, closed_, sent>>
  BY DEF PopMessage
<1> DEFINE m == sent[Len(received) + 1]
<1>3. /\ Pending > 0 /\ Len(received) + 1 \in DOMAIN sent /\ m \in Sendable
      /\ Head(output) = Whole(m)
  BY <1>2, HeadOfPipe
<1>4. received' = Append(received, m)
  BY <1>2, <1>3 DEF Whole, Frame
<1>5. sent' = sent
  BY <1>2
<1> HIDE DEF m
<1>6. /\ received' \in Seq(Sendable) /\ Len(received') = Len(received) + 1
      /\ \A i \in 1 .. Len(received) : received'[i] = received[i]
      /\ received'[Len(received) + 1] = m
      /\ DOMAIN received' = 1 .. Len(received) + 1
  BY <1>1, <1>3, <1>4, Lengths DEF SequencesTyped
<1>7. ReceivedInOrder'
  <2>1. Len(received') <= Len(sent')
    BY <1>1, <1>3, <1>5, <1>6, Lengths
  <2>2. ASSUME NEW i \in DOMAIN received' PROVE received'[i] = sent'[i]
    <3>1. CASE i \in 1 .. Len(received)
      BY <1>1, <1>5, <1>6, <3>1, Lengths DEF ReceivedInOrder
    <3>2. CASE i = Len(received) + 1
      BY <1>5, <1>6, <3>2 DEF m
    <3> QED BY <1>1, <1>6, <3>1, <3>2, Lengths
  <2> QED BY <2>1, <2>2 DEF ReceivedInOrder
<1>8. eos_received_' \in BOOLEAN
  BY <1>1, <1>2 DEF TypeOK
<1>9. /\ output' \in Seq(Frames) /\ TypeOK' /\ CutIsLast'
      /\ Len(output') = Len(output) - 1
      /\ \A i \in 1 .. Len(output') : output'[i] = output[i + 1]
  BY <1>1, <1>2, <1>8, TailOfPipe
<1>10. SequencesTyped'
  BY <1>1, <1>5, <1>6, <1>9 DEF SequencesTyped
<1>11. Pending' = Pending - 1
  BY <1>1, <1>5, <1>6, Lengths DEF Pending
<1>12. /\ Pending \in Nat /\ Len(received) \in Nat /\ Len(output) \in Nat
  BY <1>1, Lengths
<1>13. PendingInPipe'
  <2>1. /\ Len(output) \in Pending .. Pending + 1
        /\ \A i \in 1 .. Pending : output[i] = Whole(sent[Len(received) + i])
        /\ Len(output) = Pending + 1 =>
             output[Len(output)].written < FrameSize(output[Len(output)].message)
    BY <1>1, <1>2 DEF PendingInPipe
  <2>2. Len(output') \in Pending' .. Pending' + 1
    BY <1>9, <1>11, <1>12, <2>1
  <2>3. ASSUME NEW i \in 1 .. Pending'
        PROVE  output'[i] = Whole(sent'[Len(received') + i])
    <3>1. i \in 1 .. Pending - 1 /\ i \in 1 .. Len(output')
      BY <1>11, <1>12, <2>2
    <3>2. i + 1 \in 1 .. Pending /\ Len(received') + i = Len(received) + (i + 1)
      BY <1>6, <1>12, <3>1
    <3> QED BY <1>5, <1>9, <2>1, <3>1, <3>2
  <2>4. ASSUME Len(output') = Pending' + 1
        PROVE  output'[Len(output')].written
                 < FrameSize(output'[Len(output')].message)
    <3>1. Len(output) = Pending + 1 /\ Len(output') \in 1 .. Len(output')
      BY <1>3, <1>9, <1>11, <1>12, <2>4
    <3>2. output'[Len(output')] = output[Len(output)]
      BY <1>9, <1>12, <3>1
    <3> QED BY <2>1, <3>1, <3>2
  <2> QED BY <2>2, <2>3, <2>4 DEF PendingInPipe, Whole
<1>14. EndSeen'
  BY <1>2 DEF EndSeen
<1> QED BY <1>7, <1>9, <1>10, <1>13, <1>14 DEF PipeInv

-----------------------------------------------------------------------------
LEMMA PipeInvInit == PipeInit => PipeInv
<1> SUFFICES ASSUME PipeInit PROVE PipeInv
  OBVIOUS
<1>1. /\ output = <<>> /\ sent = <<>> /\ received = <<>>
      /\ ~eos_received_ /\ closed_ \in BOOLEAN /\ eos_received_ \in BOOLEAN
      /\ writer \in {"running", "gone"}
  BY DEF PipeInit
<1>2. SequencesTyped /\ TypeOK /\ ReceivedInOrder /\ CutIsLast
  BY <1>1 DEF SequencesTyped, TypeOK, ReceivedInOrder, CutIsLast
<1>3. PendingInPipe /\ EndSeen
  BY <1>1 DEF PendingInPipe, EndSeen, Pending
<1> QED BY <1>2, <1>3 DEF PipeInv

LEMMA PipeInvStep ==
  ASSUME PipeInv, [PipeNext]_pipe
  PROVE  PipeInv'
<1>1. CASE UNCHANGED pipe
  BY <1>1 DEF pipe, PipeInv, SequencesTyped, TypeOK, ReceivedInOrder,
              PendingInPipe, CutIsLast, EndSeen, Pending, Finished
<1>2. writer \in {"running", "gone"} /\ closed_ \in BOOLEAN
  BY DEF PipeInv, TypeOK
<1>3. Empty \in Sendable /\ SizesEnd \in 1 .. FrameSize(Empty) - 1
  BY FrameSizes DEF Sendable, SizesEnd
<1>4. ASSUME NEW m \in Messages, push_raw(m) PROVE PipeInv'
  BY <1>4, PushKeeps
<1>5. ASSUME NEW m \in Messages, ExitWriting(m) PROVE PipeInv'
  <2>1. m \in Sendable
    BY DEF Sendable
  <2>2. ~Finished /\ Finished' /\ writer' \in {"running", "gone"}
    BY <1>5 DEF ExitWriting, ExitWithin, CanPush, Finished
  <2>3. closed_' \in BOOLEAN /\ UNCHANGED <<eos_received_, sent, received>>
    BY <1>2, <1>5 DEF ExitWriting, ExitWithin
  <2>4. PICK written \in 1 .. FrameSize(m) - 1 :
          output' = Append(output, Frame(m, written))
    BY <1>5 DEF ExitWriting, ExitWithin
  <2> QED BY <2>1, <2>2, <2>3, <2>4, LastFrameKeeps
<1>6. CASE close
  <2>1. ~Finished /\ Finished' /\ writer' \in {"running", "gone"}
    BY <1>2, <1>6 DEF close, Finished
  <2>2. closed_' \in BOOLEAN /\ UNCHANGED <<eos_received_, sent, received>>
    BY <1>6 DEF close
  <2>3. output' = Append(output, Frame(Empty, SizesEnd))
    BY <1>6 DEF close
  <2> QED BY <1>3, <2>1, <2>2, <2>3, LastFrameKeeps
<1>7. CASE ExitClosing
  <2>1. ~Finished /\ Finished' /\ writer' \in {"running", "gone"}
    BY <1>7 DEF ExitClosing, ExitWithin, Finished
  <2>2. closed_' \in BOOLEAN /\ UNCHANGED <<eos_received_, sent, received>>
    BY <1>2, <1>7 DEF ExitClosing, ExitWithin
  <2>3. PICK written \in 1 .. SizesEnd - 1 :
          output' = Append(output, Frame(Empty, written))
    BY <1>7 DEF ExitClosing, ExitWithin
  <2>4. written \in 1 .. FrameSize(Empty) - 1
    BY <1>3, FrameSizes DEF SizesEnd
  <2> QED BY <1>3, <2>1, <2>2, <2>3, <2>4, LastFrameKeeps
<1>8. CASE Exit
  BY <1>8 DEF Exit, PipeInv, SequencesTyped, TypeOK, ReceivedInOrder,
              PendingInPipe, CutIsLast, EndSeen, Pending, Finished
<1>9. CASE pop_raw
  BY <1>9, PopEofKeeps, PopEosKeeps, PopCutKeeps, PopMessageKeeps DEF pop_raw
<1> QED BY <1>1, <1>4, <1>5, <1>6, <1>7, <1>8, <1>9 DEF PipeNext, Write

-----------------------------------------------------------------------------
(* Every variable keeps its type, whichever byte the writer dies at: a     *)
(* frame cut short is the last one, and nothing is written after the       *)
(* marker of close() (stdio.cpp, push_raw and close).                      *)
THEOREM PipeTypes == PipeSpec => []TypeOK
<1>1. PipeInv => TypeOK
  BY DEF PipeInv
<1> QED BY <1>1, PipeInvInit, PipeInvStep, PTL DEF PipeSpec

(* What pop_raw returned is what was written whole, from the first message *)
(* on, in order: no message twice, none left out, no part of one.          *)
THEOREM PipeInOrder == PipeSpec => []ReceivedInOrder
<1>1. PipeInv => ReceivedInOrder
  BY DEF PipeInv
<1> QED BY <1>1, PipeInvInit, PipeInvStep, PTL DEF PipeSpec

(* The reader is told the end only when every message written whole has    *)
(* been returned, up to the first empty one, which looks like the marker.  *)
THEOREM PipeEosHonest == PipeSpec => []EosIsHonest
<1>1. PipeInv => EosIsHonest
  <2> SUFFICES ASSUME PipeInv, eos_received_,
                      NEW i \in DOMAIN sent, i > Len(received)
               PROVE  \E j \in 1 .. i : sent[j] = Empty
    BY DEF EosIsHonest
  <2>1. SequencesTyped /\ ReceivedInOrder /\ EndSeen
    BY DEF PipeInv
  <2>2. Pending # 0 /\ Len(received) + 1 \in 1 .. i
    <3>1. i \in 1 .. Len(sent) /\ Len(received) \in Nat /\ Len(sent) \in Nat
      BY <2>1, Lengths
    <3> QED BY <3>1 DEF Pending
  <2>3. sent[Len(received) + 1] = Empty
    BY <2>1, <2>2 DEF EndSeen
  <2> QED BY <2>2, <2>3
<1> QED BY <1>1, PipeInvInit, PipeInvStep, PTL DEF PipeSpec
=============================================================================
