------------------------- MODULE CppRingData_proofs -------------------------
(***************************************************************************)
(* Theorems about what CppRing does to the data: every slot pushed is      *)
(* popped once, in order and intact, as long as the ring is never filled   *)
(* to its last byte (the code lets that happen, see the run CppExactFill). *)
(* So the ring implements the bounded queue of RingQueue.                  *)
(***************************************************************************)
EXTENDS CppRing_proofs, CppRingQueue, RingLayout_proofs

(* Equal positions mean empty: the slots not yet read leave a byte free.   *)
NotFull == Used < total_data_bytes

End(slot) == slot.at + Size(slot.msg)

(* Slots follow each other in the stream without gaps or overlap.          *)
SlotsAdjacent ==
  /\ \A i \in 1 .. Len(published) : End(published[i]) <= Written
  /\ \A i, j \in 1 .. Len(published) : i < j => End(published[i]) <= published[j].at
  /\ \A i \in 1 .. Len(published) - 1 : published[i + 1].at = End(published[i])

CellsOf(slot) ==
  SlotCells(CellAt(End(slot)), Metadata[slot.msg], Payload[slot.msg])
InRing(memory, slot) ==
  \A d \in 0 .. Size(slot.msg) - 1 : memory[CellAt(slot.at + d)] = CellsOf(slot)[d + 1]

(* Metadata a reader accepts: what either language checks before it takes  *)
(* the lock.                                                               *)
Readable(m) == Len(Metadata[m]) <= MAX_METADATA_SIZE

(* A push in progress is of a message whose slot may enter the ring.       *)
Pushing == {"count", "count_wait", "push_lock", "push_cs", "wait_timed",
            "wait_forever", "relock"}
PushInv ==
  \A p \in Producers : pc[p] \in Pushing => msg[p] \in Msg /\ Readable(msg[p])

StreamInv ==
  /\ published \in Seq([msg : Msg, at : Nat])
  /\ \A i \in 1 .. Len(published) : Readable(published[i].msg)
  /\ SlotsAdjacent
  /\ consumed \in Seq(Item) /\ dropped \in Seq(Item)
  /\ FifoIntact
  /\ write_pos = CellAt(Written) /\ read_pos = CellAt(Drained)
  /\ mem \in [Cells -> Nat]
  /\ \A i \in Len(consumed) + 1 .. Len(published) : InRing(mem, published[i])

-----------------------------------------------------------------------------
(***************************************************************************)
(* Sizes and offsets.                                                      *)
(***************************************************************************)
LEMMA SizeOfSlot ==
  ASSUME NEW m \in Msg, NEW next_pos \in Nat
  PROVE  /\ Metadata[m] \in Seq(Nat) /\ Payload[m] \in Seq(Nat)
         /\ ItemOf(m) \in Item
         /\ Size(m) \in Nat \ {0}
         /\ SlotCells(next_pos, Metadata[m], Payload[m]) \in Seq(Nat)
         /\ Len(SlotCells(next_pos, Metadata[m], Payload[m])) = Size(m)
<1>1. Metadata[m] \in Seq(Nat) /\ Payload[m] \in Seq(Nat)
  BY RingAssumption
<1>2. IsSlot(SlotCells(next_pos, Metadata[m], Payload[m]), next_pos,
             Metadata[m], Len(Metadata[m]), Payload[m], Len(Payload[m]))
  BY <1>1, SlotShape
<1>3. ItemOf(m) \in Item
  BY <1>1 DEF ItemOf, Item
<1>4. Size(m) = Len(Metadata[m]) + Len(Payload[m]) + 5
  BY <1>2 DEF IsSlot, Size
<1>5. Size(m) \in Nat \ {0}
  <2> DEFINE a == Len(Metadata[m])
  <2> DEFINE b == Len(Payload[m])
  <2>1. a \in Nat /\ b \in Nat
    BY <1>1, LenProperties
  <2> HIDE DEF a, b
  <2>2. a + b + 5 \in Nat \ {0}
    BY <2>1
  <2> QED BY <1>4, <2>2 DEF a, b
<1>6. /\ SlotCells(next_pos, Metadata[m], Payload[m]) \in Seq(Nat)
      /\ Len(SlotCells(next_pos, Metadata[m], Payload[m])) = Size(m)
  BY <1>2, <1>4 DEF IsSlot
<1> QED
  BY <1>1, <1>3, <1>5, <1>6

LEMMA SizeNat ==
  ASSUME NEW m \in Msg
  PROVE  Size(m) \in Nat \ {0}
BY SizeOfSlot

LEMMA CellsNat ==
  ASSUME NEW o \in Int
  PROVE  CellAt(o) \in Nat
BY OffsetInCell, LayoutAssumption DEF Cells, data_begin_abs

(* The written end of the stream, and the first slot not yet read.         *)
LEMMA StreamEnds ==
  ASSUME StreamInv
  PROVE  /\ Written \in Nat /\ Drained \in Nat /\ Used \in Nat
         /\ Len(consumed) \in Nat /\ Len(published) \in Nat
         /\ Len(consumed) <= Len(published)
         /\ \A i \in 1 .. Len(published) :
              /\ published[i].msg \in Msg /\ published[i].at \in Nat
              /\ published[i].at + Size(published[i].msg) <= Written
         /\ \A i \in Len(consumed) + 1 .. Len(published) : Drained <= published[i].at
         /\ Used = 0 => Len(consumed) = Len(published)
<1>1. /\ published \in Seq([msg : Msg, at : Nat]) /\ Len(published) \in Nat
      /\ consumed \in Seq(Item) /\ Len(consumed) \in Nat
      /\ Len(consumed) <= Len(published)
  BY DEF StreamInv, FifoIntact
<1>2. \A i \in 1 .. Len(published) : published[i].msg \in Msg /\ published[i].at \in Nat
  <2> TAKE i \in 1 .. Len(published)
  <2>1. published[i] \in [msg : Msg, at : Nat]
    BY <1>1, ElementOfSeq
  <2> QED BY <2>1
<1>3. \A i \in 1 .. Len(published) : Size(published[i].msg) \in Nat \ {0}
  BY <1>2, SizeNat
<1>4. Written \in Nat
  <2>1. CASE published = <<>>
    BY <2>1 DEF Written
  <2>2. CASE published # <<>>
    <3>1. Len(published) \in 1 .. Len(published)
      BY <1>1, <2>2
    <3> QED BY <1>2, <1>3, <2>2, <3>1 DEF Written
  <2> QED BY <2>1, <2>2
<1>5. \A i \in 1 .. Len(published) :
        published[i].at + Size(published[i].msg) <= Written
  BY DEF StreamInv, SlotsAdjacent, End
<1>6. CASE Len(consumed) < Len(published)
  <2> DEFINE k == Len(consumed) + 1
  <2>1. k \in 1 .. Len(published) /\ Drained = published[k].at
    BY <1>1, <1>6 DEF Drained
  <2>2. Drained \in Nat /\ Drained < Written
    BY <1>2, <1>3, <1>4, <1>5, <2>1
  <2>3. ASSUME NEW i \in k .. Len(published) PROVE Drained <= published[i].at
    <3>1. i \in 1 .. Len(published)
      BY <1>1
    <3>2. CASE i = k
      BY <1>2, <2>1, <3>2
    <3>3. CASE k < i
      <4>1. published[k].at + Size(published[k].msg) <= published[i].at
        BY <2>1, <3>1, <3>3 DEF StreamInv, SlotsAdjacent, End
      <4> QED BY <1>2, <1>3, <2>1, <3>1, <4>1
    <3> QED BY <1>1, <3>2, <3>3
  <2> QED BY <1>1, <1>2, <1>4, <1>5, <2>2, <2>3 DEF Used
<1>7. CASE Len(consumed) = Len(published)
  <2>1. Drained = Written /\ Len(consumed) + 1 .. Len(published) = {}
    BY <1>1, <1>7 DEF Drained
  <2> QED BY <1>1, <1>2, <1>4, <1>5, <1>7, <2>1 DEF Used
<1> QED BY <1>1, <1>6, <1>7

-----------------------------------------------------------------------------
(***************************************************************************)
(* What the invariant says of the memory and of the free space.            *)
(***************************************************************************)
LEMMA FreeSpace ==
  ASSUME StreamInv, NotFull
  PROVE  /\ available_space(write_pos, read_pos) = total_data_bytes - Used
         /\ write_pos = read_pos => Len(consumed) = Len(published)
         /\ SpaceAccounting
<1>1. /\ Written \in Nat /\ Drained \in Nat /\ Used \in Nat
      /\ Used = 0 => Len(consumed) = Len(published)
  BY StreamEnds
<1>2. write_pos = CellAt(Written) /\ read_pos = CellAt(Drained)
  BY DEF StreamInv
<1>3. Written - Drained \in 0 .. total_data_bytes - 1
  BY <1>1, LayoutAssumption DEF NotFull, Used
<1>4. available_space(CellAt(Written), CellAt(Drained)) = total_data_bytes - (Written - Drained)
  BY <1>1, <1>3, AvailableSpace
<1>5. available_space(write_pos, read_pos) = total_data_bytes - Used
  BY <1>2, <1>4 DEF Used
<1>6. ASSUME write_pos = read_pos PROVE Used = 0
  <2>1. available_space(write_pos, read_pos) = total_data_bytes
    <3>1. read_pos \in Nat
      BY <1>1, <1>2, CellsNat
    <3> QED
      BY <1>6, <3>1, LayoutAssumption DEF available_space, data_begin_abs, data_end_abs
  <2> QED BY <1>1, <1>5, <2>1, LayoutAssumption
<1>7. Used \in 0 .. total_data_bytes
  BY <1>1, LayoutAssumption DEF NotFull
<1> QED BY <1>1, <1>2, <1>5, <1>6, <1>7 DEF SpaceAccounting

(* A slot whose cells are still in the region is read as it was pushed.    *)
LEMMA SlotReadable ==
  ASSUME StreamInv, NEW i \in 1 .. Len(published),
         Size(published[i].msg) <= total_data_bytes, InRing(mem, published[i])
  PROVE  LET slot == ReadSlot(mem, CellAt(published[i].at))
         IN  /\ IsValid(slot)
             /\ [metadata |-> slot.metadata, payload |-> slot.payload]
                  = ItemOf(published[i].msg)
             /\ slot.next = CellAt(published[i].at + Size(published[i].msg))
             /\ ReadsAs(slot, slot.next, Metadata[published[i].msg],
                        Payload[published[i].msg])
<1> DEFINE m == published[i].msg
<1> DEFINE at == published[i].at
<1> DEFINE next_pos == CellAt(at + Size(m))
<1>1. m \in Msg /\ at \in Nat
  BY StreamEnds
<1>2. Readable(m) /\ mem \in [Cells -> Nat]
  BY DEF StreamInv
<1>3. \A d \in 0 .. Size(m) - 1 :
        mem[CellAt(at + d)] = SlotCells(next_pos, Metadata[m], Payload[m])[d + 1]
  BY DEF InRing, CellsOf, End
<1>a. Size(m) <= total_data_bytes
  OBVIOUS
<1> HIDE DEF m, at
<1>4. Size(m) \in Nat
  BY <1>1, SizeNat
<1>5. next_pos \in Nat
  <2>1. at + Size(m) \in Int
    BY <1>1, <1>4
  <2> QED BY <2>1, CellsNat
<1> HIDE DEF next_pos
<1>6. /\ Metadata[m] \in Seq(Nat) /\ Payload[m] \in Seq(Nat)
      /\ Size(m) = slot_size(Metadata[m], Payload[m])
  BY <1>1, RingAssumption DEF Size
<1>7. ReadsAs(ReadSlot(mem, CellAt(at)), next_pos, Metadata[m], Payload[m])
  <2>1. slot_size(Metadata[m], Payload[m]) <= total_data_bytes
    BY <1>a, <1>6
  <2>2. \A d \in 0 .. slot_size(Metadata[m], Payload[m]) - 1 :
          mem[CellAt(at + d)] = SlotCells(next_pos, Metadata[m], Payload[m])[d + 1]
    BY <1>3, <1>6
  <2>3. at \in Int
    BY <1>1
  <2> QED BY <1>2, <1>5, <1>6, <2>1, <2>2, <2>3, SlotReadBack
<1>8. Len(Metadata[m]) <= MAX_METADATA_SIZE
  BY <1>2 DEF Readable
<1> QED BY <1>7, <1>8 DEF m, at, next_pos, ReadsAs, IsValid, ItemOf

(* So is a slot that is still to be read.                                  *)
LEMMA SlotIntact ==
  ASSUME StreamInv, NotFull, NEW i \in Len(consumed) + 1 .. Len(published)
  PROVE  LET slot == ReadSlot(mem, CellAt(published[i].at))
         IN  /\ IsValid(slot)
             /\ [metadata |-> slot.metadata, payload |-> slot.payload]
                  = ItemOf(published[i].msg)
             /\ slot.next = CellAt(published[i].at + Size(published[i].msg))
<1>1. i \in 1 .. Len(published)
  BY StreamEnds
<1>2. /\ Written \in Nat /\ Drained \in Nat
      /\ published[i].msg \in Msg /\ published[i].at \in Nat
      /\ published[i].at + Size(published[i].msg) <= Written
      /\ Drained <= published[i].at
  BY <1>1, StreamEnds
<1>3. Size(published[i].msg) <= total_data_bytes
  <2>1. Size(published[i].msg) \in Nat
    BY <1>2, SizeNat
  <2> QED BY <1>2, <2>1, LayoutAssumption DEF NotFull, Used
<1>4. InRing(mem, published[i])
  BY DEF StreamInv
<1> QED BY <1>1, <1>3, <1>4, SlotReadable

LEMMA BacklogReadable ==
  ASSUME StreamInv, NotFull
  PROVE  BacklogIntact
BY SlotIntact DEF BacklogIntact

-----------------------------------------------------------------------------
(***************************************************************************)
(* The two steps that change the stream.                                   *)
(***************************************************************************)
(* A push overwrites no slot that starts less than a region's length       *)
(* before the place where its own ends.                                    *)
LEMMA PushMemory ==
  ASSUME StreamInv, NEW m \in Msg, Size(m) <= total_data_bytes,
         NEW next_pos, next_pos = normalize_abs(write_pos + Size(m)),
         mem' = write_bytes(mem, write_pos,
                            SlotCells(next_pos, Metadata[m], Payload[m]))
  PROVE  /\ next_pos = CellAt(Written + Size(m)) /\ next_pos \in Nat
         /\ mem' \in [Cells -> Nat]
         /\ InRing(mem', [msg |-> m, at |-> Written])
         /\ \A i \in 1 .. Len(published) :
              /\ InRing(mem, published[i])
              /\ (Written + Size(m)) - published[i].at <= total_data_bytes
              => InRing(mem', published[i])
<1> DEFINE new == [msg |-> m, at |-> Written]
<1>1. Written \in Nat /\ Size(m) \in Nat \ {0}
  BY StreamEnds, SizeNat
<1>2. next_pos = CellAt(Written + Size(m)) /\ next_pos \in Nat
  <2>1. write_pos = CellAt(Written) /\ Written \in Int /\ Size(m) \in Nat
    BY <1>1 DEF StreamInv
  <2>2. normalize_abs(CellAt(Written) + Size(m)) = CellAt(Written + Size(m))
    BY <2>1, NormalizeStep, Zenon
  <2>3. Written + Size(m) \in Int
    BY <2>1
  <2>4. CellAt(Written + Size(m)) \in Nat
    BY <2>3, CellsNat
  <2> QED BY <2>1, <2>2, <2>4
<1>3. /\ mem' \in [Cells -> Nat]
      /\ \A d \in 0 .. total_data_bytes - 1 :
           mem'[CellAt(Written + d)]
             = IF d < Size(m) THEN CellsOf(new)[d + 1] ELSE mem[CellAt(Written + d)]
  <2> DEFINE cells == SlotCells(next_pos, Metadata[m], Payload[m])
  <2>1. cells \in Seq(Nat) /\ Len(cells) = Size(m)
    BY <1>2, SizeOfSlot
  <2>2. cells = CellsOf(new)
    BY <1>2 DEF CellsOf, End
  <2> HIDE DEF cells
  <2>3. /\ mem \in [Cells -> Nat] /\ Written \in Int
        /\ mem' = write_bytes(mem, CellAt(Written), cells)
    BY <1>1 DEF StreamInv, cells
  <2>4. Len(cells) <= total_data_bytes
    BY <2>1
  <2>5. /\ write_bytes(mem, CellAt(Written), cells) \in [Cells -> Nat]
        /\ \A d \in 0 .. total_data_bytes - 1 :
             write_bytes(mem, CellAt(Written), cells)[CellAt(Written + d)]
               = IF d < Len(cells) THEN cells[d + 1] ELSE mem[CellAt(Written + d)]
    BY <2>1, <2>3, <2>4, WriteBytes, Zenon
  <2> QED BY <2>1, <2>2, <2>3, <2>5
<1>4. InRing(mem', new)
  <2>1. ASSUME NEW d \in 0 .. Size(m) - 1
        PROVE  mem'[CellAt(Written + d)] = CellsOf(new)[d + 1]
    <3>1. d \in 0 .. total_data_bytes - 1 /\ d < Size(m)
      BY <1>1, LayoutAssumption
    <3> QED BY <1>3, <3>1
  <2> QED BY <2>1 DEF InRing
<1>5. ASSUME NEW i \in 1 .. Len(published), InRing(mem, published[i]),
             (Written + Size(m)) - published[i].at <= total_data_bytes
      PROVE  InRing(mem', published[i])
  <2> DEFINE at == published[i].at
  <2> DEFINE size == Size(published[i].msg)
  <2>1. at \in Nat /\ at + size <= Written /\ published[i].msg \in Msg
    BY StreamEnds
  <2>2. size \in Nat \ {0}
    BY <2>1, SizeNat
  <2>3. \A d \in 0 .. size - 1 : mem[CellAt(at + d)] = CellsOf(published[i])[d + 1]
    BY <1>5 DEF InRing
  <2>a. (Written + Size(m)) - at <= total_data_bytes
    BY <1>5
  <2> HIDE DEF at, size
  <2>4. ASSUME NEW d \in 0 .. size - 1
        PROVE  mem'[CellAt(at + d)] = mem[CellAt(at + d)]
    <3> DEFINE e == ((at + d) + total_data_bytes) - Written
    <3>1. /\ e \in 0 .. total_data_bytes - 1 /\ ~(e < Size(m))
          /\ Written + e = (at + d) + total_data_bytes
          /\ at + d \in Int
      BY <1>1, <2>a, <2>1, <2>2, LayoutAssumption
    <3> HIDE DEF e
    <3>2. CellAt(Written + e) = CellAt(at + d)
      <4>1. CellAt((at + d) + total_data_bytes) = CellAt(at + d)
        BY <3>1, CellPeriod, Zenon
      <4> QED BY <3>1, <4>1
    <3>3. mem'[CellAt(Written + e)] = mem[CellAt(Written + e)]
      BY <1>3, <3>1
    <3> QED BY <3>2, <3>3
  <2>5. \A d \in 0 .. size - 1 : mem'[CellAt(at + d)] = CellsOf(published[i])[d + 1]
    BY <2>3, <2>4
  <2> QED BY <2>5 DEF InRing, at, size
<1> QED BY <1>2, <1>3, <1>4, <1>5

(* A push writes its slot behind the last one, and over none that is still *)
(* to be read.                                                             *)
LEMMA PushKeepsStream ==
  ASSUME StreamInv, NotFull, NEW m \in Msg, Readable(m), HasRoom(m),
         NEW next_pos, next_pos = normalize_abs(write_pos + Size(m)),
         mem' = write_bytes(mem, write_pos,
                            SlotCells(next_pos, Metadata[m], Payload[m])),
         write_pos' = next_pos,
         published' = Append(published, [msg |-> m, at |-> Written]),
         UNCHANGED <<read_pos, consumed, dropped>>
  PROVE  StreamInv'
<1> DEFINE n == Len(published)
<1> DEFINE k == Len(consumed)
<1> DEFINE new == [msg |-> m, at |-> Written]
<1>1. /\ Written \in Nat /\ Drained \in Nat /\ Used \in Nat
      /\ k \in Nat /\ n \in Nat /\ k <= n
      /\ \A i \in 1 .. n : /\ published[i].msg \in Msg /\ published[i].at \in Nat
                           /\ published[i].at + Size(published[i].msg) <= Written
      /\ \A i \in k + 1 .. n : Drained <= published[i].at
  BY StreamEnds
<1>a. k \in Nat /\ n \in Nat /\ k <= n
  BY <1>1
<1>2. Size(m) \in Nat \ {0} /\ Size(m) <= total_data_bytes - Used
  <2>1. Size(m) \in Nat \ {0}
    BY SizeNat
  <2> QED BY <1>1, <2>1, FreeSpace DEF HasRoom
<1>3. /\ next_pos = CellAt(Written + Size(m)) /\ next_pos \in Nat
      /\ mem' \in [Cells -> Nat]
      /\ InRing(mem', new)
      /\ \A i \in 1 .. n : /\ InRing(mem, published[i])
                           /\ (Written + Size(m)) - published[i].at <= total_data_bytes
                           => InRing(mem', published[i])
  <2>1. Size(m) <= total_data_bytes
    BY <1>1, <1>2, LayoutAssumption
  <2> QED BY <2>1, PushMemory
<1>4. /\ published' \in Seq([msg : Msg, at : Nat])
      /\ Len(published') = n + 1
      /\ \A i \in 1 .. n : published'[i] = published[i]
      /\ published'[n + 1] = new
  <2>1. new \in [msg : Msg, at : Nat] /\ published \in Seq([msg : Msg, at : Nat])
    BY <1>1 DEF StreamInv
  <2> QED BY <2>1, AppendProperties
<1>5. Written' = Written + Size(m)
  <2>1. published' # <<>>
    BY <1>1, <1>4
  <2> QED BY <1>1, <1>4, <2>1 DEF Written
<1>6. Drained' = Drained
  <2>1. CASE k < n
    <3>1. k + 1 \in 1 .. n /\ k < n + 1
      BY <1>1, <2>1
    <3> QED BY <1>4, <2>1, <3>1 DEF Drained
  <2>2. CASE k = n
    <3>1. k < n + 1 /\ ~(k < n)
      BY <1>1, <2>2
    <3> QED BY <1>4, <2>2, <3>1 DEF Drained
  <2> QED BY <1>a, <2>1, <2>2
<1> HIDE DEF n, k
<1>7. SlotsAdjacent'
  <2>1. ASSUME NEW i \in 1 .. n + 1 PROVE End(published'[i]) <= Written'
    <3>1. CASE i \in 1 .. n
      <4>1. published[i].msg \in Msg /\ published[i].at \in Nat
        BY <1>1, <3>1
      <4>2. Size(published[i].msg) \in Nat
        BY <4>1, SizeNat
      <4> QED BY <1>1, <1>2, <1>4, <1>5, <3>1, <4>1, <4>2 DEF End
    <3>2. CASE i = n + 1
      BY <1>1, <1>2, <1>4, <1>5, <3>2 DEF End
    <3>3. i \in 1 .. n \/ i = n + 1
      BY <1>a
    <3> QED BY <3>3, <3>1, <3>2
  <2>2. ASSUME NEW i \in 1 .. n + 1, NEW j \in 1 .. n + 1, i < j
        PROVE  End(published'[i]) <= published'[j].at
    <3>1. i \in 1 .. n
      BY <1>1, <2>2
    <3>2. CASE j \in 1 .. n
      BY <1>4, <2>2, <3>1, <3>2 DEF StreamInv, SlotsAdjacent, n
    <3>3. CASE j = n + 1
      BY <1>1, <1>4, <3>1, <3>3 DEF End
    <3>4. j \in 1 .. n \/ j = n + 1
      BY <1>a
    <3> QED BY <3>2, <3>3, <3>4
  <2>3. ASSUME NEW i \in 1 .. n PROVE published'[i + 1].at = End(published'[i])
    <3>1. CASE i < n
      <4>1. i \in 1 .. n - 1 /\ i + 1 \in 1 .. n
        BY <1>1, <3>1
      <4> QED BY <1>4, <4>1 DEF StreamInv, SlotsAdjacent, n
    <3>2. CASE i = n
      <4>1. Written = End(published[n])
        <5>1. published # <<>>
          BY <3>2 DEF n
        <5> QED BY <5>1 DEF Written, End, n
      <4> QED BY <1>4, <3>2, <4>1
    <3>3. i < n \/ i = n
      BY <1>a
    <3> QED BY <3>1, <3>2, <3>3
  <2>4. (n + 1) - 1 = n
    BY <1>1
  <2> QED BY <1>4, <2>1, <2>2, <2>3, <2>4 DEF SlotsAdjacent
<1>8. ASSUME NEW i \in k + 1 .. n PROVE InRing(mem', published[i])
  <2>1. i \in 1 .. n /\ published[i].at \in Nat /\ Drained <= published[i].at
    <3>1. i \in 1 .. n
      BY <1>1
    <3> QED BY <1>1, <3>1
  <2>2. (Written + Size(m)) - published[i].at <= total_data_bytes
    BY <1>1, <1>2, <2>1, LayoutAssumption DEF Used
  <2>3. InRing(mem, published[i])
    BY DEF StreamInv, k, n
  <2> QED BY <1>3, <2>1, <2>2, <2>3
<1>11. \A i \in k + 1 .. n + 1 : InRing(mem', published'[i])
  <2> TAKE i \in k + 1 .. n + 1
  <2>1. CASE i \in k + 1 .. n
    <3>1. published'[i] = published[i]
      BY <1>1, <1>4, <2>1
    <3> QED BY <1>8, <2>1, <3>1
  <2>2. CASE i = n + 1
    BY <1>3, <1>4, <2>2
  <2>3. i \in k + 1 .. n \/ i = n + 1
    BY <1>a
  <2> QED BY <2>1, <2>2, <2>3
<1>12. \A i \in 1 .. n + 1 : Readable(published'[i].msg)
  <2> TAKE i \in 1 .. n + 1
  <2>1. CASE i \in 1 .. n
    BY <1>4, <2>1 DEF StreamInv, n
  <2>2. CASE i = n + 1
    BY <1>4, <2>2
  <2>3. i \in 1 .. n \/ i = n + 1
    BY <1>a
  <2> QED BY <2>1, <2>2, <2>3
<1>13. FifoIntact'
  <2>1. /\ consumed' = consumed /\ Len(consumed) <= Len(published')
        /\ \A i \in 1 .. Len(consumed) : published'[i] = published[i]
    BY <1>1, <1>4 DEF k
  <2> QED BY <2>1 DEF StreamInv, FifoIntact
<1>14. write_pos' = CellAt(Written') /\ read_pos' = CellAt(Drained')
  BY <1>3, <1>5, <1>6 DEF StreamInv
<1>15. (\A i \in Len(consumed) + 1 .. Len(published) : InRing(mem, published[i]))'
  BY <1>4, <1>11 DEF k
<1>16. (\A i \in 1 .. Len(published) : Readable(published[i].msg))'
  BY <1>4, <1>12
<1>17. consumed' \in Seq(Item) /\ dropped' \in Seq(Item)
  BY DEF StreamInv
<1> QED
  BY <1>3, <1>4, <1>7, <1>13, <1>14, <1>15, <1>16, <1>17 DEF StreamInv

(* A pop that finds the positions apart reads the oldest slot.             *)
LEMMA PopReadsNext ==
  ASSUME StreamInv, NotFull, write_pos # read_pos,
         NEW k, k = Len(consumed) + 1,
         NEW slot, slot = ReadSlot(mem, read_pos)
  PROVE  /\ k \in 1 .. Len(published)
         /\ IsValid(slot)
         /\ [metadata |-> slot.metadata, payload |-> slot.payload]
              = ItemOf(published[k].msg)
         /\ slot.next = CellAt(End(published[k]))
<1>1. Len(consumed) \in Nat /\ Len(published) \in Nat /\ Len(consumed) <= Len(published)
  BY StreamEnds
<1>2. Len(consumed) < Len(published)
  <2>1. Len(consumed) # Len(published)
    <3>1. CASE Len(consumed) = Len(published)
      <4>1. Drained = Written
        BY <1>1, <3>1 DEF Drained
      <4> QED BY <4>1 DEF StreamInv
    <3> QED BY <3>1
  <2> QED BY <1>1, <2>1
<1>3. k \in 1 .. Len(published) /\ k \in Len(consumed) + 1 .. Len(published)
  BY <1>1, <1>2
<1>4. read_pos = CellAt(published[k].at)
  BY <1>2 DEF StreamInv, Drained
<1>5. slot = ReadSlot(mem, CellAt(published[k].at))
  BY <1>4
<1> QED
  BY <1>3, <1>5, SlotIntact DEF End

(* Reading it moves read_pos to the next slot.                             *)
LEMMA PopKeepsStream ==
  ASSUME StreamInv, NEW k, k = Len(consumed) + 1, k \in 1 .. Len(published),
         NEW item, item = ItemOf(published[k].msg),
         consumed' = Append(consumed, item),
         dropped' = dropped \/ dropped' = Append(dropped, item),
         read_pos' = CellAt(End(published[k])),
         UNCHANGED <<write_pos, mem, published>>
  PROVE  StreamInv' /\ Used' = Used - Size(published[k].msg)
<1> DEFINE n == Len(published)
<1>1. /\ k - 1 \in Nat /\ n \in Nat /\ k \in 1 .. n /\ Len(consumed) = k - 1
      /\ published[k].msg \in Msg /\ published[k].at \in Nat
      /\ Drained = published[k].at
      /\ Written \in Nat
  <2>1. Len(consumed) \in Nat /\ Len(published) \in Nat /\ Written \in Nat
    BY StreamEnds
  <2>2. Len(consumed) < Len(published)
    BY <2>1
  <2>3. published[k].msg \in Msg /\ published[k].at \in Nat
    BY StreamEnds
  <2> QED BY <2>1, <2>2, <2>3 DEF Drained
<1>2. item \in Item /\ Size(published[k].msg) \in Nat
  BY <1>1, SizeOfSlot, 0 \in Nat
<1>3. /\ consumed' \in Seq(Item) /\ Len(consumed') = k
      /\ \A i \in 1 .. k - 1 : consumed'[i] = consumed[i]
      /\ consumed'[k] = item
  <2>1. consumed \in Seq(Item)
    BY DEF StreamInv
  <2>2. /\ Append(consumed, item) \in Seq(Item)
        /\ Len(Append(consumed, item)) = Len(consumed) + 1
        /\ \A i \in 1 .. Len(consumed) : Append(consumed, item)[i] = consumed[i]
        /\ Append(consumed, item)[Len(consumed) + 1] = item
    BY <1>2, <2>1, AppendProperties
  <2> QED BY <1>1, <2>2
<1>4. dropped' \in Seq(Item)
  <2>1. dropped \in Seq(Item)
    BY DEF StreamInv
  <2> QED BY <1>2, <2>1, AppendProperties
<1>5. Written' = Written
  BY DEF Written
<1>6. Drained' = End(published[k])
  <2>1. CASE k < n
    <3>1. Drained' = published[k + 1].at
      BY <1>3, <2>1 DEF Drained
    <3>2. k \in 1 .. n - 1
      BY <1>1, <2>1
    <3> QED BY <3>1, <3>2 DEF StreamInv, SlotsAdjacent
  <2>2. CASE k = n
    <3>1. published # <<>> /\ Drained' = Written
      BY <1>1, <1>3, <1>5, <2>2 DEF Drained
    <3> QED BY <3>1, <2>2 DEF Written, End
  <2>3. k < n \/ k = n
    BY <1>1
  <2> QED BY <2>1, <2>2, <2>3
<1> HIDE DEF n
<1>7. FifoIntact'
  <2>1. ASSUME NEW i \in 1 .. k PROVE consumed'[i] = ItemOf(published[i].msg)
    <3>1. CASE i \in 1 .. k - 1
      BY <1>1, <1>3, <3>1 DEF StreamInv, FifoIntact
    <3>2. CASE i = k
      BY <1>3, <3>2
    <3>3. i \in 1 .. k - 1 \/ i = k
      BY <1>1
    <3> QED BY <3>1, <3>2, <3>3
  <2>2. k <= n
    BY <1>1
  <2> QED BY <1>3, <2>1, <2>2 DEF FifoIntact, n
<1>8. (\A i \in Len(consumed) + 1 .. Len(published) : InRing(mem, published[i]))'
  <2>1. ASSUME NEW i \in k + 1 .. n PROVE InRing(mem, published[i])
    <3>1. i \in Len(consumed) + 1 .. Len(published)
      BY <1>1 DEF n
    <3> QED BY <3>1 DEF StreamInv
  <2> QED BY <1>3, <2>1 DEF n
<1>9. SlotsAdjacent'
  BY <1>5 DEF StreamInv, SlotsAdjacent
<1>10. Used' = Used - Size(published[k].msg)
  BY <1>1, <1>2, <1>5, <1>6 DEF Used, End
<1>11. write_pos' = CellAt(Written') /\ read_pos' = CellAt(Drained')
  BY <1>5, <1>6 DEF StreamInv
<1> QED
  BY <1>3, <1>4, <1>7, <1>8, <1>9, <1>10, <1>11 DEF StreamInv

LEMMA SameStream ==
  ASSUME StreamInv,
         UNCHANGED <<write_pos, read_pos, mem, published, consumed, dropped>>
  PROVE  StreamInv'
BY DEF StreamInv, SlotsAdjacent, FifoIntact, Written, Drained

LEMMA StreamInvInit == Init => StreamInv
<1> SUFFICES ASSUME Init PROVE StreamInv
  OBVIOUS
<1>1. published = <<>> /\ consumed = <<>> /\ dropped = <<>> /\ Len(<<>>) = 0
  BY DEF Init
<1>2. Written = 0 /\ Drained = 0
  BY <1>1 DEF Written, Drained
<1>3. CellAt(0) = data_begin_abs
  <2>1. 0 % total_data_bytes = 0
    BY LayoutAssumption
  <2> QED BY <2>1, LayoutAssumption DEF CellAt, data_begin_abs
<1>4. mem \in [Cells -> Nat]
  BY DEF Init
<1>5. published \in Seq([msg : Msg, at : Nat]) /\ consumed \in Seq(Item) /\ dropped \in Seq(Item)
  BY <1>1
<1>6. 1 .. 0 = {} /\ 1 .. 0 - 1 = {} /\ 0 + 1 .. 0 = {}
  OBVIOUS
<1> QED
  BY <1>1, <1>2, <1>3, <1>4, <1>5, <1>6 DEF Init, StreamInv, SlotsAdjacent, FifoIntact

-----------------------------------------------------------------------------
(***************************************************************************)
(* The invariant is inductive as long as the ring is not filled.           *)
(***************************************************************************)
LEMMA PushInvInit == Init => PushInv
<1> SUFFICES ASSUME Init PROVE PushInv
  OBVIOUS
<1>1. \A h \in Handles : pc[h] \in {"attach_lock", "detached"}
  BY DEF Init
<1> QED
  BY <1>1 DEF PushInv, Pushing, Handles

LEMMA KeepsPushing ==
  ASSUME LockInv, PushInv, NEW h \in Handles, NEW s \in PC, Goto(h, s),
         UNCHANGED msg, h \in Producers /\ s \in Pushing => pc[h] \in Pushing
  PROVE  PushInv'
BY DEF PushInv, Goto, LockInv, ControlTypeOK, Handles

LEMMA EndsPushing ==
  ASSUME LockInv, PushInv, NEW p \in Producers, NEW r, PushEnd(p, r)
  PROVE  PushInv'
<1>1. "idle" \notin Pushing
  BY DEF Pushing
<1> QED
  BY <1>1 DEF PushInv, PushEnd, Goto, LockInv, ControlTypeOK, Handles

LEMMA ConsumerKeepsPushing ==
  ASSUME LockInv, PushInv, NEW c \in Consumers, NEW s \in PC, Goto(c, s), UNCHANGED msg
  PROVE  PushInv'
<1>1. c \notin Producers /\ c \in Handles
  BY RingAssumption DEF Handles
<1> QED BY <1>1, KeepsPushing

LEMMA PushInvStep == LockInv /\ PushInv /\ [Next]_vars => PushInv'
<1> USE RingAssumption, ControlStates
<1> SUFFICES ASSUME LockInv, PushInv, [Next]_vars PROVE PushInv'
  OBVIOUS
<1>1. ASSUME NEW h \in Handles, SyncStep(h) PROVE PushInv'
  <2>1. CASE Lock(h)
    <3>1. LockedAt[pc[h]] \in PC
      BY <2>1 DEF Lock, PC
    <3>2. LockedAt[pc[h]] \in Pushing => pc[h] \in Pushing
      BY <2>1 DEF Lock, LockedAt, Pushing
    <3> QED BY <2>1, <3>1, <3>2, KeepsPushing DEF Lock
  <2>2. CASE Wake(h)
    BY <2>2, KeepsPushing DEF Wake, WaitStates, Pushing
  <2>3. CASE WaitTimeout(h)
    BY <2>3, KeepsPushing DEF WaitTimeout, Pushing
  <2>4. CASE Relock(h)
    BY <2>4, KeepsPushing DEF Relock, Pushing
  <2> QED BY <1>1, <2>1, <2>2, <2>3, <2>4 DEF SyncStep
<1>2. ASSUME NEW h \in Handles, Open(h) PROVE PushInv'
  BY <1>2, KeepsPushing DEF Open, Pushing
<1>3. ASSUME NEW h \in Handles, CloseBegin(h) PROVE PushInv'
  BY <1>3, KeepsPushing DEF CloseBegin, Pushing
<1>4. Producers \subseteq Handles /\ Consumers \subseteq Handles
  BY DEF Handles
<1>5. ASSUME NEW p \in Producers, ProducerAttach(p) PROVE PushInv'
  BY <1>4, <1>5, KeepsPushing DEF ProducerAttach, Pushing
<1>6. ASSUME NEW p \in Producers, NEW m \in Msg, NEW t \in Timeouts, PushBegin(p, m, t)
      PROVE PushInv'
  <2>1. CASE TooLarge(m)
    BY <1>6, <2>1 DEF PushBegin, PushInv
  <2>2. CASE ~TooLarge(m)
    <3>1. msg' = [msg EXCEPT ![p] = m]
      BY <1>6, <2>2 DEF PushBegin
    <3>2. PICK s \in PC : pc' = [pc EXCEPT ![p] = s]
      BY <1>6, <2>2 DEF PushBegin, Goto
    <3>3. Readable(m)
      <4>1. Len(Metadata[m]) \in Nat
        BY SizeOfSlot, 0 \in Nat, LenProperties
      <4> QED BY <2>2, <4>1 DEF TooLarge, Readable
    <3> QED BY <3>1, <3>2, <3>3, <1>4 DEF PushInv, LockInv, ControlTypeOK
  <2> QED BY <2>1, <2>2
<1>7. ASSUME NEW p \in Producers, PushConsumerFound(p) PROVE PushInv'
  BY <1>4, <1>7, KeepsPushing DEF PushConsumerFound, Pushing
<1>8. ASSUME NEW p \in Producers, PushNoConsumers(p) \/ PushWrite(p) \/ PushFail(p)
      PROVE PushInv'
  BY <1>8, EndsPushing DEF PushNoConsumers, PushWrite, PushFail
<1>9. ASSUME NEW p \in Producers, PushWait(p) PROVE PushInv'
  BY <1>4, <1>9, KeepsPushing DEF PushWait, Pushing
<1>10. ASSUME NEW p \in Producers, ProducerClose(p) PROVE PushInv'
  BY <1>4, <1>10, KeepsPushing DEF ProducerClose, Pushing
<1>11. ASSUME NEW c \in Consumers, ConsumerAttach(c) PROVE PushInv'
  BY <1>11, ConsumerKeepsPushing DEF ConsumerAttach
<1>12. ASSUME NEW c \in Consumers, NEW t \in Timeouts, PopBegin(c, t) PROVE PushInv'
  BY <1>12, ConsumerKeepsPushing DEF PopBegin
<1>13. ASSUME NEW c \in Consumers, PopSlot(c) \/ PopEos(c) \/ PopFail(c) PROVE PushInv'
  BY <1>13, ConsumerKeepsPushing DEF PopSlot, PopEos, PopFail, PopEnd
<1>14. ASSUME NEW c \in Consumers, PopWait(c) PROVE PushInv'
  BY <1>14, ConsumerKeepsPushing DEF PopWait
<1>15. ASSUME NEW c \in Consumers, ConsumerClose(c) PROVE PushInv'
  BY <1>15, ConsumerKeepsPushing DEF ConsumerClose
<1>16. ASSUME NEW c \in Consumers, Unlink(c) PROVE PushInv'
  BY <1>16, ConsumerKeepsPushing DEF Unlink
<1>17. CASE UNCHANGED vars
  BY <1>17 DEF PushInv, vars, handle
<1>18. ASSUME NEW p \in Producers, ProducerStep(p) \/ ProducerCall(p) PROVE PushInv'
  BY <1>1, <1>2, <1>3, <1>4, <1>5, <1>6, <1>7, <1>8, <1>9, <1>10, <1>18
     DEF ProducerStep, ProducerCall
<1>19. ASSUME NEW c \in Consumers, ConsumerStep(c) \/ ConsumerCall(c) PROVE PushInv'
  BY <1>1, <1>2, <1>3, <1>4, <1>11, <1>12, <1>13, <1>14, <1>15, <1>16, <1>19
     DEF ConsumerStep, ConsumerCall
<1> QED
  BY <1>17, <1>18, <1>19 DEF Next, Finished

(* What a push and a pop do to the stream when the ring is not full.       *)
LEMMA PushStep ==
  ASSUME PushInv, StreamInv, NotFull, NEW p \in Producers, PushWrite(p)
  PROVE  /\ StreamInv' /\ msg[p] \in Msg
         /\ published' = Append(published, [msg |-> msg[p], at |-> Written])
         /\ UNCHANGED consumed
<1> DEFINE m == msg[p]
<1> DEFINE next_pos == normalize_abs(write_pos + Size(m))
<1>1. m \in Msg /\ Readable(m)
  BY DEF PushInv, PushWrite, Pushing
<1>2. /\ HasRoom(m)
      /\ mem' = write_bytes(mem, write_pos, SlotCells(next_pos, Metadata[m], Payload[m]))
      /\ write_pos' = next_pos
      /\ published' = Append(published, [msg |-> m, at |-> Written])
      /\ UNCHANGED <<read_pos, consumed, dropped>>
  BY DEF PushWrite
<1> HIDE DEF m
<1>3. StreamInv'
  BY <1>1, <1>2, PushKeepsStream
<1> QED
  BY <1>1, <1>2, <1>3 DEF m

LEMMA PopStep ==
  ASSUME StreamInv, NotFull, NEW c \in Consumers, PopSlot(c),
         NEW k, k = Len(consumed) + 1
  PROVE  /\ StreamInv' /\ k \in 1 .. Len(published)
         /\ consumed' = Append(consumed, ItemOf(published[k].msg))
         /\ Used' = Used - Size(published[k].msg)
         /\ UNCHANGED published
<1> DEFINE slot == ReadSlot(mem, read_pos)
<1> DEFINE item == [metadata |-> slot.metadata, payload |-> slot.payload]
<1>1. write_pos # read_pos
  BY DEF PopSlot
<1>2. /\ k \in 1 .. Len(published) /\ IsValid(slot)
      /\ item = ItemOf(published[k].msg)
      /\ slot.next = CellAt(End(published[k]))
  BY <1>1, PopReadsNext
<1>3. /\ read_pos' = slot.next
      /\ consumed' = Append(consumed, item)
      /\ dropped' = dropped \/ dropped' = Append(dropped, item)
      /\ UNCHANGED <<write_pos, mem, published>>
  BY <1>2 DEF PopSlot
<1> HIDE DEF slot, item
<1>4. StreamInv' /\ Used' = Used - Size(published[k].msg)
  BY <1>2, <1>3, PopKeepsStream
<1> QED
  BY <1>2, <1>3, <1>4

(* Nothing else writes to the data region or moves the positions.          *)
LEMMA StreamSteps ==
  ASSUME Next
  PROVE  \/ \E p \in Producers : PushWrite(p)
         \/ \E c \in Consumers : PopSlot(c)
         \/ UNCHANGED <<write_pos, read_pos, mem, published, consumed, dropped>>
<1> DEFINE Same == UNCHANGED <<write_pos, read_pos, mem, published, consumed, dropped>>
<1>1. ASSUME NEW h \in Handles, SyncStep(h) \/ Open(h) \/ CloseBegin(h) PROVE Same
  BY <1>1 DEF SyncStep, Lock, Wake, WaitTimeout, Relock, Open, CloseBegin, header, history
<1>2. Producers \subseteq Handles /\ Consumers \subseteq Handles
  BY DEF Handles
<1>3. ASSUME NEW p \in Producers, ProducerStep(p) \/ ProducerCall(p)
      PROVE  PushWrite(p) \/ Same
  <2>1. ASSUME NEW m \in Msg, NEW t \in Timeouts, PushBegin(p, m, t) PROVE Same
    BY <2>1 DEF PushBegin, header
  <2>2. CASE ProducerAttach(p)
    BY <2>2 DEF ProducerAttach, history
  <2>3. CASE PushConsumerFound(p) \/ PushNoConsumers(p)
    BY <2>3 DEF PushConsumerFound, PushNoConsumers, header, history
  <2>4. CASE PushFail(p) \/ PushWait(p)
    BY <2>4 DEF PushFail, PushWait, header, history
  <2>5. CASE ProducerClose(p)
    BY <2>5 DEF ProducerClose, history
  <2> QED
    BY <1>1, <1>2, <1>3, <2>1, <2>2, <2>3, <2>4, <2>5 DEF ProducerStep, ProducerCall
<1>4. ASSUME NEW c \in Consumers, ConsumerStep(c) \/ ConsumerCall(c)
      PROVE  PopSlot(c) \/ Same
  <2>1. ASSUME NEW t \in Timeouts, PopBegin(c, t) PROVE Same
    BY <2>1 DEF PopBegin, header, history
  <2>2. CASE ConsumerAttach(c)
    BY <2>2 DEF ConsumerAttach, history
  <2>3. CASE PopEos(c) \/ PopFail(c) \/ PopWait(c)
    BY <2>3 DEF PopEos, PopFail, PopWait, header, history
  <2>4. CASE ConsumerClose(c)
    BY <2>4 DEF ConsumerClose, history
  <2>5. CASE Unlink(c)
    BY <2>5 DEF Unlink, header, history
  <2> QED
    BY <1>1, <1>2, <1>4, <2>1, <2>2, <2>3, <2>4, <2>5 DEF ConsumerStep, ConsumerCall
<1>5. CASE Finished
  BY <1>5 DEF Finished, vars, header, history
<1> QED
  BY <1>3, <1>4, <1>5 DEF Next

LEMMA StreamInvStep ==
  PushInv /\ StreamInv /\ NotFull /\ [Next]_vars => StreamInv'
<1> SUFFICES ASSUME PushInv, StreamInv, NotFull, [Next]_vars PROVE StreamInv'
  OBVIOUS
<1>1. CASE UNCHANGED vars
  BY <1>1, SameStream DEF vars, header, history
<1>2. CASE Next
  BY <1>2, StreamSteps, PushStep, PopStep, SameStream
<1> QED
  BY <1>1, <1>2

-----------------------------------------------------------------------------
(***************************************************************************)
(* Theorems.  Their hypothesis []NotFull is about the behaviour, not the   *)
(* constants: it excludes those in which a push takes the last free byte.  *)
(***************************************************************************)
RingInv == LockInv /\ CountInv /\ PushInv /\ StreamInv

LEMMA RingInvHolds == Spec /\ []NotFull => [](RingInv /\ NotFull)
<1>1. Init => RingInv
  BY LockInvInit, CountInvInit, PushInvInit, StreamInvInit DEF RingInv
<1>2. RingInv /\ NotFull /\ [Next]_vars => RingInv'
  BY LockInvStep, CountInvStep, PushInvStep, StreamInvStep DEF RingInv
<1> QED
  BY <1>1, <1>2, PTL DEF Spec

(* Every variable keeps its type; the positions stay inside the region.    *)
THEOREM TypesHold == Spec /\ []NotFull => []TypeOK
<1>1. RingInv /\ NotFull => TypeOK
  <2> SUFFICES ASSUME RingInv PROVE TypeOK
    OBVIOUS
  <2>1. Written \in Int /\ Drained \in Int
    BY StreamEnds DEF RingInv
  <2>2. write_pos \in Cells /\ read_pos \in Cells
    BY <2>1, OffsetInCell DEF RingInv, StreamInv
  <2> QED
    BY <2>2 DEF RingInv, LockInv, StreamInv, TypeOK, DataTypeOK
<1> QED
  BY <1>1, RingInvHolds, PTL

(* What is read is what was written, in order and once each.               *)
THEOREM FifoHolds == Spec /\ []NotFull => []FifoIntact
<1>1. RingInv /\ NotFull => FifoIntact
  BY DEF RingInv, StreamInv
<1> QED
  BY <1>1, RingInvHolds, PTL

(* No push overwrites a slot that is still to be read, wherever the slots  *)
(* wrap around the end of the region.                                      *)
THEOREM BacklogHolds == Spec /\ []NotFull => []BacklogIntact
<1>1. RingInv /\ NotFull => BacklogIntact
  BY BacklogReadable DEF RingInv
<1> QED
  BY <1>1, RingInvHolds, PTL

(* Free space is what the unread slots leave.                              *)
THEOREM SpaceHolds == Spec /\ []NotFull => []SpaceAccounting
<1>1. RingInv /\ NotFull => SpaceAccounting
  BY FreeSpace DEF RingInv
<1> QED
  BY <1>1, RingInvHolds, PTL

(* Only PopEos tells a consumer the end, and only of a drained ring.       *)
EosStep ==
  \A c \in eos_received' \ eos_received :
    registered \cap Producers = {} /\ Len(consumed) = Len(published)

LEMMA EosStepHolds ==
  ASSUME RingInv, NotFull, Next
  PROVE  EosStep
<1> SUFFICES ASSUME NEW d \in eos_received' \ eos_received
             PROVE  registered \cap Producers = {} /\ Len(consumed) = Len(published)
  BY DEF EosStep
<1>1. ASSUME NEW c \in Consumers, AtEos
      PROVE  registered \cap Producers = {} /\ Len(consumed) = Len(published)
  <2>1. Len(consumed) = Len(published)
    BY <1>1, FreeSpace DEF AtEos, RingInv
  <2>2. IsFiniteSet(registered \cap Producers) /\ Cardinality(registered \cap Producers) = 0
    BY <1>1, FiniteHandles
       DEF AtEos, RingInv, LockInv, ControlTypeOK, CountInv, CountersMatchHandles
  <2>3. registered \cap Producers = {}
    BY <2>2, FS_EmptySet
  <2> QED BY <2>1, <2>3
<1>2. \E c \in Consumers : PopEos(c)
  <2>1. ASSUME NEW h \in Handles, SyncStep(h) \/ Open(h) \/ CloseBegin(h)
        PROVE  UNCHANGED eos_received
    BY <2>1 DEF SyncStep, Lock, Wake, WaitTimeout, Relock, Open, CloseBegin
  <2>2. Producers \subseteq Handles /\ Consumers \subseteq Handles
    BY DEF Handles
  <2>3. ASSUME NEW p \in Producers, ProducerStep(p) \/ ProducerCall(p)
        PROVE  UNCHANGED eos_received
    BY <2>1, <2>2, <2>3
       DEF ProducerStep, ProducerCall, ProducerAttach, PushBegin, PushConsumerFound,
           PushNoConsumers, PushWrite, PushFail, PushWait, ProducerClose
  <2>4. ASSUME NEW c \in Consumers, ConsumerStep(c) \/ ConsumerCall(c)
        PROVE  PopEos(c) \/ UNCHANGED eos_received
    BY <2>1, <2>2, <2>4
       DEF ConsumerStep, ConsumerCall, ConsumerAttach, PopBegin, PopSlot, PopFail,
           PopWait, ConsumerClose, Unlink
  <2> QED
    BY <2>3, <2>4 DEF Next, Finished, vars, handle
<1> QED
  BY <1>1, <1>2 DEF PopEos

(* End of stream is seen only with every slot read and no producer         *)
(* registered.                                                             *)
THEOREM EosHolds == Spec /\ []NotFull => EosOnlyWhenDrained
<1>1. RingInv /\ NotFull /\ [Next]_vars => [EosStep]_vars
  BY EosStepHolds
<1>2. [][EosStep]_vars => EosOnlyWhenDrained
  BY PTL DEF EosStep, EosOnlyWhenDrained
<1> QED
  BY <1>1, <1>2, RingInvHolds, PTL DEF Spec

-----------------------------------------------------------------------------
(***************************************************************************)
(* What push_raw tells its caller.  Nothing here asks that the ring is not *)
(* filled: only that the names of messages stay in the stream.             *)
(***************************************************************************)
(* What a push in progress, and every report, says about the stream.       *)
OnceInStream ==
  /\ published \in Seq([msg : Msg, at : Nat])
  /\ \A i, j \in 1 .. Len(published) : published[i].msg = published[j].msg => i = j
  /\ \A i \in 1 .. Len(published) : outcome[published[i].msg] \in {"ok", "failed"}

OnePushPerMessage ==
  /\ \A p \in Producers : pc[p] \in Pushing => outcome[msg[p]] = "pushing"
  /\ \A p, q \in Producers :
       pc[p] \in Pushing /\ pc[q] \in Pushing /\ p # q => msg[p] # msg[q]

ReportInv ==
  /\ OnceInStream /\ OnePushPerMessage
  /\ \A m \in Msg : outcome[m] = "ok" => InStream(m)

FailedNotInStream == \A m \in Msg : outcome[m] = "failed" => ~InStream(m)

LEMMA ReportInvInit == Init => ReportInv /\ FailedNotInStream
<1> SUFFICES ASSUME Init PROVE ReportInv /\ FailedNotInStream
  OBVIOUS
<1>1. published = <<>> /\ Len(<<>>) = 0 /\ 1 .. 0 = {}
  BY DEF Init
<1>2. \A h \in Handles : pc[h] \in {"attach_lock", "detached"}
  BY DEF Init
<1>3. OnePushPerMessage
  BY <1>2 DEF OnePushPerMessage, Pushing, Handles
<1>4. \A m \in Msg : outcome[m] = "unsent"
  BY DEF Init
<1> QED
  BY <1>1, <1>3, <1>4 DEF ReportInv, OnceInStream, FailedNotInStream

LEMMA SlotInStream ==
  ASSUME published \in Seq([msg : Msg, at : Nat]), NEW i \in 1 .. Len(published)
  PROVE  published[i].msg \in Msg /\ published[i].at \in Nat
<1> DEFINE S == [msg : Msg, at : Nat]
<1>1. published[i] \in S
  <2> HIDE DEF S
  <2>1. published \in Seq(S)
    BY DEF S
  <2> QED BY <2>1, ElementOfSeq
<1> QED BY <1>1

(* A step that leaves pushes, stream and reports alone, and starts none.   *)
LEMMA SameReports ==
  ASSUME LockInv, ReportInv, NEW h \in Handles, NEW s \in PC, Goto(h, s),
         h \in Producers /\ s \in Pushing => pc[h] \in Pushing,
         UNCHANGED <<msg, outcome, published>>
  PROVE  ReportInv' /\ (FailedNotInStream => FailedNotInStream')
<1>1. \A p \in Producers : pc'[p] \in Pushing => pc[p] \in Pushing
  BY DEF Goto, LockInv, ControlTypeOK, Handles
<1>2. OnePushPerMessage'
  BY <1>1 DEF ReportInv, OnePushPerMessage
<1>3. OnceInStream' /\ \A m \in Msg : InStream(m)' = InStream(m)
  BY DEF ReportInv, OnceInStream, InStream
<1> QED
  BY <1>2, <1>3 DEF ReportInv, FailedNotInStream

LEMMA ConsumerSameReports ==
  ASSUME LockInv, ReportInv, NEW c \in Consumers, NEW s \in PC, Goto(c, s),
         UNCHANGED <<msg, outcome, published>>
  PROVE  ReportInv' /\ (FailedNotInStream => FailedNotInStream')
<1>1. c \notin Producers /\ c \in Handles
  BY RingAssumption DEF Handles
<1> QED BY <1>1, SameReports

(* A push begins with a message of its own, or is refused at once.         *)
LEMMA PushStarted ==
  ASSUME LockInv, PushInv, ReportInv, NEW p \in Producers, NEW m \in Msg,
         pc[p] = "idle", outcome[m] = "unsent", UNCHANGED published,
         \/ /\ outcome' = [outcome EXCEPT ![m] = "failed"]
            /\ UNCHANGED <<pc, msg>>
         \/ /\ outcome' = [outcome EXCEPT ![m] = "pushing"]
            /\ msg' = [msg EXCEPT ![p] = m]
            /\ \E s \in PC : Goto(p, s)
  PROVE  ReportInv' /\ (FailedNotInStream => FailedNotInStream')
<1>1. pc[p] \notin Pushing
  BY DEF Pushing
<1>2. PICK r \in {"pushing", "failed"} : outcome' = [outcome EXCEPT ![m] = r]
  OBVIOUS
<1>3. \A i \in 1 .. Len(published) : published[i].msg \in Msg /\ published[i].msg # m
  BY SlotInStream DEF ReportInv, OnceInStream
<1>4. \A k \in Msg : outcome'[k] = IF k = m THEN r ELSE outcome[k]
  BY <1>2 DEF LockInv, ControlTypeOK
<1>5. OnceInStream'
  BY <1>3, <1>4 DEF ReportInv, OnceInStream
<1>6. \A k \in Msg : InStream(k)' = InStream(k)
  BY DEF InStream
<1>7. ~InStream(m)
  BY <1>3 DEF InStream
<1>8. \A q \in Producers : pc[q] \in Pushing => msg[q] \in Msg /\ msg[q] # m
  BY DEF PushInv, ReportInv, OnePushPerMessage
<1>9. CASE UNCHANGED <<pc, msg>>
  <2>1. OnePushPerMessage'
    BY <1>4, <1>8, <1>9 DEF ReportInv, OnePushPerMessage
  <2> QED BY <1>4, <1>5, <1>6, <1>7, <2>1 DEF ReportInv, FailedNotInStream
<1>10. CASE /\ outcome' = [outcome EXCEPT ![m] = "pushing"]
            /\ msg' = [msg EXCEPT ![p] = m] /\ \E s \in PC : Goto(p, s)
  <2>1. msg'[p] = m /\ \A q \in Producers : q # p => pc'[q] = pc[q] /\ msg'[q] = msg[q]
    BY <1>10 DEF Goto, LockInv, ControlTypeOK, Handles
  <2>2. \A q \in Producers : pc'[q] \in Pushing /\ q # p => outcome'[msg'[q]] = "pushing"
    BY <1>4, <1>8, <2>1 DEF ReportInv, OnePushPerMessage
  <2>3. outcome'[msg'[p]] = "pushing"
    BY <1>10, <2>1 DEF LockInv, ControlTypeOK
  <2>4. \A q \in Producers : pc'[q] \in Pushing /\ q # p => msg'[q] # msg'[p]
    BY <1>8, <2>1
  <2>5. \A a, b \in Producers :
          pc'[a] \in Pushing /\ pc'[b] \in Pushing /\ a # b => msg'[a] # msg'[b]
    <3> SUFFICES ASSUME NEW a \in Producers, NEW b \in Producers, a # b,
                        pc'[a] \in Pushing, pc'[b] \in Pushing
                 PROVE  msg'[a] # msg'[b]
      OBVIOUS
    <3>1. CASE a = p \/ b = p
      BY <2>4, <3>1
    <3>2. CASE a # p /\ b # p
      BY <2>1, <3>2 DEF ReportInv, OnePushPerMessage
    <3> QED BY <3>1, <3>2
  <2>6. OnePushPerMessage'
    BY <2>2, <2>3, <2>5 DEF OnePushPerMessage
  <2> QED BY <1>4, <1>5, <1>6, <1>7, <2>6 DEF ReportInv, FailedNotInStream
<1> QED BY <1>9, <1>10

(* A push that ends and leaves the stream alone reports a failure.         *)
LEMMA FailureReported ==
  ASSUME LockInv, PushInv, ReportInv, NEW p \in Producers, pc[p] \in Pushing,
         PushEnd(p, "failed"), UNCHANGED published
  PROVE  ReportInv' /\ (FailedNotInStream => FailedNotInStream')
<1>1. msg[p] \in Msg /\ outcome[msg[p]] = "pushing"
  BY DEF PushInv, ReportInv, OnePushPerMessage
<1>2. /\ outcome'[msg[p]] = "failed"
      /\ \A m \in Msg : m # msg[p] => outcome'[m] = outcome[m]
  BY <1>1 DEF PushEnd, LockInv, ControlTypeOK
<1>3. /\ pc'[p] \notin Pushing
      /\ \A q \in Producers : q # p => pc'[q] = pc[q] /\ msg'[q] = msg[q]
  BY DEF PushEnd, Goto, Pushing, LockInv, ControlTypeOK, Handles
<1>4. OnePushPerMessage'
  BY <1>1, <1>2, <1>3 DEF ReportInv, OnePushPerMessage, PushInv
<1>5. \A i \in 1 .. Len(published) : published[i].msg \in Msg /\ published[i].msg # msg[p]
  BY <1>1, SlotInStream DEF ReportInv, OnceInStream
<1>6. OnceInStream'
  BY <1>2, <1>5 DEF ReportInv, OnceInStream
<1>7. ~InStream(msg[p]) /\ \A m \in Msg : InStream(m)' = InStream(m)
  BY <1>5 DEF InStream
<1> QED
  BY <1>1, <1>2, <1>4, <1>6, <1>7 DEF ReportInv, FailedNotInStream

(* A push that ends and has published its slot reports r.                  *)
LEMMA SlotReported ==
  ASSUME LockInv, PushInv, ReportInv, NEW p \in Producers, pc[p] \in Pushing,
         NEW r \in {"ok", "failed"}, PushEnd(p, r),
         published' = Append(published, [msg |-> msg[p], at |-> Written])
  PROVE  ReportInv' /\ (FailedNotInStream /\ r = "ok" => FailedNotInStream')
<1> DEFINE n == Len(published)
<1> DEFINE new == [msg |-> msg[p], at |-> Written]
<1>1. pc[p] \in Pushing /\ PushEnd(p, r) /\ published' = Append(published, new)
  OBVIOUS
<1>2. msg[p] \in Msg /\ outcome[msg[p]] = "pushing"
  BY <1>1 DEF PushInv, ReportInv, OnePushPerMessage
<1>3. /\ outcome'[msg[p]] = r
      /\ \A m \in Msg : m # msg[p] => outcome'[m] = outcome[m]
  BY <1>1, <1>2 DEF PushEnd, LockInv, ControlTypeOK
<1>4. /\ pc'[p] \notin Pushing
      /\ \A q \in Producers : q # p => pc'[q] = pc[q] /\ msg'[q] = msg[q]
  BY <1>1 DEF PushEnd, Goto, Pushing, LockInv, ControlTypeOK, Handles
<1>5. OnePushPerMessage'
  BY <1>1, <1>2, <1>3, <1>4 DEF ReportInv, OnePushPerMessage, PushInv
<1>6. published \in Seq([msg : Msg, at : Nat]) /\ n \in Nat
  BY DEF ReportInv, OnceInStream
<1>7. Written \in Nat
  <2>1. CASE published = <<>>
    BY <2>1 DEF Written
  <2>2. CASE published # <<>>
    <3>1. n \in 1 .. n
      BY <1>6, <2>2
    <3>2. published[n].at \in Nat /\ published[n].msg \in Msg
      BY <1>6, <3>1, SlotInStream
    <3> QED BY <2>2, <3>2, SizeNat DEF Written
  <2> QED BY <2>1, <2>2
<1>8. /\ published' \in Seq([msg : Msg, at : Nat])
      /\ Len(published') = n + 1
      /\ published'[n + 1].msg = msg[p]
      /\ \A i \in 1 .. n : published'[i] = published[i]
  <2>1. new \in [msg : Msg, at : Nat] /\ new.msg = msg[p]
    BY <1>2, <1>7
  <2> HIDE DEF new
  <2> QED BY <1>1, <1>6, <2>1
<1>9. \A i \in 1 .. n : published[i].msg \in Msg /\ published[i].msg # msg[p]
  BY <1>2, SlotInStream DEF ReportInv, OnceInStream
<1> HIDE DEF n, new
<1>10. \A i \in 1 .. n + 1 : i \in 1 .. n \/ i = n + 1
  BY <1>6
<1>11. 1 .. n \subseteq 1 .. n + 1 /\ n + 1 \in 1 .. n + 1
  BY <1>6
<1>12. \A i, j \in 1 .. n : published[i].msg = published[j].msg => i = j
  BY DEF ReportInv, OnceInStream, n
<1>13. \A i \in 1 .. n : outcome[published[i].msg] \in {"ok", "failed"}
  BY DEF ReportInv, OnceInStream, n
<1>14. OnceInStream'
  <2>1. \A i, j \in 1 .. n + 1 : published'[i].msg = published'[j].msg => i = j
    BY <1>8, <1>9, <1>10, <1>12
  <2>2. \A i \in 1 .. n + 1 : outcome'[published'[i].msg] \in {"ok", "failed"}
    BY <1>3, <1>8, <1>9, <1>10, <1>13
  <2> QED BY <1>8, <2>1, <2>2 DEF OnceInStream
<1>15. \A m \in Msg : InStream(m)' <=> InStream(m) \/ m = msg[p]
  <2> SUFFICES ASSUME NEW m \in Msg
               PROVE  (\E i \in 1 .. n + 1 : published'[i].msg = m)
                        <=> (\E i \in 1 .. n : published[i].msg = m) \/ m = msg[p]
    BY <1>8 DEF InStream, n
  <2> QED BY <1>8, <1>10, <1>11
<1> QED
  BY <1>2, <1>3, <1>5, <1>14, <1>15 DEF ReportInv, FailedNotInStream

(* Every step keeps ReportInv; only a notify_all that throws lets a slot   *)
(* be published whose push is reported as failed.                          *)
LEMMA ReportInvStep ==
  LockInv /\ PushInv /\ ReportInv /\ [Next]_vars =>
    ReportInv' /\ (FailedNotInStream /\ CanNotify => FailedNotInStream')
<1> USE RingAssumption, ControlStates
<1> DEFINE Goal == ReportInv' /\ (FailedNotInStream /\ CanNotify => FailedNotInStream')
<1> SUFFICES ASSUME LockInv, PushInv, ReportInv, [Next]_vars PROVE Goal
  OBVIOUS
<1> HIDE DEF Goal
<1>0. ReportInv' /\ (FailedNotInStream => FailedNotInStream') => Goal
  BY DEF Goal
<1>1. ASSUME NEW h \in Handles, SyncStep(h) PROVE Goal
  <2>1. CASE Lock(h)
    <3>1. LockedAt[pc[h]] \in PC
      BY <2>1 DEF Lock, PC
    <3>2. LockedAt[pc[h]] \in Pushing => pc[h] \in Pushing
      BY <2>1 DEF Lock, LockedAt, Pushing
    <3> QED BY <1>0, <2>1, <3>1, <3>2, SameReports DEF Lock, history
  <2>2. CASE Wake(h)
    BY <1>0, <2>2, SameReports DEF Wake, WaitStates, Pushing, history
  <2>3. CASE WaitTimeout(h)
    BY <1>0, <2>3, SameReports DEF WaitTimeout, Pushing, history
  <2>4. CASE Relock(h)
    BY <1>0, <2>4, SameReports DEF Relock, Pushing, history
  <2> QED BY <1>1, <2>1, <2>2, <2>3, <2>4 DEF SyncStep
<1>2. ASSUME NEW h \in Handles, Open(h) PROVE Goal
  BY <1>0, <1>2, SameReports DEF Open, Pushing, history
<1>3. ASSUME NEW h \in Handles, CloseBegin(h) PROVE Goal
  BY <1>0, <1>3, SameReports DEF CloseBegin, Pushing, history
<1>4. Producers \subseteq Handles /\ Consumers \subseteq Handles
  BY DEF Handles
<1>5. ASSUME NEW p \in Producers, ProducerAttach(p) PROVE Goal
  BY <1>0, <1>4, <1>5, SameReports DEF ProducerAttach, Pushing, history
<1>6. ASSUME NEW p \in Producers, NEW m \in Msg, NEW t \in Timeouts, PushBegin(p, m, t)
      PROVE Goal
  <2>1. (IF EosMarker(m) THEN "push_lock" ELSE "count") \in PC
    OBVIOUS
  <2> QED BY <1>0, <1>6, <2>1, PushStarted DEF PushBegin
<1>7. ASSUME NEW p \in Producers, PushConsumerFound(p) PROVE Goal
  BY <1>0, <1>4, <1>7, SameReports DEF PushConsumerFound, Pushing, history
<1>8. ASSUME NEW p \in Producers, PushNoConsumers(p) \/ PushFail(p) PROVE Goal
  BY <1>0, <1>8, FailureReported DEF PushNoConsumers, PushFail, Pushing
<1>9. ASSUME NEW p \in Producers, PushWrite(p) PROVE Goal
  <2> DEFINE r == IF CanNotify THEN "ok" ELSE "failed"
  <2>1. /\ pc[p] \in Pushing /\ r \in {"ok", "failed"} /\ PushEnd(p, r)
        /\ published' = Append(published, [msg |-> msg[p], at |-> Written])
    BY <1>9 DEF PushWrite, Pushing
  <2>2. CanNotify => r = "ok"
    OBVIOUS
  <2> HIDE DEF r
  <2> QED BY <2>1, <2>2, SlotReported DEF Goal
<1>10. ASSUME NEW p \in Producers, PushWait(p) PROVE Goal
  BY <1>0, <1>4, <1>10, SameReports DEF PushWait, Pushing, history
<1>11. ASSUME NEW p \in Producers, ProducerClose(p) PROVE Goal
  BY <1>0, <1>4, <1>11, SameReports DEF ProducerClose, Pushing, history
<1>12. ASSUME NEW c \in Consumers, ConsumerAttach(c) PROVE Goal
  BY <1>0, <1>12, ConsumerSameReports DEF ConsumerAttach, history
<1>13. ASSUME NEW c \in Consumers, NEW t \in Timeouts, PopBegin(c, t) PROVE Goal
  BY <1>0, <1>13, ConsumerSameReports DEF PopBegin, history
<1>14. ASSUME NEW c \in Consumers, PopSlot(c) \/ PopEos(c) \/ PopFail(c) PROVE Goal
  BY <1>0, <1>14, ConsumerSameReports DEF PopSlot, PopEos, PopFail, PopEnd, history
<1>15. ASSUME NEW c \in Consumers, PopWait(c) PROVE Goal
  BY <1>0, <1>15, ConsumerSameReports DEF PopWait, history
<1>16. ASSUME NEW c \in Consumers, ConsumerClose(c) PROVE Goal
  BY <1>0, <1>16, ConsumerSameReports DEF ConsumerClose, history
<1>17. ASSUME NEW c \in Consumers, Unlink(c) PROVE Goal
  BY <1>0, <1>17, ConsumerSameReports DEF Unlink, history
<1>18. CASE UNCHANGED vars
  BY <1>0, <1>18
     DEF ReportInv, OnceInStream, OnePushPerMessage, FailedNotInStream, InStream, vars,
         handle, history
<1>19. ASSUME NEW p \in Producers, ProducerStep(p) \/ ProducerCall(p) PROVE Goal
  BY <1>1, <1>2, <1>3, <1>4, <1>5, <1>6, <1>7, <1>8, <1>9, <1>10, <1>11, <1>19
     DEF ProducerStep, ProducerCall
<1>20. ASSUME NEW c \in Consumers, ConsumerStep(c) \/ ConsumerCall(c) PROVE Goal
  BY <1>1, <1>2, <1>3, <1>4, <1>12, <1>13, <1>14, <1>15, <1>16, <1>17, <1>20
     DEF ConsumerStep, ConsumerCall
<1> QED
  BY <1>18, <1>19, <1>20 DEF Next, Finished

(* No message enters the stream twice, and one reported as pushed is in    *)
(* it, whatever notify_all does after the write.                           *)
THEOREM SuccessReported == Spec => []SuccessTruthful
<1>1. Init => LockInv /\ PushInv /\ ReportInv
  BY LockInvInit, PushInvInit, ReportInvInit
<1>2. LockInv /\ PushInv /\ ReportInv /\ [Next]_vars => (LockInv /\ PushInv /\ ReportInv)'
  BY LockInvStep, PushInvStep, ReportInvStep
<1>3. ReportInv => SuccessTruthful
  BY DEF ReportInv, OnceInStream, SuccessTruthful, InStream
<1> QED
  BY <1>1, <1>2, <1>3, PTL DEF Spec

LEMMA ReportsCounted == ReportInv /\ FailedNotInStream => PushReportTruthful
<1> SUFFICES ASSUME ReportInv, FailedNotInStream, NEW m \in Msg,
                    NEW P, P = {i \in 1 .. Len(published) : published[i].msg = m}
             PROVE  Cardinality(P) = IF outcome[m] = "ok" THEN 1 ELSE 0
  BY DEF PushReportTruthful
<1>1. CASE outcome[m] = "ok"
  <2>1. PICK i \in 1 .. Len(published) : published[i].msg = m
    BY <1>1 DEF ReportInv, InStream
  <2>2. P = {i}
    BY <2>1 DEF ReportInv, OnceInStream
  <2> QED BY <1>1, <2>2, FS_Singleton
<1>2. CASE outcome[m] # "ok"
  <2>1. ~InStream(m)
    <3>1. CASE outcome[m] = "failed"
      BY <3>1 DEF FailedNotInStream
    <3>2. CASE outcome[m] # "failed"
      BY <1>2, <3>2 DEF ReportInv, OnceInStream, InStream
    <3> QED BY <3>1, <3>2
  <2>2. P = {}
    BY <2>1 DEF InStream
  <2> QED BY <1>2, <2>2, FS_EmptySet
<1> QED BY <1>1, <1>2

(* As long as notify_all does not throw, a push that reports a failure has *)
(* written nothing, and one that reports success has written one slot.     *)
THEOREM ReportsTruthful == Spec /\ []CanNotify => []PushReportTruthful
<1> DEFINE Inv == LockInv /\ PushInv /\ ReportInv /\ FailedNotInStream
<1>1. Init => Inv
  BY LockInvInit, PushInvInit, ReportInvInit
<1>2. Inv /\ CanNotify /\ [Next]_vars => Inv'
  BY LockInvStep, PushInvStep, ReportInvStep
<1>3. Inv => PushReportTruthful
  BY ReportsCounted
<1> QED
  BY <1>1, <1>2, <1>3, PTL DEF Spec

-----------------------------------------------------------------------------
(***************************************************************************)
(* The ring implements the bounded queue                                   *)
(***************************************************************************)
BacklogOK ==
  /\ Backlog \in Seq(Item)
  /\ Len(Backlog) = Len(published) - Len(consumed)
  /\ \A i \in 1 .. Len(published) - Len(consumed) :
       Backlog[i] = ItemOf(published[Len(consumed) + i].msg)

LEMMA BacklogShape == StreamInv => BacklogOK
<1> SUFFICES ASSUME StreamInv PROVE BacklogOK
  OBVIOUS
<1> DEFINE n == Len(published)
<1> DEFINE k == Len(consumed)
<1>1. n \in Nat /\ k \in Nat /\ k <= n
  BY StreamEnds
<1>2. Backlog = [i \in 1 .. n - k |-> ItemOf(published[k + i].msg)]
  BY DEF Backlog
<1>3. \A i \in 1 .. n - k : ItemOf(published[k + i].msg) \in Item
  <2> TAKE i \in 1 .. n - k
  <2>1. k + i \in 1 .. n
    BY <1>1
  <2>2. published[k + i].msg \in Msg
    BY <2>1, StreamEnds
  <2> QED BY <2>2, SizeOfSlot, 0 \in Nat
<1> HIDE DEF n, k
<1>4. n - k \in Nat
  BY <1>1
<1>5. Backlog \in [1 .. n - k -> Item]
  BY <1>2, <1>3
<1>6. Backlog \in Seq(Item) /\ Len(Backlog) = n - k
  BY <1>4, <1>5
<1> QED
  BY <1>2, <1>6 DEF n, k, BacklogOK

LEMMA BacklogGrows ==
  ASSUME StreamInv, StreamInv', NEW m \in Msg,
         published' = Append(published, [msg |-> m, at |-> Written]),
         UNCHANGED consumed
  PROVE  /\ Backlog' = Append(Backlog, ItemOf(m))
         /\ Written' = Written + Size(m) /\ Drained' = Drained
<1> DEFINE n == Len(published)
<1> DEFINE k == Len(consumed)
<1> DEFINE b == Backlog
<1> DEFINE c == Backlog'
<1>1. /\ n \in Nat /\ k \in Nat /\ k <= n
      /\ Written \in Nat
  BY StreamEnds
<1>2. ItemOf(m) \in Item
  BY SizeOfSlot, 0 \in Nat
<1>3. /\ Len(published') = n + 1
      /\ \A i \in 1 .. n : published'[i] = published[i]
      /\ published'[n + 1] = [msg |-> m, at |-> Written]
  <2>1. published \in Seq([msg : Msg, at : Nat]) /\ [msg |-> m, at |-> Written] \in [msg : Msg, at : Nat]
    BY <1>1 DEF StreamInv
  <2> QED BY <2>1, AppendProperties
<1>4. /\ b \in Seq(Item) /\ Len(b) = n - k
      /\ \A i \in 1 .. n - k : b[i] = ItemOf(published[k + i].msg)
  BY BacklogShape DEF BacklogOK
<1>5. /\ c \in Seq(Item) /\ Len(c) = (n + 1) - k
      /\ \A i \in 1 .. (n + 1) - k : c[i] = ItemOf(published'[k + i].msg)
  <2>1. /\ Backlog' \in Seq(Item)
        /\ Len(Backlog') = Len(published') - Len(consumed')
        /\ \A i \in 1 .. Len(published') - Len(consumed') :
              Backlog'[i] = ItemOf(published'[Len(consumed') + i].msg)
    <3>1. BacklogOK'
      BY BacklogShape, PTL
    <3> QED BY <3>1 DEF BacklogOK
  <2> QED BY <1>3, <2>1
<1> HIDE DEF n, k, b, c
<1>6. c = Append(b, ItemOf(m))
  <2>1. /\ Append(b, ItemOf(m)) \in Seq(Item)
        /\ Len(Append(b, ItemOf(m))) = (n - k) + 1
        /\ \A i \in 1 .. n - k : Append(b, ItemOf(m))[i] = b[i]
        /\ Append(b, ItemOf(m))[(n - k) + 1] = ItemOf(m)
    BY <1>2, <1>4, AppendProperties
  <2>2. (n - k) + 1 = (n + 1) - k
    BY <1>1
  <2>3. ASSUME NEW i \in 1 .. (n - k) + 1 PROVE c[i] = Append(b, ItemOf(m))[i]
    <3>1. CASE i \in 1 .. n - k
      <4>1. k + i \in 1 .. n
        BY <1>1, <3>1
      <4> QED BY <1>3, <1>4, <1>5, <2>1, <2>2, <3>1, <4>1
    <3>2. CASE i = (n - k) + 1
      <4>1. k + i = n + 1 /\ i \in 1 .. (n + 1) - k
        BY <1>1, <3>2
      <4> QED BY <1>3, <1>5, <2>1, <3>2, <4>1
    <3>3. i \in 1 .. n - k \/ i = (n - k) + 1
      BY <1>1
    <3> QED BY <3>1, <3>2, <3>3
  <2> QED BY <1>5, <2>1, <2>2, <2>3, SeqEqual
<1>7. Written' = Written + Size(m)
  <2>1. published' # <<>>
    BY <1>1, <1>3
  <2> QED BY <1>1, <1>3, <2>1 DEF Written
<1>8. Drained' = Drained
  <2>1. CASE k < n
    <3>1. k + 1 \in 1 .. n /\ k < n + 1
      BY <1>1, <2>1
    <3> QED BY <1>3, <2>1, <3>1 DEF Drained, n, k
  <2>2. CASE k = n
    <3>1. k < n + 1 /\ ~(k < n)
      BY <1>1, <2>2
    <3> QED BY <1>3, <2>2, <3>1 DEF Drained, n, k
  <2>3. k < n \/ k = n
    BY <1>1
  <2> QED BY <2>1, <2>2, <2>3
<1> QED
  BY <1>6, <1>7, <1>8 DEF b, c

LEMMA BacklogShrinks ==
  ASSUME StreamInv, StreamInv', NEW k, k = Len(consumed) + 1, k \in 1 .. Len(published),
         consumed' = Append(consumed, ItemOf(published[k].msg)),
         UNCHANGED published
  PROVE  /\ Backlog # <<>> /\ Head(Backlog) = ItemOf(published[k].msg)
         /\ Backlog' = Tail(Backlog)
<1> DEFINE n == Len(published)
<1> DEFINE b == Backlog
<1> DEFINE c == Backlog'
<1>1. n \in Nat /\ k \in 1 .. n /\ Len(consumed) = k - 1 /\ Len(consumed') = k
  <2>1. consumed \in Seq(Item) /\ Len(consumed) \in Nat /\ n \in Nat
    BY DEF StreamInv
  <2>2. ItemOf(published[k].msg) \in Item
    BY StreamEnds, SizeOfSlot, 0 \in Nat
  <2>3. Len(consumed') = Len(consumed) + 1
    BY <2>1, <2>2, AppendProperties
  <2> QED BY <2>1, <2>3
<1>2. /\ b \in Seq(Item) /\ Len(b) = n - (k - 1)
      /\ \A i \in 1 .. n - (k - 1) : b[i] = ItemOf(published[(k - 1) + i].msg)
  BY <1>1, BacklogShape DEF BacklogOK
<1>3. /\ c \in Seq(Item) /\ Len(c) = n - k
      /\ \A i \in 1 .. n - k : c[i] = ItemOf(published[k + i].msg)
  <2>1. /\ Backlog' \in Seq(Item)
        /\ Len(Backlog') = Len(published') - Len(consumed')
        /\ \A i \in 1 .. Len(published') - Len(consumed') :
              Backlog'[i] = ItemOf(published'[Len(consumed') + i].msg)
    <3>1. BacklogOK'
      BY BacklogShape, PTL
    <3> QED BY <3>1 DEF BacklogOK
  <2> QED BY <1>1, <2>1
<1> HIDE DEF n, b, c
<1>4. b # <<>> /\ Head(b) = ItemOf(published[k].msg)
  <2>1. 1 \in 1 .. n - (k - 1) /\ (k - 1) + 1 = k
    BY <1>1
  <2>2. b # <<>> /\ b[1] = ItemOf(published[k].msg)
    BY <1>2, <2>1
  <2> QED BY <1>2, <2>2
<1>5. c = Tail(b)
  <2>1. /\ Tail(b) \in Seq(Item) /\ Len(Tail(b)) = n - k
        /\ \A i \in 1 .. n - k : Tail(b)[i] = b[i + 1]
    <3>1. /\ Tail(b) \in Seq(Item) /\ Len(Tail(b)) = Len(b) - 1
          /\ \A i \in 1 .. Len(Tail(b)) : Tail(b)[i] = b[i + 1]
      BY <1>2, <1>4, HeadTailProperties
    <3>2. (n - (k - 1)) - 1 = n - k
      BY <1>1
    <3> QED BY <1>2, <3>1, <3>2
  <2>2. ASSUME NEW i \in 1 .. n - k PROVE c[i] = Tail(b)[i]
    <3>1. i + 1 \in 1 .. n - (k - 1) /\ (k - 1) + (i + 1) = k + i
      BY <1>1
    <3>2. b[i + 1] = ItemOf(published[k + i].msg)
      BY <1>2, <3>1
    <3> QED BY <1>3, <2>1, <3>2
  <2> QED BY <1>3, <2>1, <2>2, SeqEqual
<1> QED
  BY <1>4, <1>5 DEF b, c

-----------------------------------------------------------------------------
(***************************************************************************)
(* Every step of the ring is a step of the queue, or none.                 *)
(***************************************************************************)
LEMMA QueueInit == Init => Queue!QInit
<1> SUFFICES ASSUME Init PROVE Queue!QInit
  OBVIOUS
<1>1. published = <<>> /\ consumed = <<>> /\ registered = {} /\ eos_received = {}
  BY DEF Init
<1>2. Backlog = <<>>
  <2>1. StreamInv
    BY StreamInvInit
  <2>2. Backlog \in Seq(Item) /\ Len(Backlog) = 0
    BY <1>1, <2>1, BacklogShape DEF BacklogOK
  <2> QED BY <2>2
<1>3. Used = 0
  BY <1>1 DEF Used, Drained, Written
<1> QED
  BY <1>1, <1>2, <1>3 DEF Queue!QInit

LEMMA QueueFrame ==
  ASSUME UNCHANGED <<published, consumed>>
  PROVE  UNCHANGED <<Backlog, Used>>
BY DEF Backlog, Used, Drained, Written

(* The queue's view does not change when none of these does.               *)
LEMMA QueueStutter ==
  ASSUME UNCHANGED <<published, consumed, registered, eos_received>>
  PROVE  UNCHANGED Queue!qvars
BY QueueFrame DEF Queue!qvars

LEMMA AttachedHandle ==
  ASSUME RingInv, NEW h \in Handles,
         pc[h] \in {"push_cs", "pop_cs", "close_cs"}
  PROVE  h \in registered
BY DEF RingInv, CountInv, RegisteredByState, Unregistered

(* Publishing the message of a push is a Put, wherever it is written.      *)
LEMMA QueuePut ==
  ASSUME RingInv, NotFull', StreamInv', NEW p \in Producers, pc[p] = "push_cs",
         published' = Append(published, [msg |-> msg[p], at |-> Written]),
         UNCHANGED <<consumed, registered, eos_received>>
  PROVE  Queue!QNext
<1> DEFINE m == msg[p]
<1>1. /\ m \in Msg /\ published' = Append(published, [msg |-> m, at |-> Written])
      /\ UNCHANGED consumed
  BY DEF RingInv, PushInv, Pushing
<1>2. UNCHANGED <<registered, eos_received>>
  OBVIOUS
<1>3. p \in registered
  BY AttachedHandle DEF Handles
<1> HIDE DEF m
<1>4. StreamInv
  BY DEF RingInv
<1>5. Backlog' = Append(Backlog, ItemOf(m)) /\ Written' = Written + Size(m) /\ Drained' = Drained
  BY <1>1, <1>4, BacklogGrows
<1>6. WeightOfItem(ItemOf(m)) = Size(m)
  BY DEF WeightOfItem, ItemOf, Size
<1>7. Used' = Used + WeightOfItem(ItemOf(m))
  <2>1. Written \in Nat /\ Drained \in Nat /\ Size(m) \in Nat
    BY <1>1, <1>4, StreamEnds, SizeNat
  <2> QED BY <1>5, <1>6, <2>1 DEF Used
<1>8. Used + WeightOfItem(ItemOf(m)) < total_data_bytes
  BY <1>7 DEF NotFull
<1>9. Queue!Put(ItemOf(m))
  BY <1>1, <1>2, <1>3, <1>5, <1>7, <1>8 DEF Queue!Put
<1> QED
  BY <1>1, <1>9 DEF Queue!QNext

(* Reading the oldest message of the backlog is a Get.                     *)
LEMMA QueueGet ==
  ASSUME RingInv, StreamInv', NEW c \in Consumers, pc[c] = "pop_cs",
         NEW k, k = Len(consumed) + 1, k \in 1 .. Len(published),
         consumed' = Append(consumed, ItemOf(published[k].msg)),
         Used' = Used - Size(published[k].msg),
         UNCHANGED <<published, registered, eos_received>>
  PROVE  Queue!QNext
<1> DEFINE m == published[k].msg
<1>1. StreamInv
  BY DEF RingInv
<1>2. /\ k \in 1 .. Len(published)
      /\ consumed' = Append(consumed, ItemOf(m))
      /\ Used' = Used - Size(m)
      /\ UNCHANGED published
  OBVIOUS
<1>3. UNCHANGED <<registered, eos_received>>
  OBVIOUS
<1>4. c \in registered
  BY AttachedHandle DEF Handles
<1>5. Backlog # <<>> /\ Head(Backlog) = ItemOf(m) /\ Backlog' = Tail(Backlog)
  BY <1>1, <1>2, BacklogShrinks
<1> HIDE DEF m
<1>6. WeightOfItem(ItemOf(m)) = Size(m)
  BY DEF WeightOfItem, ItemOf, Size
<1>7. Queue!Get
  BY <1>2, <1>3, <1>4, <1>5, <1>6 DEF Queue!Get
<1> QED
  BY <1>7 DEF Queue!QNext

LEMMA QueueEnd ==
  ASSUME RingInv, NotFull, NEW c \in Consumers, PopEos(c)
  PROVE  Queue!QNext
<1>1. StreamInv /\ LockInv /\ CountInv
  BY DEF RingInv
<1>2. Backlog = <<>>
  <2>1. Len(consumed) = Len(published)
    BY <1>1, FreeSpace DEF PopEos, AtEos
  <2>2. Backlog \in Seq(Item) /\ Len(Backlog) = 0
    BY <1>1, <2>1, BacklogShape, StreamEnds DEF BacklogOK
  <2> QED BY <2>2
<1>3. registered \cap Producers = {}
  <2>1. IsFiniteSet(registered \cap Producers) /\ Cardinality(registered \cap Producers) = 0
    BY <1>1, FiniteHandles DEF PopEos, AtEos, LockInv, ControlTypeOK, CountInv, CountersMatchHandles
  <2> QED BY <2>1, FS_EmptySet
<1>4. c \in registered
  BY AttachedHandle DEF PopEos, Handles
<1>5. UNCHANGED <<registered, published, consumed>> /\ eos_received' = eos_received \cup {c}
  BY DEF PopEos, history
<1>6. UNCHANGED <<Backlog, Used>>
  BY <1>5, QueueFrame
<1>7. Queue!SeeEnd(c)
  BY <1>2, <1>3, <1>4, <1>5, <1>6 DEF Queue!SeeEnd
<1> QED
  BY <1>7 DEF Queue!QNext

LEMMA QueueMember ==
  ASSUME RingInv, UNCHANGED <<published, consumed, eos_received>>, NEW h \in Handles,
         \/ registered' = registered \cup {h} /\ h \notin registered
         \/ registered' = registered \ {h} /\ h \in registered
  PROVE  Queue!QNext
<1>1. UNCHANGED <<Backlog, Used>>
  BY QueueFrame
<1>2. CASE h \in Producers
  <2>1. h \notin Consumers
    BY <1>2, RingAssumption
  <2>2. (registered \cap Consumers)' = registered \cap Consumers
    BY <2>1
  <2>3. Queue!Join(h) \/ Queue!Leave(h)
    BY <1>1, <1>2, <2>2 DEF Queue!Join, Queue!Leave
  <2> QED BY <1>2, <2>3 DEF Queue!QNext
<1>3. CASE h \in Consumers
  <2>1. h \notin Producers
    BY <1>3, RingAssumption
  <2>2. (registered \cap Producers)' = registered \cap Producers
    BY <2>1
  <2>3. Queue!Attach(h) \/ Queue!Detach(h)
    BY <1>1, <1>3, <2>2 DEF Queue!Attach, Queue!Detach
  <2> QED BY <1>3, <2>3 DEF Queue!QNext
<1> QED BY <1>2, <1>3 DEF Handles

LEMMA QueueStep ==
  RingInv /\ NotFull /\ NotFull' /\ [Next]_vars => [Queue!QNext]_(Queue!qvars)
<1> SUFFICES ASSUME RingInv, NotFull, NotFull', [Next]_vars
             PROVE  Queue!QNext \/ UNCHANGED Queue!qvars
  OBVIOUS
<1> DEFINE Same == UNCHANGED <<published, consumed, registered, eos_received>>
<1> DEFINE Member(h) ==
      /\ UNCHANGED <<published, consumed, eos_received>>
      /\ \/ registered' = registered \cup {h} /\ h \notin registered
         \/ registered' = registered \ {h} /\ h \in registered
<1>1. StreamInv'
  BY StreamInvStep DEF RingInv
<1>2. Producers \subseteq Handles /\ Consumers \subseteq Handles
  BY DEF Handles
<1>3. ASSUME NEW h \in Handles, SyncStep(h) \/ Open(h) \/ CloseBegin(h) PROVE Same
  BY <1>3 DEF SyncStep, Lock, Wake, WaitTimeout, Relock, Open, CloseBegin, history
<1>4. ASSUME NEW h \in Handles, pc[h] = "attach_cs" PROVE h \notin registered
  BY <1>4 DEF RingInv, CountInv, RegisteredByState, Unregistered
<1>5. ASSUME NEW p \in Producers, ProducerStep(p) \/ ProducerCall(p)
      PROVE  PushWrite(p) \/ Member(p) \/ Same
  <2>1. ASSUME NEW m \in Msg, NEW t \in Timeouts, PushBegin(p, m, t) PROVE Same
    BY <2>1 DEF PushBegin
  <2>2. CASE ProducerAttach(p)
    BY <1>2, <1>4, <2>2 DEF ProducerAttach, history
  <2>3. CASE PushConsumerFound(p) \/ PushNoConsumers(p)
    BY <2>3 DEF PushConsumerFound, PushNoConsumers, history
  <2>4. CASE PushFail(p) \/ PushWait(p)
    BY <2>4 DEF PushFail, PushWait, history
  <2>5. CASE ProducerClose(p)
    <3>1. p \in registered
      BY <1>2, <2>5, AttachedHandle DEF ProducerClose
    <3> QED BY <2>5, <3>1 DEF ProducerClose, history
  <2> QED
    BY <1>2, <1>3, <1>5, <2>1, <2>2, <2>3, <2>4, <2>5 DEF ProducerStep, ProducerCall
<1>6. ASSUME NEW c \in Consumers, ConsumerStep(c) \/ ConsumerCall(c)
      PROVE  PopSlot(c) \/ PopEos(c) \/ Member(c) \/ Same
  <2>1. ASSUME NEW t \in Timeouts, PopBegin(c, t) PROVE Same
    BY <2>1 DEF PopBegin, history
  <2>2. CASE ConsumerAttach(c)
    BY <1>2, <1>4, <2>2 DEF ConsumerAttach, history
  <2>3. CASE PopFail(c) \/ PopWait(c)
    BY <2>3 DEF PopFail, PopWait, history
  <2>4. CASE ConsumerClose(c)
    <3>1. c \in registered
      BY <1>2, <2>4, AttachedHandle DEF ConsumerClose
    <3> QED BY <2>4, <3>1 DEF ConsumerClose, history
  <2>5. CASE Unlink(c)
    BY <2>5 DEF Unlink, history
  <2> QED
    BY <1>2, <1>3, <1>6, <2>1, <2>2, <2>3, <2>4, <2>5 DEF ConsumerStep, ConsumerCall
<1>7. ASSUME NEW h \in Handles, Member(h) PROVE Queue!QNext
  BY <1>7, QueueMember
<1>8. Same => UNCHANGED Queue!qvars
  BY QueueStutter
<1> HIDE DEF Same, Member
<1>9. ASSUME NEW p \in Producers, ProducerStep(p) \/ ProducerCall(p)
      PROVE  Queue!QNext \/ UNCHANGED Queue!qvars
  <2>1. CASE PushWrite(p)
    BY <1>1, <2>1, QueuePut DEF PushWrite
  <2> QED BY <1>2, <1>5, <1>7, <1>8, <1>9, <2>1
<1>10. ASSUME NEW c \in Consumers, ConsumerStep(c) \/ ConsumerCall(c)
       PROVE  Queue!QNext \/ UNCHANGED Queue!qvars
  <2>1. CASE PopSlot(c)
    <3> DEFINE k == Len(consumed) + 1
    <3>1. /\ k \in 1 .. Len(published)
          /\ consumed' = Append(consumed, ItemOf(published[k].msg))
          /\ Used' = Used - Size(published[k].msg)
          /\ UNCHANGED published
      BY <2>1, PopStep DEF RingInv
    <3>2. pc[c] = "pop_cs" /\ UNCHANGED <<registered, eos_received>>
      BY <2>1 DEF PopSlot
    <3> HIDE DEF k
    <3>3. k = Len(consumed) + 1
      BY DEF k
    <3> QED BY <1>1, <3>1, <3>2, <3>3, QueueGet
  <2> QED BY <1>2, <1>6, <1>7, <1>8, <1>10, <2>1, QueueEnd
<1>11. CASE UNCHANGED vars
  <2>1. Same
    BY <1>11 DEF Same, vars, handle, history
  <2> QED BY <1>8, <2>1
<1> QED
  BY <1>9, <1>10, <1>11 DEF Next, Finished

(* A behaviour in which the ring is never filled to its last byte is one   *)
(* of the bounded queue.                                                   *)
THEOREM RingIsQueue == Spec /\ []NotFull => ImplementsQueue
<1>1. Spec /\ []NotFull => Queue!QInit /\ [][Queue!QNext]_(Queue!qvars)
  BY QueueInit, QueueStep, RingInvHolds, PTL DEF Spec
<1> QED
  BY <1>1 DEF ImplementsQueue, Queue!QSpec

-----------------------------------------------------------------------------
(***************************************************************************)
(* Rings that cannot be filled to the last byte, whatever the order of the *)
(* steps: all slots are multiples of one size, and the data region is not. *)
(***************************************************************************)
Multiples(g) == {g * k : k \in Int}
Indivisible(g) ==
  /\ \A m \in Msg : Size(m) \in Multiples(g)
  /\ total_data_bytes \notin Multiples(g)

Aligned(g) == \A i \in 1 .. Len(published) : published[i].at \in Multiples(g)

LEMMA MultiplesAdd ==
  ASSUME NEW g \in Nat, NEW a \in Multiples(g), NEW b \in Multiples(g)
  PROVE  a + b \in Multiples(g) /\ a - b \in Multiples(g)
<1>1. PICK j \in Int : a = g * j
  BY DEF Multiples
<1>2. PICK k \in Int : b = g * k
  BY DEF Multiples
<1>3. a + b = g * (j + k) /\ a - b = g * (j - k) /\ j + k \in Int /\ j - k \in Int
  BY <1>1, <1>2
<1> QED BY <1>3 DEF Multiples

(* Both ends of the stream are then multiples of the size, and so is what  *)
(* lies between them.                                                      *)
LEMMA AlignedEnds ==
  ASSUME NEW g \in Nat, Indivisible(g), StreamInv, Aligned(g)
  PROVE  Written \in Multiples(g) /\ Used \in Multiples(g)
<1>1. 0 \in Multiples(g)
  <2>1. 0 = g * 0 /\ 0 \in Int
    OBVIOUS
  <2> QED BY <2>1 DEF Multiples
<1>2. /\ Len(published) \in Nat /\ Len(consumed) \in Nat
      /\ Len(consumed) <= Len(published)
      /\ \A i \in 1 .. Len(published) : published[i].msg \in Msg
  BY StreamEnds
<1>3. Written \in Multiples(g)
  <2>1. CASE published = <<>>
    BY <1>1, <2>1 DEF Written
  <2>2. CASE published # <<>>
    <3>1. Len(published) \in 1 .. Len(published)
      BY <1>2, <2>2 DEF StreamInv
    <3>2. /\ published[Len(published)].at \in Multiples(g)
          /\ Size(published[Len(published)].msg) \in Multiples(g)
      BY <1>2, <3>1 DEF Aligned, Indivisible
    <3> QED BY <2>2, <3>2, MultiplesAdd DEF Written
  <2> QED BY <2>1, <2>2
<1>4. Drained \in Multiples(g)
  <2>1. CASE Len(consumed) < Len(published)
    <3>1. Len(consumed) + 1 \in 1 .. Len(published)
      BY <1>2, <2>1
    <3> QED BY <2>1, <3>1 DEF Aligned, Drained
  <2>2. CASE ~(Len(consumed) < Len(published))
    BY <1>3, <2>2 DEF Drained
  <2> QED BY <2>1, <2>2
<1> QED BY <1>3, <1>4, MultiplesAdd DEF Used

(* A step that publishes a slot there is room for, or none, leaves a byte  *)
(* free where one was free.                                                *)
FitsOrReads ==
  \/ \E m \in Msg : /\ HasRoom(m)
                    /\ published' = Append(published, [msg |-> m, at |-> Written])
                    /\ UNCHANGED consumed
  \/ UNCHANGED published /\ Used' <= Used

LEMMA StaysUnfilled ==
  ASSUME NEW g \in Nat, Indivisible(g)
  PROVE  StreamInv /\ StreamInv' /\ NotFull /\ Aligned(g) /\ FitsOrReads
           => Aligned(g)' /\ NotFull'
<1> DEFINE Ends == StreamInv /\ Aligned(g) => Used \in Nat /\ Used \in Multiples(g)
<1>a. Ends
  BY StreamEnds, AlignedEnds
<1>b. Ends'
  BY <1>a, PTL
<1> SUFFICES ASSUME StreamInv, StreamInv', NotFull, Aligned(g), FitsOrReads
             PROVE  Aligned(g)' /\ NotFull'
  OBVIOUS
<1>1. Written \in Nat /\ Drained \in Nat /\ Used \in Nat
  BY StreamEnds
<1>2. Aligned(g)' /\ (Used' \in Nat => Used' <= total_data_bytes)
  <2>1. CASE UNCHANGED published /\ Used' <= Used
    BY <1>1, <2>1, LayoutAssumption DEF Aligned, NotFull
  <2>2. ASSUME NEW m \in Msg, HasRoom(m), UNCHANGED consumed,
               published' = Append(published, [msg |-> m, at |-> Written])
        PROVE  Aligned(g)' /\ (Used' \in Nat => Used' <= total_data_bytes)
    <3>1. Written' = Written + Size(m) /\ Drained' = Drained /\ Size(m) \in Nat
      BY <2>2, BacklogGrows, SizeNat
    <3>2. Size(m) <= total_data_bytes - Used
      BY <2>2, FreeSpace DEF HasRoom
    <3>3. Used' <= total_data_bytes
      BY <1>1, <3>1, <3>2, LayoutAssumption DEF Used
    <3>4. Written \in Multiples(g)
      BY AlignedEnds
    <3>5. /\ Len(published') = Len(published) + 1 /\ Len(published) \in Nat
          /\ \A i \in 1 .. Len(published) : published'[i] = published[i]
          /\ published'[Len(published) + 1].at = Written
      <4>1. /\ published \in Seq([msg : Msg, at : Nat])
            /\ [msg |-> m, at |-> Written] \in [msg : Msg, at : Nat]
        BY <1>1 DEF StreamInv
      <4> QED BY <2>2, <4>1, AppendProperties
    <3>6. Aligned(g)'
      <4> SUFFICES ASSUME NEW i \in 1 .. Len(published) + 1
                   PROVE  published'[i].at \in Multiples(g)
        BY <3>5 DEF Aligned
      <4>1. i \in 1 .. Len(published) \/ i = Len(published) + 1
        BY <3>5
      <4> QED BY <3>4, <3>5, <4>1 DEF Aligned
    <3> QED BY <3>3, <3>6
  <2> QED BY <2>1, <2>2 DEF FitsOrReads
<1>3. Used' \in Nat /\ Used' # total_data_bytes
  BY <1>b, <1>2 DEF Indivisible
<1> QED BY <1>2, <1>3, LayoutAssumption DEF NotFull

LEMMA UnfilledInit ==
  ASSUME NEW g \in Nat, Init
  PROVE  Aligned(g) /\ NotFull
<1>1. published = <<>> /\ consumed = <<>>
  BY DEF Init
<1>2. Used = 0 /\ 1 .. Len(published) = {}
  BY <1>1 DEF Used, Drained, Written
<1> QED BY <1>2, LayoutAssumption DEF Aligned, NotFull

LEMMA UnfilledStep ==
  ASSUME NEW g \in Nat, Indivisible(g), PushInv, StreamInv, NotFull, Aligned(g),
         [Next]_vars
  PROVE  Aligned(g)' /\ NotFull'
<1>1. StreamInv'
  BY StreamInvStep
<1>2. Used \in Nat
  BY StreamEnds
<1>3. ASSUME UNCHANGED <<published, consumed>> PROVE Aligned(g)' /\ NotFull'
  BY <1>1, <1>2, <1>3, QueueFrame, StaysUnfilled DEF FitsOrReads
<1>4. ASSUME NEW p \in Producers, PushWrite(p) PROVE Aligned(g)' /\ NotFull'
  <2>1. /\ msg[p] \in Msg /\ HasRoom(msg[p])
        /\ published' = Append(published, [msg |-> msg[p], at |-> Written])
        /\ UNCHANGED consumed
    BY <1>4, PushStep DEF PushWrite
  <2> QED BY <1>1, <2>1, StaysUnfilled DEF FitsOrReads
<1>5. ASSUME NEW c \in Consumers, PopSlot(c) PROVE Aligned(g)' /\ NotFull'
  <2> DEFINE k == Len(consumed) + 1
  <2>1. /\ k \in 1 .. Len(published) /\ Used' = Used - Size(published[k].msg)
        /\ UNCHANGED published
    BY <1>5, PopStep
  <2>2. Size(published[k].msg) \in Nat
    BY <2>1, StreamEnds, SizeNat
  <2> HIDE DEF k
  <2>3. Used' <= Used
    BY <1>2, <2>1, <2>2
  <2> QED BY <1>1, <2>1, <2>3, StaysUnfilled DEF FitsOrReads
<1>6. CASE UNCHANGED vars
  BY <1>3, <1>6 DEF vars, history
<1> QED BY <1>3, <1>4, <1>5, <1>6, StreamSteps

(* Slots that are all multiples of a size that does not divide the data    *)
(* region never fill it: there the hypothesis []NotFull holds by itself.   *)
THEOREM NeverFilled ==
  ASSUME NEW g \in Nat, Indivisible(g)
  PROVE  Spec => []NotFull
<1> DEFINE Inv == LockInv /\ PushInv /\ StreamInv /\ NotFull /\ Aligned(g)
<1>1. Init => Inv
  BY LockInvInit, PushInvInit, StreamInvInit, UnfilledInit
<1>2. Inv /\ [Next]_vars => Inv'
  BY LockInvStep, PushInvStep, StreamInvStep, UnfilledStep
<1>3. Inv => NotFull
  OBVIOUS
<1> QED
  BY <1>1, <1>2, <1>3, PTL DEF Spec

(* On such a ring, and for every number of handles, what push_raw and      *)
(* pop_raw promise holds without a condition on the behaviour.             *)
THEOREM UnfilledRing ==
  ASSUME NEW g \in Nat, Indivisible(g)
  PROVE  Spec => /\ [](TypeOK /\ FifoIntact /\ BacklogIntact /\ SpaceAccounting)
                 /\ EosOnlyWhenDrained /\ ImplementsQueue
BY NeverFilled, TypesHold, FifoHolds, BacklogHolds, SpaceHolds, EosHolds, RingIsQueue, PTL
=============================================================================
