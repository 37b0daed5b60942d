------------------------------ MODULE RingBytes ------------------------------
(***************************************************************************)
(* The slot codec byte by byte: push_raw and pop_raw of the C++ binding,   *)
(* push_raw and both read paths of pop of the Python binding, over a data  *)
(* region of any size, at any position, with every field free to wrap.     *)
(* A producer of one language writes one slot, a consumer of either reads  *)
(* it; the field widths and the number of values of a byte are parameters  *)
(* (8, 4, 8 and 256 in the code).                                          *)
(***************************************************************************)
EXTENDS Integers, Sequences

CONSTANTS HEADER_SIZE,
          Base,                           \* number of values of a byte
          NextWidth, MetaWidth, PayWidth, \* bytes of the header's fields
          Totals,                         \* sizes of the data region
          MetaLens, PayLens               \* lengths of metadata and payload

(* The number of values that fit into n bytes.                             *)
Power[n \in Nat] == IF n = 0 THEN 1 ELSE Base * Power[n - 1]

ASSUME CodecAssumption ==
  /\ HEADER_SIZE \in Nat /\ Base \in Nat \ {0, 1}
  /\ {NextWidth, MetaWidth, PayWidth} \subseteq Nat \ {0}
  /\ \A t \in Totals : t \in Nat \ {0} /\ HEADER_SIZE + t <= Power[NextWidth]
  /\ \A n \in MetaLens : n \in Nat /\ n < Power[MetaWidth]
  /\ \A n \in PayLens : n \in Nat /\ n < Power[PayWidth]

VARIABLES total,                          \* size of the data region
          start,                          \* where the slot is written
          write_pos, read_pos, mem,
          meta, pay,                      \* the message
          got                             \* the slot as it was read
vars == <<total, start, write_pos, read_pos, mem, meta, pay, got>>

SENTINEL_BYTE == 0
SLOT_HEADER_SIZE == NextWidth + MetaWidth + PayWidth
SlotSize == SLOT_HEADER_SIZE + Len(meta) + 1 + Len(pay) + 1

Region == INSTANCE RingLayout WITH total_data_bytes <- total
End == HEADER_SIZE + total

(* write_le64, write_le32, struct.pack; read_le64, read_le32, unpack.      *)
LittleEndian(value, width) ==
  [i \in 1 .. width |-> (value \div Power[i - 1]) % Base]
FromLittleEndian(bytes) ==
  LET value[n \in 0 .. Len(bytes)] ==
        IF n = 0 THEN 0 ELSE value[n - 1] + bytes[n] * Power[n - 1]
  IN  value[Len(bytes)]

-----------------------------------------------------------------------------
(* C++ push_raw: every field goes to a position normalised after the       *)
(* previous one.  The positions of its fields, then the memory after each. *)
CppNextPos == Region!normalize_abs(write_pos + SlotSize)
CppMetaSizePos == Region!normalize_abs(write_pos + NextWidth)
CppPaySizePos == Region!normalize_abs(CppMetaSizePos + MetaWidth)
CppMetaPos == Region!normalize_abs(CppPaySizePos + PayWidth)
CppStartPos == Region!normalize_abs(CppMetaPos + Len(meta))
CppPayPos == Region!normalize_abs(CppStartPos + 1)
CppEndPos == Region!normalize_abs(CppPayPos + Len(pay))

CppNextWritten ==
  Region!write_bytes(mem, write_pos, LittleEndian(CppNextPos, NextWidth))
CppMetaSizeWritten ==
  Region!write_bytes(CppNextWritten, CppMetaSizePos,
                     LittleEndian(Len(meta), MetaWidth))
CppPaySizeWritten ==
  Region!write_bytes(CppMetaSizeWritten, CppPaySizePos,
                     LittleEndian(Len(pay), PayWidth))
CppMetaWritten == Region!write_bytes(CppPaySizeWritten, CppMetaPos, meta)
CppStartWritten ==
  Region!write_bytes(CppMetaWritten, CppStartPos, <<SENTINEL_BYTE>>)
CppPayWritten == Region!write_bytes(CppStartWritten, CppPayPos, pay)
CppEndWritten == Region!write_bytes(CppPayWritten, CppEndPos, <<SENTINEL_BYTE>>)

CppWriteSlot == [mem |-> CppEndWritten, write_pos |-> CppNextPos]

CppReadSlot ==
  LET Norm(pos) == Region!normalize_abs(pos)
      Get(pos, n) == Region!read_bytes(mem, pos, n)
      p1 == Norm(read_pos + NextWidth)
      meta_size == FromLittleEndian(Get(p1, MetaWidth))
      p2 == Norm(p1 + MetaWidth)
      pay_size == FromLittleEndian(Get(p2, PayWidth))
      p3 == Norm(p2 + PayWidth)
      p4 == Norm(p3 + meta_size)
      p5 == Norm(p4 + 1)
      p6 == Norm(p5 + pay_size)
  IN  [next |-> FromLittleEndian(Get(read_pos, NextWidth)),
       metadata |-> Get(p3, meta_size), start_sentinel |-> Get(p4, 1),
       payload |-> Get(p5, pay_size), end_sentinel |-> Get(p6, 1)]

-----------------------------------------------------------------------------
(* Mutant: a write that ends at the end of the region is split too early.  *)
_write_with_wrap_Early(m, start_pos, data) ==
  IF start_pos + Len(data) <= End
  THEN [mem |-> [c \in DOMAIN m |->
                   IF c >= start_pos /\ c < start_pos + Len(data)
                   THEN data[c - start_pos + 1] ELSE m[c]],
        pos |-> start_pos + Len(data)]
  ELSE LET first_part_len == End - start_pos
           second_part_len == Len(data) - first_part_len
       IN  [mem |-> [c \in DOMAIN m |->
                       IF c >= start_pos THEN data[c - start_pos + 1]
                       ELSE IF c < HEADER_SIZE + second_part_len
                            THEN data[first_part_len + (c - HEADER_SIZE) + 1]
                            ELSE m[c]],
            pos |-> HEADER_SIZE + first_part_len]

(* Python _write_with_wrap: the position it returns may be the end of the  *)
(* region itself, which the next write must then split with an empty first *)
(* part.                                                                   *)
_write_with_wrap(m, start_pos, data) ==
  IF start_pos + Len(data) <= End
  THEN [mem |-> [c \in DOMAIN m |->
                   IF c >= start_pos /\ c < start_pos + Len(data)
                   THEN data[c - start_pos + 1] ELSE m[c]],
        pos |-> start_pos + Len(data)]
  ELSE LET first_part_len == End - start_pos
           second_part_len == Len(data) - first_part_len
       IN  [mem |-> [c \in DOMAIN m |->
                       IF c >= start_pos THEN data[c - start_pos + 1]
                       ELSE IF c < HEADER_SIZE + second_part_len
                            THEN data[first_part_len + (c - HEADER_SIZE) + 1]
                            ELSE m[c]],
            pos |-> HEADER_SIZE + second_part_len]

(* Mutant: a position equal to the end of the region is not wrapped. *)
_normalize_pos_OffByOne(pos) ==
  IF pos > End THEN HEADER_SIZE + ((pos - HEADER_SIZE) % total) ELSE pos

_normalize_pos(pos) ==
  IF pos >= End THEN HEADER_SIZE + ((pos - HEADER_SIZE) % total) ELSE pos

(* The memory and the position after each of push_raw's seven writes.      *)
PyNextPos == _normalize_pos(write_pos + SlotSize)
PyNextWritten ==
  _write_with_wrap(mem, write_pos, LittleEndian(PyNextPos, NextWidth))
PyMetaSizeWritten ==
  _write_with_wrap(PyNextWritten.mem, PyNextWritten.pos,
                   LittleEndian(Len(meta), MetaWidth))
PyPaySizeWritten ==
  _write_with_wrap(PyMetaSizeWritten.mem, PyMetaSizeWritten.pos,
                   LittleEndian(Len(pay), PayWidth))
PyMetaWritten ==
  _write_with_wrap(PyPaySizeWritten.mem, PyPaySizeWritten.pos, meta)
PyStartWritten ==
  _write_with_wrap(PyMetaWritten.mem, PyMetaWritten.pos, <<SENTINEL_BYTE>>)
PyPayWritten ==
  _write_with_wrap(PyStartWritten.mem, PyStartWritten.pos, pay)
PyEndWritten ==
  _write_with_wrap(PyPayWritten.mem, PyPayWritten.pos, <<SENTINEL_BYTE>>)

PyWriteSlot == [mem |-> PyEndWritten.mem, write_pos |-> PyNextPos]

(* Python _read_bytes, from a position that is always inside the region.   *)
_read_bytes(pos, length) ==
  IF pos + length <= End
  THEN [i \in 1 .. length |-> mem[pos + i - 1]]
  ELSE LET first_part_len == End - pos
       IN  [i \in 1 .. first_part_len |-> mem[pos + i - 1]]
           \o [i \in 1 .. length - first_part_len |-> mem[HEADER_SIZE + i - 1]]

(* pop(copy = False): field by field from the shared memory.               *)
PyReadSlot ==
  LET Get(pos, n) == _read_bytes(pos, n)
      Advance(pos, n) == _normalize_pos(pos + n)
      p1 == Advance(read_pos, NextWidth)
      meta_size == FromLittleEndian(Get(p1, MetaWidth))
      p2 == Advance(p1, MetaWidth)
      pay_size == FromLittleEndian(Get(p2, PayWidth))
      p3 == Advance(p2, PayWidth)
      p4 == Advance(p3, meta_size)
      p5 == Advance(p4, 1)
      p6 == Advance(p5, pay_size)
  IN  [next |-> FromLittleEndian(Get(read_pos, NextWidth)),
       metadata |-> Get(p3, meta_size), start_sentinel |-> Get(p4, 1),
       payload |-> Get(p5, pay_size), end_sentinel |-> Get(p6, 1)]

(* pop(copy = True): the slot's length comes from next_pos, the fields     *)
(* from a local copy of that many bytes.                                   *)
PySnapshotSlot ==
  LET next_pos == FromLittleEndian(_read_bytes(read_pos, NextWidth))
      slot_len == IF next_pos >= read_pos THEN next_pos - read_pos
                  ELSE (End - read_pos) + (next_pos - HEADER_SIZE)
      slot == _read_bytes(read_pos, slot_len)
      Get(off, n) == SubSeq(slot, off + 1, off + n)
      meta_size == FromLittleEndian(Get(NextWidth, MetaWidth))
      pay_size == FromLittleEndian(Get(NextWidth + MetaWidth, PayWidth))
      off == SLOT_HEADER_SIZE + meta_size
  IN  [next |-> next_pos,
       metadata |-> Get(SLOT_HEADER_SIZE, meta_size),
       start_sentinel |-> Get(off, 1),
       payload |-> Get(off + 1, pay_size),
       end_sentinel |-> Get(off + 1 + pay_size, 1)]

-----------------------------------------------------------------------------
Filler == Base - 1
NotRead == [next |-> 0]

(* One empty ring, at any position, and one slot that leaves room.         *)
Init ==
  /\ total \in Totals
  /\ \E m \in MetaLens, n \in PayLens :
       /\ meta = [i \in 1 .. m |-> i % Base]
       /\ pay = [i \in 1 .. n |-> (i + 1) % Base]
  /\ SlotSize < total
  /\ start \in HEADER_SIZE .. End - 1
  /\ write_pos = start /\ read_pos = start
  /\ mem = [c \in HEADER_SIZE .. End - 1 |-> Filler]
  /\ got = NotRead

Write(slot) == /\ write_pos = start
               /\ mem' = slot.mem /\ write_pos' = slot.write_pos
               /\ UNCHANGED <<total, start, read_pos, meta, pay, got>>
WriteCpp == Write(CppWriteSlot)
WritePy == Write(PyWriteSlot)

Read(slot) == /\ write_pos # read_pos
              /\ got' = slot /\ read_pos' = slot.next
              /\ UNCHANGED <<total, start, write_pos, mem, meta, pay>>
ReadCpp == Read(CppReadSlot)
ReadPy == Read(PyReadSlot)
ReadPyCopy == Read(PySnapshotSlot)

Done == got # NotRead /\ UNCHANGED vars
Next == WriteCpp \/ WritePy \/ ReadCpp \/ ReadPy \/ ReadPyCopy \/ Done
Spec == Init /\ [][Next]_vars

-----------------------------------------------------------------------------
(* Whichever language wrote and whichever read, the reader gets the bytes  *)
(* of the message between sound sentinels and leaves the ring empty.       *)
RoundTrip ==
  got # NotRead =>
    /\ got.metadata = meta /\ got.payload = pay
    /\ got.start_sentinel = <<SENTINEL_BYTE>>
    /\ got.end_sentinel = <<SENTINEL_BYTE>>
    /\ read_pos = write_pos

(* Writing a slot touches no byte beyond the slot, where the ring may hold *)
(* slots that nobody has read.                                             *)
StaysInSlot ==
  \A i \in SlotSize .. total - 1 :
    mem[HEADER_SIZE + ((start - HEADER_SIZE + i) % total)] = Filler

(* C++ and Python write the same bytes.                                    *)
SameFormat ==
  write_pos = start => CppWriteSlot = PyWriteSlot
=============================================================================
