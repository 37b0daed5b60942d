--------------------------- MODULE RingLayout_proofs ---------------------------
EXTENDS RingLayout, SequenceTheorems, TLAPS

IsDivision(a, n, q, r) ==
  /\ a \in Int /\ n \in Nat \ {0} /\ q \in Int /\ r \in 0 .. n - 1
  /\ a = n * q + r

LEMMA DivMod ==
  ASSUME NEW a \in Int, NEW n \in Nat \ {0}
  PROVE  IsDivision(a, n, a \div n, a % n)
  BY DEF IsDivision

LEMMA DivisionUnique ==
  ASSUME NEW a, NEW n, NEW q, NEW r, NEW p, NEW s,
         IsDivision(a, n, q, r), IsDivision(a, n, p, s)
  PROVE  q = p /\ r = s
<1> USE DEF IsDivision
<1>1. CASE q < p
  <2>1. n * (p - q) >= n
    BY <1>1
  <2> QED BY <2>1
<1>2. CASE q > p
  <2>1. n * (q - p) >= n
    BY <1>2
  <2> QED BY <2>1
<1> QED BY <1>1, <1>2

LEMMA ModUnique ==
  ASSUME NEW a, NEW n, NEW q, NEW r, IsDivision(a, n, q, r)
  PROVE  a % n = r
<1>1. a \in Int /\ n \in Nat \ {0}
  BY DEF IsDivision
<1> QED BY <1>1, DivMod, DivisionUnique

LEMMA ModAdd ==
  ASSUME NEW a \in Int, NEW n \in Nat \ {0}, NEW d \in 0 .. n - 1
  PROVE  (a + d) % n = IF (a % n) + d < n THEN (a % n) + d ELSE (a % n) + d - n
<1> DEFINE q == a \div n
<1> DEFINE r == a % n
<1>1. q \in Int /\ r \in 0 .. n - 1 /\ a = n * q + r
  BY DivMod DEF IsDivision
<1> HIDE DEF q, r
<1>2. CASE r + d < n
  <2>1. IsDivision(a + d, n, q, r + d)
    BY <1>1, <1>2 DEF IsDivision
  <2> QED BY <1>2, <2>1, ModUnique DEF r
<1>3. CASE r + d >= n
  <2>1. n * (q + 1) = n * q + n
    BY <1>1
  <2>2. IsDivision(a + d, n, q + 1, r + d - n)
    BY <1>1, <1>3, <2>1 DEF IsDivision
  <2>3. (a + d) % n = r + d - n
    BY <2>2, ModUnique
  <2> QED BY <1>1, <1>3, <2>3 DEF r
<1> QED BY <1>1, <1>2, <1>3

LEMMA ModPeriod ==
  ASSUME NEW a \in Int, NEW n \in Nat \ {0}, NEW k \in Int
  PROVE  (a + n * k) % n = a % n
<1>1. IsDivision(a, n, a \div n, a % n)
  BY DivMod
<1>2. n * ((a \div n) + k) = n * (a \div n) + n * k
  BY <1>1 DEF IsDivision
<1>3. IsDivision(a + n * k, n, (a \div n) + k, a % n)
  BY <1>1, <1>2 DEF IsDivision
<1> QED BY <1>3, ModUnique

LEMMA ModAbsorb ==
  ASSUME NEW a \in Int, NEW n \in Nat \ {0}, NEW d \in Int
  PROVE  ((a % n) + d) % n = (a + d) % n
<1> DEFINE q == a \div n
<1> DEFINE b == (a % n) + d
<1>1. q \in Int /\ b \in Int /\ a + d = b + n * q
  BY DivMod DEF IsDivision
<1> HIDE DEF q, b
<1>2. (b + n * q) % n = b % n
  BY <1>1, ModPeriod
<1>3. (a + d) % n = b % n
  BY <1>1, <1>2
<1> QED BY <1>3 DEF b

-----------------------------------------------------------------------------
(***************************************************************************)
(* Positions of the stream in the ring.                                    *)
(***************************************************************************)
LEMMA OffsetInCell ==
  ASSUME NEW o \in Int
  PROVE  /\ o % total_data_bytes \in 0 .. total_data_bytes - 1
         /\ CellAt(o) \in Cells
<1>1. o % total_data_bytes \in 0 .. total_data_bytes - 1
  BY DivMod, LayoutAssumption DEF IsDivision
<1> QED
  BY <1>1, LayoutAssumption DEF CellAt, Cells, data_begin_abs, data_end_abs

LEMMA CellAdd ==
  ASSUME NEW o \in Int, NEW d \in 0 .. total_data_bytes - 1
  PROVE  CellAt(o + d) = IF CellAt(o) + d < data_end_abs THEN CellAt(o) + d
                         ELSE (CellAt(o) + d) - total_data_bytes
<1> DEFINE r == o % total_data_bytes
<1> DEFINE s == (o + d) % total_data_bytes
<1>1. r \in 0 .. total_data_bytes - 1
  BY OffsetInCell
<1>2. s = IF r + d < total_data_bytes THEN r + d ELSE r + d - total_data_bytes
  BY ModAdd, LayoutAssumption
<1>3. CellAt(o) = HEADER_SIZE + r /\ CellAt(o + d) = HEADER_SIZE + s
  BY DEF CellAt, data_begin_abs
<1> HIDE DEF r, s
<1> QED
  BY <1>1, <1>2, <1>3, LayoutAssumption DEF data_end_abs

(* One turn of the ring further is the same cell.                          *)
LEMMA CellPeriod ==
  ASSUME NEW o \in Int
  PROVE  CellAt(o + total_data_bytes) = CellAt(o)
<1>1. (o + total_data_bytes * 1) % total_data_bytes = o % total_data_bytes
  <2>1. 1 \in Int /\ total_data_bytes \in Nat \ {0}
    BY LayoutAssumption
  <2> QED BY <2>1, ModPeriod, Zenon
<1>2. total_data_bytes * 1 = total_data_bytes
  BY LayoutAssumption
<1> QED
  BY <1>1, <1>2 DEF CellAt

(* normalize_abs after stepping n bytes on is the place of the offset n    *)
(* further in the stream.                                                  *)
LEMMA NormalizeStep ==
  ASSUME NEW o \in Int, NEW n \in Nat
  PROVE  normalize_abs(CellAt(o) + n) = CellAt(o + n)
<1>1. CellAt(o) \in Cells /\ o % total_data_bytes \in 0 .. total_data_bytes - 1
  BY OffsetInCell
<1>2. CASE CellAt(o) + n >= data_end_abs
  <2>1. normalize_abs(CellAt(o) + n)
          = data_begin_abs + (((CellAt(o) + n) - data_begin_abs) % total_data_bytes)
    BY <1>2 DEF normalize_abs
  <2>2. (CellAt(o) + n) - data_begin_abs = (o % total_data_bytes) + n
    <3> DEFINE r == o % total_data_bytes
    <3>1. r \in Int /\ CellAt(o) = HEADER_SIZE + r
      BY <1>1 DEF CellAt, data_begin_abs
    <3> HIDE DEF r
    <3>2. (CellAt(o) + n) - HEADER_SIZE = r + n
      BY <3>1, LayoutAssumption
    <3> QED BY <3>2 DEF r, data_begin_abs
  <2>3. ((o % total_data_bytes) + n) % total_data_bytes = (o + n) % total_data_bytes
    <3>1. n \in Int /\ total_data_bytes \in Nat \ {0}
      BY LayoutAssumption
    <3> QED BY <3>1, ModAbsorb, Zenon
  <2> QED BY <2>1, <2>2, <2>3 DEF CellAt
<1>3. CASE ~(CellAt(o) + n >= data_end_abs)
  <2>1. CellAt(o) + n < data_end_abs /\ n \in 0 .. total_data_bytes - 1
    BY <1>1, <1>3, LayoutAssumption DEF Cells, data_begin_abs, data_end_abs
  <2>2. CellAt(o + n) = CellAt(o) + n
    BY <2>1, CellAdd
  <2> QED BY <1>3, <2>2 DEF normalize_abs
<1> QED BY <1>2, <1>3

LEMMA NormalizeCell ==
  ASSUME NEW o \in Int
  PROVE  normalize_abs(CellAt(o)) = CellAt(o)
<1>1. CellAt(o) \in Cells
  BY OffsetInCell
<1> QED
  BY <1>1, LayoutAssumption DEF normalize_abs, Cells, data_end_abs, data_begin_abs

(* Unless the ring is full, available_space is what the used bytes leave.  *)
LEMMA AvailableSpace ==
  ASSUME NEW r \in Int, NEW w \in Int, w - r \in 0 .. total_data_bytes - 1
  PROVE  available_space(CellAt(w), CellAt(r)) = total_data_bytes - (w - r)
<1> DEFINE d == w - r
<1>1. CellAt(r) \in Cells
  BY OffsetInCell
<1>2. w = r + d
  OBVIOUS
<1>3. CellAt(r + d) = IF CellAt(r) + d < data_end_abs THEN CellAt(r) + d
                      ELSE (CellAt(r) + d) - total_data_bytes
  BY CellAdd
<1> HIDE DEF d
<1>4. d \in 0 .. total_data_bytes - 1
  BY DEF d
<1>5. available_space(CellAt(r + d), CellAt(r)) = total_data_bytes - d
  BY <1>1, <1>3, <1>4, LayoutAssumption
     DEF available_space, Cells, data_end_abs, data_begin_abs
<1> QED BY <1>2, <1>5 DEF d

-----------------------------------------------------------------------------
(***************************************************************************)
(* Writing and reading across the end of the region.                       *)
(***************************************************************************)
(* write_bytes changes the cells its data covers and no other.             *)
LEMMA WriteBytesAt ==
  ASSUME NEW mem, NEW o \in Int, NEW data, Len(data) \in Nat,
         NEW d \in 0 .. total_data_bytes - 1
  PROVE  write_bytes(mem, CellAt(o), data)[CellAt(o + d)]
           = IF d < Len(data) THEN data[d + 1] ELSE mem[CellAt(o + d)]
<1> DEFINE a == CellAt(o)
<1> DEFINE new == write_bytes(mem, a, data)
<1> DEFINE n == Len(data)
<1> DEFINE c == CellAt(o + d)
<1>1. a \in Cells /\ n \in Nat
  BY OffsetInCell
<1>2. new = [e \in Cells |->
         IF e >= a /\ e < a + n
         THEN data[(e - a) + 1]
         ELSE IF (e - data_begin_abs) + (data_end_abs - a) < n
              THEN data[((e - data_begin_abs) + (data_end_abs - a)) + 1]
              ELSE mem[e]]
  BY NormalizeCell DEF write_bytes
<1>3. c \in Cells /\ c = IF a + d < data_end_abs THEN a + d ELSE (a + d) - total_data_bytes
  <2>1. o + d \in Int
    BY LayoutAssumption
  <2>2. c \in Cells
    BY <2>1, OffsetInCell
  <2> QED BY <2>2, CellAdd, Zenon
<1> HIDE DEF new, a, n, c
<1>4. CASE a + d < data_end_abs
  <2>1. /\ c >= a /\ (c < a + n <=> d < n) /\ (c - a) + 1 = d + 1
        /\ ~(d < n) => ~((c - data_begin_abs) + (data_end_abs - a) < n)
    BY <1>1, <1>3, <1>4, LayoutAssumption DEF Cells, data_begin_abs, data_end_abs
  <2>2. new[c] = IF d < n THEN data[d + 1] ELSE mem[c]
    BY <1>2, <1>3, <2>1
  <2> QED BY <2>2 DEF new, a, n, c
<1>5. CASE ~(a + d < data_end_abs)
  <2>1. /\ ~(c >= a)
        /\ (c - data_begin_abs) + (data_end_abs - a) = d
    BY <1>1, <1>3, <1>5, LayoutAssumption DEF Cells, data_begin_abs, data_end_abs
  <2>2. new[c] = IF d < n THEN data[d + 1] ELSE mem[c]
    BY <1>2, <1>3, <2>1
  <2> QED BY <2>2 DEF new, a, n, c
<1> QED BY <1>4, <1>5

(* The same, and what is in the cells keeps its type.                      *)
LEMMA WriteBytes ==
  ASSUME NEW mem \in [Cells -> Nat], NEW o \in Int,
         NEW data \in Seq(Nat), Len(data) <= total_data_bytes
  PROVE  /\ write_bytes(mem, CellAt(o), data) \in [Cells -> Nat]
         /\ \A d \in 0 .. total_data_bytes - 1 :
              write_bytes(mem, CellAt(o), data)[CellAt(o + d)]
                = IF d < Len(data) THEN data[d + 1] ELSE mem[CellAt(o + d)]
<1> DEFINE a == CellAt(o)
<1> DEFINE new == write_bytes(mem, a, data)
<1> DEFINE n == Len(data)
<1>1. a \in Cells /\ n \in Nat
  <2>1. n \in Nat
    OBVIOUS
  <2> HIDE DEF n
  <2> QED BY <2>1, OffsetInCell
<1>2. new = [c \in Cells |->
         IF c >= a /\ c < a + n
         THEN data[(c - a) + 1]
         ELSE IF (c - data_begin_abs) + (data_end_abs - a) < n
              THEN data[((c - data_begin_abs) + (data_end_abs - a)) + 1]
              ELSE mem[c]]
  BY NormalizeCell DEF write_bytes
<1>3. ASSUME NEW c \in Cells PROVE new[c] \in Nat
  <2> HIDE DEF new, a
  <2>1. CASE c >= a /\ c < a + n
    <3>1. (c - a) + 1 \in 1 .. n
      BY <1>1, <2>1, LayoutAssumption DEF Cells, data_begin_abs, data_end_abs
    <3>2. data[(c - a) + 1] \in Nat
      BY <3>1
    <3> QED BY <1>2, <2>1, <3>2
  <2>2. CASE /\ ~(c >= a /\ c < a + n)
             /\ (c - data_begin_abs) + (data_end_abs - a) < n
    <3>1. ((c - data_begin_abs) + (data_end_abs - a)) + 1 \in 1 .. n
      BY <1>1, <2>2, LayoutAssumption DEF Cells, data_begin_abs, data_end_abs
    <3>2. data[((c - data_begin_abs) + (data_end_abs - a)) + 1] \in Nat
      BY <3>1
    <3> QED BY <1>2, <2>2, <3>2
  <2>3. CASE /\ ~(c >= a /\ c < a + n)
             /\ ~((c - data_begin_abs) + (data_end_abs - a) < n)
    BY <1>2, <2>3
  <2> QED BY <2>1, <2>2, <2>3
<1>4. ASSUME NEW d \in 0 .. total_data_bytes - 1
      PROVE  new[CellAt(o + d)] = IF d < n THEN data[d + 1] ELSE mem[CellAt(o + d)]
  BY <1>1, WriteBytesAt
<1>5. new \in [Cells -> Nat]
  BY <1>2, <1>3
<1> QED BY <1>4, <1>5

(* read_bytes follows the stream across the end of the region.             *)
LEMMA ReadBytes ==
  ASSUME NEW mem \in [Cells -> Nat], NEW o \in Int,
         NEW n \in Nat, n <= total_data_bytes
  PROVE  /\ read_bytes(mem, CellAt(o), n) \in Seq(Nat)
         /\ Len(read_bytes(mem, CellAt(o), n)) = n
         /\ \A i \in 1 .. n : read_bytes(mem, CellAt(o), n)[i] = mem[CellAt(o + (i - 1))]
<1> DEFINE a == CellAt(o)
<1> DEFINE b == read_bytes(mem, a, n)
<1>1. a \in Cells
  BY OffsetInCell
<1>2. b = [i \in 1 .. n |->
         IF a + (i - 1) < data_end_abs
         THEN mem[a + (i - 1)]
         ELSE mem[data_begin_abs + (a + ((i - 1) - data_end_abs))]]
  BY NormalizeCell DEF read_bytes
<1>3. ASSUME NEW i \in 1 .. n PROVE b[i] = mem[CellAt(o + (i - 1))] /\ b[i] \in Nat
  <2> DEFINE c == CellAt(o + (i - 1))
  <2>1. i - 1 \in 0 .. total_data_bytes - 1
    BY LayoutAssumption
  <2>2. /\ c \in Cells
        /\ c = IF a + (i - 1) < data_end_abs THEN a + (i - 1)
               ELSE (a + (i - 1)) - total_data_bytes
    <3>1. o + (i - 1) \in Int
      OBVIOUS
    <3>2. c \in Cells
      BY <3>1, OffsetInCell
    <3> QED BY <2>1, <3>2, CellAdd, Zenon
  <2> HIDE DEF a, b, c
  <2>3. ~(a + (i - 1) < data_end_abs) => data_begin_abs + (a + ((i - 1) - data_end_abs)) = c
    BY <1>1, <2>1, <2>2, LayoutAssumption DEF Cells, data_begin_abs, data_end_abs
  <2> QED BY <1>2, <2>2, <2>3 DEF c
<1>4. b \in Seq(Nat) /\ Len(b) = n
  <2> HIDE DEF b
  <2>1. b \in [1 .. n -> Nat]
    BY <1>2, <1>3
  <2> QED BY <2>1
<1> QED BY <1>3, <1>4

LEMMA ReadUint ==
  ASSUME NEW mem \in [Cells -> Nat], NEW o \in Int
  PROVE  read_uint(mem, CellAt(o)) = mem[CellAt(o)]
<1>1. 1 \in Nat /\ 1 <= total_data_bytes
  BY LayoutAssumption
<1>2. read_bytes(mem, CellAt(o), 1)[1] = mem[CellAt(o + (1 - 1))]
  BY <1>1, ReadBytes
<1>3. o + (1 - 1) = o
  OBVIOUS
<1> QED BY <1>2, <1>3 DEF read_uint

-----------------------------------------------------------------------------
(***************************************************************************)
(* The slot a reader finds is the slot that was written.                   *)
(***************************************************************************)
(* The cells of a slot whose metadata has length m and payload length n.   *)
IsSlot(cells, next_pos, metadata, m, payload, n) ==
  /\ m \in Nat /\ n \in Nat
  /\ slot_size(metadata, payload) = m + n + 5
  /\ cells \in Seq(Nat) /\ Len(cells) = m + n + 5
  /\ cells[1] = next_pos /\ cells[2] = m /\ cells[3] = n
  /\ \A i \in 1 .. m : cells[3 + i] = metadata[i]
  /\ cells[m + 4] = SENTINEL_BYTE
  /\ \A i \in 1 .. n : cells[(m + 4) + i] = payload[i]
  /\ cells[(m + n) + 5] = SENTINEL_BYTE

LEMMA SlotShape ==
  ASSUME NEW next_pos \in Nat, NEW metadata \in Seq(Nat), NEW payload \in Seq(Nat)
  PROVE  IsSlot(SlotCells(next_pos, metadata, payload), next_pos,
                metadata, Len(metadata), payload, Len(payload))
<1> DEFINE m == Len(metadata)
<1> DEFINE n == Len(payload)
<1> DEFINE cells == SlotCells(next_pos, metadata, payload)
<1>1. m \in Nat /\ n \in Nat
  OBVIOUS
<1>2. cells \in Seq(Nat) /\ Len(cells) = m + n + 5
  BY <1>1 DEF SlotCells, SENTINEL_BYTE
<1>3. cells[1] = next_pos /\ cells[2] = m /\ cells[3] = n
  BY <1>1 DEF SlotCells, SENTINEL_BYTE
<1>4. \A i \in 1 .. m : cells[3 + i] = metadata[i]
  BY <1>1 DEF SlotCells, SENTINEL_BYTE
<1>5. cells[m + 4] = SENTINEL_BYTE
  BY <1>1 DEF SlotCells, SENTINEL_BYTE
<1>6. \A i \in 1 .. n : cells[(m + 4) + i] = payload[i]
  BY <1>1 DEF SlotCells, SENTINEL_BYTE
<1>7. cells[(m + n) + 5] = SENTINEL_BYTE
  BY <1>1 DEF SlotCells, SENTINEL_BYTE
<1>8. slot_size(metadata, payload) = m + n + 5
  BY <1>1 DEF slot_size, SLOT_HEADER_SIZE
<1> HIDE DEF m, n, cells
<1>9. IsSlot(cells, next_pos, metadata, m, payload, n)
  BY <1>1, <1>2, <1>3, <1>4, <1>5, <1>6, <1>7, <1>8 DEF IsSlot
<1> QED BY <1>9 DEF m, n, cells

(* What a reader must find in a slot.                                      *)
ReadsAs(slot, next_pos, metadata, payload) ==
  /\ slot.next = next_pos
  /\ slot.metadata_size = Len(metadata) /\ slot.metadata = metadata
  /\ slot.payload = payload
  /\ slot.start_sentinel = SENTINEL_BYTE
  /\ slot.end_sentinel = SENTINEL_BYTE

(* The places of the fields: one step after another, as a reader goes.     *)
LEMMA FieldPlaces ==
  ASSUME NEW o \in Int, NEW m \in Nat, NEW n \in Nat
  PROVE  /\ normalize_abs(CellAt(o) + 1) = CellAt(o + 1)
         /\ normalize_abs(CellAt(o + 1) + 1) = CellAt(o + 2)
         /\ normalize_abs(CellAt(o + 2) + 1) = CellAt(o + 3)
         /\ normalize_abs(CellAt(o + 3) + m) = CellAt(o + (m + 3))
         /\ normalize_abs(CellAt(o + (m + 3)) + 1) = CellAt(o + (m + 4))
         /\ normalize_abs(CellAt(o + (m + 4)) + n) = CellAt(o + (m + n + 4))
<1>1. normalize_abs(CellAt(o) + 1) = CellAt(o + 1)
  BY NormalizeStep
<1>2. normalize_abs(CellAt(o + 1) + 1) = CellAt(o + 2)
  <2>1. o + 1 \in Int /\ 1 \in Nat /\ (o + 1) + 1 = o + 2
    OBVIOUS
  <2>2. normalize_abs(CellAt(o + 1) + 1) = CellAt((o + 1) + 1)
    BY <2>1, NormalizeStep, Zenon
  <2> QED BY <2>1, <2>2
<1>3. normalize_abs(CellAt(o + 2) + 1) = CellAt(o + 3)
  <2>1. o + 2 \in Int /\ 1 \in Nat /\ (o + 2) + 1 = o + 3
    OBVIOUS
  <2>2. normalize_abs(CellAt(o + 2) + 1) = CellAt((o + 2) + 1)
    BY <2>1, NormalizeStep, Zenon
  <2> QED BY <2>1, <2>2
<1>4. normalize_abs(CellAt(o + 3) + m) = CellAt(o + (m + 3))
  <2>1. o + 3 \in Int /\ (o + 3) + m = o + (m + 3)
    OBVIOUS
  <2>2. normalize_abs(CellAt(o + 3) + m) = CellAt((o + 3) + m)
    BY <2>1, NormalizeStep, Zenon
  <2> QED BY <2>1, <2>2
<1>5. normalize_abs(CellAt(o + (m + 3)) + 1) = CellAt(o + (m + 4))
  <2>1. o + (m + 3) \in Int /\ 1 \in Nat /\ (o + (m + 3)) + 1 = o + (m + 4)
    OBVIOUS
  <2>2. normalize_abs(CellAt(o + (m + 3)) + 1) = CellAt((o + (m + 3)) + 1)
    BY <2>1, NormalizeStep, Zenon
  <2> QED BY <2>1, <2>2
<1>6. normalize_abs(CellAt(o + (m + 4)) + n) = CellAt(o + (m + n + 4))
  <2>1. o + (m + 4) \in Int /\ (o + (m + 4)) + n = o + (m + n + 4)
    OBVIOUS
  <2>2. normalize_abs(CellAt(o + (m + 4)) + n) = CellAt((o + (m + 4)) + n)
    BY <2>1, NormalizeStep, Zenon
  <2> QED BY <2>1, <2>2
<1> QED BY <1>1, <1>2, <1>3, <1>4, <1>5, <1>6

(* A slot of at most the size of the ring, found at any place in it and    *)
(* crossing its end anywhere, reads back as it was written.                *)
LEMMA SlotReadBack ==
  ASSUME NEW mem \in [Cells -> Nat], NEW o \in Int, NEW next_pos \in Nat,
         NEW metadata \in Seq(Nat), NEW payload \in Seq(Nat),
         slot_size(metadata, payload) <= total_data_bytes,
         \A d \in 0 .. slot_size(metadata, payload) - 1 :
           mem[CellAt(o + d)] = SlotCells(next_pos, metadata, payload)[d + 1]
  PROVE  ReadsAs(ReadSlot(mem, CellAt(o)), next_pos, metadata, payload)
<1> DEFINE m == Len(metadata)
<1> DEFINE n == Len(payload)
<1> DEFINE cells == SlotCells(next_pos, metadata, payload)
<1>0. m = Len(metadata) /\ n = Len(payload) /\ cells = SlotCells(next_pos, metadata, payload)
  OBVIOUS
<1> HIDE DEF m, n, cells
<1>1. IsSlot(cells, next_pos, metadata, m, payload, n)
  BY <1>0, SlotShape
<1> USE DEF IsSlot
<1>2. \A d \in 0 .. m + n + 4 : mem[CellAt(o + d)] = cells[d + 1]
  <2>1. (m + n + 5) - 1 = m + n + 4
    BY <1>1
  <2> QED BY <1>0, <1>1, <2>1
<1>3. m + n + 5 <= total_data_bytes
  BY <1>1
\* The places of the fields.
<1>4. /\ normalize_abs(CellAt(o) + 1) = CellAt(o + 1)
      /\ normalize_abs(CellAt(o + 1) + 1) = CellAt(o + 2)
      /\ normalize_abs(CellAt(o + 2) + 1) = CellAt(o + 3)
      /\ normalize_abs(CellAt(o + 3) + m) = CellAt(o + (m + 3))
      /\ normalize_abs(CellAt(o + (m + 3)) + 1) = CellAt(o + (m + 4))
      /\ normalize_abs(CellAt(o + (m + 4)) + n) = CellAt(o + (m + n + 4))
  BY <1>1, FieldPlaces
\* What lies there.
<1>10. \A d \in 0 .. m + n + 4 : read_uint(mem, CellAt(o + d)) = cells[d + 1]
  <2> TAKE d \in 0 .. m + n + 4
  <2>1. o + d \in Int
    BY <1>1
  <2>2. read_uint(mem, CellAt(o + d)) = mem[CellAt(o + d)]
    BY <2>1, ReadUint, Zenon
  <2> QED BY <1>2, <2>2
<1>11. /\ read_uint(mem, CellAt(o)) = next_pos
       /\ read_uint(mem, CellAt(o + 1)) = m
       /\ read_uint(mem, CellAt(o + 2)) = n
  <2>1. 0 \in 0 .. m + n + 4 /\ 1 \in 0 .. m + n + 4 /\ 2 \in 0 .. m + n + 4
    BY <1>1
  <2>2. /\ read_uint(mem, CellAt(o + 0)) = cells[0 + 1]
        /\ read_uint(mem, CellAt(o + 1)) = cells[1 + 1]
        /\ read_uint(mem, CellAt(o + 2)) = cells[2 + 1]
    BY <1>10, <2>1, Zenon
  <2>3. o + 0 = o
    OBVIOUS
  <2> QED BY <1>1, <2>2, <2>3
<1>12. read_uint(mem, CellAt(o + (m + 3))) = SENTINEL_BYTE
  <2>1. m + 3 \in 0 .. m + n + 4 /\ (m + 3) + 1 = m + 4
    BY <1>1
  <2> QED BY <1>1, <1>10, <2>1
<1>13. read_uint(mem, CellAt(o + (m + n + 4))) = SENTINEL_BYTE
  <2>1. m + n + 4 \in 0 .. m + n + 4 /\ (m + n + 4) + 1 = (m + n) + 5
    BY <1>1
  <2> QED BY <1>1, <1>10, <2>1
<1>14. read_bytes(mem, CellAt(o + 3), m) = metadata
  <2> DEFINE b == read_bytes(mem, CellAt(o + 3), m)
  <2>1. o + 3 \in Int /\ m <= total_data_bytes
    BY <1>1, <1>3, LayoutAssumption
  <2>2. /\ b \in Seq(Nat) /\ Len(b) = m
        /\ \A i \in 1 .. m : b[i] = mem[CellAt((o + 3) + (i - 1))]
    BY <1>1, <2>1, ReadBytes, Zenon
  <2> HIDE DEF b
  <2>3. ASSUME NEW i \in 1 .. m PROVE b[i] = metadata[i]
    <3>1. (o + 3) + (i - 1) = o + (i + 2) /\ i + 2 \in 0 .. m + n + 4 /\ (i + 2) + 1 = 3 + i
      BY <1>1
    <3>2. mem[CellAt(o + (i + 2))] = cells[(i + 2) + 1]
      BY <1>2, <3>1, Zenon
    <3> QED BY <1>1, <2>2, <3>1, <3>2
  <2>4. b = metadata
    BY <2>2, <2>3, SeqEqual DEF m
  <2> QED BY <2>4 DEF b
<1>15. read_bytes(mem, CellAt(o + (m + 4)), n) = payload
  <2> DEFINE b == read_bytes(mem, CellAt(o + (m + 4)), n)
  <2>1. o + (m + 4) \in Int /\ n <= total_data_bytes
    BY <1>1, <1>3, LayoutAssumption
  <2>2. /\ b \in Seq(Nat) /\ Len(b) = n
        /\ \A i \in 1 .. n : b[i] = mem[CellAt((o + (m + 4)) + (i - 1))]
    BY <1>1, <2>1, ReadBytes, Zenon
  <2> HIDE DEF b
  <2>3. ASSUME NEW i \in 1 .. n PROVE b[i] = payload[i]
    <3>1. /\ (o + (m + 4)) + (i - 1) = o + (m + i + 3) /\ m + i + 3 \in 0 .. m + n + 4
          /\ (m + i + 3) + 1 = (m + 4) + i
      BY <1>1
    <3>2. mem[CellAt(o + (m + i + 3))] = cells[(m + i + 3) + 1]
      BY <1>2, <3>1, Zenon
    <3> QED BY <1>1, <2>2, <3>1, <3>2
  <2>4. b = payload
    BY <2>2, <2>3, SeqEqual DEF n
  <2> QED BY <2>4 DEF b
<1>16. /\ ReadSlot(mem, CellAt(o)).next = next_pos
       /\ ReadSlot(mem, CellAt(o)).metadata_size = m
       /\ ReadSlot(mem, CellAt(o)).metadata = metadata
       /\ ReadSlot(mem, CellAt(o)).start_sentinel = SENTINEL_BYTE
       /\ ReadSlot(mem, CellAt(o)).payload = payload
       /\ ReadSlot(mem, CellAt(o)).end_sentinel = SENTINEL_BYTE
  BY <1>4, <1>11, <1>12, <1>13, <1>14, <1>15 DEF ReadSlot
<1> QED BY <1>16 DEF m, ReadsAs
=============================================================================
