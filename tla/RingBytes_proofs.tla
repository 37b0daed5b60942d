-------------------------- MODULE RingBytes_proofs --------------------------
(***************************************************************************)
(* Proofs about RingBytes, for every size of the data region, every width  *)
(* of the header's fields and every message that leaves a byte free: the   *)
(* two bindings write the same bytes, and none beyond the slot, and every  *)
(* read path of both gets back the message that either wrote.              *)
(***************************************************************************)
EXTENDS RingBytes, SequenceTheorems, WellFoundedInduction, TLAPS

Layout == INSTANCE RingLayout_proofs WITH total_data_bytes <- total

(* A memory of the region: a value for each of its cells.                  *)
IsMemory(m) == /\ DOMAIN m = HEADER_SIZE .. End - 1
               /\ m = [c \in HEADER_SIZE .. End - 1 |-> m[c]]

(* A region and a slot that fits into it.                                  *)
Sized == /\ total \in Nat \ {0}
         /\ Len(meta) \in Nat /\ Len(pay) \in Nat
         /\ SlotSize < total
         /\ start \in HEADER_SIZE .. End - 1
         /\ IsMemory(mem)

CellAt(o) == Layout!CellAt(o)

LEMMA Widths ==
  /\ HEADER_SIZE \in Nat
  /\ NextWidth \in Nat \ {0} /\ MetaWidth \in Nat \ {0} /\ PayWidth \in Nat \ {0}
  BY CodecAssumption

LEMMA LayoutFits ==
  ASSUME total \in Nat \ {0}
  PROVE  Layout!LayoutAssumption
  BY Widths DEF Layout!LayoutAssumption

-----------------------------------------------------------------------------
(* Induction over the numbers, for a set of them rather than a predicate:  *)
(* the smallest number outside the set would have its predecessor in it.   *)
LEMMA Induction ==
  ASSUME NEW S, 0 \in S, \A n \in Nat : n \in S => n + 1 \in S
  PROVE  Nat \subseteq S
<1> DEFINE R == OpToRel(<, Nat)
<1> DEFINE T == {n \in Nat : n \notin S}
<1>1. SUFFICES ASSUME T # {} PROVE FALSE
  OBVIOUS
<1>2. IsWellFoundedOn(R, Nat)
  BY NatLessThanWellFounded
<1>3. T \subseteq Nat
  OBVIOUS
<1>4. PICK x \in T : \A y \in T : <<y, x>> \notin R
  <2> HIDE DEF R, T
  <2> QED BY <1>1, <1>2, <1>3, WFMin
<1>5. \A y \in T : ~(y < x)
  BY <1>3, <1>4 DEF OpToRel
<1>6. x # 0 /\ x \in Nat /\ x - 1 \in Nat /\ (x - 1) + 1 = x
  OBVIOUS
<1> QED BY <1>5, <1>6

-----------------------------------------------------------------------------
(* A function gives the powers of Base up to n.                            *)
IsPowers(f, n) == /\ f \in [0 .. n -> Nat] /\ f[0] = 1
                  /\ \A i \in 1 .. n : f[i] = Base * f[i - 1]

LEMMA PowersExist ==
  ASSUME NEW n \in Nat PROVE \E f : IsPowers(f, n)
<1> DEFINE S == {k \in Nat : \E f : IsPowers(f, k)}
<1>1. 0 \in S
  <2>1. IsPowers([i \in 0 .. 0 |-> 1], 0)
    BY DEF IsPowers
  <2> QED BY <2>1
<1>2. ASSUME NEW k \in Nat, k \in S PROVE k + 1 \in S
  <2>1. PICK f : IsPowers(f, k)
    BY <1>2
  <2> DEFINE g == [i \in 0 .. k + 1 |-> IF i = k + 1 THEN Base * f[k] ELSE f[i]]
  <2>2. Base * f[k] \in Nat
    BY <2>1, CodecAssumption DEF IsPowers
  <2>3. g \in [0 .. k + 1 -> Nat] /\ g[0] = 1
    BY <2>1, <2>2 DEF IsPowers
  <2>4. ASSUME NEW i \in 1 .. k + 1 PROVE g[i] = Base * g[i - 1]
    BY <2>1, <2>2 DEF IsPowers
  <2>5. IsPowers(g, k + 1)
    <3> HIDE DEF g
    <3> QED BY <2>3, <2>4 DEF IsPowers
  <2> QED BY <2>5
<1> HIDE DEF S
<1>3. Nat \subseteq S
  BY <1>1, <1>2, Induction
<1> QED BY <1>3 DEF S

LEMMA PowersUnique ==
  ASSUME NEW n \in Nat, NEW m \in Nat, NEW f, NEW g, IsPowers(f, n), IsPowers(g, m), n <= m
  PROVE  f[n] = g[n]
<1> DEFINE S == {k \in Nat : k <= n => f[k] = g[k]}
<1>1. 0 \in S
  BY DEF IsPowers
<1>2. ASSUME NEW k \in Nat, k \in S PROVE k + 1 \in S
  <2>1. CASE k + 1 <= n
    <3>1. k + 1 \in 1 .. n /\ k + 1 \in 1 .. m /\ (k + 1) - 1 = k /\ f[k] = g[k]
      BY <1>2, <2>1
    <3>2. f[k + 1] = Base * f[k] /\ g[k + 1] = Base * g[k]
      BY <3>1 DEF IsPowers
    <3> QED BY <3>1, <3>2
  <2> QED BY <2>1
<1> HIDE DEF S
<1>3. Nat \subseteq S
  BY <1>1, <1>2, Induction
<1> QED BY <1>3 DEF S

LEMMA Powers ==
  /\ Power[0] = 1
  /\ \A n \in Nat : Power[n] \in Nat \ {0} /\ Power[n + 1] = Base * Power[n]
<1> DEFINE P == [n \in Nat |-> (CHOOSE f : IsPowers(f, n))[n]]
<1> DEFINE Eq(p) == p = [n \in Nat |-> IF n = 0 THEN 1 ELSE Base * p[n - 1]]
<1>1. ASSUME NEW n \in Nat
      PROVE  \E f : IsPowers(f, n) /\ P[n] = f[n]
  <2>1. IsPowers(CHOOSE f : IsPowers(f, n), n)
    BY PowersExist
  <2> QED BY <2>1
<1>2. P[0] = 1
  <2>1. PICK f : IsPowers(f, 0) /\ P[0] = f[0]
    BY <1>1
  <2> QED BY <2>1 DEF IsPowers
<1>3. ASSUME NEW n \in Nat PROVE P[n + 1] = Base * P[n]
  <2>1. PICK f : IsPowers(f, n) /\ P[n] = f[n]
    BY <1>1
  <2>2. PICK g : IsPowers(g, n + 1) /\ P[n + 1] = g[n + 1]
    BY <1>1
  <2> HIDE DEF P
  <2>3. f[n] = g[n]
    BY <2>1, <2>2, PowersUnique
  <2>4. n + 1 \in 1 .. n + 1 /\ (n + 1) - 1 = n
    OBVIOUS
  <2>5. g[n + 1] = Base * g[n]
    BY <2>2, <2>4 DEF IsPowers
  <2> QED BY <2>1, <2>2, <2>3, <2>5
<1>4. Eq(P)
  <2>1. P = [n \in Nat |-> P[n]]
    OBVIOUS
  <2>2. ASSUME NEW n \in Nat PROVE P[n] = IF n = 0 THEN 1 ELSE Base * P[n - 1]
    <3> HIDE DEF P
    <3>1. CASE n = 0
      BY <1>2, <3>1
    <3>2. CASE n # 0
      <4>1. n - 1 \in Nat /\ (n - 1) + 1 = n
        BY <3>2
      <4> QED BY <1>3, <3>2, <4>1
    <3> QED BY <3>1, <3>2
  <2> HIDE DEF P
  <2> QED BY <2>1, <2>2
<1>5. Power = [n \in Nat |-> IF n = 0 THEN 1 ELSE Base * Power[n - 1]]
  <2>1. \E p : Eq(p)
    BY <1>4
  <2>2. Power = CHOOSE p : Eq(p)
    BY DEF Power
  <2> HIDE DEF Eq
  <2>3. Eq(Power)
    BY <2>1, <2>2
  <2> QED BY <2>3 DEF Eq
<1>6. Power[0] = 1 /\ \A n \in Nat : Power[n + 1] = Base * Power[n]
  <2>1. Power[0] = 1
    BY <1>5
  <2>2. ASSUME NEW n \in Nat PROVE Power[n + 1] = Base * Power[n]
    <3>1. n + 1 \in Nat /\ n + 1 # 0 /\ (n + 1) - 1 = n
      OBVIOUS
    <3> QED BY <1>5, <3>1
  <2> QED BY <2>1, <2>2
<1> DEFINE S == {n \in Nat : Power[n] \in Nat \ {0}}
<1>7. 0 \in S
  BY <1>6
<1>8. ASSUME NEW n \in Nat, n \in S PROVE n + 1 \in S
  <2>1. Power[n] \in Nat \ {0} /\ Base \in Nat \ {0} /\ Power[n + 1] = Base * Power[n]
    BY <1>6, <1>8, CodecAssumption
  <2>2. \A a, b \in Nat \ {0} : a * b \in Nat \ {0}
    OBVIOUS
  <2> QED BY <2>1, <2>2
<1>9. Nat \subseteq S
  <2> HIDE DEF S
  <2> QED BY <1>7, <1>8, Induction
<1> QED BY <1>6, <1>9

-----------------------------------------------------------------------------
(* The digit at n splits the remainder by Power[n + 1].                    *)
LEMMA NextDigit ==
  ASSUME total \in Nat \ {0}, NEW v \in Nat, NEW n \in Nat
  PROVE  v % Power[n + 1]
           = (v % Power[n]) + ((v \div Power[n]) % Base) * Power[n]
<1> DEFINE p == Power[n]
<1> DEFINE q == v \div p
<1> DEFINE r == v % p
<1> DEFINE h == q \div Base
<1> DEFINE d == q % Base
<1>1. p \in Nat \ {0} /\ Base \in Nat \ {0} /\ Power[n + 1] = Base * p
  BY Powers, CodecAssumption
<1> HIDE DEF p
<1>2. v = p * q + r /\ q \in Int /\ r \in 0 .. p - 1
  BY <1>1
<1> HIDE DEF q, r
<1>3. q = Base * h + d /\ h \in Int /\ d \in 0 .. Base - 1
  BY <1>1, <1>2
<1> HIDE DEF h, d
<1>4. /\ Base * p \in Nat \ {0} /\ r + d * p \in 0 .. (Base * p) - 1
      /\ v = (Base * p) * h + (r + d * p)
  <2>1. Base * p \in Nat \ {0}
    BY <1>1
  <2>2. d * p \in Nat /\ d * p <= (Base - 1) * p /\ (Base - 1) * p = Base * p - p
    BY <1>1, <1>3
  <2>3. p * q = (Base * p) * h + d * p
    BY <1>1, <1>3
  <2> QED BY <1>1, <1>2, <1>3, <2>1, <2>2, <2>3
<1>5. Layout!IsDivision(v, Base * p, h, r + d * p)
  BY <1>3, <1>4 DEF Layout!IsDivision
<1>6. v % (Base * p) = r + d * p
  BY <1>5, LayoutFits, Layout!ModUnique
<1> QED BY <1>1, <1>6 DEF p, q, r, d

(* read_le undoes write_le for every value that fits into the width.       *)
LEMMA DecodeEncode ==
  ASSUME total \in Nat \ {0}, NEW w \in Nat, NEW v \in Nat, v < Power[w]
  PROVE  FromLittleEndian(LittleEndian(v, w)) = v
<1> DEFINE b == LittleEndian(v, w)
<1> DEFINE Eq(f) == f = [n \in 0 .. Len(b) |->
                          IF n = 0 THEN 0 ELSE f[n - 1] + b[n] * Power[n - 1]]
<1> DEFINE g == [n \in 0 .. w |-> v % Power[n]]
<1>1. Len(b) = w /\ \A n \in 1 .. w : b[n] = (v \div Power[n - 1]) % Base
  BY DEF LittleEndian
<1> HIDE DEF b
<1>2. \A n \in Nat : Power[n] \in Nat \ {0}
  BY Powers
<1>3. v % Power[0] = 0
  BY Powers
<1>4. ASSUME NEW n \in 1 .. w
      PROVE  v % Power[n] = (v % Power[n - 1]) + b[n] * Power[n - 1]
  <2>1. n - 1 \in Nat /\ (n - 1) + 1 = n
    OBVIOUS
  <2>2. v % Power[(n - 1) + 1]
           = (v % Power[n - 1]) + ((v \div Power[n - 1]) % Base) * Power[n - 1]
    BY <2>1, NextDigit
  <2> QED BY <1>1, <2>1, <2>2
<1>5. Eq(g)
  <2>1. ASSUME NEW n \in 0 .. w
        PROVE  g[n] = IF n = 0 THEN 0 ELSE g[n - 1] + b[n] * Power[n - 1]
    <3>1. CASE n = 0
      BY <1>3, <3>1
    <3>2. CASE n # 0
      <4>1. n \in 1 .. w /\ n - 1 \in 0 .. w
        BY <3>2
      <4> QED BY <1>4, <3>2, <4>1
    <3> QED BY <3>1, <3>2
  <2>2. g = [n \in 0 .. w |-> g[n]]
    OBVIOUS
  <2> HIDE DEF g
  <2> QED BY <1>1, <2>1, <2>2
<1> DEFINE f == CHOOSE h : Eq(h)
<1>6. Eq(f)
  <2> HIDE DEF Eq
  <2> QED BY <1>5
<1>7. FromLittleEndian(b) = f[Len(b)]
  BY DEF FromLittleEndian
<1> HIDE DEF f
<1>8. f[0] = 0 /\ \A n \in 1 .. w : f[n] = f[n - 1] + b[n] * Power[n - 1]
  BY <1>1, <1>6
<1> DEFINE S == {n \in Nat : n <= w => f[n] = v % Power[n]}
<1>9. 0 \in S
  BY <1>3, <1>8
<1>10. ASSUME NEW n \in Nat, n \in S PROVE n + 1 \in S
  <2>1. CASE n + 1 <= w
    <3>1. n + 1 \in 1 .. w /\ (n + 1) - 1 = n /\ f[n] = v % Power[n]
      BY <1>10, <2>1
    <3>2. f[n + 1] = f[n] + b[n + 1] * Power[n]
      BY <1>8, <3>1
    <3>3. v % Power[n + 1] = (v % Power[n]) + b[n + 1] * Power[n]
      BY <1>4, <3>1
    <3> QED BY <3>1, <3>2, <3>3
  <2> QED BY <2>1
<1>11. Nat \subseteq S
  <2> HIDE DEF S
  <2> QED BY <1>9, <1>10, Induction
<1>12. f[w] = v % Power[w]
  BY <1>11
<1>13. v % Power[w] = v
  <2> DEFINE p == Power[w]
  <2>1. p \in Nat \ {0} /\ v < p
    BY <1>2
  <2> HIDE DEF p
  <2>2. Layout!IsDivision(v, p, 0, v)
    BY <2>1 DEF Layout!IsDivision
  <2>3. v % p = v
    BY <2>2, LayoutFits, Layout!ModUnique
  <2> QED BY <2>3 DEF p
<1> QED BY <1>1, <1>7, <1>12, <1>13 DEF b

-----------------------------------------------------------------------------
(* The position of the bytes at an offset of the stream, and the next one. *)
LEMMA Step ==
  ASSUME total \in Nat \ {0}, NEW o \in Int, NEW n \in 0 .. total - 1
  PROVE  /\ CellAt(o) \in HEADER_SIZE .. End - 1
         /\ CellAt(o + n) = IF CellAt(o) + n < End THEN CellAt(o) + n
                            ELSE (CellAt(o) + n) - total
         /\ Region!normalize_abs(CellAt(o) + n) = CellAt(o + n)
<1>1. CellAt(o) \in HEADER_SIZE .. End - 1
  BY LayoutFits, Layout!OffsetInCell
  DEF CellAt, End, Layout!Cells, Layout!data_begin_abs, Layout!data_end_abs
<1>2. CellAt(o + n) = IF CellAt(o) + n < End THEN CellAt(o) + n
                      ELSE (CellAt(o) + n) - total
  BY LayoutFits, Layout!CellAdd DEF CellAt, End, Layout!data_end_abs
<1>3. Layout!normalize_abs(CellAt(o) + n) = CellAt(o + n)
  BY LayoutFits, Layout!NormalizeStep DEF CellAt
<1>4. Region!normalize_abs(CellAt(o) + n) = Layout!normalize_abs(CellAt(o) + n)
  BY DEF Region!normalize_abs, Layout!normalize_abs, Region!data_end_abs,
         Layout!data_end_abs, Region!data_begin_abs, Layout!data_begin_abs
<1> QED BY <1>1, <1>2, <1>3, <1>4

-----------------------------------------------------------------------------
(* What a write of data at pos leaves in a cell: by write_bytes, and by the *)
(* two branches of _write_with_wrap.                                       *)
PutCell(m, pos, data, c) ==
  IF c >= pos /\ c < pos + Len(data)
  THEN data[(c - pos) + 1]
  ELSE IF (c - HEADER_SIZE) + (End - pos) < Len(data)
       THEN data[((c - HEADER_SIZE) + (End - pos)) + 1]
       ELSE m[c]

OneCell(m, pos, data, c) ==
  IF c >= pos /\ c < pos + Len(data) THEN data[(c - pos) + 1] ELSE m[c]

TwoCell(m, pos, data, c) ==
  IF c >= pos THEN data[(c - pos) + 1]
  ELSE IF c < HEADER_SIZE + (Len(data) - (End - pos))
       THEN data[((End - pos) + (c - HEADER_SIZE)) + 1]
       ELSE m[c]

(* write_bytes gives a memory, in which only the bytes it writes differ.   *)
LEMMA PutShape ==
  ASSUME NEW m, NEW pos, NEW data, NEW new, new = Region!write_bytes(m, pos, data)
  PROVE  IsMemory(new)
  BY DEF IsMemory, Region!write_bytes, Region!Cells, Region!data_begin_abs,
         Region!data_end_abs, End

LEMMA Put ==
  ASSUME total \in Nat \ {0}, NEW m, NEW o \in Int, NEW data,
         Len(data) \in 0 .. total - 1,
         NEW new, new = Region!write_bytes(m, CellAt(o), data)
  PROVE  /\ \A d \in Len(data) .. total - 1 : new[CellAt(o + d)] = m[CellAt(o + d)]
         /\ \A c \in HEADER_SIZE .. End - 1 :
              new[c] = PutCell(m, CellAt(o), data, c)
<1>1. Region!normalize_abs(CellAt(o)) = CellAt(o)
  <2>1. 0 \in 0 .. total - 1
    OBVIOUS
  <2>2. CellAt(o) \in HEADER_SIZE .. End - 1
    BY <2>1, Step
  <2>3. ~(CellAt(o) >= HEADER_SIZE + total)
    BY <2>2, Widths DEF End
  <2> QED BY <2>3 DEF Region!normalize_abs, Region!data_end_abs
<1>2. new = [c \in HEADER_SIZE .. End - 1 |->
              IF c >= CellAt(o) /\ c < CellAt(o) + Len(data)
              THEN data[(c - CellAt(o)) + 1]
              ELSE IF (c - HEADER_SIZE) + (End - CellAt(o)) < Len(data)
                   THEN data[((c - HEADER_SIZE) + (End - CellAt(o))) + 1]
                   ELSE m[c]]
  BY <1>1 DEF Region!write_bytes, Region!Cells, Region!data_begin_abs,
              Region!data_end_abs, End
<1>3. new = Layout!write_bytes(m, CellAt(o), data)
  BY DEF Region!write_bytes, Layout!write_bytes, Region!Cells, Layout!Cells,
         Region!data_begin_abs, Layout!data_begin_abs, Region!data_end_abs,
         Layout!data_end_abs, Region!normalize_abs, Layout!normalize_abs
<1>4. ASSUME NEW d \in Len(data) .. total - 1
      PROVE  new[CellAt(o + d)] = m[CellAt(o + d)]
  <2>1. d \in 0 .. total - 1 /\ Len(data) \in Nat /\ ~(d < Len(data))
    OBVIOUS
  <2>2. Layout!write_bytes(m, Layout!CellAt(o), data)[Layout!CellAt(o + d)]
          = IF d < Len(data) THEN data[d + 1] ELSE m[Layout!CellAt(o + d)]
    BY <2>1, LayoutFits, Layout!WriteBytesAt
  <2> QED BY <1>3, <2>1, <2>2 DEF CellAt
<1>5. \A c \in HEADER_SIZE .. End - 1 :
        new[c] = PutCell(m, CellAt(o), data, c)
  BY <1>2 DEF PutCell
<1> QED BY <1>4, <1>5

(* Where Python is when it has written up to an offset: at its cell, or at *)
(* the end of the region for the first cell of it.                         *)
Stands(pos, o) ==
  /\ pos \in HEADER_SIZE .. End
  /\ CellAt(o) = IF pos = End THEN HEADER_SIZE ELSE pos

(* A field written by _write_with_wrap is one written by write_bytes.      *)
WroteInOne(s, m, pos, data) ==
  /\ s.mem = [c \in DOMAIN m |-> s.mem[c]]
  /\ \A c \in DOMAIN m : s.mem[c] = OneCell(m, pos, data, c)
  /\ s.pos = pos + Len(data)

LEMMA WrapInOne ==
  ASSUME NEW m, NEW pos \in Int, NEW data, Len(data) \in Nat, End \in Int,
         pos + Len(data) <= End,
         NEW s, s = _write_with_wrap(m, pos, data)
  PROVE  WroteInOne(s, m, pos, data)
<1>1. s.mem = [c \in DOMAIN m |->
                IF c >= pos /\ c < pos + Len(data)
                THEN data[(c - pos) + 1] ELSE m[c]]
  BY Zenon DEF _write_with_wrap
<1>2. s.pos = pos + Len(data)
  BY Zenon DEF _write_with_wrap
<1> QED BY <1>1, <1>2 DEF OneCell, WroteInOne

WroteInTwo(s, m, pos, data) ==
  /\ s.mem = [c \in DOMAIN m |-> s.mem[c]]
  /\ \A c \in DOMAIN m : s.mem[c] = TwoCell(m, pos, data, c)
  /\ s.pos = HEADER_SIZE + (Len(data) - (End - pos))

LEMMA WrapInTwo ==
  ASSUME NEW m, NEW pos \in Int, NEW data, Len(data) \in Nat, End \in Int,
         ~(pos + Len(data) <= End),
         NEW s, s = _write_with_wrap(m, pos, data)
  PROVE  WroteInTwo(s, m, pos, data)
<1>1. s.mem = [c \in DOMAIN m |->
                IF c >= pos THEN data[(c - pos) + 1]
                ELSE IF c < HEADER_SIZE + (Len(data) - (End - pos))
                     THEN data[((End - pos) + (c - HEADER_SIZE)) + 1]
                     ELSE m[c]]
  BY Zenon DEF _write_with_wrap
<1>2. s.pos = HEADER_SIZE + (Len(data) - (End - pos))
  BY Zenon DEF _write_with_wrap
<1> QED BY <1>1, <1>2 DEF TwoCell, WroteInTwo

(* A field written by _write_with_wrap is one written by write_bytes.      *)
LEMMA WrapIsPut ==
  ASSUME total \in Nat \ {0}, NEW m, DOMAIN m = HEADER_SIZE .. End - 1,
         NEW o \in Int, NEW pos, Stands(pos, o), NEW data,
         Len(data) \in 0 .. total - 1,
         NEW s, s = _write_with_wrap(m, pos, data),
         NEW new, new = Region!write_bytes(m, CellAt(o), data)
  PROVE  s.mem = new /\ Stands(s.pos, o + Len(data))
<1> DEFINE n == Len(data)
<1> DEFINE here == CellAt(o)
<1> DEFINE after == CellAt(o + n)
<1>1. /\ pos \in HEADER_SIZE .. End /\ here = IF pos = End THEN HEADER_SIZE ELSE pos
      /\ HEADER_SIZE \in Nat /\ End = HEADER_SIZE + total /\ n \in 0 .. total - 1
  BY Widths DEF Stands, End
<1>2. /\ new = [c \in HEADER_SIZE .. End - 1 |-> new[c]]
      /\ \A c \in HEADER_SIZE .. End - 1 : new[c] = PutCell(m, here, data, c)
  BY Put, PutShape DEF IsMemory
<1>3. after = IF here + n < End THEN here + n ELSE (here + n) - total
  BY Step
<1>4. CASE pos + n <= End
  <2>1. /\ s.mem = [c \in HEADER_SIZE .. End - 1 |-> s.mem[c]]
        /\ \A c \in HEADER_SIZE .. End - 1 :
             s.mem[c] = OneCell(m, pos, data, c)
        /\ s.pos = pos + n
    <3>1. pos \in Int /\ n \in Nat /\ End \in Int /\ DOMAIN m = HEADER_SIZE .. End - 1
      BY <1>1
    <3>2. WroteInOne(s, m, pos, data)
      BY <3>1, <1>4, WrapInOne
    <3> HIDE DEF n
    <3> QED BY <3>1, <3>2 DEF WroteInOne, n
  <2> HIDE DEF n, here, after
  <2>2. ASSUME NEW c \in HEADER_SIZE .. End - 1
        PROVE  s.mem[c] = new[c]
    <3>1. CASE pos # End
      <4>1. here = pos
        BY <1>1, <3>1
      <4>2. ~((c - HEADER_SIZE) + (End - here) < n)
        BY <1>1, <1>4, <4>1
      <4> QED BY <1>2, <2>1, <4>1, <4>2 DEF n, PutCell, OneCell
    <3>2. CASE pos = End
      <4>1. here = HEADER_SIZE /\ n = 0
        BY <1>1, <1>4, <3>2
      <4>2. /\ ~(c >= pos /\ c < pos + n) /\ ~(c >= here /\ c < here + n)
            /\ ~((c - HEADER_SIZE) + (End - here) < n)
        BY <1>1, <3>2, <4>1
      <4> QED BY <1>2, <2>1, <4>2 DEF n, PutCell, OneCell
    <3> QED BY <3>1, <3>2
  <2>3. s.pos \in HEADER_SIZE .. End /\ after = IF s.pos = End THEN HEADER_SIZE ELSE s.pos
    BY <1>1, <1>3, <1>4, <2>1
  <2>4. s.mem = new
    BY <1>2, <2>1, <2>2
  <2> QED BY <2>3, <2>4 DEF Stands, after, n
<1>5. CASE ~(pos + n <= End)
  <2>1. /\ s.mem = [c \in HEADER_SIZE .. End - 1 |-> s.mem[c]]
        /\ \A c \in HEADER_SIZE .. End - 1 :
             s.mem[c] = TwoCell(m, pos, data, c)
        /\ s.pos = HEADER_SIZE + (n - (End - pos))
    <3>1. pos \in Int /\ n \in Nat /\ End \in Int /\ DOMAIN m = HEADER_SIZE .. End - 1
      BY <1>1
    <3>2. WroteInTwo(s, m, pos, data)
      BY <3>1, <1>5, WrapInTwo
    <3> HIDE DEF n
    <3> QED BY <3>1, <3>2 DEF WroteInTwo, n
  <2> HIDE DEF n, here, after
  <2>2. ASSUME NEW c \in HEADER_SIZE .. End - 1
        PROVE  s.mem[c] = new[c]
    <3>1. CASE pos # End
      <4>1. here = pos
        BY <1>1, <3>1
      <4>2. /\ c < here + n
            /\ (c - HEADER_SIZE) + (End - here) < n <=> c < HEADER_SIZE + (n - (End - pos))
            /\ (c - HEADER_SIZE) + (End - here) = (End - pos) + (c - HEADER_SIZE)
        BY <1>1, <1>5, <4>1
      <4> QED BY <1>2, <2>1, <4>1, <4>2 DEF n, PutCell, TwoCell
    <3>2. CASE pos = End
      <4>1. here = HEADER_SIZE /\ End - pos = 0
        BY <1>1, <3>2
      <4>2. /\ ~(c >= pos) /\ c >= here
            /\ c < here + n <=> c < HEADER_SIZE + (n - (End - pos))
            /\ (End - pos) + (c - HEADER_SIZE) = c - here
            /\ ~((c - HEADER_SIZE) + (End - here) < n)
        BY <1>1, <3>2, <4>1
      <4> QED BY <1>2, <2>1, <4>2 DEF n, PutCell, TwoCell
    <3> QED BY <3>1, <3>2
  <2>3. s.pos \in HEADER_SIZE .. End /\ after = IF s.pos = End THEN HEADER_SIZE ELSE s.pos
    <3>1. n - (End - pos) \in 1 .. total - 1
      BY <1>1, <1>5
    <3>2. CASE pos = End
      <4>1. here = HEADER_SIZE /\ s.pos = HEADER_SIZE + n
        BY <1>1, <2>1, <3>2
      <4> QED BY <1>1, <1>3, <4>1
    <3>3. CASE pos # End
      BY <1>1, <1>3, <2>1, <3>1, <3>3
    <3> QED BY <3>2, <3>3
  <2>4. s.mem = new
    BY <1>2, <2>1, <2>2
  <2> QED BY <2>3, <2>4 DEF Stands, after, n
<1> QED BY <1>4, <1>5

-----------------------------------------------------------------------------
LEMMA FieldLengths ==
  ASSUME NEW v
  PROVE  /\ Len(LittleEndian(v, NextWidth)) = NextWidth
         /\ Len(LittleEndian(v, MetaWidth)) = MetaWidth
         /\ Len(LittleEndian(v, PayWidth)) = PayWidth
         /\ Len(<<SENTINEL_BYTE>>) = 1
<1>1. ASSUME NEW w \in Nat PROVE Len(LittleEndian(v, w)) = w
  BY DEF LittleEndian
<1> QED BY <1>1, Widths

(* A slot being written by both bindings: the memories are the same one,   *)
(* Python stands where the C++ position is, and the bytes beyond the slot  *)
(* are those of the ring before the write.                                 *)
Written(m, s, a, n) ==
  /\ s.mem = m
  /\ IsMemory(m)
  /\ Stands(s.pos, a + n)
  /\ \A i \in SlotSize .. total - 1 : m[CellAt(a + i)] = mem[CellAt(a + i)]

(* One more field of the slot.                                             *)
LEMMA Field ==
  ASSUME total \in Nat \ {0}, NEW a \in Int, SlotSize < total,
         NEW n \in Nat, NEW data, Len(data) \in Nat, n + Len(data) <= SlotSize,
         SlotSize \in Nat,
         NEW m, NEW s, Written(m, s, a, n),
         NEW next, next = Region!write_bytes(m, CellAt(a + n), data),
         NEW t, t = _write_with_wrap(s.mem, s.pos, data)
  PROVE  Written(next, t, a, n + Len(data))
<1>1. Len(data) \in 0 .. total - 1 /\ a + n \in Int
  OBVIOUS
<1>2. s.mem = m /\ DOMAIN m = HEADER_SIZE .. End - 1 /\ Stands(s.pos, a + n)
  BY DEF Written, IsMemory
<1>3. t = _write_with_wrap(m, s.pos, data)
  BY <1>2
<1>4. t.mem = next /\ Stands(t.pos, (a + n) + Len(data))
  BY <1>1, <1>2, <1>3, WrapIsPut
<1> DEFINE b == a + n
<1>5. /\ IsMemory(next)
      /\ \A d \in Len(data) .. total - 1 : next[CellAt(b + d)] = m[CellAt(b + d)]
  <2>1. b \in Int /\ Len(data) \in 0 .. total - 1
        /\ next = Region!write_bytes(m, CellAt(b), data)
    BY <1>1
  <2> HIDE DEF b
  <2>2. IsMemory(next)
    BY <2>1, PutShape
  <2>3. \A d \in Len(data) .. total - 1 : next[CellAt(b + d)] = m[CellAt(b + d)]
    BY <2>1, Put
  <2> QED BY <2>2, <2>3
<1>6. ASSUME NEW i \in SlotSize .. total - 1
      PROVE  next[CellAt(a + i)] = mem[CellAt(a + i)]
  <2>1. i - n \in Len(data) .. total - 1 /\ (a + n) + (i - n) = a + i
    OBVIOUS
  <2>2. next[CellAt(a + i)] = m[CellAt(a + i)]
    BY <1>5, <2>1
  <2>3. m[CellAt(a + i)] = mem[CellAt(a + i)]
    BY DEF Written
  <2> QED BY <2>2, <2>3
<1>7. (a + n) + Len(data) = a + (n + Len(data))
  OBVIOUS
<1> QED BY <1>4, <1>5, <1>6, <1>7 DEF Written

(* Where a slot is written, and what the seven writes of it do.            *)
LEMMA SlotSizes ==
  ASSUME Sized
  PROVE  /\ SlotSize \in Nat /\ SlotSize < total
         /\ SlotSize = NextWidth + MetaWidth + PayWidth + Len(meta) + 1 + Len(pay) + 1
  BY Widths DEF Sized, SlotSize, SLOT_HEADER_SIZE

LEMMA StartIsCell ==
  ASSUME Sized
  PROVE  /\ start - HEADER_SIZE \in 0 .. total - 1
         /\ CellAt(start - HEADER_SIZE) = start
<1> DEFINE o == start - HEADER_SIZE
<1>1. o \in 0 .. total - 1 /\ HEADER_SIZE + o = start /\ total \in Nat \ {0}
  BY Widths DEF Sized, End
<1> HIDE DEF o
<1>2. o = total * 0 + o /\ 0 \in Int
  BY <1>1
<1>3. Layout!IsDivision(o, total, 0, o)
  BY <1>1, <1>2 DEF Layout!IsDivision
<1>4. o % total = o
  BY <1>1, <1>3, LayoutFits, Layout!ModUnique
<1>5. CellAt(o) = HEADER_SIZE + o
  BY <1>4 DEF CellAt, Layout!CellAt, Layout!data_begin_abs
<1> QED BY <1>1, <1>5 DEF o

(* The C++ position n bytes into a slot at offset a of the stream.         *)
At(p, a, n) == p \in Int /\ p = CellAt(a + n)

LEMMA NextField ==
  ASSUME total \in Nat \ {0}, NEW a \in Int, SlotSize \in Nat, SlotSize < total,
         NEW n \in Nat, NEW k \in Nat, n + k <= SlotSize,
         NEW p, At(p, a, n),
         NEW q, q = Region!normalize_abs(p + k)
  PROVE  At(q, a, n + k)
<1> DEFINE b == a + n
<1>1. b \in Int /\ k \in 0 .. total - 1 /\ b + k = a + (n + k) /\ 0 \in 0 .. total - 1
      /\ b + k \in Int
  OBVIOUS
<1>2. q = Region!normalize_abs(CellAt(b) + k)
  BY DEF At
<1> HIDE DEF b
<1>3. Region!normalize_abs(CellAt(b) + k) = CellAt(b + k)
  BY <1>1, Step
<1>4. CellAt(b + k) \in HEADER_SIZE .. End - 1
  <2> DEFINE e == b + k
  <2>1. e \in Int /\ 0 \in 0 .. total - 1
    BY <1>1
  <2> HIDE DEF e
  <2> QED BY <2>1, Step DEF e
<1>5. CellAt(b + k) \in Int
  BY <1>1, <1>4, Widths
<1> QED BY <1>1, <1>2, <1>3, <1>5 DEF At

(* The seven writes of push_raw, in the two bindings side by side.         *)
LEMMA SideBySide ==
  ASSUME Sized, write_pos = start
  PROVE  /\ CppNextPos = PyNextPos
         /\ Written(CppEndWritten, PyEndWritten, start - HEADER_SIZE, SlotSize)
<1> DEFINE a == start - HEADER_SIZE
<1> DEFINE n1 == NextWidth
<1> DEFINE n2 == n1 + MetaWidth
<1> DEFINE n3 == n2 + PayWidth
<1> DEFINE n4 == n3 + Len(meta)
<1> DEFINE n5 == n4 + 1
<1> DEFINE n6 == n5 + Len(pay)
<1> DEFINE n7 == n6 + 1
<1>1. /\ total \in Nat \ {0} /\ SlotSize \in Nat /\ SlotSize < total
      /\ a \in Int /\ write_pos = CellAt(a) /\ write_pos \in HEADER_SIZE .. End
      /\ NextWidth \in Nat /\ MetaWidth \in Nat /\ PayWidth \in Nat
      /\ Len(meta) \in Nat /\ Len(pay) \in Nat /\ write_pos # End
      /\ SlotSize = n7 /\ IsMemory(mem)
  BY SlotSizes, StartIsCell, Widths DEF Sized, End
<1>2. CppNextPos = PyNextPos
  BY DEF CppNextPos, PyNextPos, _normalize_pos, Region!normalize_abs, End,
         Region!data_end_abs, Region!data_begin_abs
<1>3. /\ n1 \in Nat /\ n2 \in Nat /\ n3 \in Nat /\ n4 \in Nat /\ n5 \in Nat /\ n6 \in Nat
      /\ n7 \in Nat /\ n7 = SlotSize
      /\ n1 + MetaWidth = n2 /\ n2 + PayWidth = n3 /\ n3 + Len(meta) = n4
      /\ n4 + 1 = n5 /\ n5 + Len(pay) = n6 /\ n6 + 1 = n7
      /\ n2 <= SlotSize /\ n3 <= SlotSize /\ n4 <= SlotSize
      /\ n5 <= SlotSize /\ n6 <= SlotSize /\ n1 <= SlotSize /\ n7 <= SlotSize
      /\ 0 + n1 = n1 /\ a + 0 = a /\ NextWidth = n1
  BY <1>1
<1>4. \A v : /\ Len(LittleEndian(v, NextWidth)) = NextWidth
             /\ Len(LittleEndian(v, MetaWidth)) = MetaWidth
             /\ Len(LittleEndian(v, PayWidth)) = PayWidth
             /\ Len(<<SENTINEL_BYTE>>) = 1
  BY FieldLengths
<1> HIDE DEF a, n1, n2, n3, n4, n5, n6, n7
<1>5. /\ CppMetaSizePos = CellAt(a + n1) /\ CppPaySizePos = CellAt(a + n2)
      /\ CppMetaPos = CellAt(a + n3) /\ CppStartPos = CellAt(a + n4)
      /\ CppPayPos = CellAt(a + n5) /\ CppEndPos = CellAt(a + n6)
  <2>1. At(write_pos, a, 0)
    BY <1>1, <1>3, Widths DEF At, End
  <2>2. At(CppMetaSizePos, a, n1)
    <3>1. At(CppMetaSizePos, a, 0 + NextWidth)
      BY <1>1, <1>3, <2>1, NextField DEF CppMetaSizePos
    <3> QED BY <1>3, <3>1
  <2>3. At(CppPaySizePos, a, n2)
    BY <1>1, <1>3, <2>2, NextField DEF CppPaySizePos
  <2>4. At(CppMetaPos, a, n3)
    BY <1>1, <1>3, <2>3, NextField DEF CppMetaPos
  <2>5. At(CppStartPos, a, n4)
    BY <1>1, <1>3, <2>4, NextField DEF CppStartPos
  <2>6. At(CppPayPos, a, n5)
    BY <1>1, <1>3, <2>5, NextField DEF CppPayPos
  <2>7. At(CppEndPos, a, n6)
    BY <1>1, <1>3, <2>6, NextField DEF CppEndPos
  <2> QED BY <2>2, <2>3, <2>4, <2>5, <2>6, <2>7 DEF At
<1> DEFINE before == [mem |-> mem, pos |-> write_pos]
<1>6. Written(mem, before, a, 0)
  <2>1. CellAt(a + 0) = IF write_pos = End THEN HEADER_SIZE ELSE write_pos
    BY <1>1, <1>3
  <2> QED BY <1>1, <2>1 DEF Written, Stands
<1>7. Written(CppNextWritten, PyNextWritten, a, n1)
  <2>1. CppNextWritten = Region!write_bytes(mem, CellAt(a + 0), LittleEndian(PyNextPos, NextWidth))
    BY <1>1, <1>2, <1>3 DEF CppNextWritten
  <2>2. PyNextWritten
          = _write_with_wrap(before.mem, before.pos, LittleEndian(PyNextPos, NextWidth))
    BY DEF PyNextWritten
  <2>3. Len(LittleEndian(PyNextPos, NextWidth)) = n1
    BY <1>3, <1>4
  <2> HIDE DEF before
  <2>4. Written(CppNextWritten, PyNextWritten, a, 0 + n1)
    BY <1>1, <1>3, <1>6, <2>1, <2>2, <2>3, Field
  <2> QED BY <1>3, <2>4
<1> HIDE DEF before
<1>8. Written(CppMetaSizeWritten, PyMetaSizeWritten, a, n2)
  BY <1>1, <1>3, <1>4, <1>5, <1>7, Field DEF CppMetaSizeWritten, PyMetaSizeWritten
<1>9. Written(CppPaySizeWritten, PyPaySizeWritten, a, n3)
  BY <1>1, <1>3, <1>4, <1>5, <1>8, Field DEF CppPaySizeWritten, PyPaySizeWritten
<1>10. Written(CppMetaWritten, PyMetaWritten, a, n4)
  BY <1>1, <1>3, <1>4, <1>5, <1>9, Field DEF CppMetaWritten, PyMetaWritten
<1>11. Written(CppStartWritten, PyStartWritten, a, n5)
  BY <1>1, <1>3, <1>4, <1>5, <1>10, Field DEF CppStartWritten, PyStartWritten
<1>12. Written(CppPayWritten, PyPayWritten, a, n6)
  BY <1>1, <1>3, <1>4, <1>5, <1>11, Field DEF CppPayWritten, PyPayWritten
<1>13. Written(CppEndWritten, PyEndWritten, a, n7)
  BY <1>1, <1>3, <1>4, <1>5, <1>12, Field DEF CppEndWritten, PyEndWritten
<1>14. Written(CppEndWritten, PyEndWritten, a, SlotSize)
  BY <1>3, <1>13
<1> QED BY <1>2, <1>14 DEF a

-----------------------------------------------------------------------------
SlotInv == Sized /\ StaysInSlot

(* SameFormat is not about what has happened: it holds of any ring.        *)
LEMMA OneFormat ==
  ASSUME Sized
  PROVE  SameFormat
<1>1. SUFFICES ASSUME write_pos = start
               PROVE  CppWriteSlot = PyWriteSlot
  BY DEF SameFormat
<1>2. PyEndWritten.mem = CppEndWritten /\ CppNextPos = PyNextPos
  BY <1>1, SideBySide DEF Written
<1> QED BY <1>2 DEF CppWriteSlot, PyWriteSlot

(* The memory after a slot was written: beyond the slot, nothing changed.  *)
LEMMA Beyond ==
  ASSUME SlotInv, write_pos = start, NEW m, m = CppWriteSlot.mem
  PROVE  /\ IsMemory(m)
         /\ \A i \in SlotSize .. total - 1 :
              m[HEADER_SIZE + ((start - HEADER_SIZE + i) % total)] = Filler
<1>1. m = CppEndWritten
  BY DEF CppWriteSlot
<1>2. Written(m, PyEndWritten, start - HEADER_SIZE, SlotSize)
  BY <1>1, SideBySide DEF SlotInv
<1>3. IsMemory(m)
  BY <1>2 DEF Written
<1>4. ASSUME NEW i \in SlotSize .. total - 1
      PROVE  m[HEADER_SIZE + ((start - HEADER_SIZE + i) % total)] = Filler
  <2>1. m[CellAt(start - HEADER_SIZE + i)] = mem[CellAt(start - HEADER_SIZE + i)]
    BY <1>2 DEF Written
  <2>2. CellAt(start - HEADER_SIZE + i)
          = HEADER_SIZE + ((start - HEADER_SIZE + i) % total)
    BY DEF CellAt, Layout!CellAt, Layout!data_begin_abs
  <2>3. mem[HEADER_SIZE + ((start - HEADER_SIZE + i) % total)] = Filler
    BY DEF SlotInv, StaysInSlot
  <2> QED BY <2>1, <2>2, <2>3
<1> QED BY <1>3, <1>4

LEMMA InitSlotInv == Init => SlotInv
<1> SUFFICES ASSUME Init PROVE SlotInv
  OBVIOUS
<1>1. total \in Nat \ {0}
  BY CodecAssumption DEF Init
<1>2. Len(meta) \in Nat /\ Len(pay) \in Nat
  <2>1. PICK m \in MetaLens, n \in PayLens :
          /\ meta = [i \in 1 .. m |-> i % Base]
          /\ pay = [i \in 1 .. n |-> (i + 1) % Base]
    BY DEF Init
  <2>2. m \in Nat /\ n \in Nat
    BY CodecAssumption
  <2> QED BY <2>1, <2>2
<1>3. mem = [c \in HEADER_SIZE .. End - 1 |-> Filler]
  BY DEF Init
<1>4. Sized
  <2>1. IsMemory(mem)
    BY <1>3 DEF IsMemory
  <2> QED BY <1>1, <1>2, <2>1 DEF Init, Sized
<1>5. ASSUME NEW i \in SlotSize .. total - 1
      PROVE  mem[HEADER_SIZE + ((start - HEADER_SIZE + i) % total)] = Filler
  <2> DEFINE o == start - HEADER_SIZE + i
  <2>1. o \in Int /\ 0 \in 0 .. total - 1
    BY <1>1, <1>4, SlotSizes, Widths DEF Sized, End
  <2> HIDE DEF o
  <2>2. CellAt(o) \in HEADER_SIZE .. End - 1
    BY <1>1, <2>1, Step
  <2>3. CellAt(o) = HEADER_SIZE + (o % total)
    BY DEF CellAt, Layout!CellAt, Layout!data_begin_abs
  <2>4. mem[HEADER_SIZE + (o % total)] = Filler
    BY <1>3, <2>2, <2>3
  <2> QED BY <2>4 DEF o
<1> QED BY <1>4, <1>5 DEF SlotInv, StaysInSlot

LEMMA StepSlotInv == SlotInv /\ [Next]_vars => SlotInv'
<1> SUFFICES ASSUME SlotInv, [Next]_vars PROVE SlotInv'
  OBVIOUS
<1>1. ASSUME write_pos = start, mem' = CppWriteSlot.mem,
             UNCHANGED <<total, start, meta, pay>>
      PROVE  SlotInv'
  <2>1. IsMemory(mem') /\ End' = End /\ SlotSize' = SlotSize /\ Filler' = Filler
    BY <1>1, Beyond DEF End, SlotSize, SLOT_HEADER_SIZE, Filler
  <2>2. \A i \in SlotSize .. total - 1 :
          mem'[HEADER_SIZE + ((start - HEADER_SIZE + i) % total)] = Filler
    BY <1>1, Beyond
  <2>3. IsMemory(mem)'
    BY <1>1, <2>1 DEF IsMemory
  <2>4. Sized'
    BY <1>1, <2>1, <2>3 DEF SlotInv, Sized
  <2>5. StaysInSlot'
    BY <1>1, <2>1, <2>2 DEF StaysInSlot
  <2> QED BY <2>4, <2>5 DEF SlotInv
<1>2. ASSUME UNCHANGED <<total, start, mem, meta, pay>>
      PROVE  SlotInv'
  BY <1>2 DEF SlotInv, Sized, StaysInSlot, IsMemory, End, SlotSize,
              SLOT_HEADER_SIZE, Filler
<1>3. CASE WriteCpp
  BY <1>1, <1>3 DEF WriteCpp, Write
<1>4. CASE WritePy
  <2>1. write_pos = start /\ mem' = PyWriteSlot.mem
    BY <1>4 DEF WritePy, Write
  <2>2. CppWriteSlot = PyWriteSlot
    BY <2>1, OneFormat DEF SlotInv, SameFormat
  <2> QED BY <1>1, <1>4, <2>1, <2>2 DEF WritePy, Write
<1>5. CASE ReadCpp
  BY <1>2, <1>5 DEF ReadCpp, Read
<1>6. CASE ReadPy
  BY <1>2, <1>6 DEF ReadPy, Read
<1>7. CASE ReadPyCopy
  BY <1>2, <1>7 DEF ReadPyCopy, Read
<1>8. CASE Done \/ UNCHANGED vars
  BY <1>2, <1>8 DEF Done, vars
<1> QED BY <1>3, <1>4, <1>5, <1>6, <1>7, <1>8 DEF Next

(* C++ push_raw and Python push_raw write the same bytes and leave         *)
(* write_pos at the same place: wherever the slot starts, whichever of its *)
(* fields wraps and whatever the message and the size of the region.       *)
THEOREM FormatShared == Spec => []SameFormat
<1>1. SlotInv => SameFormat
  BY OneFormat DEF SlotInv
<1> QED BY <1>1, InitSlotInv, StepSlotInv, PTL DEF Spec

(* Neither push_raw touches a byte beyond the slot it writes, and no read  *)
(* path of pop changes the memory.                                         *)
THEOREM SlotKept == Spec => []StaysInSlot
<1>1. SlotInv => StaysInSlot
  BY DEF SlotInv
<1> QED BY <1>1, InitSlotInv, StepSlotInv, PTL DEF Spec

-----------------------------------------------------------------------------
(* The bytes b are those of m from an offset of the stream on.             *)
IsRead(m, b, o, n) ==
  /\ b = [i \in 1 .. n |-> b[i]] /\ Len(b) = n
  /\ \A i \in 1 .. n : b[i] = m[CellAt(o + (i - 1))]

LEMMA SameBytes ==
  ASSUME NEW m, NEW o, NEW n, NEW b, NEW c, IsRead(m, b, o, n), IsRead(m, c, o, n)
  PROVE  b = c
  BY DEF IsRead

(* What write_bytes has written can be read, and what was there before it  *)
(* in the slot still can.                                                  *)
LEMMA PutRead ==
  ASSUME total \in Nat \ {0}, NEW m, NEW o \in Int, NEW n \in 0 .. total,
         NEW data, data = [i \in 1 .. n |-> data[i]], Len(data) = n,
         NEW new, new = Region!write_bytes(m, CellAt(o), data)
  PROVE  IsRead(new, data, o, n)
<1>1. new = Layout!write_bytes(m, CellAt(o), data)
  BY DEF Region!write_bytes, Layout!write_bytes, Region!Cells, Layout!Cells,
         Region!data_begin_abs, Layout!data_begin_abs, Region!data_end_abs,
         Layout!data_end_abs, Region!normalize_abs, Layout!normalize_abs
<1>2. ASSUME NEW i \in 1 .. n
      PROVE  data[i] = new[CellAt(o + (i - 1))]
  <2>1. i - 1 \in 0 .. total - 1 /\ i - 1 < n /\ (i - 1) + 1 = i /\ Len(data) \in Nat
    OBVIOUS
  <2>2. Layout!write_bytes(m, Layout!CellAt(o), data)[Layout!CellAt(o + (i - 1))]
          = IF i - 1 < Len(data) THEN data[(i - 1) + 1] ELSE m[Layout!CellAt(o + (i - 1))]
    BY <2>1, LayoutFits, Layout!WriteBytesAt
  <2> QED BY <1>1, <2>1, <2>2 DEF CellAt
<1> QED BY <1>2 DEF IsRead

LEMMA CellTurn ==
  ASSUME total \in Nat \ {0}, NEW o \in Int
  PROVE  CellAt(o + total) = CellAt(o)
  BY LayoutFits, Layout!CellPeriod DEF CellAt

(* Two memories hold the same bytes in the first n of a slot at a.         *)
Agree(m, k, a, n) == \A i \in 0 .. n - 1 : m[CellAt(a + i)] = k[CellAt(a + i)]

LEMMA PutKeeps ==
  ASSUME total \in Nat \ {0}, NEW m, NEW a \in Int, NEW n \in Nat, NEW data,
         Len(data) \in Nat, n + Len(data) < total,
         NEW new, new = Region!write_bytes(m, CellAt(a + n), data)
  PROVE  Agree(new, m, a, n)
<1> DEFINE b == a + n
<1>1. b \in Int /\ Len(data) \in 0 .. total - 1 /\ new = Region!write_bytes(m, CellAt(b), data)
  OBVIOUS
<1> HIDE DEF b
<1>2. \A d \in Len(data) .. total - 1 : new[CellAt(b + d)] = m[CellAt(b + d)]
  BY <1>1, Put
<1>3. ASSUME NEW i \in 0 .. n - 1
      PROVE  new[CellAt(a + i)] = m[CellAt(a + i)]
  <2>1. /\ (total - n) + i \in Len(data) .. total - 1
        /\ b + ((total - n) + i) = (a + i) + total
        /\ a + i \in Int
    BY DEF b
  <2>2. CellAt((a + i) + total) = CellAt(a + i)
    BY <2>1, CellTurn
  <2> QED BY <1>2, <2>1, <2>2
<1> QED BY <1>3 DEF Agree

LEMMA AgreeRead ==
  ASSUME NEW m, NEW k, NEW a \in Int, NEW n \in Nat, Agree(m, k, a, n),
         NEW f \in Nat, NEW j \in Nat, f + j <= n, NEW b, IsRead(k, b, a + f, j)
  PROVE  IsRead(m, b, a + f, j)
<1>1. ASSUME NEW i \in 1 .. j PROVE b[i] = m[CellAt((a + f) + (i - 1))]
  <2>1. f + (i - 1) \in 0 .. n - 1 /\ (a + f) + (i - 1) = a + (f + (i - 1))
    OBVIOUS
  <2> QED BY <2>1 DEF Agree, IsRead
<1> QED BY <1>1 DEF IsRead

LEMMA AgreeTrans ==
  ASSUME NEW m, NEW k, NEW l, NEW a, NEW n \in Nat, NEW j \in Nat, j <= n,
         Agree(m, k, a, n), Agree(k, l, a, j)
  PROVE  Agree(m, l, a, j)
  BY DEF Agree

(* A message whose lengths fit into their fields.                          *)
Coded == /\ meta = [i \in 1 .. Len(meta) |-> meta[i]] /\ Len(meta) < Power[MetaWidth]
         /\ pay = [i \in 1 .. Len(pay) |-> pay[i]] /\ Len(pay) < Power[PayWidth]
         /\ End <= Power[NextWidth]

MetaAt == SLOT_HEADER_SIZE
StartAt == MetaAt + Len(meta)
PayAt == StartAt + 1
EndAt == PayAt + Len(pay)

(* m holds the slot of the message at an offset of the stream.             *)
SlotHeld(m, a) ==
  /\ IsRead(m, LittleEndian(CellAt(a + SlotSize), NextWidth), a + 0, NextWidth)
  /\ IsRead(m, LittleEndian(Len(meta), MetaWidth), a + NextWidth, MetaWidth)
  /\ IsRead(m, LittleEndian(Len(pay), PayWidth), a + (NextWidth + MetaWidth), PayWidth)
  /\ IsRead(m, meta, a + MetaAt, Len(meta))
  /\ IsRead(m, <<SENTINEL_BYTE>>, a + StartAt, 1)
  /\ IsRead(m, pay, a + PayAt, Len(pay))
  /\ IsRead(m, <<SENTINEL_BYTE>>, a + EndAt, 1)

(* Where the fields of a slot lie.                                         *)
LEMMA Places ==
  ASSUME Sized
  PROVE  /\ total \in Nat \ {0} /\ SlotSize \in Nat /\ SlotSize < total
         /\ NextWidth \in Nat /\ MetaWidth \in Nat /\ PayWidth \in Nat
         /\ Len(meta) \in Nat /\ Len(pay) \in Nat
         /\ NextWidth + MetaWidth \in Nat
         /\ MetaAt = (NextWidth + MetaWidth) + PayWidth /\ MetaAt \in Nat
         /\ StartAt = MetaAt + Len(meta) /\ StartAt \in Nat
         /\ PayAt = StartAt + 1 /\ PayAt \in Nat
         /\ EndAt = PayAt + Len(pay) /\ EndAt \in Nat
         /\ SlotSize = EndAt + 1
         /\ NextWidth <= SlotSize /\ NextWidth + MetaWidth <= SlotSize
         /\ MetaAt <= SlotSize /\ StartAt <= SlotSize /\ PayAt <= SlotSize
         /\ EndAt <= SlotSize
  BY Widths DEF Sized, SlotSize, SLOT_HEADER_SIZE, MetaAt, StartAt, PayAt, EndAt

LEMMA Bytes ==
  ASSUME NEW v, NEW w \in Nat
  PROVE  /\ LittleEndian(v, w) = [i \in 1 .. w |-> LittleEndian(v, w)[i]]
         /\ Len(LittleEndian(v, w)) = w
  BY DEF LittleEndian

LEMMA WriteHolds ==
  ASSUME Sized, Coded, write_pos = start
  PROVE  /\ SlotHeld(CppEndWritten, start - HEADER_SIZE)
         /\ CppNextPos = CellAt((start - HEADER_SIZE) + SlotSize)
<1> DEFINE a == start - HEADER_SIZE
<1>1. a \in Int /\ write_pos = CellAt(a) /\ a + 0 = a
  BY StartIsCell, Places
<1> HIDE DEF a
<1>2. At(write_pos, a, 0)
  BY <1>1, Widths DEF At, Sized, End
<1>3. /\ total \in Nat \ {0} /\ a \in Int /\ SlotSize \in Nat /\ SlotSize < total
      /\ NextWidth \in Nat /\ MetaWidth \in Nat /\ PayWidth \in Nat
      /\ Len(meta) \in Nat /\ Len(pay) \in Nat
  BY <1>1, Places
<1>4. /\ 0 + SlotSize = SlotSize /\ 0 + NextWidth = NextWidth
      /\ NextWidth + MetaWidth \in Nat /\ MetaAt \in Nat /\ StartAt \in Nat
      /\ PayAt \in Nat /\ EndAt \in Nat
      /\ MetaAt = (NextWidth + MetaWidth) + PayWidth /\ StartAt = MetaAt + Len(meta)
      /\ PayAt = StartAt + 1 /\ EndAt = PayAt + Len(pay)
      /\ NextWidth <= SlotSize /\ NextWidth + MetaWidth <= SlotSize
      /\ MetaAt <= SlotSize /\ StartAt <= SlotSize /\ PayAt <= SlotSize
      /\ EndAt <= SlotSize /\ SlotSize <= SlotSize
  BY <1>3, Places
<1>5. CppNextPos = CellAt(a + SlotSize)
  <2>1. At(CppNextPos, a, 0 + SlotSize)
    BY <1>2, <1>3, <1>4, NextField DEF CppNextPos
  <2> QED BY <1>4, <2>1 DEF At
<1>6. At(CppMetaSizePos, a, NextWidth)
  <2>1. At(CppMetaSizePos, a, 0 + NextWidth)
    BY <1>2, <1>3, <1>4, NextField DEF CppMetaSizePos
  <2> QED BY <1>4, <2>1
<1>7. At(CppPaySizePos, a, NextWidth + MetaWidth)
  BY <1>3, <1>4, <1>6, NextField DEF CppPaySizePos
<1>8. At(CppMetaPos, a, MetaAt)
  BY <1>3, <1>4, <1>7, NextField DEF CppMetaPos
<1>9. At(CppStartPos, a, StartAt)
  BY <1>3, <1>4, <1>8, NextField DEF CppStartPos
<1>10. At(CppPayPos, a, PayAt)
  BY <1>3, <1>4, <1>9, NextField DEF CppPayPos
<1>11. At(CppEndPos, a, EndAt)
  BY <1>3, <1>4, <1>10, NextField DEF CppEndPos
<1>12. \A v : /\ LittleEndian(v, NextWidth) = [i \in 1 .. NextWidth |-> LittleEndian(v, NextWidth)[i]]
              /\ LittleEndian(v, MetaWidth) = [i \in 1 .. MetaWidth |-> LittleEndian(v, MetaWidth)[i]]
              /\ LittleEndian(v, PayWidth) = [i \in 1 .. PayWidth |-> LittleEndian(v, PayWidth)[i]]
              /\ Len(LittleEndian(v, NextWidth)) = NextWidth
              /\ Len(LittleEndian(v, MetaWidth)) = MetaWidth
              /\ Len(LittleEndian(v, PayWidth)) = PayWidth
  BY <1>3, Bytes
<1>13. /\ <<SENTINEL_BYTE>> = [i \in 1 .. 1 |-> <<SENTINEL_BYTE>>[i]]
       /\ Len(<<SENTINEL_BYTE>>) = 1 /\ 1 \in Nat
  OBVIOUS
<1>14. /\ NextWidth \in 0 .. total /\ MetaWidth \in 0 .. total /\ PayWidth \in 0 .. total
       /\ Len(meta) \in 0 .. total /\ Len(pay) \in 0 .. total /\ 1 \in 0 .. total
       /\ NextWidth + MetaWidth < total /\ (NextWidth + MetaWidth) + PayWidth < total
       /\ MetaAt + Len(meta) < total /\ StartAt + 1 < total /\ PayAt + Len(pay) < total
       /\ EndAt + 1 < total
       /\ a + NextWidth \in Int /\ a + (NextWidth + MetaWidth) \in Int /\ a + MetaAt \in Int
       /\ a + StartAt \in Int /\ a + PayAt \in Int /\ a + EndAt \in Int /\ a + 0 \in Int
  BY <1>3, <1>4, Places
<1>15. /\ CppMetaSizePos = CellAt(a + NextWidth)
       /\ CppPaySizePos = CellAt(a + (NextWidth + MetaWidth))
       /\ CppMetaPos = CellAt(a + MetaAt) /\ CppStartPos = CellAt(a + StartAt)
       /\ CppPayPos = CellAt(a + PayAt) /\ CppEndPos = CellAt(a + EndAt)
  BY <1>6, <1>7, <1>8, <1>9, <1>10, <1>11 DEF At
<1>16. IsRead(CppNextWritten, LittleEndian(CppNextPos, NextWidth), a + 0, NextWidth)
  <2>1. CppNextWritten = Region!write_bytes(mem, CellAt(a + 0), LittleEndian(CppNextPos, NextWidth))
    BY <1>1 DEF CppNextWritten
  <2> QED BY <1>3, <1>12, <1>14, <2>1, PutRead
<1>17. /\ IsRead(CppMetaSizeWritten, LittleEndian(Len(meta), MetaWidth), a + NextWidth, MetaWidth)
       /\ Agree(CppMetaSizeWritten, CppNextWritten, a, NextWidth)
  BY <1>3, <1>12, <1>14, <1>15, PutRead, PutKeeps DEF CppMetaSizeWritten
<1>18. /\ IsRead(CppPaySizeWritten, LittleEndian(Len(pay), PayWidth), a + (NextWidth + MetaWidth), PayWidth)
       /\ Agree(CppPaySizeWritten, CppMetaSizeWritten, a, NextWidth + MetaWidth)
  BY <1>3, <1>4, <1>12, <1>14, <1>15, PutRead, PutKeeps DEF CppPaySizeWritten
<1>19. /\ IsRead(CppMetaWritten, meta, a + MetaAt, Len(meta))
       /\ Agree(CppMetaWritten, CppPaySizeWritten, a, MetaAt)
  BY <1>3, <1>4, <1>14, <1>15, PutRead, PutKeeps DEF CppMetaWritten, Coded
<1>20. /\ IsRead(CppStartWritten, <<SENTINEL_BYTE>>, a + StartAt, 1)
       /\ Agree(CppStartWritten, CppMetaWritten, a, StartAt)
  BY <1>3, <1>4, <1>13, <1>14, <1>15, PutRead, PutKeeps DEF CppStartWritten
<1>21. /\ IsRead(CppPayWritten, pay, a + PayAt, Len(pay))
       /\ Agree(CppPayWritten, CppStartWritten, a, PayAt)
  BY <1>3, <1>4, <1>14, <1>15, PutRead, PutKeeps DEF CppPayWritten, Coded
<1>22. /\ IsRead(CppEndWritten, <<SENTINEL_BYTE>>, a + EndAt, 1)
       /\ Agree(CppEndWritten, CppPayWritten, a, EndAt)
  BY <1>3, <1>4, <1>13, <1>14, <1>15, PutRead, PutKeeps DEF CppEndWritten
<1>23. /\ NextWidth <= NextWidth + MetaWidth /\ NextWidth + MetaWidth <= MetaAt
       /\ MetaAt <= StartAt /\ StartAt <= PayAt /\ PayAt <= EndAt
  BY <1>3, <1>4
<1>24. Agree(CppEndWritten, CppStartWritten, a, PayAt)
  BY <1>4, <1>21, <1>22, <1>23, AgreeTrans
<1>25. Agree(CppEndWritten, CppMetaWritten, a, StartAt)
  BY <1>4, <1>20, <1>23, <1>24, AgreeTrans
<1>26. Agree(CppEndWritten, CppPaySizeWritten, a, MetaAt)
  BY <1>4, <1>19, <1>23, <1>25, AgreeTrans
<1>27. Agree(CppEndWritten, CppMetaSizeWritten, a, NextWidth + MetaWidth)
  BY <1>4, <1>18, <1>23, <1>26, AgreeTrans
<1>28. Agree(CppEndWritten, CppNextWritten, a, NextWidth)
  BY <1>3, <1>4, <1>17, <1>23, <1>27, AgreeTrans
<1>29. IsRead(CppEndWritten, LittleEndian(CppNextPos, NextWidth), a + 0, NextWidth)
  <2>1. 0 + NextWidth <= NextWidth /\ 0 \in Nat
    BY <1>3
  <2> QED BY <1>3, <1>16, <1>28, <2>1, AgreeRead
<1>30. IsRead(CppEndWritten, LittleEndian(Len(meta), MetaWidth), a + NextWidth, MetaWidth)
  <2>1. NextWidth + MetaWidth <= NextWidth + MetaWidth
    BY <1>3
  <2> QED BY <1>3, <1>4, <1>17, <1>27, <2>1, AgreeRead
<1>31. IsRead(CppEndWritten, LittleEndian(Len(pay), PayWidth), a + (NextWidth + MetaWidth), PayWidth)
  <2>1. (NextWidth + MetaWidth) + PayWidth <= MetaAt
    BY <1>3, <1>4
  <2> QED BY <1>3, <1>4, <1>18, <1>26, <2>1, AgreeRead
<1>32. IsRead(CppEndWritten, meta, a + MetaAt, Len(meta))
  <2>1. MetaAt + Len(meta) <= StartAt
    BY <1>3, <1>4
  <2> QED BY <1>3, <1>4, <1>19, <1>25, <2>1, AgreeRead
<1>33. IsRead(CppEndWritten, <<SENTINEL_BYTE>>, a + StartAt, 1)
  <2>1. StartAt + 1 <= PayAt
    BY <1>4
  <2> QED BY <1>3, <1>4, <1>13, <1>20, <1>24, <2>1, AgreeRead
<1>34. IsRead(CppEndWritten, pay, a + PayAt, Len(pay))
  <2>1. PayAt + Len(pay) <= EndAt
    BY <1>3, <1>4
  <2> QED BY <1>3, <1>4, <1>21, <1>22, <2>1, AgreeRead
<1>35. SlotHeld(CppEndWritten, a)
  BY <1>5, <1>22, <1>29, <1>30, <1>31, <1>32, <1>33, <1>34 DEF SlotHeld
<1> QED BY <1>5, <1>35 DEF a

-----------------------------------------------------------------------------
(* Both ways of reading n bytes follow the stream across the end.          *)
LEMMA CppBytes ==
  ASSUME total \in Nat \ {0}, NEW o \in Int, NEW n \in 0 .. total,
         NEW b, b = Region!read_bytes(mem, CellAt(o), n)
  PROVE  IsRead(mem, b, o, n)
<1> DEFINE p == CellAt(o)
<1>1. p \in HEADER_SIZE .. End - 1 /\ HEADER_SIZE \in Nat /\ End = HEADER_SIZE + total
  <2>1. 0 \in 0 .. total - 1
    OBVIOUS
  <2> QED BY <2>1, Step, Widths DEF End
<1> HIDE DEF p
<1>2. Region!normalize_abs(p) = p
  BY <1>1 DEF Region!normalize_abs, Region!data_end_abs
<1>3. b = [i \in 1 .. n |-> IF p + (i - 1) < HEADER_SIZE + total
                            THEN mem[p + (i - 1)]
                            ELSE mem[HEADER_SIZE + (p + ((i - 1) - (HEADER_SIZE + total)))]]
  <2>1. b = Region!read_bytes(mem, p, n)
    BY DEF p
  <2> QED BY <1>2, <2>1 DEF Region!read_bytes, Region!data_end_abs, Region!data_begin_abs
<1>4. ASSUME NEW i \in 1 .. n PROVE b[i] = mem[CellAt(o + (i - 1))]
  <2> DEFINE c == CellAt(o + (i - 1))
  <2>1. i - 1 \in 0 .. total - 1 /\ i \in Nat
    OBVIOUS
  <2>2. c = IF p + (i - 1) < End THEN p + (i - 1) ELSE (p + (i - 1)) - total
    BY <2>1, Step DEF p
  <2> HIDE DEF c
  <2>3. CASE p + (i - 1) < HEADER_SIZE + total
    <3>1. c = p + (i - 1)
      BY <1>1, <2>1, <2>2, <2>3
    <3> QED BY <1>3, <2>3, <3>1 DEF c
  <2>4. CASE ~(p + (i - 1) < HEADER_SIZE + total)
    <3>1. c = HEADER_SIZE + (p + ((i - 1) - (HEADER_SIZE + total)))
      BY <1>1, <2>1, <2>2, <2>4
    <3> QED BY <1>3, <2>4, <3>1 DEF c
  <2> QED BY <2>3, <2>4
<1>5. b = [i \in 1 .. n |-> b[i]] /\ Len(b) = n
  BY <1>3
<1> QED BY <1>4, <1>5 DEF IsRead

LEMMA PyBytes ==
  ASSUME total \in Nat \ {0}, NEW o \in Int, NEW n \in 0 .. total,
         NEW b, b = _read_bytes(CellAt(o), n)
  PROVE  IsRead(mem, b, o, n)
<1> DEFINE p == CellAt(o)
<1>1. p \in HEADER_SIZE .. End - 1 /\ HEADER_SIZE \in Nat /\ End = HEADER_SIZE + total
  <2>1. 0 \in 0 .. total - 1
    OBVIOUS
  <2> QED BY <2>1, Step, Widths DEF End
<1>0. b = _read_bytes(p, n)
  OBVIOUS
<1> HIDE DEF p
<1>2. ASSUME NEW i \in 1 .. n
      PROVE  CellAt(o + (i - 1)) = IF p + (i - 1) < End THEN p + (i - 1)
                                   ELSE (p + (i - 1)) - total
  <2>1. i - 1 \in 0 .. total - 1
    OBVIOUS
  <2> QED BY <2>1, Step DEF p
<1>3. CASE p + n <= End
  <2>1. b = [i \in 1 .. n |-> mem[p + (i - 1)]]
    BY <1>3, <1>0 DEF _read_bytes
  <2>2. ASSUME NEW i \in 1 .. n PROVE b[i] = mem[CellAt(o + (i - 1))]
    <3>1. p + (i - 1) = CellAt(o + (i - 1))
      BY <1>1, <1>2, <1>3
    <3> QED BY <2>1, <3>1
  <2>3. b = [i \in 1 .. n |-> b[i]] /\ Len(b) = n
    BY <2>1
  <2> QED BY <2>2, <2>3 DEF IsRead
<1>4. CASE ~(p + n <= End)
  <2> DEFINE k == End - p
  <2> DEFINE s == [i \in 1 .. k |-> mem[p + (i - 1)]]
  <2> DEFINE t == [i \in 1 .. n - k |-> mem[HEADER_SIZE + (i - 1)]]
  <2> DEFINE S == {mem[c] : c \in HEADER_SIZE .. End - 1}
  <2>1. b = s \o t
    BY <1>4, <1>0 DEF _read_bytes
  <2>2. k \in Nat /\ n - k \in Nat /\ k <= n
    BY <1>1, <1>4
  <2>3. s \in Seq(S) /\ Len(s) = k
    <3>1. \A i \in 1 .. k : p + (i - 1) \in HEADER_SIZE .. End - 1
      BY <1>1
    <3>2. s \in [1 .. k -> S]
      BY <3>1
    <3> HIDE DEF S, k
    <3> QED BY <2>2, <3>2
  <2>4. t \in Seq(S) /\ Len(t) = n - k
    <3>1. \A i \in 1 .. n - k : HEADER_SIZE + (i - 1) \in HEADER_SIZE .. End - 1
      BY <1>1
    <3>2. t \in [1 .. n - k -> S]
      BY <3>1
    <3> HIDE DEF S, k
    <3> QED BY <2>2, <3>2
  <2>5. /\ b \in Seq(S) /\ Len(b) = n
        /\ \A i \in 1 .. n : b[i] = IF i <= k THEN s[i] ELSE t[i - k]
    <3> HIDE DEF s, t, S
    <3>1. Len(s) + Len(t) = n
      BY <1>1, <2>2, <2>3, <2>4
    <3>2. /\ s \o t \in Seq(S) /\ Len(s \o t) = Len(s) + Len(t)
          /\ \A i \in 1 .. Len(s) + Len(t) :
               (s \o t)[i] = IF i <= Len(s) THEN s[i] ELSE t[i - Len(s)]
      BY <2>3, <2>4, ConcatProperties
    <3> QED BY <2>1, <2>3, <3>1, <3>2
  <2>6. ASSUME NEW i \in 1 .. n PROVE b[i] = mem[CellAt(o + (i - 1))]
    <3>1. CASE i <= k
      <4>1. i \in 1 .. k /\ p + (i - 1) = CellAt(o + (i - 1))
        BY <1>1, <1>2, <2>2, <3>1
      <4> QED BY <2>5, <3>1, <4>1
    <3>2. CASE ~(i <= k)
      <4>1. i - k \in 1 .. n - k /\ HEADER_SIZE + ((i - k) - 1) = CellAt(o + (i - 1))
        BY <1>1, <1>2, <2>2, <3>2
      <4> QED BY <2>5, <3>2, <4>1
    <3> QED BY <3>1, <3>2
  <2>7. b = [i \in 1 .. n |-> b[i]]
    <3> HIDE DEF s, t, S, k
    <3>1. b \in [1 .. n -> S]
      BY <2>5
    <3> QED BY <3>1
  <2> QED BY <2>5, <2>6, <2>7 DEF IsRead
<1> QED BY <1>3, <1>4

(* A field held at a place is what either reads there.                     *)
LEMMA FieldRead ==
  ASSUME total \in Nat \ {0}, NEW a \in Int, NEW f \in Nat, NEW n \in 0 .. total,
         NEW b, IsRead(mem, b, a + f, n), NEW p, At(p, a, f)
  PROVE  Region!read_bytes(mem, p, n) = b /\ _read_bytes(p, n) = b
<1> DEFINE o == a + f
<1>1. o \in Int /\ p = CellAt(o) /\ IsRead(mem, b, o, n)
  BY DEF At
<1> HIDE DEF o
<1>2. IsRead(mem, Region!read_bytes(mem, CellAt(o), n), o, n)
  BY <1>1, CppBytes
<1>3. IsRead(mem, _read_bytes(CellAt(o), n), o, n)
  BY <1>1, PyBytes
<1> QED BY <1>1, <1>2, <1>3, SameBytes

LEMMA SameNormal ==
  ASSUME NEW p PROVE _normalize_pos(p) = Region!normalize_abs(p)
  BY DEF _normalize_pos, Region!normalize_abs, End, Region!data_end_abs,
         Region!data_begin_abs

(* The slot of the message, as a reader should find it.                    *)
Sound(slot, a) ==
  /\ slot.next = CellAt(a + SlotSize)
  /\ slot.metadata = meta /\ slot.payload = pay
  /\ slot.start_sentinel = <<SENTINEL_BYTE>>
  /\ slot.end_sentinel = <<SENTINEL_BYTE>>

(* The numbers in the header are read as they were written.                *)
LEMMA Numbers ==
  ASSUME Sized, Coded, NEW a \in Int
  PROVE  /\ FromLittleEndian(LittleEndian(Len(meta), MetaWidth)) = Len(meta)
         /\ FromLittleEndian(LittleEndian(Len(pay), PayWidth)) = Len(pay)
         /\ FromLittleEndian(LittleEndian(CellAt(a + SlotSize), NextWidth))
              = CellAt(a + SlotSize)
<1>1. /\ total \in Nat \ {0} /\ MetaWidth \in Nat /\ PayWidth \in Nat /\ NextWidth \in Nat
      /\ Len(meta) \in Nat /\ Len(pay) \in Nat
      /\ Len(meta) < Power[MetaWidth] /\ Len(pay) < Power[PayWidth]
  BY Places DEF Coded
<1>2. CellAt(a + SlotSize) \in Nat /\ CellAt(a + SlotSize) < Power[NextWidth]
  <2> DEFINE o == a + SlotSize
  <2>1. o \in Int /\ 0 \in 0 .. total - 1
    <3>1. SlotSize \in Nat
      BY Places
    <3> QED BY <1>1, <3>1
  <2> HIDE DEF o
  <2>2. CellAt(o) \in HEADER_SIZE .. End - 1
    BY <1>1, <2>1, Step
  <2>3. Power[NextWidth] \in Nat /\ HEADER_SIZE \in Nat /\ End \in Nat
    <3>1. Power[NextWidth] \in Nat
      BY <1>1, Powers
    <3>2. HEADER_SIZE \in Nat
      BY Widths
    <3> QED BY <1>1, <3>1, <3>2 DEF End
  <2> QED BY <2>2, <2>3 DEF o, Coded
<1> QED BY <1>1, <1>2, DecodeEncode

(* What both bindings read at a position.                                  *)
Reads(p, n, b) == Region!read_bytes(mem, p, n) = b /\ _read_bytes(p, n) = b

(* The positions of a reader from the beginning of a slot on: each field   *)
(* is at its place, and both bindings read it.                             *)
LEMMA Walk ==
  ASSUME Sized, Coded, NEW a \in Int, SlotHeld(mem, a), At(read_pos, a, 0),
         NEW p1, p1 = Region!normalize_abs(read_pos + NextWidth),
         NEW p2, p2 = Region!normalize_abs(p1 + MetaWidth),
         NEW p3, p3 = Region!normalize_abs(p2 + PayWidth),
         NEW p4, p4 = Region!normalize_abs(p3 + Len(meta)),
         NEW p5, p5 = Region!normalize_abs(p4 + 1),
         NEW p6, p6 = Region!normalize_abs(p5 + Len(pay))
  PROVE  /\ Reads(read_pos, NextWidth, LittleEndian(CellAt(a + SlotSize), NextWidth))
         /\ Reads(p1, MetaWidth, LittleEndian(Len(meta), MetaWidth))
         /\ Reads(p2, PayWidth, LittleEndian(Len(pay), PayWidth))
         /\ Reads(p3, Len(meta), meta)
         /\ Reads(p4, 1, <<SENTINEL_BYTE>>)
         /\ Reads(p5, Len(pay), pay)
         /\ Reads(p6, 1, <<SENTINEL_BYTE>>)
<1>1. /\ total \in Nat \ {0} /\ SlotSize \in Nat /\ SlotSize < total
      /\ NextWidth \in Nat /\ MetaWidth \in Nat /\ PayWidth \in Nat
      /\ Len(meta) \in Nat /\ Len(pay) \in Nat
  BY Places
<1>2. /\ 0 + NextWidth = NextWidth /\ 0 \in Nat /\ 1 \in Nat
      /\ NextWidth + MetaWidth \in Nat /\ MetaAt \in Nat /\ StartAt \in Nat
      /\ PayAt \in Nat /\ EndAt \in Nat
      /\ MetaAt = (NextWidth + MetaWidth) + PayWidth /\ StartAt = MetaAt + Len(meta)
      /\ PayAt = StartAt + 1 /\ EndAt = PayAt + Len(pay)
      /\ NextWidth <= SlotSize /\ NextWidth + MetaWidth <= SlotSize
      /\ MetaAt <= SlotSize /\ StartAt <= SlotSize /\ PayAt <= SlotSize
      /\ EndAt <= SlotSize
  BY <1>1, Places
<1>3. /\ NextWidth \in 0 .. total /\ MetaWidth \in 0 .. total /\ PayWidth \in 0 .. total
      /\ Len(meta) \in 0 .. total /\ Len(pay) \in 0 .. total /\ 1 \in 0 .. total
  BY <1>1, <1>2, Places
<1>4. At(p1, a, NextWidth)
  <2>1. At(p1, a, 0 + NextWidth)
    BY <1>1, <1>2, NextField
  <2> QED BY <1>2, <2>1
<1>5. At(p2, a, NextWidth + MetaWidth)
  BY <1>1, <1>2, <1>4, NextField
<1>6. At(p3, a, MetaAt)
  BY <1>1, <1>2, <1>5, NextField
<1>7. At(p4, a, StartAt)
  BY <1>1, <1>2, <1>6, NextField
<1>8. At(p5, a, PayAt)
  BY <1>1, <1>2, <1>7, NextField
<1>9. At(p6, a, EndAt)
  BY <1>1, <1>2, <1>8, NextField
<1>10. \A f \in Nat, n \in 0 .. total : \A b, p :
         IsRead(mem, b, a + f, n) /\ At(p, a, f) => Reads(p, n, b)
  BY <1>1, FieldRead DEF Reads
<1> QED BY <1>1, <1>2, <1>3, <1>4, <1>5, <1>6, <1>7, <1>8, <1>9, <1>10 DEF SlotHeld

LEMMA CppRead ==
  ASSUME Sized, Coded, NEW a \in Int, SlotHeld(mem, a), At(read_pos, a, 0)
  PROVE  Sound(CppReadSlot, a)
<1> DEFINE p1 == Region!normalize_abs(read_pos + NextWidth)
<1> DEFINE p2 == Region!normalize_abs(p1 + MetaWidth)
<1> DEFINE p3 == Region!normalize_abs(p2 + PayWidth)
<1> DEFINE p4 == Region!normalize_abs(p3 + Len(meta))
<1> DEFINE p5 == Region!normalize_abs(p4 + 1)
<1> DEFINE p6 == Region!normalize_abs(p5 + Len(pay))
<1>1. /\ Reads(read_pos, NextWidth, LittleEndian(CellAt(a + SlotSize), NextWidth))
      /\ Reads(p1, MetaWidth, LittleEndian(Len(meta), MetaWidth))
      /\ Reads(p2, PayWidth, LittleEndian(Len(pay), PayWidth))
      /\ Reads(p3, Len(meta), meta)
      /\ Reads(p4, 1, <<SENTINEL_BYTE>>)
      /\ Reads(p5, Len(pay), pay)
      /\ Reads(p6, 1, <<SENTINEL_BYTE>>)
  <2> HIDE DEF p1, p2, p3, p4, p5, p6
  <2>1. /\ p1 = Region!normalize_abs(read_pos + NextWidth)
        /\ p2 = Region!normalize_abs(p1 + MetaWidth)
        /\ p3 = Region!normalize_abs(p2 + PayWidth)
        /\ p4 = Region!normalize_abs(p3 + Len(meta))
        /\ p5 = Region!normalize_abs(p4 + 1)
        /\ p6 = Region!normalize_abs(p5 + Len(pay))
    BY DEF p1, p2, p3, p4, p5, p6
  <2> QED BY <2>1, Walk
<1>2. /\ FromLittleEndian(Region!read_bytes(mem, read_pos, NextWidth)) = CellAt(a + SlotSize)
      /\ FromLittleEndian(Region!read_bytes(mem, p1, MetaWidth)) = Len(meta)
      /\ FromLittleEndian(Region!read_bytes(mem, p2, PayWidth)) = Len(pay)
      /\ Region!read_bytes(mem, p3, Len(meta)) = meta
      /\ Region!read_bytes(mem, p4, 1) = <<SENTINEL_BYTE>>
      /\ Region!read_bytes(mem, p5, Len(pay)) = pay
      /\ Region!read_bytes(mem, p6, 1) = <<SENTINEL_BYTE>>
  <2> HIDE DEF p1, p2, p3, p4, p5, p6
  <2> QED BY <1>1, Numbers DEF Reads
<1> QED BY <1>2 DEF CppReadSlot, Sound

LEMMA PyRead ==
  ASSUME Sized, Coded, NEW a \in Int, SlotHeld(mem, a), At(read_pos, a, 0)
  PROVE  Sound(PyReadSlot, a)
<1> DEFINE p1 == _normalize_pos(read_pos + NextWidth)
<1> DEFINE p2 == _normalize_pos(p1 + MetaWidth)
<1> DEFINE p3 == _normalize_pos(p2 + PayWidth)
<1> DEFINE p4 == _normalize_pos(p3 + Len(meta))
<1> DEFINE p5 == _normalize_pos(p4 + 1)
<1> DEFINE p6 == _normalize_pos(p5 + Len(pay))
<1>1. /\ Reads(read_pos, NextWidth, LittleEndian(CellAt(a + SlotSize), NextWidth))
      /\ Reads(p1, MetaWidth, LittleEndian(Len(meta), MetaWidth))
      /\ Reads(p2, PayWidth, LittleEndian(Len(pay), PayWidth))
      /\ Reads(p3, Len(meta), meta)
      /\ Reads(p4, 1, <<SENTINEL_BYTE>>)
      /\ Reads(p5, Len(pay), pay)
      /\ Reads(p6, 1, <<SENTINEL_BYTE>>)
  <2> HIDE DEF p1, p2, p3, p4, p5, p6
  <2>1. /\ p1 = Region!normalize_abs(read_pos + NextWidth)
        /\ p2 = Region!normalize_abs(p1 + MetaWidth)
        /\ p3 = Region!normalize_abs(p2 + PayWidth)
        /\ p4 = Region!normalize_abs(p3 + Len(meta))
        /\ p5 = Region!normalize_abs(p4 + 1)
        /\ p6 = Region!normalize_abs(p5 + Len(pay))
    BY SameNormal DEF p1, p2, p3, p4, p5, p6
  <2> QED BY <2>1, Walk
<1>2. /\ FromLittleEndian(_read_bytes(read_pos, NextWidth)) = CellAt(a + SlotSize)
      /\ FromLittleEndian(_read_bytes(p1, MetaWidth)) = Len(meta)
      /\ FromLittleEndian(_read_bytes(p2, PayWidth)) = Len(pay)
      /\ _read_bytes(p3, Len(meta)) = meta
      /\ _read_bytes(p4, 1) = <<SENTINEL_BYTE>>
      /\ _read_bytes(p5, Len(pay)) = pay
      /\ _read_bytes(p6, 1) = <<SENTINEL_BYTE>>
  <2> HIDE DEF p1, p2, p3, p4, p5, p6
  <2> QED BY <1>1, Numbers DEF Reads
<1> QED BY <1>2 DEF PyReadSlot, Sound

(* A field of a copy of the slot is that field of the slot.                *)
LEMMA Cut ==
  ASSUME NEW m, NEW s, NEW a \in Int, NEW size \in Nat, IsRead(m, s, a, size),
         NEW f \in Nat, NEW n \in Nat, f + n <= size,
         NEW b, IsRead(m, b, a + f, n)
  PROVE  SubSeq(s, f + 1, f + n) = b
<1> DEFINE c == SubSeq(s, f + 1, f + n)
<1> DEFINE S == {s[i] : i \in 1 .. size}
<1>1. \A i \in f + 1 .. f + n : s[i] \in S
  OBVIOUS
<1>2. /\ c \in Seq(S) /\ Len(c) = IF f + 1 <= f + n THEN (f + n) - (f + 1) + 1 ELSE 0
      /\ \A i \in 1 .. (f + n) - (f + 1) + 1 : c[i] = s[(f + 1) + i - 1]
  <2> HIDE DEF S
  <2> QED BY <1>1, SubSeqProperties
<1> HIDE DEF c, S
<1>3. Len(c) = n /\ \A i \in 1 .. n : c[i] = s[f + i]
  <2>1. \A i \in 1 .. n : i \in 1 .. (f + n) - (f + 1) + 1 /\ (f + 1) + i - 1 = f + i
    OBVIOUS
  <2>2. Len(c) = n
    BY <1>2
  <2> QED BY <1>2, <2>1, <2>2
<1>4. c = [i \in 1 .. n |-> c[i]]
  <2>1. c \in [1 .. n -> S]
    BY <1>2, <1>3
  <2> QED BY <2>1
<1>5. ASSUME NEW i \in 1 .. n PROVE c[i] = m[CellAt((a + f) + (i - 1))]
  <2>1. f + i \in 1 .. size /\ a + ((f + i) - 1) = (a + f) + (i - 1)
    OBVIOUS
  <2>2. s[f + i] = m[CellAt(a + ((f + i) - 1))]
    BY <2>1 DEF IsRead
  <2> QED BY <1>3, <2>1, <2>2
<1>6. IsRead(m, c, a + f, n)
  BY <1>3, <1>4, <1>5 DEF IsRead
<1> QED BY <1>6, SameBytes DEF c

LEMMA SnapshotRead ==
  ASSUME Sized, Coded, NEW a \in Int, SlotHeld(mem, a), At(read_pos, a, 0)
  PROVE  Sound(PySnapshotSlot, a)
<1> DEFINE next == CellAt(a + SlotSize)
<1> DEFINE slot_len == IF next >= read_pos THEN next - read_pos
                       ELSE (End - read_pos) + (next - HEADER_SIZE)
<1> DEFINE slot == _read_bytes(read_pos, SlotSize)
<1>1. /\ total \in Nat \ {0} /\ SlotSize \in Nat /\ SlotSize < total
      /\ NextWidth \in Nat /\ MetaWidth \in Nat /\ PayWidth \in Nat
      /\ Len(meta) \in Nat /\ Len(pay) \in Nat
  BY Places
<1>2. /\ NextWidth + MetaWidth \in Nat /\ MetaAt \in Nat /\ StartAt \in Nat
      /\ PayAt \in Nat /\ EndAt \in Nat /\ 1 \in Nat
      /\ MetaAt = (NextWidth + MetaWidth) + PayWidth /\ StartAt = MetaAt + Len(meta)
      /\ PayAt = StartAt + 1 /\ EndAt = PayAt + Len(pay) /\ SlotSize = EndAt + 1
  BY <1>1, Places
<1>3. read_pos = CellAt(a) /\ SlotSize \in 0 .. total /\ NextWidth \in 0 .. total
      /\ a + 0 = a /\ 0 \in Nat
  BY <1>1, <1>2 DEF At
<1>4. FromLittleEndian(_read_bytes(read_pos, NextWidth)) = next
  <2>1. _read_bytes(read_pos, NextWidth) = LittleEndian(next, NextWidth)
    BY <1>1, <1>3, FieldRead DEF SlotHeld
  <2> QED BY <2>1, Numbers
<1>5. slot_len = SlotSize
  <2>1. 0 < SlotSize /\ SlotSize \in 0 .. total - 1
    BY <1>1, <1>2
  <2>2. /\ read_pos \in HEADER_SIZE .. End - 1
        /\ next = IF read_pos + SlotSize < End THEN read_pos + SlotSize
                  ELSE (read_pos + SlotSize) - total
    BY <1>1, <1>3, <2>1, Step
  <2>3. HEADER_SIZE \in Nat /\ End = HEADER_SIZE + total
    BY Widths DEF End
  <2> HIDE DEF next
  <2> QED BY <1>1, <2>1, <2>2, <2>3
<1>6. IsRead(mem, slot, a, SlotSize)
  BY <1>1, <1>3, PyBytes
<1> HIDE DEF slot, slot_len, next
<1>7. \A f \in Nat, n \in Nat : \A b :
        f + n <= SlotSize /\ IsRead(mem, b, a + f, n) => SubSeq(slot, f + 1, f + n) = b
  BY <1>1, <1>6, Cut
<1>8. /\ SubSeq(slot, NextWidth + 1, NextWidth + MetaWidth) = LittleEndian(Len(meta), MetaWidth)
      /\ SubSeq(slot, (NextWidth + MetaWidth) + 1, (NextWidth + MetaWidth) + PayWidth)
           = LittleEndian(Len(pay), PayWidth)
      /\ SubSeq(slot, MetaAt + 1, MetaAt + Len(meta)) = meta
      /\ SubSeq(slot, StartAt + 1, StartAt + 1) = <<SENTINEL_BYTE>>
      /\ SubSeq(slot, PayAt + 1, PayAt + Len(pay)) = pay
      /\ SubSeq(slot, EndAt + 1, EndAt + 1) = <<SENTINEL_BYTE>>
  <2>1. /\ NextWidth + MetaWidth <= SlotSize /\ (NextWidth + MetaWidth) + PayWidth <= SlotSize
        /\ MetaAt + Len(meta) <= SlotSize /\ StartAt + 1 <= SlotSize
        /\ PayAt + Len(pay) <= SlotSize /\ EndAt + 1 <= SlotSize
    BY <1>1, <1>2
  <2> QED BY <1>1, <1>2, <1>7, <2>1 DEF SlotHeld
<1>9. /\ FromLittleEndian(SubSeq(slot, NextWidth + 1, NextWidth + MetaWidth)) = Len(meta)
      /\ FromLittleEndian(SubSeq(slot, (NextWidth + MetaWidth) + 1,
                                 (NextWidth + MetaWidth) + PayWidth)) = Len(pay)
  BY <1>8, Numbers
<1>10. slot = _read_bytes(read_pos, slot_len)
  BY <1>5 DEF slot
<1>11. PySnapshotSlot = [next |-> next, metadata |-> meta,
                         start_sentinel |-> <<SENTINEL_BYTE>>, payload |-> pay,
                         end_sentinel |-> <<SENTINEL_BYTE>>]
  BY <1>4, <1>8, <1>9, <1>10
  DEF PySnapshotSlot, slot_len, MetaAt, StartAt, PayAt, EndAt
<1> QED BY <1>11 DEF Sound, next

-----------------------------------------------------------------------------
(* Where the slot begins in the stream.                                    *)
Begin == start - HEADER_SIZE

Waiting == write_pos = start /\ read_pos = start /\ got = NotRead
Unread == /\ write_pos = CellAt(Begin + SlotSize) /\ SlotHeld(mem, Begin)
          /\ read_pos = start /\ got = NotRead
WasRead == /\ write_pos = CellAt(Begin + SlotSize) /\ SlotHeld(mem, Begin)
           /\ read_pos = write_pos /\ Sound(got, Begin)

TripInv == Sized /\ Coded /\ (Waiting \/ Unread \/ WasRead)

LEMMA NextElsewhere ==
  ASSUME Sized
  PROVE  CellAt(Begin + SlotSize) # start
<1>1. /\ total \in Nat \ {0} /\ SlotSize \in 0 .. total - 1 /\ SlotSize > 0
      /\ Begin \in Int /\ CellAt(Begin) = start /\ start \in HEADER_SIZE .. End - 1
      /\ HEADER_SIZE \in Nat /\ End = HEADER_SIZE + total
  <2>1. SlotSize \in Nat /\ SlotSize < total /\ EndAt \in Nat /\ SlotSize = EndAt + 1
        /\ total \in Nat \ {0}
    BY Places
  <2>2. Begin \in Int /\ CellAt(Begin) = start
    BY StartIsCell DEF Begin
  <2>3. start \in HEADER_SIZE .. End - 1 /\ HEADER_SIZE \in Nat
    BY Widths DEF Sized
  <2> QED BY <2>1, <2>2, <2>3 DEF End
<1>2. CellAt(Begin + SlotSize) = IF CellAt(Begin) + SlotSize < End THEN CellAt(Begin) + SlotSize
                                 ELSE (CellAt(Begin) + SlotSize) - total
  BY <1>1, Step
<1> QED BY <1>1, <1>2

LEMMA InitTripInv == Init => TripInv
<1> SUFFICES ASSUME Init PROVE TripInv
  OBVIOUS
<1>1. Sized
  BY InitSlotInv DEF SlotInv
<1>2. PICK m \in MetaLens, n \in PayLens :
          /\ meta = [i \in 1 .. m |-> i % Base]
          /\ pay = [i \in 1 .. n |-> (i + 1) % Base]
  BY DEF Init
<1>3. m \in Nat /\ n \in Nat /\ m < Power[MetaWidth] /\ n < Power[PayWidth]
      /\ End <= Power[NextWidth]
  BY CodecAssumption DEF Init, End
<1>4. Len(meta) = m /\ Len(pay) = n
  BY <1>2, <1>3
<1>5. Coded
  BY <1>2, <1>3, <1>4 DEF Coded
<1>6. Waiting
  BY DEF Init, Waiting
<1> QED BY <1>1, <1>5, <1>6 DEF TripInv

LEMMA StepTripInv == TripInv /\ [Next]_vars => TripInv'
<1> SUFFICES ASSUME TripInv, [Next]_vars PROVE TripInv'
  OBVIOUS
<1>1. Sized /\ Coded /\ (Waiting \/ Unread \/ WasRead)
  BY DEF TripInv
<1>2. ASSUME write_pos = start, mem' = CppWriteSlot.mem,
             write_pos' = CppWriteSlot.write_pos,
             UNCHANGED <<total, start, read_pos, meta, pay, got>>
      PROVE  TripInv'
  <2>1. Waiting
    BY <1>1, <1>2, NextElsewhere DEF Unread, WasRead
  <2>2. /\ SlotHeld(mem', Begin) /\ write_pos' = CellAt(Begin + SlotSize)
        /\ IsMemory(mem')
    <3>1. mem' = CppEndWritten /\ write_pos' = CppNextPos
      BY <1>2 DEF CppWriteSlot
    <3>2. Written(CppEndWritten, PyEndWritten, start - HEADER_SIZE, SlotSize)
      BY <1>1, <1>2, SideBySide
    <3> QED BY <1>1, <1>2, <3>1, <3>2, WriteHolds DEF Begin, Written
  <2>3. SlotHeld(mem, Begin)' /\ write_pos' = CellAt(Begin + SlotSize)'
    BY <1>2, <2>2
    DEF SlotHeld, IsRead, Begin, CellAt, Layout!CellAt, Layout!data_begin_abs,
        SlotSize, SLOT_HEADER_SIZE, MetaAt, StartAt, PayAt, EndAt, LittleEndian
  <2>4. Sized'
    BY <1>1, <1>2, <2>2 DEF Sized, IsMemory, End, SlotSize, SLOT_HEADER_SIZE
  <2>5. Coded'
    BY <1>1, <1>2 DEF Coded, End
  <2>6. Unread'
    BY <1>2, <2>1, <2>3 DEF Unread, Waiting, NotRead
  <2> QED BY <2>4, <2>5, <2>6 DEF TripInv
<1>3. ASSUME NEW slot, write_pos # read_pos, got' = slot, read_pos' = slot.next,
             At(read_pos, Begin, 0) /\ SlotHeld(mem, Begin) => Sound(slot, Begin),
             UNCHANGED <<total, start, write_pos, mem, meta, pay>>
      PROVE  TripInv'
  <2>1. Unread
    BY <1>1, <1>3 DEF Waiting, WasRead
  <2>2. At(read_pos, Begin, 0)
    <3>1. Begin \in Int /\ CellAt(Begin) = start /\ start \in Int /\ Begin + 0 = Begin
      BY <1>1, StartIsCell, Widths DEF Begin, Sized, End
    <3> QED BY <2>1, <3>1 DEF Unread, At
  <2>3. Sound(slot, Begin) /\ read_pos' = write_pos
    BY <1>3, <2>1, <2>2 DEF Unread, Sound
  <2>4. /\ SlotHeld(mem, Begin)' /\ Sound(got, Begin)'
        /\ write_pos' = CellAt(Begin + SlotSize)'
    BY <1>3, <2>1, <2>3
    DEF Unread, SlotHeld, IsRead, Begin, CellAt, Layout!CellAt, Layout!data_begin_abs,
        SlotSize, SLOT_HEADER_SIZE, MetaAt, StartAt, PayAt, EndAt, LittleEndian, Sound
  <2>5. Sized' /\ Coded'
    BY <1>1, <1>3 DEF Sized, Coded, IsMemory, End, SlotSize, SLOT_HEADER_SIZE
  <2>6. WasRead'
    BY <1>3, <2>3, <2>4 DEF WasRead
  <2> QED BY <2>5, <2>6 DEF TripInv
<1>4. CASE WriteCpp
  BY <1>2, <1>4 DEF WriteCpp, Write
<1>5. CASE WritePy
  <2>1. CppWriteSlot = PyWriteSlot
    BY <1>1, <1>5, OneFormat DEF SameFormat, WritePy, Write
  <2> QED BY <1>2, <1>5, <2>1 DEF WritePy, Write
<1>6. Begin \in Int
  BY <1>1, StartIsCell DEF Begin
<1>7. CASE ReadCpp
  BY <1>1, <1>3, <1>6, <1>7, CppRead DEF ReadCpp, Read
<1>8. CASE ReadPy
  BY <1>1, <1>3, <1>6, <1>8, PyRead DEF ReadPy, Read
<1>9. CASE ReadPyCopy
  BY <1>1, <1>3, <1>6, <1>9, SnapshotRead DEF ReadPyCopy, Read
<1>10. CASE Done \/ UNCHANGED vars
  <2>1. UNCHANGED vars
    BY <1>10 DEF Done
  <2>2. Sized' /\ Coded'
    BY <1>1, <2>1 DEF vars, Sized, Coded, IsMemory, End, SlotSize, SLOT_HEADER_SIZE
  <2>3. (Waiting \/ Unread \/ WasRead)'
    BY <1>1, <2>1
    DEF vars, Waiting, Unread, WasRead, NotRead, SlotHeld, IsRead, Begin, CellAt,
        Layout!CellAt, Layout!data_begin_abs, SlotSize, SLOT_HEADER_SIZE, MetaAt,
        StartAt, PayAt, EndAt, LittleEndian, Sound
  <2> QED BY <2>2, <2>3 DEF TripInv
<1> QED BY <1>4, <1>5, <1>7, <1>8, <1>9, <1>10 DEF Next

(* A slot written by either language is read by every read path of both as *)
(* the message that was written, between two sentinels, and the reader is  *)
(* then at the writer: for every size of the region and every place in it, *)
(* and for every message whose lengths fit into their fields and whose     *)
(* slot leaves a byte free.                                                *)
THEOREM ReadAsWritten == Spec => []RoundTrip
<1>1. TripInv => RoundTrip
  BY DEF TripInv, Waiting, Unread, WasRead, Sound, RoundTrip
<1> QED BY <1>1, InitTripInv, StepTripInv, PTL DEF Spec
=============================================================================
