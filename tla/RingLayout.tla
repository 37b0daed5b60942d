----------------------------- MODULE RingLayout -----------------------------
(***************************************************************************)
(* The data region of the shared ring: absolute positions, wrap-around,    *)
(* free space, and the slot format, as cpp/ipc0cp/ring_buffer.cpp computes *)
(* them.  Pure operators, no state.                                        *)
(*                                                                         *)
(* A cell of the memory stands for one byte, except that each of the three *)
(* numeric fields of a slot header (8, 4 and 8 bytes in the code) takes    *)
(* one cell that holds the number; RingBytes models the fields byte by     *)
(* byte, wrapping inside a field included.                                 *)
(***************************************************************************)
EXTENDS Integers, Sequences

CONSTANTS HEADER_SIZE,        \* offset of the data region in the segment
          total_data_bytes    \* size of the data region

ASSUME LayoutAssumption == /\ HEADER_SIZE \in Nat
                           /\ total_data_bytes \in Nat \ {0}

SLOT_HEADER_SIZE == 3         \* next_pos, metadata_size, payload_size
SENTINEL_BYTE == 0

data_begin_abs == HEADER_SIZE
data_end_abs == HEADER_SIZE + total_data_bytes
Cells == data_begin_abs .. data_end_abs - 1

normalize_abs(abs_pos) ==
  IF abs_pos >= data_end_abs
  THEN data_begin_abs + ((abs_pos - data_begin_abs) % total_data_bytes)
  ELSE abs_pos

(* Mutant: the wrapped case counts from the wrong end. *)
available_space_Swapped(write_pos, read_pos) ==
  IF write_pos >= read_pos
  THEN (data_end_abs - write_pos) + (read_pos - data_begin_abs)
  ELSE (data_end_abs - read_pos) + (write_pos - data_begin_abs)

(* Free bytes between the two positions; the whole region when they are    *)
(* equal, since equal positions mean "empty".                              *)
available_space(write_pos, read_pos) ==
  IF write_pos >= read_pos
  THEN (data_end_abs - write_pos) + (read_pos - data_begin_abs)
  ELSE read_pos - write_pos

(* Mutant: the second memcpy starts at the beginning of data again.        *)
write_bytes_NoSkip(mem, pos, data) ==
  LET abs_pos == normalize_abs(pos)
      first_part == data_end_abs - abs_pos
  IN  [c \in Cells |->
         IF c >= abs_pos /\ c < abs_pos + Len(data)
         THEN data[c - abs_pos + 1]
         ELSE IF c - data_begin_abs + first_part < Len(data)
              THEN data[c - data_begin_abs + 1]
              ELSE mem[c]]

(* memcpy of data at pos, in one piece, or in two when it crosses the end. *)
write_bytes(mem, pos, data) ==
  LET abs_pos == normalize_abs(pos)
      first_part == data_end_abs - abs_pos
  IN  [c \in Cells |->
         IF c >= abs_pos /\ c < abs_pos + Len(data)
         THEN data[c - abs_pos + 1]
         ELSE IF c - data_begin_abs + first_part < Len(data)
              THEN data[c - data_begin_abs + first_part + 1]
              ELSE mem[c]]

read_bytes(mem, pos, length) ==
  LET abs_pos == normalize_abs(pos)
  IN  [i \in 1 .. length |->
         IF abs_pos + i - 1 < data_end_abs
         THEN mem[abs_pos + i - 1]
         ELSE mem[data_begin_abs + (abs_pos + i - 1 - data_end_abs)]]

read_uint(mem, pos) == read_bytes(mem, pos, 1)[1]

(* Where the byte at an offset of the stream of slots lies.                *)
CellAt(offset) == data_begin_abs + (offset % total_data_bytes)

(* Size of the slot of a message, and its cells in the order written.      *)
slot_size(metadata, payload) ==
  SLOT_HEADER_SIZE + Len(metadata) + 2 + Len(payload)

SlotCells(next_pos, metadata, payload) ==
  <<next_pos, Len(metadata), Len(payload)>>
    \o metadata \o <<SENTINEL_BYTE>> \o payload \o <<SENTINEL_BYTE>>

(* What a reader finds at read_pos: each field, current_pos being          *)
(* normalised after each of them as in pop_raw.                            *)
ReadSlot(mem, read_pos) ==
  LET size_pos  == normalize_abs(read_pos + 1)
      pay_pos   == normalize_abs(size_pos + 1)
      meta_pos  == normalize_abs(pay_pos + 1)
      meta_size == read_uint(mem, size_pos)
      pay_size  == read_uint(mem, pay_pos)
      start_pos == normalize_abs(meta_pos + meta_size)
      data_pos  == normalize_abs(start_pos + 1)
      end_pos   == normalize_abs(data_pos + pay_size)
  IN  [next |-> read_uint(mem, read_pos),
       metadata_size |-> meta_size,
       metadata |-> read_bytes(mem, meta_pos, meta_size),
       start_sentinel |-> read_uint(mem, start_pos),
       payload |-> read_bytes(mem, data_pos, pay_size),
       end_sentinel |-> read_uint(mem, end_pos)]
=============================================================================
