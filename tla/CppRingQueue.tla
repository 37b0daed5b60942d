---------------------------- MODULE CppRingQueue ----------------------------
(***************************************************************************)
(* The C++ ring implements RingQueue.  The abstract queue is the backlog   *)
(* of published slots; what is received is what pop_raw read out of the    *)
(* shared memory, so that a step of PopSlot maps to Get only if the memory *)
(* at read_pos held the oldest message of the backlog.                     *)
(***************************************************************************)
EXTENDS CppRing

Backlog == [i \in 1 .. Len(published) - Len(consumed) |->
              ItemOf(published[Len(consumed) + i].msg)]
WeightOfItem(item) == slot_size(item.metadata, item.payload)

Queue == INSTANCE RingQueue WITH
  Item <- {ItemOf(m) : m \in Msg},
  Weight <- WeightOfItem,
  Capacity <- total_data_bytes,
  queue <- Backlog,
  used <- Used,
  received <- consumed,
  producers <- registered \cap Producers,
  consumers <- registered \cap Consumers,
  ended <- eos_received

(* Every behaviour of the C++ ring is one of the bounded queue: slots come *)
(* out in the order they went in, intact and once, the ring never takes    *)
(* more than it has room for, and end of stream is seen only on an empty   *)
(* queue without producers.                                                *)
ImplementsQueue == Queue!QSpec
=============================================================================
