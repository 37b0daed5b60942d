------------------------------ MODULE RingState ------------------------------
(***************************************************************************)
(* The state every process attached to one ring shares (the 64-byte header *)
(* and the data region of the POSIX segment, the two POSIX semaphores of   *)
(* posix_sync), the control state of each producer and consumer handle,    *)
(* and the history the properties are stated over.  The language bindings  *)
(* (CppRing) extend this module with their operations.                     *)
(*                                                                         *)
(* A handle is one SharedRingBufferProducer or SharedRingBufferConsumer    *)
(* object, used by one thread.                                             *)
(***************************************************************************)
EXTENDS RingLayout, FiniteSets

CONSTANTS
  Producers, Consumers,       \* handles
  Msg,                        \* messages; each is pushed at most once
  Metadata, Payload,          \* the cells of each message
  Blocking,                   \* handles opened with blocking = true
  AutoUnlink,                 \* consumers opened with auto_unlink = true
  Timeouts,                   \* timeout arguments callers use
  MAX_METADATA_SIZE,
  MAX_SLOT_SIZE,
  SEM_VALUE_MAX,              \* largest value of a POSIX semaphore
  NoMsg

Handles == Producers \cup Consumers

(* timeout_ms = 0, > 0 and < 0; a "finite" one whose deadline has passed   *)
(* while the caller slept is "expired".                                    *)
TimeoutKinds == {"zero", "finite", "infinite"}

ASSUME RingAssumption ==
  /\ Producers \cap Consumers = {}
  /\ IsFiniteSet(Producers) /\ IsFiniteSet(Consumers)
  /\ Metadata \in [Msg -> Seq(Nat)]
  /\ Payload \in [Msg -> Seq(Nat)]
  /\ Blocking \subseteq Handles
  /\ AutoUnlink \subseteq Consumers
  /\ Timeouts \subseteq TimeoutKinds
  /\ MAX_METADATA_SIZE \in Nat /\ MAX_SLOT_SIZE \in Nat
  /\ SEM_VALUE_MAX \in Nat \ {0}
  /\ NoMsg \notin Msg

VARIABLES
  \* the segment
  write_pos, read_pos, active_producers, active_consumers, mem,
  \* the name still denotes the segment
  linked,
  \* semaphore values
  mutex_sem, wait_sem,
  \* the handles
  pc, registered, eos_received, msg, timeout,
  \* history
  outcome,      \* what push_raw told the caller about each message
  published,    \* slots in the order write_pos moved over them
  consumed,     \* what was read in each slot, in the order read_pos moved
  dropped       \* consumed slots whose pop_raw then failed

header == <<write_pos, read_pos, active_producers, active_consumers>>
sems == <<mutex_sem, wait_sem>>
handle == <<pc, registered, eos_received, msg, timeout>>
history == <<outcome, published, consumed, dropped>>
vars == <<header, mem, linked, sems, handle, history>>

Size(m) == slot_size(Metadata[m], Payload[m])

(* Offset of the stream of all slots ever written at which the next slot   *)
(* starts, and the one from which the next pop must read.                  *)
Written ==
  IF published = <<>> THEN 0
  ELSE LET last == published[Len(published)] IN last.at + Size(last.msg)
Drained ==
  IF Len(consumed) < Len(published) THEN published[Len(consumed) + 1].at
  ELSE Written
Used == Written - Drained
=============================================================================
