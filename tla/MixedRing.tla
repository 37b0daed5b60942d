------------------------------ MODULE MixedRing ------------------------------
(***************************************************************************)
(* python/ipc0cp/ring_buffer.py over posix_sync.py, and C++ and Python     *)
(* handles side by side on one segment: the two languages share the        *)
(* header, the slots and the two semaphores.  Where a step of a Python     *)
(* handle changes what the C++ one changes, it is the action of CppRing.   *)
(*                                                                         *)
(* A Python handle never sleeps without a deadline: it looks again after   *)
(* a millisecond, in the control state "wait_timed".  pop() moves read_pos *)
(* under the lock and parses the slot after it, in "parse"; it notifies    *)
(* the producers in a critical section of its own, in "notify".            *)
(***************************************************************************)
EXTENDS CppRing

CONSTANTS Python,         \* the Python handles
          NOTIFY_POSTS    \* posts of one notify_all

(* A consumer that is not to unlink the segment removes the names of the   *)
(* semaphores nevertheless, and what others then attach to is not modelled.*)
ASSUME MixedAssumption ==
  /\ Python \subseteq Handles
  /\ Python \cap Consumers \subseteq AutoUnlink
  /\ NOTIFY_POSTS \in Nat \ {0}

VARIABLES taken,    \* per consumer, the slot its pop took: where it starts
                    \* in the ring, and the copy of it, if there is one
          popped    \* per consumer, the object its pop is about to return

NothingTaken == [number |-> 0, pos |-> data_begin_abs, copy |-> {}]

mixedVars == <<vars, taken, popped>>

(* Posts until the semaphore is full, and never throws.                    *)
py_notify_all ==
  wait_sem' = IF wait_sem + NOTIFY_POSTS <= SEM_VALUE_MAX
              THEN wait_sem + NOTIFY_POSTS ELSE SEM_VALUE_MAX

-----------------------------------------------------------------------------
(***************************************************************************)
(* Waiting and attaching                                                   *)
(***************************************************************************)
PyWaitTimeout(h) ==
  /\ pc[h] = "wait_timed"
  /\ wait_sem = 0
  /\ Goto(h, "relock")
  /\ UNCHANGED <<header, mem, linked, sems, registered, eos_received, msg,
                 timeout, history>>

PyConsumerAttach(c) ==
  /\ pc[c] = "attach_cs"
  /\ active_consumers' = active_consumers + 1
  /\ registered' = registered \cup {c}
  /\ py_notify_all
  /\ Unlock
  /\ Goto(c, "idle")
  /\ UNCHANGED <<write_pos, read_pos, active_producers, mem, linked,
                 eos_received, msg, timeout, history>>

-----------------------------------------------------------------------------
(***************************************************************************)
(* push_raw                                                                *)
(***************************************************************************)
(* Only the metadata is limited, and nothing is taken for a marker.        *)
PyPushBegin(p, m, t) ==
  /\ pc[p] = "idle"
  /\ outcome[m] = "unsent"
  /\ IF Len(Metadata[m]) > MAX_METADATA_SIZE
     THEN /\ outcome' = [outcome EXCEPT ![m] = "failed"]
          /\ UNCHANGED <<pc, msg, timeout>>
     ELSE /\ outcome' = [outcome EXCEPT ![m] = "pushing"]
          /\ msg' = [msg EXCEPT ![p] = m]
          /\ timeout' = [timeout EXCEPT ![p] = t]
          /\ Goto(p, "count")
  /\ UNCHANGED <<header, mem, linked, sems, registered, eos_received,
                 published, consumed, dropped>>

(* Nobody to push to: wait for a notification, at most 10 ms, and look     *)
(* again.  The token it takes may be one meant for somebody else.          *)
PyCountWait(p) ==
  /\ pc[p] = "count"
  /\ mutex_sem > 0 /\ active_consumers = 0
  /\ p \in Blocking /\ timeout[p] # "zero"
  /\ Goto(p, "count_wait")
  /\ UNCHANGED <<header, mem, linked, sems, registered, eos_received, msg,
                 timeout, history>>

PyCountAgain(p) ==
  /\ pc[p] = "count_wait"
  /\ wait_sem' = IF wait_sem > 0 THEN wait_sem - 1 ELSE 0
  /\ Goto(p, "count")
  /\ UNCHANGED <<header, mem, linked, mutex_sem, registered, eos_received, msg,
                 timeout, history>>

(* Mutant: the room is not looked at again after the wait.                 *)
PyPushWrite_NoRoom(p) ==
  /\ pc[p] = "push_cs"
  /\ LET m == msg[p]
         next_pos == normalize_abs(write_pos + Size(m))
     IN  /\ mem' = write_bytes(mem, write_pos,
                               SlotCells(next_pos, Metadata[m], Payload[m]))
         /\ write_pos' = next_pos
         /\ published' = Append(published, [msg |-> m, at |-> Written])
  /\ py_notify_all
  /\ Unlock
  /\ PushEnd(p, "ok")
  /\ UNCHANGED <<read_pos, active_producers, active_consumers, linked,
                 registered, eos_received, consumed, dropped>>

PyPushWrite(p) ==
  /\ pc[p] = "push_cs"
  /\ HasRoom(msg[p])
  /\ LET m == msg[p]
         next_pos == normalize_abs(write_pos + Size(m))
     IN  /\ mem' = write_bytes(mem, write_pos,
                               SlotCells(next_pos, Metadata[m], Payload[m]))
         /\ write_pos' = next_pos
         /\ published' = Append(published, [msg |-> m, at |-> Written])
  /\ py_notify_all
  /\ Unlock
  /\ PushEnd(p, "ok")
  /\ UNCHANGED <<read_pos, active_producers, active_consumers, linked,
                 registered, eos_received, consumed, dropped>>

(* Without a deadline, only a ring that nobody can drain is given up.      *)
GivesUp(p) ==
  \/ timeout[p] # "infinite"
  \/ active_consumers = 0
  \/ p \notin Blocking

(* Mutant: the loop is left, and True returned, as after a write.          *)
PyPushFail_AsPushed(p) ==
  /\ pc[p] = "push_cs"
  /\ ~HasRoom(msg[p])
  /\ GivesUp(p)
  /\ Unlock
  /\ PushEnd(p, "ok")
  /\ UNCHANGED <<header, mem, linked, wait_sem, registered, eos_received,
                 published, consumed, dropped>>

PyPushFail(p) ==
  /\ pc[p] = "push_cs"
  /\ ~HasRoom(msg[p])
  /\ GivesUp(p)
  /\ Unlock
  /\ PushEnd(p, "failed")
  /\ UNCHANGED <<header, mem, linked, wait_sem, registered, eos_received,
                 published, consumed, dropped>>

PyPushWait(p) ==
  /\ pc[p] = "push_cs"
  /\ ~HasRoom(msg[p])
  /\ p \in Blocking /\ timeout[p] # "zero"
  /\ timeout[p] = "infinite" => active_consumers > 0
  /\ Goto(p, "wait_timed")
  /\ Unlock
  /\ UNCHANGED <<header, mem, linked, wait_sem, registered, eos_received, msg,
                 timeout, history>>

-----------------------------------------------------------------------------
(***************************************************************************)
(* pop                                                                     *)
(***************************************************************************)
ItemIn(slot) == [metadata |-> slot.metadata, payload |-> slot.payload]

(* read_pos moves whatever the slot holds, and nobody is notified yet.     *)
(* pop(copy=True) takes the slot along.                                    *)
PyPopTake(c) ==
  /\ pc[c] = "pop_cs"
  /\ write_pos # read_pos
  /\ \E copy \in BOOLEAN :
       LET slot == ReadSlot(mem, read_pos)
       IN  /\ read_pos' = slot.next
           /\ consumed' = Append(consumed, ItemIn(slot))
           /\ taken' = [taken EXCEPT ![c] =
                          [number |-> Len(consumed'), pos |-> read_pos,
                           copy |-> IF copy THEN {slot} ELSE {}]]
  /\ Unlock
  /\ Goto(c, "parse")
  /\ UNCHANGED <<write_pos, active_producers, active_consumers, mem, linked,
                 wait_sem, registered, eos_received, msg, timeout, outcome,
                 published, dropped, popped>>

(* A slice ends where the mapping ends, after the second lap at most: of a *)
(* slot whose size fields are overwritten it holds what there is.          *)
py_read_bytes(pos, length) ==
  LET there_is == (data_end_abs - pos) + total_data_bytes
  IN  read_bytes(mem, pos, IF length <= there_is THEN length ELSE there_is)

ReadInPlace(pos) ==
  LET slot == ReadSlot(mem, pos)
      payload_size == read_uint(mem, normalize_abs(pos + 2))
      meta_pos == normalize_abs(pos + SLOT_HEADER_SIZE)
      data_pos == normalize_abs(meta_pos + (slot.metadata_size + 1))
  IN  [next |-> slot.next,
       metadata_size |-> slot.metadata_size,
       metadata |-> py_read_bytes(meta_pos, slot.metadata_size),
       start_sentinel |-> slot.start_sentinel,
       payload |-> py_read_bytes(data_pos, payload_size),
       end_sentinel |-> slot.end_sentinel]

(* Mutant: with copy=True, too, the slot is read after the lock.           *)
SlotToParse_InPlace(c) == ReadInPlace(taken[c].pos)

SlotToParse(c) ==
  IF taken[c].copy # {} THEN CHOOSE slot \in taken[c].copy : TRUE
  ELSE ReadInPlace(taken[c].pos)

(* An exception, for what the slot looks like or for an object that does   *)
(* not deserialize, leaves pop() without notifying anybody.                *)
PyParse(c) ==
  /\ pc[c] = "parse"
  /\ LET slot == SlotToParse(c)
     IN \/ /\ IsValid(slot)
           /\ popped' = [popped EXCEPT ![c] = {ItemIn(slot)}]
           /\ Goto(c, "notify")
           /\ UNCHANGED <<timeout, taken>>
        \/ /\ taken' = [taken EXCEPT ![c] = NothingTaken]
           /\ PopEnd(c)
           /\ UNCHANGED popped
  /\ UNCHANGED <<header, mem, linked, sems, registered, eos_received, msg,
                 history>>

(* Lock, notify_all, unlock: one step.                                     *)
PyNotify(c) ==
  /\ pc[c] = "notify"
  /\ mutex_sem > 0
  /\ py_notify_all
  /\ taken' = [taken EXCEPT ![c] = NothingTaken]
  /\ popped' = [popped EXCEPT ![c] = {}]
  /\ PopEnd(c)
  /\ UNCHANGED <<header, mem, linked, mutex_sem, registered, eos_received,
                 msg, history>>

PyPopWait(c) ==
  /\ pc[c] = "pop_cs"
  /\ write_pos = read_pos
  /\ ~AtEos
  /\ c \in Blocking /\ timeout[c] # "zero"
  /\ Goto(c, "wait_timed")
  /\ Unlock
  /\ UNCHANGED <<header, mem, linked, wait_sem, registered, eos_received, msg,
                 timeout, history>>

-----------------------------------------------------------------------------
(***************************************************************************)
(* close                                                                   *)
(***************************************************************************)
PyProducerClose(p) ==
  /\ pc[p] = "close_cs"
  /\ active_producers' = Decrement(active_producers)
  /\ registered' = registered \ {p}
  /\ py_notify_all
  /\ Unlock
  /\ Goto(p, "closed")
  /\ UNCHANGED <<write_pos, read_pos, active_consumers, mem, linked,
                 eos_received, msg, timeout, history>>

(* The last consumer unlinks, whether or not producers are left.           *)
PyConsumerClose(c) ==
  /\ pc[c] = "close_cs"
  /\ active_consumers' = Decrement(active_consumers)
  /\ registered' = registered \ {c}
  /\ py_notify_all
  /\ Unlock
  /\ Goto(c, IF active_consumers' = 0 THEN "unlink" ELSE "closed")
  /\ UNCHANGED <<write_pos, read_pos, active_producers, mem, linked,
                 eos_received, msg, timeout, history>>

-----------------------------------------------------------------------------
MixedInit ==
  /\ Init
  /\ taken = [c \in Consumers |-> NothingTaken]
  /\ popped = [c \in Consumers |-> {}]

PySyncStep(h) == Lock(h) \/ Wake(h) \/ PyWaitTimeout(h) \/ Relock(h)
PyProducerStep(p) ==
  \/ PySyncStep(p)
  \/ ProducerAttach(p)
  \/ PushConsumerFound(p) \/ PushNoConsumers(p)
  \/ PyCountWait(p) \/ PyCountAgain(p)
  \/ PyPushWrite(p) \/ PyPushFail(p) \/ PyPushWait(p)
  \/ PyProducerClose(p)
PyConsumerStep(c) ==
  \/ /\ \/ PySyncStep(c)
        \/ PyConsumerAttach(c)
        \/ PopEos(c) \/ PopFail(c) \/ PyPopWait(c)
        \/ PyConsumerClose(c) \/ Unlink(c)
     /\ UNCHANGED <<taken, popped>>
  \/ PyPopTake(c)
  \/ PyParse(c) \/ PyNotify(c)
PyProducerCall(p) ==
  \/ Open(p) \/ CloseBegin(p)
  \/ \E m \in Msg, t \in Timeouts : PyPushBegin(p, m, t)

(* The steps of each handle in its language.                               *)
MixedProducerStep(p) ==
  /\ IF p \in Python THEN PyProducerStep(p) ELSE ProducerStep(p)
  /\ UNCHANGED <<taken, popped>>
MixedConsumerStep(c) ==
  IF c \in Python THEN PyConsumerStep(c)
  ELSE ConsumerStep(c) /\ UNCHANGED <<taken, popped>>
MixedProducerCall(p) ==
  /\ IF p \in Python THEN PyProducerCall(p) ELSE ProducerCall(p)
  /\ UNCHANGED <<taken, popped>>
MixedConsumerCall(c) == ConsumerCall(c) /\ UNCHANGED <<taken, popped>>

MixedNext ==
  \/ \E p \in Producers : MixedProducerStep(p) \/ MixedProducerCall(p)
  \/ \E c \in Consumers : MixedConsumerStep(c) \/ MixedConsumerCall(c)
  \/ Finished /\ UNCHANGED <<taken, popped>>

MixedSpec == MixedInit /\ [][MixedNext]_mixedVars

(* Callers that pop until the end of the stream and only then close.       *)
DrainLoop ==
  \A c \in Consumers : pc[c] = "idle" =>
    /\ pc'[c] = "close_lock" => c \in eos_received
    /\ pc'[c] = "pop_lock" => c \notin eos_received
MixedDrainSpec == MixedInit /\ [][MixedNext /\ DrainLoop]_mixedVars

-----------------------------------------------------------------------------
(***************************************************************************)
(* Properties                                                              *)
(***************************************************************************)
(* The variables of both languages keep their types; no consumer holds     *)
(* more than one slot that it took, or one object that it parsed.          *)
MixedTypeOK ==
  /\ TypeOK
  /\ \A c \in Consumers : /\ taken[c].number \in 0 .. Len(consumed)
                          /\ taken[c].pos \in Cells
                          /\ Cardinality(taken[c].copy) <= 1
                          /\ popped[c] \subseteq Item
                          /\ Cardinality(popped[c]) <= 1

(* What pop(copy=True) returns is the message it took, however far the     *)
(* producers have gone on since.                                           *)
CopiesIntact ==
  \A c \in Consumers :
    popped[c] # {} /\ taken[c].copy # {} =>
      popped[c] = {consumed[taken[c].number]}

(* A slot that pop() without copy has yet to parse is whole until the      *)
(* producers have written a whole ring's worth from where it starts.       *)
UncopiedIntact ==
  \A c \in Consumers :
    pc[c] = "parse" =>
      LET first == published[taken[c].number].at
          slot == ReadInPlace(taken[c].pos)
      IN Written - first <= total_data_bytes =>
           /\ IsValid(slot)
           /\ ItemIn(slot) = consumed[taken[c].number]
=============================================================================
