------------------------------- MODULE CppRing -------------------------------
(***************************************************************************)
(* cpp/ipc0cp/ring_buffer.cpp over the semaphores of posix_sync.cpp: any   *)
(* number of C++ producers and consumers on one existing segment.  A step  *)
(* is a lock, one critical section up to the unlock that ends it, or a     *)
(* wait on the second semaphore outside the lock.                          *)
(*                                                                         *)
(* The control states of a handle:                                         *)
(*   detached      constructed (consumer) or about to be (producer)        *)
(*   X_lock, X_cs  about to lock, and holding the lock, for X in           *)
(*                 attach, push, pop, close                                *)
(*   idle          attached, no call in progress                           *)
(*   count         push_raw looks for a consumer                           *)
(*   wait_timed, wait_forever, relock    inside PosixCondition::wait       *)
(*   unlink        close() decided to unlink, lock released                *)
(*   closed                                                                *)
(*   count_wait, parse, notify             of Python handles (MixedRing)   *)
(***************************************************************************)
EXTENDS RingState

LockedAt == [attach_lock |-> "attach_cs", push_lock |-> "push_cs",
             pop_lock |-> "pop_cs", close_lock |-> "close_cs"]
CriticalSections == {"attach_cs", "push_cs", "pop_cs", "close_cs"}
WaitStates == {"wait_timed", "wait_forever"}
PC == {"detached", "idle", "count", "relock", "unlink", "closed", "count_wait",
       "parse", "notify"}
        \cup DOMAIN LockedAt \cup CriticalSections \cup WaitStates

Goto(h, s) == pc' = [pc EXCEPT ![h] = s]

(***************************************************************************)
(* PosixCondition.  lock and unlock are sem_wait and sem_post of mutex_sem *)
(* and notify_all is ONE sem_post of wait_sem, which fails, and throws,    *)
(* when the semaphore is at SEM_VALUE_MAX.                                 *)
(***************************************************************************)
Lock(h) ==
  /\ pc[h] \in DOMAIN LockedAt
  /\ mutex_sem > 0
  /\ mutex_sem' = mutex_sem - 1
  /\ Goto(h, LockedAt[pc[h]])
  /\ UNCHANGED <<header, mem, linked, wait_sem, registered, eos_received,
                 msg, timeout, history>>

(* Mutant: the guard releases the lock once more when it is destroyed.     *)
Unlock_Twice == mutex_sem' = mutex_sem + 2

Unlock == mutex_sem' = mutex_sem + 1

CanNotify == wait_sem < SEM_VALUE_MAX
notify_all == wait_sem' = IF CanNotify THEN wait_sem + 1 ELSE wait_sem

Wake(h) ==
  /\ pc[h] \in WaitStates
  /\ wait_sem > 0
  /\ wait_sem' = wait_sem - 1
  /\ Goto(h, "relock")
  /\ UNCHANGED <<header, mem, linked, mutex_sem, registered, eos_received,
                 msg, timeout, history>>

(* sem_timedwait gives up: the deadline of the call has passed.            *)
WaitTimeout(h) ==
  /\ pc[h] = "wait_timed"
  /\ wait_sem = 0
  /\ timeout' = [timeout EXCEPT ![h] = "expired"]
  /\ Goto(h, "relock")
  /\ UNCHANGED <<header, mem, linked, sems, registered, eos_received, msg,
                 history>>

(* Mutant: wait() does not relock, the loop body goes on as if it had.     *)
Relock_NotTaken(h) ==
  /\ pc[h] = "relock"
  /\ Goto(h, IF h \in Producers THEN "push_cs" ELSE "pop_cs")
  /\ UNCHANGED <<header, mem, linked, sems, registered, eos_received, msg,
                 timeout, history>>

(* wait() relocks, and the guard of the loop body unlocks at once: nothing *)
(* happens in between, so the pair is one step.                            *)
Relock(h) ==
  /\ pc[h] = "relock"
  /\ mutex_sem > 0
  /\ Goto(h, IF h \in Producers THEN "push_lock" ELSE "pop_lock")
  /\ UNCHANGED <<header, mem, linked, sems, registered, eos_received, msg,
                 timeout, history>>

-----------------------------------------------------------------------------
(***************************************************************************)
(* Attaching.  Opening the segment is by name and takes no lock.           *)
(***************************************************************************)
Open(h) ==
  /\ pc[h] = "detached"
  /\ linked
  /\ Goto(h, "attach_lock")
  /\ UNCHANGED <<header, mem, linked, sems, registered, eos_received, msg,
                 timeout, history>>

ProducerAttach(p) ==
  /\ pc[p] = "attach_cs"
  /\ active_producers' = active_producers + 1
  /\ registered' = registered \cup {p}
  /\ Unlock
  /\ Goto(p, "idle")
  /\ UNCHANGED <<write_pos, read_pos, active_consumers, mem, linked, wait_sem,
                 eos_received, msg, timeout, history>>

(* A notify_all that throws leaves the lock taken: attach() uses no guard. *)
ConsumerAttach(c) ==
  /\ pc[c] = "attach_cs"
  /\ active_consumers' = active_consumers + 1
  /\ registered' = registered \cup {c}
  /\ notify_all
  /\ IF CanNotify THEN Unlock ELSE UNCHANGED mutex_sem
  /\ Goto(c, "idle")
  /\ UNCHANGED <<write_pos, read_pos, active_producers, mem, linked,
                 eos_received, msg, timeout, history>>

-----------------------------------------------------------------------------
(***************************************************************************)
(* push_raw                                                                *)
(***************************************************************************)
(* Mutant: the slot itself may have any size.                              *)
TooLarge_AnySlot(m) == Len(Metadata[m]) > MAX_METADATA_SIZE

TooLarge(m) == \/ Len(Metadata[m]) > MAX_METADATA_SIZE
               \/ Size(m) > MAX_SLOT_SIZE
EosMarker(m) == Metadata[m] = <<>> /\ Payload[m] = <<>>

PushBegin(p, m, t) ==
  /\ pc[p] = "idle"
  /\ outcome[m] = "unsent"
  /\ IF TooLarge(m)
     THEN /\ outcome' = [outcome EXCEPT ![m] = "failed"]
          /\ UNCHANGED <<pc, msg, timeout>>
     ELSE /\ outcome' = [outcome EXCEPT ![m] = "pushing"]
          /\ msg' = [msg EXCEPT ![p] = m]
          /\ timeout' = [timeout EXCEPT ![p] = t]
          /\ Goto(p, IF EosMarker(m) THEN "push_lock" ELSE "count")
  /\ UNCHANGED <<header, mem, linked, sems, registered, eos_received,
                 published, consumed, dropped>>

(* The call is over and told its caller r.                                 *)
PushEnd(p, r) ==
  /\ outcome' = [outcome EXCEPT ![msg[p]] = r]
  /\ msg' = [msg EXCEPT ![p] = NoMsg]
  /\ timeout' = [timeout EXCEPT ![p] = "infinite"]
  /\ Goto(p, "idle")

(* Lock, read active_consumers, unlock: one step, as it changes nothing.   *)
PushConsumerFound(p) ==
  /\ pc[p] = "count"
  /\ mutex_sem > 0
  /\ active_consumers >= 1
  /\ Goto(p, "push_lock")
  /\ UNCHANGED <<header, mem, linked, sems, registered, eos_received, msg,
                 timeout, history>>

(* NO_CONSUMERS: at once when non-blocking, else after 60 s of looking     *)
(* every 10 ms.                                                            *)
PushNoConsumers(p) ==
  /\ pc[p] = "count"
  /\ mutex_sem > 0
  /\ active_consumers = 0
  /\ PushEnd(p, "failed")
  /\ UNCHANGED <<header, mem, linked, sems, registered, eos_received,
                 published, consumed, dropped>>

HasRoom(m) == available_space(write_pos, read_pos) >= Size(m)

(* Mutant: a push that slept past its deadline reports a timeout although  *)
(* it found room and wrote its slot.                                       *)
PushWrite_LateTimeout(p) ==
  /\ pc[p] = "push_cs"
  /\ HasRoom(msg[p])
  /\ LET m == msg[p]
         next_pos == normalize_abs(write_pos + Size(m))
     IN  /\ mem' = write_bytes(mem, write_pos,
                               SlotCells(next_pos, Metadata[m], Payload[m]))
         /\ write_pos' = next_pos
         /\ published' = Append(published, [msg |-> m, at |-> Written])
  /\ notify_all
  /\ Unlock
  /\ PushEnd(p, IF timeout[p] = "expired" THEN "failed" ELSE "ok")
  /\ UNCHANGED <<read_pos, active_producers, active_consumers, linked,
                 registered, eos_received, consumed, dropped>>

(* Mutant: a push whose notify_all failed starts over.                     *)
PushWrite_Retries(p) ==
  /\ pc[p] = "push_cs"
  /\ HasRoom(msg[p])
  /\ LET m == msg[p]
         next_pos == normalize_abs(write_pos + Size(m))
     IN  /\ mem' = write_bytes(mem, write_pos,
                               SlotCells(next_pos, Metadata[m], Payload[m]))
         /\ write_pos' = next_pos
         /\ published' = Append(published, [msg |-> m, at |-> Written])
  /\ notify_all
  /\ Unlock
  /\ IF CanNotify THEN PushEnd(p, "ok")
     ELSE Goto(p, "push_lock") /\ UNCHANGED <<outcome, msg, timeout>>
  /\ UNCHANGED <<read_pos, active_producers, active_consumers, linked,
                 registered, eos_received, consumed, dropped>>

(* The slot is written and published, then the waiters are notified: when  *)
(* that throws, the slot stays published and the caller gets an exception. *)
PushWrite(p) ==
  /\ pc[p] = "push_cs"
  /\ HasRoom(msg[p])
  /\ LET m == msg[p]
         next_pos == normalize_abs(write_pos + Size(m))
     IN  /\ mem' = write_bytes(mem, write_pos,
                               SlotCells(next_pos, Metadata[m], Payload[m]))
         /\ write_pos' = next_pos
         /\ published' = Append(published, [msg |-> m, at |-> Written])
  /\ notify_all
  /\ Unlock
  /\ PushEnd(p, IF CanNotify THEN "ok" ELSE "failed")
  /\ UNCHANGED <<read_pos, active_producers, active_consumers, linked,
                 registered, eos_received, consumed, dropped>>

(* BUFFER_FULL or TIMEOUT.  A finite deadline may pass at any time.        *)
PushFail(p) ==
  /\ pc[p] = "push_cs"
  /\ ~HasRoom(msg[p])
  /\ timeout[p] # "infinite"
  /\ Unlock
  /\ PushEnd(p, "failed")
  /\ UNCHANGED <<header, mem, linked, wait_sem, registered, eos_received,
                 published, consumed, dropped>>

(* A finite deadline that passes between the check of line 818 and the     *)
(* clock read of line 829 makes remaining_ms negative, which wait() takes  *)
(* for "no timeout".                                                       *)
PushWait(p) ==
  /\ pc[p] = "push_cs"
  /\ ~HasRoom(msg[p])
  /\ \/ /\ timeout[p] = "infinite"
        /\ Goto(p, "wait_forever")
        /\ UNCHANGED timeout
     \/ /\ timeout[p] = "finite"
        /\ Goto(p, "wait_timed")
        /\ UNCHANGED timeout
     \/ /\ timeout[p] = "finite"
        /\ Goto(p, "wait_forever")
        /\ timeout' = [timeout EXCEPT ![p] = "expired"]
  /\ Unlock
  /\ UNCHANGED <<header, mem, linked, wait_sem, registered, eos_received, msg,
                 history>>

-----------------------------------------------------------------------------
(***************************************************************************)
(* pop_raw                                                                 *)
(***************************************************************************)
PopBegin(c, t) ==
  /\ pc[c] = "idle"
  /\ timeout' = [timeout EXCEPT ![c] = t]
  /\ Goto(c, "pop_lock")
  /\ UNCHANGED <<header, mem, linked, sems, registered, eos_received, msg,
                 history>>

PopEnd(c) ==
  /\ timeout' = [timeout EXCEPT ![c] = "infinite"]
  /\ Goto(c, "idle")

(* Mutant: metadata of exactly the allowed size is refused by the reader.  *)
IsValid_OffByOne(slot) == /\ slot.metadata_size < MAX_METADATA_SIZE
                          /\ slot.start_sentinel = SENTINEL_BYTE
                          /\ slot.end_sentinel = SENTINEL_BYTE

IsValid(slot) == /\ slot.metadata_size <= MAX_METADATA_SIZE
                 /\ slot.start_sentinel = SENTINEL_BYTE
                 /\ slot.end_sentinel = SENTINEL_BYTE

(* The slot is copied out before read_pos frees it.  InvalidMetadata or    *)
(* CorruptPayload leaves read_pos on the slot.  A notify_all that throws   *)
(* loses the slot: read_pos has moved and pop_raw returns nothing.         *)
PopSlot(c) ==
  /\ pc[c] = "pop_cs"
  /\ write_pos # read_pos
  /\ LET slot == ReadSlot(mem, read_pos)
         item == [metadata |-> slot.metadata, payload |-> slot.payload]
     IN  IF IsValid(slot)
         THEN /\ read_pos' = slot.next
              /\ consumed' = Append(consumed, item)
              /\ dropped' = IF CanNotify THEN dropped ELSE Append(dropped, item)
              /\ notify_all
         ELSE UNCHANGED <<read_pos, consumed, dropped, wait_sem>>
  /\ Unlock
  /\ PopEnd(c)
  /\ UNCHANGED <<write_pos, active_producers, active_consumers, mem, linked,
                 registered, eos_received, msg, outcome, published>>

(* Mutant: end of stream without looking for active producers.             *)
AtEos_NoProducerCheck == write_pos = read_pos
(* Mutant: end of stream with slots still in the ring.                     *)
AtEos_NoEmptyCheck == active_producers = 0

AtEos == active_producers = 0 /\ write_pos = read_pos

PopEos(c) ==
  /\ pc[c] = "pop_cs"
  /\ AtEos
  /\ eos_received' = eos_received \cup {c}
  /\ Unlock
  /\ PopEnd(c)
  /\ UNCHANGED <<header, mem, linked, wait_sem, registered, msg, history>>

(* BUFFER_EMPTY for a non-blocking consumer, else TIMEOUT.                 *)
PopFail(c) ==
  /\ pc[c] = "pop_cs"
  /\ write_pos = read_pos
  /\ ~AtEos
  /\ c \in Blocking => timeout[c] # "infinite"
  /\ Unlock
  /\ PopEnd(c)
  /\ UNCHANGED <<header, mem, linked, wait_sem, registered, eos_received, msg,
                 history>>

(* Mutant: a pop with a deadline sleeps without one.                       *)
PopWait_Forever(c) ==
  /\ pc[c] = "pop_cs"
  /\ write_pos = read_pos
  /\ ~AtEos
  /\ c \in Blocking
  /\ timeout[c] \in {"infinite", "finite"}
  /\ Goto(c, "wait_forever")
  /\ Unlock
  /\ UNCHANGED <<header, mem, linked, wait_sem, registered, eos_received, msg,
                 timeout, history>>

PopWait(c) ==
  /\ pc[c] = "pop_cs"
  /\ write_pos = read_pos
  /\ ~AtEos
  /\ c \in Blocking
  /\ \/ timeout[c] = "infinite" /\ Goto(c, "wait_forever")
     \/ timeout[c] = "finite" /\ Goto(c, "wait_timed")
  /\ Unlock
  /\ UNCHANGED <<header, mem, linked, wait_sem, registered, eos_received, msg,
                 timeout, history>>

-----------------------------------------------------------------------------
(***************************************************************************)
(* close                                                                   *)
(***************************************************************************)
CloseBegin(h) ==
  /\ pc[h] = "idle"
  /\ Goto(h, "close_lock")
  /\ UNCHANGED <<header, mem, linked, sems, registered, eos_received, msg,
                 timeout, history>>

(* Mutant: close() and the destructor both give the registration back.     *)
Decrement_Twice(count) == IF count > 1 THEN count - 2 ELSE 0

Decrement(count) == IF count > 0 THEN count - 1 ELSE count

(* Mutant: the last producer leaves without a word.                        *)
ProducerClose_NoNotify(p) ==
  /\ pc[p] = "close_cs"
  /\ active_producers' = Decrement(active_producers)
  /\ registered' = registered \ {p}
  /\ Unlock
  /\ Goto(p, "closed")
  /\ UNCHANGED <<write_pos, read_pos, active_consumers, mem, linked, wait_sem,
                 eos_received, msg, timeout, history>>

(* A notify_all that throws leaves the lock taken: close() uses no guard.  *)
ProducerClose(p) ==
  /\ pc[p] = "close_cs"
  /\ active_producers' = Decrement(active_producers)
  /\ registered' = registered \ {p}
  /\ notify_all
  /\ IF CanNotify THEN Unlock ELSE UNCHANGED mutex_sem
  /\ Goto(p, "closed")
  /\ UNCHANGED <<write_pos, read_pos, active_consumers, mem, linked,
                 eos_received, msg, timeout, history>>

(* The counters that decide on unlinking are read under the lock, and the  *)
(* unlinking is done after it.                                             *)
ConsumerClose(c) ==
  /\ pc[c] = "close_cs"
  /\ active_consumers' = Decrement(active_consumers)
  /\ registered' = registered \ {c}
  /\ notify_all
  /\ IF CanNotify THEN Unlock ELSE UNCHANGED mutex_sem
  /\ LET should_unlink == /\ CanNotify
                          /\ c \in AutoUnlink
                          /\ c \in eos_received
                          /\ active_consumers' = 0
                          /\ active_producers = 0
     IN  Goto(c, IF should_unlink THEN "unlink" ELSE "closed")
  /\ UNCHANGED <<write_pos, read_pos, active_producers, mem, linked,
                 eos_received, msg, timeout, history>>

Unlink(c) ==
  /\ pc[c] = "unlink"
  /\ linked' = FALSE
  /\ Goto(c, "closed")
  /\ UNCHANGED <<header, mem, sems, registered, eos_received, msg, timeout,
                 history>>

-----------------------------------------------------------------------------
(* The segment as create_shm leaves it at line 658: one producer is about  *)
(* to register itself, nobody else has opened the segment.                 *)
Init ==
  /\ write_pos = data_begin_abs /\ read_pos = data_begin_abs
  /\ active_producers = 0 /\ active_consumers = 0
  /\ mem = [c \in Cells |-> 0]
  /\ linked = TRUE
  /\ mutex_sem = 1 /\ wait_sem = 0
  /\ \E p \in Producers :
       pc = [h \in Handles |-> IF h = p THEN "attach_lock" ELSE "detached"]
  /\ registered = {} /\ eos_received = {}
  /\ msg = [p \in Producers |-> NoMsg]
  /\ timeout = [h \in Handles |-> "infinite"]
  /\ outcome = [m \in Msg |-> "unsent"]
  /\ published = <<>> /\ consumed = <<>> /\ dropped = <<>>

(* What the code does once called, and what its caller decides.            *)
SyncStep(h) == Lock(h) \/ Wake(h) \/ WaitTimeout(h) \/ Relock(h)
ProducerStep(p) ==
  \/ SyncStep(p)
  \/ ProducerAttach(p)
  \/ PushConsumerFound(p) \/ PushNoConsumers(p)
  \/ PushWrite(p) \/ PushFail(p) \/ PushWait(p)
  \/ ProducerClose(p)
ConsumerStep(c) ==
  \/ SyncStep(c)
  \/ ConsumerAttach(c)
  \/ PopSlot(c) \/ PopEos(c) \/ PopFail(c) \/ PopWait(c)
  \/ ConsumerClose(c) \/ Unlink(c)

ProducerCall(p) ==
  \/ Open(p) \/ CloseBegin(p)
  \/ \E m \in Msg, t \in Timeouts : PushBegin(p, m, t)
ConsumerCall(c) ==
  \/ Open(c) \/ CloseBegin(c)
  \/ \E t \in Timeouts : PopBegin(c, t)

(* Everyone is done: the only state the processes mean to stay in.         *)
AllClosed == \A h \in Handles : \/ pc[h] = "closed"
                                \/ pc[h] = "detached" /\ ~linked
Finished == AllClosed /\ UNCHANGED vars

Next ==
  \/ \E p \in Producers : ProducerStep(p) \/ ProducerCall(p)
  \/ \E c \in Consumers : ConsumerStep(c) \/ ConsumerCall(c)
  \/ Finished

Spec == Init /\ [][Next]_vars

(* A thread inside the library keeps running: each is an OS thread.  No    *)
(* call is ever forced on a caller by this.                                *)
Fairness == /\ \A p \in Producers : WF_vars(ProducerStep(p))
            /\ \A c \in Consumers : WF_vars(ConsumerStep(c))

(* A thread blocked on mutex_sem gets it if it is released again and again *)
(* (sem_wait queues in the kernel; every critical section is finite).      *)
LockFairness ==
  /\ \A h \in Handles : SF_vars(Lock(h)) /\ SF_vars(Relock(h))
  /\ \A p \in Producers : SF_vars(PushConsumerFound(p) \/ PushNoConsumers(p))
FairSpec == Spec /\ Fairness /\ LockFairness

(* The loop of the README and of every example: a consumer pops without a  *)
(* deadline until end of stream; it may also leave before.  A producer     *)
(* goes on to its next call, with a deadline or without, and in the end    *)
(* closes; everyone opens the segment while it has its name.               *)
PopLoop ==
  \A c \in Consumers : pc[c] = "idle" /\ pc'[c] = "pop_lock" =>
    c \notin eos_received /\ timeout'[c] = "infinite"
DrainSpec ==
  /\ Init /\ [][Next /\ PopLoop]_vars /\ Fairness
  /\ \A p \in Producers : WF_vars(ProducerCall(p))
  /\ \A c \in Consumers : WF_vars(ConsumerCall(c) /\ PopLoop)

-----------------------------------------------------------------------------
(***************************************************************************)
(* Properties                                                              *)
(***************************************************************************)
Item == [metadata : Seq(Nat), payload : Seq(Nat)]
ItemOf(m) == [metadata |-> Metadata[m], payload |-> Payload[m]]

ControlTypeOK ==
  /\ active_producers \in Nat /\ active_consumers \in Nat
  /\ linked \in BOOLEAN
  /\ mutex_sem \in {0, 1} /\ wait_sem \in 0 .. SEM_VALUE_MAX
  /\ pc \in [Handles -> PC]
  /\ registered \subseteq Handles /\ eos_received \subseteq Consumers
  /\ msg \in [Producers -> Msg \cup {NoMsg}]
  /\ timeout \in [Handles -> TimeoutKinds \cup {"expired"}]
  /\ outcome \in [Msg -> {"unsent", "pushing", "ok", "failed"}]

DataTypeOK ==
  /\ write_pos \in Cells /\ read_pos \in Cells
  /\ mem \in [Cells -> Nat]
  /\ published \in Seq([msg : Msg, at : Nat])
  /\ consumed \in Seq(Item) /\ dropped \in Seq(Item)

(* Every variable keeps its type: the positions stay inside the data       *)
(* region, the semaphores between zero and their maximum.                  *)
TypeOK == ControlTypeOK /\ DataTypeOK

InCriticalSection == {h \in Handles : pc[h] \in CriticalSections}

(* mutex_sem excludes: at most one handle is between lock_buffer and       *)
(* unlock_buffer, and none while the semaphore is free, on every path      *)
(* through push_raw, pop_raw, attach, close and PosixCondition::wait,      *)
(* error paths included.                                                   *)
MutualExclusion ==
  /\ \A g, h \in InCriticalSection : g = h
  /\ InCriticalSection # {} => mutex_sem = 0

(* The header's counters count the handles that are registered: what EOS,  *)
(* NO_CONSUMERS and unlinking are decided on.                              *)
CountersMatchHandles ==
  /\ active_producers = Cardinality(registered \cap Producers)
  /\ active_consumers = Cardinality(registered \cap Consumers)

(* What pop_raw reads is what push_raw wrote: slot by slot in publication  *)
(* order, each once, metadata and payload intact.                          *)
FifoIntact ==
  /\ Len(consumed) <= Len(published)
  /\ \A i \in 1 .. Len(consumed) : consumed[i] = ItemOf(published[i].msg)

(* The slots not yet read are all still in the ring, none overwritten by a *)
(* later push, at the places a reader following next_pos will look.        *)
BacklogIntact ==
  \A i \in Len(consumed) + 1 .. Len(published) :
    LET m == published[i].msg
        slot == ReadSlot(mem, CellAt(published[i].at))
    IN  /\ IsValid(slot)
        /\ [metadata |-> slot.metadata, payload |-> slot.payload] = ItemOf(m)
        /\ slot.next = CellAt(published[i].at + Size(m))

(* The two positions account for every byte: free space is what the unread *)
(* slots leave, and equal positions mean that there is no unread slot.     *)
SpaceAccounting ==
  /\ Used \in 0 .. total_data_bytes
  /\ write_pos = CellAt(Written)
  /\ read_pos = CellAt(Drained)
  /\ available_space(write_pos, read_pos) = total_data_bytes - Used

(* A message push_raw said was pushed is in the stream, one whose push     *)
(* failed is not, and none is there twice.                                 *)
PushReportTruthful ==
  LET Published(m) == {i \in 1 .. Len(published) : published[i].msg = m}
  IN  \A m \in Msg : Cardinality(Published(m)) = IF outcome[m] = "ok" THEN 1 ELSE 0

(* Whatever notify_all does after the write, also at SEM_VALUE_MAX: no     *)
(* message enters the stream twice, one reported as pushed is in it, and   *)
(* one whose push is not made, or still under way, is not.                 *)
InStream(m) == \E i \in 1 .. Len(published) : published[i].msg = m
SuccessTruthful ==
  /\ \A i, j \in 1 .. Len(published) : published[i].msg = published[j].msg => i = j
  /\ \A m \in Msg : outcome[m] = "ok" => InStream(m)
  /\ \A m \in Msg : outcome[m] \in {"unsent", "pushing"} => ~InStream(m)

(* pop_raw returns end of stream only when no producer is registered and   *)
(* every slot pushed so far has been read.                                 *)
EosOnlyWhenDrained ==
  [][\A c \in eos_received' \ eos_received :
       registered \cap Producers = {} /\ Len(consumed) = Len(published)]_vars

(* posix_sync.hpp:170, "Signal all waiters": nobody sleeps without a       *)
(* deadline on a condition that holds while no wakeup is on its way and    *)
(* no attached handle is awake to send one.                                *)
CanProceed(h) ==
  IF h \in Producers THEN HasRoom(msg[h]) ELSE write_pos # read_pos \/ AtEos
NoLostWakeup ==
  \A h \in Handles :
    pc[h] = "wait_forever" /\ CanProceed(h) =>
      wait_sem > 0 \/ \E g \in registered : pc[g] # "wait_forever"

(* ring_buffer.hpp:337, "Timeout in milliseconds (<0 = infinite)", and     *)
(* :307, "if false, fail fast": only a call without a deadline, of a       *)
(* handle that blocks, sleeps without one.                                 *)
NoUnboundedSleep ==
  \A h \in Handles :
    pc[h] = "wait_forever" => h \in Blocking /\ timeout[h] = "infinite"

(* A pop with a deadline comes back to its caller.                         *)
TimedPopReturns ==
  \A c \in Consumers :
    pc[c] = "pop_lock" /\ timeout[c] # "infinite" ~> pc[c] = "idle"

(* A producer that waits for room without a deadline and is never woken:   *)
(* notify_all posts one token for all sleepers, and the token may go to    *)
(* one it does not help (NoLostWakeup is violated).                        *)
SleepsForGood(p) == <>[](pc[p] = "wait_forever")

(* Callers that pop until the end of the stream, or leave before it, all   *)
(* finish, whatever the order of attaching, pushing, popping and closing   *)
(* and whoever takes the token of another, producers that wait for room    *)
(* with a deadline included: no consumer is forgotten and end of stream    *)
(* reaches those that wait for it.  The one exception is a producer that   *)
(* SleepsForGood; then others may be left asleep, too.                     *)
EveryoneFinishes == <>AllClosed \/ \E p \in Producers : SleepsForGood(p)

(* With the same exception: a published slot that finds a consumer         *)
(* attached, or one that attaches later, is read, unless that consumer     *)
(* leaves before it is told the end of the stream.                         *)
PublishedIsRead ==
  \/ \A i \in 1 .. Cardinality(Msg), c \in Consumers :
       Len(published) >= i /\ c \in registered \ eos_received
         ~> Len(consumed) >= i \/ (pc[c] = "closed" /\ c \notin eos_received)
  \/ \E p \in Producers : SleepsForGood(p)
=============================================================================
