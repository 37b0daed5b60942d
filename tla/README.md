# ipc0cp in TLA+

ipc0cp moves objects between processes through a ring buffer in POSIX shared
memory (or, as a baseline, through stdin/stdout).  The ring is multi-producer,
multi-consumer, shared by a C++ and a Python implementation, and synchronised
by two named semaphores.  This directory holds TLA+ models of it, the TLC
configurations that check them, and TLAPS proofs.

## 1. The system

| Component | State | Operations | Interacts with |
|---|---|---|---|
| Shared segment: 64-byte header and data region (`cpp/ipc0cp/ring_buffer.hpp:26-63`) | `write_pos`, `read_pos`, `total_data_bytes`, `active_producers`, `active_consumers`; slots chained by `next_pos` | read and written by every handle | all processes |
| `PosixCondition` (`posix_sync.cpp`, `posix_sync.py`) | two named semaphores, `mutex` (1) and `wait` (0) | lock, unlock, wait, notify_all | every handle |
| Producer (`ring_buffer.cpp:574-868`, `ring_buffer.py:297-676`) | `registered_`, `blocking_` | create or attach, `push_raw`, `close` | segment, condition |
| Consumer (`ring_buffer.cpp:308-568`, `ring_buffer.py:679-980`) | `registered_`, `eos_received_`, `auto_unlink_` | attach, `pop_raw`/`pop`, `close`, unlink | segment, condition |
| Segment lifecycle (`create_shm`, `attach_shm`, `InitSemaphoreGuard`, `unlink`; the Python counterparts) | the names in the kernel | create-or-attach, unlink, recovery | kernel |
| Slot codec | none | write and read one slot, wrap-around | segment |
| Stdio transport (`stdio.cpp`, `stdio.py`) | `closed_`, `eos_received_`, the byte stream | push, pop, close | a pipe |
| Serialization, type registry | registry map | serialize, deserialize, register, look up | transports |

Handles never talk to each other directly: everything goes through the header,
the data region and the semaphores.  What is hard:

* **Interleaving.**  Any number of handles; every critical section is short and
  several calls take the lock more than once (`push_raw` first counts the
  consumers, then looks for room).
* **The condition.**  `wait()` is a `sem_wait` on a semaphore shared by
  producers and consumers, `notify_all()` is one `sem_post`.  Tokens accumulate
  when nobody sleeps, and a token may wake the wrong sleeper.
* **Empty versus full.**  Both positions are reduced modulo the region, so a
  ring filled to the last byte looks empty.
* **End of stream** is implicit: no active producer and an empty ring.  It is
  right only as long as the counters are exact.
* **Lifetime.**  The last consumer unlinks; producers and consumers may attach
  meanwhile; a crashed process leaves counters and the lock behind.
* **Deadlines**, and the errors of `push_raw`/`pop_raw` that leave by exception.

What makes each part correct: the lock excludes; the counters count; slots come
out first-in first-out, intact and once; no unread slot is overwritten; free
space is what the unread slots leave; end of stream is returned only when all
is drained; a call reports what happened; a call with a deadline returns;
callers that drain and close all finish, unless a producer waits for room for good; names are removed only when unused.

## 2. Modules

| Module | Models | Kind |
|---|---|---|
| `RingLayout` | positions, wrap-around, free space, slot format of `ring_buffer.cpp` | operators |
| `RingState` | the variables: segment, semaphores, handles, history; constants and their assumptions | state |
| `CppRing` | the C++ producer and consumer over `PosixCondition`, their properties | state machine |
| `RingQueue` | what the ring promises: a bounded FIFO queue with an end of stream | abstract specification |
| `CppRingQueue` | `CppRing` implements `RingQueue` | refinement |
| `MixedRing` | Python handles next to C++ ones on the same segment; extends `CppRing` | state machine |
| `CppLifecycle` | the names in the kernel, create-or-attach, header, registration, unlinking, moves, deaths (C++) | state machine |
| `TypeRegistry` | the registry of deserializers and the lookup for a message | state and operators |
| `Serialize` | objects, messages, `serialize` and the two ways to deserialize | operators |
| `StdioPipe` | the frames between a producer and a consumer at a pipe, and the death of the writer | state machine |
| `StdioTransport` | that pipe with serialization on both sides; extends `StdioPipe` and `Serialize` | state machine |
| `MCCppRing`, `MCMixedRing`, `MCCppLifecycle`, `MCStdio` | instances for TLC | model checking |
| `RingBytes` | the codecs of both languages, byte by byte | state machine over all start positions |
| `CppRing_proofs` | control: types, lock, registration counters of `CppRing` | proofs |
| `RingLayout_proofs` | what the operators of `RingLayout` compute | proofs |
| `CppRingData_proofs` | the data path of `CppRing`, what a push reports, the refinement of `CppRingQueue`, rings that are never filled | proofs |
| `RingBytes_proofs` | the writers and the readers of `RingBytes` | proofs |
| `MixedRing_proofs` | the same of `MixedRing`, its lock and counters, copies and slots read in place | proofs |
| `CppLifecycle_proofs` | what holds of `CppLifecycle` however sessions overlap | proofs |
| `CppSessions_proofs` | what holds of it in sessions that do not overlap | proofs |
| `StdioPipe_proofs` | types, order and end of stream of `StdioPipe` | proofs |

### How `CppRing` corresponds to the code

A *handle* is one `SharedRingBufferProducer` or `SharedRingBufferConsumer` used
by one thread.  `pc[h]` says where it is: `attach_lock`, `push_lock`,
`pop_lock`, `close_lock` (about to take the lock), the `_cs` state (holding it),
`count` (the consumer count of `push_raw`), `wait_timed` / `wait_forever` /
`relock` (inside `PosixCondition::wait`), `unlink` (between the decision and the
unlinking in `close`), and `detached`, `idle`, `closed` between calls.

An action is one critical section, from the lock it holds to the unlock that
ends it, because all shared state but the two semaphores is only touched under
the lock; `Lock`, `Wake`, `WaitTimeout`, `Relock` and `Unlink` are the steps
outside it.  Two pairs that change nothing in between are one step: taking and
releasing the lock to read `active_consumers`, and the relock of `wait()`
followed by the unlock of the guard of the loop body.

| Code | Actions |
|---|---|
| `attach_shm`, `attach` | `Open`, `Lock`, `ProducerAttach` / `ConsumerAttach` |
| `push_raw` | `PushBegin`, `PushConsumerFound` / `PushNoConsumers`, `Lock`, `PushWrite` / `PushFail` / `PushWait` |
| `pop_raw` | `PopBegin`, `Lock`, `PopSlot` / `PopEos` / `PopFail` / `PopWait` |
| `wait` | `PushWait`/`PopWait`, `Wake` / `WaitTimeout`, `Relock`, `Lock` |
| `close` | `CloseBegin`, `Lock`, `ProducerClose` / `ConsumerClose`, `Unlink` |

Data are abstracted as follows.  A memory cell is one byte, except that each of
the three numeric header fields takes one cell holding the number
(`SLOT_HEADER_SIZE` is 3 instead of 20); `RingBytes` covers the real field
layout.  A message is a number whose metadata and payload repeat it, so a byte
of the wrong slot is seen.  A timeout argument is `zero`, `finite` or
`infinite`; a finite one becomes `expired` when its deadline has passed.  Time
itself is not modelled: a finite deadline may pass at any moment.

`outcome`, `published`, `consumed` and `dropped` are history: what each call
told its caller, the slots in the order `write_pos` moved over them with their
offset in the stream of all slots, what was read, and what was read but not
returned because `notify_all` threw.  No guard reads them, except that each
message is pushed at most once.

The initial state is the segment as `create_shm` leaves it before its producer
registers.  Any handle may open it from then on.

### `MixedRing`

Python and C++ handles share the header, the slots and the semaphores, so
`MixedRing` extends `CppRing`: a step of a Python handle that changes what its
C++ counterpart changes *is* that action (`Lock`, `Wake`, `Relock`, `Open`,
`ProducerAttach`, `PopEos`, `PopFail`, ...), and only what differs is new.

| Code (`ring_buffer.py`, `posix_sync.py`) | Difference | Actions |
|---|---|---|
| `PosixCondition.wait`, `notify_all` | every wait has a deadline of a millisecond; `NOTIFY_POSTS` posts (100), which never throw | `PyWaitTimeout`, `py_notify_all` |
| `push_raw` | the wait for a consumer uses the wait semaphore, too; no limit on the slot; a full ring without consumers is given up | `PyPushBegin`, `PyCountWait`, `PyCountAgain`, `PyPushWrite`, `PyPushFail`, `PyPushWait` |
| `pop` | `read_pos` moves under the lock, the slot is parsed after it (from a copy if `copy=True`), the producers are notified in a second critical section, or not at all if parsing fails | `PyPopTake`, `PyParse`, `PyNotify`, `PyPopWait` |
| `close` | the last consumer unlinks, whoever is still attached | `PyProducerClose`, `PyConsumerClose` |

`taken` and `popped` are the locals of `pop()`: the place of the slot, its copy
if there is one, and the object that it is about to return.  The caller of a
pop decides on `copy` call by call.  A pop without it keeps slices of the
mapping, which end where the mapping ends (`py_read_bytes`), and reads header,
sentinels and payload from them when it parses (`ReadInPlace`).  A write under the lock is one step for a
reader outside it as well: a read torn by a write in progress is not
distinguished from one after it.

### `CppLifecycle`

A step is one system call on a name (`shm_open`, `ftruncate` with the mapping,
`sem_open`, `shm_unlink`, `sem_unlink`), one access to the header, or one
critical section.  Segments and semaphores are numbered as they are created and
a name denotes one of them or none, so that two objects of one name over time
are told apart.  The constructor of a producer is `Construct`, `InitWait`, the
path of `create_shm` (`ShmCreate` ... `WriteTotal`, `WriteCounters`), that of
`attach_shm` (`ShmOpen` ... `Verify`) after a failure or on request, `Lock`,
`Register`, `InitPost`; `Attach` ... `Register` is `attach()` of a consumer;
`ConsumerClose` and four `Unlink` steps its `close()`.  `Move` is what moving
out of a handle does to its registration, `Crash` the death of a process
outside both semaphores.  The ring has no data there: a consumer that is
attached may see end of stream when no producer is counted.

### `StdioPipe`, `Serialize`, `TypeRegistry`, `StdioTransport`

The pipe of `StdioPipe` is a sequence of frames with the number of bytes
written; only the death of the writer cuts one short, at any byte.  `push_raw`,
`close`, `Exit`, `ExitWriting` and `ExitClosing` are the writer's; `PopEof`,
`PopEos`, `PopCut` and `PopMessage` the outcomes of one `pop_raw()`.  Of a
message only its two sizes matter there: the operators `MetadataSize` and
`PayloadSize` are constants.  `StdioTransport` gives them (`DocumentSize`,
`PayloadSizeOf`) and adds `push`, `pop` (`Pop`) and a call of `register_type` at
any time (`Register`); every other step of it is one of `StdioPipe`'s that
leaves the registry alone, so what is proved of the pipe holds there.

An object is a record of its type, its owned bytes or its view, and its
attributes; a list is one of its items.  A message is a metadata document (the
record of its attributes, or `NotJson`) and a payload.  `serialize`,
`deserialize` and `deserialize_zero_copy` are operators over these, case by
case as in `serialize.cpp`, with shapes and sizes as the text they travel as,
and with the limits on lists where the code checks them: the constructor and
the readers.  The registry is the variable `registry_` of the reading process.

## 3. Runs

Passing:

| Run | Instance | Shows |
|---|---|---|
| `CppMpmc` | 2 producers, 2 consumers, 3 messages of 6 and 8 cells, region of 15 | types, exclusion, counters, unread slots intact, free space, true reports of success, end of stream only when drained, also when `notify_all` fails at `SEM_VALUE_MAX` |
| `CppTimeouts` | 1 producer, 1 consumer, 4 messages (one empty, one too large), region of 13, timeouts zero and finite, fairness | truthful push reports, FIFO, timed pops return, implements `RingQueue` |
| `CppDrain` | 1 producer, 2 consumers, 2 messages, a region of 10 that holds one slot of 7, pushes with and without a deadline, consumers that pop until the end or leave before | unless the producer sleeps for room for good, everyone finishes and what is published is read by whoever stays |
| `MixedRing` | a C++ and a Python producer, a C++ and a Python consumer, 3 messages of 6 and 8 cells, region of 15, callers that drain | `pop(copy=True)` returns what it took although producers overwrite the slot; a slot read in place is whole until a ring's worth was written since its start; unread slots intact; truthful push reports of both languages |
| `CppLifecycle` | 2 producers, 2 consumers of which one unlinks, up to 2 constructions and 2 attachments, region sizes 1 and 2, moves and deaths | one lock per segment, a written header, producers counted, names removed only when unused, constructors return |
| `StdioObjects` | 14 objects, 10 handmade messages, up to 2 messages pushed, writer dying at any byte of a frame or of the marker, custom and broken deserializers | messages come out in order and whole, objects arrive as pushed, payloads stay whole, honest end of stream, both deserializers agree, the reader finishes |
| `RingBytes` | byte base 3, field widths 3/1/2, six region sizes, every start, C++ and Python writers and readers | round trip, no byte outside the slot is touched, same format |

Each of the next ones shows one way in which the code departs from what its
comments, documents or tests say; TLC prints a behaviour that violates the
property.

| Run | Property | What happens |
|---|---|---|
| `CppExactFill` | `EosOnlyWhenDrained` | two slots of 7 cells in a region of 14: `available >= slot_size` admits the second, the positions meet, the consumer sees end of stream with both slots unread |
| `CppLostWakeup` | `NoLostWakeup` | a producer that waits for room takes the token meant for the consumer (or its own stale one); both sleep without a deadline although the ring has a slot |
| `CppUnboundedSleep` | `NoUnboundedSleep` | the deadline of a push passes between its two clock reads; `wait(negative)` sleeps without a deadline |
| `CppHeaderRace` | `ConsumersCounted` | a consumer registers while the creator is between `total_data_bytes` and the counters, which are then set to 0 |
| `RegistryOverride` | `SeedingKeepsOverrides` | a deserializer registered for `text` before the first message is replaced by the builtin one |

**Bounds and why they are enough.**  The regions (13 to 15 cells; 10 in `CppDrain`) hold two slots
and not three, so the third push wraps, inside a field in some behaviours, and
the ring is full and empty again and again.  Message sizes are even and the
region odd in `CppMpmc`, so the sum of unread slots never equals the region:
the exact fill, which breaks every data property, is excluded there and shown
by `CppExactFill`.  In `CppTimeouts` the sizes 7 and 5 cannot add up to 13.
Two handles of each kind are what it takes for two waiters of the same kind, a
token taken by a third party, and a second registration racing a close.
In `MixedRing` sizes 6 and 8 cannot add up to 15 either; three messages are what
it takes to write over a slot that was taken and is yet to be parsed, and the
payloads contain the value of a sentinel, so that an overwritten slot may look
valid.  `NOTIFY_POSTS` is 1 there for the 100 of the code: every notification
still leaves a token that any handle may take, of either language, and none of
the properties counts tokens; the proofs are for every number.  Callers drain (`MixedDrainSpec`, safety
only) and C++ consumers do not block, which keeps the instance small; the
proofs are about `MixedSpec`, with neither restriction.
`CppLifecycle` has two constructions and two attachments, by four different
handles or fewer: a segment is created and attached to by the second
construction, with the same size or the other, or unlinked and made again; the
second construction may follow the death of the first producer while it is
attached, or of a consumer while it is attached or between its unlinking
steps; and one consumer closes or unlinks while the other registers.  Every interleaving of `InitWait` paths
needs two constructors, every one of registration and unlinking two consumers.
What a third could add is not left to the bounds: the theorems of section 4 are
for any number of handles and calls.  `StdioObjects` scales
the limits of 10 items and 10 levels down to 2 and 2 and that of the metadata
to 20 attributes, with lists at, beyond and within each; two messages are a cut
or malformed one and the neighbour it might harm; the writer dies at every byte.

`CppDrain` has room for one slot, so the second push must wait: with a deadline
or without, and with the token of the first push or of a consumer within its
reach.  Two consumers are what it takes for one to be forgotten while the other
takes the token, and for one to leave between the producer's count and its
write while the other attaches later.  A second producer multiplies the states
by eleven and the time of the run by twelve; both properties hold on that instance, too, and
it is left out of the runs for its length.

`SEM_VALUE_MAX` is 7 in `CppMpmc`: small enough for `notify_all` to fail in every
place that calls it (a slot is published and its push reports failure, a slot is
read and lost, an attachment or a `close()` leaves the lock taken), and large enough for three
messages to go through before.  It is 20 in the other runs of `CppRing` and 40 in `MixedRing`, more
than their behaviours post, since `PushReportTruthful` does not hold at the
limit.
`MAX_METADATA_SIZE` and `MAX_SLOT_SIZE` are just at the sizes used, one message
being over the limit.  The handles of one kind are symmetric in `CppMpmc`;
liveness runs use no symmetry.

**Deadlock.**  TLC's deadlock check is off where the real system may stop for good:
calls are bounded in `CppLifecycle` and `StdioObjects`, and in the runs of the
ring there are sleepers nobody wakes (`CppLostWakeup`), a lock left taken when
`notify_all` throws, a caller that makes no further call with a handle closed.
What takes its place is `EveryoneFinishes`.  Draining callers *can* all be left
asleep, with a slot unread: a producer that waits for room without a deadline
takes the token of its own push, and the consumer it was meant for sleeps on.
`EveryoneFinishes` and `PublishedIsRead` say that such a producer
(`SleepsForGood`) is the only way.  If it is woken in the end, waits with a
deadline, or need not wait, nobody is forgotten, also where it has taken a
token that a consumer needed.

**Fairness.**  `Fairness` is weak fairness of every handle's own steps inside a
call: a handle is an OS thread and the scheduler runs it.  `LockFairness` adds
that a thread blocked in `sem_wait` on the mutex gets it if it is released again
and again.  No fairness makes a caller call: `DrainSpec` adds it for callers
that follow the loop of the README's quickstart (`README.md:140-146`), and only
there; `PopLoop` lets them leave the loop at any time.  Deadlines may pass but need not, except that a sleeper with a deadline
wakes at it.  `CppLifecycle` assumes weak fairness only: the constructions are
bounded, so a semaphore that is always posted again is free in the end.  Its
`Orderly` is not fairness but a restriction to sessions that do not overlap: no
producer is constructed while a consumer closes.  Without it a constructor in
the middle of the four unlinking steps can pair the old mutex with a new
segment; nothing in the code prevents that, and `OneLockPerSegment` and
`UnlinkOnlyWhenUnused` are claimed for orderly sessions only.  They say nothing
of the races that `Orderly` cuts away (an attachment between the decision to
unlink and the unlinking, a creation between two unlinking steps), which
remain hazards of the code without a property.
`HeaderUndisturbed` restricts `OrderlySpec` further, to behaviours without the
race of `CppHeaderRace`.  In
`StdioTransport` the reader pops until it is told the end; the writer is forced
to nothing.

## 4. Proofs

`CppRing_proofs` proves, for every set of handles, messages, sizes, timeouts and
semaphore limit allowed by `RingAssumption` and `LayoutAssumption`:

* `ControlTypesHold`: `Spec => []ControlTypeOK`;
* `LockExcludes`: `Spec => []MutualExclusion`;
* `CountersExact`: `Spec => []CountersMatchHandles`.

*Exclusion* is not inductive alone: nothing in it says that a free semaphore
means nobody is inside.  `LockInv` adds the types and that `mutex_sem` is 0
exactly as required while somebody is in a critical section; the lemmas
`EnterSection`, `LeaveSection`, `ReleaseSection` and `StayOutside` say what each
kind of step does to the set of handles inside, so that every action is a
citation of one of them.  A section that ends with a failed `notify_all` leaves
the semaphore at 0 with nobody inside, which is why the invariant is an
implication.

*Counting* needs that only an unregistered handle registers and only a
registered one is given back (`RegisteredByState`: registration is a function
of the control state).  `CountUp` and `CountDown` are the two facts about
cardinalities, `CountInv` the conjunction that is inductive relative to
`LockInv`.  The guard `count > 0` of `Decrement` never fails: that is part of
the argument.

`RingLayout_proofs` proves what the pure operators compute, for every region
size: `normalize_abs(CellAt(o) + n) = CellAt(o + n)`, `available_space` is what
the used bytes leave, `write_bytes` changes exactly the cells of its data, and
`SlotReadBack`: a slot no larger than the region reads back as it was written,
wherever it starts and whichever field crosses the end.

`RingBytes_proofs` does the same byte by byte, for any region size, start
position, field widths, byte base and message: `FormatShared`
(`Spec => []SameFormat`, the two `push_raw` write the same bytes and the same
`write_pos`) and `SlotKept` (`Spec => []StaysInSlot`, no byte beyond the slot is
touched).  The bindings handle the end of the region differently: C++
normalises the position after each field, Python's `_write_with_wrap` may stop
*at* the end of the region and lets the next write begin with an empty first
part.  `Stands` relates the two positions, `WrapIsPut` shows that one write of
Python is then one `write_bytes`, and `Written` is what holds after each of the
seven writes of a slot (`Field`, `SideBySide`); the invariant of the
specification, `SlotInv`, adds the shape of ring and message (`Sized`).

`ReadAsWritten` (`Spec => []RoundTrip`) adds the readers: what either language
wrote, `pop_raw` of C++ and both paths of Python's `pop` read back, byte for byte,
for any region, position, field widths and message that leaves a byte free.  Three things are needed.

* *Numbers.*  A little-endian field reads back as the number written, an
  induction over its width.  The library's induction theorem takes an operator
  as its parameter, but its theorem about least elements of a well-founded order
  takes a set, and gives `Induction` for a set of numbers: the smallest number
  outside it would have its predecessor inside.  With it `Powers` shows that the
  recursive function `Power` is what its definition says, and `DecodeEncode`
  that the digits of a number below `Power[w]` add up to it.
* *Memory.*  `SlotHeld` says which byte of the region each field of the slot
  is in, wherever the slot wraps; `WriteHolds`, `CppBytes` and `PyBytes`
  establish it after the writes of either language: each field is put where it belongs (`PutRead`) and
  no later one touches it (`PutKeeps`).
* *Readers.*  `CppRead`, `PyRead` and `SnapshotRead` walk the fields of a held slot
  (`Walk`): C++ normalises each position, Python may stand at the end of the
  region, and a snapshot is cut at the sizes it has just decoded (`Cut`).

The invariant is `TripInv`: before the write the positions are equal, after it
the slot is held and unread, after the read what was got is the message.

`CppRingData_proofs` proves the data properties:

* `TypesHold`, `FifoHolds`, `BacklogHolds`, `SpaceHolds`, `EosHolds`:
  `Spec /\ []NotFull` implies `TypeOK`, `FifoIntact`, `BacklogIntact`,
  `SpaceAccounting` (always) and `EosOnlyWhenDrained`;
* `RingIsQueue`: `Spec /\ []NotFull => ImplementsQueue`, the refinement of
  `RingQueue`.

`NotFull` says that the unread slots leave a byte free.  It is a hypothesis
about the behaviour, and it is needed: `push_raw` admits a slot that takes the
last byte and then all of these fail (`CppExactFill`).  So the theorems say that
the exact fill is the *only* way these properties fail: no interleaving, wrap
position, number of handles or failed notification breaks them.

On many rings the hypothesis holds by itself.  `NeverFilled` proves
`Spec => []NotFull` if every slot is a multiple of some size `g` that does not divide
the data region (`Indivisible(g)`): items of one size in a region that is no
multiple of their slots; or, as in `CppMpmc` and
`MixedRing`, slots of even sizes in an odd region.  Every slot then starts at a
multiple of `g` in the stream (`Aligned`), so the unread slots take up a
multiple of `g` as well, and that is never the whole region.  `UnfilledRing` puts
the two together: on such a ring all of the theorems above, the refinement included,
hold of `Spec` alone.

*The data* need more than the properties say.  `StreamInv` adds that the slots
lie one after the other in the stream without gap or overlap (`SlotsAdjacent`,
stated for all pairs, since no induction over the sequence is available), and
that each cell of an unread slot holds the cell of the slot that was written
(`InRing`), header included.  `PushKeepsStream` shows that the new slot covers
offsets `Written .. Written + size - 1` and that an unread cell is at most a turn
behind, so it is another cell; `PopReadsNext` that the reader finds the oldest
slot and its `next_pos`; `PushInv` that no push in progress is of a message
over the limits, whatever it slept through.

*What a push reports.*  `SuccessReported` needs no hypothesis at all:
`Spec => []SuccessTruthful`, which `CppMpmc` checks with `notify_all` failing, says that no message is twice in the stream of
slots, that one reported as pushed is there, and that one whose push has not
started or is still under way is not.  `PushReportTruthful` says more: a push
that failed left nothing behind.  That is false when `notify_all` throws at
`SEM_VALUE_MAX` after the slot was written, and `ReportsTruthful` proves
`Spec /\ []CanNotify => []PushReportTruthful`: it is the only way.  `CanNotify`
is what the code relies on (`wait_sem < SEM_VALUE_MAX`); with the real limit of
2^31 - 1 and a limit of 20 that `CppTimeouts` never reaches it is no restriction
of what is looked at.  `ReportInv` is inductive because the message of a call in
progress (`Pushing`) is not in the stream until the step that returns.

`MixedRing_proofs` carries this over to segments that Python handles share, for
any division of the handles between the languages:

* `MixedLockExcludes`: `MixedSpec => []MutualExclusion`;
* `MixedCountersExact`: `MixedSpec => []CountersMatchHandles`;
* `CopiesSurvive`: `MixedSpec => []CopiesIntact`;
* `MixedTypesHold`, `MixedFifoHolds`, `MixedBacklogHolds`, `UncopiedSurvive`:
  `MixedSpec /\ []NotFull` implies `MixedTypeOK`, `FifoIntact`, `BacklogIntact`
  and `UncopiedIntact`, always; `MixedSpaceHolds` and `MixedEosHolds` the same of
  `SpaceAccounting` and `EosOnlyWhenDrained`;
* `MixedRingIsQueue`: `MixedSpec /\ []NotFull => ImplementsQueue`;
* `MixedSuccessReported`: `MixedSpec => []SuccessTruthful`, and
  `MixedReportsTruthful`: `MixedSpec /\ []CanNotify => []PushReportTruthful`;
* `MixedNeverFilled` and `MixedUnfilledRing`: on rings with `Indivisible(g)`,
  `MixedSpec => []NotFull`, and the data theorems hold without the hypothesis.

`MixedNextCases` splits a step into one of `CppRing`'s `Next`, for which the
lemmas of `CppRing_proofs` and `CppRingData_proofs` are cited as they are, and
the Python-only actions.  For the queue a slot is taken when `pop()` moves
`read_pos` (`PyTakeStep` is the abstract get); parsing it and notifying the
producers afterwards are stutters.  That is also why the reports need less of Python than of C++:
its `notify_all` does not throw, so `CanNotify` is needed for C++ pushes only.
`CopiesIntact` speaks of the moment after parsing; `CopyInv` adds what holds
before it: a copy is of the slot that `consumed` records under its number, and
a consumer has parsed something only in control state `notify`.  `consumed`
only grows at its end (`ConsumedGrows`), so the record of a copy stays what it
was.  That theorem needs no hypothesis about the ring being full.

*A slot read in place* has left the ring: nothing in `StreamInv` protects its
cells.  `TakenInv` says that between taking and parsing a slot (`ToParse`) its
cells still hold what was pushed, *provided* no more than `total_data_bytes`
were written since its start (the condition in `UncopiedIntact`).  The step that
matters is a push: it writes the cells of `Written .. Written + size - 1`, and
if afterwards no more than a region's length lies between the start of the slot
and the end of the stream, the cells of the two are different ones
(`HeldSlotsStay`, from `PushMemory`).  `InPlaceIsSlot` then shows that the
slices of the mapping, put together, are what `ItemIn` finds in the region,
although the metadata and the payload are read by other calls than the header.

`CppLifecycle_proofs` and `CppSessions_proofs` are about the names in the kernel,
for any number of handles, constructions, attachments and region sizes, with
moves and deaths at any step.  There are three layers, each inductive relative
to the one before:

* `AlwaysInv`, however sessions overlap: types, the states each kind of handle
  can be in (`Roles`), and `Exclusion`, that each mutex and init semaphore ever
  created has one holder at a time and is 0 meanwhile.  From it
  `LifecycleTypes` (`Spec => []TypeOK`; in particular no semaphore is posted
  beyond 1) and `LifecycleExclusion`.
* `OrderlyInv`, under `OrderlySessions`, where the unlinking of a consumer does
  not overlap a constructor or an attachment: there is one init semaphore, so
  one constructor is at work; the segment that `shm_name` denotes is ready, in
  the making by that constructor, or was left behind by one that died; and
  who maps a segment that is ready has the mutex that `mutex_name` denoted when
  the segment was made.  From it `OrderlyLock`, `OrderlyHeader` and
  `OrderlyCount` (`OneLockPerSegment`, `HeaderWritten`, `ProducersCounted`).
* `UndisturbedInv`, under `OrderlySpec`: `active_consumers` misses nobody, so
  that the last consumer is the last.  From it `UndisturbedUnlink` and
  `UndisturbedCount` (`UnlinkOnlyWhenUnused`, `ConsumersCounted`).

The hypotheses are not fairness and not guaranteed by the code; what they
exclude are races the code has, one of which `CppHeaderRace` shows.  The
theorems say that these are the ways to lose the properties.  That the
hypotheses leave behaviours with creation, attachment, unlinking, creation
anew and deaths is what the run `CppLifecycle` explores.

`StdioPipe_proofs` proves, for any messages and sizes and with the writer dying
at any byte, `PipeTypes`, `PipeInOrder` and `PipeEosHonest`
(`PipeSpec => []TypeOK`, `[]ReceivedInOrder`, `[]EosIsHonest`).  None of them is
inductive.  `PipeInv` says what the pipe holds until the reader sees the end:
the messages written and not yet returned, whole and in order, and at most one
frame behind them that is cut short (`PendingInPipe`), after which nothing can be
written (`CutIsLast`); and afterwards, that nothing is pending and the writer
is done, or that the next message is the empty one (`EndSeen`).  `PipeAssumption`,
that sizes are natural numbers and only the empty message has two of zero, is
evaluated by TLC in `StdioObjects`.

The parts of `CppRing`'s and `CppLifecycle`'s inductive invariants that are not
themselves properties, all of `StdioPipe`'s, and `Sized` of `RingBytes`, were
checked by TLC on the instances above before they were proved.  `PushReportTruthful`
is checked on `MixedRing` as well as proved for it.  `ImplementsQueue` is checked by
TLC on `CppTimeouts`; on `MixedRing`, where it holds too, it doubles the time of
the run, and the theorem is what stands for it.

Only model-checked:

* what `Serialize` computes (`ObjectsArrive`, `PayloadsIntact`, `ViewsAgree`).
  Its readers recurse on nested lists with `RECURSIVE` operators, which the
  prover's SMT backend does not accept, and an induction over the nesting has no set
  to run over, as that over the width of a field has;
* everything about liveness (`TimedPopReturns`, `EveryoneFinishes` and
  `PublishedIsRead` of `CppDrain`, `ConstructorReturns`, `ReaderFinishes`), which is beyond the
  prover.

## 5. Not modelled

* **Python counterparts.**  Creation, failed construction and `__del__` of Python
  handles (`ring_buffer.py:327-455`, `667`) and the semaphore names of
  `posix_sync.py:208-286`; the Python stdio transport, serialization and registry,
  which write the formats of the C++ side a second time.
* **Unlinking by a Python consumer** is a step of `MixedRing` (`linked` becomes
  false with producers attached), but what others then attach to is not: the
  assumption that Python consumers are opened with `auto_unlink` stands for
  that.
* **C++ lifecycle.**  Failures of `ftruncate` and `mmap` other than for a size of
  zero, an explicit `unlink()` by a caller, `EINTR`, and death while holding a
  semaphore (so no producer dies in its constructor), from which nothing in the
  code recovers.  A failed `attach()` keeps what it has mapped and opened until the
  object is closed or attached again (`ring_buffer.cpp:402-405`); the model drops
  it at once (`Fail`), as no caller uses such an object.  A death between the
  unlinking of the mutex and of the wait semaphore leaves a name with which no
  constructor succeeds any more: constructors throw, which `ConstructorReturns`
  allows.
* **Stdio.**  A broken pipe at the writer and corrupted sentinels.
* **Serialization.**  The contents of JSON documents and text encodings;
  `element_size()`; re-serializing a view, which gives an empty payload
  (`serialize.cpp:184`); the evaluation order of `serialize.cpp:669`, where the
  model takes the one that works.
* **Not part of the library**: `ring_buffer_old.cpp` (in no build target),
  logging, benchmarks and examples.

What would come next: the Python lifecycle on the state of `CppLifecycle`
(`get_buffer_semaphores(create=True)` unlinks the names others use), a bound on
the depth of lists that makes `Serialize` a function one can prove about, and
liveness of C++ handles that sleep next to Python handles that poll.
