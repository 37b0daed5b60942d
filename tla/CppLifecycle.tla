---------------------------- MODULE CppLifecycle ----------------------------
(***************************************************************************)
(* How a C++ ring comes into being and goes away: the names in the kernel, *)
(* create-or-attach under the init semaphore, the initialisation of the    *)
(* header, the registration counters, the unlinking by the last consumer,  *)
(* moved handles and processes that die.  The ring carries no data here:   *)
(* a consumer may find end of stream whenever no producer is counted.      *)
(*                                                                         *)
(* A step is one system call on a name, one access to the header, or one   *)
(* critical section.  A handle stands for the objects its process makes    *)
(* one after the other: "detached" is the state between them.              *)
(***************************************************************************)
EXTENDS Integers, Sequences, FiniteSets

CONSTANTS Producers, Consumers,
          AutoUnlink,       \* consumers opened with auto_unlink = true
          Totals,           \* total_data_bytes arguments
          MaxConstructed,   \* bound: constructor calls of all producers
          MaxAttached       \* bound: attach() calls of all consumers

Handles == Producers \cup Consumers

ASSUME LifecycleAssumption ==
  /\ Producers \cap Consumers = {}
  /\ IsFiniteSet(Producers) /\ IsFiniteSet(Consumers)
  /\ AutoUnlink \subseteq Consumers
  /\ Totals \subseteq Nat \ {0}
  /\ MaxConstructed \in Nat /\ MaxAttached \in Nat

VARIABLES
  \* the kernel: which object each name denotes, 0 if none; of the wait
  \* semaphore only the name matters here
  shm_name, mutex_name, init_name, wait_name,
  segs,             \* every segment ever created, linked or not; "abandoned"
                    \* is history: producers that will never deregister
  sems,             \* the value of every semaphore ever created
  \* the handles
  pc, path, shm_, mutex_sem_, init_sem_, total_data_bytes_,
  registered_, eos_received_,
  constructed, attached_calls   \* calls so far, for the bounds

names == <<shm_name, mutex_name, init_name, wait_name>>
mapping == <<shm_, mutex_sem_, init_sem_, total_data_bytes_>>
flags == <<registered_, eos_received_>>
calls == <<constructed, attached_calls>>
vars == <<names, segs, sems, pc, path, mapping, flags, calls>>

Goto(h, s) == pc' = [pc EXCEPT ![h] = s]
Segment(h) == segs[shm_[h]]
Post(s) == sems' = [sems EXCEPT ![s] = @ + 1]

(* Nothing mapped, nothing open.                                           *)
Leave(h) ==
  /\ Goto(h, "detached")
  /\ shm_' = [shm_ EXCEPT ![h] = 0]
  /\ mutex_sem_' = [mutex_sem_ EXCEPT ![h] = 0]
  /\ init_sem_' = [init_sem_ EXCEPT ![h] = 0]
  /\ total_data_bytes_' = [total_data_bytes_ EXCEPT ![h] = 0]

(* The constructor throws (its guard still posts the init semaphore), or   *)
(* attach() returns false.  What a failed attach() has mapped or opened by *)
(* then stays so until the object is closed, destroyed or attached again;  *)
(* callers do not use it, so that it counts as gone.                       *)
Fail(h) ==
  IF h \in Producers
  THEN Goto(h, "init_post") /\ UNCHANGED mapping
  ELSE Leave(h)

-----------------------------------------------------------------------------
(***************************************************************************)
(* The constructor of a producer                                           *)
(***************************************************************************)
(* InitSemaphoreGuard: sem_open(O_CREAT) of the init semaphore.            *)
Construct(p, create_new, total) ==
  /\ pc[p] = "detached"
  /\ constructed < MaxConstructed
  /\ constructed' = constructed + 1
  /\ path' = [path EXCEPT ![p] = IF create_new THEN "create" ELSE "attach"]
  /\ total_data_bytes_' = [total_data_bytes_ EXCEPT ![p] = total]
  /\ IF init_name = 0
     THEN /\ sems' = Append(sems, 1)
          /\ init_name' = Len(sems')
     ELSE UNCHANGED <<sems, init_name>>
  /\ init_sem_' = [init_sem_ EXCEPT ![p] = init_name']
  /\ Goto(p, "init_wait")
  /\ UNCHANGED <<shm_name, mutex_name, wait_name, segs, shm_, mutex_sem_,
                 flags, attached_calls>>

(* Mutant: the guard only opens the semaphore.                             *)
InitWait_NoWait(p) ==
  /\ pc[p] = "init_wait"
  /\ Goto(p, IF path[p] = "create" THEN "shm_create" ELSE "shm_open")
  /\ UNCHANGED <<names, segs, sems, path, mapping, flags, calls>>

InitWait(p) ==
  /\ pc[p] = "init_wait"
  /\ sems[init_sem_[p]] > 0
  /\ sems' = [sems EXCEPT ![init_sem_[p]] = @ - 1]
  /\ Goto(p, IF path[p] = "create" THEN "shm_create" ELSE "shm_open")
  /\ UNCHANGED <<names, segs, path, mapping, flags, calls>>

(* create_shm gave up, for whatever reason: attach_shm.                    *)
FallBack(p) ==
  /\ path' = [path EXCEPT ![p] = "fallback"]
  /\ Goto(p, "shm_open")

(* shm_open(O_CREAT | O_EXCL), a segment of size zero.                     *)
ShmCreate(p) ==
  /\ pc[p] = "shm_create"
  /\ \/ /\ shm_name = 0
        /\ segs' = Append(segs, [size |-> 0, total |-> 0,
                                 producers |-> 0, consumers |-> 0,
                                 abandoned |-> 0])
        /\ shm_name' = Len(segs')
        /\ shm_' = [shm_ EXCEPT ![p] = shm_name']
        /\ Goto(p, "truncate")
        /\ UNCHANGED path
     \/ /\ shm_name # 0
        /\ FallBack(p)
        /\ UNCHANGED <<segs, shm_name, shm_>>
  /\ UNCHANGED <<mutex_name, init_name, wait_name, sems, mutex_sem_,
                 init_sem_, total_data_bytes_, flags, calls>>

(* ftruncate and mmap.                                                     *)
Truncate(p) ==
  /\ pc[p] = "truncate"
  /\ segs' = [segs EXCEPT ![shm_[p]].size = total_data_bytes_[p]]
  /\ Goto(p, "mutex_new")
  /\ UNCHANGED <<names, sems, path, mapping, flags, calls>>

(***************************************************************************)
(* PosixCondition(create).  create_shm first tries to create the           *)
(* semaphores and then to open them, attach_shm the other way round, and a *)
(* consumer only opens them.                                               *)
(***************************************************************************)
CondReady(h) ==
  /\ Goto(h, IF path[h] = "create" THEN "header" ELSE "verify")
  /\ UNCHANGED <<path, mapping>>

NewFailed(p) ==
  IF path[p] = "create"
  THEN Goto(p, "mutex_open") /\ UNCHANGED <<path, mapping>>
  ELSE Fail(p) /\ UNCHANGED path

OpenFailed(h) ==
  \/ /\ path[h] = "create"
     /\ FallBack(h) /\ UNCHANGED mapping
  \/ /\ path[h] # "create" /\ h \in Producers
     /\ Goto(h, "mutex_new") /\ UNCHANGED <<path, mapping>>
  \/ /\ h \in Consumers
     /\ Fail(h) /\ UNCHANGED path

MutexNew(p) ==
  /\ pc[p] = "mutex_new"
  /\ \/ /\ mutex_name = 0
        /\ sems' = Append(sems, 1)
        /\ mutex_name' = Len(sems')
        /\ mutex_sem_' = [mutex_sem_ EXCEPT ![p] = mutex_name']
        /\ Goto(p, "wait_new")
        /\ UNCHANGED <<path, shm_, init_sem_, total_data_bytes_>>
     \/ /\ mutex_name # 0
        /\ NewFailed(p)
        /\ UNCHANGED <<sems, mutex_name>>
  /\ UNCHANGED <<shm_name, init_name, wait_name, segs, flags, calls>>

(* When the second semaphore cannot be created the first one is unlinked,  *)
(* by name.                                                                *)
WaitNew(p) ==
  /\ pc[p] = "wait_new"
  /\ \/ /\ ~wait_name
        /\ wait_name' = TRUE
        /\ CondReady(p)
        /\ UNCHANGED mutex_name
     \/ /\ wait_name
        /\ mutex_name' = 0
        /\ NewFailed(p)
        /\ UNCHANGED wait_name
  /\ UNCHANGED <<shm_name, init_name, segs, sems, flags, calls>>

MutexOpen(h) ==
  /\ pc[h] = "mutex_open"
  /\ \/ /\ mutex_name # 0
        /\ mutex_sem_' = [mutex_sem_ EXCEPT ![h] = mutex_name]
        /\ Goto(h, "wait_open")
        /\ UNCHANGED <<path, shm_, init_sem_, total_data_bytes_>>
     \/ /\ mutex_name = 0
        /\ OpenFailed(h)
  /\ UNCHANGED <<names, segs, sems, flags, calls>>

(* Mutant: the first name is unlinked after a failed open, too.            *)
WaitOpen_Unlinks(h) ==
  /\ pc[h] = "wait_open"
  /\ \/ wait_name /\ CondReady(h) /\ UNCHANGED mutex_name
     \/ ~wait_name /\ OpenFailed(h) /\ mutex_name' = 0
  /\ UNCHANGED <<shm_name, init_name, wait_name, segs, sems, flags, calls>>

WaitOpen(h) ==
  /\ pc[h] = "wait_open"
  /\ \/ wait_name /\ CondReady(h)
     \/ ~wait_name /\ OpenFailed(h)
  /\ UNCHANGED <<names, segs, sems, flags, calls>>

(* The header is written without the ring's lock: positions and size ...   *)
WriteTotal(p) ==
  /\ pc[p] = "header"
  /\ segs' = [segs EXCEPT ![shm_[p]].total = total_data_bytes_[p]]
  /\ Goto(p, "counters")
  /\ UNCHANGED <<names, sems, path, mapping, flags, calls>>

(* ... then the counters.                                                  *)
WriteCounters(p) ==
  /\ pc[p] = "counters"
  /\ segs' = [segs EXCEPT ![shm_[p]].producers = 0, ![shm_[p]].consumers = 0]
  /\ Goto(p, "attach_lock")
  /\ UNCHANGED <<names, sems, path, mapping, flags, calls>>

-----------------------------------------------------------------------------
(***************************************************************************)
(* Attaching: attach_shm of a producer, attach() of a consumer             *)
(***************************************************************************)
(* On a new object, or again on the one closed before, which still has its *)
(* eos_received_.                                                          *)
Attach(c, fresh) ==
  /\ pc[c] = "detached"
  /\ attached_calls < MaxAttached
  /\ attached_calls' = attached_calls + 1
  /\ Goto(c, "shm_open")
  /\ eos_received_' = IF fresh THEN eos_received_ \ {c} ELSE eos_received_
  /\ UNCHANGED <<names, segs, sems, path, mapping, registered_, constructed>>

(* There is a segment, and mmap accepts its size.                          *)
Mappable == IF shm_name = 0 THEN FALSE ELSE segs[shm_name].size # 0

(* shm_open, fstat and mmap.                                               *)
ShmOpen(h) ==
  /\ pc[h] = "shm_open"
  /\ \/ /\ Mappable
        /\ shm_' = [shm_ EXCEPT ![h] = shm_name]
        /\ Goto(h, "mutex_open")
        /\ UNCHANGED <<mutex_sem_, init_sem_, total_data_bytes_>>
     \/ /\ ~Mappable
        /\ Fail(h)
  /\ UNCHANGED <<names, segs, sems, path, flags, calls>>

(* Mutant: a consumer takes whatever size is stored.                       *)
SizeAccepted_Anything(h) ==
  h \in Producers => Segment(h).size = total_data_bytes_[h]

(* A producer insists on the size it asked for and warns about the stored  *)
(* one, a consumer insists on a stored size that fits the segment.         *)
SizeAccepted(h) ==
  IF h \in Producers THEN Segment(h).size = total_data_bytes_[h]
                     ELSE Segment(h).total = Segment(h).size

Verify(h) ==
  /\ pc[h] = "verify"
  /\ \/ /\ SizeAccepted(h)
        /\ total_data_bytes_' = [total_data_bytes_ EXCEPT ![h] = Segment(h).total]
        /\ Goto(h, "attach_lock")
        /\ UNCHANGED <<shm_, mutex_sem_, init_sem_>>
     \/ /\ ~SizeAccepted(h)
        /\ Fail(h)
  /\ UNCHANGED <<names, segs, sems, path, flags, calls>>

Lock(h) ==
  /\ pc[h] \in {"attach_lock", "close_lock"}
  /\ sems[mutex_sem_[h]] > 0
  /\ sems' = [sems EXCEPT ![mutex_sem_[h]] = @ - 1]
  /\ Goto(h, IF pc[h] = "attach_lock" THEN "attach_cs" ELSE "close_cs")
  /\ UNCHANGED <<names, segs, path, mapping, flags, calls>>

Register(h) ==
  /\ pc[h] = "attach_cs"
  /\ segs' = IF h \in Producers
             THEN [segs EXCEPT ![shm_[h]].producers = @ + 1]
             ELSE [segs EXCEPT ![shm_[h]].consumers = @ + 1]
  /\ registered_' = registered_ \cup {h}
  /\ Post(mutex_sem_[h])
  /\ Goto(h, IF h \in Producers THEN "init_post" ELSE "attached")
  /\ UNCHANGED <<names, path, mapping, eos_received_, calls>>

(* Mutant: the destructor of the guard forgets to post after a failure.    *)
InitPost_NotOnFailure(p) ==
  /\ pc[p] = "init_post"
  /\ IF p \in registered_
     THEN /\ Post(init_sem_[p])
          /\ Goto(p, "attached")
          /\ UNCHANGED mapping
     ELSE Leave(p) /\ UNCHANGED sems
  /\ UNCHANGED <<names, segs, path, flags, calls>>

(* The guard is destroyed when the constructor returns or throws.          *)
InitPost(p) ==
  /\ pc[p] = "init_post"
  /\ Post(init_sem_[p])
  /\ IF p \in registered_
     THEN Goto(p, "attached") /\ UNCHANGED mapping
     ELSE Leave(p)
  /\ UNCHANGED <<names, segs, path, flags, calls>>

-----------------------------------------------------------------------------
(***************************************************************************)
(* The end of a handle                                                     *)
(***************************************************************************)
(* pop_raw with nothing in the ring, one critical section that changes no  *)
(* shared state.                                                           *)
PopEos(c) ==
  /\ pc[c] = "attached"
  /\ sems[mutex_sem_[c]] > 0
  /\ Segment(c).producers = 0
  /\ eos_received_' = eos_received_ \cup {c}
  /\ UNCHANGED <<names, segs, sems, pc, path, mapping, registered_, calls>>

(* registered_ is gone and the counter is not.                             *)
Abandon(h) ==
  /\ registered_' = registered_ \ {h}
  /\ segs' = IF h \in registered_ \cap Producers
             THEN [segs EXCEPT ![shm_[h]].abandoned = @ + 1] ELSE segs

(* The move constructors and assignments copy everything but registered_.  *)
Move(h) ==
  /\ pc[h] = "attached"
  /\ h \in registered_
  /\ Abandon(h)
  /\ UNCHANGED <<names, sems, pc, path, mapping, eos_received_, calls>>

(* close() of a handle that is not registered only unmaps.                 *)
CloseBegin(h) ==
  /\ pc[h] = "attached"
  /\ IF h \in registered_
     THEN Goto(h, "close_lock") /\ UNCHANGED mapping
     ELSE Leave(h)
  /\ UNCHANGED <<names, segs, sems, path, flags, calls>>

Decrement(count) == IF count > 0 THEN count - 1 ELSE count

ProducerClose(p) ==
  /\ pc[p] = "close_cs"
  /\ segs' = [segs EXCEPT ![shm_[p]].producers = Decrement(@)]
  /\ registered_' = registered_ \ {p}
  /\ Post(mutex_sem_[p])
  /\ Leave(p)
  /\ UNCHANGED <<names, path, eos_received_, calls>>

(* Mutant: the last consumer unlinks without looking at the producers.     *)
ShouldUnlink_AnyProducers(c, seg) ==
  c \in AutoUnlink /\ c \in eos_received_ /\ seg.consumers = 0

ShouldUnlink(c, seg) ==
  /\ c \in AutoUnlink /\ c \in eos_received_
  /\ seg.consumers = 0 /\ seg.producers = 0

ConsumerClose(c) ==
  /\ pc[c] = "close_cs"
  /\ segs' = [segs EXCEPT ![shm_[c]].consumers = Decrement(@)]
  /\ registered_' = registered_ \ {c}
  /\ Post(mutex_sem_[c])
  /\ IF ShouldUnlink(c, segs'[shm_[c]])
     THEN Goto(c, "unlink_shm") /\ UNCHANGED mapping
     ELSE Leave(c)
  /\ UNCHANGED <<names, path, eos_received_, calls>>

(* shm_unlink and cleanup_buffer_semaphores: whatever the names denote.    *)
Unlink(c) ==
  /\ \/ /\ pc[c] = "unlink_shm" /\ shm_name' = 0 /\ Goto(c, "unlink_mutex")
        /\ UNCHANGED <<mutex_name, wait_name, init_name, mapping>>
     \/ /\ pc[c] = "unlink_mutex" /\ mutex_name' = 0 /\ Goto(c, "unlink_wait")
        /\ UNCHANGED <<shm_name, wait_name, init_name, mapping>>
     \/ /\ pc[c] = "unlink_wait" /\ wait_name' = FALSE /\ Goto(c, "unlink_init")
        /\ UNCHANGED <<shm_name, mutex_name, init_name, mapping>>
     \/ /\ pc[c] = "unlink_init" /\ init_name' = 0 /\ Leave(c)
        /\ UNCHANGED <<shm_name, mutex_name, wait_name>>
  /\ UNCHANGED <<segs, sems, path, flags, calls>>

(* A process dies while it holds neither semaphore: its mappings go, the   *)
(* counters and the names stay.                                            *)
Crash(h) ==
  /\ pc[h] \in {"attached", "unlink_mutex", "unlink_wait", "unlink_init"}
  /\ Leave(h)
  /\ Abandon(h)
  /\ UNCHANGED <<names, sems, path, eos_received_, calls>>

-----------------------------------------------------------------------------
Init ==
  /\ shm_name = 0 /\ mutex_name = 0 /\ init_name = 0 /\ wait_name = FALSE
  /\ segs = <<>> /\ sems = <<>>
  /\ pc = [h \in Handles |-> "detached"]
  /\ path = [h \in Handles |-> "attach"]
  /\ shm_ = [h \in Handles |-> 0]
  /\ mutex_sem_ = [h \in Handles |-> 0]
  /\ init_sem_ = [h \in Handles |-> 0]
  /\ total_data_bytes_ = [h \in Handles |-> 0]
  /\ registered_ = {} /\ eos_received_ = {}
  /\ constructed = 0 /\ attached_calls = 0

(* Inside a call.                                                          *)
HandleStep(h) == ShmOpen(h) \/ MutexOpen(h) \/ WaitOpen(h) \/ Verify(h)
                   \/ Lock(h) \/ Register(h)
ProducerStep(p) ==
  \/ HandleStep(p)
  \/ InitWait(p) \/ ShmCreate(p) \/ Truncate(p) \/ MutexNew(p) \/ WaitNew(p)
  \/ WriteTotal(p) \/ WriteCounters(p) \/ InitPost(p)
  \/ ProducerClose(p)
ConsumerStep(c) == HandleStep(c) \/ ConsumerClose(c) \/ Unlink(c)

(* What callers decide, and crashes.                                       *)
HandleCall(h) == CloseBegin(h) \/ Move(h) \/ Crash(h)
ProducerCall(p) ==
  \/ HandleCall(p)
  \/ \E create_new \in BOOLEAN, total \in Totals : Construct(p, create_new, total)
ConsumerCall(c) ==
  HandleCall(c) \/ PopEos(c) \/ \E fresh \in BOOLEAN : Attach(c, fresh)

Next == \/ \E p \in Producers : ProducerStep(p) \/ ProducerCall(p)
        \/ \E c \in Consumers : ConsumerStep(c) \/ ConsumerCall(c)

Spec == Init /\ [][Next]_vars

Constructing == {p \in Producers :
                   pc[p] \notin {"detached", "attached", "close_lock", "close_cs"}}
Attaching == {c \in Consumers :
                pc[c] \in {"shm_open", "mutex_open", "wait_open", "verify",
                          "attach_lock", "attach_cs"}}
(* Consumers whose close() may unlink.                                     *)
Closing == {c \in AutoUnlink \cap eos_received_ :
              pc[c] \in {"close_lock", "close_cs", "unlink_shm", "unlink_mutex",
                        "unlink_wait", "unlink_init"}}

(* Sessions that do not overlap, as in the examples and tests: nobody      *)
(* constructs a producer or attaches while a consumer removes the names.   *)
Orderly ==
  /\ Closing # {} => Constructing' \subseteq Constructing /\ Attaching' \subseteq Attaching
  /\ Constructing \cup Attaching # {} => Closing' \subseteq Closing

(* Nobody registers between the two accesses of the creator to the header  *)
(* (run CppHeaderRace shows what happens then).                            *)
HeaderUndisturbed ==
  (\E p \in Producers : pc[p] = "counters") => registered_' \subseteq registered_

(* A thread inside a call runs.  Calls being bounded here, a semaphore that *)
(* is always posted again is free in the end.                              *)
Fairness == /\ \A p \in Producers : WF_vars(ProducerStep(p))
            /\ \A c \in Consumers : WF_vars(ConsumerStep(c))
OrderlySpec == Init /\ [][Next /\ Orderly /\ HeaderUndisturbed]_vars /\ Fairness

-----------------------------------------------------------------------------
(***************************************************************************)
(* Properties                                                              *)
(***************************************************************************)
PC == {"detached", "init_wait", "shm_create", "truncate", "mutex_new",
       "wait_new", "mutex_open", "wait_open", "header", "counters", "shm_open",
       "verify", "attach_lock", "attach_cs", "init_post", "attached",
       "close_lock", "close_cs", "unlink_shm", "unlink_mutex", "unlink_wait",
       "unlink_init"}

(* Every variable keeps its type, no name denotes an object that was never *)
(* created and no semaphore is posted twice.                               *)
TypeOK ==
  /\ segs \in Seq([size : Totals \cup {0}, total : Totals \cup {0},
                    producers : Nat, consumers : Nat, abandoned : Nat])
  /\ sems \in Seq({0, 1})
  /\ shm_name \in 0 .. Len(segs)
  /\ {mutex_name, init_name} \subseteq 0 .. Len(sems) /\ wait_name \in BOOLEAN
  /\ pc \in [Handles -> PC] /\ path \in [Handles -> {"create", "fallback", "attach"}]
  /\ shm_ \in [Handles -> 0 .. Len(segs)]
  /\ mutex_sem_ \in [Handles -> 0 .. Len(sems)]
  /\ init_sem_ \in [Handles -> 0 .. Len(sems)]
  /\ total_data_bytes_ \in [Handles -> Totals \cup {0}]
  /\ registered_ \subseteq Handles /\ eos_received_ \subseteq Consumers
  /\ constructed \in 0 .. MaxConstructed
  /\ attached_calls \in 0 .. MaxAttached

Registered(kind, s) == {h \in registered_ \cap kind : shm_[h] = s}

(* Everyone registered on a segment locks the same semaphore, whoever      *)
(* created it and whichever attempts failed before.                        *)
OneLockPerSegment ==
  \A g, h \in registered_ : shm_[g] = shm_[h] => mutex_sem_[g] = mutex_sem_[h]

(* Nobody registers on a segment whose header is not written, and everyone *)
(* computes with the size that is stored there.                            *)
HeaderWritten ==
  \A h \in registered_ :
    /\ Segment(h).total = Segment(h).size
    /\ total_data_bytes_[h] = Segment(h).total

(* active_producers counts the registered producers and those that died or *)
(* were moved without giving their registration back: end of stream is     *)
(* never announced while a producer is registered.                         *)
ProducersCounted ==
  \A s \in 1 .. Len(segs) :
    segs[s].producers = Cardinality(Registered(Producers, s)) + segs[s].abandoned

(* ring_buffer.hpp:124, "Producer/Consumer counters (atomic within         *)
(* semaphore lock)": no registered consumer is missing in active_consumers.*)
ConsumersCounted ==
  \A s \in 1 .. Len(segs) :
    segs[s].consumers >= Cardinality(Registered(Consumers, s))

(* The names are removed only when nobody is registered on the segment     *)
(* they denote.                                                            *)
UnlinkOnlyWhenUnused ==
  [][shm_name # 0 /\ shm_name' # shm_name =>
       \A h \in registered_ : shm_[h] # shm_name]_vars

(* A constructor returns or throws, whatever names it finds and whoever    *)
(* died outside the semaphores.                                            *)
ConstructorReturns ==
  \A p \in Producers : pc[p] = "init_wait" ~> pc[p] \in {"attached", "detached"}
=============================================================================
