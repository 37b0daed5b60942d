------------------------- MODULE CppLifecycle_proofs -------------------------
(***************************************************************************)
(* What CppLifecycle guarantees for any handles, sizes and number of       *)
(* calls, under every interleaving: its types, and that every semaphore is *)
(* posted by the one handle that waited for it.  CppSessions_proofs goes   *)
(* on from here.                                                           *)
(***************************************************************************)
EXTENDS CppLifecycle, FiniteSetTheorems, SequenceTheorems, TLAPS

-----------------------------------------------------------------------------
(***************************************************************************)
(* The invariant of every behaviour                                        *)
(***************************************************************************)
(* Where a constructor holds the init semaphore; where a handle has mapped *)
(* the segment it sets up or attaches to; where it uses it; where a        *)
(* consumer removes the names.                                             *)
InitHeld == {"shm_create", "truncate", "mutex_new", "wait_new", "mutex_open",
             "wait_open", "header", "counters", "shm_open", "verify",
             "attach_lock", "attach_cs", "init_post"}
SetUp == {"truncate", "mutex_new", "wait_new", "mutex_open", "wait_open",
          "header", "counters", "verify", "attach_lock", "attach_cs"}
InUse == {"attached", "close_lock", "close_cs"}
UnlinkPC == {"unlink_shm", "unlink_mutex", "unlink_wait", "unlink_init"}

(* h has decremented the semaphore of this kind and not posted it yet.     *)
Holding(h, kind) ==
  \/ kind = "init" /\ h \in Producers /\ pc[h] \in InitHeld
  \/ kind = "mutex" /\ pc[h] \in {"attach_cs", "close_cs"}
Sem(h, kind) == IF kind = "init" THEN init_sem_[h] ELSE mutex_sem_[h]
Kinds == {"init", "mutex"}

(* What a handle has mapped and opened where it is.                        *)
Resources ==
  \A h \in Handles :
    /\ h \in registered_ => shm_[h] # 0 /\ mutex_sem_[h] # 0
    /\ pc[h] \in SetUp \cup InUse => shm_[h] # 0
    /\ pc[h] \in InUse \cup {"wait_new", "wait_open", "header", "counters",
                             "verify", "attach_lock", "attach_cs"}
         => mutex_sem_[h] # 0
    /\ h \in Producers /\ pc[h] \in InitHeld \cup {"init_wait"} => init_sem_[h] # 0

(* A held semaphore is 0 and has one holder.                               *)
Exclusion ==
  \A g, h \in Handles : \A j, k \in Kinds :
    Holding(g, j) =>
      /\ sems[Sem(g, j)] = 0
      /\ Holding(h, k) /\ Sem(g, j) = Sem(h, k) => g = h /\ j = k

(* Where each kind of handle can be, on which path, and registered.        *)
Roles ==
  /\ \A c \in Consumers :
       /\ path[c] = "attach"
       /\ pc[c] \in {"detached", "shm_open", "mutex_open", "wait_open", "verify",
                     "attach_lock", "attach_cs"} \cup InUse \cup UnlinkPC
       /\ pc[c] \in UnlinkPC => c \in AutoUnlink /\ c \in eos_received_
  /\ \A p \in Producers :
       /\ pc[p] \notin UnlinkPC
       /\ pc[p] \in {"shm_create", "truncate", "header", "counters"} => path[p] = "create"
       /\ pc[p] \in {"shm_open", "verify"} => path[p] # "create"
  /\ \A h \in Handles :
       /\ h \in registered_ => pc[h] \in InUse \cup {"init_post"}
       /\ pc[h] \in {"close_lock", "close_cs"} => h \in registered_

AlwaysInv == TypeOK /\ Resources /\ Exclusion /\ Roles

-----------------------------------------------------------------------------
(***************************************************************************)
(* What the actions do to the two sequences                                *)
(***************************************************************************)
SegmentType == [size : Totals \cup {0}, total : Totals \cup {0},
                producers : Nat, consumers : Nat, abandoned : Nat]

(* Segment s becomes e; or e is a new segment.                             *)
Writes(s, e) ==
  /\ s \in 1 .. Len(segs) /\ segs[s] \in SegmentType /\ e \in SegmentType
  /\ segs' \in Seq(SegmentType) /\ Len(segs') = Len(segs) /\ Len(segs) \in Nat
  /\ segs'[s] = e
  /\ \A r \in 1 .. Len(segs) : r # s => segs'[r] = segs[r]
NewSegment(e) ==
  /\ segs' \in Seq(SegmentType) /\ Len(segs') = Len(segs) + 1 /\ Len(segs) \in Nat
  /\ segs'[Len(segs) + 1] = e
  /\ \A r \in 1 .. Len(segs) : segs'[r] = segs[r]

(* The value of semaphore s becomes v; or there is a new semaphore.        *)
Sets(s, v) ==
  /\ s \in 1 .. Len(sems) /\ Len(sems) \in Nat
  /\ sems' \in Seq({0, 1}) /\ Len(sems') = Len(sems)
  /\ sems'[s] = v
  /\ \A r \in 1 .. Len(sems) : r # s => sems'[r] = sems[r]
NewSemaphore ==
  /\ sems' \in Seq({0, 1}) /\ Len(sems') = Len(sems) + 1 /\ Len(sems) \in Nat
  /\ sems'[Len(sems) + 1] = 1
  /\ \A r \in 1 .. Len(sems) : sems'[r] = sems[r]

(* A handle that has mapped a segment names one that exists.               *)
LEMMA Mapped ==
  ASSUME LifecycleAssumption, AlwaysInv, NEW h \in Handles,
         pc[h] \in SetUp \cup InUse \/ h \in registered_
  PROVE  shm_[h] \in 1 .. Len(segs) /\ Segment(h) \in SegmentType
<1>1. shm_[h] \in 0 .. Len(segs) /\ shm_[h] # 0 /\ Len(segs) \in Nat
  BY DEF AlwaysInv, TypeOK, Resources
<1>2. segs \in Seq(SegmentType)
  BY DEF AlwaysInv, TypeOK, SegmentType
<1> QED BY <1>1, <1>2 DEF Segment

(* The assignment of one element of segs.                                  *)
LEMMA Written ==
  ASSUME AlwaysInv, NEW s \in 1 .. Len(segs), NEW e \in SegmentType,
         segs' = [segs EXCEPT ![s] = e]
  PROVE  Writes(s, e)
<1>1. segs \in Seq(SegmentType) /\ Len(segs) \in Nat
  BY DEF AlwaysInv, TypeOK, SegmentType
<1> QED BY <1>1, ExceptSeq DEF Writes

(* Each access of the code to the header.                                  *)
LEMMA TruncateWrites ==
  ASSUME LifecycleAssumption, AlwaysInv, NEW p \in Producers, Truncate(p)
  PROVE  Writes(shm_[p], [Segment(p) EXCEPT !.size = total_data_bytes_[p]])
<1> DEFINE e == [Segment(p) EXCEPT !.size = total_data_bytes_[p]]
<1>1. shm_[p] \in 1 .. Len(segs) /\ Segment(p) \in SegmentType
  BY Mapped DEF Truncate, SetUp, Handles
<1>2. e \in SegmentType
  BY <1>1 DEF SegmentType, AlwaysInv, TypeOK, Handles
<1>3. segs' = [segs EXCEPT ![shm_[p]] = e]
  BY DEF Truncate, Segment
<1> QED BY <1>1, <1>2, <1>3, Written

(* The creator stores the size, ...                                        *)
LEMMA WriteTotalWrites ==
  ASSUME LifecycleAssumption, AlwaysInv, NEW p \in Producers, WriteTotal(p)
  PROVE  Writes(shm_[p], [Segment(p) EXCEPT !.total = total_data_bytes_[p]])
<1> DEFINE e == [Segment(p) EXCEPT !.total = total_data_bytes_[p]]
<1>1. shm_[p] \in 1 .. Len(segs) /\ Segment(p) \in SegmentType
  BY Mapped DEF WriteTotal, SetUp, Handles
<1>2. e \in SegmentType
  BY <1>1 DEF SegmentType, AlwaysInv, TypeOK, Handles
<1>3. segs' = [segs EXCEPT ![shm_[p]] = e]
  BY DEF WriteTotal, Segment
<1> QED BY <1>1, <1>2, <1>3, Written

(* ... sets both counters to 0, ...                                        *)
LEMMA WriteCountersWrites ==
  ASSUME LifecycleAssumption, AlwaysInv, NEW p \in Producers, WriteCounters(p)
  PROVE  Writes(shm_[p], [Segment(p) EXCEPT !.producers = 0, !.consumers = 0])
<1> DEFINE e == [Segment(p) EXCEPT !.producers = 0, !.consumers = 0]
<1>1. shm_[p] \in 1 .. Len(segs) /\ Segment(p) \in SegmentType
  BY Mapped DEF WriteCounters, SetUp, Handles
<1>2. e \in SegmentType
  BY <1>1 DEF SegmentType
<1>3. segs' = [segs EXCEPT ![shm_[p]] = e]
  BY DEF WriteCounters, Segment
<1> QED BY <1>1, <1>2, <1>3, Written

(* ... a handle counts itself, ...                                         *)
LEMMA RegisterWrites ==
  ASSUME LifecycleAssumption, AlwaysInv, NEW h \in Handles, Register(h)
  PROVE  Writes(shm_[h],
                IF h \in Producers
                THEN [Segment(h) EXCEPT !.producers = @ + 1]
                ELSE [Segment(h) EXCEPT !.consumers = @ + 1])
<1> DEFINE P == [Segment(h) EXCEPT !.producers = Segment(h).producers + 1]
           C == [Segment(h) EXCEPT !.consumers = Segment(h).consumers + 1]
<1>1. shm_[h] \in 1 .. Len(segs) /\ Segment(h) \in SegmentType
  BY Mapped DEF Register, SetUp, Handles
<1>2. P \in SegmentType /\ C \in SegmentType
  BY <1>1 DEF SegmentType
<1>3. segs' = [segs EXCEPT ![shm_[h]] = IF h \in Producers THEN P ELSE C]
  BY DEF Register, Segment
<1> QED BY <1>1, <1>2, <1>3, Written

(* ... a producer takes itself out of the count, ...                       *)
LEMMA ProducerCloseWrites ==
  ASSUME LifecycleAssumption, AlwaysInv, NEW p \in Producers, ProducerClose(p)
  PROVE  Writes(shm_[p], [Segment(p) EXCEPT !.producers = Decrement(@)])
<1> DEFINE e == [Segment(p) EXCEPT !.producers = Decrement(Segment(p).producers)]
<1>1. shm_[p] \in 1 .. Len(segs) /\ Segment(p) \in SegmentType
  BY Mapped DEF ProducerClose, InUse, Handles
<1>2. Decrement(Segment(p).producers) \in Nat
  BY <1>1 DEF SegmentType, Decrement
<1>3. e \in SegmentType
  BY <1>1, <1>2 DEF SegmentType
<1>4. segs' = [segs EXCEPT ![shm_[p]] = e]
  BY DEF ProducerClose, Segment
<1> QED BY <1>1, <1>3, <1>4, Written

(* ... and a consumer.                                                     *)
LEMMA ConsumerCloseWrites ==
  ASSUME LifecycleAssumption, AlwaysInv, NEW c \in Consumers, ConsumerClose(c)
  PROVE  Writes(shm_[c], [Segment(c) EXCEPT !.consumers = Decrement(@)])
<1> DEFINE e == [Segment(c) EXCEPT !.consumers = Decrement(Segment(c).consumers)]
<1>1. shm_[c] \in 1 .. Len(segs) /\ Segment(c) \in SegmentType
  BY Mapped DEF ConsumerClose, InUse, Handles
<1>2. Decrement(Segment(c).consumers) \in Nat
  BY <1>1 DEF SegmentType, Decrement
<1>3. e \in SegmentType
  BY <1>1, <1>2 DEF SegmentType
<1>4. segs' = [segs EXCEPT ![shm_[c]] = e]
  BY DEF ConsumerClose, Segment
<1> QED BY <1>1, <1>3, <1>4, Written

(* A producer that is moved or dies only adds to the history.              *)
LEMMA AbandonWrites ==
  ASSUME LifecycleAssumption, AlwaysInv, NEW h \in Handles, Abandon(h)
  PROVE  \/ /\ h \in registered_ \cap Producers
            /\ Writes(shm_[h], [Segment(h) EXCEPT !.abandoned = @ + 1])
         \/ h \notin registered_ \cap Producers /\ segs' = segs
<1> SUFFICES ASSUME h \in registered_ \cap Producers
             PROVE  Writes(shm_[h], [Segment(h) EXCEPT !.abandoned = @ + 1])
  BY DEF Abandon
<1> DEFINE e == [Segment(h) EXCEPT !.abandoned = Segment(h).abandoned + 1]
<1>1. shm_[h] \in 1 .. Len(segs) /\ Segment(h) \in SegmentType
  BY Mapped
<1>2. e \in SegmentType
  BY <1>1 DEF SegmentType
<1>3. segs' = [segs EXCEPT ![shm_[h]] = e]
  BY DEF Abandon, Segment
<1> QED BY <1>1, <1>2, <1>3, Written

(* A new segment is all zeros and gets the name.                           *)
LEMMA ShmCreateWrites ==
  ASSUME AlwaysInv, NEW p \in Producers, ShmCreate(p)
  PROVE  \/ shm_name' = Len(segs) + 1
            /\ NewSegment([size |-> 0, total |-> 0, producers |-> 0,
                           consumers |-> 0, abandoned |-> 0])
         \/ shm_name # 0 /\ UNCHANGED <<segs, shm_name>>
<1> DEFINE e == [size |-> 0, total |-> 0, producers |-> 0, consumers |-> 0,
                 abandoned |-> 0]
<1>1. segs \in Seq(SegmentType) /\ Len(segs) \in Nat
  BY DEF AlwaysInv, TypeOK, SegmentType
<1>2. e \in SegmentType
  BY DEF SegmentType
<1>3. \/ segs' = Append(segs, e) /\ shm_name' = Len(segs')
      \/ shm_name # 0 /\ UNCHANGED <<segs, shm_name>>
  BY DEF ShmCreate
<1> HIDE DEF e
<1>4. segs' = Append(segs, e) => Len(segs') = Len(segs) + 1 /\ NewSegment(e)
  BY <1>1, <1>2, AppendProperties DEF NewSegment
<1> QED BY <1>3, <1>4 DEF e

(* The other actions leave the segments alone.                             *)
LEMMA SegmentsKept ==
  ASSUME [Next]_vars
  PROVE  \/ UNCHANGED segs
         \/ \E p \in Producers : \/ ShmCreate(p) \/ Truncate(p) \/ WriteTotal(p)
                                 \/ WriteCounters(p) \/ ProducerClose(p)
         \/ \E c \in Consumers : ConsumerClose(c)
         \/ \E h \in Handles : Register(h) \/ Abandon(h)
BY DEF Next, ProducerStep, ProducerCall, ConsumerStep, ConsumerCall, HandleStep,
       HandleCall, vars, Handles, InitWait, MutexNew, WaitNew, MutexOpen, WaitOpen,
       ShmOpen, Verify, Lock, InitPost, Construct, Attach, PopEos, CloseBegin,
       Move, Crash, Unlink

(* Every segment keeps existing and its type.                              *)
LEMMA SegmentsStep ==
  ASSUME LifecycleAssumption, AlwaysInv, [Next]_vars
  PROVE  /\ segs' \in Seq(SegmentType)
         /\ Len(segs') \in Nat /\ Len(segs) \in Nat /\ Len(segs) <= Len(segs')
<1>1. segs \in Seq(SegmentType) /\ Len(segs) \in Nat
  BY DEF AlwaysInv, TypeOK, SegmentType
<1>2. \A s, e : Writes(s, e) => segs' \in Seq(SegmentType) /\ Len(segs') = Len(segs)
  BY DEF Writes
<1>3. \A e : NewSegment(e) => segs' \in Seq(SegmentType) /\ Len(segs') = Len(segs) + 1
  BY DEF NewSegment
<1>4. segs' \in Seq(SegmentType) /\ (Len(segs') = Len(segs) \/ Len(segs') = Len(segs) + 1)
  BY <1>1, <1>2, <1>3, SegmentsKept, ShmCreateWrites, TruncateWrites,
     WriteTotalWrites,
     WriteCountersWrites, ProducerCloseWrites, ConsumerCloseWrites, RegisterWrites,
     AbandonWrites
<1> QED BY <1>1, <1>4

(* Each operation of the code on a semaphore: a wait finds it 1, ...       *)
LEMMA InitWaitSets ==
  ASSUME LifecycleAssumption, AlwaysInv, NEW p \in Producers, InitWait(p)
  PROVE  Sets(init_sem_[p], 0) /\ sems[init_sem_[p]] = 1
<1>1. sems \in Seq({0, 1}) /\ Len(sems) \in Nat
  BY DEF AlwaysInv, TypeOK
<1>2. init_sem_[p] \in 1 .. Len(sems)
  BY <1>1 DEF AlwaysInv, TypeOK, Resources, Handles, InitWait
<1>3. sems[init_sem_[p]] = 1
  BY <1>1, <1>2 DEF InitWait
<1>4. sems' = [sems EXCEPT ![init_sem_[p]] = 0]
  BY <1>3 DEF InitWait
<1> QED BY <1>1, <1>2, <1>3, <1>4, ExceptSeq DEF Sets

(* ... and so does a lock, ...                                             *)
LEMMA LockSets ==
  ASSUME LifecycleAssumption, AlwaysInv, NEW h \in Handles, Lock(h)
  PROVE  Sets(mutex_sem_[h], 0) /\ sems[mutex_sem_[h]] = 1
<1>1. sems \in Seq({0, 1}) /\ Len(sems) \in Nat
  BY DEF AlwaysInv, TypeOK
<1>2. mutex_sem_[h] \in 1 .. Len(sems)
  BY <1>1 DEF AlwaysInv, TypeOK, Resources, InUse, Lock
<1>3. sems[mutex_sem_[h]] = 1
  BY <1>1, <1>2 DEF Lock
<1>4. sems' = [sems EXCEPT ![mutex_sem_[h]] = 0]
  BY <1>3 DEF Lock
<1> QED BY <1>1, <1>2, <1>3, <1>4, ExceptSeq DEF Sets

(* ... and a post finds it 0, because the caller holds it.                 *)
LEMMA InitPostSets ==
  ASSUME LifecycleAssumption, AlwaysInv, NEW p \in Producers, InitPost(p)
  PROVE  Sets(init_sem_[p], 1) /\ sems[init_sem_[p]] = 0
<1>1. sems \in Seq({0, 1}) /\ Len(sems) \in Nat
  BY DEF AlwaysInv, TypeOK
<1>2. init_sem_[p] \in 1 .. Len(sems)
  BY <1>1 DEF AlwaysInv, TypeOK, Resources, Handles, InitHeld, InitPost
<1>3. p \in Handles /\ "init" \in Kinds /\ Holding(p, "init")
  BY DEF Handles, Kinds, Holding, InitHeld, InitPost
<1>4. sems[init_sem_[p]] = 0
  BY <1>3 DEF AlwaysInv, Exclusion, Sem
<1>5. sems' = [sems EXCEPT ![init_sem_[p]] = 1]
  BY <1>4 DEF InitPost, Post
<1> QED BY <1>1, <1>2, <1>4, <1>5, ExceptSeq DEF Sets

(* ... under the lock, too.                                                *)
LEMMA MutexPostSets ==
  ASSUME LifecycleAssumption, AlwaysInv, NEW h \in Handles,
         pc[h] \in {"attach_cs", "close_cs"}, Post(mutex_sem_[h])
  PROVE  Sets(mutex_sem_[h], 1) /\ sems[mutex_sem_[h]] = 0
<1>1. sems \in Seq({0, 1}) /\ Len(sems) \in Nat
  BY DEF AlwaysInv, TypeOK
<1>2. mutex_sem_[h] \in 1 .. Len(sems)
  BY <1>1 DEF AlwaysInv, TypeOK, Resources, InUse
<1>3. "mutex" \in Kinds /\ Holding(h, "mutex")
  BY DEF Kinds, Holding
<1>4. sems[mutex_sem_[h]] = 0
  BY <1>3 DEF AlwaysInv, Exclusion, Sem
<1>5. sems' = [sems EXCEPT ![mutex_sem_[h]] = 1]
  BY <1>4 DEF Post
<1> QED BY <1>1, <1>2, <1>4, <1>5, ExceptSeq DEF Sets

(* A semaphore that is opened without existing is created with value 1:    *)
(* the init semaphore, ...                                                 *)
LEMMA ConstructSets ==
  ASSUME AlwaysInv, NEW p, NEW create_new, NEW total, Construct(p, create_new, total)
  PROVE  \/ init_name = 0 /\ NewSemaphore /\ init_name' = Len(sems) + 1
         \/ init_name # 0 /\ UNCHANGED <<sems, init_name>>
<1>1. sems \in Seq({0, 1}) /\ Len(sems) \in Nat
  BY DEF AlwaysInv, TypeOK
<1>2. \/ init_name = 0 /\ sems' = Append(sems, 1) /\ init_name' = Len(sems')
      \/ init_name # 0 /\ UNCHANGED <<sems, init_name>>
  BY DEF Construct
<1> QED BY <1>1, <1>2, AppendProperties DEF NewSemaphore

(* ... and the mutex semaphore.                                            *)
LEMMA MutexNewSets ==
  ASSUME AlwaysInv, NEW p, MutexNew(p)
  PROVE  \/ mutex_name = 0 /\ NewSemaphore /\ mutex_name' = Len(sems) + 1
         \/ mutex_name # 0 /\ UNCHANGED <<sems, mutex_name>>
<1>1. sems \in Seq({0, 1}) /\ Len(sems) \in Nat
  BY DEF AlwaysInv, TypeOK
<1>2. \/ mutex_name = 0 /\ sems' = Append(sems, 1) /\ mutex_name' = Len(sems')
      \/ mutex_name # 0 /\ UNCHANGED <<sems, mutex_name>>
  BY DEF MutexNew
<1> QED BY <1>1, <1>2, AppendProperties DEF NewSemaphore

(* The other actions leave the semaphores alone.                           *)
LEMMA SemaphoresKept ==
  ASSUME [Next]_vars
  PROVE  \/ UNCHANGED sems
         \/ \E p \in Producers :
              \/ InitWait(p) \/ InitPost(p) \/ MutexNew(p)
              \/ \E create_new \in BOOLEAN, total \in Totals : Construct(p, create_new, total)
         \/ \E h \in Handles :
              \/ Lock(h)
              \/ pc[h] \in {"attach_cs", "close_cs"} /\ Post(mutex_sem_[h])
BY DEF Next, ProducerStep, ProducerCall, ConsumerStep, ConsumerCall, HandleStep,
       HandleCall, vars, Handles, ShmCreate, Truncate, WaitNew, MutexOpen, WaitOpen,
       ShmOpen, Verify, WriteTotal, WriteCounters, Register, ProducerClose,
       ConsumerClose, Attach, PopEos, CloseBegin, Move, Crash, Unlink

(* Every semaphore keeps existing and is 0 or 1.                           *)
LEMMA SemaphoresStep ==
  ASSUME LifecycleAssumption, AlwaysInv, [Next]_vars
  PROVE  /\ sems' \in Seq({0, 1})
         /\ Len(sems') \in Nat /\ Len(sems) \in Nat /\ Len(sems) <= Len(sems')
<1>1. sems \in Seq({0, 1}) /\ Len(sems) \in Nat
  BY DEF AlwaysInv, TypeOK
<1>2. \A s, v : Sets(s, v) => sems' \in Seq({0, 1}) /\ Len(sems') = Len(sems)
  BY DEF Sets
<1>3. NewSemaphore => sems' \in Seq({0, 1}) /\ Len(sems') = Len(sems) + 1
  BY DEF NewSemaphore
<1>4. sems' \in Seq({0, 1}) /\ (Len(sems') = Len(sems) \/ Len(sems') = Len(sems) + 1)
  BY <1>1, <1>2, <1>3, SemaphoresKept, InitWaitSets, LockSets, InitPostSets,
     MutexPostSets, ConstructSets, MutexNewSets
<1> QED BY <1>1, <1>4

(* Nobody new holds a semaphore and the held ones keep their value.        *)
LEMMA StillExclusive ==
  ASSUME Exclusion,
         \A g \in Handles, j \in Kinds :
           Holding(g, j)' => /\ Holding(g, j) /\ Sem(g, j)' = Sem(g, j)
                             /\ sems'[Sem(g, j)] = sems[Sem(g, j)]
  PROVE  Exclusion'
BY DEF Exclusion

(* Waits find 1 and posts come from the holder: a semaphore never has two  *)
(* holders.                                                                *)
LEMMA ExclusionStep ==
  ASSUME LifecycleAssumption, AlwaysInv, [Next]_vars
  PROVE  Exclusion'
<1> USE DEF InitHeld
<1>0. /\ pc \in [Handles -> PC]
      /\ mutex_sem_ \in [Handles -> 0 .. Len(sems)]
      /\ init_sem_ \in [Handles -> 0 .. Len(sems)]
      /\ Len(sems) \in Nat
      /\ \A c \in Consumers : c \notin Producers /\ c \in Handles
      /\ \A p \in Producers : p \in Handles
      /\ Exclusion
  BY LifecycleAssumption DEF AlwaysInv, TypeOK, LifecycleAssumption, Handles
<1>1. \A g \in Handles, j \in Kinds : Holding(g, j) => Sem(g, j) \in 1 .. Len(sems)
  BY <1>0 DEF AlwaysInv, Resources, Holding, Sem, InUse, Kinds
<1> DEFINE Stay(h) == \A g \in Handles \ {h}, j \in Kinds :
                        /\ Holding(g, j)' <=> Holding(g, j)
                        /\ Sem(g, j)' = Sem(g, j)
<1>2. ASSUME NEW p \in Producers, InitWait(p) PROVE Exclusion'
  <2>1. Sets(init_sem_[p], 0) /\ sems[init_sem_[p]] = 1
    BY <1>2, InitWaitSets
  <2>2. Stay(p)
    BY <1>0, <1>2 DEF InitWait, Goto, mapping, Holding, Sem, Kinds
  <2>3. /\ Holding(p, "init")' /\ Sem(p, "init")' = init_sem_[p]
        /\ ~Holding(p, "mutex")'
    BY <1>0, <1>2 DEF InitWait, Goto, mapping, Holding, Sem
  <2>4. \A g \in Handles, j \in Kinds : Holding(g, j) => Sem(g, j) # init_sem_[p]
    BY <1>0, <2>1 DEF Exclusion
  <2> QED BY <1>0, <1>1, <2>1, <2>2, <2>3, <2>4 DEF Exclusion, Sets, Kinds
<1>3. ASSUME NEW h \in Handles, Lock(h) PROVE Exclusion'
  <2>1. Sets(mutex_sem_[h], 0) /\ sems[mutex_sem_[h]] = 1
    BY <1>3, LockSets
  <2>2. Stay(h)
    BY <1>0, <1>3 DEF Lock, Goto, mapping, Holding, Sem, Kinds
  <2>3. /\ Holding(h, "mutex")' /\ Sem(h, "mutex")' = mutex_sem_[h]
        /\ Holding(h, "init")' => Holding(h, "init") /\ Sem(h, "init")' = Sem(h, "init")
    BY <1>0, <1>3 DEF Lock, Goto, mapping, Holding, Sem
  <2>4. \A g \in Handles, j \in Kinds : Holding(g, j) => Sem(g, j) # mutex_sem_[h]
    BY <1>0, <2>1 DEF Exclusion
  <2> QED BY <1>0, <1>1, <2>1, <2>2, <2>3, <2>4 DEF Exclusion, Sets, Kinds
<1>4. ASSUME NEW p \in Producers, InitPost(p) PROVE Exclusion'
  <2>1. Sets(init_sem_[p], 1)
    BY <1>4, InitPostSets
  <2>2. Stay(p) /\ ~Holding(p, "init")' /\ ~Holding(p, "mutex")' /\ Holding(p, "init")
    BY <1>0, <1>4 DEF InitPost, Goto, Leave, mapping, Holding, Sem, Kinds
  <2>3. \A g \in Handles \ {p}, j \in Kinds : Holding(g, j) => Sem(g, j) # init_sem_[p]
    BY <1>0, <2>2 DEF Exclusion, Kinds, Sem
  <2> QED BY <1>0, <1>1, <2>1, <2>2, <2>3, StillExclusive DEF Sets, Kinds
<1>5. ASSUME NEW h \in Handles, Register(h) PROVE Exclusion'
  <2>1. Sets(mutex_sem_[h], 1)
    BY <1>5, MutexPostSets DEF Register
  <2>2. /\ Stay(h) /\ ~Holding(h, "mutex")' /\ Holding(h, "mutex")
        /\ Holding(h, "init")' => Holding(h, "init") /\ Sem(h, "init")' = Sem(h, "init")
    BY <1>0, <1>5 DEF Register, Goto, mapping, Holding, Sem, Kinds
  <2>3. \A g \in Handles, j \in Kinds :
          Holding(g, j) /\ (g # h \/ j # "mutex") => Sem(g, j) # mutex_sem_[h]
    BY <1>0, <2>2 DEF Exclusion, Kinds, Sem
  <2> QED BY <1>0, <1>1, <2>1, <2>2, <2>3, StillExclusive DEF Sets, Kinds
<1>6. ASSUME NEW h \in Handles,
             (h \in Producers /\ ProducerClose(h)) \/ (h \in Consumers /\ ConsumerClose(h))
      PROVE  Exclusion'
  <2>1. Sets(mutex_sem_[h], 1)
    BY <1>6, MutexPostSets DEF ProducerClose, ConsumerClose
  <2>2. /\ Stay(h) /\ ~Holding(h, "mutex")' /\ ~Holding(h, "init")' /\ Holding(h, "mutex")
    BY <1>0, <1>6
       DEF ProducerClose, ConsumerClose, Goto, Leave, mapping, Holding, Sem, Kinds
  <2>3. \A g \in Handles \ {h}, j \in Kinds : Holding(g, j) => Sem(g, j) # mutex_sem_[h]
    BY <1>0, <2>2 DEF Exclusion, Kinds, Sem
  <2> QED BY <1>0, <1>1, <2>1, <2>2, <2>3, StillExclusive DEF Sets, Kinds
<1>7. ASSUME NEW p \in Producers, MutexNew(p) PROVE Exclusion'
  <2>1. NewSemaphore \/ UNCHANGED sems
    BY <1>7, MutexNewSets
  <2>2. \A g \in Handles, j \in Kinds :
          Holding(g, j)' => Holding(g, j) /\ Sem(g, j)' = Sem(g, j)
    BY <1>0, <1>7 DEF MutexNew, Goto, NewFailed, Fail, mapping, Holding, Sem, Kinds
  <2> QED BY <1>0, <1>1, <2>1, <2>2, StillExclusive DEF NewSemaphore
<1>8. ASSUME NEW p \in Producers, NEW create_new \in BOOLEAN, NEW total \in Totals,
             Construct(p, create_new, total)
      PROVE  Exclusion'
  <2>1. NewSemaphore \/ UNCHANGED sems
    BY <1>8, ConstructSets
  <2>2. \A g \in Handles, j \in Kinds :
          Holding(g, j)' => Holding(g, j) /\ Sem(g, j)' = Sem(g, j)
    BY <1>0, <1>8 DEF Construct, Goto, Holding, Sem, Kinds
  <2> QED BY <1>0, <1>1, <2>1, <2>2, StillExclusive DEF NewSemaphore
<1>9. ASSUME NEW h \in Handles,
             ShmOpen(h) \/ MutexOpen(h) \/ WaitOpen(h) \/ Verify(h)
               \/ CloseBegin(h) \/ Move(h) \/ Crash(h)
      PROVE  Exclusion'
  <2>1. \A g \in Handles, j \in Kinds :
          Holding(g, j)' => Holding(g, j) /\ Sem(g, j)' = Sem(g, j) /\ sems' = sems
    BY <1>0, <1>9
       DEF ShmOpen, MutexOpen, WaitOpen, Verify, CloseBegin, Move, Crash, Goto,
       Leave, Fail, FallBack, OpenFailed, CondReady, mapping, Holding, Sem, Kinds
  <2> QED BY <1>0, <2>1, StillExclusive
<1>10. ASSUME NEW p \in Producers,
              ShmCreate(p) \/ Truncate(p) \/ WaitNew(p) \/ WriteTotal(p) \/ WriteCounters(p)
       PROVE  Exclusion'
  <2>1. \A g \in Handles, j \in Kinds :
          Holding(g, j)' => Holding(g, j) /\ Sem(g, j)' = Sem(g, j) /\ sems' = sems
    BY <1>0, <1>10
       DEF ShmCreate, Truncate, WaitNew, WriteTotal, WriteCounters, Goto,
       Fail, FallBack, NewFailed, CondReady, mapping, Holding, Sem, Kinds
  <2> QED BY <1>0, <2>1, StillExclusive
<1>11. ASSUME NEW c \in Consumers,
              PopEos(c) \/ (\E fresh \in BOOLEAN : Attach(c, fresh)) \/ Unlink(c)
       PROVE  Exclusion'
  <2>1. \A g \in Handles, j \in Kinds :
          Holding(g, j)' => Holding(g, j) /\ Sem(g, j)' = Sem(g, j) /\ sems' = sems
    BY <1>0, <1>11
       DEF PopEos, Attach, Unlink, Goto, Leave, mapping, Holding, Sem, Kinds
  <2> QED BY <1>0, <2>1, StillExclusive
<1>12. CASE UNCHANGED vars
  BY <1>0, <1>12 DEF vars, mapping, Exclusion, Holding, Sem
<1> QED
  <2>1. ASSUME NEW h \in Handles, HandleStep(h) \/ HandleCall(h) PROVE Exclusion'
    BY <2>1, <1>3, <1>5, <1>9 DEF HandleStep, HandleCall
  <2>2. ASSUME NEW p \in Producers, ProducerStep(p) PROVE Exclusion'
    BY <2>2, <1>0, <2>1, <1>2, <1>4, <1>6, <1>7, <1>10 DEF ProducerStep
  <2>3. ASSUME NEW p \in Producers, ProducerCall(p) PROVE Exclusion'
    BY <2>3, <1>0, <2>1, <1>8 DEF ProducerCall
  <2>4. ASSUME NEW c \in Consumers, ConsumerStep(c) \/ ConsumerCall(c) PROVE Exclusion'
    BY <2>4, <1>0, <2>1, <1>6, <1>11 DEF ConsumerStep, ConsumerCall
  <2> QED BY <2>2, <2>3, <2>4, <1>12 DEF Next
(* Every step is one of these.                                             *)
LEMMA Cases ==
  ASSUME LifecycleAssumption, [Next]_vars
  PROVE  \/ \E h \in Handles :
              \/ ShmOpen(h) \/ MutexOpen(h) \/ WaitOpen(h) \/ Verify(h)
              \/ Lock(h) \/ Register(h)
              \/ CloseBegin(h) \/ Move(h) \/ Crash(h)
         \/ \E p \in Producers :
              \/ InitWait(p) \/ ShmCreate(p) \/ Truncate(p)
              \/ MutexNew(p) \/ WaitNew(p) \/ WriteTotal(p) \/ WriteCounters(p)
              \/ InitPost(p) \/ ProducerClose(p)
              \/ \E create_new \in BOOLEAN, total \in Totals : Construct(p, create_new, total)
         \/ \E c \in Consumers :
              \/ ConsumerClose(c) \/ Unlink(c) \/ PopEos(c)
              \/ \E fresh \in BOOLEAN : Attach(c, fresh)
         \/ UNCHANGED vars
<1>1. \A c \in Consumers : c \in Handles
  BY DEF Handles
<1>2. \A p \in Producers : p \in Handles
  BY DEF Handles
<1> QED BY <1>1, <1>2
           DEF Next, ProducerStep, ProducerCall, ConsumerStep, ConsumerCall,
           HandleStep, HandleCall

(* The parts of the type invariant that are not about the sequences.       *)
ControlType ==
  /\ pc \in [Handles -> PC]
  /\ path \in [Handles -> {"create", "fallback", "attach"}]
  /\ registered_ \subseteq Handles /\ eos_received_ \subseteq Consumers
CountType == constructed \in 0 .. MaxConstructed /\ attached_calls \in 0 .. MaxAttached
ShmType == shm_name \in 0 .. Len(segs) /\ shm_ \in [Handles -> 0 .. Len(segs)]
MutexType == mutex_name \in 0 .. Len(sems) /\ mutex_sem_ \in [Handles -> 0 .. Len(sems)]
InitType == /\ init_name \in 0 .. Len(sems) /\ init_sem_ \in [Handles -> 0 .. Len(sems)]
            /\ wait_name \in BOOLEAN
SizeType == total_data_bytes_ \in [Handles -> Totals \cup {0}]

(* Together with the sequences they are the type invariant.                *)
LEMMA TypeParts ==
  TypeOK <=> /\ segs \in Seq(SegmentType) /\ sems \in Seq({0, 1})
             /\ ControlType /\ CountType /\ ShmType /\ MutexType /\ InitType /\ SizeType
BY DEF TypeOK, SegmentType, ControlType, CountType, ShmType, MutexType, InitType,
   SizeType

(* The control variables keep their types.                                 *)
LEMMA ControlStep ==
  ASSUME LifecycleAssumption, ControlType, [Next]_vars
  PROVE  ControlType'
<1>0. /\ \A c \in Consumers : c \notin Producers /\ c \in Handles
      /\ \A p \in Producers : p \in Handles
  BY DEF LifecycleAssumption, Handles
<1> USE DEF Goto, Fail, Leave, FallBack, CondReady, NewFailed, OpenFailed, flags,
            Abandon, ControlType, PC
<1>1. ASSUME NEW h \in Handles, ShmOpen(h) \/ MutexOpen(h) \/ WaitOpen(h) \/ Verify(h)
      PROVE  ControlType'
  BY <1>1 DEF ShmOpen, MutexOpen, WaitOpen, Verify
<1>2. ASSUME NEW h \in Handles, Lock(h) \/ Register(h) PROVE ControlType'
  BY <1>2 DEF Lock, Register
<1>3. ASSUME NEW h \in Handles, CloseBegin(h) \/ Move(h) \/ Crash(h) PROVE ControlType'
  BY <1>3 DEF CloseBegin, Move, Crash
<1>4. ASSUME NEW p \in Producers, InitWait(p) \/ ShmCreate(p) \/ Truncate(p) \/ MutexNew(p)
      PROVE  ControlType'
  BY <1>0, <1>4 DEF InitWait, ShmCreate, Truncate, MutexNew
<1>5. ASSUME NEW p \in Producers, WaitNew(p) \/ WriteTotal(p) \/ WriteCounters(p)
                                    \/ InitPost(p) \/ ProducerClose(p)
      PROVE  ControlType'
  BY <1>0, <1>5 DEF WaitNew, WriteTotal, WriteCounters, InitPost, ProducerClose
<1>6. ASSUME NEW p \in Producers, NEW create_new \in BOOLEAN, NEW total \in Totals,
             Construct(p, create_new, total)
      PROVE  ControlType'
  BY <1>0, <1>6 DEF Construct
<1>7. ASSUME NEW c \in Consumers, ConsumerClose(c) \/ Unlink(c) \/ PopEos(c)
      PROVE  ControlType'
  BY <1>0, <1>7 DEF ConsumerClose, Unlink, PopEos
<1>8. ASSUME NEW c \in Consumers, NEW fresh \in BOOLEAN, Attach(c, fresh) PROVE ControlType'
  BY <1>0, <1>8 DEF Attach
<1>9. CASE UNCHANGED vars
  BY <1>9 DEF vars
<1> QED BY <1>1, <1>2, <1>3, <1>4, <1>5, <1>6, <1>7, <1>8, <1>9, Cases

(* The steps that change only what is in these variables.                  *)
LEMMA CountStep ==
  ASSUME LifecycleAssumption, CountType, [Next]_vars
  PROVE  CountType'
<1>1. \/ UNCHANGED calls
      \/ constructed < MaxConstructed /\ constructed' = constructed + 1
         /\ UNCHANGED attached_calls
      \/ attached_calls < MaxAttached /\ attached_calls' = attached_calls + 1
         /\ UNCHANGED constructed
  BY Cases
     DEF ShmOpen, MutexOpen, WaitOpen, Verify, Lock, Register, CloseBegin, Move,
         Crash,
     InitWait, ShmCreate, Truncate, MutexNew, WaitNew, WriteTotal, WriteCounters, InitPost,
     ProducerClose, Construct, ConsumerClose, Unlink, PopEos, Attach, vars, calls
<1> QED BY <1>1 DEF LifecycleAssumption, CountType, calls

(* A handle maps nothing, what it has mapped, or what the name denotes.    *)
LEMMA ShmStep ==
  ASSUME LifecycleAssumption, AlwaysInv, [Next]_vars
  PROVE  ShmType'
<1>0. /\ ShmType
      /\ Len(segs) \in Nat /\ Len(segs') \in Nat /\ Len(segs) <= Len(segs')
  BY TypeParts, SegmentsStep DEF AlwaysInv
<1>1. \/ UNCHANGED <<shm_name, shm_>>
      \/ \E p \in Producers : ShmCreate(p)
      \/ shm_name' \in {0, shm_name} /\ \E h \in Handles : shm_' = [shm_ EXCEPT ![h] = 0]
      \/ shm_name' = 0 /\ UNCHANGED shm_
      \/ UNCHANGED shm_name /\ \E h \in Handles : shm_' = [shm_ EXCEPT ![h] = shm_name]
  BY Cases
     DEF ShmOpen, MutexOpen, WaitOpen, Verify, Lock, Register, CloseBegin, Move,
         Crash,
     InitWait, Truncate, MutexNew, WaitNew, WriteTotal, WriteCounters, InitPost,
     ProducerClose, Construct, ConsumerClose, Unlink, PopEos, Attach, vars, names, mapping,
     Leave, Fail, NewFailed, OpenFailed, CondReady, Handles
<1>2. ASSUME NEW p \in Producers, ShmCreate(p) PROVE ShmType'
  <2>1. \/ shm_name' \in 0 .. Len(segs') /\ shm_' = [shm_ EXCEPT ![p] = shm_name']
        \/ UNCHANGED <<shm_name, shm_>>
    BY <1>0, <1>2, ShmCreateWrites DEF ShmCreate, NewSegment
  <2> QED BY <1>0, <2>1 DEF ShmType
<1> QED BY <1>0, <1>1, <1>2 DEF ShmType

(* The same for the mutex semaphore ...                                    *)
LEMMA MutexStep ==
  ASSUME LifecycleAssumption, AlwaysInv, [Next]_vars
  PROVE  MutexType'
<1>0. /\ MutexType
      /\ Len(sems) \in Nat /\ Len(sems') \in Nat /\ Len(sems) <= Len(sems')
  BY TypeParts, SemaphoresStep DEF AlwaysInv
<1>1. \/ UNCHANGED <<mutex_name, mutex_sem_>>
      \/ \E p \in Producers : MutexNew(p)
      \/ mutex_name' \in {0, mutex_name} /\ \E h \in Handles : mutex_sem_' = [mutex_sem_ EXCEPT ![h] = 0]
      \/ mutex_name' = 0 /\ UNCHANGED mutex_sem_
      \/ UNCHANGED mutex_name
         /\ \E h \in Handles : mutex_sem_' = [mutex_sem_ EXCEPT ![h] = mutex_name]
  BY Cases
     DEF ShmOpen, MutexOpen, WaitOpen, Verify, Lock, Register, CloseBegin, Move,
         Crash,
     InitWait, ShmCreate, Truncate, WaitNew, WriteTotal, WriteCounters, InitPost,
     ProducerClose, Construct, ConsumerClose, Unlink, PopEos, Attach, vars, names, mapping,
     Leave, Fail, FallBack, NewFailed, OpenFailed, CondReady, Handles
<1>2. ASSUME NEW p \in Producers, MutexNew(p) PROVE MutexType'
  <2>1. \/ mutex_name' \in 0 .. Len(sems') /\ mutex_sem_' = [mutex_sem_ EXCEPT ![p] = mutex_name']
        \/ UNCHANGED <<mutex_name, mutex_sem_>>
    BY <1>0, <1>2, MutexNewSets DEF MutexNew, NewSemaphore, NewFailed, Fail, mapping
  <2> QED BY <1>0, <2>1 DEF MutexType
<1> QED BY <1>0, <1>1, <1>2 DEF MutexType

(* ... and for the init semaphore.                                         *)
LEMMA InitSemStep ==
  ASSUME LifecycleAssumption, AlwaysInv, [Next]_vars
  PROVE  InitType'
<1>0. /\ InitType
      /\ Len(sems) \in Nat /\ Len(sems') \in Nat /\ Len(sems) <= Len(sems')
  BY TypeParts, SemaphoresStep DEF AlwaysInv
<1>1. \/ UNCHANGED <<init_name, init_sem_>>
      \/ \E p \in Producers, create_new \in BOOLEAN, total \in Totals :
            Construct(p, create_new, total)
      \/ init_name' \in {0, init_name} /\ \E h \in Handles : init_sem_' = [init_sem_ EXCEPT ![h] = 0]
  BY Cases
     DEF ShmOpen, MutexOpen, WaitOpen, Verify, Lock, Register, CloseBegin, Move,
         Crash,
     InitWait, ShmCreate, Truncate, MutexNew, WaitNew, WriteTotal, WriteCounters, InitPost,
     ProducerClose, ConsumerClose, Unlink, PopEos, Attach, vars, names, mapping,
     Leave, Fail, FallBack, NewFailed, OpenFailed, CondReady, Handles
<1>2. ASSUME NEW p \in Producers, NEW create_new \in BOOLEAN, NEW total \in Totals,
             Construct(p, create_new, total)
      PROVE  init_name' \in 0 .. Len(sems') /\ init_sem_' = [init_sem_ EXCEPT ![p] = init_name']
  BY <1>0, <1>2, ConstructSets DEF Construct, NewSemaphore, InitType
<1>3. wait_name' \in BOOLEAN
  BY <1>0, Cases DEF InitType, ShmOpen, MutexOpen, WaitOpen, Verify, Lock, Register,
     CloseBegin, Move, Crash, InitWait, ShmCreate, Truncate, MutexNew, WaitNew, WriteTotal,
     WriteCounters, InitPost, ProducerClose, Construct, ConsumerClose, Unlink,
     PopEos, Attach,
     vars, names
<1>4. init_name' \in 0 .. Len(sems') /\ init_sem_' \in [Handles -> 0 .. Len(sems')]
  BY <1>0, <1>1, <1>2 DEF InitType
<1> QED BY <1>3, <1>4 DEF InitType

(* A size comes from an argument or from a header.                         *)
LEMMA SizeStep ==
  ASSUME LifecycleAssumption, AlwaysInv, [Next]_vars
  PROVE  SizeType'
<1>0. /\ SizeType
      /\ \A h \in Handles : pc[h] = "verify" => Segment(h).total \in Totals \cup {0}
  BY TypeParts, Mapped DEF AlwaysInv, SetUp, SegmentType
<1>1. \/ UNCHANGED total_data_bytes_
      \/ \E p \in Handles, total \in Totals \cup {0} :
            total_data_bytes_' = [total_data_bytes_ EXCEPT ![p] = total]
  BY <1>0, Cases
     DEF ShmOpen, MutexOpen, WaitOpen, Verify, Lock, Register, CloseBegin, Move,
         Crash,
     InitWait, ShmCreate, Truncate, MutexNew, WaitNew, WriteTotal, WriteCounters, InitPost,
     ProducerClose, Construct, ConsumerClose, Unlink, PopEos, Attach, vars, names, mapping,
     Leave, Fail, FallBack, NewFailed, OpenFailed, CondReady, Handles
<1> QED BY <1>0, <1>1 DEF SizeType

(* Producers and consumers keep to their paths, and only handles in use    *)
(* are registered.                                                         *)
LEMMA RolesStep ==
  ASSUME LifecycleAssumption, AlwaysInv, [Next]_vars
  PROVE  Roles'
<1> USE DEF InUse, UnlinkPC, Roles
<1>0. /\ pc \in [Handles -> PC] /\ path \in [Handles -> {"create", "fallback", "attach"}]
      /\ registered_ \subseteq Handles /\ eos_received_ \subseteq Consumers
      /\ \A c \in Consumers : c \notin Producers /\ c \in Handles
      /\ \A p \in Producers : p \in Handles
      /\ Roles
  BY LifecycleAssumption DEF AlwaysInv, TypeOK, LifecycleAssumption, Handles
<1> USE DEF Goto, Fail, Leave, FallBack, CondReady, NewFailed, OpenFailed,
            Abandon, flags, names, mapping, calls
<1>1. ASSUME NEW h \in Handles, HandleStep(h) PROVE Roles'
  BY <1>0, <1>1 DEF HandleStep, ShmOpen, MutexOpen, WaitOpen, Verify, Lock, Register
<1>2. ASSUME NEW h \in Handles, HandleCall(h) PROVE Roles'
  BY <1>0, <1>2 DEF HandleCall, CloseBegin, Move, Crash
<1>3. ASSUME NEW p \in Producers, ProducerStep(p), ~HandleStep(p) PROVE Roles'
  BY <1>0, <1>3
     DEF ProducerStep, InitWait, ShmCreate, Truncate, MutexNew, WaitNew,
         WriteTotal, WriteCounters, InitPost, ProducerClose, InitHeld
<1>4. ASSUME NEW p \in Producers, ProducerCall(p), ~HandleCall(p) PROVE Roles'
  BY <1>0, <1>4 DEF ProducerCall, Construct
<1>5. ASSUME NEW p \in Consumers, ConsumerStep(p), ~HandleStep(p) PROVE Roles'
  BY <1>0, <1>5 DEF ConsumerStep, ConsumerClose, Unlink, ShouldUnlink
<1>6. ASSUME NEW p \in Consumers, ConsumerCall(p), ~HandleCall(p) PROVE Roles'
  BY <1>0, <1>6 DEF ConsumerCall, PopEos, Attach
<1>7. CASE UNCHANGED vars
  BY <1>0, <1>7 DEF vars
<1> QED BY <1>0, <1>1, <1>2, <1>3, <1>4, <1>5, <1>6, <1>7
           DEF Next, ProducerStep, ProducerCall, ConsumerStep, ConsumerCall

(* A handle has mapped and opened what its next access needs.              *)
LEMMA ResourcesStep ==
  ASSUME LifecycleAssumption, AlwaysInv, [Next]_vars
  PROVE  Resources'
<1> USE DEF InUse, UnlinkPC, InitHeld, SetUp, Resources, Roles
<1>0. /\ pc \in [Handles -> PC] /\ path \in [Handles -> {"create", "fallback", "attach"}]
      /\ shm_ \in [Handles -> 0 .. Len(segs)]
      /\ mutex_sem_ \in [Handles -> 0 .. Len(sems)]
      /\ init_sem_ \in [Handles -> 0 .. Len(sems)]
      /\ Len(sems) \in Nat /\ Len(segs) \in Nat
      /\ Len(Append(sems, 1)) = Len(sems) + 1
      /\ \A e : Len(Append(segs, e)) = Len(segs) + 1
      /\ \A c \in Consumers : c \notin Producers /\ c \in Handles
      /\ \A p \in Producers : p \in Handles
      /\ Roles /\ Resources
  BY LifecycleAssumption DEF AlwaysInv, TypeOK, LifecycleAssumption, Handles
<1> USE DEF Goto, Fail, Leave, FallBack, CondReady, NewFailed, OpenFailed,
            Abandon, flags, names, mapping, calls
<1>1. ASSUME NEW h \in Handles, HandleStep(h) PROVE Resources'
  BY <1>0, <1>1
     DEF HandleStep, ShmOpen, MutexOpen, WaitOpen, Verify, Lock, Register, Mappable
<1>2. ASSUME NEW h \in Handles, HandleCall(h) PROVE Resources'
  BY <1>0, <1>2 DEF HandleCall, CloseBegin, Move, Crash
<1>3. ASSUME NEW p \in Producers, ProducerStep(p), ~HandleStep(p) PROVE Resources'
  BY <1>0, <1>3
     DEF ProducerStep, InitWait, ShmCreate, Truncate, MutexNew, WaitNew,
         WriteTotal, WriteCounters, InitPost, ProducerClose, InitHeld
<1>4. ASSUME NEW p \in Producers, ProducerCall(p), ~HandleCall(p) PROVE Resources'
  BY <1>0, <1>4 DEF ProducerCall, Construct
<1>5. ASSUME NEW p \in Consumers, ConsumerStep(p), ~HandleStep(p) PROVE Resources'
  BY <1>0, <1>5 DEF ConsumerStep, ConsumerClose, Unlink, ShouldUnlink
<1>6. ASSUME NEW p \in Consumers, ConsumerCall(p), ~HandleCall(p) PROVE Resources'
  BY <1>0, <1>6 DEF ConsumerCall, PopEos, Attach
<1>7. CASE UNCHANGED vars
  BY <1>0, <1>7 DEF vars
<1> QED BY <1>0, <1>1, <1>2, <1>3, <1>4, <1>5, <1>6, <1>7
           DEF Next, ProducerStep, ProducerCall, ConsumerStep, ConsumerCall

(* The invariant of every behaviour holds at first ...                     *)
LEMMA AlwaysInit == Init => AlwaysInv
<1> SUFFICES ASSUME Init PROVE AlwaysInv
  OBVIOUS
<1>1. segs \in Seq(SegmentType) /\ sems \in Seq({0, 1}) /\ Len(segs) = 0 /\ Len(sems) = 0
  <2>1. segs = <<>> /\ sems = <<>>
    BY DEF Init
  <2> QED BY <2>1
<1>2. ControlType /\ CountType /\ ShmType /\ MutexType /\ InitType /\ SizeType
  <2>1. ControlType /\ CountType
    BY LifecycleAssumption DEF Init, ControlType, PC, CountType, LifecycleAssumption
  <2>2. ShmType /\ MutexType
    BY <1>1 DEF Init, ShmType, MutexType
  <2>3. wait_name \in BOOLEAN
    <3>1. wait_name = FALSE
      BY DEF Init
    <3> QED BY <3>1
  <2>4. SizeType /\ init_name = 0 /\ init_sem_ = [h \in Handles |-> 0]
    BY DEF Init, SizeType
  <2> QED BY <1>1, <2>1, <2>2, <2>3, <2>4 DEF InitType
<1>3. Resources /\ Roles /\ Exclusion
  BY DEF Init, Resources, Roles, Exclusion, Holding, Handles, SetUp, InUse,
     InitHeld, UnlinkPC
<1> QED BY <1>1, <1>2, <1>3, TypeParts DEF AlwaysInv

(* ... and after every step.                                               *)
LEMMA AlwaysStep == AlwaysInv /\ [Next]_vars => AlwaysInv'
<1> SUFFICES ASSUME AlwaysInv, [Next]_vars PROVE AlwaysInv'
  OBVIOUS
<1>1. TypeOK'
  BY LifecycleAssumption, SegmentsStep, SemaphoresStep, ControlStep, CountStep,
     ShmStep,
     MutexStep, InitSemStep, SizeStep, TypeParts DEF AlwaysInv, TypeOK,
     ControlType, CountType,
     ShmType, MutexType, InitType, SizeType, SegmentType
<1> QED BY <1>1, LifecycleAssumption, ResourcesStep, ExclusionStep, RolesStep
           DEF AlwaysInv

(* Under every interleaving of constructors, attachments, closings, moves  *)
(* and deaths: a name denotes an object that was created, a handle inside  *)
(* the ring has its mapping and semaphores, and the guard of the init      *)
(* semaphore and the ring's lock never post a semaphore they do not hold.  *)
THEOREM LifecycleTypes == Spec => []TypeOK
<1>1. AlwaysInv => TypeOK
  BY DEF AlwaysInv
<1> QED BY <1>1, AlwaysInit, AlwaysStep, PTL DEF Spec

(* At most one constructor is past the init semaphore it waited for, and   *)
(* at most one handle holds the lock of a ring.                            *)
THEOREM LifecycleExclusion == Spec => []Exclusion
<1>1. AlwaysInv => Exclusion
  BY DEF AlwaysInv
<1> QED BY <1>1, AlwaysInit, AlwaysStep, PTL DEF Spec
=============================================================================
