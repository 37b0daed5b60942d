------------------------- MODULE CppSessions_proofs -------------------------
(***************************************************************************)
(* What the lifecycle guarantees besides when sessions do not overlap      *)
(* (Orderly): one lock per segment, written headers and counted producers. *)
(* When, besides, nobody registers between the two accesses of the creator *)
(* to the header: names removed only when unused, and counted consumers.   *)
(***************************************************************************)
EXTENDS CppLifecycle_proofs

-----------------------------------------------------------------------------
(***************************************************************************)
(* The invariant of sessions that do not overlap                           *)
(***************************************************************************)
(* Constructing and attaching exclude removing the names.                  *)
Phase == Closing = {} \/ (Constructing = {} /\ Attaching = {})

(* Every constructor waits for or holds the semaphore of the linked name.  *)
OneInit ==
  \A p \in Producers :
    pc[p] \in InitHeld \cup {"init_wait"} => init_sem_[p] = init_name

(* The segment that is set up or attached to is the one with the name.     *)
SetUpLinked == \A h \in Handles : pc[h] \in SetUp => shm_[h] = shm_name

(* The names a consumer has removed are gone.                              *)
UnlinkOrder ==
  \A c \in Consumers :
    /\ pc[c] \in {"unlink_mutex", "unlink_wait", "unlink_init"} => shm_name = 0
    /\ pc[c] \in {"unlink_wait", "unlink_init"} => mutex_name = 0
    /\ pc[c] = "unlink_init" => ~wait_name

(* The segment with the name: complete; or sized with no size stored.      *)
Linked == segs[shm_name]
Ready == /\ Linked.size # 0 /\ Linked.total = Linked.size
         /\ mutex_name # 0 /\ wait_name
Unwritten == Linked.size # 0 /\ Linked.total = 0

(* Before the creator has written the header.                              *)
Creating(p) ==
  /\ path[p] = "create"
  /\ pc[p] \in {"truncate", "mutex_new", "wait_new", "mutex_open", "wait_open", "header"}

(* The linked segment is ready, or being created, or will never be written *)
(* because a wait semaphore was left over when it was created: then the    *)
(* mutex semaphore exists only while a constructor tries again.            *)
LinkedState ==
  shm_name # 0 =>
    \/ Ready
    \/ \E p \in Producers : Creating(p)
    \/ /\ Unwritten /\ wait_name
       /\ \/ mutex_name = 0
          \/ \E p \in Producers : path[p] # "create" /\ pc[p] = "wait_new"

(* The mutex semaphore comes with its wait semaphore, or its creator is    *)
(* about to create that.                                                   *)
SemaphoreNames ==
  \/ wait_name
  \/ mutex_name = 0
  \/ \E p \in Producers : Creating(p) /\ pc[p] = "wait_new"

(* What a constructor knows where it is.                                   *)
Constructor(p) ==
  /\ pc[p] \in InitHeld \cup {"init_wait"} => total_data_bytes_[p] # 0
  /\ Creating(p) =>
       /\ Linked.total = 0
       /\ pc[p] # "truncate" => Linked.size = total_data_bytes_[p]
       /\ pc[p] \in {"mutex_open", "wait_open", "header"} => wait_name
  /\ pc[p] \in {"wait_new", "wait_open", "header", "counters", "verify",
                "attach_lock", "attach_cs"} => mutex_sem_[p] = mutex_name
  /\ pc[p] \in {"counters", "verify", "attach_lock", "attach_cs"} => Ready
  /\ pc[p] = "wait_open" /\ path[p] # "create" => Ready
  /\ pc[p] \in {"mutex_new", "wait_new"} /\ path[p] # "create" => Unwritten /\ wait_name
  /\ pc[p] = "mutex_new" /\ path[p] # "create" => mutex_name = 0
  /\ pc[p] \in {"counters", "attach_lock", "attach_cs"} =>
       total_data_bytes_[p] = Linked.total
Constructors == \A p \in Producers : Constructor(p)

(* The header of the linked segment will never be written.                 *)
Hopeless ==
  /\ Unwritten /\ wait_name
  /\ \A p \in Producers : Creating(p) => pc[p] = "mutex_open" /\ mutex_name = 0

(* What a consumer inside attach() knows where it is.                      *)
Attacher(c) ==
  /\ pc[c] \in {"mutex_open", "wait_open", "verify"} => Linked.size # 0
  /\ pc[c] \in {"wait_open", "verify"} => mutex_sem_[c] = mutex_name \/ Hopeless
  /\ pc[c] \in {"attach_lock", "attach_cs"} =>
       /\ Ready /\ mutex_sem_[c] = mutex_name
       /\ total_data_bytes_[c] = Linked.total
Attachers == \A c \in Consumers : Attacher(c)

(* What is true of whoever is registered.                                  *)
Registrations ==
  \A h \in registered_ :
    /\ Segment(h).size # 0
    /\ Segment(h).total = Segment(h).size
    /\ total_data_bytes_[h] = Segment(h).total
    /\ shm_[h] = shm_name => Ready /\ mutex_sem_[h] = mutex_name

(* The counters of a header that is not written are 0, and the creator     *)
(* resets them before a producer has registered.                           *)
Untouched ==
  /\ \A s \in 1 .. Len(segs) :
       segs[s].total = 0 => segs[s].producers = 0 /\ segs[s].abandoned = 0
  /\ \A p \in Producers :
       pc[p] = "counters" => /\ Segment(p).abandoned = 0
                             /\ Registered(Producers, shm_[p]) = {}

OrderlyInv ==
  /\ AlwaysInv
  /\ Phase /\ OneInit /\ SetUpLinked /\ UnlinkOrder
  /\ LinkedState /\ SemaphoreNames /\ Constructors /\ Attachers
  /\ Registrations /\ OneLockPerSegment
  /\ Untouched /\ ProducersCounted

-----------------------------------------------------------------------------
(***************************************************************************)
(* The invariant when, besides, the header is written undisturbed          *)
(***************************************************************************)
(* Everyone registered is on the segment with the name; nobody is while    *)
(* the names are removed or the counters are about to be reset.            *)
RegisteredLinked == \A h \in registered_ : shm_[h] = shm_name
UnlinkUnused == \A c \in Consumers : pc[c] \in UnlinkPC => registered_ = {}
CountersUnused == \A p \in Producers : pc[p] = "counters" => registered_ = {}

UndisturbedInv ==
  OrderlyInv /\ RegisteredLinked /\ UnlinkUnused /\ CountersUnused /\ ConsumersCounted

-----------------------------------------------------------------------------
(***************************************************************************)
(* Sessions that do not overlap                                            *)
(***************************************************************************)
(* Only the beginning of close() makes a consumer one that may unlink.     *)
LEMMA ClosingBegins ==
  ASSUME LifecycleAssumption, AlwaysInv, [Next]_vars, NEW c \in Closing', c \notin Closing
  PROVE  CloseBegin(c)
<1>0. /\ ControlType /\ Roles
      /\ c \in Consumers /\ c \in Handles /\ c \notin Producers
      /\ \A x \in Consumers : x \notin Producers
  BY TypeParts, LifecycleAssumption
     DEF AlwaysInv, Closing, Handles, LifecycleAssumption
<1> USE DEF Closing, ControlType, Roles, InUse, UnlinkPC, Goto, Fail, Leave,
            FallBack,
            CondReady, NewFailed, OpenFailed, Abandon, flags, names, mapping, calls
<1>1. ASSUME NEW h \in Handles, ShmOpen(h) \/ MutexOpen(h) \/ WaitOpen(h) \/ Verify(h)
                                  \/ Lock(h) \/ Register(h)
      PROVE  FALSE
  BY <1>0, <1>1 DEF ShmOpen, MutexOpen, WaitOpen, Verify, Lock, Register
<1>2. ASSUME NEW h \in Handles, CloseBegin(h) \/ Move(h) \/ Crash(h) PROVE CloseBegin(c)
  BY <1>0, <1>2 DEF CloseBegin, Move, Crash
<1>3. ASSUME NEW p \in Producers,
             \/ InitWait(p) \/ ShmCreate(p) \/ Truncate(p) \/ MutexNew(p)
                                  \/ WaitNew(p) \/ WriteTotal(p) \/ WriteCounters(p)
                                  \/ InitPost(p) \/ ProducerClose(p)
      PROVE  FALSE
  BY <1>0, <1>3 DEF InitWait, ShmCreate, Truncate, MutexNew, WaitNew, WriteTotal,
     WriteCounters, InitPost, ProducerClose
<1>4. ASSUME NEW p \in Producers, NEW create_new \in BOOLEAN, NEW total \in Totals,
             Construct(p, create_new, total)
      PROVE  FALSE
  BY <1>0, <1>4 DEF Construct
<1>5. ASSUME NEW x \in Consumers, ConsumerClose(x) \/ Unlink(x) \/ PopEos(x) PROVE FALSE
  BY <1>0, <1>5 DEF ConsumerClose, Unlink, PopEos
<1>6. ASSUME NEW x \in Consumers, NEW fresh \in BOOLEAN, Attach(x, fresh) PROVE FALSE
  BY <1>0, <1>6 DEF Attach
<1>7. CASE UNCHANGED vars
  BY <1>0, <1>7 DEF vars
<1> QED BY <1>1, <1>2, <1>3, <1>4, <1>5, <1>6, <1>7, Cases

(* Orderly keeps the two phases apart.                                     *)
LEMMA PhaseStep ==
  ASSUME LifecycleAssumption, AlwaysInv, Phase, Orderly, [Next]_vars
  PROVE  Phase'
<1>1. CASE Closing # {} \/ Constructing \cup Attaching # {}
  BY <1>1 DEF Phase, Orderly
<1>2. CASE Constructing = {} /\ Attaching = {} /\ Closing = {} /\ Closing' # {}
  <2>1. PICK c \in Closing' : CloseBegin(c)
    BY <1>2, ClosingBegins
  <2> QED BY <1>2, <2>1, TypeParts
          DEF AlwaysInv, ControlType, CloseBegin, Goto, Leave, Phase,
              Constructing, Attaching,
              Handles, Closing
<1> QED BY <1>1, <1>2 DEF Phase

(* Nobody constructs or attaches while a consumer unlinks.                 *)
LEMMA UnlinksAlone ==
  ASSUME AlwaysInv, Phase, NEW c \in Consumers, pc[c] \in UnlinkPC
  PROVE  /\ \A p \in Producers : pc[p] \in {"detached"} \cup InUse
         /\ \A x \in Consumers : pc[x] \in {"detached"} \cup InUse \cup UnlinkPC
BY DEF AlwaysInv, Phase, Roles, Constructing, Attaching, Closing, UnlinkPC, InUse

(* The name of the init semaphore is removed only when no constructor is   *)
(* inside, so they all use the same one.                                   *)
LEMMA OneInitStep ==
  ASSUME LifecycleAssumption, AlwaysInv, Phase, OneInit, [Next]_vars
  PROVE  OneInit'
<1>0. /\ ControlType /\ Roles /\ Resources /\ InitType
      /\ \A c \in Consumers : c \notin Producers /\ c \in Handles
      /\ \A p \in Producers : p \in Handles
  BY TypeParts, LifecycleAssumption DEF AlwaysInv, Handles, LifecycleAssumption
<1> USE DEF OneInit, InitHeld, InitType, ControlType, Roles, InUse, UnlinkPC,
            Goto, Fail, Leave, FallBack,
            CondReady, NewFailed, OpenFailed, flags, names, mapping, calls
<1>1. ASSUME NEW h \in Handles, ShmOpen(h) \/ MutexOpen(h) \/ WaitOpen(h) \/ Verify(h)
                                  \/ Lock(h) \/ Register(h)
      PROVE  OneInit'
  BY <1>0, <1>1 DEF ShmOpen, MutexOpen, WaitOpen, Verify, Lock, Register
<1>2. ASSUME NEW h \in Handles, CloseBegin(h) \/ Move(h) \/ Crash(h) PROVE OneInit'
  BY <1>0, <1>2 DEF CloseBegin, Move, Crash
<1>3. ASSUME NEW p \in Producers,
             \/ InitWait(p) \/ ShmCreate(p) \/ Truncate(p) \/ MutexNew(p)
                                  \/ WaitNew(p) \/ WriteTotal(p) \/ WriteCounters(p)
                                  \/ InitPost(p) \/ ProducerClose(p)
      PROVE  OneInit'
  BY <1>0, <1>3 DEF InitWait, ShmCreate, Truncate, MutexNew, WaitNew, WriteTotal,
     WriteCounters, InitPost, ProducerClose
<1>4. ASSUME NEW p \in Producers, NEW create_new \in BOOLEAN, NEW total \in Totals,
             Construct(p, create_new, total)
      PROVE  OneInit'
  BY <1>0, <1>4 DEF Construct, Resources
<1>5. ASSUME NEW x \in Consumers, ConsumerClose(x) \/ PopEos(x) PROVE OneInit'
  BY <1>0, <1>5 DEF ConsumerClose, PopEos
<1>6. ASSUME NEW x \in Consumers, Unlink(x) PROVE OneInit'
  BY <1>0, <1>6, UnlinksAlone DEF Unlink
<1>7. ASSUME NEW x \in Consumers, NEW fresh \in BOOLEAN, Attach(x, fresh) PROVE OneInit'
  BY <1>0, <1>7 DEF Attach
<1>8. CASE UNCHANGED vars
  BY <1>0, <1>8 DEF vars
<1> QED BY <1>1, <1>2, <1>3, <1>4, <1>5, <1>6, <1>7, <1>8, Cases

(* So there is one constructor past the init semaphore.                    *)
LEMMA OneConstructor ==
  ASSUME AlwaysInv, OneInit, NEW p \in Producers, NEW q \in Producers,
         pc[p] \in InitHeld, pc[q] \in InitHeld
  PROVE  p = q
<1>1. p \in Handles /\ q \in Handles /\ "init" \in Kinds
  BY DEF Handles, Kinds
<1>2. Holding(p, "init") /\ Holding(q, "init") /\ Sem(p, "init") = Sem(q, "init")
  BY DEF Holding, Sem, OneInit
<1> QED BY <1>1, <1>2 DEF AlwaysInv, Exclusion

(* The steps that change the names.                                        *)
LEMMA NamesKept ==
  ASSUME LifecycleAssumption, [Next]_vars
  PROVE  \/ UNCHANGED <<shm_name, mutex_name, wait_name>>
         \/ \E p \in Producers : ShmCreate(p) \/ MutexNew(p) \/ WaitNew(p)
         \/ \E c \in Consumers : Unlink(c)
BY Cases
   DEF ShmOpen, MutexOpen, WaitOpen, Verify, Lock, Register, CloseBegin, Move,
       Crash,
   InitWait, Truncate, WriteTotal, WriteCounters, InitPost, ProducerClose, Construct,
   ConsumerClose, PopEos, Attach, vars, names

(* The segment somebody sets up keeps its name meanwhile.                  *)
LEMMA SetUpLinkedStep ==
  ASSUME LifecycleAssumption, AlwaysInv, Phase, SetUpLinked, [Next]_vars
  PROVE  SetUpLinked'
<1>0. /\ ControlType /\ Roles /\ Resources /\ ShmType
      /\ \A c \in Consumers : c \notin Producers /\ c \in Handles
      /\ \A p \in Producers : p \in Handles
      /\ \A h \in Handles : h \in Producers \/ h \in Consumers
  BY TypeParts, LifecycleAssumption DEF AlwaysInv, Handles, LifecycleAssumption
<1> USE DEF SetUpLinked, SetUp, ShmType, ControlType, Roles, InUse, UnlinkPC,
            Goto, Fail, Leave, FallBack,
            CondReady, NewFailed, OpenFailed, flags, names, mapping, calls
<1>1. ASSUME NEW h \in Handles, ShmOpen(h) \/ MutexOpen(h) \/ WaitOpen(h) \/ Verify(h)
                                  \/ Lock(h) \/ Register(h)
      PROVE  SetUpLinked'
  BY <1>0, <1>1 DEF ShmOpen, MutexOpen, WaitOpen, Verify, Lock, Register
<1>2. ASSUME NEW h \in Handles, CloseBegin(h) \/ Move(h) \/ Crash(h) PROVE SetUpLinked'
  BY <1>0, <1>2 DEF CloseBegin, Move, Crash
<1>3. ASSUME NEW p \in Producers, \/ InitWait(p) \/ Truncate(p) \/ MutexNew(p)
                                  \/ WaitNew(p) \/ WriteTotal(p) \/ WriteCounters(p)
                                  \/ InitPost(p) \/ ProducerClose(p)
      PROVE  SetUpLinked'
  BY <1>0, <1>3 DEF InitWait, Truncate, MutexNew, WaitNew, WriteTotal,
     WriteCounters, InitPost, ProducerClose
<1>4. ASSUME NEW p \in Producers, ShmCreate(p) PROVE SetUpLinked'
  BY <1>0, <1>4 DEF ShmCreate, Resources
<1>5. ASSUME NEW p \in Producers, NEW create_new \in BOOLEAN, NEW total \in Totals,
             Construct(p, create_new, total)
      PROVE  SetUpLinked'
  BY <1>0, <1>5 DEF Construct
<1>6. ASSUME NEW x \in Consumers, ConsumerClose(x) \/ PopEos(x) PROVE SetUpLinked'
  BY <1>0, <1>6 DEF ConsumerClose, PopEos
<1>7. ASSUME NEW x \in Consumers, Unlink(x) PROVE SetUpLinked'
  BY <1>0, <1>7, UnlinksAlone DEF Unlink
<1>8. ASSUME NEW x \in Consumers, NEW fresh \in BOOLEAN, Attach(x, fresh) PROVE SetUpLinked'
  BY <1>0, <1>8 DEF Attach
<1>9. CASE UNCHANGED vars
  BY <1>0, <1>9 DEF vars
<1> QED BY <1>1, <1>2, <1>3, <1>4, <1>5, <1>6, <1>7, <1>8, <1>9, Cases

(* A consumer that has removed a name does not find a new one.             *)
LEMMA UnlinkOrderStep ==
  ASSUME LifecycleAssumption, AlwaysInv, Phase, UnlinkOrder, [Next]_vars
  PROVE  UnlinkOrder'
<1>0. /\ ControlType /\ Roles
      /\ \A c \in Consumers : c \notin Producers /\ c \in Handles
      /\ \A p \in Producers : p \in Handles
  BY TypeParts, LifecycleAssumption DEF AlwaysInv, Handles, LifecycleAssumption
<1> USE DEF UnlinkOrder, UnlinkPC, ControlType, Roles, InUse, Goto, Fail, Leave,
            FallBack,
            CondReady, NewFailed, OpenFailed, flags, names, mapping, calls
<1>1. ASSUME NEW h \in Handles, ShmOpen(h) \/ MutexOpen(h) \/ WaitOpen(h) \/ Verify(h)
                                  \/ Lock(h) \/ Register(h)
      PROVE  UnlinkOrder'
  BY <1>0, <1>1 DEF ShmOpen, MutexOpen, WaitOpen, Verify, Lock, Register
<1>2. ASSUME NEW h \in Handles, CloseBegin(h) \/ Move(h) \/ Crash(h) PROVE UnlinkOrder'
  BY <1>0, <1>2 DEF CloseBegin, Move, Crash
<1>3. ASSUME NEW p \in Producers, \/ InitWait(p) \/ Truncate(p)
                                  \/ WriteTotal(p) \/ WriteCounters(p)
                                  \/ InitPost(p) \/ ProducerClose(p)
      PROVE  UnlinkOrder'
  BY <1>0, <1>3
     DEF InitWait, Truncate, WriteTotal, WriteCounters, InitPost, ProducerClose
<1>4. ASSUME NEW p \in Producers, ShmCreate(p) \/ MutexNew(p) \/ WaitNew(p)
      PROVE  UnlinkOrder'
  <2>1. \A c \in Consumers : pc[c] \notin UnlinkPC /\ pc'[c] = pc[c]
    BY <1>0, <1>4, UnlinksAlone DEF ShmCreate, MutexNew, WaitNew
  <2> QED BY <2>1
<1>5. ASSUME NEW p \in Producers, NEW create_new \in BOOLEAN, NEW total \in Totals,
             Construct(p, create_new, total)
      PROVE  UnlinkOrder'
  BY <1>0, <1>5 DEF Construct
<1>6. ASSUME NEW x \in Consumers, ConsumerClose(x) \/ PopEos(x) PROVE UnlinkOrder'
  BY <1>0, <1>6 DEF ConsumerClose, PopEos
<1>7. ASSUME NEW x \in Consumers, Unlink(x) PROVE UnlinkOrder'
  BY <1>0, <1>7 DEF Unlink
<1>8. ASSUME NEW x \in Consumers, NEW fresh \in BOOLEAN, Attach(x, fresh) PROVE UnlinkOrder'
  BY <1>0, <1>8 DEF Attach
<1>9. CASE UNCHANGED vars
  BY <1>0, <1>9 DEF vars
<1> QED BY <1>1, <1>2, <1>3, <1>4, <1>5, <1>6, <1>7, <1>8, <1>9, Cases

(* The steps that change what Ready and Unwritten look at.                 *)
SharedKept ==
  /\ UNCHANGED <<shm_name, mutex_name, wait_name>>
  /\ shm_name # 0 => Linked'.size = Linked.size /\ Linked'.total = Linked.total

HeadersKept ==
  /\ Len(segs) <= Len(segs')
  /\ \A s \in 1 .. Len(segs) : /\ segs'[s].size = segs[s].size
                               /\ segs'[s].total = segs[s].total

(* Sizes change only by the creator.                                       *)
LEMMA HeadersStep ==
  ASSUME LifecycleAssumption, AlwaysInv, [Next]_vars
  PROVE  HeadersKept \/ \E p \in Producers : Truncate(p) \/ WriteTotal(p)
<1>1. Len(segs) \in Nat /\ Len(segs') \in Nat
  BY SegmentsStep
<1>2. segs' = segs => HeadersKept
  BY <1>1 DEF HeadersKept
<1>3. ASSUME NEW s, NEW e, Writes(s, e), e.size = segs[s].size, e.total = segs[s].total
      PROVE  HeadersKept
  BY <1>1, <1>3 DEF Writes, HeadersKept
<1>4. ASSUME NEW p \in Producers, ShmCreate(p) PROVE HeadersKept
  <2>1. \/ Len(segs') = Len(segs) + 1 /\ \A r \in 1 .. Len(segs) : segs'[r] = segs[r]
        \/ segs' = segs
    BY <1>4, ShmCreateWrites DEF NewSegment
  <2> QED BY <1>1, <1>2, <2>1 DEF HeadersKept
<1>5. ASSUME NEW p \in Producers, WriteCounters(p) PROVE HeadersKept
  <2> DEFINE e == [Segment(p) EXCEPT !.producers = 0, !.consumers = 0]
  <2>1. Writes(shm_[p], e)
    BY <1>5, WriteCountersWrites
  <2>2. e.size = segs[shm_[p]].size /\ e.total = segs[shm_[p]].total
    BY <2>1 DEF Writes, SegmentType, Segment
  <2> QED BY <2>1, <2>2, <1>3
<1>6. ASSUME NEW p \in Producers, ProducerClose(p) PROVE HeadersKept
  <2> DEFINE e == [Segment(p) EXCEPT !.producers = Decrement(@)]
  <2>1. Writes(shm_[p], e)
    BY <1>6, ProducerCloseWrites
  <2>2. e.size = segs[shm_[p]].size /\ e.total = segs[shm_[p]].total
    BY <2>1 DEF Writes, SegmentType, Segment
  <2> QED BY <2>1, <2>2, <1>3
<1>7. ASSUME NEW c \in Consumers, ConsumerClose(c) PROVE HeadersKept
  <2> DEFINE e == [Segment(c) EXCEPT !.consumers = Decrement(@)]
  <2>1. Writes(shm_[c], e)
    BY <1>7, ConsumerCloseWrites
  <2>2. e.size = segs[shm_[c]].size /\ e.total = segs[shm_[c]].total
    BY <2>1 DEF Writes, SegmentType, Segment
  <2> QED BY <2>1, <2>2, <1>3
<1>8. ASSUME NEW h \in Handles, Register(h) PROVE HeadersKept
  <2> DEFINE e == IF h \in Producers THEN [Segment(h) EXCEPT !.producers = @ + 1]
                                     ELSE [Segment(h) EXCEPT !.consumers = @ + 1]
  <2>1. Writes(shm_[h], e)
    BY <1>8, RegisterWrites
  <2>2. e.size = segs[shm_[h]].size /\ e.total = segs[shm_[h]].total
    BY <2>1 DEF Writes, SegmentType, Segment
  <2> QED BY <2>1, <2>2, <1>3
<1>9. ASSUME NEW h \in Handles, Abandon(h) PROVE HeadersKept
  <2> DEFINE e == [Segment(h) EXCEPT !.abandoned = @ + 1]
  <2>1. CASE segs' = segs
    BY <2>1, <1>2
  <2>2. CASE Writes(shm_[h], e)
    <3>1. e.size = segs[shm_[h]].size /\ e.total = segs[shm_[h]].total
      BY <2>2 DEF Writes, SegmentType, Segment
    <3> QED BY <2>2, <3>1, <1>3
  <2> QED BY <2>1, <2>2, <1>9, AbandonWrites
<1> QED BY <1>2, <1>4, <1>5, <1>6, <1>7, <1>8, <1>9, SegmentsKept

(* Six kinds of steps change what Ready and Unwritten look at.             *)
LEMMA SharedStep ==
  ASSUME LifecycleAssumption, AlwaysInv, [Next]_vars
  PROVE  \/ SharedKept
         \/ \E p \in Producers : ShmCreate(p) \/ Truncate(p) \/ MutexNew(p)
                                   \/ WaitNew(p) \/ WriteTotal(p)
         \/ \E c \in Consumers : Unlink(c)
<1>1. shm_name \in 0 .. Len(segs) /\ Len(segs) \in Nat
  BY TypeParts, SegmentsStep DEF AlwaysInv, ShmType
<1> QED BY <1>1, HeadersStep, NamesKept DEF SharedKept, HeadersKept, Linked

(* What a handle keeps to itself.                                          *)
Kept(h) ==
  /\ pc'[h] = pc[h] /\ path'[h] = path[h] /\ shm_'[h] = shm_[h]
  /\ mutex_sem_'[h] = mutex_sem_[h] /\ init_sem_'[h] = init_sem_[h]
  /\ total_data_bytes_'[h] = total_data_bytes_[h]
  /\ h \in registered_' <=> h \in registered_
  /\ h \in eos_received_' <=> h \in eos_received_
Frame(h) == \A g \in Handles \ {h} : Kept(g)

(* Every step is the step of one handle, and the others keep their state.  *)
LEMMA FrameStep ==
  ASSUME LifecycleAssumption, AlwaysInv, NEW h \in Handles,
         \/ ShmOpen(h) \/ MutexOpen(h) \/ WaitOpen(h) \/ Verify(h) \/ Lock(h)
         \/ Register(h) \/ CloseBegin(h) \/ Move(h) \/ Crash(h)
         \/ InitWait(h) \/ ShmCreate(h) \/ Truncate(h) \/ MutexNew(h) \/ WaitNew(h)
         \/ WriteTotal(h) \/ WriteCounters(h) \/ InitPost(h) \/ ProducerClose(h)
         \/ (\E create_new \in BOOLEAN, total \in Totals : Construct(h, create_new, total))
         \/ ConsumerClose(h) \/ Unlink(h) \/ PopEos(h)
         \/ (\E fresh \in BOOLEAN : Attach(h, fresh))
  PROVE  Frame(h)
<1>0. ControlType /\ ShmType /\ MutexType /\ InitType /\ SizeType
  BY TypeParts DEF AlwaysInv
<1> USE DEF ControlType, ShmType, MutexType, InitType, SizeType, Frame, Kept,
            Goto, Fail, Leave,
            FallBack, CondReady, NewFailed, OpenFailed, Abandon, flags, names,
            mapping, calls
<1>1. CASE ShmOpen(h) \/ MutexOpen(h) \/ WaitOpen(h) \/ Verify(h)
  BY <1>0, <1>1 DEF ShmOpen, MutexOpen, WaitOpen, Verify
<1>2. CASE Lock(h) \/ Register(h) \/ CloseBegin(h) \/ Move(h) \/ Crash(h)
  BY <1>0, <1>2 DEF Lock, Register, CloseBegin, Move, Crash
<1>3. CASE InitWait(h) \/ ShmCreate(h) \/ Truncate(h) \/ MutexNew(h) \/ WaitNew(h)
  BY <1>0, <1>3 DEF InitWait, ShmCreate, Truncate, MutexNew, WaitNew
<1>4. CASE WriteTotal(h) \/ WriteCounters(h) \/ InitPost(h) \/ ProducerClose(h)
  BY <1>0, <1>4 DEF WriteTotal, WriteCounters, InitPost, ProducerClose
<1>5. CASE \E create_new \in BOOLEAN, total \in Totals : Construct(h, create_new, total)
  BY <1>0, <1>5 DEF Construct
<1>6. CASE ConsumerClose(h) \/ Unlink(h) \/ PopEos(h)
  BY <1>0, <1>6 DEF ConsumerClose, Unlink, PopEos
<1>7. CASE \E fresh \in BOOLEAN : Attach(h, fresh)
  BY <1>0, <1>7 DEF Attach
<1> QED BY <1>1, <1>2, <1>3, <1>4, <1>5, <1>6, <1>7

(* Whoever is set up has a linked segment.                                 *)
LEMMA SetUpHasName ==
  ASSUME AlwaysInv, SetUpLinked, NEW h \in Handles, pc[h] \in SetUp
  PROVE  shm_name # 0 /\ shm_[h] = shm_name /\ Segment(h) = Linked
BY DEF AlwaysInv, Resources, SetUpLinked, Segment, Linked

(* A constructor knows what it knew when neither its own state nor what    *)
(* Ready looks at changes.                                                 *)
LEMMA ConstructorKept ==
  ASSUME AlwaysInv, SetUpLinked, NEW q \in Producers, Constructor(q), Kept(q), SharedKept
  PROVE  Constructor(q)'
<1>1. pc[q] \in SetUp => shm_name # 0
  BY SetUpHasName DEF Handles
<1> QED BY <1>1
           DEF Constructor, Kept, SharedKept, Creating, Ready, Unwritten, SetUp,
               InitHeld

(* Outside the init semaphore it knows only the size it was asked for.     *)
LEMMA ConstructorOutside ==
  ASSUME NEW q \in Producers, pc'[q] \notin InitHeld,
         pc'[q] = "init_wait" => total_data_bytes_'[q] # 0
  PROVE  Constructor(q)'
BY DEF Constructor, Creating, InitHeld

(* What the creator does to the linked segment.                            *)
LEMMA LinkedCreated ==
  ASSUME AlwaysInv, NEW p \in Producers, ShmCreate(p)
  PROVE  \/ /\ shm_name = 0 /\ Linked'.size = 0 /\ Linked'.total = 0
            /\ shm_name' = Len(segs) + 1 /\ shm_name' # 0
         \/ shm_name # 0 /\ UNCHANGED <<segs, shm_name>>
<1> DEFINE e == [size |-> 0, total |-> 0, producers |-> 0, consumers |-> 0,
                 abandoned |-> 0]
<1>1. CASE shm_name' = Len(segs) + 1 /\ NewSegment(e) /\ shm_name = 0
  <2>1. segs'[shm_name'] = e /\ Len(segs) \in Nat
    BY <1>1 DEF NewSegment
  <2> QED BY <1>1, <2>1 DEF Linked
<1>2. shm_name = 0 \/ UNCHANGED <<segs, shm_name>>
  BY DEF ShmCreate
<1> QED BY <1>1, <1>2, ShmCreateWrites

(* It gives the segment its size ...                                       *)
LEMMA LinkedTruncated ==
  ASSUME LifecycleAssumption, AlwaysInv, SetUpLinked, NEW p \in Producers, Truncate(p)
  PROVE  /\ Linked'.size = total_data_bytes_[p] /\ Linked'.total = Linked.total
         /\ UNCHANGED <<shm_name, mutex_name, wait_name>>
<1> DEFINE e == [Segment(p) EXCEPT !.size = total_data_bytes_[p]]
<1>1. shm_[p] = shm_name /\ Segment(p) = Linked
  BY SetUpHasName DEF Truncate, SetUp, Handles
<1>2. UNCHANGED <<shm_name, mutex_name, wait_name>>
  BY DEF Truncate, names
<1>3. Writes(shm_[p], e)
  BY TruncateWrites
<1>4. Linked' = e /\ Linked \in SegmentType
  BY <1>1, <1>2, <1>3 DEF Writes, Linked
<1>5. e.size = total_data_bytes_[p] /\ e.total = Linked.total
  BY <1>1, <1>4 DEF SegmentType
<1> QED BY <1>2, <1>4, <1>5

(* ... and writes it into the header.                                      *)
LEMMA LinkedWritten ==
  ASSUME LifecycleAssumption, AlwaysInv, SetUpLinked, NEW p \in Producers, WriteTotal(p)
  PROVE  /\ Linked'.total = total_data_bytes_[p] /\ Linked'.size = Linked.size
         /\ UNCHANGED <<shm_name, mutex_name, wait_name>>
<1> DEFINE e == [Segment(p) EXCEPT !.total = total_data_bytes_[p]]
<1>1. shm_[p] = shm_name /\ Segment(p) = Linked
  BY SetUpHasName DEF WriteTotal, SetUp, Handles
<1>2. UNCHANGED <<shm_name, mutex_name, wait_name>>
  BY DEF WriteTotal, names
<1>3. Writes(shm_[p], e)
  BY WriteTotalWrites
<1>4. Linked' = e /\ Linked \in SegmentType
  BY <1>1, <1>2, <1>3 DEF Writes, Linked
<1>5. e.total = total_data_bytes_[p] /\ e.size = Linked.size
  BY <1>1, <1>4 DEF SegmentType
<1> QED BY <1>2, <1>4, <1>5

(* What the constructors know stays true.                                  *)
LEMMA ConstructorsStep ==
  ASSUME LifecycleAssumption, OrderlyInv, [Next]_vars
  PROVE  Constructors'
<1>0. /\ AlwaysInv /\ Phase /\ OneInit /\ SetUpLinked /\ LinkedState /\ SemaphoreNames
      /\ Constructors /\ Roles /\ Resources
      /\ ControlType /\ ShmType /\ MutexType /\ InitType /\ SizeType
      /\ \A c \in Consumers : c \notin Producers /\ c \in Handles
      /\ \A p \in Producers : p \in Handles
      /\ \A h \in Handles : h \in Producers \/ h \in Consumers
  BY TypeParts, LifecycleAssumption
     DEF OrderlyInv, AlwaysInv, Handles, LifecycleAssumption
<1> USE DEF InUse, UnlinkPC, Goto, Fail, Leave, FallBack,
            CondReady, NewFailed, OpenFailed, flags, names, mapping, calls
(* The steps that leave the names and the headers alone.                   *)
<1>1. ASSUME NEW h \in Handles, Frame(h), SharedKept,
             h \in Producers => Constructor(h)'
      PROVE  Constructors'
  BY <1>0, <1>1, ConstructorKept DEF Constructors, Frame
(* The steps of the one constructor past the init semaphore.               *)
<1>2. ASSUME NEW p \in Producers, pc[p] \in InitHeld, Frame(p), Constructor(p)'
      PROVE  Constructors'
  <2> SUFFICES ASSUME NEW q \in Producers, q # p PROVE Constructor(q)'
    BY <1>2 DEF Constructors
  <2>1. Kept(q) /\ pc[q] \notin InitHeld /\ Constructor(q)
    BY <1>0, <1>2, OneConstructor DEF Frame, Constructors
  <2> QED BY <2>1, ConstructorOutside DEF Kept, Constructor
<1> USE DEF ControlType, ShmType, MutexType, SizeType
<1>3. ASSUME NEW p \in Producers, SharedKept,
             ShmOpen(p) \/ MutexOpen(p) \/ WaitOpen(p) \/ Verify(p) \/ Lock(p) \/ Register(p)
      PROVE  Constructor(p)'
  <2>1. /\ Constructor(p)
        /\ pc[p] \in SetUp => shm_name # 0 /\ Segment(p) = Linked
    BY <1>0, SetUpHasName DEF Constructors
  <2> USE DEF Constructor, Creating, Ready, Unwritten, SharedKept, InitHeld, SetUp
  <2>2. CASE ShmOpen(p)
    BY <1>0, <1>3, <2>1, <2>2 DEF ShmOpen, Roles
  <2>3. CASE MutexOpen(p)
    <3>1. \A q \in Producers : pc[q] \in InitHeld => q = p
      BY <1>0, <2>3, OneConstructor DEF MutexOpen
    <3>2. path[p] # "create" => /\ mutex_name # 0 => Ready
                                /\ mutex_name = 0 => Unwritten /\ wait_name
      BY <1>0, <2>1, <2>3, <3>1 DEF MutexOpen, LinkedState
    <3> QED BY <1>0, <1>3, <2>1, <2>3, <3>2 DEF MutexOpen
  <2>4. CASE WaitOpen(p)
    BY <1>0, <1>3, <2>1, <2>4 DEF WaitOpen
  <2>5. CASE Verify(p)
    BY <1>0, <1>3, <2>1, <2>5 DEF Verify
  <2>6. CASE Lock(p) \/ Register(p)
    BY <1>0, <1>3, <2>1, <2>6 DEF Lock, Register
  <2> QED BY <1>3, <2>2, <2>3, <2>4, <2>5, <2>6
<1>4. ASSUME NEW p \in Producers, SharedKept,
             \/ InitWait(p) \/ WriteCounters(p) \/ InitPost(p) \/ ProducerClose(p)
             \/ CloseBegin(p) \/ Move(p) \/ Crash(p)
      PROVE  Constructor(p)'
  <2>1. /\ Constructor(p)
        /\ pc[p] \in SetUp => shm_name # 0 /\ Segment(p) = Linked
    BY <1>0, SetUpHasName DEF Constructors
  <2> USE DEF Constructor, Creating, Ready, Unwritten, SharedKept, InitHeld, SetUp
  <2>2. CASE InitWait(p) \/ WriteCounters(p)
    BY <1>0, <1>4, <2>1, <2>2 DEF InitWait, WriteCounters
  <2>3. CASE InitPost(p) \/ ProducerClose(p)
    BY <1>0, <2>3 DEF InitPost, ProducerClose
  <2>4. CASE CloseBegin(p) \/ Move(p) \/ Crash(p)
    BY <1>0, <2>4 DEF CloseBegin, Move, Crash
  <2> QED BY <1>4, <2>2, <2>3, <2>4
<1>5. ASSUME NEW p \in Producers, ShmCreate(p) PROVE Constructor(p)'
  <2>1. /\ Constructor(p) /\ path[p] = "create"
        /\ \/ pc'[p] = "truncate" /\ path'[p] = path[p] /\ shm_name = 0
           \/ pc'[p] = "shm_open" /\ path'[p] = "fallback"
        /\ total_data_bytes_'[p] = total_data_bytes_[p] /\ pc[p] = "shm_create"
    BY <1>0, <1>5 DEF ShmCreate, Constructors, Roles
  <2> QED BY <1>0, <1>5, <2>1, LinkedCreated DEF Constructor, Creating, InitHeld
<1>6. ASSUME NEW p \in Producers, Truncate(p) PROVE Constructor(p)'
  <2>1. /\ Constructor(p) /\ path[p] = "create" /\ pc[p] = "truncate"
        /\ pc'[p] = "mutex_new" /\ path'[p] = path[p]
        /\ total_data_bytes_'[p] = total_data_bytes_[p]
    BY <1>0, <1>6 DEF Constructors, Truncate, Roles
  <2> QED BY <1>0, <1>6, <2>1, LinkedTruncated DEF Constructor, Creating, InitHeld
<1>7. ASSUME NEW p \in Producers, WriteTotal(p) PROVE Constructor(p)'
  <2>1. /\ Constructor(p) /\ path[p] = "create" /\ pc[p] = "header"
        /\ pc'[p] = "counters" /\ path'[p] = path[p] /\ mutex_sem_[p] # 0
        /\ mutex_sem_'[p] = mutex_sem_[p] /\ total_data_bytes_'[p] = total_data_bytes_[p]
    BY <1>0, <1>7 DEF Constructors, WriteTotal, Roles, Resources
  <2> QED BY <1>0, <1>7, <2>1, LinkedWritten
             DEF Constructor, Creating, Ready, InitHeld
<1>8. ASSUME NEW p \in Producers, MutexNew(p) PROVE Constructor(p)'
  <2>1. /\ Constructor(p) /\ pc[p] = "mutex_new"
        /\ \A q \in Producers : pc[q] \in InitHeld => q = p
    BY <1>0, <1>8, OneConstructor DEF Constructors, MutexNew, InitHeld
  <2>2. UNCHANGED <<shm_name, wait_name, segs>> /\ Linked' = Linked
    BY <1>8 DEF MutexNew, Linked
  <2>3. mutex_name # 0 => wait_name
    BY <1>0, <2>1 DEF SemaphoreNames, InitHeld
  <2> QED BY <1>0, <1>8, <2>1, <2>2, <2>3
             DEF MutexNew, Constructor, Creating, Unwritten, InitHeld
<1>9. ASSUME NEW p \in Producers, WaitNew(p) PROVE Constructor(p)'
  <2>1. Constructor(p) /\ UNCHANGED <<shm_name, segs>> /\ Linked' = Linked
    BY <1>0, <1>9 DEF Constructors, WaitNew, Linked
  <2> QED BY <1>0, <1>9, <2>1 DEF WaitNew, Constructor, Creating, InitHeld
<1>10. ASSUME NEW p \in Producers, NEW create_new \in BOOLEAN, NEW total \in Totals,
             Construct(p, create_new, total)
      PROVE  Constructor(p)'
  BY <1>0, <1>10, LifecycleAssumption, ConstructorOutside
     DEF Construct, InitHeld, LifecycleAssumption
<1>11. ASSUME NEW x \in Consumers, Unlink(x) PROVE Constructors'
  <2>1. \A q \in Producers : Kept(q) /\ pc[q] \notin InitHeld \cup {"init_wait"}
    BY <1>0, <1>11, UnlinksAlone, FrameStep DEF Frame, Unlink, InitHeld
  <2> QED BY <2>1, ConstructorOutside DEF Kept, Constructors
<1>12. CASE UNCHANGED vars
  <2>1. SharedKept /\ \A q \in Producers : Kept(q)
    BY <1>12 DEF vars, SharedKept, Kept, Linked
  <2> QED BY <1>0, <2>1, ConstructorKept DEF Constructors
<1>13. CASE SharedKept
  <2>1. ASSUME NEW p \in Producers, NEW create_new \in BOOLEAN, NEW total \in Totals,
               Construct(p, create_new, total)
        PROVE  Constructors'
    BY <1>0, <1>1, <1>10, <1>13, <2>1, FrameStep
  <2>2. ASSUME NEW p \in Producers, \/ ShmCreate(p) \/ Truncate(p) \/ MutexNew(p)
                                     \/ WaitNew(p) \/ WriteTotal(p)
        PROVE  Constructors'
    BY <1>0, <1>1, <1>5, <1>6, <1>7, <1>8, <1>9, <1>13, <2>2, FrameStep
  <2>3. ASSUME NEW h \in Handles,
               \/ ShmOpen(h) \/ MutexOpen(h) \/ WaitOpen(h) \/ Verify(h) \/ Lock(h)
               \/ Register(h)
               \/ CloseBegin(h) \/ Move(h) \/ Crash(h)
        PROVE  Constructors'
    BY <1>0, <1>1, <1>3, <1>4, <1>13, <2>3, FrameStep
  <2>4. ASSUME NEW p \in Producers,
               InitWait(p) \/ WriteCounters(p) \/ InitPost(p) \/ ProducerClose(p)
        PROVE  Constructors'
    BY <1>0, <1>1, <1>4, <1>13, <2>4, FrameStep
  <2>5. ASSUME NEW x \in Consumers, \/ ConsumerClose(x) \/ PopEos(x)
                                     \/ \E fresh \in BOOLEAN : Attach(x, fresh)
        PROVE  Constructors'
    BY <1>0, <1>1, <1>13, <2>5, FrameStep
  <2> QED BY <2>1, <2>2, <2>3, <2>4, <2>5, <1>11, <1>12, Cases
<1>14. ASSUME NEW p \in Producers, ShmCreate(p) \/ Truncate(p) \/ MutexNew(p)
                                     \/ WaitNew(p) \/ WriteTotal(p)
       PROVE  Constructors'
  <2>1. pc[p] \in InitHeld
    BY <1>14 DEF ShmCreate, Truncate, MutexNew, WaitNew, WriteTotal, InitHeld
  <2>2. Constructor(p)'
    BY <1>5, <1>6, <1>7, <1>8, <1>9, <1>14
  <2>3. Frame(p)
    BY <1>0, <1>14, FrameStep
  <2> QED BY <1>2, <2>1, <2>2, <2>3
<1> QED BY <1>0, <1>11, <1>13, <1>14, SharedStep

(* The other actions of a constructor before its header is written.        *)
LEMMA CreatingSteps ==
  ASSUME LifecycleAssumption, AlwaysInv, NEW q \in Producers, [Next]_vars,
         \/ Creating(q) \/ pc[q] = "wait_new"
  PROVE  \/ Kept(q)
         \/ Truncate(q) \/ MutexNew(q) \/ WaitNew(q) \/ WriteTotal(q)
         \/ MutexOpen(q) \/ WaitOpen(q)
<1>0. /\ \A c \in Consumers : c \notin Producers /\ c \in Handles
      /\ \A p \in Producers : p \in Handles
  BY LifecycleAssumption DEF Handles, LifecycleAssumption
<1>1. ASSUME NEW h \in Handles, h # q, Frame(h) PROVE Kept(q)
  BY <1>0, <1>1 DEF Frame
<1>2. /\ ~ShmOpen(q) /\ ~Verify(q) /\ ~Lock(q) /\ ~Register(q)
      /\ ~CloseBegin(q) /\ ~Move(q) /\ ~Crash(q)
      /\ ~InitWait(q) /\ ~ShmCreate(q) /\ ~WriteCounters(q) /\ ~InitPost(q) /\ ~ProducerClose(q)
      /\ \A create_new \in BOOLEAN, total \in Totals : ~Construct(q, create_new, total)
  BY DEF Creating, ShmOpen, Verify, Lock, Register, CloseBegin, Move, Crash,
     InitWait, ShmCreate,
     WriteCounters, InitPost, ProducerClose, Construct
<1>3. ASSUME NEW h \in Handles,
             \/ ShmOpen(h) \/ MutexOpen(h) \/ WaitOpen(h) \/ Verify(h) \/ Lock(h)
             \/ Register(h)
             \/ CloseBegin(h) \/ Move(h) \/ Crash(h)
      PROVE  Kept(q) \/ MutexOpen(q) \/ WaitOpen(q)
  BY <1>1, <1>2, <1>3, FrameStep
<1>4. ASSUME NEW p \in Producers,
             \/ InitWait(p) \/ ShmCreate(p) \/ Truncate(p) \/ MutexNew(p) \/ WaitNew(p)
             \/ WriteTotal(p) \/ WriteCounters(p) \/ InitPost(p) \/ ProducerClose(p)
             \/ \E create_new \in BOOLEAN, total \in Totals : Construct(p, create_new, total)
      PROVE  Kept(q) \/ Truncate(q) \/ MutexNew(q) \/ WaitNew(q) \/ WriteTotal(q)
  BY <1>0, <1>1, <1>2, <1>4, FrameStep
<1>5. ASSUME NEW x \in Consumers, \/ ConsumerClose(x) \/ Unlink(x) \/ PopEos(x)
                                  \/ \E fresh \in BOOLEAN : Attach(x, fresh)
      PROVE  Kept(q)
  BY <1>0, <1>1, <1>5, FrameStep
<1>6. CASE UNCHANGED vars
  BY <1>6 DEF vars, names, mapping, flags, Kept
<1> QED BY <1>3, <1>4, <1>5, <1>6, Cases

(* The linked segment is always ready, in the making, or hopeless.         *)
LEMMA LinkedStateStep ==
  ASSUME LifecycleAssumption, OrderlyInv, [Next]_vars
  PROVE  LinkedState'
<1>0. /\ AlwaysInv /\ Phase /\ OneInit /\ SetUpLinked /\ LinkedState /\ SemaphoreNames
      /\ Constructors /\ ControlType /\ Resources /\ Roles
      /\ \A p \in Producers : p \in Handles
      /\ \A p \in Producers : pc[p] \in SetUp => shm_name # 0
  BY TypeParts, SetUpHasName DEF OrderlyInv, AlwaysInv, Handles
<1> USE DEF ControlType, Goto, FallBack, CondReady, NewFailed, OpenFailed, Fail
<1>1. ASSUME NEW p \in Producers, ShmCreate(p) PROVE LinkedState'
  <2>1. CASE shm_name = 0
    BY <1>0, <1>1, <2>1 DEF ShmCreate, LinkedState, Creating, Roles
  <2>2. CASE shm_name # 0
    <3>1. UNCHANGED <<shm_name, mutex_name, wait_name>> /\ Linked' = Linked
      BY <1>1, <2>2 DEF ShmCreate, Linked
    <3>2. pc[p] = "shm_create" /\ \A q \in Producers : q # p => Kept(q)
      BY <1>0, <1>1, FrameStep DEF ShmCreate, Frame
    <3> QED BY <1>0, <3>1, <3>2 DEF LinkedState, Creating, Kept, Ready, Unwritten
  <2> QED BY <2>1, <2>2
<1>2. ASSUME NEW p \in Producers, Truncate(p) PROVE LinkedState'
  BY <1>0, <1>2 DEF Truncate, LinkedState, Creating, Roles
<1>3. ASSUME NEW p \in Producers, MutexNew(p) PROVE LinkedState'
  <2>1. /\ pc[p] = "mutex_new" /\ Constructor(p) /\ Linked' = Linked
        /\ \A q \in Producers : pc[q] \in InitHeld => q = p
    BY <1>0, <1>3, OneConstructor DEF Constructors, MutexNew, InitHeld, Linked
  <2> QED BY <1>0, <1>3, <2>1
             DEF MutexNew, Constructor, LinkedState, Creating, Unwritten
<1>4. ASSUME NEW p \in Producers, WaitNew(p) PROVE LinkedState'
  <2>1. /\ pc[p] = "wait_new" /\ Constructor(p) /\ Linked' = Linked
        /\ \A q \in Producers : pc[q] \in InitHeld => q = p
    BY <1>0, <1>4, OneConstructor DEF Constructors, WaitNew, InitHeld, Linked
  <2> QED BY <1>0, <1>4, <2>1
             DEF WaitNew, Constructor, LinkedState, Creating, Unwritten
<1>5. ASSUME NEW p \in Producers, WriteTotal(p) PROVE LinkedState'
  <2>1. /\ pc[p] = "header" /\ Constructor(p) /\ Creating(p) /\ mutex_sem_[p] # 0
    BY <1>0, <1>5 DEF Constructors, WriteTotal, Roles, Resources, Creating
  <2> QED BY <1>0, <1>5, <2>1, LinkedWritten
             DEF Constructor, LinkedState, Ready, InitHeld
<1>6. ASSUME NEW x \in Consumers, Unlink(x) PROVE LinkedState'
  <2>1. shm_name' = 0
    BY <1>0, <1>6 DEF Unlink, UnlinkOrder, OrderlyInv
  <2> QED BY <2>1 DEF LinkedState
<1>7. CASE /\ SharedKept
           /\ \A p \in Producers : ~Truncate(p) /\ ~MutexNew(p) /\ ~WaitNew(p) /\ ~WriteTotal(p)
  <2> SUFFICES ASSUME shm_name # 0 PROVE LinkedState'
    BY <1>7 DEF LinkedState, SharedKept
  <2>1. CASE Ready
    BY <1>7, <2>1 DEF SharedKept, LinkedState, Ready
  <2>2. ASSUME NEW q \in Producers, Creating(q) PROVE LinkedState'
    <3>1. CASE Kept(q)
      BY <2>2, <3>1 DEF Kept, Creating, LinkedState
    <3>2. CASE MutexOpen(q)
      BY <1>0, <1>7, <2>2, <3>2
         DEF MutexOpen, LinkedState, Creating, Constructors, Constructor,
         SharedKept, Unwritten, InitHeld
    <3>3. CASE WaitOpen(q)
      BY <1>0, <1>7, <2>2, <3>3
         DEF WaitOpen, LinkedState, Creating, Constructors, Constructor
    <3> QED BY <1>0, <1>7, <2>2, <3>1, <3>2, <3>3, CreatingSteps
  <2>3. CASE Unwritten /\ wait_name /\ mutex_name = 0
    BY <1>7, <2>3 DEF SharedKept, LinkedState, Unwritten
  <2>4. ASSUME NEW q \in Producers, Unwritten, wait_name, path[q] # "create",
               pc[q] = "wait_new"
        PROVE  LinkedState'
    <3>1. ~MutexOpen(q) /\ ~WaitOpen(q)
      BY <2>4 DEF MutexOpen, WaitOpen
    <3>2. Kept(q)
      BY <1>0, <1>7, <2>4, <3>1, CreatingSteps
    <3> QED BY <1>7, <2>4, <3>2 DEF SharedKept, LinkedState, Unwritten, Kept
  <2> QED BY <1>0, <2>1, <2>2, <2>3, <2>4 DEF LinkedState
<1> QED BY <1>0, <1>1, <1>2, <1>3, <1>4, <1>5, <1>6, <1>7, SharedStep

(* A mutex semaphore without a wait semaphore is the creator's, between    *)
(* its two system calls.                                                   *)
LEMMA SemaphoreNamesStep ==
  ASSUME LifecycleAssumption, OrderlyInv, [Next]_vars
  PROVE  SemaphoreNames'
<1>0. /\ AlwaysInv /\ Phase /\ OneInit /\ SetUpLinked /\ SemaphoreNames
      /\ Constructors /\ ControlType
      /\ \A p \in Producers : p \in Handles
  BY TypeParts DEF OrderlyInv, AlwaysInv, Handles
<1> USE DEF ControlType, Goto, CondReady, NewFailed
<1>1. ASSUME NEW p \in Producers, MutexNew(p) PROVE SemaphoreNames'
  <2>1. /\ pc[p] = "mutex_new" /\ Constructor(p)
        /\ \A q \in Producers : pc[q] \in InitHeld => q = p
    BY <1>0, <1>1, OneConstructor DEF Constructors, MutexNew, InitHeld
  <2> QED BY <1>0, <1>1, <2>1
             DEF MutexNew, Constructor, SemaphoreNames, Creating, InitHeld
<1>2. ASSUME NEW p \in Producers, WaitNew(p) PROVE SemaphoreNames'
  BY <1>0, <1>2 DEF WaitNew, SemaphoreNames
<1>3. ASSUME NEW x \in Consumers, Unlink(x) PROVE SemaphoreNames'
  <2>1. \A q \in Producers : pc[q] # "wait_new"
    BY <1>0, <1>3, UnlinksAlone DEF Unlink, UnlinkPC, InUse
  <2> QED BY <1>0, <1>3, <2>1 DEF Unlink, SemaphoreNames, OrderlyInv, UnlinkOrder
<1>4. CASE /\ UNCHANGED <<mutex_name, wait_name>>
           /\ \A p \in Producers : ~MutexNew(p) /\ ~WaitNew(p)
  <2>1. ASSUME NEW q \in Producers, Creating(q), pc[q] = "wait_new" PROVE SemaphoreNames'
    <3>1. Kept(q)
      BY <1>0, <1>4, <2>1, CreatingSteps
         DEF Truncate, WriteTotal, MutexOpen, WaitOpen
    <3> QED BY <2>1, <3>1 DEF SemaphoreNames, Kept, Creating
  <2> QED BY <1>0, <1>4, <2>1 DEF SemaphoreNames
<1>5. ASSUME NEW p \in Producers, ShmCreate(p)
      PROVE  UNCHANGED <<mutex_name, wait_name>>
  BY <1>5 DEF ShmCreate
<1> QED BY <1>1, <1>2, <1>3, <1>4, <1>5, NamesKept

(* Only the creation of the segment begins the work of a creator.          *)
LEMMA NewCreation ==
  ASSUME LifecycleAssumption, AlwaysInv, [Next]_vars,
         NEW q \in Producers, Creating(q)', ~Creating(q)
  PROVE  ShmCreate(q) /\ shm_name = 0
<1>0. /\ ControlType /\ Roles
      /\ \A c \in Consumers : c \notin Producers /\ c \in Handles
      /\ \A p \in Producers : p \in Handles
  BY TypeParts, LifecycleAssumption DEF AlwaysInv, Handles, LifecycleAssumption
<1> USE DEF Creating, ControlType, Goto, Fail, Leave, FallBack,
            CondReady, NewFailed, OpenFailed, flags, names, mapping, calls
<1>1. ASSUME NEW h \in Handles, ShmOpen(h) \/ MutexOpen(h) \/ WaitOpen(h) \/ Verify(h)
                                  \/ Lock(h) \/ Register(h)
      PROVE  FALSE
  BY <1>0, <1>1 DEF ShmOpen, MutexOpen, WaitOpen, Verify, Lock, Register, Roles
<1>2. ASSUME NEW h \in Handles, CloseBegin(h) \/ Move(h) \/ Crash(h) PROVE FALSE
  BY <1>0, <1>2 DEF CloseBegin, Move, Crash
<1>3. ASSUME NEW p \in Producers, \/ InitWait(p) \/ Truncate(p) \/ MutexNew(p)
                                  \/ WaitNew(p) \/ WriteTotal(p) \/ WriteCounters(p)
                                  \/ InitPost(p) \/ ProducerClose(p)
      PROVE  FALSE
  BY <1>0, <1>3 DEF InitWait, Truncate, MutexNew, WaitNew, WriteTotal,
     WriteCounters, InitPost, ProducerClose
<1>4. ASSUME NEW p \in Producers, ShmCreate(p) PROVE ShmCreate(q) /\ shm_name = 0
  BY <1>0, <1>4 DEF ShmCreate
<1>5. ASSUME NEW p \in Producers, NEW create_new \in BOOLEAN, NEW total \in Totals,
             Construct(p, create_new, total)
      PROVE  FALSE
  BY <1>0, <1>5 DEF Construct
<1>6. ASSUME NEW x \in Consumers, ConsumerClose(x) \/ PopEos(x) \/ Unlink(x) PROVE FALSE
  BY <1>0, <1>6 DEF ConsumerClose, PopEos, Unlink
<1>7. ASSUME NEW x \in Consumers, NEW fresh \in BOOLEAN, Attach(x, fresh) PROVE FALSE
  BY <1>0, <1>7 DEF Attach
<1>8. CASE UNCHANGED vars
  BY <1>0, <1>8 DEF vars
<1> QED BY <1>1, <1>2, <1>3, <1>4, <1>5, <1>6, <1>7, <1>8, Cases

(* A segment that will never be written stays so until it is unlinked.     *)
LEMMA HopelessKept ==
  ASSUME LifecycleAssumption, OrderlyInv, [Next]_vars, Hopeless, shm_name # 0,
         \A x \in Consumers : ~Unlink(x)
  PROVE  Hopeless'
<1>0. /\ AlwaysInv /\ OneInit /\ SetUpLinked /\ Constructors /\ ControlType
      /\ \A p \in Producers : p \in Handles
  BY TypeParts DEF OrderlyInv, AlwaysInv, Handles
<1> USE DEF ControlType, Goto, FallBack, CondReady, NewFailed, OpenFailed, Fail
<1>1. ASSUME NEW p \in Producers, MutexNew(p) PROVE Hopeless'
  <2>1. /\ pc[p] = "mutex_new" /\ ~Creating(p) /\ path[p] # "create" /\ Linked' = Linked
        /\ \A q \in Producers : pc[q] \in InitHeld => q = p
    BY <1>0, <1>1, OneConstructor DEF MutexNew, InitHeld, Linked, Hopeless, Creating
  <2>2. path'[p] # "create" /\ \A q \in Producers : q # p => Kept(q)
    BY <1>0, <1>1, <2>1, FrameStep DEF MutexNew, Frame
  <2> QED BY <1>1, <2>1, <2>2
             DEF MutexNew, Hopeless, Unwritten, Creating, InitHeld, Kept
<1>2. ASSUME NEW p \in Producers, WaitNew(p) PROVE Hopeless'
  <2>1. /\ pc[p] = "wait_new" /\ ~Creating(p) /\ path[p] # "create" /\ Linked' = Linked
        /\ \A q \in Producers : pc[q] \in InitHeld => q = p
    BY <1>0, <1>2, OneConstructor DEF WaitNew, InitHeld, Linked, Hopeless, Creating
  <2>2. path'[p] # "create" /\ \A q \in Producers : q # p => Kept(q)
    BY <1>0, <1>2, <2>1, FrameStep DEF WaitNew, Frame
  <2> QED BY <1>2, <2>1, <2>2
             DEF WaitNew, Hopeless, Unwritten, Creating, InitHeld, Kept
<1>3. ASSUME NEW p \in Producers PROVE ~Truncate(p) /\ ~WriteTotal(p)
  BY <1>0 DEF OrderlyInv, AlwaysInv, Roles, Truncate, WriteTotal, Hopeless, Creating
<1>4. ASSUME NEW p \in Producers, ShmCreate(p) PROVE SharedKept
  BY <1>0, <1>4, LinkedCreated DEF ShmCreate, SharedKept, Linked
<1>5. CASE SharedKept /\ \A p \in Producers : ~MutexNew(p) /\ ~WaitNew(p)
  <2>1. ASSUME NEW q \in Producers, Creating(q)'
        PROVE  pc'[q] = "mutex_open" /\ mutex_name' = 0
    <3>1. CASE Creating(q)
      <4>1. pc[q] = "mutex_open" /\ mutex_name = 0 /\ path[q] = "create"
        BY <3>1 DEF Hopeless, Creating
      <4>2. ~MutexOpen(q)
        BY <1>0, <2>1, <4>1 DEF MutexOpen, Creating
      <4>3. ~WaitOpen(q) /\ ~Truncate(q) /\ ~WriteTotal(q) /\ ~MutexNew(q) /\ ~WaitNew(q)
        BY <4>1 DEF WaitOpen, Truncate, WriteTotal, MutexNew, WaitNew
      <4>4. Kept(q)
        BY <1>0, <3>1, <4>2, <4>3, CreatingSteps
      <4> QED BY <1>5, <4>1, <4>4 DEF SharedKept, Kept
    <3>2. CASE ~Creating(q)
      BY <1>0, <1>5, <2>1, <3>2, NewCreation
    <3> QED BY <3>1, <3>2
  <2> QED BY <1>5, <2>1 DEF Hopeless, SharedKept, Unwritten
<1> QED BY <1>0, <1>1, <1>2, <1>3, <1>4, <1>5, SharedStep

(* A constructor that finds the linked segment ready changes nothing that  *)
(* Ready looks at.                                                         *)
LEMMA ReadyKept ==
  ASSUME LifecycleAssumption, OrderlyInv, [Next]_vars, Ready, shm_name # 0,
         \A x \in Consumers : ~Unlink(x)
  PROVE  SharedKept
<1>0. /\ AlwaysInv /\ Constructors
      /\ \A p \in Producers : Creating(p) => Linked.total = 0
  BY DEF OrderlyInv, Constructors, Constructor
<1>1. Linked.total # 0 /\ Linked.size # 0 /\ wait_name /\ mutex_name # 0
  BY DEF Ready
<1>2. ASSUME NEW p \in Producers PROVE ~Truncate(p) /\ ~WriteTotal(p)
  BY <1>0, <1>1 DEF AlwaysInv, Roles, Truncate, WriteTotal, Creating
<1>3. ASSUME NEW p \in Producers, ShmCreate(p) PROVE SharedKept
  BY <1>0, <1>3, LinkedCreated DEF ShmCreate, SharedKept, Linked
<1>4. ASSUME NEW p \in Producers, MutexNew(p) PROVE SharedKept
  BY <1>1, <1>4 DEF MutexNew, SharedKept, Linked
<1>5. ASSUME NEW p \in Producers PROVE ~WaitNew(p)
  BY <1>0, <1>1 DEF WaitNew, Constructors, Constructor, Creating, Unwritten
<1> QED BY <1>0, <1>2, <1>3, <1>4, <1>5, SharedStep

(* Sizes and semaphores under a consumer inside attach().                  *)
LEMMA AttacherKept ==
  ASSUME LifecycleAssumption, OrderlyInv, [Next]_vars, NEW c \in Consumers,
         Kept(c), \A x \in Consumers : ~Unlink(x)
  PROVE  Attacher(c)'
<1>0. /\ AlwaysInv /\ OneInit /\ SetUpLinked /\ Constructors /\ Attacher(c) /\ Resources
      /\ c \in Handles
  BY DEF OrderlyInv, AlwaysInv, Handles, Attachers
<1> SUFFICES ASSUME pc[c] \in SetUp PROVE Attacher(c)'
  BY DEF Attacher, Kept, SetUp
<1>1. shm_name # 0
  BY <1>0, SetUpHasName
<1>2. ASSUME pc[c] \in {"mutex_open", "wait_open", "verify"} PROVE Linked'.size # 0
  <2>1. Linked.size # 0
    BY <1>0, <1>2 DEF Attacher
  <2>2. ASSUME NEW p \in Producers, Truncate(p) PROVE Linked'.size # 0
    BY <1>0, <2>2, LifecycleAssumption, LinkedTruncated
       DEF Truncate, Constructors, Constructor, InitHeld
  <2>3. ASSUME NEW p \in Producers, WriteTotal(p) PROVE Linked'.size # 0
    BY <1>0, <2>1, <2>3, LifecycleAssumption, LinkedWritten
  <2>4. ASSUME NEW p \in Producers, ShmCreate(p) PROVE Linked'.size # 0
    BY <1>0, <1>1, <2>1, <2>4, LinkedCreated DEF Linked
  <2>5. ASSUME NEW p \in Producers, MutexNew(p) \/ WaitNew(p) PROVE Linked'.size # 0
    BY <2>1, <2>5 DEF MutexNew, WaitNew, Linked
  <2>6. SharedKept => Linked'.size # 0
    BY <1>1, <2>1 DEF SharedKept
  <2> QED BY <1>0, <2>2, <2>3, <2>4, <2>5, <2>6, SharedStep
<1>3. ASSUME pc[c] \in {"wait_open", "verify"}
      PROVE  mutex_sem_[c] = mutex_name' \/ Hopeless'
  <2>1. mutex_sem_[c] # 0
    BY <1>0, <1>3 DEF Resources
  <2>2. CASE Hopeless
    BY <1>1, <2>2, HopelessKept
  <2>3. CASE mutex_sem_[c] = mutex_name
    <3>1. ASSUME NEW p \in Producers, MutexNew(p) PROVE mutex_name' = mutex_name
      BY <2>1, <2>3, <3>1 DEF MutexNew
    <3>2. ASSUME NEW p \in Producers, WaitNew(p), mutex_name' # mutex_name PROVE Hopeless'
      <4>1. /\ pc[p] = "wait_new" /\ wait_name /\ wait_name' = wait_name
            /\ mutex_name' = 0 /\ Linked' = Linked /\ Constructor(p)
            /\ \A q \in Producers : pc[q] \in InitHeld => q = p
        BY <1>0, <3>2, OneConstructor DEF WaitNew, InitHeld, Constructors, Linked
      <4>2. Unwritten
        BY <4>1 DEF Constructor, Creating, Unwritten, InitHeld
      <4>3. pc'[p] \in {"mutex_open", "init_post"} /\ \A q \in Producers : q # p => Kept(q)
        BY <1>0, <3>2, <4>1, FrameStep, TypeParts
           DEF WaitNew, NewFailed, Fail, Goto, Frame, Handles, AlwaysInv,
               ControlType
      <4> QED BY <4>1, <4>2, <4>3 DEF Hopeless, Unwritten, Creating, InitHeld, Kept
    <3>3. ASSUME NEW p \in Producers, ShmCreate(p) \/ Truncate(p) \/ WriteTotal(p)
          PROVE  mutex_name' = mutex_name
      BY <3>3 DEF ShmCreate, Truncate, WriteTotal, names
    <3> QED BY <1>0, <2>3, <3>1, <3>2, <3>3, SharedStep DEF SharedKept
  <2> QED BY <1>0, <1>3, <2>2, <2>3 DEF Attacher
<1>4. ASSUME pc[c] \in {"attach_lock", "attach_cs"}
      PROVE  Ready' /\ mutex_sem_[c] = mutex_name' /\ total_data_bytes_[c] = Linked'.total
  BY <1>0, <1>1, <1>4, ReadyKept DEF Attacher, SharedKept, Ready
<1> QED BY <1>2, <1>3, <1>4 DEF Attacher, Kept

(* What the consumers inside attach() know stays true.                     *)
LEMMA AttachersStep ==
  ASSUME LifecycleAssumption, OrderlyInv, [Next]_vars
  PROVE  Attachers'
<1>0. /\ AlwaysInv /\ Phase /\ OneInit /\ SetUpLinked /\ LinkedState /\ Constructors /\ Attachers
      /\ Roles /\ ControlType /\ ShmType /\ MutexType /\ SizeType
      /\ \A c \in Consumers : c \in Handles /\ c \notin Producers
      /\ \A p \in Producers : p \in Handles
      /\ \A h \in Handles : h \in Producers \/ h \in Consumers
  BY TypeParts, LifecycleAssumption
     DEF OrderlyInv, AlwaysInv, Handles, LifecycleAssumption
<1>1. ASSUME NEW x \in Consumers, Unlink(x) PROVE Attachers'
  <2>1. \A c \in Consumers : pc'[c] \in {"detached"} \cup InUse \cup UnlinkPC
    BY <1>0, <1>1, UnlinksAlone DEF Unlink, UnlinkPC, Goto, Leave, ControlType
  <2> QED BY <2>1 DEF Attachers, Attacher, InUse, UnlinkPC
<1>2. ASSUME NEW h \in Handles, Frame(h), \A x \in Consumers : ~Unlink(x),
             h \in Consumers => Attacher(h)'
      PROVE  Attachers'
  BY <1>0, <1>2, AttacherKept DEF Frame, Attachers
<1> USE DEF ControlType, ShmType, MutexType, SizeType, Goto, Leave, Fail,
            FallBack, CondReady,
            NewFailed, OpenFailed, flags, names, mapping, calls
<1>3. ASSUME NEW c \in Consumers, ShmOpen(c) PROVE Attacher(c)'
  BY <1>0, <1>3 DEF ShmOpen, Attacher, Mappable, Linked
<1>4. ASSUME NEW c \in Consumers, MutexOpen(c) PROVE Attacher(c)'
  BY <1>0, <1>4 DEF MutexOpen, Attachers, Attacher, Linked, Roles
<1>5. ASSUME NEW c \in Consumers, WaitOpen(c) PROVE Attacher(c)'
  <2>1. /\ Attacher(c) /\ pc[c] = "wait_open" /\ UNCHANGED <<segs, shm_name, mutex_name, wait_name>>
        /\ mutex_sem_'[c] = mutex_sem_[c] \/ pc'[c] = "detached"
        /\ pc'[c] \in {"verify", "detached"}
    BY <1>0, <1>5 DEF WaitOpen, Attachers, Roles
  <2>2. \A q \in Producers : Kept(q)
    BY <1>0, <1>5, FrameStep DEF Frame
  <2>3. Hopeless => Hopeless'
    BY <2>1, <2>2 DEF Hopeless, Unwritten, Linked, Creating, Kept
  <2> QED BY <2>1, <2>3 DEF Attacher, Linked
<1>6. ASSUME NEW c \in Consumers, Verify(c) PROVE Attacher(c)'
  <2>1. /\ Attacher(c) /\ pc[c] = "verify" /\ shm_name # 0 /\ Segment(c) = Linked
        /\ UNCHANGED <<segs, shm_name, mutex_name, wait_name>>
    BY <1>0, <1>6, SetUpHasName DEF Verify, Attachers, SetUp
  <2>2. CASE SizeAccepted(c)
    <3>1. Linked.total = Linked.size /\ Linked.size # 0
      BY <1>0, <2>1, <2>2 DEF SizeAccepted, Attacher
    <3>2. Ready /\ ~Hopeless
      BY <1>0, <2>1, <3>1
         DEF LinkedState, Constructors, Constructor, Hopeless, Unwritten
    <3> QED BY <1>0, <1>6, <2>1, <2>2, <3>2 DEF Verify, Attacher, Ready, Linked
  <2>3. CASE ~SizeAccepted(c)
    BY <1>0, <1>6, <2>3 DEF Verify, Attacher
  <2> QED BY <2>2, <2>3
<1>7. ASSUME NEW c \in Consumers, Lock(c) \/ Register(c) PROVE Attacher(c)'
  <2>1. CASE Lock(c)
    BY <1>0, <1>7, <2>1 DEF Lock, Attachers, Attacher, Ready, Linked
  <2>2. CASE Register(c)
    BY <1>0, <2>2 DEF Register, Attacher
  <2> QED BY <1>7, <2>1, <2>2
<1>8. ASSUME NEW c \in Consumers, CloseBegin(c) \/ Move(c) \/ Crash(c) PROVE Attacher(c)'
  BY <1>0, <1>8 DEF CloseBegin, Move, Crash, Attacher
<1>9. ASSUME NEW c \in Consumers, ConsumerClose(c) \/ PopEos(c) PROVE Attacher(c)'
  BY <1>0, <1>9 DEF ConsumerClose, PopEos, Attacher
<1>10. ASSUME NEW c \in Consumers, NEW fresh \in BOOLEAN, Attach(c, fresh)
       PROVE  Attacher(c)'
  BY <1>0, <1>10 DEF Attach, Attacher
<1>11. CASE \A x \in Consumers : ~Unlink(x)
  <2>1. ASSUME NEW h \in Handles,
               \/ ShmOpen(h) \/ MutexOpen(h) \/ WaitOpen(h) \/ Verify(h) \/ Lock(h)
               \/ Register(h)
               \/ CloseBegin(h) \/ Move(h) \/ Crash(h)
        PROVE  Attachers'
    BY <1>0, <1>2, <1>3, <1>4, <1>5, <1>6, <1>7, <1>8, <1>11, <2>1, FrameStep
  <2>2. ASSUME NEW p \in Producers,
               \/ InitWait(p) \/ ShmCreate(p) \/ Truncate(p) \/ MutexNew(p) \/ WaitNew(p)
               \/ WriteTotal(p) \/ WriteCounters(p) \/ InitPost(p) \/ ProducerClose(p)
               \/ \E create_new \in BOOLEAN, total \in Totals : Construct(p, create_new, total)
        PROVE  Attachers'
    BY <1>0, <1>2, <1>11, <2>2, FrameStep
  <2>3. ASSUME NEW c \in Consumers, \/ ConsumerClose(c) \/ PopEos(c)
                                    \/ \E fresh \in BOOLEAN : Attach(c, fresh)
        PROVE  Attachers'
    BY <1>0, <1>2, <1>9, <1>10, <1>11, <2>3, FrameStep
  <2>4. CASE UNCHANGED vars
    <3>1. \A c \in Consumers : Kept(c)
      BY <2>4 DEF vars, Kept
    <3> QED BY <1>11, <3>1, AttacherKept DEF Attachers
  <2> QED BY <1>11, <2>1, <2>2, <2>3, <2>4, Cases
<1> QED BY <1>1, <1>11

(* Whoever is registered after a step has just registered, or was          *)
(* registered and still has the same mapping.                              *)
LEMMA RegisteredKept ==
  ASSUME LifecycleAssumption, AlwaysInv, [Next]_vars, NEW h \in Handles, h \in registered_'
  PROVE  \/ Register(h) /\ h \notin registered_
         \/ /\ h \in registered_ /\ ~Register(h)
            /\ shm_'[h] = shm_[h] /\ mutex_sem_'[h] = mutex_sem_[h]
            /\ total_data_bytes_'[h] = total_data_bytes_[h]
<1> DEFINE Goal == \/ Register(h) /\ h \notin registered_
                   \/ /\ h \in registered_ /\ ~Register(h)
                      /\ shm_'[h] = shm_[h] /\ mutex_sem_'[h] = mutex_sem_[h]
                      /\ total_data_bytes_'[h] = total_data_bytes_[h]
<1>0. /\ ControlType /\ ShmType /\ MutexType /\ SizeType
      /\ h \in registered_ => pc[h] \in InUse \cup {"init_post"}
      /\ \A c \in Consumers : c \notin Producers /\ c \in Handles
      /\ \A p \in Producers : p \in Handles
  BY TypeParts, LifecycleAssumption
     DEF AlwaysInv, Roles, Handles, LifecycleAssumption
<1>1. h \in registered_ => ~Register(h)
  BY <1>0 DEF Register, InUse
<1> USE DEF ControlType, ShmType, MutexType, SizeType, InUse, Goto, Fail, Leave,
            FallBack, CondReady, NewFailed, OpenFailed, Abandon, flags, names,
            mapping, calls
<1>2. ASSUME NEW g \in Handles, \/ ShmOpen(g) \/ MutexOpen(g) \/ WaitOpen(g) \/ Verify(g)
                                \/ Lock(g) \/ Register(g) \/ CloseBegin(g)
                                \/ Move(g) \/ Crash(g)
      PROVE  Goal
  <2>1. CASE ShmOpen(g) \/ MutexOpen(g) \/ WaitOpen(g) \/ Verify(g)
    BY <1>0, <1>1, <2>1 DEF ShmOpen, MutexOpen, WaitOpen, Verify
  <2>2. CASE Register(g)
    BY <1>0, <1>1, <2>2 DEF Register
  <2>3. CASE Lock(g) \/ CloseBegin(g) \/ Move(g) \/ Crash(g)
    BY <1>0, <1>1, <2>3 DEF Lock, CloseBegin, Move, Crash
  <2> QED BY <1>2, <2>1, <2>2, <2>3
<1>3. ASSUME NEW p \in Producers, \/ InitWait(p) \/ ShmCreate(p) \/ Truncate(p)
                                  \/ MutexNew(p) \/ WaitNew(p) \/ WriteTotal(p)
                                  \/ WriteCounters(p) \/ InitPost(p) \/ ProducerClose(p)
      PROVE  Goal
  BY <1>0, <1>1, <1>3
     DEF InitWait, ShmCreate, Truncate, MutexNew, WaitNew, WriteTotal,
     WriteCounters, InitPost, ProducerClose
<1>4. ASSUME NEW p \in Producers, NEW create_new \in BOOLEAN, NEW total \in Totals,
             Construct(p, create_new, total)
      PROVE  Goal
  BY <1>0, <1>1, <1>4 DEF Construct
<1>5. ASSUME NEW c \in Consumers, \/ ConsumerClose(c) \/ Unlink(c) \/ PopEos(c)
                                  \/ \E fresh \in BOOLEAN : Attach(c, fresh)
      PROVE  Goal
  BY <1>0, <1>1, <1>5 DEF ConsumerClose, Unlink, PopEos, Attach, UnlinkPC
<1>6. CASE UNCHANGED vars
  BY <1>0, <1>1, <1>6 DEF vars
<1> QED BY <1>2, <1>3, <1>4, <1>5, <1>6, Cases

(* Nobody registers while a consumer unlinks.                              *)
LEMMA RegistersLinked ==
  ASSUME LifecycleAssumption, OrderlyInv, [Next]_vars, NEW h \in Handles, Register(h)
  PROVE  /\ \A x \in Consumers : ~Unlink(x)
         /\ shm_name # 0 /\ shm_[h] = shm_name /\ Ready /\ mutex_sem_[h] = mutex_name
         /\ total_data_bytes_[h] = Linked.total
         /\ SharedKept
<1>0. /\ AlwaysInv /\ Phase /\ SetUpLinked
      /\ h \in Producers \/ h \in Consumers
      /\ h \in Producers => Constructor(h)
      /\ h \in Consumers => Attacher(h)
  BY DEF OrderlyInv, Constructors, Attachers, Register, Handles
<1>1. pc[h] = "attach_cs"
  BY DEF Register
<1>2. \A x \in Consumers : ~Unlink(x)
  BY <1>0, <1>1, UnlinksAlone DEF Unlink, UnlinkPC, InUse
<1>3. shm_name # 0 /\ shm_[h] = shm_name
  BY <1>0, <1>1, SetUpHasName DEF SetUp
<1>4. Ready /\ mutex_sem_[h] = mutex_name /\ total_data_bytes_[h] = Linked.total
  BY <1>0, <1>1 DEF Constructor, Attacher
<1> QED BY <1>1, <1>2, <1>3, <1>4, ReadyKept

(* The headers of the segments in use are final.                           *)
LEMMA RegisteredHeader ==
  ASSUME LifecycleAssumption, OrderlyInv, [Next]_vars, NEW h \in registered_
  PROVE  /\ shm_[h] \in 1 .. Len(segs)
         /\ segs'[shm_[h]].size = Segment(h).size
         /\ segs'[shm_[h]].total = Segment(h).total
<1>0. /\ AlwaysInv /\ SetUpLinked /\ Constructors
      /\ \A p \in Producers : p \in Handles
  BY DEF OrderlyInv, Handles
<1>1. h \in Handles
  BY TypeParts DEF OrderlyInv, AlwaysInv, ControlType
<1>2. shm_[h] \in 1 .. Len(segs)
  BY <1>0, <1>1, Mapped
<1>3. ASSUME NEW p \in Producers, Truncate(p) \/ WriteTotal(p)
      PROVE  shm_[p] # shm_[h]
  <2>1. Creating(p) /\ pc[p] \in SetUp
    BY <1>0, <1>3 DEF Truncate, WriteTotal, Creating, SetUp, AlwaysInv, Roles
  <2>2. shm_[p] = shm_name /\ Linked.total = 0
    BY <1>0, <2>1, SetUpHasName DEF Constructors, Constructor
  <2>3. shm_[h] = shm_name => Linked.total # 0
    BY <1>1 DEF Ready, OrderlyInv, Registrations
  <2> QED BY <2>2, <2>3
<1>4. ASSUME NEW p \in Producers, Truncate(p) \/ WriteTotal(p)
      PROVE  segs'[shm_[h]] = segs[shm_[h]]
  BY <1>0, <1>2, <1>3, <1>4, TruncateWrites, WriteTotalWrites DEF Writes
<1> QED BY <1>0, <1>2, <1>4, HeadersStep DEF HeadersKept, Segment

(* The name keeps denoting the segment of a registered handle, or none, or *)
(* a newer one.                                                            *)
LEMMA RegisteredName ==
  ASSUME LifecycleAssumption, OrderlyInv, [Next]_vars, NEW h \in registered_,
         shm_[h] = shm_name'
  PROVE  shm_[h] = shm_name /\ shm_name # 0 /\ \A x \in Consumers : ~Unlink(x)
<1>0. AlwaysInv /\ shm_[h] \in 1 .. Len(segs) /\ Len(segs) \in Nat
  BY RegisteredHeader, SegmentsStep DEF OrderlyInv
<1>1. shm_[h] # 0
  BY <1>0
<1>2. ASSUME NEW x \in Consumers, Unlink(x) PROVE FALSE
  BY <1>1, <1>2 DEF Unlink, OrderlyInv, UnlinkOrder
<1>3. ASSUME NEW p \in Producers, ShmCreate(p) PROVE shm_name' = shm_name
  BY <1>0, <1>3, LinkedCreated
<1>4. ASSUME NEW p \in Producers, MutexNew(p) \/ WaitNew(p) PROVE shm_name' = shm_name
  BY <1>4 DEF MutexNew, WaitNew
<1> QED BY <1>1, <1>2, <1>3, <1>4, NamesKept

(* What was true of a handle when it registered stays true.                *)
LEMMA RegistrationsStep ==
  ASSUME LifecycleAssumption, OrderlyInv, [Next]_vars
  PROVE  Registrations'
<1>0. AlwaysInv /\ Registrations /\ ControlType'
  BY TypeParts, ControlStep DEF OrderlyInv, AlwaysInv
<1> SUFFICES ASSUME NEW h \in registered_', h \in Handles
             PROVE  /\ segs'[shm_'[h]].size # 0
                    /\ segs'[shm_'[h]].total = segs'[shm_'[h]].size
                    /\ total_data_bytes_'[h] = segs'[shm_'[h]].total
                    /\ shm_'[h] = shm_name' => Ready' /\ mutex_sem_'[h] = mutex_name'
  BY <1>0 DEF Registrations, Segment, ControlType
<1>1. CASE Register(h)
  <2>1. /\ shm_'[h] = shm_name' /\ mutex_sem_'[h] = mutex_name'
        /\ total_data_bytes_'[h] = total_data_bytes_[h]
    BY <1>1, RegistersLinked DEF Register, names, mapping
  <2>2. Linked'.size = Linked.size /\ Linked'.total = Linked.total
    BY <1>1, RegistersLinked DEF SharedKept
  <2>3. Ready' /\ total_data_bytes_[h] = Linked'.total
    BY <1>1, <2>2, RegistersLinked DEF SharedKept, Ready
  <2> QED BY <2>1, <2>3 DEF Ready, Linked
<1>2. CASE ~Register(h)
  <2>1. /\ h \in registered_ /\ shm_'[h] = shm_[h] /\ mutex_sem_'[h] = mutex_sem_[h]
        /\ total_data_bytes_'[h] = total_data_bytes_[h]
    BY <1>0, <1>2, RegisteredKept
  <2>2. shm_[h] = shm_name' => Ready' /\ mutex_sem_'[h] = mutex_name'
    <3> SUFFICES ASSUME shm_[h] = shm_name' PROVE Ready' /\ mutex_sem_'[h] = mutex_name'
      OBVIOUS
    <3>1. /\ shm_[h] = shm_name /\ shm_name # 0 /\ Ready /\ mutex_sem_[h] = mutex_name
          /\ \A x \in Consumers : ~Unlink(x)
      BY <1>0, <2>1, RegisteredName DEF Registrations
    <3>2. SharedKept
      BY <3>1, ReadyKept
    <3> QED BY <2>1, <3>1, <3>2 DEF SharedKept, Ready
  <2> QED BY <1>0, <2>1, <2>2, RegisteredHeader DEF Registrations, Segment
<1> QED BY <1>1, <1>2

(* Registering on the named segment, everyone takes the semaphore the name *)
(* denotes, and a name never comes back.                                   *)
LEMMA OneLockStep ==
  ASSUME LifecycleAssumption, OrderlyInv, [Next]_vars
  PROVE  OneLockPerSegment'
<1>0. AlwaysInv /\ OneLockPerSegment /\ ControlType'
  BY TypeParts, ControlStep DEF OrderlyInv, AlwaysInv
<1> SUFFICES ASSUME NEW g \in registered_', NEW h \in registered_', g \in Handles,
                    h \in Handles,
                    shm_'[g] = shm_'[h], ~Register(g)
             PROVE  mutex_sem_'[g] = mutex_sem_'[h]
  <2>1. ASSUME NEW g \in Handles, NEW h \in Handles, Register(g), Register(h)
        PROVE  mutex_sem_'[g] = mutex_sem_'[h]
    BY <2>1, RegistersLinked DEF Register, mapping
  <2> QED BY <1>0, <2>1 DEF OneLockPerSegment, ControlType
<1>1. /\ g \in registered_ /\ shm_'[g] = shm_[g] /\ mutex_sem_'[g] = mutex_sem_[g]
  BY <1>0, RegisteredKept
<1>2. CASE Register(h)
  <2>1. shm_[h] = shm_name /\ mutex_sem_[h] = mutex_name
        /\ shm_'[h] = shm_[h] /\ mutex_sem_'[h] = mutex_sem_[h]
    BY <1>2, RegistersLinked DEF Register, mapping
  <2> QED BY <1>1, <2>1 DEF OrderlyInv, Registrations
<1>3. CASE ~Register(h)
  BY <1>0, <1>1, <1>3, RegisteredKept DEF OneLockPerSegment
<1> QED BY <1>2, <1>3

(* A registration ends with close(), or with a move or a death.            *)
LEMMA RegistrationEnds ==
  ASSUME LifecycleAssumption, AlwaysInv, [Next]_vars, NEW h \in registered_,
         h \notin registered_'
  PROVE  \/ h \in Producers /\ ProducerClose(h)
         \/ h \in Consumers /\ ConsumerClose(h)
         \/ Abandon(h)
BY Cases
   DEF ShmOpen, MutexOpen, WaitOpen, Verify, Lock, Register, CloseBegin, Move,
       Crash,
   InitWait, ShmCreate, Truncate, MutexNew, WaitNew, WriteTotal, WriteCounters, InitPost,
   ProducerClose, Construct, ConsumerClose, Unlink, PopEos, Attach, vars, flags, Abandon

(* The steps that change whom active_producers should count, or the        *)
(* counter.                                                                *)
CountingStep ==
  \E p \in Producers :
    Register(p) \/ ProducerClose(p) \/ WriteCounters(p) \/ (p \in registered_ /\ Abandon(p))

(* The registered producers stay registered where they are ...             *)
LEMMA SameProducers ==
  ASSUME LifecycleAssumption, AlwaysInv, [Next]_vars, ~CountingStep
  PROVE  /\ registered_' \cap Producers = registered_ \cap Producers
         /\ \A h \in registered_ \cap Producers : shm_'[h] = shm_[h]
<1>0. ControlType /\ ControlType' /\ \A c \in Consumers : c \notin Producers
  BY TypeParts, ControlStep, LifecycleAssumption DEF AlwaysInv, LifecycleAssumption
<1>1. ASSUME NEW h \in Producers, h \in registered_'
      PROVE  h \in registered_ /\ shm_'[h] = shm_[h]
  BY <1>0, <1>1, RegisteredKept DEF CountingStep, ControlType
<1>2. ASSUME NEW h \in Producers, h \in registered_
      PROVE  h \in registered_'
  BY <1>0, <1>2, RegistrationEnds DEF CountingStep
<1> QED BY <1>1, <1>2

(* ... and their counter, and the one of those that are gone, stay.        *)
LEMMA SameCounts ==
  ASSUME LifecycleAssumption, AlwaysInv, [Next]_vars, ~CountingStep,
         NEW s \in 1 .. Len(segs)
  PROVE  segs'[s].producers = segs[s].producers /\ segs'[s].abandoned = segs[s].abandoned
<1> DEFINE Same == segs'[s].producers = segs[s].producers /\ segs'[s].abandoned = segs[s].abandoned
<1>1. ASSUME NEW r, NEW e, Writes(r, e),
             e.producers = segs[r].producers, e.abandoned = segs[r].abandoned
      PROVE  Same
  BY <1>1 DEF Writes
<1>2. ASSUME NEW p \in Producers, ShmCreate(p) PROVE Same
  BY <1>2, ShmCreateWrites DEF NewSegment
<1>3. ASSUME NEW p \in Producers, Truncate(p) PROVE Same
  <2> DEFINE e == [Segment(p) EXCEPT !.size = total_data_bytes_[p]]
  <2>1. Writes(shm_[p], e)
    BY <1>3, TruncateWrites
  <2>2. e.producers = segs[shm_[p]].producers /\ e.abandoned = segs[shm_[p]].abandoned
    BY <2>1 DEF Writes, SegmentType, Segment
  <2> QED BY <2>1, <2>2, <1>1
<1>4. ASSUME NEW p \in Producers, WriteTotal(p) PROVE Same
  <2> DEFINE e == [Segment(p) EXCEPT !.total = total_data_bytes_[p]]
  <2>1. Writes(shm_[p], e)
    BY <1>4, WriteTotalWrites
  <2>2. e.producers = segs[shm_[p]].producers /\ e.abandoned = segs[shm_[p]].abandoned
    BY <2>1 DEF Writes, SegmentType, Segment
  <2> QED BY <2>1, <2>2, <1>1
<1>5. ASSUME NEW c \in Consumers, ConsumerClose(c) PROVE Same
  <2> DEFINE e == [Segment(c) EXCEPT !.consumers = Decrement(@)]
  <2>1. Writes(shm_[c], e)
    BY <1>5, ConsumerCloseWrites
  <2>2. e.producers = segs[shm_[c]].producers /\ e.abandoned = segs[shm_[c]].abandoned
    BY <2>1 DEF Writes, SegmentType, Segment
  <2> QED BY <2>1, <2>2, <1>1
<1>6. ASSUME NEW h \in Handles, Register(h) PROVE Same
  <2> DEFINE e == [Segment(h) EXCEPT !.consumers = @ + 1]
  <2>1. Writes(shm_[h], e)
    BY <1>6, RegisterWrites DEF CountingStep
  <2>2. e.producers = segs[shm_[h]].producers /\ e.abandoned = segs[shm_[h]].abandoned
    BY <2>1 DEF Writes, SegmentType, Segment
  <2> QED BY <2>1, <2>2, <1>1
<1>7. ASSUME NEW h \in Handles, Abandon(h) PROVE Same
  BY <1>7, AbandonWrites DEF CountingStep
<1> QED BY <1>2, <1>3, <1>4, <1>5, <1>6, <1>7, SegmentsKept DEF CountingStep

(* A new segment counts nobody, and nobody is registered on it.            *)
LEMMA NewSegmentEmpty ==
  ASSUME LifecycleAssumption, AlwaysInv, [Next]_vars, NEW s \in 1 .. Len(segs'),
         s \notin 1 .. Len(segs)
  PROVE  /\ segs'[s].producers = 0 /\ segs'[s].abandoned = 0 /\ ~CountingStep
         /\ \A kind : Registered(kind, s) = {}
<1>1. Len(segs) \in Nat /\ Len(segs') \in Nat
  BY SegmentsStep
<1>2. \A r, e : ~Writes(r, e)
  BY <1>1 DEF Writes
<1>3. PICK p \in Producers : ShmCreate(p)
  BY <1>1, <1>2, SegmentsKept, TruncateWrites, WriteTotalWrites,
     WriteCountersWrites,
     ProducerCloseWrites, ConsumerCloseWrites, RegisterWrites, AbandonWrites
<1> DEFINE e == [size |-> 0, total |-> 0, producers |-> 0, consumers |-> 0, abandoned |-> 0]
<1>4. segs'[s] = e
  BY <1>1, <1>3, ShmCreateWrites DEF NewSegment
<1>5. segs'[s].producers = 0 /\ segs'[s].abandoned = 0
  BY <1>4
<1>6. ~CountingStep
  BY <1>1, <1>2, AbandonWrites, RegisterWrites, ProducerCloseWrites,
     WriteCountersWrites
     DEF CountingStep, Handles
<1>7. \A h \in registered_ : shm_[h] \in 1 .. Len(segs)
  BY TypeParts, Mapped DEF AlwaysInv, ControlType
<1> QED BY <1>5, <1>6, <1>7 DEF Registered

(* Only the size of the header leads to the counters, ...                  *)
LEMMA CountersBegin ==
  ASSUME LifecycleAssumption, AlwaysInv, [Next]_vars, NEW p \in Producers,
         pc'[p] = "counters", pc[p] # "counters"
  PROVE  WriteTotal(p)
<1>0. ControlType /\ p \in Handles /\ \A h \in Producers : h \in Handles
  BY TypeParts DEF AlwaysInv, Handles
<1> USE DEF ControlType, Goto, Fail, Leave, FallBack, CondReady, NewFailed,
            OpenFailed
<1>1. ASSUME NEW h \in Handles, \/ ShmOpen(h) \/ MutexOpen(h) \/ WaitOpen(h) \/ Verify(h)
                                \/ Lock(h) \/ Register(h) \/ CloseBegin(h)
                                \/ Move(h) \/ Crash(h)
      PROVE  FALSE
  BY <1>0, <1>1
     DEF ShmOpen, MutexOpen, WaitOpen, Verify, Lock, Register, CloseBegin, Move,
         Crash
<1>2. ASSUME NEW h \in Producers,
             \/ InitWait(h) \/ ShmCreate(h) \/ Truncate(h) \/ MutexNew(h)
                                  \/ WaitNew(h) \/ WriteTotal(h) \/ WriteCounters(h)
                                  \/ InitPost(h) \/ ProducerClose(h)
      PROVE  WriteTotal(p)
  BY <1>0, <1>2 DEF InitWait, ShmCreate, Truncate, MutexNew, WaitNew, WriteTotal,
     WriteCounters, InitPost, ProducerClose
<1>3. ASSUME NEW h \in Producers, NEW create_new \in BOOLEAN, NEW total \in Totals,
             Construct(h, create_new, total)
      PROVE  FALSE
  BY <1>0, <1>3 DEF Construct
<1>4. ASSUME NEW c \in Consumers, c \in Handles,
             \/ ConsumerClose(c) \/ Unlink(c) \/ PopEos(c)
             \/ \E fresh \in BOOLEAN : Attach(c, fresh)
      PROVE  FALSE
  BY <1>0, <1>4 DEF ConsumerClose, Unlink, PopEos, Attach
<1>5. CASE UNCHANGED vars
  BY <1>5 DEF vars
<1> QED BY <1>1, <1>2, <1>3, <1>4, <1>5, Cases DEF Handles

(* ... and the counters are the creator's next step.                       *)
LEMMA CountersKept ==
  ASSUME LifecycleAssumption, AlwaysInv, [Next]_vars, NEW p \in Producers,
         pc'[p] = "counters", pc[p] = "counters"
  PROVE  shm_'[p] = shm_[p]
<1>0. /\ ControlType /\ p \in Handles /\ \A h \in Producers : h \in Handles
      /\ \A c \in Consumers : c # p /\ c \in Handles
  BY TypeParts, LifecycleAssumption DEF AlwaysInv, Handles, LifecycleAssumption
<1>1. ASSUME NEW h \in Handles, h # p, Frame(h) PROVE shm_'[p] = shm_[p]
  BY <1>0, <1>1 DEF Frame, Kept
<1>2. ASSUME NEW h \in Handles, \/ ShmOpen(h) \/ MutexOpen(h) \/ WaitOpen(h) \/ Verify(h)
                                \/ Lock(h) \/ Register(h) \/ CloseBegin(h)
                                \/ Move(h) \/ Crash(h)
      PROVE  shm_'[p] = shm_[p]
  <2>1. h # p
    BY <1>2
       DEF ShmOpen, MutexOpen, WaitOpen, Verify, Lock, Register, CloseBegin, Move,
           Crash
  <2> QED BY <1>1, <1>2, <2>1, FrameStep
<1>3. ASSUME NEW h \in Producers,
             \/ InitWait(h) \/ ShmCreate(h) \/ Truncate(h) \/ MutexNew(h) \/ WaitNew(h)
             \/ WriteTotal(h) \/ WriteCounters(h) \/ InitPost(h) \/ ProducerClose(h)
             \/ \E create_new \in BOOLEAN, total \in Totals : Construct(h, create_new, total)
      PROVE  shm_'[p] = shm_[p]
  <2>1. h # p
    BY <1>0, <1>3 DEF InitWait, ShmCreate, Truncate, MutexNew, WaitNew, WriteTotal,
       WriteCounters, InitPost, ProducerClose, Construct, Goto, ControlType
  <2> QED BY <1>0, <1>1, <1>3, <2>1, FrameStep
<1>4. ASSUME NEW c \in Consumers,
             \/ ConsumerClose(c) \/ Unlink(c) \/ PopEos(c)
             \/ \E fresh \in BOOLEAN : Attach(c, fresh)
      PROVE  shm_'[p] = shm_[p]
  BY <1>0, <1>1, <1>4, FrameStep
<1>5. CASE UNCHANGED vars
  BY <1>5 DEF vars, mapping
<1> QED BY <1>2, <1>3, <1>4, <1>5, Cases

(* One more in a counter is one more in that field only.                   *)
LEMMA Incremented ==
  ASSUME NEW g \in SegmentType
  PROVE  /\ [g EXCEPT !.producers = @ + 1].producers = g.producers + 1
         /\ [g EXCEPT !.producers = @ + 1].abandoned = g.abandoned
         /\ [g EXCEPT !.abandoned = @ + 1].abandoned = g.abandoned + 1
         /\ [g EXCEPT !.abandoned = @ + 1].producers = g.producers
BY DEF SegmentType

(* What the steps that count do to the counters of segment s.              *)
LEMMA RegisterCounts ==
  ASSUME LifecycleAssumption, AlwaysInv, NEW p \in Producers, Register(p),
         NEW s \in 1 .. Len(segs)
  PROVE  /\ segs'[s].producers = segs[s].producers + (IF s = shm_[p] THEN 1 ELSE 0)
         /\ segs'[s].abandoned = segs[s].abandoned
<1> DEFINE e == [Segment(p) EXCEPT !.producers = @ + 1]
<1>1. Writes(shm_[p], e)
  BY RegisterWrites DEF Handles
<1>2. segs[shm_[p]] \in SegmentType /\ segs[s] \in SegmentType
  <2>1. segs \in Seq(SegmentType)
    BY TypeParts DEF AlwaysInv
  <2> QED BY <1>1, <2>1 DEF Writes
<1>3. /\ e.producers = segs[shm_[p]].producers + 1
      /\ e.abandoned = segs[shm_[p]].abandoned
  BY <1>2, Incremented DEF Segment
<1>4. segs[s].producers \in Nat
  BY <1>2 DEF SegmentType
<1>5. CASE s = shm_[p]
  BY <1>1, <1>3, <1>5 DEF Writes
<1>6. CASE s # shm_[p]
  BY <1>1, <1>4, <1>6 DEF Writes
<1> QED BY <1>5, <1>6

(* ... a producer that closes is taken out where it was counted, ...       *)
LEMMA CloseCounts ==
  ASSUME LifecycleAssumption, AlwaysInv, NEW p \in Producers, ProducerClose(p),
         NEW s \in 1 .. Len(segs)
  PROVE  /\ segs'[s].producers = IF s = shm_[p] THEN Decrement(segs[s].producers)
                                                ELSE segs[s].producers
         /\ segs'[s].abandoned = segs[s].abandoned
<1> DEFINE e == [Segment(p) EXCEPT !.producers = Decrement(@)]
<1>1. Writes(shm_[p], e)
  BY ProducerCloseWrites
<1>2. /\ e.producers = Decrement(segs[shm_[p]].producers)
      /\ e.abandoned = segs[shm_[p]].abandoned
  BY <1>1 DEF Writes, SegmentType, Segment
<1> QED BY <1>1, <1>2 DEF Writes

(* ... the creator resets its own segment, ...                             *)
LEMMA ResetCounts ==
  ASSUME LifecycleAssumption, AlwaysInv, NEW p \in Producers, WriteCounters(p),
         NEW s \in 1 .. Len(segs)
  PROVE  /\ segs'[s].producers = IF s = shm_[p] THEN 0 ELSE segs[s].producers
         /\ segs'[s].abandoned = segs[s].abandoned
<1> DEFINE e == [Segment(p) EXCEPT !.producers = 0, !.consumers = 0]
<1>1. Writes(shm_[p], e)
  BY WriteCountersWrites
<1>2. e.producers = 0 /\ e.abandoned = segs[shm_[p]].abandoned
  BY <1>1 DEF Writes, SegmentType, Segment
<1> QED BY <1>1, <1>2 DEF Writes

(* ... and an abandoned registration stays in the counter.                 *)
LEMMA AbandonCounts ==
  ASSUME LifecycleAssumption, AlwaysInv, NEW p \in registered_, p \in Producers, Abandon(p),
         NEW s \in 1 .. Len(segs)
  PROVE  /\ segs'[s].abandoned = segs[s].abandoned + (IF s = shm_[p] THEN 1 ELSE 0)
         /\ segs'[s].producers = segs[s].producers
<1> DEFINE e == [Segment(p) EXCEPT !.abandoned = @ + 1]
<1>1. Writes(shm_[p], e)
  BY AbandonWrites DEF Handles
<1>2. segs[shm_[p]] \in SegmentType /\ segs[s] \in SegmentType
  <2>1. segs \in Seq(SegmentType)
    BY TypeParts DEF AlwaysInv
  <2> QED BY <1>1, <2>1 DEF Writes
<1>3. /\ e.abandoned = segs[shm_[p]].abandoned + 1
      /\ e.producers = segs[shm_[p]].producers
  BY <1>2, Incremented DEF Segment
<1>4. segs[s].abandoned \in Nat
  BY <1>2 DEF SegmentType
<1>5. CASE s = shm_[p]
  BY <1>1, <1>3, <1>5 DEF Writes
<1>6. CASE s # shm_[p]
  BY <1>1, <1>4, <1>6 DEF Writes
<1> QED BY <1>5, <1>6

(* An unfinished header counts nobody.                                     *)
LEMMA UntouchedStep ==
  ASSUME LifecycleAssumption, OrderlyInv, [Next]_vars
  PROVE  Untouched'
<1>0. /\ AlwaysInv /\ Untouched /\ OneInit /\ SetUpLinked /\ ControlType /\ ControlType'
      /\ \A p \in Producers : p \in Handles
      /\ Len(segs) \in Nat /\ Len(segs') \in Nat /\ Len(segs) <= Len(segs')
      /\ \A h \in registered_ : h \in Handles /\ shm_[h] \in 1 .. Len(segs)
      /\ \A h \in registered_' : h \in Handles
  BY TypeParts, ControlStep, SegmentsStep, RegisteredHeader
     DEF OrderlyInv, AlwaysInv, Handles, ControlType
<1>1. \A h \in registered_ : segs[shm_[h]].total # 0 /\ segs'[shm_[h]].total # 0
  BY <1>0, RegisteredHeader DEF OrderlyInv, Registrations, Segment
<1>2. ASSUME NEW s \in 1 .. Len(segs'), segs'[s].total = 0
      PROVE  segs'[s].producers = 0 /\ segs'[s].abandoned = 0
  <2>1. CASE s \notin 1 .. Len(segs)
    BY <1>0, <2>1, NewSegmentEmpty
  <2> SUFFICES ASSUME s \in 1 .. Len(segs)
               PROVE  segs'[s].producers = 0 /\ segs'[s].abandoned = 0
    BY <2>1
  <2>2. segs[s].total = 0
    <3>1. HeadersKept => segs[s].total = 0
      BY <1>2 DEF HeadersKept
    <3>2. ASSUME NEW p \in Producers, Truncate(p) PROVE segs[s].total = 0
      <4> DEFINE e == [Segment(p) EXCEPT !.size = total_data_bytes_[p]]
      <4>1. Writes(shm_[p], e)
        BY <1>0, <3>2, TruncateWrites
      <4>2. e.total = segs[shm_[p]].total
        BY <4>1 DEF Writes, SegmentType, Segment
      <4> QED BY <1>2, <4>1, <4>2 DEF Writes
    <3>3. ASSUME NEW p \in Producers, WriteTotal(p) PROVE segs[s].total = 0
      <4> DEFINE e == [Segment(p) EXCEPT !.total = total_data_bytes_[p]]
      <4>1. Writes(shm_[p], e)
        BY <1>0, <3>3, WriteTotalWrites
      <4>2. e.total = total_data_bytes_[p]
        BY <4>1 DEF Writes, SegmentType, Segment
      <4>3. total_data_bytes_[p] # 0
        BY <3>3 DEF WriteTotal, OrderlyInv, Constructors, Constructor, InitHeld
      <4> QED BY <1>2, <4>1, <4>2, <4>3 DEF Writes
    <3> QED BY <1>0, <3>1, <3>2, <3>3, HeadersStep
  <2>3. segs[s].producers = 0 /\ segs[s].abandoned = 0
    BY <1>0, <2>2 DEF Untouched
  <2>4. CASE ~CountingStep
    BY <1>0, <2>3, <2>4, SameCounts
  <2>5. ASSUME NEW p \in Producers, Register(p)
        PROVE  segs'[s].producers = 0 /\ segs'[s].abandoned = 0
    <3>1. s # shm_[p]
      BY <1>0, <2>2, <2>5, RegistersLinked DEF Ready, Linked
    <3> QED BY <1>0, <2>3, <2>5, <3>1, RegisterCounts
  <2>6. ASSUME NEW p \in Producers, ProducerClose(p)
        PROVE  segs'[s].producers = 0 /\ segs'[s].abandoned = 0
    BY <1>0, <2>3, <2>6, CloseCounts DEF Decrement
  <2>7. ASSUME NEW p \in Producers, WriteCounters(p)
        PROVE  segs'[s].producers = 0 /\ segs'[s].abandoned = 0
    BY <1>0, <2>3, <2>7, ResetCounts
  <2>8. ASSUME NEW p \in Producers, p \in registered_, Abandon(p)
        PROVE  segs'[s].producers = 0 /\ segs'[s].abandoned = 0
    BY <1>0, <1>1, <2>2, <2>3, <2>8, AbandonCounts
  <2> QED BY <2>4, <2>5, <2>6, <2>7, <2>8 DEF CountingStep
<1> DEFINE NotCounted(p) == \A h \in Producers : h \in registered_' => shm_'[h] # shm_'[p]
<1>3. ASSUME NEW p \in Producers, pc'[p] = "counters"
      PROVE  segs'[shm_'[p]].abandoned = 0 /\ NotCounted(p)
  <2>1. CASE pc[p] = "counters"
    <3>1. \A h \in Producers : pc[h] \in InitHeld => h = p
      BY <1>0, <2>1, OneConstructor DEF InitHeld
    <3>2. Segment(p).abandoned = 0 /\ Registered(Producers, shm_[p]) = {}
      BY <1>0, <2>1 DEF Untouched
    <3>3. shm_[p] \in 1 .. Len(segs)
      BY <1>0, <2>1, Mapped DEF SetUp
    <3>4. shm_'[p] = shm_[p]
      BY <1>0, <2>1, <1>3, CountersKept, LifecycleAssumption
    <3>5. CASE ~CountingStep
      BY <1>0, <3>2, <3>3, <3>4, <3>5, SameProducers, SameCounts
         DEF Segment, Registered
    <3>6. ASSUME NEW q \in Producers, Register(q) PROVE FALSE
      BY <2>1, <3>1, <3>6 DEF Register, InitHeld
    <3>7. ASSUME NEW q \in Producers, WriteCounters(q) PROVE FALSE
      BY <1>0, <1>3, <2>1, <3>1, <3>7 DEF WriteCounters, Goto, InitHeld, ControlType
    <3>8. ASSUME NEW q \in Producers, q \in registered_, ProducerClose(q) \/ Abandon(q)
          PROVE  segs'[shm_[p]].abandoned = 0 /\ NotCounted(p)
      <4>1. shm_[q] # shm_[p]
        BY <3>2, <3>8 DEF Registered
      <4>2. segs'[shm_[p]].abandoned = 0
        BY <1>0, <3>2, <3>3, <3>8, <4>1, AbandonCounts, CloseCounts DEF Segment
      <4>3. \A h \in Producers : h \in registered_' => h \in registered_ /\ shm_'[h] = shm_[h]
        BY <1>0, <3>6, RegisteredKept
      <4> QED BY <3>2, <3>4, <4>2, <4>3 DEF Registered
    <3>9. ASSUME NEW q \in Producers, ProducerClose(q) PROVE q \in registered_
      BY <1>0, <3>9 DEF ProducerClose, AlwaysInv, Roles
    <3> QED BY <3>4, <3>5, <3>6, <3>7, <3>8, <3>9 DEF CountingStep, Registered
  <2>2. CASE pc[p] # "counters"
    <3>1. WriteTotal(p)
      BY <1>0, <1>3, <2>2, CountersBegin
    <3>2. Creating(p) /\ pc[p] \in SetUp /\ shm_'[p] = shm_[p]
      BY <1>0, <3>1 DEF WriteTotal, mapping, Creating, SetUp, AlwaysInv, Roles
    <3>3. shm_[p] = shm_name /\ segs[shm_[p]].total = 0 /\ shm_[p] \in 1 .. Len(segs)
      BY <1>0, <3>2, SetUpHasName, Mapped
         DEF Linked, OrderlyInv, Constructors, Constructor
    <3>4. ~CountingStep
      <4>1. pc[p] = "header" /\ pc' = [pc EXCEPT ![p] = "counters"] /\ registered_' = registered_
        BY <3>1 DEF WriteTotal, Goto, flags
      <4>2. ASSUME NEW q \in Producers, Register(q) \/ ProducerClose(q) \/ WriteCounters(q)
            PROVE  FALSE
        BY <1>0, <4>1, <4>2
           DEF Register, ProducerClose, WriteCounters, Goto, Leave, ControlType
      <4>3. ASSUME NEW q \in registered_ PROVE ~Abandon(q)
        BY <4>1, <4>3 DEF Abandon
      <4> QED BY <4>2, <4>3 DEF CountingStep
    <3>5. segs[shm_[p]].abandoned = 0 /\ Registered(Producers, shm_[p]) = {}
      BY <1>0, <1>1, <3>3 DEF Untouched, Registered
    <3> QED BY <1>0, <3>2, <3>3, <3>4, <3>5, SameProducers, SameCounts
               DEF Registered
  <2> QED BY <2>1, <2>2
<1> QED BY <1>2, <1>3 DEF Untouched, Segment, Registered

(* The registered producers of a segment are finitely many.                *)
LEMMA RegisteredFinite ==
  ASSUME LifecycleAssumption, NEW kind \in {Producers, Consumers}, NEW s
  PROVE  IsFiniteSet(Registered(kind, s)) /\ Cardinality(Registered(kind, s)) \in Nat
<1>1. IsFiniteSet(kind) /\ Registered(kind, s) \subseteq kind
  BY DEF LifecycleAssumption, Registered
<1> QED BY <1>1, FS_Subset, FS_CardinalityType

(* The counter and the set of those registered change together; the        *)
(* creator resets the counter while nobody is registered.                  *)
LEMMA ProducersCountedStep ==
  ASSUME LifecycleAssumption, OrderlyInv, [Next]_vars
  PROVE  ProducersCounted'
<1>0. /\ AlwaysInv /\ ProducersCounted /\ ControlType /\ ControlType'
      /\ Len(segs) \in Nat /\ Len(segs') \in Nat /\ Len(segs) <= Len(segs')
      /\ \A p \in Producers : p \in Handles
  BY TypeParts, ControlStep, SegmentsStep DEF OrderlyInv, AlwaysInv, Handles
<1> SUFFICES ASSUME NEW s \in 1 .. Len(segs')
             PROVE  segs'[s].producers = Cardinality(Registered(Producers, s)') + segs'[s].abandoned
  BY DEF ProducersCounted, Registered
<1> DEFINE Now == Registered(Producers, s)
           Then == Registered(Producers, s)'
<1>1. CASE s \notin 1 .. Len(segs)
  <2>1. /\ segs'[s].producers = 0 /\ segs'[s].abandoned = 0 /\ ~CountingStep
        /\ \A kind : Registered(kind, s) = {}
    BY <1>0, <1>1, NewSegmentEmpty
  <2>2. Then = {}
    BY <1>0, <2>1, SameProducers DEF Registered
  <2> QED BY <2>1, <2>2, FS_EmptySet
<1> SUFFICES ASSUME s \in 1 .. Len(segs)
             PROVE  segs'[s].producers = Cardinality(Then) + segs'[s].abandoned
  BY <1>1
<1>2. segs[s].producers = Cardinality(Now) + segs[s].abandoned
  BY <1>0 DEF ProducersCounted
<1>3. /\ IsFiniteSet(Now) /\ Cardinality(Now) \in Nat
      /\ segs[s].abandoned \in Nat /\ segs[s].producers \in Nat
  <2>1. segs[s] \in SegmentType
    BY <1>0, TypeParts DEF AlwaysInv
  <2> QED BY <2>1, RegisteredFinite DEF SegmentType
<1>4. CASE ~CountingStep
  <2>1. Then = Now
    BY <1>0, <1>4, SameProducers DEF Registered
  <2> QED BY <1>0, <1>2, <1>4, <2>1, SameCounts
<1>5. ASSUME NEW p \in Producers, Register(p)
      PROVE  segs'[s].producers = Cardinality(Then) + segs'[s].abandoned
  <2>1. /\ registered_' = registered_ \cup {p} /\ p \notin registered_
        /\ shm_' = shm_
    BY <1>0, <1>5, RegisteredKept DEF Register, mapping
  <2>2. Then = IF s = shm_[p] THEN Now \cup {p} ELSE Now
    BY <2>1 DEF Registered
  <2>3. p \notin Now
    BY <2>1 DEF Registered
  <2>4. CASE s = shm_[p]
    <3>1. Cardinality(Then) = Cardinality(Now) + 1
      BY <1>3, <2>2, <2>3, <2>4, FS_AddElement
    <3>2. /\ segs'[s].producers = segs[s].producers + 1
          /\ segs'[s].abandoned = segs[s].abandoned
      BY <1>0, <1>5, <2>4, RegisterCounts
    <3> HIDE DEF Now, Then
    <3> QED BY <1>2, <1>3, <3>1, <3>2
  <2>5. CASE s # shm_[p]
    BY <1>0, <1>2, <1>3, <1>5, <2>2, <2>5, RegisterCounts
  <2> QED BY <2>4, <2>5
<1>6. ASSUME NEW p \in Producers, p \in registered_, ProducerClose(p) \/ Abandon(p)
      PROVE  segs'[s].producers = Cardinality(Then) + segs'[s].abandoned
  <2>1. /\ registered_' = registered_ \ {p}
        /\ \A h \in registered_' : shm_'[h] = shm_[h]
    <3>1. registered_' = registered_ \ {p}
      BY <1>6 DEF ProducerClose, Abandon
    <3> QED BY <1>0, <3>1, RegisteredKept DEF ControlType
  <2>2. Then = IF s = shm_[p] THEN Now \ {p} ELSE Now
    BY <2>1, <1>6 DEF Registered
  <2>3. CASE s = shm_[p]
    <3>1. p \in Now
      BY <1>6, <2>3 DEF Registered
    <3>2. Cardinality(Then) = Cardinality(Now) - 1 /\ Cardinality(Now) > 0
      <4>1. Cardinality(Then) = Cardinality(Now) - 1
        BY <1>3, <2>2, <2>3, <3>1, FS_RemoveElement
      <4>2. Cardinality(Now) # 0
        BY <1>3, <3>1, FS_EmptySet
      <4> QED BY <1>3, <4>1, <4>2
    <3>3. CASE ProducerClose(p)
      <4>1. /\ segs'[s].producers = Decrement(segs[s].producers)
            /\ segs'[s].abandoned = segs[s].abandoned
        BY <1>0, <2>3, <3>3, CloseCounts
      <4>2. segs[s].producers > 0
        BY <1>2, <1>3, <3>2
      <4> HIDE DEF Now, Then
      <4> QED BY <1>2, <1>3, <3>2, <4>1, <4>2 DEF Decrement
    <3>4. CASE Abandon(p)
      <4>1. /\ segs'[s].producers = segs[s].producers
            /\ segs'[s].abandoned = segs[s].abandoned + 1
        BY <1>0, <1>6, <2>3, <3>4, AbandonCounts
      <4> HIDE DEF Now, Then
      <4> QED BY <1>2, <1>3, <3>2, <4>1
    <3> QED BY <1>6, <3>3, <3>4
  <2>4. CASE s # shm_[p]
    BY <1>0, <1>2, <1>3, <1>6, <2>2, <2>4, CloseCounts, AbandonCounts
  <2> QED BY <2>3, <2>4
<1>7. ASSUME NEW p \in Producers, ProducerClose(p) PROVE p \in registered_
  BY <1>0, <1>7 DEF ProducerClose, AlwaysInv, Roles
<1>8. ASSUME NEW p \in Producers, WriteCounters(p)
      PROVE  segs'[s].producers = Cardinality(Then) + segs'[s].abandoned
  <2>1. Then = Now
    BY <1>8 DEF WriteCounters, Registered, flags, mapping
  <2>2. CASE s = shm_[p]
    <3>1. Now = {} /\ segs[s].abandoned = 0
      BY <1>8, <2>2 DEF WriteCounters, OrderlyInv, Untouched, Segment
    <3> QED BY <1>0, <1>8, <2>1, <2>2, <3>1, ResetCounts, FS_EmptySet
  <2>3. CASE s # shm_[p]
    BY <1>0, <1>2, <1>8, <2>1, <2>3, ResetCounts
  <2> QED BY <2>2, <2>3
<1> QED BY <1>4, <1>5, <1>6, <1>7, <1>8 DEF CountingStep

(* The invariant of sessions that do not overlap holds at first ...        *)
LEMMA OrderlyInit == Init => OrderlyInv
<1> SUFFICES ASSUME Init PROVE OrderlyInv
  OBVIOUS
<1>1. AlwaysInv
  BY AlwaysInit
<1>2. Len(segs) = 0
  BY DEF Init
<1>3. Closing = {} /\ registered_ = {} /\ shm_name = 0 /\ mutex_name = 0
      /\ \A h \in Handles : pc[h] = "detached"
  BY DEF Init, Closing, LifecycleAssumption, Handles
<1>4. Phase /\ OneInit /\ SetUpLinked /\ UnlinkOrder /\ Constructors /\ Attachers
  BY <1>3
     DEF Phase, OneInit, SetUpLinked, UnlinkOrder, Constructors, Constructor,
         Attachers,
     Attacher, Creating, Handles, InitHeld, SetUp
<1>5. LinkedState /\ SemaphoreNames /\ Registrations /\ OneLockPerSegment
  BY <1>3 DEF LinkedState, SemaphoreNames, Registrations, OneLockPerSegment
<1>6. Untouched /\ ProducersCounted
  BY <1>2, <1>3 DEF Untouched, ProducersCounted, Handles
<1> QED BY <1>1, <1>4, <1>5, <1>6 DEF OrderlyInv

(* ... and after every step.                                               *)
LEMMA OrderlyStep == OrderlyInv /\ [Next /\ Orderly]_vars => OrderlyInv'
<1> SUFFICES ASSUME OrderlyInv, [Next /\ Orderly]_vars PROVE OrderlyInv'
  OBVIOUS
<1>1. [Next]_vars /\ AlwaysInv /\ Phase
  BY DEF OrderlyInv
<1>2. Phase'
  <2>1. CASE Orderly
    BY <1>1, <2>1, LifecycleAssumption, PhaseStep
  <2>2. CASE UNCHANGED vars
    BY <1>1, <2>2 DEF vars, flags, Phase, Closing, Constructing, Attaching
  <2> QED BY <2>1, <2>2
<1>3. AlwaysInv' /\ OneInit' /\ SetUpLinked' /\ UnlinkOrder'
  BY <1>1, LifecycleAssumption, AlwaysStep, OneInitStep, SetUpLinkedStep,
     UnlinkOrderStep DEF OrderlyInv
<1>4. LinkedState' /\ SemaphoreNames' /\ Constructors' /\ Attachers'
  BY <1>1, LifecycleAssumption, LinkedStateStep, SemaphoreNamesStep,
     ConstructorsStep, AttachersStep
<1>5. Registrations' /\ OneLockPerSegment' /\ Untouched' /\ ProducersCounted'
  BY <1>1, LifecycleAssumption, RegistrationsStep, OneLockStep, UntouchedStep,
     ProducersCountedStep
<1> QED BY <1>2, <1>3, <1>4, <1>5 DEF OrderlyInv

(* The behaviours in which sessions do not overlap.                        *)
OrderlySessions == Init /\ [][Next /\ Orderly]_vars

(* When sessions do not overlap, whoever dies or is moved in them,         *)
(* everyone registered on a segment locks the same semaphore.              *)
THEOREM OrderlyLock == OrderlySessions => []OneLockPerSegment
<1>1. OrderlyInv => OneLockPerSegment
  BY DEF OrderlyInv
<1> QED BY <1>1, OrderlyInit, OrderlyStep, PTL DEF OrderlySessions

(* Whoever is registered finds a written header and computes with its      *)
(* size.                                                                   *)
THEOREM OrderlyHeader == OrderlySessions => []HeaderWritten
<1>1. OrderlyInv => HeaderWritten
  BY DEF OrderlyInv, Registrations, HeaderWritten
<1> QED BY <1>1, OrderlyInit, OrderlyStep, PTL DEF OrderlySessions

(* active_producers is right: end of stream is not announced while a       *)
(* producer is registered.                                                 *)
THEOREM OrderlyCount == OrderlySessions => []ProducersCounted
<1>1. OrderlyInv => ProducersCounted
  BY DEF OrderlyInv
<1> QED BY <1>1, OrderlyInit, OrderlyStep, PTL DEF OrderlySessions

-----------------------------------------------------------------------------
(***************************************************************************)
(* Sessions that do not overlap, with headers written undisturbed          *)
(***************************************************************************)
(* Everyone registered is on the segment that has the name.                *)
LEMMA RegisteredLinkedStep ==
  ASSUME LifecycleAssumption, UndisturbedInv, [Next]_vars
  PROVE  RegisteredLinked'
<1>0. OrderlyInv /\ AlwaysInv /\ RegisteredLinked /\ ControlType /\ ControlType'
  BY TypeParts, ControlStep DEF UndisturbedInv, OrderlyInv, AlwaysInv
<1> SUFFICES ASSUME NEW h \in registered_', h \in Handles PROVE shm_'[h] = shm_name'
  BY <1>0 DEF RegisteredLinked, ControlType
<1>1. CASE Register(h)
  BY <1>0, <1>1, RegistersLinked DEF Register, mapping, SharedKept
<1>2. CASE ~Register(h)
  <2>1. h \in registered_ /\ shm_'[h] = shm_[h] /\ shm_[h] = shm_name
    BY <1>0, <1>2, RegisteredKept DEF RegisteredLinked
  <2>2. shm_[h] # 0
    BY <1>0, <2>1 DEF AlwaysInv, Resources
  <2>3. ASSUME NEW x \in Consumers, Unlink(x) PROVE FALSE
    BY <2>1, <2>3 DEF Unlink, UndisturbedInv, UnlinkUnused, UnlinkPC
  <2>4. ASSUME NEW p \in Producers, ShmCreate(p) PROVE shm_name' = shm_name
    BY <2>1, <2>2, <2>4 DEF ShmCreate
  <2>5. ASSUME NEW p \in Producers, MutexNew(p) \/ WaitNew(p) PROVE shm_name' = shm_name
    BY <2>5 DEF MutexNew, WaitNew
  <2> QED BY <2>1, <2>3, <2>4, <2>5, NamesKept
<1> QED BY <1>1, <1>2

(* What the steps do to active_consumers of segment s.                     *)
LEMMA ConsumerCounts ==
  ASSUME LifecycleAssumption, AlwaysInv, [Next]_vars, NEW s \in 1 .. Len(segs)
  PROVE  \/ segs'[s].consumers = segs[s].consumers
            /\ \A c \in Consumers : ~Register(c)
         \/ \E c \in Consumers :
              /\ Register(c)
              /\ segs'[s].consumers = segs[s].consumers + (IF s = shm_[c] THEN 1 ELSE 0)
         \/ \E c \in Consumers :
              /\ ConsumerClose(c) /\ s = shm_[c]
              /\ segs'[s].consumers = Decrement(segs[s].consumers)
         \/ \E p \in Producers : WriteCounters(p)
<1>0. /\ segs[s].consumers \in Nat
      /\ \A c \in Consumers : c \in Handles /\ c \notin Producers
      /\ \A p \in Producers : p \in Handles
  <2>1. segs \in Seq(SegmentType)
    BY TypeParts DEF AlwaysInv
  <2>2. segs[s] \in SegmentType
    BY <2>1
  <2>3. segs[s].consumers \in Nat
    BY <2>2 DEF SegmentType
  <2> QED BY <2>3, LifecycleAssumption DEF Handles, LifecycleAssumption
<1>1. ASSUME NEW c \in Consumers, Register(c)
      PROVE  segs'[s].consumers = segs[s].consumers + (IF s = shm_[c] THEN 1 ELSE 0)
  <2> DEFINE e == [Segment(c) EXCEPT !.consumers = @ + 1]
  <2>1. Writes(shm_[c], e)
    BY <1>0, <1>1, RegisterWrites
  <2>2. CASE s = shm_[c]
    <3>1. Segment(c) = segs[s] /\ segs'[s] = e
      BY <2>1, <2>2 DEF Writes, Segment
    <3>2. \A g \in SegmentType : [g EXCEPT !.consumers = @ + 1].consumers = g.consumers + 1
      BY DEF SegmentType
    <3> QED BY <1>0, <2>2, <3>1, <3>2
  <2>3. CASE s # shm_[c]
    BY <1>0, <2>1, <2>3 DEF Writes
  <2> QED BY <2>2, <2>3
<1> SUFFICES ASSUME \A c \in Consumers : ~Register(c),
                    \A p \in Producers : ~WriteCounters(p)
             PROVE  \/ segs'[s].consumers = segs[s].consumers
                    \/ \E c \in Consumers :
                         /\ ConsumerClose(c) /\ s = shm_[c]
                         /\ segs'[s].consumers = Decrement(segs[s].consumers)
  BY <1>1
<1>2. ASSUME NEW r, NEW e, Writes(r, e), e.consumers = segs[r].consumers
      PROVE  segs'[s].consumers = segs[s].consumers
  BY <1>2 DEF Writes
<1>3. ASSUME NEW p \in Producers, ShmCreate(p) PROVE segs'[s].consumers = segs[s].consumers
  BY <1>3, ShmCreateWrites DEF NewSegment
<1>4. ASSUME NEW p \in Producers, Truncate(p) PROVE segs'[s].consumers = segs[s].consumers
  <2> DEFINE e == [Segment(p) EXCEPT !.size = total_data_bytes_[p]]
  <2>1. Writes(shm_[p], e)
    BY <1>4, TruncateWrites
  <2> QED BY <2>1, <1>2 DEF Writes, SegmentType, Segment
<1>5. ASSUME NEW p \in Producers, WriteTotal(p) PROVE segs'[s].consumers = segs[s].consumers
  <2> DEFINE e == [Segment(p) EXCEPT !.total = total_data_bytes_[p]]
  <2>1. Writes(shm_[p], e)
    BY <1>5, WriteTotalWrites
  <2> QED BY <2>1, <1>2 DEF Writes, SegmentType, Segment
<1>6. ASSUME NEW p \in Producers, ProducerClose(p)
      PROVE  segs'[s].consumers = segs[s].consumers
  <2> DEFINE e == [Segment(p) EXCEPT !.producers = Decrement(@)]
  <2>1. Writes(shm_[p], e)
    BY <1>6, ProducerCloseWrites
  <2> QED BY <2>1, <1>2 DEF Writes, SegmentType, Segment
<1>7. ASSUME NEW h \in Handles, Register(h) PROVE segs'[s].consumers = segs[s].consumers
  <2> DEFINE e == [Segment(h) EXCEPT !.producers = @ + 1]
  <2>1. Writes(shm_[h], e)
    BY <1>7, RegisterWrites DEF Handles
  <2> QED BY <2>1, <1>2 DEF Writes, SegmentType, Segment
<1>8. ASSUME NEW h \in Handles, Abandon(h) PROVE segs'[s].consumers = segs[s].consumers
  <2> DEFINE e == [Segment(h) EXCEPT !.abandoned = @ + 1]
  <2>1. Writes(shm_[h], e) \/ segs' = segs
    BY <1>8, AbandonWrites
  <2> QED BY <2>1, <1>2 DEF Writes, SegmentType, Segment
<1>9. ASSUME NEW c \in Consumers, ConsumerClose(c)
      PROVE  \/ segs'[s].consumers = segs[s].consumers
             \/ s = shm_[c] /\ segs'[s].consumers = Decrement(segs[s].consumers)
  <2> DEFINE e == [Segment(c) EXCEPT !.consumers = Decrement(@)]
  <2>1. Writes(shm_[c], e)
    BY <1>9, ConsumerCloseWrites
  <2>2. e.consumers = Decrement(segs[shm_[c]].consumers)
    BY <2>1 DEF Writes, SegmentType, Segment
  <2> QED BY <2>1, <2>2 DEF Writes
<1> QED BY <1>3, <1>4, <1>5, <1>6, <1>7, <1>8, <1>9, SegmentsKept

(* active_consumers never misses a registered consumer: the only reset     *)
(* finds nobody registered.                                                *)
LEMMA ConsumersCountedStep ==
  ASSUME LifecycleAssumption, UndisturbedInv, [Next]_vars
  PROVE  ConsumersCounted'
<1>0. /\ OrderlyInv /\ AlwaysInv /\ ConsumersCounted /\ ControlType /\ ControlType'
      /\ Len(segs) \in Nat /\ Len(segs') \in Nat /\ Len(segs) <= Len(segs')
      /\ segs' \in Seq(SegmentType)
      /\ \A c \in Consumers : c \in Handles
  BY TypeParts, ControlStep, SegmentsStep
     DEF UndisturbedInv, OrderlyInv, AlwaysInv, Handles
<1> SUFFICES ASSUME NEW s \in 1 .. Len(segs')
             PROVE  segs'[s].consumers >= Cardinality(Registered(Consumers, s)')
  BY DEF ConsumersCounted, Registered
<1> DEFINE Now == Registered(Consumers, s)
           Then == Registered(Consumers, s)'
<1>1. /\ IsFiniteSet(Now) /\ Cardinality(Now) \in Nat
      /\ segs'[s].consumers \in Nat
  <2>1. segs'[s] \in SegmentType
    BY <1>0
  <2>2. segs'[s].consumers \in Nat
    BY <2>1 DEF SegmentType
  <2> QED BY <2>2, RegisteredFinite
<1>2. ASSUME \A c \in Consumers : ~Register(c)
      PROVE  Then \subseteq Now /\ Cardinality(Then) \in Nat /\ Cardinality(Then) <= Cardinality(Now)
  <2>1. Then \subseteq Now
    BY <1>0, <1>2, RegisteredKept DEF Registered
  <2> QED BY <1>1, <2>1, FS_Subset, FS_CardinalityType
<1>3. CASE s \notin 1 .. Len(segs)
  <2>1. Now = {}
    BY <1>0, <1>3, NewSegmentEmpty
  <2>2. ASSUME NEW c \in Consumers, Register(c) PROVE FALSE
    <3>1. \E e : Writes(shm_[c], e)
      BY <1>0, <2>2, RegisterWrites
    <3> QED BY <1>3, <3>1 DEF Writes
  <2>3. Then = {}
    BY <1>2, <2>1, <2>2
  <2> QED BY <1>1, <2>3, FS_EmptySet
<1>4. CASE s \in 1 .. Len(segs)
  <2>1. segs[s].consumers >= Cardinality(Now) /\ segs[s].consumers \in Nat
    <3>1. segs \in Seq(SegmentType)
      BY <1>0, TypeParts DEF AlwaysInv
    <3>2. segs[s] \in SegmentType
      BY <1>4, <3>1
    <3>3. segs[s].consumers \in Nat
      BY <3>2 DEF SegmentType
    <3> QED BY <1>0, <1>4, <3>3 DEF ConsumersCounted
  <2>2. CASE segs'[s].consumers = segs[s].consumers /\ \A c \in Consumers : ~Register(c)
    <3>1. Cardinality(Then) \in Nat /\ Cardinality(Then) <= Cardinality(Now)
      BY <1>2, <2>2
    <3>2. segs'[s].consumers >= Cardinality(Then)
      <4> HIDE DEF Now, Then
      <4> QED BY <1>1, <2>1, <2>2, <3>1
    <3> QED BY <3>2
  <2>3. ASSUME NEW c \in Consumers, Register(c),
               segs'[s].consumers = segs[s].consumers + (IF s = shm_[c] THEN 1 ELSE 0)
        PROVE  segs'[s].consumers >= Cardinality(Then)
    <3>1. /\ registered_' = registered_ \cup {c} /\ c \notin registered_ /\ shm_' = shm_
      BY <1>0, <2>3, RegisteredKept DEF Register, mapping
    <3>2. Then = IF s = shm_[c] THEN Now \cup {c} ELSE Now
      BY <3>1 DEF Registered
    <3>3. c \notin Now
      BY <3>1 DEF Registered
    <3>4. Cardinality(Then) = Cardinality(Now) + (IF s = shm_[c] THEN 1 ELSE 0)
      <4>1. Cardinality(Now \cup {c}) = Cardinality(Now) + 1
        BY <1>1, <3>3, FS_AddElement
      <4> HIDE DEF Now, Then
      <4> QED BY <1>1, <3>2, <4>1
    <3> HIDE DEF Now, Then
    <3> QED BY <1>1, <2>1, <2>3, <3>4
  <2>4. ASSUME NEW c \in Consumers, ConsumerClose(c), s = shm_[c],
               segs'[s].consumers = Decrement(segs[s].consumers)
        PROVE  segs'[s].consumers >= Cardinality(Then)
    <3>1. c \in registered_ /\ registered_' = registered_ \ {c} /\ \A x \in Consumers : ~Register(x)
      <4>1. c \in registered_ /\ registered_' = registered_ \ {c}
        BY <1>0, <2>4 DEF ConsumerClose, AlwaysInv, Roles
      <4> QED BY <1>0, <4>1 DEF Register, AlwaysInv, Roles, InUse
    <3>2. c \in Now /\ Then \subseteq Now \ {c}
      BY <1>2, <2>4, <3>1 DEF Registered
    <3>3. IsFiniteSet(Now \ {c}) /\ Cardinality(Now \ {c}) = Cardinality(Now) - 1
      BY <1>1, <3>2, FS_RemoveElement
    <3>4. Cardinality(Then) \in Nat /\ Cardinality(Then) <= Cardinality(Now) - 1
      BY <3>2, <3>3, FS_Subset, FS_CardinalityType
    <3> HIDE DEF Now, Then
    <3> QED BY <1>1, <2>1, <2>4, <3>4 DEF Decrement
  <2>5. ASSUME NEW p \in Producers, WriteCounters(p)
        PROVE  segs'[s].consumers >= Cardinality(Then)
    <3>1. registered_ = {} /\ registered_' = {}
      BY <2>5 DEF WriteCounters, flags, UndisturbedInv, CountersUnused
    <3>2. Then = {}
      BY <3>1 DEF Registered
    <3> QED BY <1>1, <3>2, FS_EmptySet
  <2> QED BY <1>0, <1>4, <2>2, <2>3, <2>4, <2>5, ConsumerCounts
<1> QED BY <1>3, <1>4

(* Only the last consumer begins to unlink.                                *)
LEMMA UnlinkBegins ==
  ASSUME LifecycleAssumption, AlwaysInv, [Next]_vars, NEW c \in Consumers,
         pc'[c] \in UnlinkPC, pc[c] \notin UnlinkPC
  PROVE  ConsumerClose(c) /\ ShouldUnlink(c, segs'[shm_[c]])
<1>0. /\ ControlType /\ c \in Handles /\ c \notin Producers
      /\ \A h \in Producers : h \in Handles
  BY TypeParts, LifecycleAssumption DEF AlwaysInv, Handles, LifecycleAssumption
<1> USE DEF ControlType, UnlinkPC, Goto, Fail, Leave, FallBack, CondReady,
            NewFailed, OpenFailed
<1>1. ASSUME NEW h \in Handles, \/ ShmOpen(h) \/ MutexOpen(h) \/ WaitOpen(h) \/ Verify(h)
                                \/ Lock(h) \/ Register(h) \/ CloseBegin(h)
                                \/ Move(h) \/ Crash(h)
      PROVE  FALSE
  BY <1>0, <1>1
     DEF ShmOpen, MutexOpen, WaitOpen, Verify, Lock, Register, CloseBegin, Move,
         Crash
<1>2. ASSUME NEW h \in Producers,
             \/ InitWait(h) \/ ShmCreate(h) \/ Truncate(h) \/ MutexNew(h)
                                  \/ WaitNew(h) \/ WriteTotal(h) \/ WriteCounters(h)
                                  \/ InitPost(h) \/ ProducerClose(h)
      PROVE  FALSE
  BY <1>0, <1>2 DEF InitWait, ShmCreate, Truncate, MutexNew, WaitNew, WriteTotal,
     WriteCounters, InitPost, ProducerClose
<1>3. ASSUME NEW h \in Producers, NEW create_new \in BOOLEAN, NEW total \in Totals,
             Construct(h, create_new, total)
      PROVE  FALSE
  BY <1>0, <1>3 DEF Construct
<1>4. ASSUME NEW x \in Consumers, x \in Handles,
             Unlink(x) \/ PopEos(x) \/ \E fresh \in BOOLEAN : Attach(x, fresh)
      PROVE  FALSE
  BY <1>0, <1>4 DEF Unlink, PopEos, Attach
<1>5. ASSUME NEW x \in Consumers, x \in Handles, ConsumerClose(x)
      PROVE  ConsumerClose(c) /\ ShouldUnlink(c, segs'[shm_[c]])
  BY <1>0, <1>5 DEF ConsumerClose
<1>6. CASE UNCHANGED vars
  BY <1>6 DEF vars
<1> QED BY <1>1, <1>2, <1>3, <1>4, <1>5, <1>6, Cases DEF Handles

(* Whoever unlinks was the last one: nobody is counted any more, and all   *)
(* the registered ones are counted.                                        *)
LEMMA UnlinkUnusedStep ==
  ASSUME LifecycleAssumption, UndisturbedInv, [Next]_vars
  PROVE  UnlinkUnused'
<1>0. /\ OrderlyInv /\ AlwaysInv /\ Phase /\ ControlType /\ ControlType' /\ UnlinkUnused
      /\ RegisteredLinked /\ ProducersCounted /\ ConsumersCounted
      /\ \A c \in Consumers : c \in Handles
      /\ \A h \in Handles : h \in Producers \/ h \in Consumers
  BY TypeParts, ControlStep DEF UndisturbedInv, OrderlyInv, AlwaysInv, Handles
<1> SUFFICES ASSUME NEW c \in Consumers, pc'[c] \in UnlinkPC PROVE registered_' = {}
  BY DEF UnlinkUnused
<1>1. CASE pc[c] \in UnlinkPC
  <2>1. \A h \in Handles : ~Register(h)
    BY <1>0, <1>1, UnlinksAlone DEF Register, InUse, UnlinkPC
  <2> QED BY <1>0, <1>1, <2>1, RegisteredKept DEF UnlinkUnused, ControlType
<1>2. CASE pc[c] \notin UnlinkPC
  <2>1. ConsumerClose(c) /\ ShouldUnlink(c, segs'[shm_[c]])
    BY <1>0, <1>2, UnlinkBegins
  <2>2. /\ c \in registered_ /\ registered_' = registered_ \ {c}
        /\ shm_[c] \in 1 .. Len(segs) /\ Segment(c) \in SegmentType
    BY <1>0, <2>1, Mapped DEF ConsumerClose, AlwaysInv, Roles
  <2> DEFINE P == Registered(Producers, shm_[c])
             C == Registered(Consumers, shm_[c])
  <2>3. /\ IsFiniteSet(P) /\ IsFiniteSet(C) /\ Cardinality(P) \in Nat /\ Cardinality(C) \in Nat
    BY RegisteredFinite
  <2>4. /\ Segment(c).producers = 0 /\ Decrement(Segment(c).consumers) = 0
    <3> DEFINE e == [Segment(c) EXCEPT !.consumers = Decrement(@)]
    <3>1. segs'[shm_[c]] = e
      BY <1>0, <2>1, ConsumerCloseWrites DEF Writes
    <3>2. e.producers = Segment(c).producers /\ e.consumers = Decrement(Segment(c).consumers)
      BY <2>2 DEF SegmentType
    <3> QED BY <2>1, <3>1, <3>2 DEF ShouldUnlink
  <2>5. P = {}
    <3>1. Cardinality(P) = 0
      BY <1>0, <2>2, <2>3, <2>4 DEF ProducersCounted, SegmentType, Segment
    <3> QED BY <2>3, <3>1, FS_EmptySet
  <2>6. C = {c}
    <3>1. Cardinality(C) <= Segment(c).consumers /\ Segment(c).consumers \in Nat
      BY <1>0, <2>2 DEF ConsumersCounted, SegmentType, Segment
    <3>2. Cardinality(C) <= 1
      <4> HIDE DEF C
      <4> QED BY <2>3, <2>4, <3>1 DEF Decrement
    <3>3. c \in C
      BY <2>2 DEF Registered
    <3>4. Cardinality(C \ {c}) = Cardinality(C) - 1 /\ IsFiniteSet(C \ {c})
      BY <2>3, <3>3, FS_RemoveElement
    <3>5. Cardinality(C \ {c}) \in Nat
      BY <3>4, FS_CardinalityType
    <3>6. Cardinality(C \ {c}) = 0
      <4> HIDE DEF C
      <4> QED BY <2>3, <3>2, <3>4, <3>5
    <3> QED BY <3>3, <3>4, <3>6, FS_EmptySet
  <2>7. registered_ = {c}
    BY <1>0, <2>2, <2>5, <2>6 DEF RegisteredLinked, Registered, ControlType
  <2> QED BY <2>2, <2>7
<1> QED BY <1>1, <1>2

(* Nobody is registered when the size is written, and nobody registers     *)
(* until the counters are.                                                 *)
LEMMA CountersUnusedStep ==
  ASSUME LifecycleAssumption, UndisturbedInv, [Next]_vars,
         HeaderUndisturbed \/ UNCHANGED vars
  PROVE  CountersUnused'
<1>0. /\ OrderlyInv /\ AlwaysInv /\ SetUpLinked /\ ControlType /\ CountersUnused
      /\ RegisteredLinked
      /\ \A p \in Producers : p \in Handles
  BY TypeParts DEF UndisturbedInv, OrderlyInv, AlwaysInv, Handles
<1> SUFFICES ASSUME NEW p \in Producers, pc'[p] = "counters" PROVE registered_' = {}
  BY DEF CountersUnused
<1>1. CASE pc[p] = "counters"
  BY <1>0, <1>1 DEF HeaderUndisturbed, CountersUnused, vars, flags
<1>2. CASE pc[p] # "counters"
  <2>1. WriteTotal(p)
    BY <1>0, <1>2, CountersBegin
  <2>2. Creating(p) /\ registered_' = registered_
    BY <1>0, <2>1 DEF WriteTotal, flags, Creating, AlwaysInv, Roles
  <2>3. Linked.total = 0
    BY <1>0, <2>2 DEF OrderlyInv, Constructors, Constructor
  <2> QED BY <1>0, <2>2, <2>3 DEF RegisteredLinked, OrderlyInv, Registrations, Ready
<1> QED BY <1>1, <1>2

(* The invariant of undisturbed headers holds at first ...                 *)
LEMMA UndisturbedInit == Init => UndisturbedInv
<1> SUFFICES ASSUME Init PROVE UndisturbedInv
  OBVIOUS
<1>1. registered_ = {} /\ Len(segs) = 0
  BY DEF Init
<1> QED BY <1>1, OrderlyInit
        DEF UndisturbedInv, RegisteredLinked, UnlinkUnused, CountersUnused,
            ConsumersCounted

(* ... and after every step.                                               *)
LEMMA UndisturbedStep ==
  UndisturbedInv /\ [Next /\ Orderly /\ HeaderUndisturbed]_vars => UndisturbedInv'
<1> SUFFICES ASSUME UndisturbedInv, [Next /\ Orderly /\ HeaderUndisturbed]_vars
             PROVE  UndisturbedInv'
  OBVIOUS
<1>1. [Next]_vars /\ [Next /\ Orderly]_vars /\ (HeaderUndisturbed \/ UNCHANGED vars)
  OBVIOUS
<1>2. OrderlyInv'
  BY <1>1, OrderlyStep DEF UndisturbedInv
<1> QED BY <1>1, <1>2, LifecycleAssumption, RegisteredLinkedStep, UnlinkUnusedStep,
           CountersUnusedStep, ConsumersCountedStep DEF UndisturbedInv

(* When sessions do not overlap and nobody registers between the two       *)
(* accesses of the creator to the header, the last consumer removes the    *)
(* names only when nobody is registered on the segment: it found both      *)
(* counters 0, and whoever is registered is counted.                       *)
THEOREM UndisturbedUnlink == OrderlySpec => UnlinkOnlyWhenUnused
<1>1. ASSUME UndisturbedInv, [Next]_vars, shm_name # 0, shm_name' # shm_name
      PROVE  \A h \in registered_ : shm_[h] # shm_name
  <2>1. ASSUME NEW c \in Consumers, Unlink(c) PROVE registered_ = {}
    BY <1>1, <2>1 DEF Unlink, UndisturbedInv, UnlinkUnused, UnlinkPC
  <2>2. ASSUME NEW p \in Producers, ShmCreate(p) \/ MutexNew(p) \/ WaitNew(p) PROVE FALSE
    BY <1>1, <2>2 DEF ShmCreate, MutexNew, WaitNew
  <2> QED BY <1>1, <2>1, <2>2, LifecycleAssumption, NamesKept
<1>2. UndisturbedInv /\ [Next /\ Orderly /\ HeaderUndisturbed]_vars
        => [shm_name # 0 /\ shm_name' # shm_name => \A h \in registered_ : shm_[h] # shm_name]_vars
  BY <1>1
<1> QED BY <1>2, UndisturbedInit, UndisturbedStep, PTL
           DEF OrderlySpec, UnlinkOnlyWhenUnused

(* In these behaviours active_consumers misses no registered consumer.     *)
THEOREM UndisturbedCount == OrderlySpec => []ConsumersCounted
<1>1. UndisturbedInv => ConsumersCounted
  BY DEF UndisturbedInv
<1> QED BY <1>1, UndisturbedInit, UndisturbedStep, PTL DEF OrderlySpec
=============================================================================
