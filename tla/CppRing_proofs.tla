--------------------------- MODULE CppRing_proofs ---------------------------
(***************************************************************************)
(* Theorems about CppRing, for any number of producers and consumers, any  *)
(* messages and any size of ring.                                          *)
(***************************************************************************)
EXTENDS CppRing, FiniteSetTheorems, TLAPS

(* PC, spelled out for the provers.                                        *)
LEMMA ControlStates ==
  /\ DOMAIN LockedAt = {"attach_lock", "push_lock", "pop_lock", "close_lock"}
  /\ \A s \in DOMAIN LockedAt : LockedAt[s] \in CriticalSections
  /\ PC = {"detached", "idle", "count", "relock", "unlink", "closed",
           "count_wait", "parse", "notify",
           "attach_lock", "push_lock", "pop_lock", "close_lock",
           "attach_cs", "push_cs", "pop_cs", "close_cs",
           "wait_timed", "wait_forever"}
BY DEF LockedAt, CriticalSections, WaitStates, PC

-----------------------------------------------------------------------------
(***************************************************************************)
(* Control: types, and the lock.                                           *)
(***************************************************************************)
LockInv == ControlTypeOK /\ MutualExclusion

LEMMA LockInvInit == Init => LockInv
<1> USE RingAssumption
<1> SUFFICES ASSUME Init PROVE LockInv
  OBVIOUS
<1>1. \A h \in Handles : pc[h] \in {"attach_lock", "detached"}
  BY DEF Init
<1>2. ControlTypeOK
  BY ControlStates DEF Init, ControlTypeOK, TimeoutKinds
<1>3. InCriticalSection = {}
  BY <1>1 DEF InCriticalSection, CriticalSections
<1> QED
  BY <1>2, <1>3 DEF LockInv, MutualExclusion

(* The three ways a step can move a handle with respect to the lock.       *)
LEMMA StayOutside ==
  ASSUME LockInv, NEW h \in Handles, NEW s \in PC \ CriticalSections,
         pc[h] \notin CriticalSections, Goto(h, s), UNCHANGED mutex_sem
  PROVE  MutualExclusion'
<1>1. \A g \in Handles : pc'[g] \in CriticalSections <=> pc[g] \in CriticalSections
  BY DEF Goto, LockInv, ControlTypeOK
<1>2. InCriticalSection' = InCriticalSection
  BY <1>1 DEF InCriticalSection
<1> QED
  BY <1>2 DEF LockInv, MutualExclusion

LEMMA LeaveSection ==
  ASSUME LockInv, NEW h \in Handles, NEW s \in PC \ CriticalSections,
         pc[h] \in CriticalSections, Goto(h, s)
  PROVE  InCriticalSection' = {} /\ mutex_sem = 0
<1>1. h \in InCriticalSection
  BY DEF InCriticalSection
<1>2. mutex_sem = 0 /\ \A g \in InCriticalSection : g = h
  BY <1>1 DEF LockInv, MutualExclusion
<1>3. \A g \in Handles : pc'[g] \notin CriticalSections
  BY <1>2 DEF Goto, LockInv, ControlTypeOK, InCriticalSection
<1> QED
  BY <1>2, <1>3 DEF InCriticalSection

LEMMA ReleaseSection ==
  ASSUME LockInv, NEW h \in Handles, NEW s \in PC \ CriticalSections,
         pc[h] \in CriticalSections, Goto(h, s),
         Unlock \/ UNCHANGED mutex_sem
  PROVE  MutualExclusion' /\ mutex_sem' \in {0, 1}
BY LeaveSection DEF MutualExclusion, Unlock

LEMMA EnterSection ==
  ASSUME LockInv, NEW h \in Handles, Lock(h)
  PROVE  LockInv'
<1>1. mutex_sem = 1 /\ mutex_sem' = 0
  BY DEF Lock, LockInv, ControlTypeOK
<1>2. InCriticalSection = {}
  BY <1>1 DEF LockInv, MutualExclusion
<1>3. InCriticalSection' \subseteq {h}
  BY <1>2 DEF Lock, Goto, InCriticalSection, LockInv, ControlTypeOK
<1>4. LockedAt[pc[h]] \in PC
  BY ControlStates DEF Lock, PC
<1>5. ControlTypeOK'
  BY <1>1, <1>4 DEF Lock, Goto, LockInv, ControlTypeOK, header, history
<1> QED
  BY <1>1, <1>3, <1>5 DEF LockInv, MutualExclusion

(* notify_all keeps the semaphore within its bounds.                       *)
LEMMA NotifyInRange ==
  ASSUME wait_sem \in 0 .. SEM_VALUE_MAX, notify_all
  PROVE  wait_sem' \in 0 .. SEM_VALUE_MAX
BY RingAssumption DEF notify_all, CanNotify

LEMMA LockInvStep == LockInv /\ [Next]_vars => LockInv'
<1> USE RingAssumption, ControlStates
<1> SUFFICES ASSUME LockInv, [Next]_vars PROVE LockInv'
  OBVIOUS
<1> USE DEF LockInv
<1>1. ASSUME NEW h \in Handles, SyncStep(h) PROVE LockInv'
  <2>1. CASE Lock(h)
    BY <1>1, <2>1, EnterSection
  <2>2. CASE Wake(h)
    <3>1. MutualExclusion'
      BY <2>2, StayOutside DEF Wake, WaitStates, CriticalSections
    <3>2. ControlTypeOK'
      BY <2>2 DEF Wake, Goto, ControlTypeOK, header, history
    <3> QED BY <3>1, <3>2
  <2>3. CASE WaitTimeout(h)
    <3>1. MutualExclusion'
      BY <2>3, StayOutside DEF WaitTimeout, CriticalSections, sems
    <3>2. ControlTypeOK'
      BY <2>3 DEF WaitTimeout, Goto, ControlTypeOK, header, history, sems
    <3> QED BY <3>1, <3>2
  <2>4. CASE Relock(h)
    <3>1. MutualExclusion'
      BY <2>4, StayOutside DEF Relock, CriticalSections, sems
    <3>2. ControlTypeOK'
      BY <2>4 DEF Relock, Goto, ControlTypeOK, header, history, sems
    <3> QED BY <3>1, <3>2
  <2> QED BY <1>1, <2>1, <2>2, <2>3, <2>4 DEF SyncStep
<1>2. ASSUME NEW h \in Handles, Open(h) PROVE LockInv'
  <2>1. MutualExclusion'
    BY <1>2, StayOutside DEF Open, CriticalSections, Handles, sems
  <2>2. ControlTypeOK'
    BY <1>2 DEF Open, Goto, ControlTypeOK, TimeoutKinds, Handles,
       header, history, sems
  <2> QED BY <2>1, <2>2
<1>3. ASSUME NEW p \in Producers, ProducerAttach(p) PROVE LockInv'
  <2>1. MutualExclusion' /\ mutex_sem' \in {0, 1}
    BY <1>3, ReleaseSection DEF ProducerAttach, CriticalSections, Handles
  <2>2. ControlTypeOK'
    BY <1>3, <2>1, NotifyInRange DEF ProducerAttach, Goto, ControlTypeOK, TimeoutKinds, Handles,
       header, history
  <2> QED BY <2>1, <2>2
<1>4. ASSUME NEW c \in Consumers, ConsumerAttach(c) PROVE LockInv'
  <2>1. MutualExclusion' /\ mutex_sem' \in {0, 1}
    BY <1>4, ReleaseSection DEF ConsumerAttach, CriticalSections, Handles
  <2>2. ControlTypeOK'
    BY <1>4, <2>1, NotifyInRange DEF ConsumerAttach, Goto, ControlTypeOK, TimeoutKinds, Handles,
       header, history
  <2> QED BY <2>1, <2>2
<1>5. ASSUME NEW p \in Producers, NEW m \in Msg, NEW t \in Timeouts, PushBegin(p, m, t)
      PROVE LockInv'
  <2>1. CASE TooLarge(m)
    <3>1. MutualExclusion'
      BY <1>5, <2>1 DEF PushBegin, MutualExclusion, InCriticalSection, sems
    <3>2. ControlTypeOK'
      BY <1>5, <2>1 DEF PushBegin, ControlTypeOK, header, sems
    <3> QED BY <3>1, <3>2
  <2>2. CASE ~TooLarge(m)
    <3>1. MutualExclusion'
      BY <1>5, <2>2, StayOutside DEF PushBegin, CriticalSections, Handles, sems
    <3>2. ControlTypeOK'
      <4>1. PICK s \in PC : pc' = [pc EXCEPT ![p] = s]
        BY <1>5, <2>2 DEF PushBegin, Goto
      <4>2. /\ msg' = [msg EXCEPT ![p] = m] /\ timeout' = [timeout EXCEPT ![p] = t]
            /\ outcome' = [outcome EXCEPT ![m] = "pushing"]
            /\ t \in TimeoutKinds
        BY <1>5, <2>2 DEF PushBegin
      <4> QED
        BY <1>5, <4>1, <4>2 DEF PushBegin, ControlTypeOK, Handles, header, sems
    <3> QED BY <3>1, <3>2
  <2> QED BY <2>1, <2>2
<1>6. ASSUME NEW p \in Producers, PushConsumerFound(p) PROVE LockInv'
  <2>1. MutualExclusion'
    BY <1>6, StayOutside DEF PushConsumerFound, CriticalSections, Handles, sems
  <2>2. ControlTypeOK'
    BY <1>6 DEF PushConsumerFound, Goto, ControlTypeOK, TimeoutKinds, Handles,
       header, history, sems
  <2> QED BY <2>1, <2>2
<1>7. ASSUME NEW p \in Producers, PushNoConsumers(p) PROVE LockInv'
  <2>1. MutualExclusion'
    BY <1>7, StayOutside DEF PushNoConsumers, PushEnd, CriticalSections, Handles, sems
  <2>2. ControlTypeOK'
    BY <1>7 DEF PushNoConsumers, PushEnd, Goto, ControlTypeOK, TimeoutKinds, Handles,
       header, history, sems
  <2> QED BY <2>1, <2>2
<1>8. ASSUME NEW p \in Producers, PushWrite(p) PROVE LockInv'
  <2>1. MutualExclusion' /\ mutex_sem' \in {0, 1}
    BY <1>8, ReleaseSection DEF PushWrite, PushEnd, CriticalSections, Handles
  <2>2. ControlTypeOK'
    BY <1>8, <2>1, NotifyInRange DEF PushWrite, PushEnd, Goto, ControlTypeOK, TimeoutKinds, Handles,
       header, history
  <2> QED BY <2>1, <2>2
<1>9. ASSUME NEW p \in Producers, PushFail(p) PROVE LockInv'
  <2>1. MutualExclusion' /\ mutex_sem' \in {0, 1}
    BY <1>9, ReleaseSection DEF PushFail, PushEnd, CriticalSections, Handles
  <2>2. ControlTypeOK'
    BY <1>9, <2>1, NotifyInRange DEF PushFail, PushEnd, Goto, ControlTypeOK, TimeoutKinds, Handles,
       header, history
  <2> QED BY <2>1, <2>2
<1>10. ASSUME NEW p \in Producers, PushWait(p) PROVE LockInv'
  <2>1. MutualExclusion' /\ mutex_sem' \in {0, 1}
    BY <1>10, ReleaseSection DEF PushWait, WaitStates, CriticalSections, Handles
  <2>2. ControlTypeOK'
    BY <1>10, <2>1, NotifyInRange DEF PushWait, WaitStates, Goto, ControlTypeOK, TimeoutKinds, Handles,
       header, history
  <2> QED BY <2>1, <2>2
<1>11. ASSUME NEW p \in Producers, ProducerClose(p) PROVE LockInv'
  <2>1. MutualExclusion' /\ mutex_sem' \in {0, 1}
    BY <1>11, ReleaseSection DEF ProducerClose, Decrement, CriticalSections, Handles
  <2>2. ControlTypeOK'
    BY <1>11, <2>1, NotifyInRange DEF ProducerClose, Decrement, Goto, ControlTypeOK, TimeoutKinds, Handles,
       header, history
  <2> QED BY <2>1, <2>2
<1>12. ASSUME NEW h \in Handles, CloseBegin(h) PROVE LockInv'
  <2>1. MutualExclusion'
    BY <1>12, StayOutside DEF CloseBegin, CriticalSections, Handles, sems
  <2>2. ControlTypeOK'
    BY <1>12 DEF CloseBegin, Goto, ControlTypeOK, TimeoutKinds, Handles,
       header, history, sems
  <2> QED BY <2>1, <2>2
<1>13. ASSUME NEW c \in Consumers, NEW t \in Timeouts, PopBegin(c, t) PROVE LockInv'
  <2>1. MutualExclusion'
    BY <1>13, StayOutside DEF PopBegin, CriticalSections, Handles, sems
  <2>2. ControlTypeOK'
    BY <1>13 DEF PopBegin, Goto, ControlTypeOK, TimeoutKinds, Handles,
       header, history, sems
  <2> QED BY <2>1, <2>2
<1>14. ASSUME NEW c \in Consumers, PopSlot(c) PROVE LockInv'
  <2>1. MutualExclusion' /\ mutex_sem' \in {0, 1}
    BY <1>14, ReleaseSection DEF PopSlot, PopEnd, CriticalSections, Handles
  <2>2. ControlTypeOK'
    BY <1>14, <2>1, NotifyInRange DEF PopSlot, PopEnd, Goto, ControlTypeOK, TimeoutKinds, Handles,
       header, history
  <2> QED BY <2>1, <2>2
<1>15. ASSUME NEW c \in Consumers, PopEos(c) PROVE LockInv'
  <2>1. MutualExclusion' /\ mutex_sem' \in {0, 1}
    BY <1>15, ReleaseSection DEF PopEos, PopEnd, CriticalSections, Handles
  <2>2. ControlTypeOK'
    BY <1>15, <2>1, NotifyInRange DEF PopEos, PopEnd, Goto, ControlTypeOK, TimeoutKinds, Handles,
       header, history
  <2> QED BY <2>1, <2>2
<1>16. ASSUME NEW c \in Consumers, PopFail(c) PROVE LockInv'
  <2>1. MutualExclusion' /\ mutex_sem' \in {0, 1}
    BY <1>16, ReleaseSection DEF PopFail, PopEnd, CriticalSections, Handles
  <2>2. ControlTypeOK'
    BY <1>16, <2>1, NotifyInRange DEF PopFail, PopEnd, Goto, ControlTypeOK, TimeoutKinds, Handles,
       header, history
  <2> QED BY <2>1, <2>2
<1>17. ASSUME NEW c \in Consumers, PopWait(c) PROVE LockInv'
  <2>1. MutualExclusion' /\ mutex_sem' \in {0, 1}
    BY <1>17, ReleaseSection DEF PopWait, WaitStates, CriticalSections, Handles
  <2>2. ControlTypeOK'
    BY <1>17, <2>1, NotifyInRange DEF PopWait, WaitStates, Goto, ControlTypeOK, TimeoutKinds, Handles,
       header, history
  <2> QED BY <2>1, <2>2
<1>18. ASSUME NEW c \in Consumers, ConsumerClose(c) PROVE LockInv'
  <2>1. MutualExclusion' /\ mutex_sem' \in {0, 1}
    BY <1>18, ReleaseSection DEF ConsumerClose, Decrement, CriticalSections, Handles
  <2>2. ControlTypeOK'
    BY <1>18, <2>1, NotifyInRange DEF ConsumerClose, Decrement, Goto, ControlTypeOK, TimeoutKinds, Handles,
       header, history
  <2> QED BY <2>1, <2>2
<1>19. ASSUME NEW c \in Consumers, Unlink(c) PROVE LockInv'
  <2>1. MutualExclusion'
    BY <1>19, StayOutside DEF Unlink, CriticalSections, Handles, sems
  <2>2. ControlTypeOK'
    BY <1>19 DEF Unlink, Goto, ControlTypeOK, TimeoutKinds, Handles,
       header, history, sems
  <2> QED BY <2>1, <2>2
<1>20. CASE UNCHANGED vars
  BY <1>20 DEF ControlTypeOK, MutualExclusion, InCriticalSection, vars, header,
     sems, handle, history
<1>21. Producers \subseteq Handles /\ Consumers \subseteq Handles
  BY DEF Handles
<1>22. ASSUME NEW p \in Producers, ProducerStep(p) \/ ProducerCall(p) PROVE LockInv'
  BY <1>1, <1>2, <1>3, <1>5, <1>6, <1>7, <1>8, <1>9, <1>10, <1>11, <1>12, <1>21, <1>22
     DEF ProducerStep, ProducerCall
<1>23. ASSUME NEW c \in Consumers, ConsumerStep(c) \/ ConsumerCall(c) PROVE LockInv'
  BY <1>1, <1>2, <1>4, <1>12, <1>13, <1>14, <1>15, <1>16, <1>17, <1>18, <1>19, <1>21, <1>23
     DEF ConsumerStep, ConsumerCall
<1> QED
  BY <1>20, <1>22, <1>23 DEF Next, Finished

(* mutex_sem excludes, however many handles, messages and timeouts there   *)
(* are, and the control variables keep their types.                        *)
THEOREM ControlTypesHold == Spec => []ControlTypeOK
<1>1. LockInv => ControlTypeOK
  BY DEF LockInv
<1> QED
  BY <1>1, LockInvInit, LockInvStep, PTL DEF Spec

(* At most one handle is inside a critical section, and only while the     *)
(* semaphore is taken.                                                     *)
THEOREM LockExcludes == Spec => []MutualExclusion
<1>1. LockInv => MutualExclusion
  BY DEF LockInv
<1> QED
  BY <1>1, LockInvInit, LockInvStep, PTL DEF Spec

-----------------------------------------------------------------------------
(***************************************************************************)
(* The registration counters.                                              *)
(***************************************************************************)
Unregistered == {"detached", "attach_lock", "attach_cs", "closed", "unlink"}

RegisteredByState ==
  \A h \in Handles : h \in registered <=> pc[h] \notin Unregistered
CountInv == RegisteredByState /\ CountersMatchHandles

LEMMA FiniteHandles ==
  ASSUME registered \subseteq Handles
  PROVE  IsFiniteSet(registered \cap Producers) /\ IsFiniteSet(registered \cap Consumers)
BY RingAssumption, FS_Subset, registered \cap Producers \in SUBSET Producers,
   registered \cap Consumers \in SUBSET Consumers

LEMMA SameRegistration ==
  ASSUME LockInv, CountInv, NEW h \in Handles, NEW s \in PC, Goto(h, s),
         UNCHANGED <<registered, active_producers, active_consumers>>,
         pc[h] \in Unregistered <=> s \in Unregistered
  PROVE  CountInv'
<1>1. RegisteredByState'
  BY DEF CountInv, RegisteredByState, Goto, LockInv, ControlTypeOK
<1> QED
  BY <1>1 DEF CountInv, CountersMatchHandles

(* Registering a handle adds one to the counter of its kind, and giving    *)
(* the registration back takes one: a counter is never zero, nor its floor *)
(* reached, while a handle is registered.                                  *)
LEMMA CountUp ==
  ASSUME LockInv, NEW h \in Handles, h \notin registered
  PROVE  /\ h \in Producers =>
              /\ Cardinality((registered \cup {h}) \cap Producers)
                   = Cardinality(registered \cap Producers) + 1
              /\ (registered \cup {h}) \cap Consumers = registered \cap Consumers
         /\ h \in Consumers =>
              /\ Cardinality((registered \cup {h}) \cap Consumers)
                   = Cardinality(registered \cap Consumers) + 1
              /\ (registered \cup {h}) \cap Producers = registered \cap Producers
<1> USE RingAssumption, FiniteHandles DEF LockInv, ControlTypeOK
<1>1. CASE h \in Producers
  <2>1. (registered \cup {h}) \cap Producers = (registered \cap Producers) \cup {h}
    BY <1>1
  <2> QED BY <1>1, <2>1, FS_AddElement
<1>2. CASE h \in Consumers
  <2>1. (registered \cup {h}) \cap Consumers = (registered \cap Consumers) \cup {h}
    BY <1>2
  <2> QED BY <1>2, <2>1, FS_AddElement
<1> QED BY <1>1, <1>2 DEF Handles

LEMMA CountDown ==
  ASSUME LockInv, NEW h \in Handles, h \in registered
  PROVE  /\ h \in Producers =>
              /\ Cardinality((registered \ {h}) \cap Producers)
                   = Cardinality(registered \cap Producers) - 1
              /\ Cardinality(registered \cap Producers) \in Nat \ {0}
              /\ (registered \ {h}) \cap Consumers = registered \cap Consumers
         /\ h \in Consumers =>
              /\ Cardinality((registered \ {h}) \cap Consumers)
                   = Cardinality(registered \cap Consumers) - 1
              /\ Cardinality(registered \cap Consumers) \in Nat \ {0}
              /\ (registered \ {h}) \cap Producers = registered \cap Producers
<1> USE RingAssumption, FiniteHandles DEF LockInv, ControlTypeOK
<1>1. CASE h \in Producers
  <2>1. (registered \ {h}) \cap Producers = (registered \cap Producers) \ {h}
    BY <1>1
  <2>2. registered \cap Producers # {} /\ h \in registered \cap Producers
    BY <1>1
  <2>3. Cardinality((registered \cap Producers) \ {h}) = Cardinality(registered \cap Producers) - 1
    BY <2>2, FS_RemoveElement
  <2>4. Cardinality(registered \cap Producers) \in Nat \ {0}
    BY <2>2, FS_CardinalityType, FS_EmptySet
  <2>5. (registered \ {h}) \cap Consumers = registered \cap Consumers /\ h \notin Consumers
    BY <1>1
  <2> QED BY <1>1, <2>1, <2>3, <2>4, <2>5
<1>2. CASE h \in Consumers
  <2>1. (registered \ {h}) \cap Consumers = (registered \cap Consumers) \ {h}
    BY <1>2
  <2>2. registered \cap Consumers # {} /\ h \in registered \cap Consumers
    BY <1>2
  <2>3. Cardinality((registered \cap Consumers) \ {h}) = Cardinality(registered \cap Consumers) - 1
    BY <2>2, FS_RemoveElement
  <2>4. Cardinality(registered \cap Consumers) \in Nat \ {0}
    BY <2>2, FS_CardinalityType, FS_EmptySet
  <2>5. (registered \ {h}) \cap Producers = registered \cap Producers /\ h \notin Producers
    BY <1>2
  <2> QED BY <1>2, <2>1, <2>3, <2>4, <2>5
<1> QED BY <1>1, <1>2 DEF Handles

LEMMA CountInvInit == Init => CountInv
<1> SUFFICES ASSUME Init PROVE CountInv
  OBVIOUS
<1>1. \A h \in Handles : pc[h] \in {"attach_lock", "detached"}
  BY DEF Init
<1>2. registered \cap Producers = {} /\ registered \cap Consumers = {}
  BY DEF Init
<1> QED
  BY <1>1, <1>2, FS_EmptySet
     DEF Init, CountInv, RegisteredByState, CountersMatchHandles, Unregistered

LEMMA CountInvStep == LockInv /\ CountInv /\ [Next]_vars => CountInv'
<1> USE RingAssumption, ControlStates
<1> SUFFICES ASSUME LockInv, CountInv, [Next]_vars PROVE CountInv'
  OBVIOUS
<1>1. ASSUME NEW h \in Handles, SyncStep(h) PROVE CountInv'
  <2>1. CASE Lock(h)
    BY <2>1, SameRegistration DEF Lock, LockedAt, Unregistered, header
  <2>2. CASE Wake(h)
    BY <2>2, SameRegistration DEF Wake, WaitStates, Unregistered, header
  <2>3. CASE WaitTimeout(h)
    BY <2>3, SameRegistration DEF WaitTimeout, Unregistered, header
  <2>4. CASE Relock(h)
    BY <2>4, SameRegistration DEF Relock, Unregistered, header
  <2> QED BY <1>1, <2>1, <2>2, <2>3, <2>4 DEF SyncStep
<1>2. ASSUME NEW h \in Handles, Open(h) PROVE CountInv'
  BY <1>2, SameRegistration DEF Open, Unregistered, Handles, header
<1>3. ASSUME NEW p \in Producers, ProducerAttach(p) PROVE CountInv'
  <2>1. p \in Handles /\ p \notin registered
    BY <1>3 DEF ProducerAttach, CountInv, RegisteredByState, Unregistered, Handles
  <2>2. RegisteredByState'
    BY <1>3, <2>1 DEF ProducerAttach, Goto, CountInv, RegisteredByState, Unregistered,
       LockInv, ControlTypeOK
  <2> QED
    BY <1>3, <2>1, <2>2, CountUp DEF ProducerAttach, CountInv, CountersMatchHandles
<1>4. ASSUME NEW c \in Consumers, ConsumerAttach(c) PROVE CountInv'
  <2>1. c \in Handles /\ c \notin registered
    BY <1>4 DEF ConsumerAttach, CountInv, RegisteredByState, Unregistered, Handles
  <2>2. RegisteredByState'
    BY <1>4, <2>1 DEF ConsumerAttach, Goto, CountInv, RegisteredByState, Unregistered,
       LockInv, ControlTypeOK
  <2> QED
    BY <1>4, <2>1, <2>2, CountUp DEF ConsumerAttach, CountInv, CountersMatchHandles
<1>5. ASSUME NEW p \in Producers, NEW m \in Msg, NEW t \in Timeouts, PushBegin(p, m, t)
      PROVE CountInv'
  <2>1. CASE TooLarge(m)
    BY <1>5, <2>1 DEF PushBegin, CountInv, RegisteredByState, CountersMatchHandles, header
  <2>2. CASE ~TooLarge(m)
    BY <1>5, <2>2, SameRegistration DEF PushBegin, Unregistered, Handles, header
  <2> QED BY <2>1, <2>2
<1>6. ASSUME NEW p \in Producers, PushConsumerFound(p) PROVE CountInv'
  BY <1>6, SameRegistration DEF PushConsumerFound, Unregistered, Handles, header
<1>7. ASSUME NEW p \in Producers, PushNoConsumers(p) PROVE CountInv'
  BY <1>7, SameRegistration DEF PushNoConsumers, PushEnd, Unregistered, Handles, header
<1>8. ASSUME NEW p \in Producers, PushWrite(p) PROVE CountInv'
  BY <1>8, SameRegistration DEF PushWrite, PushEnd, Unregistered, Handles, header
<1>9. ASSUME NEW p \in Producers, PushFail(p) PROVE CountInv'
  BY <1>9, SameRegistration DEF PushFail, PushEnd, Unregistered, Handles, header
<1>10. ASSUME NEW p \in Producers, PushWait(p) PROVE CountInv'
  BY <1>10, SameRegistration DEF PushWait, WaitStates, Unregistered, Handles, header
<1>11. ASSUME NEW p \in Producers, ProducerClose(p) PROVE CountInv'
  <2>1. p \in Handles /\ p \in registered
    BY <1>11 DEF ProducerClose, CountInv, RegisteredByState, Unregistered, Handles
  <2>2. RegisteredByState'
    BY <1>11, <2>1 DEF ProducerClose, Goto, CountInv, RegisteredByState, Unregistered,
       LockInv, ControlTypeOK
  <2>3. active_producers' = active_producers - 1
    <3>1. Cardinality(registered \cap Producers) \in Nat \ {0}
      BY <1>11, <2>1, CountDown
    <3>2. active_producers = Cardinality(registered \cap Producers)
      BY DEF CountInv, CountersMatchHandles
    <3>3. active_producers > 0
      BY <3>1, <3>2
    <3>4. active_producers' = Decrement(active_producers)
      BY <1>11 DEF ProducerClose
    <3> QED BY <3>3, <3>4 DEF Decrement
  <2>4. registered' = registered \ {p} /\ UNCHANGED active_consumers
    BY <1>11 DEF ProducerClose
  <2>5. CountersMatchHandles'
    <3>1. Cardinality((registered \ {p}) \cap Producers) = Cardinality(registered \cap Producers) - 1
      BY <1>11, <2>1, CountDown
    <3>2. (registered \ {p}) \cap Consumers = registered \cap Consumers
      BY <1>11, <2>1, CountDown
    <3>3. /\ active_producers = Cardinality(registered \cap Producers)
          /\ active_consumers = Cardinality(registered \cap Consumers)
      BY DEF CountInv, CountersMatchHandles
    <3> QED
      BY <2>3, <2>4, <3>1, <3>2, <3>3 DEF CountersMatchHandles
  <2> QED
    BY <2>2, <2>5 DEF CountInv
<1>12. ASSUME NEW h \in Handles, CloseBegin(h) PROVE CountInv'
  BY <1>12, SameRegistration DEF CloseBegin, Unregistered, Handles, header
<1>13. ASSUME NEW c \in Consumers, NEW t \in Timeouts, PopBegin(c, t) PROVE CountInv'
  BY <1>13, SameRegistration DEF PopBegin, Unregistered, Handles, header
<1>14. ASSUME NEW c \in Consumers, PopSlot(c) PROVE CountInv'
  BY <1>14, SameRegistration DEF PopSlot, PopEnd, Unregistered, Handles, header
<1>15. ASSUME NEW c \in Consumers, PopEos(c) PROVE CountInv'
  BY <1>15, SameRegistration DEF PopEos, PopEnd, Unregistered, Handles, header
<1>16. ASSUME NEW c \in Consumers, PopFail(c) PROVE CountInv'
  BY <1>16, SameRegistration DEF PopFail, PopEnd, Unregistered, Handles, header
<1>17. ASSUME NEW c \in Consumers, PopWait(c) PROVE CountInv'
  BY <1>17, SameRegistration DEF PopWait, WaitStates, Unregistered, Handles, header
<1>18. ASSUME NEW c \in Consumers, ConsumerClose(c) PROVE CountInv'
  <2>1. c \in Handles /\ c \in registered
    BY <1>18 DEF ConsumerClose, CountInv, RegisteredByState, Unregistered, Handles
  <2>2. RegisteredByState'
    BY <1>18, <2>1 DEF ConsumerClose, Goto, CountInv, RegisteredByState, Unregistered,
       LockInv, ControlTypeOK
  <2>3. active_consumers' = active_consumers - 1
    <3>1. Cardinality(registered \cap Consumers) \in Nat \ {0}
      BY <1>18, <2>1, CountDown
    <3>2. active_consumers = Cardinality(registered \cap Consumers)
      BY DEF CountInv, CountersMatchHandles
    <3>3. active_consumers > 0
      BY <3>1, <3>2
    <3>4. active_consumers' = Decrement(active_consumers)
      BY <1>18 DEF ConsumerClose
    <3> QED BY <3>3, <3>4 DEF Decrement
  <2>4. registered' = registered \ {c} /\ UNCHANGED active_producers
    BY <1>18 DEF ConsumerClose
  <2>5. CountersMatchHandles'
    <3>1. Cardinality((registered \ {c}) \cap Consumers) = Cardinality(registered \cap Consumers) - 1
      BY <1>18, <2>1, CountDown
    <3>2. (registered \ {c}) \cap Producers = registered \cap Producers
      BY <1>18, <2>1, CountDown
    <3>3. /\ active_consumers = Cardinality(registered \cap Consumers)
          /\ active_producers = Cardinality(registered \cap Producers)
      BY DEF CountInv, CountersMatchHandles
    <3> QED
      BY <2>3, <2>4, <3>1, <3>2, <3>3 DEF CountersMatchHandles
  <2> QED
    BY <2>2, <2>5 DEF CountInv
<1>19. ASSUME NEW c \in Consumers, Unlink(c) PROVE CountInv'
  BY <1>19, SameRegistration DEF Unlink, Unregistered, Handles, header
<1>20. CASE UNCHANGED vars
  BY <1>20 DEF CountInv, RegisteredByState, CountersMatchHandles, vars, header, handle
<1>21. Producers \subseteq Handles /\ Consumers \subseteq Handles
  BY DEF Handles
<1>22. ASSUME NEW p \in Producers, ProducerStep(p) \/ ProducerCall(p) PROVE CountInv'
  BY <1>1, <1>2, <1>3, <1>5, <1>6, <1>7, <1>8, <1>9, <1>10, <1>11, <1>12, <1>21, <1>22
     DEF ProducerStep, ProducerCall
<1>23. ASSUME NEW c \in Consumers, ConsumerStep(c) \/ ConsumerCall(c) PROVE CountInv'
  BY <1>1, <1>2, <1>4, <1>12, <1>13, <1>14, <1>15, <1>16, <1>17, <1>18, <1>19, <1>21, <1>23
     DEF ConsumerStep, ConsumerCall
<1> QED
  BY <1>20, <1>22, <1>23 DEF Next, Finished

(* active_producers and active_consumers, on which end of stream,          *)
(* NO_CONSUMERS and unlinking are decided, count the registered handles.   *)
THEOREM CountersExact == Spec => []CountersMatchHandles
<1>1. CountInv => CountersMatchHandles
  BY DEF CountInv
<1> QED
  BY <1>1, LockInvInit, LockInvStep, CountInvInit, CountInvStep, PTL DEF Spec
=============================================================================
