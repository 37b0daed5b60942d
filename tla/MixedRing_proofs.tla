--------------------------- MODULE MixedRing_proofs ---------------------------
(***************************************************************************)
(* With Python handles among the C++ ones: the lock still excludes,        *)
(* pop(copy=True) returns what it took, and what is read is what was       *)
(* pushed, as long as the ring is not filled to its last byte.             *)
(***************************************************************************)
EXTENDS MixedRing, CppRingData_proofs

(* The steps that are not those of CppRing, and which of them pops.        *)
PyProducerOnly(p) ==
  \/ \E m \in Msg, t \in Timeouts : PyPushBegin(p, m, t)
  \/ PyCountWait(p) \/ PyCountAgain(p)
  \/ PyPushWrite(p) \/ PyPushFail(p) \/ PyPushWait(p)
  \/ PyProducerClose(p)
PyConsumerOnly(c) == PyConsumerAttach(c) \/ PyPopWait(c) \/ PyConsumerClose(c)

LEMMA MixedNextCases ==
  ASSUME MixedNext
  PROVE  \/ /\ \/ Next
               \/ \E h \in Handles : PyWaitTimeout(h)
               \/ \E p \in Producers : PyProducerOnly(p)
               \/ \E c \in Consumers : PyConsumerOnly(c)
            /\ UNCHANGED <<taken, popped>>
         \/ \E c \in Consumers : PyPopTake(c) \/ PyParse(c) \/ PyNotify(c)
<1>1. Producers \subseteq Handles /\ Consumers \subseteq Handles
  BY DEF Handles
<1>2. ASSUME NEW p \in Producers, PyProducerStep(p) \/ PyProducerCall(p)
      PROVE  ProducerStep(p) \/ ProducerCall(p) \/ PyWaitTimeout(p) \/ PyProducerOnly(p)
  BY <1>2 DEF PyProducerStep, PyProducerCall, PySyncStep, ProducerStep,
     ProducerCall, SyncStep, PyProducerOnly
<1>3. ASSUME NEW c \in Consumers, PyConsumerStep(c)
      PROVE  \/ /\ ConsumerStep(c) \/ PyWaitTimeout(c) \/ PyConsumerOnly(c)
                /\ UNCHANGED <<taken, popped>>
             \/ PyPopTake(c) \/ PyParse(c) \/ PyNotify(c)
  BY <1>3 DEF PyConsumerStep, PySyncStep, ConsumerStep, SyncStep, PyConsumerOnly
<1>4. ASSUME NEW p \in Producers, MixedProducerStep(p) \/ MixedProducerCall(p)
      PROVE  /\ \/ ProducerStep(p) \/ ProducerCall(p)
                \/ PyProducerStep(p) \/ PyProducerCall(p)
             /\ UNCHANGED <<taken, popped>>
  BY <1>4 DEF MixedProducerStep, MixedProducerCall
<1>5. ASSUME NEW c \in Consumers, MixedConsumerStep(c) \/ MixedConsumerCall(c)
      PROVE  \/ /\ ConsumerStep(c) \/ ConsumerCall(c)
                /\ UNCHANGED <<taken, popped>>
             \/ PyConsumerStep(c)
  BY <1>5 DEF MixedConsumerStep, MixedConsumerCall
<1>6. ASSUME NEW p \in Producers, ProducerStep(p) \/ ProducerCall(p) PROVE Next
  BY <1>6 DEF Next
<1>7. ASSUME NEW c \in Consumers, ConsumerStep(c) \/ ConsumerCall(c) PROVE Next
  BY <1>7 DEF Next
<1>8. CASE \E p \in Producers : MixedProducerStep(p) \/ MixedProducerCall(p)
  BY <1>1, <1>2, <1>4, <1>6, <1>8
<1>9. CASE \E c \in Consumers : MixedConsumerStep(c) \/ MixedConsumerCall(c)
  BY <1>1, <1>3, <1>5, <1>7, <1>9
<1>10. CASE Finished /\ UNCHANGED <<taken, popped>>
  BY <1>10 DEF Next
<1> QED BY <1>8, <1>9, <1>10 DEF MixedNext

-----------------------------------------------------------------------------
(***************************************************************************)
(* The lock.                                                               *)
(***************************************************************************)
LEMMA PyNotifyInRange ==
  ASSUME wait_sem \in 0 .. SEM_VALUE_MAX, py_notify_all
  PROVE  wait_sem' \in 0 .. SEM_VALUE_MAX
BY RingAssumption, MixedAssumption DEF py_notify_all

LEMMA MixedLockInvStep == LockInv /\ [MixedNext]_mixedVars => LockInv'
<1> USE RingAssumption, ControlStates
<1> SUFFICES ASSUME LockInv, [MixedNext]_mixedVars PROVE LockInv'
  OBVIOUS
<1> USE DEF LockInv
<1>1. Producers \subseteq Handles /\ Consumers \subseteq Handles
  BY DEF Handles
<1>2. CASE Next \/ UNCHANGED vars
  BY <1>2, LockInvStep
<1>3. ASSUME NEW h \in Handles, PyWaitTimeout(h) PROVE LockInv'
  <2>1. MutualExclusion'
    BY <1>3, StayOutside DEF PyWaitTimeout, CriticalSections, sems
  <2>2. ControlTypeOK'
    BY <1>3 DEF PyWaitTimeout, Goto, ControlTypeOK, header, history, sems
  <2> QED BY <2>1, <2>2
<1>4. ASSUME NEW p \in Producers, NEW m \in Msg, NEW t \in Timeouts, PyPushBegin(p, m, t)
      PROVE LockInv'
  <2>1. CASE Len(Metadata[m]) > MAX_METADATA_SIZE
    <3>1. MutualExclusion'
      BY <1>4, <2>1 DEF PyPushBegin, MutualExclusion, InCriticalSection, sems
    <3>2. ControlTypeOK'
      BY <1>4, <2>1 DEF PyPushBegin, ControlTypeOK, header, sems
    <3> QED BY <3>1, <3>2
  <2>2. CASE ~(Len(Metadata[m]) > MAX_METADATA_SIZE)
    <3>1. MutualExclusion'
      BY <1>1, <1>4, <2>2, StayOutside DEF PyPushBegin, CriticalSections, sems
    <3>2. ControlTypeOK'
      <4>1. /\ pc' = [pc EXCEPT ![p] = "count"] /\ msg' = [msg EXCEPT ![p] = m]
            /\ timeout' = [timeout EXCEPT ![p] = t]
            /\ outcome' = [outcome EXCEPT ![m] = "pushing"]
            /\ t \in TimeoutKinds
        BY <1>4, <2>2 DEF PyPushBegin, Goto
      <4> QED
        BY <1>1, <1>4, <4>1 DEF PyPushBegin, ControlTypeOK, header, sems
    <3> QED BY <3>1, <3>2
  <2> QED BY <2>1, <2>2
<1>5. ASSUME NEW p \in Producers, PyCountWait(p) PROVE LockInv'
  <2>1. MutualExclusion'
    BY <1>1, <1>5, StayOutside DEF PyCountWait, CriticalSections, sems
  <2>2. ControlTypeOK'
    BY <1>1, <1>5 DEF PyCountWait, Goto, ControlTypeOK, header, history, sems
  <2> QED BY <2>1, <2>2
<1>6. ASSUME NEW p \in Producers, PyCountAgain(p) PROVE LockInv'
  <2>1. MutualExclusion'
    BY <1>1, <1>6, StayOutside DEF PyCountAgain, CriticalSections
  <2>2. ControlTypeOK'
    BY <1>1, <1>6 DEF PyCountAgain, Goto, ControlTypeOK, header, history
  <2> QED BY <2>1, <2>2
<1>7. ASSUME NEW p \in Producers, PyPushWrite(p) PROVE LockInv'
  <2>1. MutualExclusion' /\ mutex_sem' \in {0, 1}
    BY <1>1, <1>7, ReleaseSection DEF PyPushWrite, PushEnd, CriticalSections
  <2>2. ControlTypeOK'
    BY <1>1, <1>7, <2>1, PyNotifyInRange
       DEF PyPushWrite, PushEnd, Goto, ControlTypeOK, TimeoutKinds
  <2> QED BY <2>1, <2>2
<1>8. ASSUME NEW p \in Producers, PyPushFail(p) PROVE LockInv'
  <2>1. MutualExclusion' /\ mutex_sem' \in {0, 1}
    BY <1>1, <1>8, ReleaseSection DEF PyPushFail, PushEnd, CriticalSections
  <2>2. ControlTypeOK'
    BY <1>1, <1>8, <2>1
       DEF PyPushFail, PushEnd, Goto, ControlTypeOK, TimeoutKinds, header
  <2> QED BY <2>1, <2>2
<1>9. ASSUME NEW p \in Producers, PyPushWait(p) PROVE LockInv'
  <2>1. MutualExclusion' /\ mutex_sem' \in {0, 1}
    BY <1>1, <1>9, ReleaseSection DEF PyPushWait, CriticalSections
  <2>2. ControlTypeOK'
    BY <1>1, <1>9, <2>1 DEF PyPushWait, Goto, ControlTypeOK, header, history
  <2> QED BY <2>1, <2>2
<1>10. ASSUME NEW p \in Producers, PyProducerClose(p) PROVE LockInv'
  <2>1. MutualExclusion' /\ mutex_sem' \in {0, 1}
    BY <1>1, <1>10, ReleaseSection DEF PyProducerClose, CriticalSections
  <2>2. ControlTypeOK'
    BY <1>1, <1>10, <2>1, PyNotifyInRange
       DEF PyProducerClose, Decrement, Goto, ControlTypeOK, history
  <2> QED BY <2>1, <2>2
<1>11. ASSUME NEW c \in Consumers, PyConsumerAttach(c) PROVE LockInv'
  <2>1. MutualExclusion' /\ mutex_sem' \in {0, 1}
    BY <1>1, <1>11, ReleaseSection DEF PyConsumerAttach, CriticalSections
  <2>2. ControlTypeOK'
    BY <1>1, <1>11, <2>1, PyNotifyInRange
       DEF PyConsumerAttach, Goto, ControlTypeOK, history
  <2> QED BY <2>1, <2>2
<1>12. ASSUME NEW c \in Consumers, PyPopTake(c) PROVE LockInv'
  <2>1. MutualExclusion' /\ mutex_sem' \in {0, 1}
    BY <1>1, <1>12, ReleaseSection DEF PyPopTake, CriticalSections
  <2>2. ControlTypeOK'
    BY <1>1, <1>12, <2>1 DEF PyPopTake, Goto, ControlTypeOK
  <2> QED BY <2>1, <2>2
<1>13. ASSUME NEW c \in Consumers, PyParse(c) PROVE LockInv'
  <2>1. PICK s \in {"notify", "idle"} : Goto(c, s)
    BY <1>13 DEF PyParse, PopEnd
  <2>2. timeout' = timeout \/ timeout' = [timeout EXCEPT ![c] = "infinite"]
    BY <1>13 DEF PyParse, PopEnd
  <2>3. MutualExclusion'
    BY <1>1, <1>13, <2>1, StayOutside DEF PyParse, CriticalSections, sems
  <2>4. ControlTypeOK'
    BY <1>1, <1>13, <2>1, <2>2
       DEF PyParse, Goto, ControlTypeOK, TimeoutKinds, header, history, sems
  <2> QED BY <2>3, <2>4
<1>14. ASSUME NEW c \in Consumers, PyNotify(c) PROVE LockInv'
  <2>1. MutualExclusion'
    BY <1>1, <1>14, StayOutside DEF PyNotify, PopEnd, CriticalSections
  <2>2. ControlTypeOK'
    BY <1>1, <1>14, PyNotifyInRange
       DEF PyNotify, PopEnd, Goto, ControlTypeOK, TimeoutKinds, header, history
  <2> QED BY <2>1, <2>2
<1>15. ASSUME NEW c \in Consumers, PyPopWait(c) PROVE LockInv'
  <2>1. MutualExclusion' /\ mutex_sem' \in {0, 1}
    BY <1>1, <1>15, ReleaseSection DEF PyPopWait, CriticalSections
  <2>2. ControlTypeOK'
    BY <1>1, <1>15, <2>1 DEF PyPopWait, Goto, ControlTypeOK, header, history
  <2> QED BY <2>1, <2>2
<1>16. ASSUME NEW c \in Consumers, PyConsumerClose(c) PROVE LockInv'
  <2>1. MutualExclusion' /\ mutex_sem' \in {0, 1}
    BY <1>1, <1>16, ReleaseSection DEF PyConsumerClose, CriticalSections
  <2>2. ControlTypeOK'
    BY <1>1, <1>16, <2>1, PyNotifyInRange
       DEF PyConsumerClose, Decrement, Goto, ControlTypeOK, history
  <2> QED BY <2>1, <2>2
<1>17. CASE MixedNext
  BY <1>2, <1>3, <1>4, <1>5, <1>6, <1>7, <1>8, <1>9, <1>10, <1>11, <1>12,
     <1>13, <1>14, <1>15, <1>16, <1>17, MixedNextCases
     DEF PyProducerOnly, PyConsumerOnly
<1> QED
  BY <1>2, <1>17 DEF mixedVars

(* MutualExclusion holds whichever handles are Python ones, however they   *)
(* poll: a handle of either language keeps the other out.                  *)
THEOREM MixedLockExcludes == MixedSpec => []MutualExclusion
<1>1. MixedInit => LockInv
  BY LockInvInit DEF MixedInit
<1>2. LockInv => MutualExclusion
  BY DEF LockInv
<1> QED
  BY <1>1, <1>2, MixedLockInvStep, PTL DEF MixedSpec

-----------------------------------------------------------------------------
(***************************************************************************)
(* pop(copy=True).                                                         *)
(***************************************************************************)
(* A copy is of the slot that was taken, and a consumer has parsed an      *)
(* object only on its way to PyNotify.                                     *)
IsSequence == \E S : consumed \in Seq(S)
CopyTrue(c) ==
  /\ taken[c].number \in 1 .. Len(consumed)
  /\ \A slot \in taken[c].copy : ItemIn(slot) = consumed[taken[c].number]
CopyInv ==
  /\ IsSequence
  /\ DOMAIN taken = Consumers /\ DOMAIN popped = Consumers
  /\ \A c \in Consumers :
       /\ taken[c].copy # {} => CopyTrue(c)
       /\ popped[c] # {} => pc[c] = "notify"
  /\ CopiesIntact

(* consumed only grows at its end.                                         *)
LEMMA ConsumedGrows ==
  ASSUME IsSequence, NEW x, consumed' = consumed \/ consumed' = Append(consumed, x)
  PROVE  /\ IsSequence'
         /\ Len(consumed) \in Nat /\ Len(consumed') \in Nat
         /\ Len(consumed) <= Len(consumed')
         /\ \A i \in 1 .. Len(consumed) : consumed'[i] = consumed[i]
         /\ consumed' # consumed => /\ Len(consumed') = Len(consumed) + 1
                                   /\ consumed'[Len(consumed')] = x
<1>1. PICK S : consumed \in Seq(S)
  BY DEF IsSequence
<1>2. consumed \in Seq(S \cup {x})
  BY <1>1
<1>3. consumed' \in Seq(S \cup {x})
  BY <1>2
<1> QED BY <1>2, <1>3 DEF IsSequence

(* A step of a C++ handle, or one both languages share, touches no         *)
(* consumer between PyPopTake and PyNotify, nor what was consumed before.  *)
LEMMA NextKeeps ==
  ASSUME LockInv, Next
  PROVE  /\ \A c \in Consumers : /\ pc[c] = "notify" => pc'[c] = "notify"
                                 /\ pc'[c] = "parse" => pc[c] = "parse"
         /\ \E x : consumed' = consumed \/ consumed' = Append(consumed, x)
<1> DEFINE Steady == \A c \in Consumers : /\ pc[c] = "notify" => pc'[c] = "notify"
                                          /\ pc'[c] = "parse" => pc[c] = "parse"
<1>1. ASSUME NEW h, NEW s, pc[h] # "notify", s # "parse", Goto(h, s)
      PROVE  Steady
  BY <1>1 DEF Goto, LockInv, ControlTypeOK, Handles
<1>2. ASSUME NEW h \in Handles, SyncStep(h) \/ Open(h) \/ CloseBegin(h)
      PROVE  /\ consumed' = consumed
             /\ \E s : pc[h] # "notify" /\ s # "parse" /\ Goto(h, s)
  BY <1>2 DEF SyncStep, Lock, LockedAt, Wake, WaitStates, WaitTimeout, Relock,
     Open, CloseBegin, history
<1>3. ASSUME NEW p \in Producers,
             \/ ProducerAttach(p) \/ PushConsumerFound(p) \/ PushNoConsumers(p)
             \/ PushWrite(p) \/ PushFail(p) \/ PushWait(p) \/ ProducerClose(p)
      PROVE  /\ consumed' = consumed
             /\ \E s : pc[p] # "notify" /\ s # "parse" /\ Goto(p, s)
  BY <1>3 DEF ProducerAttach, PushConsumerFound, PushNoConsumers, PushWrite,
     PushFail, PushWait, ProducerClose, PushEnd, history
<1>4. ASSUME NEW p \in Producers, NEW m \in Msg, NEW t \in Timeouts, PushBegin(p, m, t)
      PROVE  /\ consumed' = consumed
             /\ UNCHANGED pc \/ \E s : pc[p] # "notify" /\ s # "parse" /\ Goto(p, s)
  BY <1>4 DEF PushBegin
<1>5. ASSUME NEW c \in Consumers, NEW t \in Timeouts, PopBegin(c, t)
      PROVE  /\ consumed' = consumed
             /\ \E s : pc[c] # "notify" /\ s # "parse" /\ Goto(c, s)
  BY <1>5 DEF PopBegin, history
<1>6. ASSUME NEW c \in Consumers,
             \/ ConsumerAttach(c) \/ PopEos(c) \/ PopFail(c) \/ PopWait(c)
             \/ ConsumerClose(c) \/ Unlink(c)
      PROVE  /\ consumed' = consumed
             /\ \E s : pc[c] # "notify" /\ s # "parse" /\ Goto(c, s)
  BY <1>6 DEF ConsumerAttach, PopEos, PopFail, PopWait, ConsumerClose, Unlink,
     PopEnd, history
<1>7. ASSUME NEW c \in Consumers, PopSlot(c)
      PROVE  /\ \E x : consumed' = consumed \/ consumed' = Append(consumed, x)
             /\ \E s : pc[c] # "notify" /\ s # "parse" /\ Goto(c, s)
  BY <1>7 DEF PopSlot, PopEnd
<1>8. CASE Finished
  BY <1>8 DEF Finished, vars, handle, history
<1>9. UNCHANGED pc => Steady
  OBVIOUS
<1> HIDE DEF Steady
<1>10. Producers \subseteq Handles /\ Consumers \subseteq Handles
  BY DEF Handles
<1>11. ASSUME NEW p \in Producers, ProducerStep(p) \/ ProducerCall(p)
       PROVE  /\ consumed' = consumed
              /\ Steady
  BY <1>1, <1>2, <1>3, <1>4, <1>10, <1>11, <1>9 DEF ProducerStep, ProducerCall
<1>12. ASSUME NEW c \in Consumers, ConsumerStep(c) \/ ConsumerCall(c)
       PROVE  /\ \E x : consumed' = consumed \/ consumed' = Append(consumed, x)
              /\ Steady
  BY <1>1, <1>2, <1>5, <1>6, <1>7, <1>10, <1>12 DEF ConsumerStep, ConsumerCall
<1> QED
  BY <1>8, <1>11, <1>12, <1>9 DEF Next, Steady

LEMMA CopyInvStep ==
  ASSUME LockInv, CopyInv, [MixedNext]_mixedVars
  PROVE  CopyInv'
<1> USE DEF CopyInv
<1>1. ASSUME UNCHANGED <<taken, popped>>,
             \A c \in Consumers : pc[c] = "notify" => pc'[c] = "notify",
             \E x : consumed' = consumed \/ consumed' = Append(consumed, x)
      PROVE  CopyInv'
  <2>1. /\ IsSequence'
        /\ Len(consumed) \in Nat /\ Len(consumed') \in Nat
        /\ Len(consumed) <= Len(consumed')
        /\ \A i \in 1 .. Len(consumed) : consumed'[i] = consumed[i]
    BY <1>1, ConsumedGrows
  <2>2. ASSUME NEW c \in Consumers, taken[c].copy # {}
        PROVE  CopyTrue(c)' /\ consumed'[taken[c].number] = consumed[taken[c].number]
    <3>1. CopyTrue(c)
      BY <2>2
    <3>2. taken'[c] = taken[c]
      BY <1>1
    <3> QED BY <2>1, <3>1, <3>2 DEF CopyTrue, ItemIn
  <2>3. CopiesIntact'
    BY <1>1, <2>2 DEF CopiesIntact
  <2>4. \A c \in Consumers : /\ taken'[c].copy # {} => CopyTrue(c)'
                             /\ popped'[c] # {} => pc'[c] = "notify"
    BY <1>1, <2>2
  <2> QED BY <1>1, <2>1, <2>3, <2>4
<1>2. ASSUME NEW h \in Handles, PyWaitTimeout(h), UNCHANGED <<taken, popped>>
      PROVE  CopyInv'
  BY <1>1, <1>2 DEF PyWaitTimeout, Goto, history, LockInv, ControlTypeOK
<1>3. ASSUME NEW p \in Producers, PyProducerOnly(p), UNCHANGED <<taken, popped>>
      PROVE  CopyInv'
  <2>1. consumed' = consumed
    BY <1>3 DEF PyProducerOnly, PyPushBegin, PyCountWait, PyCountAgain,
       PyPushWrite, PyPushFail, PyPushWait, PyProducerClose, history
  <2>2. \A c \in Consumers : pc[c] = "notify" => pc'[c] = "notify"
    BY <1>3, RingAssumption DEF PyProducerOnly, PyPushBegin, PyCountWait,
       PyCountAgain, PyPushWrite, PyPushFail, PyPushWait, PyProducerClose,
       PushEnd, Goto, LockInv, ControlTypeOK, Handles
  <2> QED BY <1>1, <1>3, <2>1, <2>2
<1>4. ASSUME NEW c \in Consumers, PyConsumerOnly(c), UNCHANGED <<taken, popped>>
      PROVE  CopyInv'
  <2>1. consumed' = consumed
    BY <1>4 DEF PyConsumerOnly, PyConsumerAttach, PyPopWait, PyConsumerClose, history
  <2>2. \A d \in Consumers : pc[d] = "notify" => pc'[d] = "notify"
    BY <1>4 DEF PyConsumerOnly, PyConsumerAttach, PyPopWait, PyConsumerClose,
       Goto, LockInv, ControlTypeOK, Handles
  <2> QED BY <1>1, <1>4, <2>1, <2>2
<1>5. ASSUME NEW c \in Consumers, PyPopTake(c) PROVE CopyInv'
  <2> DEFINE slot == ReadSlot(mem, read_pos)
  <2>1. PICK copy \in BOOLEAN :
          /\ consumed' = Append(consumed, ItemIn(slot))
          /\ taken' = [taken EXCEPT ![c] =
                         [number |-> Len(consumed'), pos |-> read_pos,
                          copy |-> IF copy THEN {slot} ELSE {}]]
    BY <1>5 DEF PyPopTake
  <2>2. popped' = popped /\ pc[c] = "pop_cs" /\ pc' = [pc EXCEPT ![c] = "parse"]
    BY <1>5 DEF PyPopTake, Goto
  <2>3. /\ IsSequence'
        /\ Len(consumed) \in Nat /\ Len(consumed') \in Nat
        /\ Len(consumed) <= Len(consumed')
        /\ \A i \in 1 .. Len(consumed) : consumed'[i] = consumed[i]
        /\ Len(consumed') = Len(consumed) + 1
        /\ consumed'[Len(consumed')] = ItemIn(slot)
    <3>1. PICK S : consumed \in Seq(S)
      BY DEF IsSequence
    <3>2. consumed \in Seq(S \cup {ItemIn(slot)})
      BY <3>1
    <3>3. consumed' \in Seq(S \cup {ItemIn(slot)})
      BY <2>1, <3>2
    <3> QED BY <2>1, <3>2, <3>3 DEF IsSequence
  <2>4. taken'[c].copy # {} => CopyTrue(c)'
    BY <2>1, <2>3 DEF CopyTrue, ItemIn
  <2>5. popped[c] = {}
    BY <2>2
  <2>6. ASSUME NEW d \in Consumers, d # c, taken'[d].copy # {}
        PROVE  CopyTrue(d)' /\ consumed'[taken'[d].number] = consumed[taken[d].number]
    <3>1. taken'[d] = taken[d]
      BY <2>1, <2>6
    <3>2. CopyTrue(d)
      BY <2>6, <3>1
    <3> QED BY <2>3, <3>1, <3>2 DEF CopyTrue, ItemIn
  <2>7. \A d \in Consumers : taken'[d].copy # {} => CopyTrue(d)'
    BY <2>4, <2>6
  <2>8. \A d \in Consumers : popped'[d] # {} => pc'[d] = "notify"
    BY <2>2, <2>5 DEF LockInv, ControlTypeOK, Handles
  <2>9. CopiesIntact'
    <3>1. ASSUME NEW d \in Consumers, popped'[d] # {}, taken'[d].copy # {}
          PROVE  popped'[d] = {consumed'[taken'[d].number]}
      <4>1. d # c
        BY <2>2, <2>5, <3>1
      <4>2. taken'[d] = taken[d] /\ popped'[d] = popped[d]
        BY <2>1, <2>2, <4>1
      <4>3. popped[d] = {consumed[taken[d].number]}
        BY <3>1, <4>2 DEF CopiesIntact
      <4> QED BY <2>6, <3>1, <4>1, <4>2, <4>3
    <3> QED BY <3>1 DEF CopiesIntact
  <2>10. DOMAIN taken' = Consumers /\ DOMAIN popped' = Consumers
    BY <2>1, <2>2
  <2> QED BY <2>3, <2>7, <2>8, <2>9, <2>10
<1>6. ASSUME NEW c \in Consumers, PyParse(c) PROVE CopyInv'
  <2>1. consumed' = consumed /\ pc[c] = "parse"
    BY <1>6 DEF PyParse, history
  <2>2. popped[c] = {}
    BY <2>1
  <2>3. CASE /\ popped' = [popped EXCEPT ![c] = {ItemIn(SlotToParse(c))}]
             /\ Goto(c, "notify")
             /\ taken' = taken
    <3>1. taken[c].copy # {} => ItemIn(SlotToParse(c)) = consumed[taken[c].number]
      <4>1. ASSUME taken[c].copy # {}
            PROVE  SlotToParse(c) \in taken[c].copy
        BY <4>1 DEF SlotToParse
      <4> QED BY <4>1 DEF CopyTrue
    <3>2. CopiesIntact'
      BY <2>1, <2>3, <3>1 DEF CopiesIntact
    <3>3. \A d \in Consumers : popped'[d] # {} => pc'[d] = "notify"
      BY <2>3 DEF Goto, LockInv, ControlTypeOK, Handles
    <3>4. \A d \in Consumers : taken'[d].copy # {} => CopyTrue(d)'
      BY <2>1, <2>3 DEF CopyTrue, ItemIn
    <3>5. IsSequence'
      BY <2>1 DEF IsSequence
    <3>6. DOMAIN taken' = Consumers /\ DOMAIN popped' = Consumers
      BY <2>3
    <3> QED BY <3>2, <3>3, <3>4, <3>5, <3>6
  <2>4. CASE /\ taken' = [taken EXCEPT ![c] = NothingTaken]
             /\ PopEnd(c) /\ popped' = popped
    <3>1. \A d \in Consumers : d # c => taken'[d] = taken[d] /\ pc'[d] = pc[d]
      BY <2>4 DEF PopEnd, Goto, LockInv, ControlTypeOK, Handles
    <3>2. taken'[c].copy = {}
      BY <2>4 DEF NothingTaken
    <3>3. CopiesIntact'
      BY <2>1, <2>4, <3>1, <3>2 DEF CopiesIntact
    <3>4. \A d \in Consumers : popped'[d] # {} => pc'[d] = "notify"
      BY <2>2, <2>4, <3>1
    <3>5. \A d \in Consumers : taken'[d].copy # {} => CopyTrue(d)'
      BY <2>1, <3>1, <3>2 DEF CopyTrue, ItemIn
    <3>6. IsSequence'
      BY <2>1 DEF IsSequence
    <3>7. DOMAIN taken' = Consumers /\ DOMAIN popped' = Consumers
      BY <2>4
    <3> QED BY <3>3, <3>4, <3>5, <3>6, <3>7
  <2> QED BY <1>6, <2>3, <2>4 DEF PyParse
<1>7. ASSUME NEW c \in Consumers, PyNotify(c) PROVE CopyInv'
  <2>1. /\ consumed' = consumed
        /\ taken' = [taken EXCEPT ![c] = NothingTaken]
        /\ popped' = [popped EXCEPT ![c] = {}]
    BY <1>7 DEF PyNotify, history
  <2>2. \A d \in Consumers : d # c => /\ taken'[d] = taken[d]
                                      /\ popped'[d] = popped[d]
                                      /\ pc'[d] = pc[d]
    BY <1>7, <2>1 DEF PyNotify, PopEnd, Goto, LockInv, ControlTypeOK, Handles
  <2>3. taken'[c].copy = {} /\ popped'[c] = {}
    BY <2>1 DEF NothingTaken
  <2>4. CopiesIntact'
    BY <2>1, <2>2, <2>3 DEF CopiesIntact
  <2>5. \A d \in Consumers : popped'[d] # {} => pc'[d] = "notify"
    BY <2>2, <2>3
  <2>6. \A d \in Consumers : taken'[d].copy # {} => CopyTrue(d)'
    BY <2>1, <2>2, <2>3 DEF CopyTrue, ItemIn
  <2>7. IsSequence'
    BY <2>1 DEF IsSequence
  <2>8. DOMAIN taken' = Consumers /\ DOMAIN popped' = Consumers
    BY <2>1
  <2> QED BY <2>4, <2>5, <2>6, <2>7, <2>8
<1>8. CASE UNCHANGED mixedVars
  BY <1>1, <1>8 DEF mixedVars, vars, handle, history
<1>9. CASE Next /\ UNCHANGED <<taken, popped>>
  BY <1>1, <1>9, NextKeeps
<1> QED
  BY <1>2, <1>3, <1>4, <1>5, <1>6, <1>7, <1>8, <1>9, MixedNextCases

(* What pop(copy=True) returns is the slot it took, whatever the producers *)
(* of either language wrote over its place while it was being parsed.      *)
THEOREM CopiesSurvive == MixedSpec => []CopiesIntact
<1>1. MixedInit => LockInv /\ CopyInv
  <2> SUFFICES ASSUME MixedInit PROVE LockInv /\ CopyInv
    OBVIOUS
  <2>1. consumed \in Seq({})
    BY DEF MixedInit, Init
  <2> QED
    BY <2>1, LockInvInit DEF MixedInit, CopyInv, IsSequence, NothingTaken,
       CopiesIntact
<1>2. LockInv /\ CopyInv /\ [MixedNext]_mixedVars => LockInv' /\ CopyInv'
  BY MixedLockInvStep, CopyInvStep
<1>3. CopyInv => CopiesIntact
  BY DEF CopyInv
<1> QED
  BY <1>1, <1>2, <1>3, PTL DEF MixedSpec

-----------------------------------------------------------------------------
(***************************************************************************)
(* The registration counters, to which both languages add.                 *)
(***************************************************************************)
LEMMA MixedCountInvStep ==
  ASSUME LockInv, CountInv, [MixedNext]_mixedVars
  PROVE  CountInv'
<1> USE RingAssumption, ControlStates
<1>1. Producers \subseteq Handles /\ Consumers \subseteq Handles
  BY DEF Handles
<1>2. CASE Next \/ UNCHANGED vars
  BY <1>2, CountInvStep
<1>3. ASSUME NEW h \in Handles, PyWaitTimeout(h) PROVE CountInv'
  BY <1>3, SameRegistration DEF PyWaitTimeout, Unregistered, header
<1>4. ASSUME NEW p \in Producers, NEW m \in Msg, NEW t \in Timeouts, PyPushBegin(p, m, t)
      PROVE CountInv'
  <2>1. CASE Len(Metadata[m]) > MAX_METADATA_SIZE
    BY <1>4, <2>1 DEF PyPushBegin, CountInv, RegisteredByState,
       CountersMatchHandles, header
  <2>2. CASE ~(Len(Metadata[m]) > MAX_METADATA_SIZE)
    BY <1>1, <1>4, <2>2, SameRegistration DEF PyPushBegin, Unregistered, header
  <2> QED BY <2>1, <2>2
<1>5. ASSUME NEW p \in Producers, PyCountWait(p) PROVE CountInv'
  BY <1>1, <1>5, SameRegistration DEF PyCountWait, Unregistered, header
<1>6. ASSUME NEW p \in Producers, PyCountAgain(p) PROVE CountInv'
  BY <1>1, <1>6, SameRegistration DEF PyCountAgain, Unregistered, header
<1>7. ASSUME NEW p \in Producers, PyPushWrite(p) PROVE CountInv'
  BY <1>1, <1>7, SameRegistration DEF PyPushWrite, PushEnd, Unregistered
<1>8. ASSUME NEW p \in Producers, PyPushFail(p) PROVE CountInv'
  BY <1>1, <1>8, SameRegistration DEF PyPushFail, PushEnd, Unregistered, header
<1>9. ASSUME NEW p \in Producers, PyPushWait(p) PROVE CountInv'
  BY <1>1, <1>9, SameRegistration DEF PyPushWait, Unregistered, header
<1>10. ASSUME NEW c \in Consumers, PyPopTake(c) PROVE CountInv'
  BY <1>1, <1>10, SameRegistration DEF PyPopTake, Unregistered
<1>11. ASSUME NEW c \in Consumers, PyParse(c) PROVE CountInv'
  <2>1. PICK s \in {"notify", "idle"} : Goto(c, s)
    BY <1>11 DEF PyParse, PopEnd
  <2> QED
    BY <1>1, <1>11, <2>1, SameRegistration DEF PyParse, Unregistered, header
<1>12. ASSUME NEW c \in Consumers, PyNotify(c) PROVE CountInv'
  BY <1>1, <1>12, SameRegistration DEF PyNotify, PopEnd, Unregistered, header
<1>13. ASSUME NEW c \in Consumers, PyPopWait(c) PROVE CountInv'
  BY <1>1, <1>13, SameRegistration DEF PyPopWait, Unregistered, header
<1>14. ASSUME NEW c \in Consumers, PyConsumerAttach(c) PROVE CountInv'
  <2>1. c \in Handles /\ c \notin registered
    BY <1>1, <1>14 DEF PyConsumerAttach, CountInv, RegisteredByState, Unregistered
  <2>2. RegisteredByState'
    BY <1>14, <2>1 DEF PyConsumerAttach, Goto, CountInv, RegisteredByState,
       Unregistered, LockInv, ControlTypeOK
  <2> QED
    BY <1>14, <2>1, <2>2, CountUp
       DEF PyConsumerAttach, CountInv, CountersMatchHandles
<1>15. ASSUME NEW p \in Producers, PyProducerClose(p) PROVE CountInv'
  <2>1. p \in Handles /\ p \in registered
    BY <1>1, <1>15 DEF PyProducerClose, CountInv, RegisteredByState, Unregistered
  <2>2. RegisteredByState'
    BY <1>15, <2>1 DEF PyProducerClose, Goto, CountInv, RegisteredByState,
       Unregistered, LockInv, ControlTypeOK
  <2>3. /\ Cardinality((registered \ {p}) \cap Producers)
             = Cardinality(registered \cap Producers) - 1
        /\ Cardinality(registered \cap Producers) \in Nat \ {0}
        /\ (registered \ {p}) \cap Consumers = registered \cap Consumers
    BY <1>15, <2>1, CountDown
  <2>4. /\ active_producers = Cardinality(registered \cap Producers)
        /\ active_consumers = Cardinality(registered \cap Consumers)
    BY DEF CountInv, CountersMatchHandles
  <2>5. active_producers' = active_producers - 1
    BY <1>15, <2>3, <2>4 DEF PyProducerClose, Decrement
  <2>6. registered' = registered \ {p} /\ UNCHANGED active_consumers
    BY <1>15 DEF PyProducerClose
  <2>7. CountersMatchHandles'
    BY <2>3, <2>4, <2>5, <2>6 DEF CountersMatchHandles
  <2> QED BY <2>2, <2>7 DEF CountInv
<1>16. ASSUME NEW c \in Consumers, PyConsumerClose(c) PROVE CountInv'
  <2>1. c \in Handles /\ c \in registered
    BY <1>1, <1>16 DEF PyConsumerClose, CountInv, RegisteredByState, Unregistered
  <2>2. RegisteredByState'
    BY <1>16, <2>1 DEF PyConsumerClose, Goto, CountInv, RegisteredByState,
       Unregistered, LockInv, ControlTypeOK
  <2>3. /\ Cardinality((registered \ {c}) \cap Consumers)
             = Cardinality(registered \cap Consumers) - 1
        /\ Cardinality(registered \cap Consumers) \in Nat \ {0}
        /\ (registered \ {c}) \cap Producers = registered \cap Producers
    BY <1>16, <2>1, CountDown
  <2>4. /\ active_producers = Cardinality(registered \cap Producers)
        /\ active_consumers = Cardinality(registered \cap Consumers)
    BY DEF CountInv, CountersMatchHandles
  <2>5. active_consumers' = active_consumers - 1
    BY <1>16, <2>3, <2>4 DEF PyConsumerClose, Decrement
  <2>6. registered' = registered \ {c} /\ UNCHANGED active_producers
    BY <1>16 DEF PyConsumerClose
  <2>7. CountersMatchHandles'
    BY <2>3, <2>4, <2>5, <2>6 DEF CountersMatchHandles
  <2> QED BY <2>2, <2>7 DEF CountInv
<1>17. CASE MixedNext
  BY <1>2, <1>3, <1>4, <1>5, <1>6, <1>7, <1>8, <1>9, <1>10, <1>11, <1>12,
     <1>13, <1>14, <1>15, <1>16, <1>17, MixedNextCases
     DEF PyProducerOnly, PyConsumerOnly
<1> QED
  BY <1>2, <1>17 DEF mixedVars

(* active_producers and active_consumers count the registered handles of   *)
(* both languages: a C++ consumer does not take the ring for finished      *)
(* while a Python producer is attached, nor the other way round.           *)
THEOREM MixedCountersExact == MixedSpec => []CountersMatchHandles
<1>1. MixedInit => LockInv /\ CountInv
  BY LockInvInit, CountInvInit DEF MixedInit
<1>2. LockInv /\ CountInv /\ [MixedNext]_mixedVars => LockInv' /\ CountInv'
  BY MixedLockInvStep, MixedCountInvStep
<1>3. CountInv => CountersMatchHandles
  BY DEF CountInv
<1> QED
  BY <1>1, <1>2, <1>3, PTL DEF MixedSpec

-----------------------------------------------------------------------------
(***************************************************************************)
(* The data, with both languages pushing and popping, as long as the ring  *)
(* is not filled to its last byte.                                         *)
(***************************************************************************)
LEMMA MixedPushInvStep == LockInv /\ PushInv /\ [MixedNext]_mixedVars => PushInv'
<1> USE ControlStates
<1> SUFFICES ASSUME LockInv, PushInv, [MixedNext]_mixedVars PROVE PushInv'
  OBVIOUS
<1>1. Producers \subseteq Handles /\ Consumers \subseteq Handles
  BY DEF Handles
<1>2. CASE Next \/ UNCHANGED vars
  BY <1>2, PushInvStep
<1>3. ASSUME NEW h \in Handles, PyWaitTimeout(h) PROVE PushInv'
  BY <1>3, KeepsPushing DEF PyWaitTimeout, Pushing
<1>4. ASSUME NEW p \in Producers, NEW m \in Msg, NEW t \in Timeouts, PyPushBegin(p, m, t)
      PROVE PushInv'
  <2>1. CASE Len(Metadata[m]) > MAX_METADATA_SIZE
    BY <1>4, <2>1 DEF PyPushBegin, PushInv
  <2>2. CASE ~(Len(Metadata[m]) > MAX_METADATA_SIZE)
    <3>1. msg' = [msg EXCEPT ![p] = m] /\ pc' = [pc EXCEPT ![p] = "count"]
      BY <1>4, <2>2 DEF PyPushBegin, Goto
    <3>2. Readable(m)
      <4>1. Len(Metadata[m]) \in Nat
        BY SizeOfSlot, 0 \in Nat, LenProperties
      <4> QED BY <2>2, <4>1, RingAssumption DEF Readable
    <3> QED BY <3>1, <3>2, <1>1 DEF PushInv, LockInv, ControlTypeOK
  <2> QED BY <2>1, <2>2
<1>5. ASSUME NEW p \in Producers, PyCountWait(p) \/ PyCountAgain(p) PROVE PushInv'
  BY <1>1, <1>5, KeepsPushing DEF PyCountWait, PyCountAgain, Pushing
<1>6. ASSUME NEW p \in Producers, PyPushWrite(p) \/ PyPushFail(p) PROVE PushInv'
  BY <1>6, EndsPushing DEF PyPushWrite, PyPushFail
<1>7. ASSUME NEW p \in Producers, PyPushWait(p) \/ PyProducerClose(p) PROVE PushInv'
  BY <1>1, <1>7, KeepsPushing DEF PyPushWait, PyProducerClose, Pushing
<1>8. ASSUME NEW c \in Consumers, PyConsumerAttach(c) \/ PyPopWait(c) PROVE PushInv'
  BY <1>8, ConsumerKeepsPushing DEF PyConsumerAttach, PyPopWait
<1>9. ASSUME NEW c \in Consumers, PyConsumerClose(c) PROVE PushInv'
  BY <1>9, ConsumerKeepsPushing DEF PyConsumerClose
<1>10. ASSUME NEW c \in Consumers, PyPopTake(c) PROVE PushInv'
  BY <1>10, ConsumerKeepsPushing DEF PyPopTake
<1>11. ASSUME NEW c \in Consumers, PyParse(c) PROVE PushInv'
  <2>1. PICK s \in {"notify", "idle"} : Goto(c, s)
    BY <1>11 DEF PyParse, PopEnd
  <2>2. UNCHANGED msg
    BY <1>11 DEF PyParse
  <2> QED BY <2>1, <2>2, ConsumerKeepsPushing
<1>12. ASSUME NEW c \in Consumers, PyNotify(c) PROVE PushInv'
  BY <1>12, ConsumerKeepsPushing DEF PyNotify, PopEnd
<1>13. CASE MixedNext
  BY <1>2, <1>3, <1>4, <1>5, <1>6, <1>7, <1>8, <1>9, <1>10, <1>11, <1>12, <1>13,
     MixedNextCases DEF PyProducerOnly, PyConsumerOnly
<1> QED
  BY <1>2, <1>13 DEF mixedVars

(* A slot read in place: some bytes whatever its cells hold, and the slot  *)
(* as long as they hold one.                                               *)
LEMMA ReadClipped ==
  ASSUME mem \in [Cells -> Nat], NEW o \in Int, NEW n \in Nat
  PROVE  /\ py_read_bytes(CellAt(o), n) \in Seq(Nat)
         /\ n <= total_data_bytes =>
              py_read_bytes(CellAt(o), n) = read_bytes(mem, CellAt(o), n)
<1> DEFINE a == CellAt(o)
<1> DEFINE there_is == (data_end_abs - a) + total_data_bytes
<1> DEFINE k == IF n <= there_is THEN n ELSE there_is
<1> DEFINE b == read_bytes(mem, a, k)
<1>1. a \in Cells /\ there_is \in Nat /\ total_data_bytes <= there_is
  <2>1. a \in Cells
    BY OffsetInCell
  <2> HIDE DEF a
  <2> QED BY <2>1, LayoutAssumption DEF Cells, data_begin_abs, data_end_abs
<1>2. b = [i \in 1 .. k |->
         IF a + i - 1 < data_end_abs
         THEN mem[a + i - 1]
         ELSE mem[data_begin_abs + (a + i - 1 - data_end_abs)]]
  BY NormalizeCell DEF read_bytes
<1>3. py_read_bytes(a, n) = b
  BY DEF py_read_bytes
<1>4. k \in Nat /\ k <= there_is /\ (n <= total_data_bytes => k = n)
  BY <1>1, LayoutAssumption
<1>5. ASSUME NEW i \in 1 .. k PROVE b[i] \in Nat
  <2> HIDE DEF a, k, b
  <2>1. a + i - 1 < data_end_abs => a + i - 1 \in Cells
    BY <1>1, <1>4, LayoutAssumption DEF Cells, data_begin_abs, data_end_abs
  <2>2. ~(a + i - 1 < data_end_abs) => data_begin_abs + (a + i - 1 - data_end_abs) \in Cells
    BY <1>1, <1>4, LayoutAssumption DEF Cells, data_begin_abs, data_end_abs
  <2> QED BY <1>2, <2>1, <2>2
<1>6. b \in Seq(Nat)
  <2> HIDE DEF b, k
  <2>1. b \in [1 .. k -> Nat]
    BY <1>2, <1>5
  <2> QED BY <1>4, <2>1
<1> QED BY <1>3, <1>4, <1>6

LEMMA InPlaceItem ==
  ASSUME mem \in [Cells -> Nat], NEW o \in Int
  PROVE  ItemIn(ReadInPlace(CellAt(o))) \in Item
<1> DEFINE m == ReadSlot(mem, CellAt(o)).metadata_size
<1> DEFINE n == read_uint(mem, normalize_abs(CellAt(o) + 2))
<1>1. m \in Nat /\ n \in Nat
  <2>1. m = read_uint(mem, normalize_abs(CellAt(o) + 1))
    BY DEF ReadSlot
  <2>2. normalize_abs(CellAt(o) + 1) = CellAt(o + 1) /\ normalize_abs(CellAt(o) + 2) = CellAt(o + 2)
    BY NormalizeStep
  <2>3. o + 1 \in Int /\ o + 2 \in Int
    OBVIOUS
  <2>4. read_uint(mem, CellAt(o + 1)) \in Nat
    BY <2>3, ReadUint, OffsetInCell
  <2>5. read_uint(mem, CellAt(o + 2)) \in Nat
    BY <2>3, ReadUint, OffsetInCell
  <2> QED BY <2>1, <2>2, <2>4, <2>5
<1> DEFINE meta_pos == normalize_abs(CellAt(o) + SLOT_HEADER_SIZE)
<1> DEFINE data_pos == normalize_abs(meta_pos + (m + 1))
<1>2. ItemIn(ReadInPlace(CellAt(o)))
        = [metadata |-> py_read_bytes(meta_pos, m), payload |-> py_read_bytes(data_pos, n)]
  BY DEF ItemIn, ReadInPlace
<1> HIDE DEF m, n
<1>3. meta_pos = CellAt(o + 3) /\ data_pos = CellAt((o + 3) + (m + 1))
  <2>1. normalize_abs(CellAt(o) + 3) = CellAt(o + 3)
    BY NormalizeStep
  <2>2. o + 3 \in Int /\ m + 1 \in Nat
    BY <1>1
  <2>3. normalize_abs(CellAt(o + 3) + (m + 1)) = CellAt((o + 3) + (m + 1))
    BY <2>2, NormalizeStep, Zenon
  <2> QED BY <2>1, <2>3 DEF SLOT_HEADER_SIZE
<1> HIDE DEF meta_pos, data_pos
<1>4. o + 3 \in Int /\ (o + 3) + (m + 1) \in Int
  BY <1>1
<1>5. py_read_bytes(CellAt(o + 3), m) \in Seq(Nat)
  BY <1>1, <1>4, ReadClipped
<1>6. py_read_bytes(CellAt((o + 3) + (m + 1)), n) \in Seq(Nat)
  BY <1>1, <1>4, ReadClipped
<1> QED BY <1>2, <1>3, <1>5, <1>6 DEF Item

LEMMA InPlaceIsSlot ==
  ASSUME mem \in [Cells -> Nat], NEW o \in Int,
         NEW metadata \in Seq(Nat), NEW payload \in Seq(Nat),
         slot_size(metadata, payload) <= total_data_bytes,
         NEW slot, slot = ReadSlot(mem, CellAt(o)),
         ReadsAs(slot, slot.next, metadata, payload)
  PROVE  LET inPlace == ReadInPlace(CellAt(o))
         IN  /\ IsValid(slot) => IsValid(inPlace)
             /\ ItemIn(inPlace) = [metadata |-> metadata, payload |-> payload]
<1> DEFINE m == Len(metadata)
<1> DEFINE n == read_uint(mem, normalize_abs(CellAt(o) + 2))
<1> DEFINE meta_pos == normalize_abs(CellAt(o) + SLOT_HEADER_SIZE)
<1> DEFINE data_pos == normalize_abs(meta_pos + (m + 1))
<1>1. m \in Nat /\ Len(payload) \in Nat
      /\ m <= total_data_bytes /\ Len(payload) <= total_data_bytes
  BY LayoutAssumption DEF slot_size, SLOT_HEADER_SIZE
<1>2. slot.metadata_size = m /\ slot.metadata = metadata /\ slot.payload = payload
  BY DEF ReadsAs
<1>3. /\ normalize_abs(CellAt(o) + 1) = CellAt(o + 1)
      /\ normalize_abs(CellAt(o + 1) + 1) = CellAt(o + 2)
      /\ normalize_abs(CellAt(o + 2) + 1) = CellAt(o + 3)
      /\ normalize_abs(CellAt(o + 3) + m) = CellAt(o + (m + 3))
      /\ normalize_abs(CellAt(o + (m + 3)) + 1) = CellAt(o + (m + 4))
  BY <1>1, FieldPlaces, 0 \in Nat
<1>4. /\ normalize_abs(CellAt(o) + 2) = CellAt(o + 2)
      /\ meta_pos = CellAt(o + 3) /\ data_pos = CellAt(o + (m + 4))
  <2>1. normalize_abs(CellAt(o) + 2) = CellAt(o + 2)
    BY NormalizeStep
  <2>2. normalize_abs(CellAt(o) + 3) = CellAt(o + 3)
    BY NormalizeStep
  <2>3. o + 3 \in Int /\ m + 1 \in Nat /\ (o + 3) + (m + 1) = o + (m + 4)
    BY <1>1
  <2>4. normalize_abs(CellAt(o + 3) + (m + 1)) = CellAt((o + 3) + (m + 1))
    BY <2>3, NormalizeStep, Zenon
  <2> QED BY <2>1, <2>2, <2>3, <2>4 DEF SLOT_HEADER_SIZE
<1>5. /\ slot.metadata_size = read_uint(mem, CellAt(o + 1))
      /\ slot.metadata = read_bytes(mem, CellAt(o + 3), slot.metadata_size)
      /\ slot.payload
           = read_bytes(mem, normalize_abs(normalize_abs(CellAt(o + 3) + slot.metadata_size) + 1), n)
  BY <1>3, <1>4 DEF ReadSlot
<1>6. ReadInPlace(CellAt(o))
        = [next |-> slot.next,
           metadata_size |-> m,
           metadata |-> py_read_bytes(meta_pos, m),
           start_sentinel |-> slot.start_sentinel,
           payload |-> py_read_bytes(data_pos, n),
           end_sentinel |-> slot.end_sentinel]
  BY <1>2 DEF ReadInPlace
<1>7. n \in Nat
  <2>1. o + 2 \in Int
    OBVIOUS
  <2> QED BY <1>4, <2>1, ReadUint, OffsetInCell
<1> HIDE DEF m, n, meta_pos, data_pos
<1>8. /\ metadata = read_bytes(mem, CellAt(o + 3), m)
      /\ payload = read_bytes(mem, CellAt(o + (m + 4)), n)
  BY <1>2, <1>3, <1>5
<1>9. n = Len(payload)
  <2>1. DOMAIN payload = 1 .. n
    BY <1>8 DEF read_bytes
  <2> QED BY <1>7, <2>1, LenProperties
<1>10. o + 3 \in Int /\ o + (m + 4) \in Int
  BY <1>1
<1>11. py_read_bytes(CellAt(o + 3), m) = metadata
  BY <1>1, <1>8, <1>10, ReadClipped DEF m
<1>12. py_read_bytes(CellAt(o + (m + 4)), n) = payload
  BY <1>1, <1>7, <1>8, <1>9, <1>10, ReadClipped
<1> QED BY <1>2, <1>4, <1>6, <1>11, <1>12 DEF IsValid, ItemIn

(* What a consumer holds on to between PyPopTake and PyNotify.  A slot it  *)
(* is still to parse in place is where it was pushed, and whole until a    *)
(* region's length has been written from its start.                        *)
Held(c) ==
  /\ taken[c].number \in 0 .. Len(consumed)
  /\ taken[c].pos \in Cells
  /\ taken[c].copy = {} \/ \E slot : taken[c].copy = {slot} /\ ItemIn(slot) \in Item
  /\ popped[c] = {} \/ \E item \in Item : popped[c] = {item}

ToParse(c) ==
  LET first == published[taken[c].number]
  IN  /\ taken[c].number \in 1 .. Len(consumed)
      /\ taken[c].pos = CellAt(first.at)
      /\ Written - first.at <= total_data_bytes => InRing(mem, first)

TakenInv ==
  /\ DOMAIN taken = Consumers /\ DOMAIN popped = Consumers
  /\ \A c \in Consumers : Held(c) /\ (pc[c] = "parse" => ToParse(c))

LEMMA TakenInvInit == MixedInit => TakenInv
<1> SUFFICES ASSUME MixedInit PROVE TakenInv
  OBVIOUS
<1>1. \A h \in Handles : pc[h] \in {"attach_lock", "detached"}
  BY DEF MixedInit, Init
<1>2. consumed = <<>> /\ Len(<<>>) = 0
  BY DEF MixedInit, Init
<1>3. data_begin_abs \in Cells
  BY LayoutAssumption DEF Cells, data_begin_abs, data_end_abs
<1> QED
  BY <1>1, <1>2, <1>3 DEF MixedInit, TakenInv, Held, NothingTaken, Handles

(* The stream may grow at both ends without a slot that is held changing.  *)
HeldSlotsStay ==
  /\ Len(consumed) <= Len(consumed')
  /\ \A i \in 1 .. Len(consumed) :
       /\ published'[i] = published[i]
       /\ Written' - published[i].at <= total_data_bytes =>
            /\ Written - published[i].at <= total_data_bytes
            /\ InRing(mem, published[i]) => InRing(mem', published[i])

LEMMA HeldStays ==
  ASSUME HeldSlotsStay, Len(consumed) \in Nat, Len(consumed') \in Nat,
         NEW c, taken'[c] = taken[c]
  PROVE  /\ Held(c) /\ popped'[c] = popped[c] => Held(c)'
         /\ ToParse(c) => ToParse(c)'
<1>1. ASSUME Held(c), popped'[c] = popped[c] PROVE Held(c)'
  BY <1>1 DEF HeldSlotsStay, Held, ItemIn
<1>2. ASSUME ToParse(c) PROVE ToParse(c)'
  <2> DEFINE k == taken[c].number
  <2>1. k \in 1 .. Len(consumed) /\ k \in 1 .. Len(consumed')
    BY <1>2 DEF ToParse, HeldSlotsStay
  <2>2. published'[k] = published[k]
    BY <2>1 DEF HeldSlotsStay
  <2>3. Written' - published[k].at <= total_data_bytes =>
          /\ Written - published[k].at <= total_data_bytes
          /\ InRing(mem, published[k]) => InRing(mem', published[k])
    BY <2>1 DEF HeldSlotsStay
  <2> QED BY <1>2, <2>1, <2>2, <2>3 DEF ToParse, InRing, CellsOf, End
<1> QED BY <1>1, <1>2

LEMMA TakenFrame ==
  ASSUME TakenInv, HeldSlotsStay, Len(consumed) \in Nat, Len(consumed') \in Nat,
         UNCHANGED <<taken, popped>>,
         \A c \in Consumers : pc'[c] = "parse" => pc[c] = "parse"
  PROVE  TakenInv'
<1>1. ASSUME NEW c \in Consumers PROVE Held(c)' /\ (pc'[c] = "parse" => ToParse(c)')
  BY HeldStays DEF TakenInv
<1> QED BY <1>1 DEF TakenInv

(* A step that leaves the stream alone, and one that pushes a slot.        *)
LEMMA SameSlotsStay ==
  ASSUME StreamInv, UNCHANGED <<mem, published>>,
         consumed' = consumed \/ Len(consumed') = Len(consumed) + 1
  PROVE  HeldSlotsStay /\ Len(consumed) \in Nat /\ Len(consumed') \in Nat
<1>1. Len(consumed) \in Nat /\ Written' = Written
  BY StreamEnds DEF Written
<1> QED BY <1>1 DEF HeldSlotsStay

LEMMA PushedSlotsStay ==
  ASSUME PushInv, StreamInv, NotFull, NEW p \in Producers,
         PushWrite(p) \/ PyPushWrite(p)
  PROVE  /\ StreamInv' /\ consumed' = consumed
         /\ HeldSlotsStay /\ Len(consumed) \in Nat
<1> DEFINE m == msg[p]
<1> DEFINE next_pos == normalize_abs(write_pos + Size(m))
<1>1. m \in Msg /\ Readable(m)
  BY DEF PushInv, PushWrite, PyPushWrite, Pushing
<1>2. /\ HasRoom(m)
      /\ mem' = write_bytes(mem, write_pos, SlotCells(next_pos, Metadata[m], Payload[m]))
      /\ write_pos' = next_pos
      /\ published' = Append(published, [msg |-> m, at |-> Written])
      /\ UNCHANGED <<read_pos, consumed, dropped>>
  BY DEF PushWrite, PyPushWrite
<1>3. /\ Written \in Nat /\ Used \in Nat /\ Len(consumed) \in Nat /\ Len(published) \in Nat
      /\ Len(consumed) <= Len(published)
      /\ \A i \in 1 .. Len(published) : published[i].at \in Nat
  BY StreamEnds
<1> HIDE DEF m, next_pos
<1>4. Size(m) \in Nat \ {0} /\ Size(m) <= total_data_bytes
  <2>1. Size(m) \in Nat \ {0}
    BY <1>1, SizeNat
  <2>2. Size(m) <= total_data_bytes - Used
    BY <1>2, FreeSpace DEF HasRoom
  <2> QED BY <1>3, <2>1, <2>2, LayoutAssumption
<1>5. next_pos = normalize_abs(write_pos + Size(m))
  BY DEF next_pos
<1>6. StreamInv'
  BY <1>1, <1>2, <1>5, PushKeepsStream
<1>7. \A i \in 1 .. Len(published) :
        /\ InRing(mem, published[i])
        /\ (Written + Size(m)) - published[i].at <= total_data_bytes
        => InRing(mem', published[i])
  BY <1>1, <1>2, <1>4, <1>5, PushMemory
<1>8. /\ Len(published') = Len(published) + 1
      /\ \A i \in 1 .. Len(published) : published'[i] = published[i]
      /\ published'[Len(published) + 1] = [msg |-> m, at |-> Written]
  BY <1>2 DEF StreamInv
<1>9. Written' = Written + Size(m)
  <2>1. published' # <<>>
    BY <1>3, <1>8
  <2> QED BY <1>3, <1>8, <2>1 DEF Written
<1>10. ASSUME NEW i \in 1 .. Len(consumed)
       PROVE  /\ published'[i] = published[i]
              /\ Written' - published[i].at <= total_data_bytes =>
                   /\ Written - published[i].at <= total_data_bytes
                   /\ InRing(mem, published[i]) => InRing(mem', published[i])
  <2>1. i \in 1 .. Len(published)
    BY <1>3
  <2>2. published[i].at \in Nat
    BY <1>3, <2>1
  <2>3. Written' - published[i].at <= total_data_bytes
          => Written - published[i].at <= total_data_bytes
    BY <1>3, <1>4, <1>9, <2>2, LayoutAssumption
  <2> QED BY <1>7, <1>8, <1>9, <2>1, <2>3
<1>11. consumed' = consumed /\ Len(consumed) <= Len(consumed')
  BY <1>2, <1>3
<1> QED BY <1>3, <1>6, <1>10, <1>11 DEF HeldSlotsStay

(* Taking a slot: it leaves the ring, and its cells stay where they are.   *)
LEMMA TakeStep ==
  ASSUME LockInv, StreamInv, TakenInv, NotFull, NEW c \in Consumers, PyPopTake(c)
  PROVE  StreamInv' /\ TakenInv'
<1> DEFINE k == Len(consumed) + 1
<1> DEFINE slot == ReadSlot(mem, read_pos)
<1> DEFINE item == [metadata |-> slot.metadata, payload |-> slot.payload]
<1>1. PICK copy \in BOOLEAN :
        /\ read_pos' = slot.next
        /\ consumed' = Append(consumed, item)
        /\ taken' = [taken EXCEPT ![c] = [number |-> Len(consumed'), pos |-> read_pos,
                                          copy |-> IF copy THEN {slot} ELSE {}]]
  BY DEF PyPopTake, ItemIn
<1>2. /\ write_pos # read_pos /\ pc' = [pc EXCEPT ![c] = "parse"]
      /\ UNCHANGED <<write_pos, mem, published, dropped, popped>>
  BY DEF PyPopTake, Goto
<1>3. /\ k \in 1 .. Len(published) /\ IsValid(slot)
      /\ item = ItemOf(published[k].msg)
      /\ slot.next = CellAt(End(published[k]))
  BY <1>2, PopReadsNext
<1>4. ItemIn(slot) = item
  BY DEF ItemIn
<1> HIDE DEF slot, item
<1>5. StreamInv'
  BY <1>1, <1>2, <1>3, PopKeepsStream
<1>6. Len(consumed) \in Nat /\ Len(published) \in Nat /\ consumed \in Seq(Item)
  BY StreamEnds DEF StreamInv
<1>7. Len(consumed') = k /\ consumed' = Append(consumed, item)
  BY <1>1, <1>6
<1>8. HeldSlotsStay /\ Len(consumed') \in Nat
  BY <1>2, <1>6, <1>7, SameSlotsStay
<1>9. /\ read_pos = CellAt(published[k].at) /\ read_pos \in Cells
      /\ published[k].msg \in Msg /\ published[k].at \in Int
  <2>1. Drained = published[k].at
    BY <1>3, <1>6 DEF Drained
  <2>2. published[k].msg \in Msg /\ published[k].at \in Nat
    BY <1>3, StreamEnds
  <2>3. read_pos = CellAt(published[k].at)
    BY <2>1 DEF StreamInv
  <2>4. published[k].at \in Int
    BY <2>2
  <2>5. CellAt(published[k].at) \in Cells
    BY <2>4, OffsetInCell
  <2> QED BY <2>2, <2>3, <2>4, <2>5
<1>10. InRing(mem, published[k]) /\ item \in Item
  <2>1. k \in Len(consumed) + 1 .. Len(published)
    BY <1>3, <1>6
  <2>2. InRing(mem, published[k])
    BY <2>1 DEF StreamInv
  <2> QED BY <1>3, <1>9, <2>2, SizeOfSlot, 0 \in Nat
<1>11. taken'[c] = [number |-> k, pos |-> read_pos, copy |-> IF copy THEN {slot} ELSE {}]
  BY <1>1, <1>7 DEF TakenInv
<1>12. Held(c)'
  <2>1. taken'[c].number \in 0 .. Len(consumed')
    BY <1>6, <1>7, <1>11
  <2>2. taken'[c].pos \in Cells
    BY <1>9, <1>11
  <2>3. taken'[c].copy = {} \/ (taken'[c].copy = {slot} /\ ItemIn(slot) \in Item)
    BY <1>4, <1>10, <1>11
  <2>4. popped'[c] = {} \/ \E x \in Item : popped'[c] = {x}
    BY <1>2 DEF TakenInv, Held
  <2>5. \A s : ItemIn(s)' = ItemIn(s)
    BY DEF ItemIn
  <2> QED BY <2>1, <2>2, <2>3, <2>4, <2>5 DEF Held
<1>13. ToParse(c)'
  <2>1. taken'[c].number = k /\ k \in 1 .. Len(consumed') /\ taken'[c].pos = CellAt(published[k].at)
    BY <1>6, <1>7, <1>9, <1>11
  <2>2. published'[k] = published[k] /\ InRing(mem', published'[k])
    BY <1>2, <1>10
  <2> QED BY <2>1, <2>2 DEF ToParse, InRing, CellsOf, End
<1>14. ASSUME NEW d \in Consumers, d # c
       PROVE  Held(d)' /\ (pc'[d] = "parse" => ToParse(d)')
  <2>1. taken'[d] = taken[d] /\ popped'[d] = popped[d] /\ pc'[d] = pc[d]
    BY <1>1, <1>2, <1>14 DEF TakenInv, LockInv, ControlTypeOK, Handles
  <2> QED BY <1>6, <1>8, <2>1, HeldStays DEF TakenInv
<1>15. DOMAIN taken' = Consumers /\ DOMAIN popped' = Consumers
  BY <1>1, <1>2 DEF TakenInv
<1> QED BY <1>5, <1>12, <1>13, <1>14, <1>15 DEF TakenInv

(* Parsing and notifying: the consumer returns some object.                *)
LEMMA ParseStep ==
  ASSUME LockInv, StreamInv, TakenInv, NEW c \in Consumers, PyParse(c) \/ PyNotify(c)
  PROVE  TakenInv'
<1> DEFINE slot == SlotToParse(c)
<1>1. UNCHANGED <<mem, published, consumed>>
  BY DEF PyParse, PyNotify, history
<1>2. HeldSlotsStay /\ Len(consumed) \in Nat /\ Len(consumed') \in Nat
  BY <1>1, SameSlotsStay
<1>3. /\ taken' = taken \/ taken' = [taken EXCEPT ![c] = NothingTaken]
      /\ \/ popped' = popped \/ popped' = [popped EXCEPT ![c] = {}]
         \/ popped' = [popped EXCEPT ![c] = {ItemIn(slot)}] /\ PyParse(c)
      /\ \E s \in {"notify", "idle"} : pc' = [pc EXCEPT ![c] = s]
  BY DEF PyParse, PyNotify, PopEnd, Goto
<1>4. PyParse(c) => ItemIn(slot) \in Item
  <2> SUFFICES ASSUME PyParse(c) PROVE ItemIn(slot) \in Item
    OBVIOUS
  <2>1. CASE taken[c].copy # {}
    <3>1. slot \in taken[c].copy
      BY <2>1 DEF SlotToParse
    <3>2. PICK s : taken[c].copy = {s} /\ ItemIn(s) \in Item
      BY <2>1 DEF TakenInv, Held
    <3> QED BY <3>1, <3>2
  <2>2. CASE taken[c].copy = {}
    <3>1. ToParse(c) /\ slot = ReadInPlace(taken[c].pos)
      BY <2>2 DEF TakenInv, PyParse, SlotToParse
    <3>2. taken[c].number \in 1 .. Len(published)
      BY <1>2, <3>1, StreamEnds DEF ToParse
    <3>3. published[taken[c].number].at \in Int
      BY <3>2, StreamEnds
    <3> QED BY <3>1, <3>3, InPlaceItem DEF StreamInv, ToParse
  <2> QED BY <2>1, <2>2
<1>5. Held(c)'
  <2>1. taken'[c] = taken[c] \/ taken'[c] = NothingTaken
    BY <1>3 DEF TakenInv
  <2>2. popped'[c] = popped[c] \/ popped'[c] = {} \/ \E x \in Item : popped'[c] = {x}
    BY <1>3, <1>4 DEF TakenInv
  <2>3. \A s : ItemIn(s)' = ItemIn(s)
    BY DEF ItemIn
  <2>4. data_begin_abs \in Cells
    BY LayoutAssumption DEF Cells, data_begin_abs, data_end_abs
  <2>5. Held(c) /\ consumed' = consumed
    BY <1>1 DEF TakenInv
  <2>6. /\ taken'[c].number \in 0 .. Len(consumed')
        /\ taken'[c].pos \in Cells
        /\ taken'[c].copy = {} \/ \E s : taken'[c].copy = {s} /\ ItemIn(s) \in Item
    BY <1>2, <2>1, <2>4, <2>5 DEF Held, NothingTaken
  <2>7. popped'[c] = {} \/ \E item \in Item : popped'[c] = {item}
    BY <2>2, <2>5 DEF Held
  <2> QED BY <2>3, <2>6, <2>7 DEF Held
<1>6. pc'[c] # "parse"
  BY <1>3 DEF LockInv, ControlTypeOK, Handles
<1>7. ASSUME NEW d \in Consumers, d # c
      PROVE  Held(d)' /\ (pc'[d] = "parse" => ToParse(d)')
  <2>1. taken'[d] = taken[d] /\ popped'[d] = popped[d] /\ pc'[d] = pc[d]
    BY <1>3, <1>7 DEF TakenInv, LockInv, ControlTypeOK, Handles
  <2> QED BY <1>2, <2>1, HeldStays DEF TakenInv
<1>8. DOMAIN taken' = Consumers /\ DOMAIN popped' = Consumers
  BY <1>3 DEF TakenInv
<1> QED BY <1>5, <1>6, <1>7, <1>8 DEF TakenInv

LEMMA MixedStreamStep ==
  ASSUME LockInv, PushInv, StreamInv, TakenInv, NotFull, [MixedNext]_mixedVars
  PROVE  StreamInv' /\ TakenInv'
<1> DEFINE Same == UNCHANGED <<write_pos, read_pos, mem, published, consumed, dropped>>
<1> DEFINE NoneTakes == \A c \in Consumers : pc'[c] = "parse" => pc[c] = "parse"
<1>1. ASSUME Same, UNCHANGED <<taken, popped>>, NoneTakes PROVE StreamInv' /\ TakenInv'
  <2>1. StreamInv'
    BY <1>1, SameStream
  <2>2. HeldSlotsStay /\ Len(consumed) \in Nat /\ Len(consumed') \in Nat
    BY <1>1, SameSlotsStay
  <2> QED BY <1>1, <2>1, <2>2, TakenFrame
<1>2. ASSUME NEW p \in Producers, PushWrite(p) \/ PyPushWrite(p),
             UNCHANGED <<taken, popped>>, NoneTakes
      PROVE  StreamInv' /\ TakenInv'
  <2>1. /\ StreamInv' /\ consumed' = consumed
        /\ HeldSlotsStay /\ Len(consumed) \in Nat
    BY <1>2, PushedSlotsStay
  <2> QED BY <1>2, <2>1, TakenFrame
<1>3. CASE Next /\ UNCHANGED <<taken, popped>>
  <2>1. NoneTakes
    BY <1>3, NextKeeps
  <2>2. ASSUME NEW c \in Consumers, PopSlot(c) PROVE StreamInv' /\ TakenInv'
    <3>1. StreamInv' /\ UNCHANGED published
      BY <2>2, PopStep
    <3>2. \E x : consumed' = Append(consumed, x)
      BY <2>2, PopStep
    <3>3. Len(consumed') = Len(consumed) + 1
      BY <3>2 DEF StreamInv
    <3>4. UNCHANGED mem
      BY <2>2 DEF PopSlot
    <3>5. HeldSlotsStay /\ Len(consumed) \in Nat /\ Len(consumed') \in Nat
      BY <3>1, <3>3, <3>4, SameSlotsStay
    <3> QED BY <1>3, <2>1, <3>1, <3>5, TakenFrame
  <2> QED BY <1>1, <1>2, <1>3, <2>1, <2>2, StreamSteps
<1>4. ASSUME NEW h \in Handles, PyWaitTimeout(h), UNCHANGED <<taken, popped>>
      PROVE  StreamInv' /\ TakenInv'
  BY <1>1, <1>4 DEF PyWaitTimeout, Goto, header, history, LockInv, ControlTypeOK
<1>5. ASSUME NEW p \in Producers, PyProducerOnly(p), UNCHANGED <<taken, popped>>
      PROVE  StreamInv' /\ TakenInv'
  <2>1. NoneTakes
    BY <1>5, RingAssumption DEF PyProducerOnly, PyPushBegin, PyCountWait,
       PyCountAgain, PyPushWrite, PyPushFail, PyPushWait, PyProducerClose,
       PushEnd, Goto, LockInv, ControlTypeOK, Handles
  <2>2. PyPushWrite(p) \/ Same
    BY <1>5 DEF PyProducerOnly, PyPushBegin, PyCountWait, PyCountAgain,
       PyPushFail, PyPushWait, PyProducerClose, header, history
  <2> QED BY <1>1, <1>2, <1>5, <2>1, <2>2
<1>6. ASSUME NEW c \in Consumers, PyConsumerOnly(c), UNCHANGED <<taken, popped>>
      PROVE  StreamInv' /\ TakenInv'
  <2>1. NoneTakes
    BY <1>6 DEF PyConsumerOnly, PyConsumerAttach, PyPopWait, PyConsumerClose,
       Goto, LockInv, ControlTypeOK, Handles
  <2>2. Same
    BY <1>6 DEF PyConsumerOnly, PyConsumerAttach, PyPopWait, PyConsumerClose,
       header, history
  <2> QED BY <1>1, <1>6, <2>1, <2>2
<1>7. ASSUME NEW c \in Consumers, PyParse(c) \/ PyNotify(c) PROVE StreamInv' /\ TakenInv'
  <2>1. Same
    BY <1>7 DEF PyParse, PyNotify, header, history
  <2> QED BY <1>7, <2>1, SameStream, ParseStep
<1>8. CASE UNCHANGED mixedVars
  BY <1>1, <1>8 DEF mixedVars, vars, header, handle, history
<1> QED
  BY <1>3, <1>4, <1>5, <1>6, <1>7, <1>8, TakeStep, MixedNextCases

(* The hypothesis []NotFull is about the behaviour, not the constants.     *)
MixedInv == RingInv /\ TakenInv

LEMMA MixedInvInit == MixedInit => MixedInv
BY LockInvInit, CountInvInit, PushInvInit, StreamInvInit, TakenInvInit
   DEF MixedInit, MixedInv, RingInv

LEMMA MixedInvStep == MixedInv /\ NotFull /\ [MixedNext]_mixedVars => MixedInv'
BY MixedLockInvStep, MixedCountInvStep, MixedPushInvStep, MixedStreamStep
   DEF MixedInv, RingInv

LEMMA MixedInvHolds == MixedSpec /\ []NotFull => [](MixedInv /\ NotFull)
BY MixedInvInit, MixedInvStep, PTL DEF MixedSpec

(* Every variable of both languages keeps its type: a Python consumer that *)
(* parses in place gets an object of some kind even from a slot that was   *)
(* overwritten under it.                                                   *)
THEOREM MixedTypesHold == MixedSpec /\ []NotFull => []MixedTypeOK
<1>1. MixedInv => MixedTypeOK
  <2> SUFFICES ASSUME MixedInv PROVE MixedTypeOK
    OBVIOUS
  <2>1. Written \in Int /\ Drained \in Int
    BY StreamEnds DEF MixedInv, RingInv
  <2>2. write_pos \in Cells /\ read_pos \in Cells
    BY <2>1, OffsetInCell DEF MixedInv, RingInv, StreamInv
  <2>3. TypeOK
    BY <2>2 DEF MixedInv, RingInv, LockInv, StreamInv, TypeOK, DataTypeOK
  <2>4. Cardinality({}) = 0 /\ \A x : Cardinality({x}) = 1
    BY FS_EmptySet, FS_Singleton
  <2>5. ASSUME NEW c \in Consumers
        PROVE  /\ taken[c].number \in 0 .. Len(consumed)
               /\ taken[c].pos \in Cells
               /\ Cardinality(taken[c].copy) <= 1
               /\ popped[c] \subseteq Item
               /\ Cardinality(popped[c]) <= 1
    <3>1. Held(c)
      BY DEF MixedInv, RingInv, TakenInv
    <3>2. Cardinality(taken[c].copy) \in {0, 1}
      <4>1. CASE taken[c].copy = {}
        BY <2>4, <4>1
      <4>2. CASE taken[c].copy # {}
        <5>1. PICK slot : taken[c].copy = {slot}
          BY <3>1, <4>2 DEF Held
        <5> QED BY <2>4, <5>1
      <4> QED BY <4>1, <4>2
    <3>3. popped[c] \subseteq Item /\ Cardinality(popped[c]) \in {0, 1}
      <4>1. CASE popped[c] = {}
        BY <2>4, <4>1
      <4>2. CASE popped[c] # {}
        <5>1. PICK item \in Item : popped[c] = {item}
          BY <3>1, <4>2 DEF Held
        <5> QED BY <2>4, <5>1
      <4> QED BY <4>1, <4>2
    <3>4. 0 <= 1 /\ 1 <= 1
      OBVIOUS
    <3> QED BY <3>1, <3>2, <3>3, <3>4 DEF Held
  <2> QED BY <2>3, <2>5 DEF MixedTypeOK
<1> QED
  BY <1>1, MixedInvHolds, PTL

(* Between handles of both languages, too, what is read is what was        *)
(* written, in order and once each,                                        *)
THEOREM MixedFifoHolds == MixedSpec /\ []NotFull => []FifoIntact
<1>1. MixedInv => FifoIntact
  BY DEF MixedInv, RingInv, StreamInv
<1> QED
  BY <1>1, MixedInvHolds, PTL

(* and no push overwrites a slot that is still to be read.                 *)
THEOREM MixedBacklogHolds == MixedSpec /\ []NotFull => []BacklogIntact
<1>1. MixedInv /\ NotFull => BacklogIntact
  BY BacklogReadable DEF MixedInv, RingInv
<1> QED
  BY <1>1, MixedInvHolds, PTL

(* A pop() without copy parses the slot it took, unless the producers have *)
(* written a region's length from where that slot starts.                  *)
THEOREM UncopiedSurvive == MixedSpec /\ []NotFull => []UncopiedIntact
<1>1. MixedInv => UncopiedIntact
  <2> SUFFICES ASSUME MixedInv, NEW c \in Consumers, pc[c] = "parse",
                      Written - published[taken[c].number].at <= total_data_bytes
               PROVE  LET slot == ReadInPlace(taken[c].pos)
                      IN  IsValid(slot) /\ ItemIn(slot) = consumed[taken[c].number]
    BY DEF UncopiedIntact
  <2> DEFINE k == taken[c].number
  <2> DEFINE m == published[k].msg
  <2> DEFINE slot == ReadSlot(mem, CellAt(published[k].at))
  <2>1. ToParse(c) /\ StreamInv /\ mem \in [Cells -> Nat]
    BY DEF MixedInv, RingInv, TakenInv, StreamInv
  <2>2. /\ k \in 1 .. Len(consumed) /\ taken[c].pos = CellAt(published[k].at)
        /\ InRing(mem, published[k])
    BY <2>1 DEF ToParse
  <2>3. k \in 1 .. Len(published)
    BY <2>1, <2>2, StreamEnds
  <2>4. /\ m \in Msg /\ published[k].at \in Nat /\ Written \in Nat
        /\ published[k].at + Size(m) <= Written
    BY <2>1, <2>3, StreamEnds
  <2>5. Size(m) \in Nat /\ Size(m) <= total_data_bytes
    <3>1. Size(m) \in Nat
      BY <2>4, SizeNat
    <3> QED BY <2>4, <3>1, LayoutAssumption
  <2>6. IsValid(slot) /\ ReadsAs(slot, slot.next, Metadata[m], Payload[m])
    BY <2>1, <2>2, <2>3, <2>5, SlotReadable
  <2>7. consumed[k] = ItemOf(m)
    BY <2>1, <2>2 DEF StreamInv, FifoIntact
  <2>8. /\ Metadata[m] \in Seq(Nat) /\ Payload[m] \in Seq(Nat)
        /\ slot_size(Metadata[m], Payload[m]) <= total_data_bytes
    BY <2>4, <2>5, RingAssumption DEF Size
  <2> DEFINE inPlace == ReadInPlace(CellAt(published[k].at))
  <2>9. IsValid(inPlace) /\ ItemIn(inPlace) = [metadata |-> Metadata[m], payload |-> Payload[m]]
    <3>1. published[k].at \in Int
      BY <2>4
    <3> HIDE DEF m
    <3> QED BY <2>1, <2>6, <2>8, <3>1, InPlaceIsSlot
  <2> QED BY <2>2, <2>7, <2>9 DEF ItemOf
<1> QED
  BY <1>1, MixedInvHolds, PTL

(* The positions account for every byte, whichever language moved them.    *)
THEOREM MixedSpaceHolds == MixedSpec /\ []NotFull => []SpaceAccounting
<1>1. MixedInv /\ NotFull => SpaceAccounting
  BY FreeSpace DEF MixedInv, RingInv
<1> QED
  BY <1>1, MixedInvHolds, PTL

-----------------------------------------------------------------------------
(***************************************************************************)
(* The ring of both languages implements the bounded queue.                *)
(***************************************************************************)
LEMMA PyQueuePut ==
  ASSUME RingInv, NotFull', StreamInv', NEW p \in Producers, PyPushWrite(p)
  PROVE  Queue!QNext
BY QueuePut DEF PyPushWrite

(* What a Python pop does to the stream.                                   *)
LEMMA PyTakeStep ==
  ASSUME StreamInv, NotFull, NEW c \in Consumers, PyPopTake(c),
         NEW k, k = Len(consumed) + 1
  PROVE  /\ k \in 1 .. Len(published)
         /\ consumed' = Append(consumed, ItemOf(published[k].msg))
         /\ Used' = Used - Size(published[k].msg)
         /\ UNCHANGED published
<1> DEFINE slot == ReadSlot(mem, read_pos)
<1> DEFINE item == [metadata |-> slot.metadata, payload |-> slot.payload]
<1>1. /\ write_pos # read_pos
      /\ read_pos' = slot.next /\ consumed' = Append(consumed, item)
      /\ UNCHANGED <<write_pos, mem, published, dropped>>
  BY DEF PyPopTake, ItemIn
<1>2. /\ k \in 1 .. Len(published)
      /\ item = ItemOf(published[k].msg)
      /\ slot.next = CellAt(End(published[k]))
  BY <1>1, PopReadsNext
<1> HIDE DEF slot, item
<1>3. Used' = Used - Size(published[k].msg)
  BY <1>1, <1>2, PopKeepsStream
<1> QED BY <1>1, <1>2, <1>3

(* pop() of Python gets its message when it moves read_pos: what it parses *)
(* after the lock is a message the queue has already handed over.          *)
LEMMA PyQueueGet ==
  ASSUME RingInv, NotFull, StreamInv', NEW c \in Consumers, PyPopTake(c)
  PROVE  Queue!QNext
<1> DEFINE k == Len(consumed) + 1
<1>1. StreamInv
  BY DEF RingInv
<1>2. /\ k \in 1 .. Len(published)
      /\ consumed' = Append(consumed, ItemOf(published[k].msg))
      /\ Used' = Used - Size(published[k].msg)
      /\ UNCHANGED published
  BY <1>1, PyTakeStep
<1>3. pc[c] = "pop_cs" /\ UNCHANGED <<registered, eos_received>>
  BY DEF PyPopTake
<1>4. k = Len(consumed) + 1
  OBVIOUS
<1> HIDE DEF k
<1> QED BY <1>2, <1>3, <1>4, QueueGet

LEMMA MixedQueueStep ==
  ASSUME MixedInv, NotFull, NotFull', [MixedNext]_mixedVars
  PROVE  Queue!QNext \/ UNCHANGED Queue!qvars
<1> DEFINE Same == UNCHANGED <<published, consumed, registered, eos_received>>
<1> DEFINE Goal == Queue!QNext \/ UNCHANGED Queue!qvars
<1>1. RingInv /\ LockInv /\ PushInv /\ StreamInv /\ TakenInv
  BY DEF MixedInv, RingInv
<1>2. StreamInv'
  BY <1>1, MixedStreamStep
<1>3. Producers \subseteq Handles /\ Consumers \subseteq Handles
  BY DEF Handles
<1>4. Same => Goal
  BY QueueStutter
<1> HIDE DEF Goal
<1>5. CASE Next
  BY <1>1, <1>5, QueueStep DEF Goal
<1>6. ASSUME NEW h \in Handles, PyWaitTimeout(h) PROVE Goal
  BY <1>4, <1>6 DEF PyWaitTimeout, history
<1>7. ASSUME NEW p \in Producers, PyProducerOnly(p) PROVE Goal
  <2>1. ASSUME NEW m \in Msg, NEW t \in Timeouts, PyPushBegin(p, m, t) PROVE Goal
    BY <1>4, <2>1 DEF PyPushBegin
  <2>2. CASE PyCountWait(p) \/ PyCountAgain(p) \/ PyPushWait(p)
    BY <1>4, <2>2 DEF PyCountWait, PyCountAgain, PyPushWait, history
  <2>3. CASE PyPushFail(p)
    BY <1>4, <2>3 DEF PyPushFail
  <2>4. CASE PyPushWrite(p)
    BY <1>1, <1>2, <2>4, PyQueuePut DEF Goal
  <2>5. CASE PyProducerClose(p)
    <3>1. p \in registered
      BY <1>1, <1>3, <2>5, AttachedHandle DEF PyProducerClose
    <3> QED BY <1>1, <1>3, <2>5, <3>1, QueueMember DEF PyProducerClose, history, Goal
  <2> QED BY <1>7, <2>1, <2>2, <2>3, <2>4, <2>5 DEF PyProducerOnly
<1>8. ASSUME NEW c \in Consumers, PyConsumerOnly(c) PROVE Goal
  <2>1. CASE PyPopWait(c)
    BY <1>4, <2>1 DEF PyPopWait, history
  <2>2. CASE PyConsumerAttach(c)
    <3>1. c \notin registered
      BY <1>1, <1>3, <2>2
         DEF PyConsumerAttach, RingInv, CountInv, RegisteredByState, Unregistered
    <3> QED BY <1>1, <1>3, <2>2, <3>1, QueueMember DEF PyConsumerAttach, history, Goal
  <2>3. CASE PyConsumerClose(c)
    <3>1. c \in registered
      BY <1>1, <1>3, <2>3, AttachedHandle DEF PyConsumerClose
    <3> QED BY <1>1, <1>3, <2>3, <3>1, QueueMember DEF PyConsumerClose, history, Goal
  <2> QED BY <1>8, <2>1, <2>2, <2>3 DEF PyConsumerOnly
<1>9. ASSUME NEW c \in Consumers, PyPopTake(c) PROVE Goal
  BY <1>1, <1>2, <1>9, PyQueueGet DEF Goal
<1>10. ASSUME NEW c \in Consumers, PyParse(c) \/ PyNotify(c) PROVE Goal
  BY <1>4, <1>10 DEF PyParse, PyNotify, history
<1>11. CASE UNCHANGED mixedVars
  <2>1. Same
    BY <1>11 DEF mixedVars, vars, handle, history
  <2> QED BY <1>4, <2>1 DEF Goal
<1> QED
  BY <1>5, <1>6, <1>7, <1>8, <1>9, <1>10, <1>11, MixedNextCases DEF Goal

(* Whichever languages push and pop, what comes out of the segment is what *)
(* RingQueue allows, as long as the ring is not filled to its last byte.   *)
THEOREM MixedRingIsQueue == MixedSpec /\ []NotFull => ImplementsQueue
<1>1. MixedInit => Queue!QInit
  BY QueueInit DEF MixedInit
<1>2. MixedInv /\ NotFull /\ NotFull' /\ [MixedNext]_mixedVars
        => [Queue!QNext]_(Queue!qvars)
  BY MixedQueueStep
<1>3. MixedSpec /\ []NotFull => Queue!QInit /\ [][Queue!QNext]_(Queue!qvars)
  BY <1>1, <1>2, MixedInvHolds, PTL DEF MixedSpec
<1> QED
  BY <1>3 DEF ImplementsQueue, Queue!QSpec

(* End of stream comes from PopEos only, in both languages.                *)
LEMMA MixedEndSeen ==
  ASSUME [MixedNext]_mixedVars, eos_received' # eos_received
  PROVE  Next
<1>1. ASSUME NEW p \in Producers, PyProducerOnly(p) PROVE UNCHANGED eos_received
  BY <1>1 DEF PyProducerOnly, PyPushBegin, PyCountWait, PyCountAgain, PyPushWrite,
     PyPushFail, PyPushWait, PyProducerClose
<1>2. ASSUME NEW c \in Consumers, PyConsumerOnly(c) PROVE UNCHANGED eos_received
  BY <1>2 DEF PyConsumerOnly, PyConsumerAttach, PyPopWait, PyConsumerClose
<1>3. ASSUME NEW c \in Consumers, PyPopTake(c) \/ PyParse(c) \/ PyNotify(c)
      PROVE  UNCHANGED eos_received
  BY <1>3 DEF PyPopTake, PyParse, PyNotify
<1>4. ASSUME NEW h \in Handles, PyWaitTimeout(h) PROVE UNCHANGED eos_received
  BY <1>4 DEF PyWaitTimeout
<1>5. CASE UNCHANGED mixedVars
  BY <1>5 DEF mixedVars, vars, handle
<1> QED
  BY <1>1, <1>2, <1>3, <1>4, <1>5, MixedNextCases

(* A consumer of one language is not told the end of the stream while a    *)
(* producer of the other is registered or a slot of its is unread.         *)
THEOREM MixedEosHolds == MixedSpec /\ []NotFull => EosOnlyWhenDrained
<1>1. MixedInv /\ NotFull /\ [MixedNext]_mixedVars => [EosStep]_vars
  <2>1. CASE eos_received' = eos_received
    BY <2>1 DEF EosStep
  <2>2. CASE eos_received' # eos_received
    BY <2>2, MixedEndSeen, EosStepHolds DEF MixedInv
  <2> QED BY <2>1, <2>2
<1>2. [][EosStep]_vars => EosOnlyWhenDrained
  BY PTL DEF EosStep, EosOnlyWhenDrained
<1> QED
  BY <1>1, <1>2, MixedInvHolds, PTL DEF MixedSpec

-----------------------------------------------------------------------------
(***************************************************************************)
(* What push_raw of either language tells its caller.  Nothing here asks   *)
(* that the ring is not filled.                                            *)
(***************************************************************************)
LEMMA MixedReportStep ==
  LockInv /\ PushInv /\ ReportInv /\ [MixedNext]_mixedVars =>
    ReportInv' /\ (FailedNotInStream /\ CanNotify => FailedNotInStream')
<1> USE ControlStates
<1> DEFINE Goal == ReportInv' /\ (FailedNotInStream /\ CanNotify => FailedNotInStream')
<1> SUFFICES ASSUME LockInv, PushInv, ReportInv, [MixedNext]_mixedVars PROVE Goal
  OBVIOUS
<1>1. Producers \subseteq Handles /\ Consumers \subseteq Handles
  BY DEF Handles
<1>2. CASE Next \/ UNCHANGED vars
  BY <1>2, ReportInvStep
<1>3. ReportInv' /\ (FailedNotInStream => FailedNotInStream') => Goal
  OBVIOUS
<1> HIDE DEF Goal
<1>4. ASSUME NEW h \in Handles, PyWaitTimeout(h) PROVE Goal
  BY <1>3, <1>4, SameReports DEF PyWaitTimeout, Pushing, history
<1>5. ASSUME NEW p \in Producers, NEW m \in Msg, NEW t \in Timeouts, PyPushBegin(p, m, t)
      PROVE Goal
  BY <1>3, <1>5, PushStarted DEF PyPushBegin
<1>6. ASSUME NEW p \in Producers, PyCountWait(p) \/ PyCountAgain(p) PROVE Goal
  BY <1>1, <1>3, <1>6, SameReports DEF PyCountWait, PyCountAgain, Pushing, history
<1>7. ASSUME NEW p \in Producers, PyPushWrite(p) PROVE Goal
  <2>1. /\ pc[p] \in Pushing /\ PushEnd(p, "ok")
        /\ published' = Append(published, [msg |-> msg[p], at |-> Written])
    BY <1>7 DEF PyPushWrite, Pushing
  <2> QED BY <1>3, <2>1, SlotReported
<1>8. ASSUME NEW p \in Producers, PyPushFail(p) PROVE Goal
  BY <1>3, <1>8, FailureReported DEF PyPushFail, Pushing
<1>9. ASSUME NEW p \in Producers, PyPushWait(p) \/ PyProducerClose(p) PROVE Goal
  BY <1>1, <1>3, <1>9, SameReports DEF PyPushWait, PyProducerClose, Pushing, history
<1>10. ASSUME NEW c \in Consumers, PyConsumerOnly(c) PROVE Goal
  BY <1>3, <1>10, ConsumerSameReports
     DEF PyConsumerOnly, PyConsumerAttach, PyPopWait, PyConsumerClose, history
<1>11. ASSUME NEW c \in Consumers, PyPopTake(c) PROVE Goal
  BY <1>3, <1>11, ConsumerSameReports DEF PyPopTake
<1>12. ASSUME NEW c \in Consumers, PyParse(c) \/ PyNotify(c) PROVE Goal
  <2>1. PICK s \in {"notify", "idle"} : Goto(c, s)
    BY <1>12 DEF PyParse, PyNotify, PopEnd
  <2>2. UNCHANGED <<msg, outcome, published>>
    BY <1>12 DEF PyParse, PyNotify, history
  <2> QED BY <1>3, <2>1, <2>2, ConsumerSameReports
<1>13. CASE MixedNext
  BY <1>2, <1>4, <1>5, <1>6, <1>7, <1>8, <1>9, <1>10, <1>11, <1>12, <1>13,
     MixedNextCases DEF PyProducerOnly
<1> QED
  BY <1>2, <1>13 DEF mixedVars

(* Between both languages, too, no message is published twice, and one     *)
(* whose push reported success is in the stream.                           *)
THEOREM MixedSuccessReported == MixedSpec => []SuccessTruthful
<1>1. MixedInit => LockInv /\ PushInv /\ ReportInv
  BY LockInvInit, PushInvInit, ReportInvInit DEF MixedInit
<1>2. LockInv /\ PushInv /\ ReportInv /\ [MixedNext]_mixedVars
        => (LockInv /\ PushInv /\ ReportInv)'
  BY MixedLockInvStep, MixedPushInvStep, MixedReportStep
<1>3. ReportInv => SuccessTruthful
  BY DEF ReportInv, OnceInStream, SuccessTruthful, InStream
<1> QED
  BY <1>1, <1>2, <1>3, PTL DEF MixedSpec

(* notify_all of Python does not throw: only that of a C++ push can make a *)
(* report untrue.                                                          *)
THEOREM MixedReportsTruthful == MixedSpec /\ []CanNotify => []PushReportTruthful
<1> DEFINE Inv == LockInv /\ PushInv /\ ReportInv /\ FailedNotInStream
<1>1. MixedInit => Inv
  BY LockInvInit, PushInvInit, ReportInvInit DEF MixedInit
<1>2. Inv /\ CanNotify /\ [MixedNext]_mixedVars => Inv'
  BY MixedLockInvStep, MixedPushInvStep, MixedReportStep
<1>3. Inv => PushReportTruthful
  BY ReportsCounted
<1> QED
  BY <1>1, <1>2, <1>3, PTL DEF MixedSpec

-----------------------------------------------------------------------------
(***************************************************************************)
(* The rings that cannot be filled, with both languages pushing.           *)
(***************************************************************************)
LEMMA MixedUnfilledStep ==
  ASSUME NEW g \in Nat, Indivisible(g), MixedInv, NotFull, Aligned(g),
         [MixedNext]_mixedVars
  PROVE  Aligned(g)' /\ NotFull'
<1>1. LockInv /\ PushInv /\ StreamInv /\ TakenInv
  BY DEF MixedInv, RingInv
<1>2. StreamInv'
  BY <1>1, MixedStreamStep
<1>3. Used \in Nat /\ Len(consumed) \in Nat
  BY <1>1, StreamEnds
<1>4. ASSUME UNCHANGED <<published, consumed>> PROVE Aligned(g)' /\ NotFull'
  BY <1>1, <1>2, <1>3, <1>4, QueueFrame, StaysUnfilled DEF FitsOrReads
<1>5. CASE Next
  BY <1>1, <1>5, UnfilledStep
<1>6. ASSUME NEW h \in Handles, PyWaitTimeout(h) PROVE Aligned(g)' /\ NotFull'
  BY <1>4, <1>6 DEF PyWaitTimeout, history
<1>7. ASSUME NEW p \in Producers, PyProducerOnly(p) PROVE Aligned(g)' /\ NotFull'
  <2>1. CASE PyPushWrite(p)
    <3>1. /\ msg[p] \in Msg /\ HasRoom(msg[p])
          /\ published' = Append(published, [msg |-> msg[p], at |-> Written])
          /\ UNCHANGED consumed
      BY <1>1, <2>1 DEF PyPushWrite, PushInv, Pushing
    <3> QED BY <1>1, <1>2, <3>1, StaysUnfilled DEF FitsOrReads
  <2>2. CASE ~PyPushWrite(p)
    BY <1>4, <1>7, <2>2 DEF PyProducerOnly, PyPushBegin, PyCountWait, PyCountAgain,
       PyPushFail, PyPushWait, PyProducerClose, history
  <2> QED BY <2>1, <2>2
<1>8. ASSUME NEW c \in Consumers, PyConsumerOnly(c) PROVE Aligned(g)' /\ NotFull'
  BY <1>4, <1>8 DEF PyConsumerOnly, PyConsumerAttach, PyPopWait, PyConsumerClose, history
<1>9. ASSUME NEW c \in Consumers, PyPopTake(c) PROVE Aligned(g)' /\ NotFull'
  <2> DEFINE k == Len(consumed) + 1
  <2>1. /\ k \in 1 .. Len(published) /\ Used' = Used - Size(published[k].msg)
        /\ UNCHANGED published
    BY <1>1, <1>9, PyTakeStep
  <2>2. Size(published[k].msg) \in Nat
    BY <1>1, <2>1, StreamEnds, SizeNat
  <2> HIDE DEF k
  <2>3. Used' <= Used
    BY <1>3, <2>1, <2>2
  <2> QED BY <1>1, <1>2, <2>1, <2>3, StaysUnfilled DEF FitsOrReads
<1>10. ASSUME NEW c \in Consumers, PyParse(c) \/ PyNotify(c) PROVE Aligned(g)' /\ NotFull'
  BY <1>4, <1>10 DEF PyParse, PyNotify, history
<1>11. CASE UNCHANGED mixedVars
  BY <1>4, <1>11 DEF mixedVars, vars, history
<1> QED
  BY <1>5, <1>6, <1>7, <1>8, <1>9, <1>10, <1>11, MixedNextCases

(* Python handles do not change which rings can be filled: where no slot   *)
(* takes the last byte, the theorems above hold without their hypothesis.  *)
THEOREM MixedNeverFilled ==
  ASSUME NEW g \in Nat, Indivisible(g)
  PROVE  MixedSpec => []NotFull
<1> DEFINE Inv == MixedInv /\ NotFull /\ Aligned(g)
<1>1. MixedInit => Inv
  BY MixedInvInit, UnfilledInit DEF MixedInit
<1>2. Inv /\ [MixedNext]_mixedVars => Inv'
  BY MixedInvStep, MixedUnfilledStep
<1>3. Inv => NotFull
  OBVIOUS
<1> QED
  BY <1>1, <1>2, <1>3, PTL DEF MixedSpec

(* On such a ring what either language's push_raw and pop promise holds    *)
(* without a condition on the behaviour.                                   *)
THEOREM MixedUnfilledRing ==
  ASSUME NEW g \in Nat, Indivisible(g)
  PROVE  MixedSpec => /\ [](MixedTypeOK /\ FifoIntact /\ BacklogIntact)
                      /\ [](UncopiedIntact /\ SpaceAccounting)
                      /\ EosOnlyWhenDrained /\ ImplementsQueue
BY MixedNeverFilled, MixedTypesHold, MixedFifoHolds, MixedBacklogHolds,
   UncopiedSurvive, MixedSpaceHolds, MixedEosHolds, MixedRingIsQueue, PTL
=============================================================================
