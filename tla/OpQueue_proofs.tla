--------------------------- MODULE OpQueue_proofs ---------------------------
(***************************************************************************)
(* Proofs about OpQueue, for every set of operations.                      *)
(***************************************************************************)
EXTENDS OpQueue, FiniteSetTheorems, SequenceTheorems, TLAPS

(* Appending to the second of two sequences appends to both.               *)
LEMMA AppendOfConcat ==
  ASSUME NEW S, NEW s \in Seq(S), NEW t \in Seq(S), NEW e \in S,
         NEW u \in Seq(S), u = s \o t
  PROVE  Append(u, e) = s \o Append(t, e)
<1>1. <<e>> \in Seq(S) /\ s \o t \in Seq(S)
  BY ConcatProperties
<1>2. Append(s \o t, e) = (s \o t) \o <<e>> /\ Append(t, e) = t \o <<e>>
  BY <1>1, AppendIsConcat
<1>3. QED
  BY <1>1, <1>2, ConcatAssociative

(* The fields of the queue keep their types.                               *)
THEOREM OpQueueTypeOK == Spec => []TypeOK
<1>1. Init => TypeOK
  BY DEF Init, TypeOK
<1>2. TypeOK /\ [Next]_vars => TypeOK'
  <2> SUFFICES ASSUME TypeOK, [Next]_vars PROVE TypeOK'
    OBVIOUS
  <2> USE DEF TypeOK
  <2>1. ASSUME NEW op \in Ops, QueueOperation(op) PROVE TypeOK'
    BY <2>1 DEF QueueOperation
  <2>2. CASE ProcessQueueAsync
    <3>1. CASE opQueue = <<>>
      BY <2>2, <3>1 DEF ProcessQueueAsync
    <3>2. CASE opQueue # <<>>
      <4>1. /\ Tail(opQueue) \in Seq(Ops)
            /\ Append(dispatched, Head(opQueue)) \in Seq(Ops)
        BY <3>2, HeadTailProperties, AppendProperties
      <4>2. /\ opQueue' \in Seq(Ops)
            /\ dispatched' \in Seq(Ops)
        BY <2>2, <3>2, <4>1, Zenon DEF ProcessQueueAsync
      <4>3. QED
        BY <2>2, <4>2 DEF ProcessQueueAsync
    <3>3. QED
      BY <3>1, <3>2
  <2>3. CASE UNCHANGED vars
    BY <2>3 DEF vars
  <2>4. QED
    BY <2>1, <2>2, <2>3 DEF Next
<1>3. QED
  BY <1>1, <1>2, PTL DEF Spec

(* What was dispatched followed by what waits is what was queued, in that  *)
(* order: QueueOperation appends to both, ProcessQueueAsync moves the      *)
(* front of the queue.                                                     *)
THEOREM DispatchedInOrder == Spec => []FifoExactlyOnce
<1>1. Init => FifoExactlyOnce
  BY DEF Init, FifoExactlyOnce
<1>2. TypeOK /\ FifoExactlyOnce /\ [Next]_vars => FifoExactlyOnce'
  <2> SUFFICES ASSUME TypeOK, FifoExactlyOnce, [Next]_vars
               PROVE  FifoExactlyOnce'
    OBVIOUS
  <2>1. ASSUME NEW op \in Ops, QueueOperation(op) PROVE FifoExactlyOnce'
    <3>1. Append(queued, op) = dispatched \o Append(opQueue, op)
      BY AppendOfConcat, ZenonT(60) DEF TypeOK, FifoExactlyOnce
    <3>2. QED
      BY <2>1, <3>1, Zenon DEF QueueOperation, FifoExactlyOnce
  <2>2. CASE ProcessQueueAsync
    <3>1. CASE opQueue = <<>>
      BY <2>2, <3>1 DEF ProcessQueueAsync, FifoExactlyOnce
    <3>2. CASE opQueue # <<>>
      <4>1. dispatched \o opQueue
              = Append(dispatched, Head(opQueue)) \o Tail(opQueue)
        BY <3>2 DEF TypeOK
      <4>2. QED
        BY <2>2, <3>2, <4>1 DEF ProcessQueueAsync, FifoExactlyOnce
    <3>3. QED
      BY <3>1, <3>2
  <2>3. CASE UNCHANGED vars
    BY <2>3 DEF vars, FifoExactlyOnce
  <2>4. QED
    BY <2>1, <2>2, <2>3 DEF Next
<1>3. QED
  BY <1>1, <1>2, OpQueueTypeOK, PTL DEF Spec

(* No operation waits without a work item unless a caller was refused.     *)
(* Inductive with the finiteness of the set of refused operations.         *)
THEOREM OperationsHaveItems == Spec => []OnlyRefusalsStrand
<1> DEFINE Ind == IsFiniteSet(refused) /\ OnlyRefusalsStrand
           FreshInv == \A op \in refused : op \notin Fresh
<1>1. Init => Ind /\ FreshInv
  BY FS_EmptySet DEF Init, OnlyRefusalsStrand
<1>2. TypeOK /\ Ind /\ FreshInv /\ [Next]_vars => Ind' /\ FreshInv'
  <2> SUFFICES ASSUME TypeOK, Ind, FreshInv, [Next]_vars
               PROVE  Ind' /\ FreshInv'
    OBVIOUS
  <2>0. Cardinality(refused) \in Nat
    BY FS_CardinalityType
  <2>1. ASSUME NEW op \in Ops, QueueOperation(op) PROVE Ind' /\ FreshInv'
    <3>1. op \notin refused /\ Len(opQueue') = Len(opQueue) + 1
      BY <2>1 DEF QueueOperation, TypeOK
    <3>2. \A x \in refused \cup {op} : x \notin Fresh'
      <4>1. /\ queued' = Append(queued, op)
            /\ DOMAIN queued = 1 .. Len(queued)
            /\ DOMAIN queued' = 1 .. Len(queued) + 1
        BY <2>1, AppendProperties DEF QueueOperation, TypeOK
      <4>2. queued'[Len(queued) + 1] = op /\ Len(queued) + 1 \in DOMAIN queued'
        BY <4>1, AppendProperties DEF TypeOK
      <4>3. ASSUME NEW x \in refused PROVE x \notin Fresh'
        <5>1. PICK i \in DOMAIN queued : queued[i] = x
          BY DEF Fresh, TypeOK
        <5>2. i \in DOMAIN queued' /\ queued'[i] = x
          BY <4>1, <5>1, AppendProperties DEF TypeOK
        <5>3. QED
          BY <5>2 DEF Fresh
      <4>4. QED
        BY <4>2, <4>3 DEF Fresh
    <3>3. CASE workItems' = workItems + 1 /\ refused' = refused
      BY <2>0, <3>1, <3>2, <3>3 DEF OnlyRefusalsStrand, TypeOK
    <3>4. CASE refused' = refused \cup {op} /\ workItems' = workItems
      <4>1. IsFiniteSet(refused') /\ Cardinality(refused') = Cardinality(refused) + 1
        BY <3>1, <3>4, FS_AddElement
      <4>2. QED
        BY <2>0, <3>1, <3>2, <3>4, <4>1 DEF OnlyRefusalsStrand, TypeOK
    <3>5. QED
      BY <2>1, <3>3, <3>4 DEF QueueOperation
  <2>2. CASE ProcessQueueAsync
    <3>1. CASE opQueue = <<>>
      BY <2>0, <2>2, <3>1 DEF ProcessQueueAsync, OnlyRefusalsStrand, TypeOK, Fresh
    <3>2. CASE opQueue # <<>>
      <4>1. Len(Tail(opQueue)) = Len(opQueue) - 1
        BY <3>2 DEF TypeOK
      <4>2. QED
        BY <2>0, <2>2, <3>2, <4>1 DEF ProcessQueueAsync, OnlyRefusalsStrand, TypeOK, Fresh
    <3>3. QED
      BY <3>1, <3>2
  <2>3. CASE UNCHANGED vars
    BY <2>3 DEF vars, OnlyRefusalsStrand, Fresh
  <2>4. QED
    BY <2>1, <2>2, <2>3 DEF Next
<1>3. QED
  BY <1>1, <1>2, OpQueueTypeOK, PTL DEF Spec

(* Every behaviour of the queue is one of the abstract FIFO dispatcher: a  *)
(* QueueOperation submits, whether it is refused or not, and a work item   *)
(* performs the oldest operation or, on an empty queue, does nothing.      *)
THEOREM OpQueueRefinesFifo == Spec => Fifo!Spec
<1>1. Init => Fifo!Init
  BY DEF Init, Fifo!Init
<1>2. [Next]_vars => [Fifo!Next]_(Fifo!vars)
  <2> SUFFICES ASSUME [Next]_vars PROVE [Fifo!Next]_(Fifo!vars)
    OBVIOUS
  <2>1. ASSUME NEW op \in Ops, QueueOperation(op) PROVE Fifo!Next
    BY <2>1 DEF QueueOperation, Fifo!Next, Fifo!Submit
  <2>2. CASE ProcessQueueAsync
    BY <2>2 DEF ProcessQueueAsync, Fifo!Next, Fifo!Perform, Fifo!vars
  <2>3. CASE UNCHANGED vars
    BY <2>3 DEF vars, Fifo!vars
  <2>4. QED
    BY <2>1, <2>2, <2>3 DEF Next
<1>3. QED
  BY <1>1, <1>2, PTL DEF Spec, Fifo!Spec
=============================================================================
