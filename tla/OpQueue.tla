------------------------------ MODULE OpQueue -------------------------------
(***************************************************************************)
(* The operation queue of the media source (OpQueue.h, used by             *)
(* CMediaSource).  QueueOperation and ProcessQueueAsync hold m_critsec     *)
(* from their first to their last statement, so each is one action.  A     *)
(* queued operation is not performed by its caller: ProcessQueue puts a    *)
(* work item on the standard work queue, which runs items on several       *)
(* threads and in any order; the items carry no state, so their number     *)
(* says all about them.                                                    *)
(*                                                                         *)
(* CMediaSource never calls ProcessQueue at the end of an operation, as    *)
(* the header asks a derived class to do: what keeps the queue moving is   *)
(* that there is one work item for each queued operation.                  *)
(***************************************************************************)
EXTENDS Naturals, Sequences, FiniteSets

CONSTANT Ops            \* the operation objects that callers may queue

VARIABLES opQueue,      \* m_OpQueue, front first
          workItems,    \* work items put and not yet run
          dispatched,   \* operations passed to DispatchOperation, in order
          queued,       \* operations inserted by QueueOperation, in order
          refused       \* operations whose QueueOperation returned an error

vars == <<opQueue, workItems, dispatched, queued, refused>>

(* The operations no caller has created yet: each call makes its own.      *)
Fresh == {op \in Ops : \A i \in DOMAIN queued : queued[i] # op}

Init ==
    /\ opQueue = <<>>
    /\ workItems = 0
    /\ dispatched = <<>>
    /\ queued = <<>>
    /\ refused = {}

(* Variant: a work item is put only when the queue was empty, as if the    *)
(* operations called ProcessQueue themselves.                              *)
QueueOperationFirstOnly(op) ==
    /\ op \in Fresh
    /\ opQueue' = Append(opQueue, op)
    /\ queued' = Append(queued, op)
    /\ workItems' = IF opQueue = <<>> THEN workItems + 1 ELSE workItems
    /\ UNCHANGED <<dispatched, refused>>

(* InsertBack, then ProcessQueue: the queue cannot be empty there, so a    *)
(* work item is put.  When that fails the error goes to the caller, and    *)
(* the operation stays in the queue.                                       *)
QueueOperation(op) ==
    /\ op \in Fresh
    /\ opQueue' = Append(opQueue, op)
    /\ queued' = Append(queued, op)
    /\ \/ /\ workItems' = workItems + 1
          /\ UNCHANGED refused
       \/ /\ refused' = refused \cup {op}
          /\ UNCHANGED workItems
    /\ UNCHANGED dispatched

(* Variant: the front stays in the queue.                                  *)
ProcessQueueAsyncKeepsFront ==
    /\ workItems > 0
    /\ workItems' = workItems - 1
    /\ opQueue # <<>>
    /\ dispatched' = Append(dispatched, Head(opQueue))
    /\ UNCHANGED <<opQueue, queued, refused>>

(* ValidateOperation of CMediaSource accepts every operation, and the      *)
(* result of DispatchOperation is ignored.                                 *)
ProcessQueueAsync ==
    /\ workItems > 0
    /\ workItems' = workItems - 1
    /\ IF opQueue = <<>>
       THEN UNCHANGED <<opQueue, dispatched>>
       ELSE /\ opQueue' = Tail(opQueue)
            /\ dispatched' = Append(dispatched, Head(opQueue))
    /\ UNCHANGED <<queued, refused>>

Next == ProcessQueueAsync \/ \E op \in Ops : QueueOperation(op)

Spec == Init /\ [][Next]_vars

(* The threads of the work queue run every item they are given.            *)
FairSpec == Spec /\ WF_vars(ProcessQueueAsync)
-----------------------------------------------------------------------------
(* The fields hold what their declarations allow.                          *)
TypeOK ==
    /\ opQueue \in Seq(Ops)
    /\ workItems \in Nat
    /\ dispatched \in Seq(Ops)
    /\ queued \in Seq(Ops)
    /\ refused \in SUBSET Ops

(* Operations are dispatched in the order of the calls and none is lost or *)
(* dispatched twice, whatever the threads of the work queue do and even    *)
(* when a work item could not be put: what was dispatched followed by what *)
(* still waits is what was queued.                                         *)
FifoExactlyOnce == queued = dispatched \o opQueue

(* An operation waits without a work item only if the caller of some       *)
(* QueueOperation was told that it failed, and at most one for each such   *)
(* call: CMediaSource relies on this, as it never calls ProcessQueue.      *)
OnlyRefusalsStrand == Len(opQueue) <= workItems + Cardinality(refused)

(* The queue performs what it is given, in order, and in the end all but   *)
(* as many operations as there were refused calls.                         *)
Fifo == INSTANCE FifoDispatch WITH pending <- opQueue, performed <- dispatched

ImplementsFifo == Fifo!FairSpec
=============================================================================
