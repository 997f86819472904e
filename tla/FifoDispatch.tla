---------------------------- MODULE FifoDispatch ----------------------------
(***************************************************************************)
(* What a caller of OpQueue::QueueOperation is promised: operations are    *)
(* performed one at a time, in the order in which they were queued, each   *)
(* at most once.  The header of OpQueue.h gives the reason: work items of  *)
(* Media Foundation may run in parallel and in any order, "to serialize    *)
(* async operations that should not overlap, an object should use a        *)
(* queue".  A call may be refused; its operation is not withdrawn, but     *)
(* from then on one operation more may be left waiting.  While no call has *)
(* been refused, every operation is performed in the end.                  *)
(***************************************************************************)
EXTENDS Naturals, Sequences, FiniteSets

CONSTANT Ops            \* the operation objects that callers may queue

VARIABLES pending,      \* queued and not yet performed, oldest first
          performed,    \* performed, oldest first
          refused       \* operations whose call returned an error

vars == <<pending, performed, refused>>

Init == /\ pending = <<>>
        /\ performed = <<>>
        /\ refused = {}

Submit(op) == /\ pending' = Append(pending, op)
              /\ refused' \in {refused, refused \cup {op}}
              /\ UNCHANGED performed

Perform == /\ pending # <<>>
           /\ pending' = Tail(pending)
           /\ performed' = Append(performed, Head(pending))
           /\ UNCHANGED refused

Next == Perform \/ \E op \in Ops : Submit(op)

Spec == Init /\ [][Next]_vars

(* As many operations as calls were refused may be left waiting.           *)
FairSpec == Spec /\ WF_vars(Perform /\ Len(pending) > Cardinality(refused))
=============================================================================
