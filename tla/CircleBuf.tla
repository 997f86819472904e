------------------------------ MODULE CircleBuf ------------------------------
(***************************************************************************)
(* The circular buffer of Core (util/circlebuf.h), counted in elements: a  *)
(* user always stores and takes whole elements of one size.  The places    *)
(* run from start_pos to end_pos, which may have wrapped around; when an   *)
(* element finds no room the memory grows, and the part at its end is      *)
(* moved up so that the elements stay in one circle.                       *)
(*                                                                         *)
(* A place that holds no element, be it new, left behind or popped, reads  *)
(* as Unwritten.                                                           *)
(***************************************************************************)
EXTENDS Integers

Unwritten == [picture |-> 0, count |-> 0]

(* circlebuf_init; circlebuf_free leaves the same.                         *)
EmptyBuf == [data |-> <<>>, start |-> 0, end |-> 0, size |-> 0, capacity |-> 0]

(* Variant: the memory grows and the elements stay where they are.         *)
NotReordered(cb, capacity) ==
    [cb EXCEPT !.data = [i \in 0..(capacity - 1) |->
                            IF i < cb.capacity THEN cb.data[i] ELSE Unwritten],
               !.capacity = capacity]

(* brealloc and circlebuf_reorder_data.                                    *)
Reordered(cb, capacity) ==
    LET difference == capacity - cb.capacity
        wrapped == cb.start # 0 /\ cb.end <= cb.start
        up == IF wrapped THEN difference ELSE 0
        first == IF wrapped THEN cb.start ELSE cb.capacity
    IN  [cb EXCEPT
            !.data = [i \in 0..(capacity - 1) |->
                         CASE i < first -> cb.data[i]
                           [] i >= first + difference -> cb.data[i - up]
                           [] OTHER -> Unwritten],
            !.start = @ + up,
            !.capacity = capacity]

(* circlebuf_ensure_capacity: at least twice what there was.               *)
Ensured(cb) ==
    IF cb.size <= cb.capacity THEN cb
    ELSE Reordered(cb, IF cb.size > 2 * cb.capacity
                       THEN cb.size ELSE 2 * cb.capacity)

(* circlebuf_push_back.                                                    *)
PushBack(cb, element) ==
    LET room == Ensured([cb EXCEPT !.size = @ + 1])
        place == IF cb.end = room.capacity THEN 0 ELSE cb.end
    IN  [room EXCEPT !.data[place] = element, !.end = place + 1]

(* circlebuf_push_front.                                                   *)
PushFront(cb, element) ==
    LET room == Ensured([cb EXCEPT !.size = @ + 1])
        place == IF room.start = 0 THEN room.capacity - 1 ELSE room.start - 1
    IN  [room EXCEPT !.data[place] = element, !.start = place]

(* circlebuf_peek_front.                                                   *)
PeekFront(cb) == cb.data[cb.start]

(* circlebuf_pop_front, once the element has been read.                    *)
PopFront(cb) ==
    LET rest == [cb EXCEPT !.size = @ - 1, !.data[cb.start] = Unwritten]
    IN  IF rest.size = 0 THEN [rest EXCEPT !.start = 0, !.end = 0]
        ELSE [rest EXCEPT !.start = (@ + 1) % cb.capacity]

(* circlebuf_data: where the element of an index below the size is.        *)
Place(cb, idx) == (cb.start + idx) % cb.capacity

Elements(cb) == [i \in 1..cb.size |-> cb.data[Place(cb, i - 1)]]
=============================================================================
