-------------------------------- MODULE Deque --------------------------------
(***************************************************************************)
(* What List<T> (src/h/list.hpp) promises its users, the ready queue and   *)
(* the queues of waiters: a sequence with two ends, from which a removal   *)
(* or a look at an end returns the item there, or nullptr when it is empty.*)
(***************************************************************************)
EXTENDS Integers, Sequences

CONSTANTS Data, Null

VARIABLES items, result

vars == <<items, result>>

Last(q) == q[Len(q)]

Init == items = <<>> /\ result = Null

AddFirst(d) == items' = <<d>> \o items /\ UNCHANGED result
AddLast(d) == items' = Append(items, d) /\ UNCHANGED result

RemoveFirst ==
    /\ items # <<>>
    /\ result' = Head(items) /\ items' = Tail(items)

RemoveLast ==
    /\ items # <<>>
    /\ result' = Last(items) /\ items' = SubSeq(items, 1, Len(items) - 1)

Peek ==
    /\ items # <<>> /\ UNCHANGED items
    /\ result' \in {Head(items), Last(items)}

OnEmpty == items = <<>> /\ result' = Null /\ UNCHANGED items

Next ==
    \/ \E d \in Data : AddFirst(d) \/ AddLast(d)
    \/ RemoveFirst \/ RemoveLast \/ Peek \/ OnEmpty

Spec == Init /\ [][Next]_vars
=============================================================================
