-------------------------------- MODULE List --------------------------------
(***************************************************************************)
(* List<T> of src/h/list.hpp: a chain of heap-allocated Elems between head *)
(* and tail.  An Elem that is deleted may be the next one allocated, with  *)
(* what it held.  Lists are used with interrupts masked, so that a call is *)
(* one step.                                                               *)
(***************************************************************************)
EXTENDS Integers, Sequences, FiniteSets, Functions

CONSTANTS
    Elems,      \* addresses of Elems: all that the heap has room for
    Data,       \* the T*
    Null

ASSUME ListAssumption == Null \notin Elems \cup Data /\ IsFiniteSet(Elems)

VARIABLES
    head, tail,
    data, next,      \* the fields of the Elems, allocated or not
    allocated,
    result,          \* what the last remove or peek returned
    faulted          \* the constructor of Elem was run on nullptr

vars == <<head, tail, data, next, allocated, result, faulted>>

TypeOK ==
    /\ {head, tail} \subseteq Elems \cup {Null}
    /\ data \in [Elems -> Data \cup {Null}]
    /\ next \in [Elems -> Elems \cup {Null}]
    /\ allocated \subseteq Elems
    /\ result \in Data \cup {Null}
    /\ faulted \in BOOLEAN

Init ==
    /\ head = Null /\ tail = Null
    /\ data = [e \in Elems |-> Null] /\ next = [e \in Elems |-> Null]
    /\ allocated = {}
    /\ result = Null /\ faulted = FALSE

\* The Elems on the way from head, in their order.
Chain ==
    LET node[i \in 1 .. Cardinality(Elems) + 1] ==
           IF i = 1 THEN head
           ELSE IF node[i - 1] = Null THEN Null ELSE next[node[i - 1]]
    IN  [i \in {i \in DOMAIN node : node[i] # Null} |-> node[i]]

\* new Elem(d, ..) got e.
New(e, d) ==
    /\ ~faulted /\ e \notin allocated
    /\ allocated' = allocated \cup {e}
    /\ data' = [data EXCEPT ![e] = d]
    /\ UNCHANGED <<result, faulted>>

\* The Elem is returned for its data.
DeleteBugElem(e) ==
    /\ ~faulted
    /\ allocated' = allocated \ {e}
    /\ result' = e
    /\ UNCHANGED <<data, faulted>>

\* delete e, and return its data.
Delete(e) ==
    /\ ~faulted
    /\ allocated' = allocated \ {e}
    /\ result' = data[e]
    /\ UNCHANGED <<data, faulted>>

\* operator new returns nullptr.
NewFails ==
    /\ allocated = Elems /\ faulted' = TRUE
    /\ UNCHANGED <<head, tail, data, next, allocated, result>>

AddFirst(e, d) ==
    /\ New(e, d)
    /\ next' = [next EXCEPT ![e] = head]
    /\ head' = e
    /\ tail' = IF tail = Null THEN e ELSE tail

AddLast(e, d) ==
    /\ New(e, d)
    /\ \/ /\ tail # Null
          /\ next' = [next EXCEPT ![e] = Null, ![tail] = e]
          /\ UNCHANGED head
       \/ /\ tail = Null
          /\ next' = [next EXCEPT ![e] = Null]
          /\ head' = e
    /\ tail' = e

\* `if (!head) { tail = 0; }` is forgotten.
RemoveFirstBugTail ==
    /\ head # Null /\ Delete(head)
    /\ head' = next[head]
    /\ UNCHANGED <<tail, next>>

RemoveFirst ==
    /\ head # Null /\ Delete(head)
    /\ head' = next[head]
    /\ tail' = IF next[head] = Null THEN Null ELSE tail
    /\ UNCHANGED next

\* What removeLast's loop finds: the last Elem from head before the tail.
Previous ==
    LET passed == {i \in DOMAIN Chain : \A j \in 1 .. i : Chain[j] # tail}
    IN  IF passed = {} THEN Null ELSE Chain[Cardinality(passed)]

\* `prev->next = 0` is forgotten.
RemoveLastBugNext ==
    /\ head # Null /\ Delete(tail)
    /\ head' = IF Previous = Null THEN Null ELSE head
    /\ tail' = Previous
    /\ UNCHANGED next

RemoveLast ==
    /\ head # Null /\ Delete(tail)
    /\ head' = IF Previous = Null THEN Null ELSE head
    /\ tail' = Previous
    /\ next' = [e \in Elems |-> IF e = Previous THEN Null ELSE next[e]]

\* peekFirst and peekLast.
Peek ==
    /\ ~faulted
    /\ \E e \in {head, tail} \ {Null} : result' = data[e]
    /\ UNCHANGED <<head, tail, data, next, allocated, faulted>>

\* Any removal or peek, of an empty list.
OnEmpty ==
    /\ ~faulted /\ Null \in {head, tail}
    /\ result' = Null
    /\ UNCHANGED <<head, tail, data, next, allocated, faulted>>

Next ==
    \/ \E e \in Elems, d \in Data : AddFirst(e, d) \/ AddLast(e, d)
    \/ NewFails \/ RemoveFirst \/ RemoveLast \/ Peek \/ OnEmpty

Spec == Init /\ [][Next]_vars

-----------------------------------------------------------------------------

\* The chain ends at tail, and its Elems are those that are allocated, each
\* once: no removal leaves an Elem behind, or a pointer to one that is gone
\* (through which the next addLast would write to freed memory).
ChainIsAllocated ==
    /\ Range(Chain) = allocated
    /\ Cardinality(allocated) = Len(Chain)
    /\ tail = IF Chain = <<>> THEN Null ELSE Chain[Len(Chain)]

Abstract == INSTANCE Deque WITH items <- [i \in DOMAIN Chain |-> data[Chain[i]]]

\* Every call is the one of the sequence with two ends that it stands for.
ImplementsDeque == Abstract!Spec
=============================================================================
