-------------------------------- MODULE Heap --------------------------------
(***************************************************************************)
(* What mem_alloc and mem_free promise a program (h/MemoryAllocator.hpp),  *)
(* with no list and no free block in sight: the heap is a row of cells of  *)
(* MEM_BLOCK_SIZE bytes.  An allocation of n cells takes the lowest run of *)
(* n cells and a header's that nobody holds, and fails only when there is  *)
(* none; a free gives the cells of one allocation back.                    *)
(***************************************************************************)
EXTENDS Integers

CONSTANTS HeapSizes, BlockSize, HeaderSize

VARIABLES
    given,        \* how many cells the allocation that starts at a cell holds
    sizeInBlocks, \* what mem_alloc was last called with
    asked,        \* the cells the call under way asks for, 0 when there is none
    ptr,          \* what the last mem_alloc returned
    code          \* what the last mem_free returned

vars == <<given, sizeInBlocks, asked, ptr, code>>

Null == -1
Cells == DOMAIN given
HeaderCells == (HeaderSize + BlockSize - 1) \div BlockSize

Init ==
    /\ \E n \in HeapSizes : given = [c \in 0 .. n \div BlockSize - 1 |-> 0]
    /\ sizeInBlocks = 0 /\ asked = 0 /\ ptr = Null /\ code = 0

Taken == UNION {c .. c + given[c] - 1 : c \in Cells}

\* Where n cells and a header's are free in a row.
Fit(n) == {c \in Cells : c .. c + n + HeaderCells - 1 \subseteq Cells \ Taken}

\* A call for no cells, or for all of them, which leaves none for the header.
Refuse(n) ==
    /\ asked = 0 /\ n \notin Cells \ {0}
    /\ sizeInBlocks' = n
    /\ ptr' = Null
    /\ UNCHANGED <<given, asked, code>>

Ask(n) ==
    /\ asked = 0 /\ n \in Cells \ {0}
    /\ sizeInBlocks' = n /\ asked' = n
    /\ UNCHANGED <<given, ptr, code>>

Answer ==
    /\ asked > 0 /\ asked' = 0
    /\ \/ /\ Fit(asked) = {}
          /\ ptr' = Null
          /\ UNCHANGED given
       \/ \E c \in Fit(asked) :
             /\ \A d \in Fit(asked) : c <= d
             /\ ptr' = c * BlockSize + HeaderSize
             /\ given' = [given EXCEPT ![c] = asked + HeaderCells]
    /\ UNCHANGED <<sizeInBlocks, code>>

Free(c) ==
    /\ asked = 0 /\ given[c] > 0
    /\ given' = [given EXCEPT ![c] = 0]
    /\ code' = 0
    /\ UNCHANGED <<sizeInBlocks, asked, ptr>>

FreeNull == asked = 0 /\ code' = -1 /\ UNCHANGED <<given, sizeInBlocks, asked, ptr>>

Next ==
    \/ \E n \in {0} \cup {c + 1 : c \in Cells} : Refuse(n) \/ Ask(n)
    \/ Answer \/ FreeNull
    \/ \E c \in Cells : Free(c)

Spec == Init /\ [][Next]_vars
=============================================================================
