--------------------------- MODULE MemoryAllocator ---------------------------
(***************************************************************************)
(* The allocator of the kernel: two doubly linked lists of headers threaded*)
(* through the heap, one of free and one of full blocks, both in address   *)
(* order (src/src/MemoryAllocator.cpp).  The pointers are modelled one by  *)
(* one; the loops over a list take a step per iteration.  Nothing runs in  *)
(* between: the kernel calls the allocator with interrupts masked, and the *)
(* one caller outside it (thread_create, for the stack) is not preempted.  *)
(*                                                                         *)
(* Addresses are counted in bytes from HEAP_START_ADDR.  What a header     *)
(* leaves behind when its block is joined to another is not modelled: its  *)
(* size becomes 0, and no pointer leads there.                             *)
(***************************************************************************)
EXTENDS Integers

CONSTANTS
    HeapSizes,   \* what HEAP_END_ADDR - HEAP_START_ADDR may be
    BlockSize,   \* MEM_BLOCK_SIZE
    HeaderSize,  \* sizeof(MemElem)
    Misuse       \* may a program free an address it does not hold?

ASSUME SizesAssumption ==
    /\ BlockSize \in Nat \ {0} /\ HeaderSize \in 1 .. BlockSize
    /\ HeapSizes \subseteq Nat /\ \A n \in HeapSizes : n > BlockSize
ASSUME MisuseAssumption == Misuse \in BOOLEAN

Null == -1

\* Where a block may start: all sizes but the last are whole blocks.
Starts == UNION {{i * BlockSize : i \in 0 .. n \div BlockSize} : n \in HeapSizes}
Pointers == Starts \cup {Null}

VARIABLES
    heap,   \* end of the heap, free_head, full_head, the headers' next, prev and size
    pc,     \* "idle", or the loop a call is in: "fit", "place", "search"
    iter,   \* its iterator
    block,  \* newBlock of mem_alloc, block of mem_free
    need,   \* numOfBlocksNeeded
    ptr,    \* what the last mem_alloc returned
    code,   \* what the last mem_free returned
    held,   \* the blocks programs hold
    sizeInBlocks  \* what mem_alloc was last called with

vars == <<heap, pc, iter, block, need, ptr, code, held, sizeInBlocks>>

TypeOK ==
    /\ heap \in [end : HeapSizes, free_head : Pointers, full_head : Pointers,
                 next : [Starts -> Pointers], prev : [Starts -> Pointers],
                 size : [Starts -> 0 .. heap.end]]
    /\ pc \in {"idle", "fit", "place", "search"}
    /\ iter \in Pointers /\ block \in Pointers
    /\ need \in 0 .. heap.end
    /\ ptr \in {Null} \cup {a + HeaderSize : a \in Starts}
    /\ code \in {0, -1}
    /\ held \subseteq Starts
    /\ sizeInBlocks \in Nat

\* initFreeMem: one free block, the whole heap.  mem_alloc would call it again
\* were both lists empty, which ListsHold and Tiled exclude.
Init ==
    /\ \E n \in HeapSizes :
          heap = [end |-> n, free_head |-> 0, full_head |-> Null,
                  next |-> [a \in Starts |-> Null], prev |-> [a \in Starts |-> Null],
                  size |-> [a \in Starts |-> IF a = 0 THEN n ELSE 0]]
    /\ pc = "idle" /\ iter = Null /\ block = Null /\ need = 0
    /\ ptr = Null /\ code = 0 /\ held = {} /\ sizeInBlocks = 0

-----------------------------------------------------------------------------
(* Statements on the lists: each maps a heap to the heap after it.  The    *)
(* definitions with Bug in their names are mistakes this code might have   *)
(* had: no specification uses them, and each breaks a property below.      *)

\* if(a) a->next = b;  and the same for prev
SetNext(h, a, b) == IF a = Null THEN h ELSE [h EXCEPT !.next[a] = b]
SetPrev(h, a, b) == IF a = Null THEN h ELSE [h EXCEPT !.prev[a] = b]

\* if(a) a->next = b; else free_head = b;  and the same for the full list
LinkFree(h, a, b) == IF a = Null THEN [h EXCEPT !.free_head = b] ELSE SetNext(h, a, b)
LinkFull(h, a, b) == IF a = Null THEN [h EXCEPT !.full_head = b] ELSE SetNext(h, a, b)

\* iter->next->prev is forgotten.
UnlinkFreeBugPrev(h, a) == LinkFree(h, h.prev[a], h.next[a])

UnlinkFree(h, a) == SetPrev(LinkFree(h, h.prev[a], h.next[a]), h.next[a], h.prev[a])

\* The `else full_head = ...` is forgotten.
UnlinkFullBugHead(h, a) == SetPrev(SetNext(h, h.prev[a], h.next[a]), h.next[a], h.prev[a])

UnlinkFull(h, a) == SetPrev(LinkFull(h, h.prev[a], h.next[a]), h.next[a], h.prev[a])

\* Put a between b and c, neighbours in the free list or Null.
InsertFree(h, a, b, c) ==
    LinkFree(SetPrev([h EXCEPT !.next[a] = c, !.prev[a] = b], c, a), b, a)
InsertFull(h, a, b, c) ==
    LinkFull(SetPrev([h EXCEPT !.next[a] = c, !.prev[a] = b], c, a), b, a)

\* The header is not subtracted: the new block keeps the size of the old.
SplitBugSize(h, a, n) ==
    LET f == a + n * BlockSize IN
    LinkFree(SetPrev([h EXCEPT !.next[f] = h.next[a], !.prev[f] = h.prev[a],
                               !.size[f] = h.size[a]],
                     h.next[a], f),
             h.prev[a], f)

\* A new free block takes the place of a in the free list, n blocks on.
Split(h, a, n) ==
    LET f == a + n * BlockSize IN
    LinkFree(SetPrev([h EXCEPT !.next[f] = h.next[a], !.prev[f] = h.prev[a],
                               !.size[f] = h.size[a] - n * BlockSize],
                     h.next[a], f),
             h.prev[a], f)

\* block b ends where block c begins
Adjacent(h, b, c) == b + h.size[b] = c

\* b takes over c, which is in the free list.
Absorb(h, b, c) ==
    LET g == UnlinkFree([h EXCEPT !.size[b] = @ + h.size[c]], c)
    IN  [g EXCEPT !.size[c] = 0, !.next[c] = Null, !.prev[c] = Null]

\* joinBlocks
Join(h, b, c) ==
    IF b = Null \/ c = Null THEN h
    ELSE IF Adjacent(h, b, c) THEN Absorb(h, b, c)
    ELSE IF Adjacent(h, c, b) THEN Absorb(h, c, b)
    ELSE h

-----------------------------------------------------------------------------
(* mem_alloc                                                               *)

HeaderBlocks == (HeaderSize + BlockSize - 1) \div BlockSize

AllocRefused(n) ==
    /\ pc = "idle"
    /\ n = 0 \/ n >= heap.end \div BlockSize
    /\ sizeInBlocks' = n
    /\ ptr' = Null
    /\ UNCHANGED <<heap, pc, iter, block, need, code, held>>

AllocCalled(n) ==
    /\ pc = "idle"
    /\ n > 0 /\ n < heap.end \div BlockSize
    /\ sizeInBlocks' = n
    /\ need' = n + HeaderBlocks
    /\ iter' = heap.free_head
    /\ pc' = "fit"
    /\ UNCHANGED <<heap, block, ptr, code, held>>

\* `>` for `>=`
FitsBugStrict == heap.size[iter] \div BlockSize > need

Fits == heap.size[iter] \div BlockSize >= need

AllocFails ==
    /\ pc = "fit" /\ iter = Null
    /\ ptr' = Null /\ pc' = "idle"
    /\ UNCHANGED <<heap, iter, block, need, code, held, sizeInBlocks>>

AllocNext ==
    /\ pc = "fit" /\ iter # Null /\ ~Fits
    /\ iter' = heap.next[iter]
    /\ UNCHANGED <<heap, pc, block, need, ptr, code, held, sizeInBlocks>>

\* The free list after iter gave its first `need` blocks away.
Taken ==
    LET rest == heap.size[iter] - need * BlockSize
        h    == IF HeaderSize <= rest THEN Split(heap, iter, need)
                                      ELSE UnlinkFree(heap, iter)
    IN  [h EXCEPT !.size[iter] = need * BlockSize]

AllocReturns(b) ==
    /\ ptr' = b + HeaderSize
    /\ held' = held \cup {b}
    /\ pc' = "idle"

\* The new block goes to the front of the full list, or its place is sought.
AllocFits ==
    /\ pc = "fit" /\ iter # Null /\ Fits
    /\ block' = iter
    /\ iter' = heap.full_head
    /\ \/ /\ heap.full_head = Null \/ heap.full_head > iter
          /\ heap' = InsertFull(Taken, iter, Null, heap.full_head)
          /\ AllocReturns(iter)
       \/ /\ heap.full_head # Null /\ heap.full_head <= iter
          /\ heap' = Taken
          /\ pc' = "place"
          /\ UNCHANGED <<ptr, held>>
    /\ UNCHANGED <<need, code, sizeInBlocks>>

\* iter->next && iter->next < block
GoesOn == heap.next[iter] # Null /\ heap.next[iter] < block

AllocSeek ==
    /\ pc = "place" /\ GoesOn
    /\ iter' = heap.next[iter]
    /\ UNCHANGED <<heap, pc, block, need, ptr, code, held, sizeInBlocks>>

AllocPlace ==
    /\ pc = "place" /\ ~GoesOn
    /\ heap' = InsertFull(heap, block, iter, heap.next[iter])
    /\ AllocReturns(block)
    /\ UNCHANGED <<iter, block, need, code, sizeInBlocks>>

-----------------------------------------------------------------------------
(* mem_free                                                                *)

FreeNull ==
    /\ pc = "idle"
    /\ code' = -1
    /\ UNCHANGED <<heap, pc, iter, block, need, ptr, held, sizeInBlocks>>

FreeReturns(b) ==
    /\ code' = 0
    /\ held' = held \ {b}
    /\ pc' = "idle"

\* What mem_free is called with is the address after the header of b.  The
\* header is unlinked from the full list, whatever list it is in.
FreeCalled(b) ==
    LET h == UnlinkFull(heap, b) IN
    /\ pc = "idle"
    /\ block' = b
    /\ iter' = h.free_head
    /\ \/ /\ h.free_head = Null
          /\ heap' = InsertFree(h, b, Null, Null)
          /\ FreeReturns(b)
       \/ /\ h.free_head # Null /\ h.free_head > b
          /\ LET g == InsertFree(h, b, Null, h.free_head) IN heap' = Join(g, b, g.next[b])
          /\ FreeReturns(b)
       \/ /\ h.free_head # Null /\ h.free_head <= b
          /\ heap' = h
          /\ pc' = "search"
          /\ UNCHANGED <<code, held>>
    /\ UNCHANGED <<need, ptr, sizeInBlocks>>

FreeSeek ==
    /\ pc = "search" /\ GoesOn
    /\ iter' = heap.next[iter]
    /\ UNCHANGED <<heap, pc, block, need, ptr, code, held, sizeInBlocks>>

\* joinBlocks(block->prev, block) is forgotten.
FreePlaceBugJoin ==
    /\ pc = "search" /\ ~GoesOn
    /\ LET h == InsertFree(heap, block, iter, heap.next[iter])
       IN  heap' = Join(h, block, h.next[block])
    /\ FreeReturns(block)
    /\ UNCHANGED <<iter, block, need, ptr, sizeInBlocks>>

\* Inserted, then joined with the next free block, then with the previous.
FreePlace ==
    /\ pc = "search" /\ ~GoesOn
    /\ LET h == InsertFree(heap, block, iter, heap.next[iter])
           g == Join(h, block, h.next[block])
       IN  heap' = Join(g, g.prev[block], block)
    /\ FreeReturns(block)
    /\ UNCHANGED <<iter, block, need, ptr, sizeInBlocks>>

-----------------------------------------------------------------------------

\* Programs free what they hold.  With Misuse they may free a block again.
MayFree(b) == b \in held \/ (Misuse /\ b \in Starts /\ heap.size[b] > 0)

Next ==
    \/ \E n \in 0 .. heap.end \div BlockSize : AllocRefused(n) \/ AllocCalled(n)
    \/ AllocFails \/ AllocNext \/ AllocFits \/ AllocSeek \/ AllocPlace
    \/ FreeNull
    \/ \E b \in Starts : MayFree(b) /\ FreeCalled(b)
    \/ FreeSeek \/ FreePlace

\* A call goes on until it returns.
CallStep == AllocFails \/ AllocNext \/ AllocFits \/ AllocSeek \/ AllocPlace
               \/ FreeSeek \/ FreePlace

Spec == Init /\ [][Next]_vars /\ WF_vars(CallStep)

-----------------------------------------------------------------------------
(* What the allocator promises, when programs free what they hold.         *)

Blocks == {a \in Starts : heap.size[a] > 0}
FreeBlocks == Blocks \ held

First(S) == IF S = {} THEN Null ELSE CHOOSE a \in S : \A b \in S : a <= b
Last(S) == IF S = {} THEN Null ELSE CHOOSE a \in S : \A b \in S : b <= a

\* S in the order of addresses, in both directions.
Linked(head, S) ==
    /\ head = First(S)
    /\ \A a \in S : /\ heap.next[a] = First({b \in S : a < b})
                    /\ heap.prev[a] = Last({b \in S : b < a})

\* Between calls the full list holds exactly the blocks that programs hold
\* and the free list all others, both doubly linked in the order of
\* addresses, whatever splits, joins and relinkings came before.
ListsHold ==
    pc = "idle" => /\ held \subseteq Blocks
                   /\ Linked(heap.full_head, held)
                   /\ Linked(heap.free_head, FreeBlocks)

\* Between calls the blocks of both lists cover the heap without a gap or an
\* overlap; only a tail too small for a header may be lost at the end.
Tiled ==
    pc = "idle" =>
       /\ 0 \in Blocks
       /\ \A a \in Blocks :
             LET end == a + heap.size[a] IN
             /\ \A b \in Blocks : a < b => end <= b
             /\ end \in Blocks \/ heap.end - end \in 0 .. HeaderSize - 1

\* Between calls no two free blocks are neighbours: mem_free has joined them
\* (joinBlocks with the next and with the previous block).
Coalesced ==
    pc = "idle" => \A a, b \in FreeBlocks : a + heap.size[a] # b

\* Every call returns: the lists that the loops follow have no cycle.
CallsReturn == pc # "idle" ~> pc = "idle"

Abstract == INSTANCE Heap WITH
    given <- [c \in 0 .. heap.end \div BlockSize - 1 |->
                 IF c * BlockSize \in held THEN heap.size[c * BlockSize] \div BlockSize ELSE 0],
    asked <- IF pc \in {"fit", "place"} THEN need - HeaderBlocks ELSE 0

\* The lists implement the row of cells: mem_alloc returns the lowest run
\* that is long enough, and nullptr only when there is none.
ImplementsHeap == Abstract!Spec

\* MemoryAllocator.hpp: "If addr doesnt point to memory block allocated using
\* mem_alloc, error code -1".
StrangersRefused ==
    [][\A b \in Starts \ held :
          /\ pc' = "idle"
          /\ FreeCalled(b) \/ (FreePlace /\ block = b)
          => code' = -1]_vars
=============================================================================
