----------------------- MODULE MemoryAllocatorProofs -----------------------
(***************************************************************************)
(* What the allocator promises, for every heap, block and header size, if  *)
(* programs free what they hold (Misuse = FALSE).  Linked is proved in a   *)
(* form without CHOOSE: what a pointer skips is stated, not which one it   *)
(* is, so that each relinking is a fact of first-order logic.              *)
(* On top of that, the lists implement Heap: in a tiling without neighbours*)
(* that are both free, a run of free cells is in one free block.           *)
(***************************************************************************)
EXTENDS MemoryAllocator, TLAPS, WellFoundedInduction

Heaps == [end : HeapSizes, free_head : Pointers, full_head : Pointers,
          next : [Starts -> Pointers], prev : [Starts -> Pointers],
          size : [Starts -> Nat]]

\* p is the first of S after a, and the last of S before a, or Null.
After(p, S, a) ==
    \/ p = Null /\ \A b \in S : b <= a
    \/ p \in S /\ a < p /\ \A b \in S : b <= a \/ p <= b
Before(p, S, a) ==
    \/ p = Null /\ \A b \in S : a <= b
    \/ p \in S /\ p < a /\ \A b \in S : a <= b \/ b <= p

\* Linked.  Null is below every address.
List(head, next, prev, S) ==
    /\ After(head, S, Null)
    /\ \A a \in S : After(next[a], S, a) /\ Before(prev[a], S, a)

\* Nothing in S has changed.
Same(new, old, S) == \A x \in S : new[x] = old[x]

\* On S the pointers are the old ones, but the one of a is v now.
Written(S, new, old, a, v) == \A x \in S : new[x] = IF x = a THEN v ELSE old[x]

\* A number of whole blocks.
Whole(n) == \E i \in 0 .. n : n = i * BlockSize

\* The blocks of size cover what ends at end, as in Tiled; and a block that is
\* not whole ends where the heap ends.
Tiles(size, end, S) ==
    /\ 0 \in S
    /\ \A a \in S :
          /\ a + size[a] <= end
          /\ \A b \in S : a < b => a + size[a] <= b
          /\ a + size[a] \in S \/ end - (a + size[a]) < HeaderSize
          /\ Whole(size[a]) \/ a + size[a] = end

\* b ends where c begins.
Touch(size, b, c) == b + size[b] = c

Apart(size, S) == \A a, b \in S : ~Touch(size, a, b)

\* The full list holds F and the free list G.
Lists(h, F, G) ==
    /\ h \in Heaps
    /\ F \subseteq Starts /\ G \subseteq Starts /\ F \cap G = {}
    /\ List(h.full_head, h.next, h.prev, F)
    /\ List(h.free_head, h.next, h.prev, G)

\* The variables of a call, as in TypeOK.
Locals ==
    /\ pc \in {"idle", "fit", "place", "search"}
    /\ iter \in Pointers /\ block \in Pointers
    /\ need \in 0 .. heap.end
    /\ ptr \in {Null} \cup {a + HeaderSize : a \in Starts}
    /\ code \in {0, -1}

\* The blocks of the two lists: one is in neither while its place is sought.
Full == IF pc = "search" THEN held \ {block} ELSE held
Free == IF pc = "place" THEN FreeBlocks \ {block} ELSE FreeBlocks

AInv ==
    /\ Lists(heap, Full, Free)
    /\ held \subseteq Blocks
    /\ Tiles(heap.size, heap.end, Blocks)
    /\ Apart(heap.size, Free)
    /\ Locals
    /\ pc = "fit" => iter \in Free \cup {Null} /\ need > 0
    /\ pc = "place" => block \in FreeBlocks /\ iter \in held /\ iter < block
    /\ pc = "search" => block \in held /\ iter \in Free /\ iter < block

-----------------------------------------------------------------------------
(* Whole blocks.                                                           *)

\* A number of blocks is whole.
LEMMA WholeTimes == \A i \in Nat : i * BlockSize \in Nat /\ Whole(i * BlockSize)
<1> SUFFICES ASSUME NEW i \in Nat PROVE i * BlockSize \in Nat /\ Whole(i * BlockSize)
  OBVIOUS
<1>1. i * BlockSize \in Nat /\ i <= i * BlockSize
  BY SizesAssumption
<1> QED
  BY <1>1 DEF Whole

\* Sums and differences of whole blocks are whole.
LEMMA WholeSum ==
    \A m, n \in Nat : Whole(m) /\ Whole(n) => Whole(m + n) /\ (m <= n => Whole(n - m))
<1> SUFFICES ASSUME NEW m \in Nat, NEW n \in Nat, Whole(m), Whole(n)
             PROVE  Whole(m + n) /\ (m <= n => Whole(n - m))
  OBVIOUS
<1>1. PICK i \in 0 .. m : m = i * BlockSize
  BY DEF Whole
<1>2. PICK j \in 0 .. n : n = j * BlockSize
  BY DEF Whole
<1>3. m + n = (i + j) * BlockSize /\ n - m = (j - i) * BlockSize
  BY <1>1, <1>2, SizesAssumption
<1>4. Whole(m + n)
  BY <1>3, <1>1, <1>2, WholeTimes
<1>5. m <= n => j - i \in Nat
  BY <1>1, <1>2, <1>3, SizesAssumption
<1> QED
  BY <1>3, <1>4, <1>5, WholeTimes

\* What is less than a block is whole only if it is nothing.
LEMMA WholeLess == \A n \in Nat : Whole(n) /\ n < BlockSize => n = 0
<1> SUFFICES ASSUME NEW n \in Nat, Whole(n), n < BlockSize PROVE n = 0
  OBVIOUS
<1>1. PICK i \in 0 .. n : n = i * BlockSize
  BY DEF Whole
<1>2. i >= 1 => i * BlockSize >= BlockSize
  BY SizesAssumption
<1> QED
  BY <1>1, <1>2, SizesAssumption

\* Division by the size of a block, as it is used in the code.
LEMMA Quotient ==
    \A m, n \in Nat : /\ n \div BlockSize \in Nat
                      /\ n \div BlockSize <= n
                      /\ m <= n \div BlockSize <=> m * BlockSize <= n
<1> SUFFICES ASSUME NEW m \in Nat, NEW n \in Nat
             PROVE  /\ n \div BlockSize \in Nat
                    /\ n \div BlockSize <= n
                    /\ m <= n \div BlockSize <=> m * BlockSize <= n
  OBVIOUS
<1> QED
  BY SizesAssumption

\* A block may start after a number of whole blocks, within a heap.
LEMMA StartsWhole ==
    \A a : a \in Starts <=> a \in Nat /\ Whole(a) /\ \E n \in HeapSizes : a <= n
<1>1. ASSUME NEW a \in Starts PROVE a \in Nat /\ Whole(a) /\ \E n \in HeapSizes : a <= n
  <2>1. PICK n \in HeapSizes : \E i \in 0 .. n \div BlockSize : a = i * BlockSize
    BY DEF Starts
  <2>2. PICK i \in 0 .. n \div BlockSize : a = i * BlockSize
    BY <2>1
  <2>3. n \in Nat /\ i \in Nat
    BY Quotient, SizesAssumption
  <2> QED
    BY <2>2, <2>3, Quotient, WholeTimes
<1>2. ASSUME NEW a \in Nat, Whole(a), NEW n \in HeapSizes, a <= n PROVE a \in Starts
  <2>1. PICK i \in 0 .. a : a = i * BlockSize
    BY <1>2 DEF Whole
  <2>2. n \in Nat /\ i \in Nat /\ i <= n \div BlockSize /\ n \div BlockSize \in Nat
    BY <1>2, <2>1, Quotient, SizesAssumption
  <2> QED
    BY <2>1, <2>2 DEF Starts
<1> QED
  BY <1>1, <1>2

-----------------------------------------------------------------------------
(* The relinkings: what becomes of a list when pointers change.            *)

\* What After and Before say of a set with one element more, put between b
\* and c.  The head of a list is what comes after Null.
LEMMA AfterMore ==
    ASSUME NEW S, \A x \in S : x \in Nat, NEW a \in Nat, a \notin S, NEW b, NEW c,
           Before(b, S, a), After(c, S, a)
    PROVE  /\ After(a, S \cup {a}, b) /\ After(c, S \cup {a}, a)
           /\ \A x \in S \cup {Null} : \A p :
                 x # b /\ After(p, S, x) => After(p, S \cup {a}, x)
<1>1. After(a, S \cup {a}, b) /\ After(c, S \cup {a}, a)
  BY DEF After, Before, Null
<1>2. ASSUME NEW x \in S \cup {Null}, NEW p, x # b, After(p, S, x)
      PROVE  After(p, S \cup {a}, x)
  <2>1. CASE a < x
    BY <1>2, <2>1 DEF After, Null
  <2>2. CASE x < a
    <3>1. b \in S /\ x < b /\ b < a
      BY <1>2, <2>2 DEF Before, Null
    <3>2. p \in S /\ x < p /\ p <= b /\ \A y \in S : y <= x \/ p <= y
      BY <1>2, <2>2, <3>1 DEF After, Null
    <3> QED
      BY <3>1, <3>2 DEF After
  <2> QED
    BY <2>1, <2>2 DEF Null
<1> QED
  BY <1>1, <1>2

\* The same for what comes before.
LEMMA BeforeMore ==
    ASSUME NEW S, \A x \in S : x \in Nat, NEW a \in Nat, a \notin S, NEW b, NEW c,
           Before(b, S, a), After(c, S, a)
    PROVE  /\ c # Null => Before(a, S \cup {a}, c)
           /\ Before(b, S \cup {a}, a)
           /\ \A x \in S : \A p : x # c /\ Before(p, S, x) => Before(p, S \cup {a}, x)
<1>1. (c # Null => Before(a, S \cup {a}, c)) /\ Before(b, S \cup {a}, a)
  BY DEF After, Before, Null
<1>2. ASSUME NEW x \in S, NEW p, x # c, Before(p, S, x)
      PROVE  Before(p, S \cup {a}, x)
  <2>1. CASE x < a
    BY <1>2, <2>1 DEF Before, Null
  <2>2. CASE a < x
    <3>1. c \in S /\ a < c /\ c < x
      BY <1>2, <2>2 DEF After, Null
    <3>2. p \in S /\ p < x /\ c <= p /\ \A y \in S : x <= y \/ y <= p
      BY <1>2, <2>2, <3>1 DEF Before, Null
    <3> QED
      BY <3>1, <3>2 DEF Before
  <2> QED
    BY <2>1, <2>2
<1> QED
  BY <1>1, <1>2

\* And of a set with one element less.
LEMMA AfterLess ==
    ASSUME NEW S, \A x \in S : x \in Nat, NEW a \in S, NEW b, NEW c,
           Before(b, S, a), After(c, S, a)
    PROVE  /\ After(c, S \ {a}, b)
           /\ \A x \in S \cup {Null} : \A p :
                 x # a /\ x # b /\ After(p, S, x) => After(p, S \ {a}, x)
<1>1. After(c, S \ {a}, b)
  BY DEF After, Before, Null
<1>2. ASSUME NEW x \in S \cup {Null}, NEW p, x # a, x # b, After(p, S, x)
      PROVE  After(p, S \ {a}, x)
  <2>1. CASE p = a
    BY <1>2, <2>1 DEF After, Before, Null
  <2>2. CASE p # a
    BY <1>2, <2>2 DEF After, Null
  <2> QED
    BY <2>1, <2>2
<1> QED
  BY <1>1, <1>2

\* The same for what comes before.
LEMMA BeforeLess ==
    ASSUME NEW S, \A x \in S : x \in Nat, NEW a \in S, NEW b, NEW c,
           Before(b, S, a), After(c, S, a)
    PROVE  /\ c # Null => Before(b, S \ {a}, c)
           /\ \A x \in S : \A p : x # a /\ x # c /\ Before(p, S, x) => Before(p, S \ {a}, x)
<1>1. c # Null => Before(b, S \ {a}, c)
  BY DEF After, Before, Null
<1>2. ASSUME NEW x \in S, NEW p, x # a, x # c, Before(p, S, x)
      PROVE  Before(p, S \ {a}, x)
  <2>1. CASE p = a
    BY <1>2, <2>1 DEF After, Before, Null
  <2>2. CASE p # a
    BY <1>2, <2>2 DEF Before, Null
  <2> QED
    BY <2>1, <2>2
<1> QED
  BY <1>1, <1>2

\* a is put between b and c.
LEMMA Inserted ==
    ASSUME NEW S \in SUBSET Nat, NEW a \in Nat \ S, NEW b, NEW c,
           NEW head, NEW next, NEW prev, NEW newHead, NEW newNext, NEW newPrev,
           List(head, next, prev, S), Before(b, S, a), After(c, S, a),
           newHead = IF b = Null THEN a ELSE head,
           newNext[a] = c, newPrev[a] = b,
           Written(S, newNext, next, b, a),
           Written(S, newPrev, prev, c, a)
    PROVE  List(newHead, newNext, newPrev, S \cup {a})
<1>1. /\ Null \notin S
      /\ \A x \in S : /\ x = b => newNext[x] = a
                      /\ x # b => newNext[x] = next[x]
      /\ \A x \in S : /\ x = c => newPrev[x] = a
                      /\ x # c => newPrev[x] = prev[x]
  BY DEF Null, Written
<1>2. After(newHead, S \cup {a}, Null)
  BY AfterMore DEF List
<1>3. ASSUME NEW x \in S PROVE After(newNext[x], S \cup {a}, x)
  <2>1. After(next[x], S, x)
    BY DEF List
  <2>2. CASE x = b
    <3>1. After(a, S \cup {a}, x)
      BY <2>2, AfterMore
    <3>2. newNext[x] = a
      BY <1>1, <2>2
    <3> QED
      BY <3>1, <3>2
  <2>3. CASE x # b
    BY <1>1, <2>1, <2>3, AfterMore
  <2> QED
    BY <2>2, <2>3
<1>4. ASSUME NEW x \in S PROVE Before(newPrev[x], S \cup {a}, x)
  <2>1. Before(prev[x], S, x)
    BY DEF List
  <2>2. CASE x = c
    <3>1. Before(a, S \cup {a}, x)
      BY <1>1, <2>2, BeforeMore
    <3>2. newPrev[x] = a
      BY <1>1, <2>2
    <3> QED
      BY <3>1, <3>2
  <2>3. CASE x # c
    BY <1>1, <2>1, <2>3, BeforeMore
  <2> QED
    BY <2>2, <2>3
<1>5. After(c, S \cup {a}, a) /\ Before(b, S \cup {a}, a)
  BY AfterMore, BeforeMore
<1> QED
  BY <1>2, <1>3, <1>4, <1>5 DEF List

\* a is taken out.
LEMMA Removed ==
    ASSUME NEW S \in SUBSET Nat, NEW a \in S,
           NEW head, NEW next, NEW prev, NEW newHead, NEW newNext, NEW newPrev,
           List(head, next, prev, S),
           newHead = IF prev[a] = Null THEN next[a] ELSE head,
           Written(S \ {a}, newNext, next, prev[a], next[a]),
           Written(S \ {a}, newPrev, prev, next[a], prev[a])
    PROVE  List(newHead, newNext, newPrev, S \ {a})
<1>1. Null \notin S /\ After(next[a], S, a) /\ Before(prev[a], S, a)
  BY DEF List, Null
<1>2. After(newHead, S \ {a}, Null)
  BY <1>1, AfterLess DEF List
<1>3. ASSUME NEW x \in S \ {a} PROVE After(newNext[x], S \ {a}, x)
  BY <1>1, AfterLess DEF List, Written
<1>4. ASSUME NEW x \in S \ {a} PROVE Before(newPrev[x], S \ {a}, x)
  BY <1>1, BeforeLess DEF List, Written
<1> QED
  BY <1>2, <1>3, <1>4 DEF List

\* And of a set with f for a, a little further on.
LEMMA Shifted ==
    ASSUME NEW S, \A x \in S : x \in Nat, NEW a \in S, NEW f \in Nat \ S, NEW b, NEW c,
           a < f, \A x \in S : a < x => f < x,
           Before(b, S, a), After(c, S, a)
    PROVE  LET U == (S \ {a}) \cup {f} IN
           /\ After(f, U, b) /\ After(c, U, f)
           /\ \A x \in (S \ {a}) \cup {Null} : \A p :
                 x # b /\ After(p, S, x) => After(p, U, x)
           /\ c # Null => Before(f, U, c)
           /\ Before(b, U, f)
           /\ \A x \in S \ {a} : \A p : x # c /\ Before(p, S, x) => Before(p, U, x)
<1> DEFINE U == (S \ {a}) \cup {f}
<1> DEFINE T == S \ {a}
<1>1. After(c, T, f)
  BY DEF After, Null
<1>2. Before(b, T, f)
  BY DEF Before, Null
<1>3. \A x \in T \cup {Null} : \A p : x # b /\ After(p, S, x) => After(p, T, x)
  <2>1. \A x \in T \cup {Null} : x \in S \cup {Null} /\ x # a
    BY DEF Null
  <2>2. \A x \in S \cup {Null} : \A p : x # a /\ x # b /\ After(p, S, x) => After(p, T, x)
    BY AfterLess
  <2> QED
    BY <2>1, <2>2
<1>4. \A x \in T : \A p : x # c /\ Before(p, S, x) => Before(p, T, x)
  BY BeforeLess
<1>5. U = T \cup {f} /\ f \notin T /\ \A x \in T : x \in Nat
  OBVIOUS
<1> HIDE DEF T, U
<1>6. /\ After(f, U, b) /\ After(c, U, f)
      /\ \A x \in T \cup {Null} : \A p : x # b /\ After(p, T, x) => After(p, U, x)
  BY <1>1, <1>2, <1>5, AfterMore
<1>7. /\ c # Null => Before(f, U, c)
      /\ Before(b, U, f)
      /\ \A x \in T : \A p : x # c /\ Before(p, T, x) => Before(p, U, x)
  BY <1>1, <1>2, <1>5, BeforeMore
<1> QED
  BY <1>3, <1>4, <1>6, <1>7 DEF T, U

\* f takes the place of a.
LEMMA Replaced ==
    ASSUME NEW S \in SUBSET Nat, NEW a \in S, NEW f \in Nat \ S,
           a < f, \A x \in S : a < x => f < x,
           NEW head, NEW next, NEW prev, NEW newHead, NEW newNext, NEW newPrev,
           List(head, next, prev, S),
           newHead = IF prev[a] = Null THEN f ELSE head,
           newNext[f] = next[a], newPrev[f] = prev[a],
           Written(S \ {a}, newNext, next, prev[a], f),
           Written(S \ {a}, newPrev, prev, next[a], f)
    PROVE  List(newHead, newNext, newPrev, (S \ {a}) \cup {f})
<1> DEFINE U == (S \ {a}) \cup {f}
           b == prev[a]
           c == next[a]
<1> HIDE DEF b, c
<1>1. /\ Null \notin S /\ After(c, S, a) /\ Before(b, S, a) /\ \A x \in S : x \in Nat
  BY DEF List, Null, b, c
<1>2. /\ After(f, U, b) /\ After(c, U, f)
      /\ \A x \in (S \ {a}) \cup {Null} : \A p :
            x # b /\ After(p, S, x) => After(p, U, x)
      /\ c # Null => Before(f, U, c)
      /\ Before(b, U, f)
      /\ \A x \in S \ {a} : \A p : x # c /\ Before(p, S, x) => Before(p, U, x)
  BY <1>1, Shifted
<1> HIDE DEF U
<1> USE DEF b, c
<1>3. After(newHead, U, Null)
  BY <1>2 DEF List
<1>4. ASSUME NEW x \in S \ {a} PROVE After(newNext[x], U, x)
  <2>1. After(next[x], S, x)
    BY DEF List
  <2>2. CASE x = b
    BY <1>2, <2>2 DEF Written
  <2>3. CASE x # b
    BY <1>2, <2>1, <2>3 DEF Written
  <2> QED
    BY <2>2, <2>3
<1>5. ASSUME NEW x \in S \ {a} PROVE Before(newPrev[x], U, x)
  <2>1. Before(prev[x], S, x)
    BY DEF List
  <2>2. CASE x = c
    BY <1>1, <1>2, <2>2 DEF Written
  <2>3. CASE x # c
    BY <1>2, <2>1, <2>3 DEF Written
  <2> QED
    BY <2>2, <2>3
<1> QED
  BY <1>2, <1>3, <1>4, <1>5 DEF List, U

\* Writes to other elements do not matter.
LEMMA Kept ==
    ASSUME NEW S, NEW head, NEW next, NEW prev, NEW newHead, NEW newNext, NEW newPrev,
           List(head, next, prev, S), newHead = head,
           \A x \in S : newNext[x] = next[x] /\ newPrev[x] = prev[x]
    PROVE  List(newHead, newNext, newPrev, S)
  BY DEF List

-----------------------------------------------------------------------------
(* The statements on the lists: the one that is relinked changes as it     *)
(* should, and the other is not touched.                                   *)

\* Where a block starts is an address, and Null is none.
LEMMA NullIsNoStart == Null \notin Starts /\ \A a \in Starts : a \in Nat
  BY StartsWhole DEF Null

\* The fields of a heap.
LEMMA Fields ==
    ASSUME NEW h \in Heaps
    PROVE  /\ h.end \in HeapSizes /\ h.free_head \in Pointers /\ h.full_head \in Pointers
           /\ h.next \in [Starts -> Pointers] /\ h.prev \in [Starts -> Pointers]
           /\ h.size \in [Starts -> Nat]
  BY DEF Heaps

\* A write through a pointer to prev, if the pointer is not Null.
LEMMA SetPrevFields ==
    ASSUME NEW h \in Heaps, NEW a \in Pointers, NEW b \in Pointers, NEW k,
           k = SetPrev(h, a, b)
    PROVE  /\ k \in Heaps
           /\ k.end = h.end /\ k.size = h.size /\ k.next = h.next
           /\ k.free_head = h.free_head /\ k.full_head = h.full_head
           /\ Written(Starts, k.prev, h.prev, a, b)
<1>1. CASE a = Null
  BY <1>1, NullIsNoStart DEF SetPrev, Written
<1>2. CASE a # Null
  <2>1. a \in Starts /\ h.prev \in [Starts -> Pointers]
    BY <1>2, Fields DEF Pointers
  <2> DEFINE v == [h.prev EXCEPT ![a] = b]
  <2>2. v \in [Starts -> Pointers] /\ Written(Starts, v, h.prev, a, b)
    BY <2>1 DEF Written
  <2>3. k = [h EXCEPT !.prev = v]
    BY <1>2 DEF SetPrev
  <2> HIDE DEF v
  <2>4. /\ k \in Heaps /\ k.prev = v
        /\ k.end = h.end /\ k.size = h.size /\ k.next = h.next
        /\ k.free_head = h.free_head /\ k.full_head = h.full_head
    BY <2>2, <2>3 DEF Heaps
  <2> QED
    BY <2>2, <2>4
<1> QED
  BY <1>1, <1>2

\* A write to next, or to the head of the free list if the pointer is Null.
LEMMA LinkFreeFields ==
    ASSUME NEW h \in Heaps, NEW a \in Pointers, NEW b \in Pointers, NEW k,
           k = LinkFree(h, a, b)
    PROVE  /\ k \in Heaps
           /\ k.end = h.end /\ k.size = h.size /\ k.prev = h.prev
           /\ k.free_head = IF a = Null THEN b ELSE h.free_head
           /\ k.full_head = h.full_head
           /\ Written(Starts, k.next, h.next, a, b)
<1>1. CASE a = Null
  <2>1. k = [h EXCEPT !.free_head = b]
    BY <1>1 DEF LinkFree
  <2>2. /\ k \in Heaps /\ k.free_head = b
        /\ k.end = h.end /\ k.size = h.size /\ k.next = h.next /\ k.prev = h.prev
        /\ k.full_head = h.full_head
    BY <2>1 DEF Heaps
  <2> QED
    BY <1>1, <2>2, NullIsNoStart DEF Written
<1>2. CASE a # Null
  <2>1. a \in Starts /\ h.next \in [Starts -> Pointers]
    BY <1>2, Fields DEF Pointers
  <2> DEFINE v == [h.next EXCEPT ![a] = b]
  <2>2. v \in [Starts -> Pointers] /\ Written(Starts, v, h.next, a, b)
    BY <2>1 DEF Written
  <2>3. k = [h EXCEPT !.next = v]
    BY <1>2 DEF LinkFree, SetNext
  <2> HIDE DEF v
  <2>4. /\ k \in Heaps /\ k.next = v
        /\ k.end = h.end /\ k.size = h.size /\ k.prev = h.prev
        /\ k.free_head = h.free_head /\ k.full_head = h.full_head
    BY <2>2, <2>3 DEF Heaps
  <2> QED
    BY <1>2, <2>2, <2>4
<1> QED
  BY <1>1, <1>2

\* The same for the full list.
LEMMA LinkFullFields ==
    ASSUME NEW h \in Heaps, NEW a \in Pointers, NEW b \in Pointers, NEW k,
           k = LinkFull(h, a, b)
    PROVE  /\ k \in Heaps
           /\ k.end = h.end /\ k.size = h.size /\ k.prev = h.prev
           /\ k.full_head = IF a = Null THEN b ELSE h.full_head
           /\ k.free_head = h.free_head
           /\ Written(Starts, k.next, h.next, a, b)
<1>1. CASE a = Null
  <2>1. k = [h EXCEPT !.full_head = b]
    BY <1>1 DEF LinkFull
  <2>2. /\ k \in Heaps /\ k.full_head = b
        /\ k.end = h.end /\ k.size = h.size /\ k.next = h.next /\ k.prev = h.prev
        /\ k.free_head = h.free_head
    BY <2>1 DEF Heaps
  <2> QED
    BY <1>1, <2>2, NullIsNoStart DEF Written
<1>2. CASE a # Null
  <2>1. a \in Starts /\ h.next \in [Starts -> Pointers]
    BY <1>2, Fields DEF Pointers
  <2> DEFINE v == [h.next EXCEPT ![a] = b]
  <2>2. v \in [Starts -> Pointers] /\ Written(Starts, v, h.next, a, b)
    BY <2>1 DEF Written
  <2>3. k = [h EXCEPT !.next = v]
    BY <1>2 DEF LinkFull, SetNext
  <2> HIDE DEF v
  <2>4. /\ k \in Heaps /\ k.next = v
        /\ k.end = h.end /\ k.size = h.size /\ k.prev = h.prev
        /\ k.free_head = h.free_head /\ k.full_head = h.full_head
    BY <2>2, <2>3 DEF Heaps
  <2> QED
    BY <1>2, <2>2, <2>4
<1> QED
  BY <1>1, <1>2

\* A header that nothing points to gets its pointers.
Header(h, a, b, c) == [h EXCEPT !.next[a] = c, !.prev[a] = b]

\* The header has them, and nothing else changes.
LEMMA HeaderFields ==
    ASSUME NEW h \in Heaps, NEW a \in Starts, NEW b \in Pointers, NEW c \in Pointers, NEW k,
           k = Header(h, a, b, c)
    PROVE  /\ k \in Heaps
           /\ k.end = h.end /\ k.size = h.size
           /\ k.free_head = h.free_head /\ k.full_head = h.full_head
           /\ Written(Starts, k.next, h.next, a, c) /\ Written(Starts, k.prev, h.prev, a, b)
<1> DEFINE v == [h.next EXCEPT ![a] = c]
           w == [h.prev EXCEPT ![a] = b]
<1>1. /\ v \in [Starts -> Pointers] /\ Written(Starts, v, h.next, a, c)
      /\ w \in [Starts -> Pointers] /\ Written(Starts, w, h.prev, a, b)
  BY Fields DEF Written
<1>2. k = [h EXCEPT !.next = v, !.prev = w]
  BY DEF Header
<1> HIDE DEF v, w
<1>3. /\ k \in Heaps /\ k.next = v /\ k.prev = w
      /\ k.end = h.end /\ k.size = h.size
      /\ k.free_head = h.free_head /\ k.full_head = h.full_head
  BY <1>1, <1>2 DEF Heaps
<1> QED
  BY <1>1, <1>3

\* What comes after a and what comes before it are in S, and are not a.
LEMMA Neighbours ==
    ASSUME NEW S, \A x \in S : x \in Nat, NEW a \in Nat, NEW p, NEW q,
           After(p, S, a), Before(q, S, a)
    PROVE  /\ p \in S \cup {Null} /\ p # a /\ q \in S \cup {Null} /\ q # a
           /\ p # Null => p # q
  BY DEF After, Before, Null

\* The neighbours of a header in its list are in that list.
LEMMA InList ==
    ASSUME NEW head, NEW next, NEW prev, NEW S, S \subseteq Nat, List(head, next, prev, S)
    PROVE  /\ head \in S \cup {Null}
           /\ \A a \in S : /\ next[a] \in S \cup {Null} /\ next[a] # a
                           /\ prev[a] \in S \cup {Null} /\ prev[a] # a
                           /\ next[a] # Null => prev[a] # next[a]
<1>1. After(head, S, Null) /\ \A a \in S : After(next[a], S, a) /\ Before(prev[a], S, a)
  BY DEF List
<1>2. head \in S \cup {Null}
  BY <1>1 DEF After
<1>3. ASSUME NEW a \in S
      PROVE  /\ next[a] \in S \cup {Null} /\ next[a] # a
             /\ prev[a] \in S \cup {Null} /\ prev[a] # a
             /\ next[a] # Null => prev[a] # next[a]
  BY <1>1, Neighbours
<1> QED
  BY <1>2, <1>3

\* a leaves the free list: the two lists that are left are in order.
LEMMA UnlinkFreeLists ==
    ASSUME NEW h, NEW F, NEW G, Lists(h, F, G), NEW a \in G, NEW k, k = UnlinkFree(h, a)
    PROVE  Lists(k, F, G \ {a}) /\ k.end = h.end /\ k.size = h.size
<1> DEFINE b == h.prev[a]
           c == h.next[a]
           g == LinkFree(h, b, c)
<1>1. /\ h \in Heaps /\ F \subseteq Starts /\ G \subseteq Starts /\ F \cap G = {}
      /\ List(h.full_head, h.next, h.prev, F) /\ List(h.free_head, h.next, h.prev, G)
      /\ F \subseteq Nat /\ G \subseteq Nat
  BY NullIsNoStart DEF Lists
<1>2. b \in G \cup {Null} /\ c \in G \cup {Null}
  BY <1>1, InList, ZenonT(60)
<1>3. k = SetPrev(g, c, b)
  BY DEF UnlinkFree
<1> HIDE DEF b, c, g
<1>. b \in Pointers /\ c \in Pointers
  BY <1>1, <1>2 DEF Pointers
<1>4. /\ g \in Heaps
      /\ g.end = h.end /\ g.size = h.size /\ g.prev = h.prev
      /\ g.free_head = IF b = Null THEN c ELSE h.free_head
      /\ g.full_head = h.full_head
      /\ Written(Starts, g.next, h.next, b, c)
  BY <1>1, <1>2, LinkFreeFields DEF g
<1>5. /\ k \in Heaps
      /\ k.end = g.end /\ k.size = g.size /\ k.next = g.next
      /\ k.free_head = g.free_head /\ k.full_head = g.full_head
      /\ Written(Starts, k.prev, g.prev, c, b)
  BY <1>2, <1>3, <1>4, SetPrevFields
<1>6. List(k.free_head, k.next, k.prev, G \ {a})
  <2>1. /\ k.free_head = IF b = Null THEN c ELSE h.free_head
        /\ Written(G \ {a}, k.next, h.next, b, c)
        /\ Written(G \ {a}, k.prev, h.prev, c, b)
    BY <1>1, <1>4, <1>5 DEF Written
  <2>2. List(h.free_head, h.next, h.prev, G) /\ G \in SUBSET Nat
    BY <1>1
  <2> QED
    BY <2>1, <2>2, Removed DEF b, c
<1>7. List(k.full_head, k.next, k.prev, F)
  <2>1. \A x \in F : k.next[x] = h.next[x] /\ k.prev[x] = h.prev[x]
    BY <1>1, <1>2, <1>4, <1>5, NullIsNoStart DEF Written
  <2>2. k.full_head = h.full_head /\ List(h.full_head, h.next, h.prev, F)
    BY <1>1, <1>4, <1>5
  <2> QED
    BY <2>1, <2>2, Kept
<1> QED
  BY <1>1, <1>4, <1>5, <1>6, <1>7 DEF Lists

\* a leaves the full list.
LEMMA UnlinkFullLists ==
    ASSUME NEW h, NEW F, NEW G, Lists(h, F, G), NEW a \in F, NEW k, k = UnlinkFull(h, a)
    PROVE  Lists(k, F \ {a}, G) /\ k.end = h.end /\ k.size = h.size
<1> DEFINE b == h.prev[a]
           c == h.next[a]
           g == LinkFull(h, b, c)
<1>1. /\ h \in Heaps /\ F \subseteq Starts /\ G \subseteq Starts /\ F \cap G = {}
      /\ List(h.full_head, h.next, h.prev, F) /\ List(h.free_head, h.next, h.prev, G)
      /\ F \subseteq Nat /\ G \subseteq Nat
  BY NullIsNoStart DEF Lists
<1>2. b \in F \cup {Null} /\ c \in F \cup {Null}
  BY <1>1, InList, ZenonT(60)
<1>3. k = SetPrev(g, c, b)
  BY DEF UnlinkFull
<1> HIDE DEF b, c, g
<1>. b \in Pointers /\ c \in Pointers
  BY <1>1, <1>2 DEF Pointers
<1>4. /\ g \in Heaps
      /\ g.end = h.end /\ g.size = h.size /\ g.prev = h.prev
      /\ g.full_head = IF b = Null THEN c ELSE h.full_head
      /\ g.free_head = h.free_head
      /\ Written(Starts, g.next, h.next, b, c)
  BY <1>1, <1>2, LinkFullFields DEF g
<1>5. /\ k \in Heaps
      /\ k.end = g.end /\ k.size = g.size /\ k.next = g.next
      /\ k.free_head = g.free_head /\ k.full_head = g.full_head
      /\ Written(Starts, k.prev, g.prev, c, b)
  BY <1>2, <1>3, <1>4, SetPrevFields
<1>6. List(k.full_head, k.next, k.prev, F \ {a})
  <2>1. /\ k.full_head = IF b = Null THEN c ELSE h.full_head
        /\ Written(F \ {a}, k.next, h.next, b, c)
        /\ Written(F \ {a}, k.prev, h.prev, c, b)
    BY <1>1, <1>4, <1>5 DEF Written
  <2>2. List(h.full_head, h.next, h.prev, F) /\ F \in SUBSET Nat
    BY <1>1
  <2> QED
    BY <2>1, <2>2, Removed DEF b, c
<1>7. List(k.free_head, k.next, k.prev, G)
  <2>1. \A x \in G : k.next[x] = h.next[x] /\ k.prev[x] = h.prev[x]
    BY <1>1, <1>2, <1>4, <1>5, NullIsNoStart DEF Written
  <2>2. k.free_head = h.free_head /\ List(h.free_head, h.next, h.prev, G)
    BY <1>1, <1>4, <1>5
  <2> QED
    BY <2>1, <2>2, Kept
<1> QED
  BY <1>1, <1>4, <1>5, <1>6, <1>7 DEF Lists

\* a enters the free list between b and c.
LEMMA InsertFreeLists ==
    ASSUME NEW h, NEW F, NEW G, Lists(h, F, G), NEW a \in Starts \ (F \cup G), NEW b, NEW c,
           Before(b, G, a), After(c, G, a), NEW k, k = InsertFree(h, a, b, c)
    PROVE  /\ Lists(k, F, G \cup {a})
           /\ k.end = h.end /\ k.size = h.size /\ k.next[a] = c /\ k.prev[a] = b
<1> DEFINE e == Header(h, a, b, c)
           g == SetPrev(e, c, a)
<1>1. /\ h \in Heaps /\ F \subseteq Starts /\ G \subseteq Starts /\ F \cap G = {}
      /\ List(h.full_head, h.next, h.prev, F) /\ List(h.free_head, h.next, h.prev, G)
      /\ \A x \in F : x \in Nat
      /\ \A x \in G : x \in Nat
      /\ a \in Nat
  BY NullIsNoStart DEF Lists
<1>2. /\ b \in G \cup {Null} /\ c \in G \cup {Null} /\ b # a /\ c # a
  BY <1>1, Neighbours
<1>3. b \in Pointers /\ c \in Pointers /\ a \in Pointers
  BY <1>1, <1>2 DEF Pointers
<1>4. k = LinkFree(g, b, a)
  BY DEF InsertFree, Header
<1> HIDE DEF e, g
<1>5. /\ e \in Heaps
      /\ e.end = h.end /\ e.size = h.size
      /\ e.free_head = h.free_head /\ e.full_head = h.full_head
      /\ Written(Starts, e.next, h.next, a, c) /\ Written(Starts, e.prev, h.prev, a, b)
  BY <1>1, <1>3, HeaderFields DEF e
<1>6. /\ g \in Heaps
      /\ g.end = e.end /\ g.size = e.size /\ g.next = e.next
      /\ g.free_head = e.free_head /\ g.full_head = e.full_head
      /\ Written(Starts, g.prev, e.prev, c, a)
  BY <1>3, <1>5, SetPrevFields DEF g
<1>7. /\ k \in Heaps
      /\ k.end = g.end /\ k.size = g.size /\ k.prev = g.prev
      /\ k.free_head = IF b = Null THEN a ELSE g.free_head
      /\ k.full_head = g.full_head
      /\ Written(Starts, k.next, g.next, b, a)
  <2>1. g \in Heaps
    BY <1>6
  <2> QED
    BY <2>1, <1>3, <1>4, LinkFreeFields
<1>8. List(k.free_head, k.next, k.prev, G \cup {a})
  <2>1. /\ k.free_head = IF b = Null THEN a ELSE h.free_head
        /\ k.next[a] = c /\ k.prev[a] = b
    BY <1>2, <1>5, <1>6, <1>7 DEF Written
  <2>2. /\ Written(G, k.next, h.next, b, a)
        /\ Written(G, k.prev, h.prev, c, a)
    BY <1>1, <1>5, <1>6, <1>7 DEF Written
  <2>3. List(h.free_head, h.next, h.prev, G) /\ G \in SUBSET Nat /\ a \in Nat \ G
    BY <1>1
  <2> QED
    BY <2>1, <2>2, <2>3, Inserted
<1>9. List(k.full_head, k.next, k.prev, F)
  <2>1. \A x \in F : k.next[x] = h.next[x] /\ k.prev[x] = h.prev[x]
    BY <1>1, <1>2, <1>5, <1>6, <1>7, NullIsNoStart DEF Written
  <2>2. k.full_head = h.full_head /\ List(h.full_head, h.next, h.prev, F)
    BY <1>1, <1>5, <1>6, <1>7
  <2> QED
    BY <2>1, <2>2, Kept
<1> QED
  BY <1>1, <1>2, <1>5, <1>6, <1>7, <1>8, <1>9 DEF Lists, Written

\* a enters the full list between b and c.
LEMMA InsertFullLists ==
    ASSUME NEW h, NEW F, NEW G, Lists(h, F, G), NEW a \in Starts \ (F \cup G), NEW b, NEW c,
           Before(b, F, a), After(c, F, a), NEW k, k = InsertFull(h, a, b, c)
    PROVE  /\ Lists(k, F \cup {a}, G)
           /\ k.end = h.end /\ k.size = h.size /\ k.next[a] = c /\ k.prev[a] = b
<1> DEFINE e == Header(h, a, b, c)
           g == SetPrev(e, c, a)
<1>1. /\ h \in Heaps /\ F \subseteq Starts /\ G \subseteq Starts /\ F \cap G = {}
      /\ List(h.full_head, h.next, h.prev, F) /\ List(h.free_head, h.next, h.prev, G)
      /\ \A x \in F : x \in Nat
      /\ \A x \in G : x \in Nat
      /\ a \in Nat
  BY NullIsNoStart DEF Lists
<1>2. /\ b \in F \cup {Null} /\ c \in F \cup {Null} /\ b # a /\ c # a
  BY <1>1, Neighbours
<1>3. b \in Pointers /\ c \in Pointers /\ a \in Pointers
  BY <1>1, <1>2 DEF Pointers
<1>4. k = LinkFull(g, b, a)
  BY DEF InsertFull, Header
<1> HIDE DEF e, g
<1>5. /\ e \in Heaps
      /\ e.end = h.end /\ e.size = h.size
      /\ e.free_head = h.free_head /\ e.full_head = h.full_head
      /\ Written(Starts, e.next, h.next, a, c) /\ Written(Starts, e.prev, h.prev, a, b)
  BY <1>1, <1>3, HeaderFields DEF e
<1>6. /\ g \in Heaps
      /\ g.end = e.end /\ g.size = e.size /\ g.next = e.next
      /\ g.free_head = e.free_head /\ g.full_head = e.full_head
      /\ Written(Starts, g.prev, e.prev, c, a)
  BY <1>3, <1>5, SetPrevFields DEF g
<1>7. /\ k \in Heaps
      /\ k.end = g.end /\ k.size = g.size /\ k.prev = g.prev
      /\ k.full_head = IF b = Null THEN a ELSE g.full_head
      /\ k.free_head = g.free_head
      /\ Written(Starts, k.next, g.next, b, a)
  <2>1. g \in Heaps
    BY <1>6
  <2> QED
    BY <2>1, <1>3, <1>4, LinkFullFields
<1>8. List(k.full_head, k.next, k.prev, F \cup {a})
  <2>1. /\ k.full_head = IF b = Null THEN a ELSE h.full_head
        /\ k.next[a] = c /\ k.prev[a] = b
    BY <1>2, <1>5, <1>6, <1>7 DEF Written
  <2>2. /\ Written(F, k.next, h.next, b, a)
        /\ Written(F, k.prev, h.prev, c, a)
    BY <1>1, <1>5, <1>6, <1>7 DEF Written
  <2>3. List(h.full_head, h.next, h.prev, F) /\ F \in SUBSET Nat /\ a \in Nat \ F
    BY <1>1
  <2> QED
    BY <2>1, <2>2, <2>3, Inserted
<1>9. List(k.free_head, k.next, k.prev, G)
  <2>1. \A x \in G : k.next[x] = h.next[x] /\ k.prev[x] = h.prev[x]
    BY <1>1, <1>2, <1>5, <1>6, <1>7, NullIsNoStart DEF Written
  <2>2. k.free_head = h.free_head /\ List(h.free_head, h.next, h.prev, G)
    BY <1>1, <1>5, <1>6, <1>7
  <2> QED
    BY <2>1, <2>2, Kept
<1> QED
  BY <1>1, <1>2, <1>5, <1>6, <1>7, <1>8, <1>9 DEF Lists, Written

\* Sizes are no pointers.
LEMMA ResizedLists ==
    ASSUME NEW h, NEW F, NEW G, Lists(h, F, G), NEW v \in [Starts -> Nat],
           NEW k, k = [h EXCEPT !.size = v]
    PROVE  Lists(k, F, G) /\ k.end = h.end /\ k.size = v /\ k.next = h.next /\ k.prev = h.prev
<1>1. h \in Heaps
  BY DEF Lists
<1>2. /\ k \in Heaps /\ k.next = h.next /\ k.prev = h.prev /\ k.end = h.end /\ k.size = v
      /\ k.free_head = h.free_head /\ k.full_head = h.full_head
  BY <1>1 DEF Heaps
<1> QED
  BY <1>2 DEF Lists

\* The free block n blocks on takes the place of a.
LEMMA SplitLists ==
    ASSUME NEW h, NEW F, NEW G, Lists(h, F, G), NEW a \in G, NEW n \in Nat, NEW f,
           f = a + n * BlockSize, f \in Starts \ (F \cup G),
           a < f, \A x \in G : a < x => f < x,
           h.size[a] - n * BlockSize \in Nat,
           NEW k, k = Split(h, a, n)
    PROVE  /\ Lists(k, F, (G \ {a}) \cup {f})
           /\ k.end = h.end
           /\ k.size = [h.size EXCEPT ![f] = h.size[a] - n * BlockSize]
<1> DEFINE b == h.prev[a]
           c == h.next[a]
           v == [h.size EXCEPT ![f] = h.size[a] - n * BlockSize]
           d == [h EXCEPT !.size = v]
           e == Header(d, f, b, c)
           g == SetPrev(e, c, f)
<1>1. /\ h \in Heaps /\ F \subseteq Starts /\ G \subseteq Starts /\ F \cap G = {}
      /\ List(h.full_head, h.next, h.prev, F) /\ List(h.free_head, h.next, h.prev, G)
      /\ F \subseteq Nat /\ G \subseteq Nat
  BY NullIsNoStart DEF Lists
<1>2. b \in G \cup {Null} /\ c \in G \cup {Null}
  BY <1>1, InList, ZenonT(60)
<1>3. k = LinkFree(g, b, f)
  BY DEF Split, Header
<1>4. v \in [Starts -> Nat]
  BY <1>1, Fields
<1> HIDE DEF b, c, v, e, g
<1>5. d \in Heaps /\ d.end = h.end /\ d.size = v /\ d.next = h.next /\ d.prev = h.prev
      /\ d.free_head = h.free_head /\ d.full_head = h.full_head
  BY <1>1, <1>4 DEF Heaps
<1> HIDE DEF d
<1>6. b \in Pointers /\ c \in Pointers /\ f \in Pointers /\ f # b /\ f # c /\ f # Null
  BY <1>1, <1>2, NullIsNoStart DEF Pointers
<1>7. /\ e \in Heaps
      /\ e.end = d.end /\ e.size = d.size
      /\ e.free_head = d.free_head /\ e.full_head = d.full_head
      /\ Written(Starts, e.next, d.next, f, c) /\ Written(Starts, e.prev, d.prev, f, b)
  BY <1>5, <1>6, HeaderFields DEF e
<1>8. /\ g \in Heaps
      /\ g.end = e.end /\ g.size = e.size /\ g.next = e.next
      /\ g.free_head = e.free_head /\ g.full_head = e.full_head
      /\ Written(Starts, g.prev, e.prev, c, f)
  BY <1>6, <1>7, SetPrevFields DEF g
<1>9. /\ k \in Heaps
      /\ k.end = g.end /\ k.size = g.size /\ k.prev = g.prev
      /\ k.free_head = IF b = Null THEN f ELSE g.free_head
      /\ k.full_head = g.full_head
      /\ Written(Starts, k.next, g.next, b, f)
  <2>1. g \in Heaps /\ b \in Pointers /\ f \in Pointers
    BY <1>6, <1>8
  <2> QED
    BY <1>3, <2>1, LinkFreeFields
<1>10. List(k.free_head, k.next, k.prev, (G \ {a}) \cup {f})
  <2>1. /\ k.free_head = IF b = Null THEN f ELSE h.free_head
        /\ k.next[f] = c /\ k.prev[f] = b
    BY <1>5, <1>6, <1>7, <1>8, <1>9 DEF Written
  <2>2. /\ Written(G \ {a}, k.next, h.next, b, f)
        /\ Written(G \ {a}, k.prev, h.prev, c, f)
    BY <1>1, <1>5, <1>7, <1>8, <1>9 DEF Written
  <2>3. List(h.free_head, h.next, h.prev, G) /\ G \in SUBSET Nat /\ f \in Nat \ G
    BY <1>1, NullIsNoStart
  <2> QED
    BY <2>1, <2>2, <2>3, Replaced DEF b, c
<1>11. List(k.full_head, k.next, k.prev, F)
  <2>1. \A x \in F : k.next[x] = h.next[x] /\ k.prev[x] = h.prev[x]
    BY <1>1, <1>2, <1>5, <1>7, <1>8, <1>9, NullIsNoStart DEF Written
  <2>2. k.full_head = h.full_head /\ List(h.full_head, h.next, h.prev, F)
    BY <1>1, <1>5, <1>7, <1>8, <1>9
  <2> QED
    BY <2>1, <2>2, Kept
<1>12. k.end = h.end /\ k.size = v
  BY <1>5, <1>7, <1>8, <1>9
<1> QED
  BY <1>1, <1>9, <1>10, <1>11, <1>12 DEF Lists, v

\* c leaves the free list, and its size goes to b.
LEMMA AbsorbLists ==
    ASSUME NEW h, NEW F, NEW G, Lists(h, F, G), NEW b \in G, NEW c \in G, b # c,
           NEW k, k = Absorb(h, b, c)
    PROVE  /\ Lists(k, F, G \ {c})
           /\ k.end = h.end
           /\ k.size = [h.size EXCEPT ![b] = h.size[b] + h.size[c], ![c] = 0]
<1> DEFINE v == [h.size EXCEPT ![b] = h.size[b] + h.size[c]]
           e == [h EXCEPT !.size = v]
           g == UnlinkFree(e, c)
           w == [g.size EXCEPT ![c] = 0]
           d == [g EXCEPT !.size = w]
<1>1. /\ h \in Heaps /\ F \subseteq Starts /\ G \subseteq Starts /\ F \cap G = {}
      /\ h.size \in [Starts -> Nat]
  BY Fields DEF Lists
<1>2. v \in [Starts -> Nat]
  BY <1>1
<1>3. k = Header(d, c, Null, Null)
  BY DEF Absorb, Header
<1> HIDE DEF v
<1>4. Lists(e, F, G) /\ e.end = h.end /\ e.size = v
  BY <1>2, ResizedLists
<1> HIDE DEF e
<1>5. Lists(g, F, G \ {c}) /\ g.end = h.end /\ g.size = v
  BY <1>4, UnlinkFreeLists
<1>6. w \in [Starts -> Nat] /\ w = [v EXCEPT ![c] = 0]
  BY <1>2, <1>5
<1> HIDE DEF g, w
<1>7. Lists(d, F, G \ {c}) /\ d.end = h.end /\ d.size = w
  BY <1>5, <1>6, ResizedLists
<1> HIDE DEF d
<1>8. /\ d \in Heaps /\ F \subseteq Starts /\ G \ {c} \subseteq Starts /\ F \cap (G \ {c}) = {}
      /\ List(d.full_head, d.next, d.prev, F) /\ List(d.free_head, d.next, d.prev, G \ {c})
      /\ c \in Starts /\ c \notin F /\ Null \in Pointers
  BY <1>1, <1>7 DEF Lists, Pointers
<1>9. /\ k \in Heaps
      /\ k.end = d.end /\ k.size = d.size
      /\ k.free_head = d.free_head /\ k.full_head = d.full_head
      /\ Written(Starts, k.next, d.next, c, Null) /\ Written(Starts, k.prev, d.prev, c, Null)
  BY <1>3, <1>8, HeaderFields
<1>10. /\ \A x \in F : k.next[x] = d.next[x] /\ k.prev[x] = d.prev[x]
       /\ \A x \in G \ {c} : k.next[x] = d.next[x] /\ k.prev[x] = d.prev[x]
  BY <1>8, <1>9 DEF Written
<1>11. List(k.full_head, k.next, k.prev, F)
  BY <1>8, <1>9, <1>10, Kept
<1>12. List(k.free_head, k.next, k.prev, G \ {c})
  BY <1>8, <1>9, <1>10, Kept
<1>13. k.end = h.end /\ k.size = [h.size EXCEPT ![b] = h.size[b] + h.size[c], ![c] = 0]
  BY <1>6, <1>7, <1>9 DEF v
<1> QED
  BY <1>8, <1>9, <1>11, <1>12, <1>13 DEF Lists

-----------------------------------------------------------------------------
(* The tiling of the heap, when a block is split, given away or joined.    *)

BlocksOf(size) == {a \in Starts : size[a] > 0}

\* Every block of the heap is in one of the two lists, and together they cover
\* the heap.
Sane(h, F, G) ==
    /\ Lists(h, F, G)
    /\ BlocksOf(h.size) = F \cup G
    /\ Tiles(h.size, h.end, F \cup G)

\* f is m bytes on from a.
Further(f, a, m) == f = a + m

Covers(size, end, A) == Tiles(size, end, A) /\ BlocksOf(size) = A

\* a can keep m bytes, and leave room for a header.
Room(size, a, m) == 0 < m /\ Whole(m) /\ m + HeaderSize <= size[a]

\* f is between a and what comes after a in A.
Between(f, a, A) == f \in Starts \ A /\ a < f /\ \A x \in A : a < x => f < x

\* a keeps m bytes, and f gets the others.
Halved(new, size, a, m, f) ==
    /\ new[a] = m /\ new[f] = size[a] - m
    /\ \A x \in Starts \ {a, f} : new[x] = size[x]

\* A free block that is larger than m bytes and a header can be split there.
LEMMA SplitPoint ==
    ASSUME NEW size \in [Starts -> Nat], NEW end \in HeapSizes, NEW A, A = BlocksOf(size),
           Tiles(size, end, A), NEW a \in A, NEW m \in Nat, Room(size, a, m),
           NEW f, Further(f, a, m)
    PROVE  Between(f, a, A)
<1> USE SizesAssumption
<1>1. /\ a \in Starts /\ a \in Nat /\ end \in Nat /\ size[a] \in Nat /\ f \in Nat /\ f = a + m
      /\ \A x \in A : x \in Nat /\ x \in Starts /\ size[x] \in Nat /\ size[x] > 0
      /\ 0 < m /\ Whole(m) /\ m + HeaderSize <= size[a]
  BY NullIsNoStart DEF BlocksOf, Further, Room
<1>2. /\ a + size[a] <= end
      /\ \A x \in A : a < x => a + size[a] <= x
  BY DEF Tiles
<1>3. f \in Starts
  <2>1. Whole(a)
    BY <1>1, StartsWhole
  <2>2. Whole(f)
    BY <1>1, <2>1, WholeSum
  <2>3. f <= end
    BY <1>1, <1>2
  <2> QED
    BY <1>1, <2>2, <2>3, StartsWhole
<1>4. f \notin A /\ a < f /\ \A x \in A : a < x => f < x
  BY <1>1, <1>2
<1> QED
  BY <1>3, <1>4 DEF Between

\* When it is, the parts cover what the block covered.
LEMMA TilesSplit ==
    ASSUME NEW size \in [Starts -> Nat], NEW end \in HeapSizes, NEW A, A = BlocksOf(size),
           Tiles(size, end, A), NEW a \in A, NEW m \in Nat, Room(size, a, m),
           NEW f, Further(f, a, m), NEW new \in [Starts -> Nat], Halved(new, size, a, m, f)
    PROVE  Covers(new, end, A \cup {f})
<1> USE SizesAssumption
<1>1. /\ a \in Starts /\ a \in Nat /\ end \in Nat /\ size[a] \in Nat /\ f \in Nat /\ f = a + m
      /\ \A x \in A : x \in Nat /\ x \in Starts /\ size[x] \in Nat /\ size[x] > 0
      /\ 0 < m /\ Whole(m) /\ m + HeaderSize <= size[a]
  BY NullIsNoStart DEF BlocksOf, Further, Room
<1>2. /\ 0 \in A
      /\ a + size[a] <= end
      /\ \A x \in A : a < x => a + size[a] <= x
      /\ \A x \in A : x < a => x + size[x] <= a
      /\ a + size[a] \in A \/ end - (a + size[a]) < HeaderSize
      /\ Whole(size[a]) \/ a + size[a] = end
  BY DEF Tiles
<1>3. f \in Starts /\ f \notin A /\ a < f /\ \A x \in A : a < x => f < x
  BY SplitPoint DEF Between
<1>4. Whole(size[a]) => Whole(size[a] - m)
  BY <1>1, WholeSum
<1>5. /\ new[a] = m /\ new[f] = size[a] - m
      /\ \A x \in Starts \ {a, f} : new[x] = size[x]
  BY DEF Halved
<1>6. BlocksOf(new) = A \cup {f}
  <2>1. ASSUME NEW x \in Starts PROVE new[x] > 0 <=> x \in A \cup {f}
    <3>1. x = a \/ x = f \/ (new[x] = size[x] /\ x \notin {a, f})
      BY <1>5
    <3>2. size[x] > 0 <=> x \in A
      BY DEF BlocksOf
    <3>3. new[a] > 0 /\ new[f] > 0
      BY <1>1, <1>5
    <3> QED
      BY <3>1, <3>2, <3>3
  <2> QED
    BY <1>1, <1>3, <2>1 DEF BlocksOf
<1>7. ASSUME NEW x \in A \ {a}
      PROVE  /\ x + new[x] <= end
             /\ \A b \in A \cup {f} : x < b => x + new[x] <= b
             /\ x + new[x] \in A \cup {f} \/ end - (x + new[x]) < HeaderSize
             /\ Whole(new[x]) \/ x + new[x] = end
  <2>1. /\ new[x] = size[x] /\ x \in Nat /\ size[x] \in Nat
        /\ x + size[x] <= end
        /\ \A b \in A : x < b => x + size[x] <= b
        /\ x + size[x] \in A \/ end - (x + size[x]) < HeaderSize
        /\ Whole(size[x]) \/ x + size[x] = end
    BY <1>1, <1>3, <1>5 DEF Tiles
  <2>2. x < f => x + size[x] <= f
    BY <1>1, <1>2, <1>3, <2>1
  <2> QED
    BY <2>1, <2>2
<1>8. /\ a + new[a] <= end
      /\ \A b \in A \cup {f} : a < b => a + new[a] <= b
      /\ a + new[a] \in A \cup {f} \/ end - (a + new[a]) < HeaderSize
      /\ Whole(new[a]) \/ a + new[a] = end
  BY <1>1, <1>2, <1>3, <1>5
<1>9. /\ f + new[f] <= end
      /\ \A b \in A \cup {f} : f < b => f + new[f] <= b
      /\ f + new[f] \in A \cup {f} \/ end - (f + new[f]) < HeaderSize
      /\ Whole(new[f]) \/ f + new[f] = end
  <2>1. f + new[f] = a + size[a]
    BY <1>1, <1>5
  <2>2. \A b \in A : f < b => f + new[f] <= b
    BY <1>1, <1>2, <1>3, <2>1
  <2> QED
    BY <1>1, <1>2, <1>4, <1>5, <2>1, <2>2
<1> QED
  BY <1>2, <1>6, <1>7, <1>8, <1>9 DEF Tiles, Covers

\* a keeps m bytes, and too few are left for a header: none, but at the end.
LEMMA TilesCut ==
    ASSUME NEW size \in [Starts -> Nat], NEW end \in HeapSizes, NEW A, A = BlocksOf(size),
           Tiles(size, end, A), NEW a \in A, NEW m \in Nat, 0 < m, Whole(m),
           m <= size[a], size[a] < m + HeaderSize,
           NEW new \in [Starts -> Nat], new[a] = m, \A x \in Starts \ {a} : new[x] = size[x]
    PROVE  Tiles(new, end, A) /\ BlocksOf(new) = A
<1> USE SizesAssumption
<1>1. /\ a \in Starts /\ a \in Nat /\ end \in Nat /\ size[a] \in Nat
      /\ \A x \in A : x \in Nat /\ x \in Starts /\ size[x] \in Nat /\ size[x] > 0
  BY NullIsNoStart DEF BlocksOf
<1>2. m = size[a] \/ a + size[a] = end
  <2>1. Whole(size[a]) => Whole(size[a] - m)
    BY <1>1, WholeSum
  <2>2. Whole(size[a]) => size[a] - m = 0
    BY <1>1, <2>1, WholeLess
  <2> QED
    BY <1>1, <2>2 DEF Tiles
<1>3. BlocksOf(new) = A
  <2>1. ASSUME NEW x \in Starts PROVE new[x] > 0 <=> x \in A
    <3>1. x = a \/ new[x] = size[x]
      OBVIOUS
    <3>2. size[x] > 0 <=> x \in A
      BY DEF BlocksOf
    <3> QED
      BY <3>1, <3>2
  <2> QED
    BY <1>1, <2>1 DEF BlocksOf
<1>4. /\ a + new[a] <= end
      /\ \A b \in A : a < b => a + new[a] <= b
      /\ a + new[a] \in A \/ end - (a + new[a]) < HeaderSize
  BY <1>1, <1>2 DEF Tiles
<1>5. ASSUME NEW x \in A \ {a} PROVE new[x] = size[x]
  BY <1>1
<1> QED
  BY <1>3, <1>4, <1>5 DEF Tiles

\* b takes over c, its neighbour.
Joined(new, size, b, c) ==
    /\ new[b] = size[b] + size[c] /\ new[c] = 0
    /\ \A x \in Starts \ {b, c} : new[x] = size[x]

\* When it does, the blocks that are left cover the heap.
LEMMA TilesJoin ==
    ASSUME NEW size \in [Starts -> Nat], NEW end \in HeapSizes, NEW A, A = BlocksOf(size),
           Tiles(size, end, A), NEW b \in A, NEW c \in A, Touch(size, b, c),
           NEW new \in [Starts -> Nat], Joined(new, size, b, c)
    PROVE  Tiles(new, end, A \ {c}) /\ BlocksOf(new) = A \ {c}
<1> USE SizesAssumption
<1>1. /\ end \in Nat
      /\ \A x \in A : x \in Nat /\ x \in Starts /\ size[x] \in Nat /\ size[x] > 0
      /\ b < c /\ b + size[b] = c
      /\ new[b] = size[b] + size[c] /\ new[c] = 0
      /\ \A x \in Starts \ {b, c} : new[x] = size[x]
  BY NullIsNoStart DEF BlocksOf, Touch, Joined
<1>2. BlocksOf(new) = A \ {c}
  BY <1>1 DEF BlocksOf
<1>3. 0 \in A \ {c}
  BY <1>1 DEF Tiles
<1>4. /\ c + size[c] <= end
      /\ \A x \in A : c < x => c + size[c] <= x
      /\ \A x \in A : b < x => c <= x
      /\ c + size[c] \in A \ {c} \/ end - (c + size[c]) < HeaderSize
      /\ Whole(size[b])
      /\ Whole(size[c]) \/ c + size[c] = end
  BY <1>1 DEF Tiles
<1>5. /\ b + new[b] = c + size[c]
      /\ b + new[b] <= end
      /\ \A x \in A \ {c} : b < x => b + new[b] <= x
      /\ b + new[b] \in A \ {c} \/ end - (b + new[b]) < HeaderSize
      /\ Whole(new[b]) \/ b + new[b] = end
  <2>1. b + new[b] = c + size[c]
    BY <1>1
  <2>2. \A x \in A \ {c} : b < x => c + size[c] <= x
    BY <1>1, <1>4
  <2>3. Whole(size[c]) => Whole(new[b])
    BY <1>1, <1>4, WholeSum
  <2> QED
    BY <1>4, <2>1, <2>2, <2>3
<1>6. ASSUME NEW x \in A \ {b, c}
      PROVE  /\ x + new[x] <= end
             /\ \A y \in A \ {c} : x < y => x + new[x] <= y
             /\ x + new[x] \in A \ {c} \/ end - (x + new[x]) < HeaderSize
             /\ Whole(new[x]) \/ x + new[x] = end
  <2>1. /\ new[x] = size[x] /\ x \in Nat /\ size[x] \in Nat
        /\ x + size[x] <= end
        /\ \A y \in A : x < y => x + size[x] <= y
        /\ x + size[x] \in A \/ end - (x + size[x]) < HeaderSize
        /\ Whole(size[x]) \/ x + size[x] = end
    BY <1>1 DEF Tiles
  <2>2. x + size[x] # c
    BY <1>1, <1>4, <2>1
  <2> QED
    BY <2>1, <2>2
<1> QED
  BY <1>2, <1>3, <1>5, <1>6 DEF Tiles

-----------------------------------------------------------------------------
(* joinBlocks                                                              *)

\* What is used of it: blocks do not overlap, and have a size.
LEMMA SaneFacts ==
    ASSUME NEW h, NEW F, NEW G, Sane(h, F, G)
    PROVE  /\ h \in Heaps /\ h.size \in [Starts -> Nat] /\ h.end \in HeapSizes /\ h.end \in Nat
           /\ F \subseteq Starts /\ G \subseteq Starts /\ F \cap G = {}
           /\ \A x \in F \cup G : /\ x \in Nat /\ h.size[x] \in Nat /\ h.size[x] > 0
                                /\ x + h.size[x] <= h.end
           /\ \A x, y \in F \cup G : x < y => x + h.size[x] <= y
           /\ List(h.free_head, h.next, h.prev, G)
<1>1. /\ h \in Heaps /\ F \subseteq Starts /\ G \subseteq Starts /\ F \cap G = {}
      /\ List(h.free_head, h.next, h.prev, G)
  BY DEF Sane, Lists
<1>2. h.size \in [Starts -> Nat] /\ h.end \in HeapSizes /\ h.end \in Nat
  BY <1>1, Fields, SizesAssumption
<1>3. \A x \in F \cup G : x \in Starts /\ h.size[x] > 0
  BY DEF Sane, BlocksOf
<1>4. /\ \A x \in F \cup G : x + h.size[x] <= h.end
      /\ \A x, y \in F \cup G : x < y => x + h.size[x] <= y
  BY DEF Sane, Tiles
<1> QED
  BY <1>1, <1>2, <1>3, <1>4, NullIsNoStart

\* Absorb of two free neighbours leaves the heap in order.
LEMMA AbsorbSane ==
    ASSUME NEW h, NEW F, NEW G, Sane(h, F, G), NEW b \in G, NEW c \in G,
           Touch(h.size, b, c), NEW k, k = Absorb(h, b, c)
    PROVE  /\ Sane(k, F, G \ {c}) /\ k.end = h.end
           /\ k.size[b] = h.size[b] + h.size[c]
           /\ \A x \in G \ {b, c} : k.size[x] = h.size[x]
           /\ Same(k.size, h.size, F)
<1>1. /\ h.size \in [Starts -> Nat] /\ h.end \in HeapSizes
      /\ F \cap G = {} /\ F \cup G \subseteq Starts /\ b # c
      /\ b \in Starts /\ c \in Starts
  BY SaneFacts DEF Touch
<1>2. /\ Lists(h, F, G) /\ BlocksOf(h.size) = F \cup G /\ Tiles(h.size, h.end, F \cup G)
  BY DEF Sane
<1>3. /\ Lists(k, F, G \ {c})
      /\ k.end = h.end
      /\ k.size = [h.size EXCEPT ![b] = h.size[b] + h.size[c], ![c] = 0]
  BY <1>1, <1>2, AbsorbLists
<1>4. k.size \in [Starts -> Nat]
  BY <1>3, Fields DEF Lists
<1>5. /\ k.size[b] = h.size[b] + h.size[c] /\ k.size[c] = 0
      /\ \A x \in Starts \ {b, c} : k.size[x] = h.size[x]
  BY <1>1, <1>3
<1> DEFINE A == F \cup G
<1> HIDE DEF A
<1>6. Tiles(k.size, h.end, A \ {c}) /\ BlocksOf(k.size) = A \ {c}
  <2>1. /\ A = BlocksOf(h.size) /\ Tiles(h.size, h.end, A) /\ b \in A /\ c \in A
        /\ h.size \in [Starts -> Nat] /\ h.end \in HeapSizes
    BY <1>1, <1>2 DEF A
  <2>2. Joined(k.size, h.size, b, c)
    BY <1>5 DEF Joined
  <2> QED
    BY <1>4, <2>1, <2>2, TilesJoin
<1> USE DEF A
<1>7. (F \cup G) \ {c} = F \cup (G \ {c})
  BY <1>1
<1>8. Same(k.size, h.size, F)
  BY <1>1, <1>5 DEF Same
<1> QED
  BY <1>1, <1>3, <1>5, <1>6, <1>7, <1>8 DEF Sane

\* The free neighbour of b is the one that comes after it in the list, and the
\* one before it.
LEMMA NeighbourIsNext ==
    ASSUME NEW h, NEW F, NEW G, Sane(h, F, G), NEW b \in G
    PROVE  /\ h.next[b] \in G \cup {Null} /\ h.prev[b] \in G \cup {Null}
           /\ h.next[b] \in G => b < h.next[b]
           /\ h.prev[b] \in G => h.prev[b] < b
           /\ \A y \in G : b + h.size[b] = y => y = h.next[b]
           /\ \A x \in G : x + h.size[x] = b => x = h.prev[b]
<1> DEFINE p == h.prev[b]
           c == h.next[b]
<1>1. After(c, G, b) /\ Before(p, G, b)
  BY SaneFacts DEF List
<1> HIDE DEF p, c
<1>2. /\ \A x \in G : x \in Nat /\ h.size[x] \in Nat /\ h.size[x] > 0
      /\ \A x, y \in G : x < y => x + h.size[x] <= y
  BY SaneFacts
<1>3. c \in G \cup {Null} /\ p \in G \cup {Null} /\ Null \notin G
  BY <1>1, <1>2 DEF After, Before, Null
<1>4. (c \in G => b < c) /\ (p \in G => p < b)
  BY <1>1, <1>2, <1>3 DEF After, Before
<1>5. ASSUME NEW y \in G, b + h.size[b] = y PROVE y = c
  <2>1. b < y
    BY <1>2, <1>5
  <2>2. c \in G /\ b < c /\ c <= y
    BY <1>1, <1>2, <2>1 DEF After, Null
  <2> QED
    BY <1>2, <1>5, <2>2
<1>6. ASSUME NEW x \in G, x + h.size[x] = b PROVE x = p
  <2>1. x < b
    BY <1>2, <1>6
  <2>2. p \in G /\ p < b /\ x <= p
    BY <1>1, <1>2, <2>1 DEF Before, Null
  <2> QED
    BY <1>2, <1>6, <2>2
<1> QED
  BY <1>3, <1>4, <1>5, <1>6 DEF p, c

\* Of two blocks of S that touch, one is b; and the second is b.
Near(size, S, b) == \A x, y \in S : Touch(size, x, y) => x = b \/ y = b
Onto(size, S, b) == \A x, y \in S : Touch(size, x, y) => y = b

\* joinBlocks(block, block->next)
LEMMA JoinNext ==
    ASSUME NEW h, NEW F, NEW G, Sane(h, F, G), NEW b \in G,
           Near(h.size, G, b), NEW k, k = Join(h, b, h.next[b])
    PROVE  \E H \in SUBSET G : /\ b \in H /\ Sane(k, F, H) /\ k.end = h.end
                              /\ Onto(k.size, H, b) /\ Same(k.size, h.size, F)
<1>0. \A x, y \in G : x + h.size[x] = y => x = b \/ y = b
  BY DEF Near, Touch
<1> DEFINE c == h.next[b]
<1>1. /\ \A x \in G : x \in Nat /\ h.size[x] \in Nat /\ h.size[x] > 0
      /\ b \in Nat /\ b # Null
  BY SaneFacts DEF Null
<1>2. /\ c \in G \cup {Null} /\ (c \in G => b < c)
      /\ \A y \in G : b + h.size[b] = y => y = c
  BY NeighbourIsNext
<1>3. k = Join(h, b, c)
  OBVIOUS
<1> HIDE DEF c
<1>4. CASE c \in G /\ b + h.size[b] = c
  <2>1. k = Absorb(h, b, c)
    BY <1>1, <1>3, <1>4 DEF Join, Adjacent, Null
  <2>2. /\ Sane(k, F, G \ {c}) /\ k.end = h.end
        /\ k.size[b] = h.size[b] + h.size[c]
        /\ \A x \in G \ {b, c} : k.size[x] = h.size[x]
        /\ Same(k.size, h.size, F)
    <3>1. c \in G /\ Touch(h.size, b, c)
      BY <1>4 DEF Touch
    <3> QED
      BY <2>1, <3>1, AbsorbSane
  <2>3. ASSUME NEW x \in G \ {c}, NEW y \in G \ {c}, x + k.size[x] = y PROVE y = b
    <3>1. CASE x = b
      <4>1. c + h.size[c] = y
        BY <1>0, <1>1, <1>4, <2>2, <2>3, <3>1
      <4> QED
        BY <1>0, <1>1, <1>4, <4>1
    <3>2. CASE x # b
      BY <1>0, <2>2, <2>3, <3>2
    <3> QED
      BY <3>1, <3>2
  <2> QED
    BY <1>1, <1>2, <1>4, <2>2, <2>3 DEF Onto, Touch
<1>5. CASE ~(c \in G /\ b + h.size[b] = c)
  <2>1. k = h
    BY <1>1, <1>2, <1>3, <1>5 DEF Join, Adjacent, Null
  <2> QED
    BY <1>0, <1>2, <1>5, <2>1 DEF Onto, Touch, Same
<1> QED
  BY <1>4, <1>5

\* joinBlocks(block->prev, block)
LEMMA JoinPrev ==
    ASSUME NEW h, NEW F, NEW G, Sane(h, F, G), NEW b \in G,
           Onto(h.size, G, b), NEW k, k = Join(h, h.prev[b], b)
    PROVE  \E H \in SUBSET G : /\ Sane(k, F, H) /\ k.end = h.end /\ Apart(k.size, H)
                              /\ Same(k.size, h.size, F)
<1>0. \A x, y \in G : x + h.size[x] = y => y = b
  BY DEF Onto, Touch
<1> DEFINE p == h.prev[b]
<1>1. /\ \A x \in G : x \in Nat /\ h.size[x] \in Nat /\ h.size[x] > 0
      /\ b \in Nat /\ b # Null
  BY SaneFacts DEF Null
<1>2. /\ p \in G \cup {Null} /\ (p \in G => p < b)
      /\ \A x \in G : x + h.size[x] = b => x = p
  BY NeighbourIsNext
<1>3. k = Join(h, p, b)
  OBVIOUS
<1> HIDE DEF p
<1>4. CASE p \in G /\ p + h.size[p] = b
  <2>1. k = Absorb(h, p, b)
    BY <1>1, <1>3, <1>4 DEF Join, Adjacent, Null
  <2>2. /\ Sane(k, F, G \ {b}) /\ k.end = h.end
        /\ k.size[p] = h.size[p] + h.size[b]
        /\ \A x \in G \ {p, b} : k.size[x] = h.size[x]
        /\ Same(k.size, h.size, F)
    <3>1. p \in G /\ Touch(h.size, p, b)
      BY <1>4 DEF Touch
    <3> QED
      BY <2>1, <3>1, AbsorbSane
  <2>3. ASSUME NEW x \in G \ {b}, NEW y \in G \ {b}, x + k.size[x] = y PROVE FALSE
    <3>1. CASE x = p
      <4>1. b + h.size[b] = y
        BY <1>0, <1>1, <1>4, <2>2, <2>3, <3>1
      <4> QED
        BY <1>0, <1>1, <1>4, <4>1
    <3>2. CASE x # p
      BY <1>0, <2>2, <2>3, <3>2
    <3> QED
      BY <3>1, <3>2
  <2> QED
    BY <2>2, <2>3 DEF Apart, Touch
<1>5. CASE ~(p \in G /\ p + h.size[p] = b)
  <2>1. k = h
    BY <1>1, <1>2, <1>3, <1>5 DEF Join, Adjacent, Null
  <2> QED
    BY <1>0, <1>2, <1>5, <2>1 DEF Apart, Touch, Same
<1> QED
  BY <1>4, <1>5

-----------------------------------------------------------------------------
(* Places in a list, and what is taken from the free list or put there.    *)

\* Where the loops stop, and where they need not start.
LEMMA Place ==
    ASSUME NEW S, \A x \in S : x \in Nat, NEW a \in Nat, a \notin S,
           NEW head, NEW next, NEW prev, List(head, next, prev, S)
    PROVE  /\ head = Null \/ head > a => Before(Null, S, a) /\ After(head, S, a)
           /\ \A i \in S : i < a /\ ~(next[i] # Null /\ next[i] < a)
                 => Before(i, S, a) /\ After(next[i], S, a)
<1>1. After(head, S, Null) /\ \A i \in S : After(next[i], S, i)
  BY DEF List
<1>2. ASSUME head = Null \/ head > a PROVE Before(Null, S, a) /\ After(head, S, a)
  BY <1>1, <1>2 DEF After, Before, Null
<1>3. ASSUME NEW i \in S, NEW n, i < a, After(n, S, i), ~(n # Null /\ n < a)
      PROVE  Before(i, S, a) /\ After(n, S, a)
  BY <1>3 DEF After, Before, Null
<1> QED
  BY <1>1, <1>2, <1>3

\* The free list after a gave its first n blocks away: Taken of any heap.
Take(h, a, n) ==
    LET rest == h.size[a] - n * BlockSize
        k    == IF HeaderSize <= rest THEN Split(h, a, n) ELSE UnlinkFree(h, a)
    IN  [k EXCEPT !.size[a] = n * BlockSize]

\* A block that is in neither list, like any other in the tiling.
Loose(h, F, G, b) ==
    /\ Lists(h, F, G)
    /\ b \in Starts \ (F \cup G)
    /\ BlocksOf(h.size) = F \cup G \cup {b}
    /\ Tiles(h.size, h.end, F \cup G \cup {b})
    /\ Apart(h.size, G)

\* What a gave away is a block of its own, and free blocks still do not touch.
LEMMA TakeSane ==
    ASSUME NEW h, NEW F, NEW G, Sane(h, F, G), Apart(h.size, G), NEW a \in G, NEW n \in Nat,
           n > 0, h.size[a] \div BlockSize >= n, NEW k, k = Take(h, a, n)
    PROVE  \E H : /\ Loose(k, F, H, a) /\ k.end = h.end
                  /\ k.size[a] = n * BlockSize /\ Same(k.size, h.size, F)
<1> DEFINE m == n * BlockSize
           f == a + m
           A == F \cup G
<1>1. /\ h \in Heaps /\ h.size \in [Starts -> Nat] /\ h.end \in HeapSizes
      /\ F \subseteq Starts /\ G \subseteq Starts /\ F \cap G = {}
      /\ \A x \in A : x \in Nat /\ h.size[x] \in Nat /\ h.size[x] > 0
      /\ \A x, y \in A : x < y => x + h.size[x] <= y
      /\ a \in A /\ a \in Starts /\ a \notin F
  BY SaneFacts
<1>2. Lists(h, F, G) /\ A = BlocksOf(h.size) /\ Tiles(h.size, h.end, A)
  BY DEF Sane
<1>3. m \in Nat /\ Whole(m) /\ 0 < m /\ m <= h.size[a]
  <2>1. m \in Nat /\ Whole(m)
    BY WholeTimes
  <2>2. m > 0
    BY SizesAssumption
  <2>3. h.size[a] \in Nat
    BY <1>1
  <2>4. m <= h.size[a]
    BY <2>3, Quotient
  <2> QED
    BY <2>1, <2>2, <2>4
<1>4. HeaderSize \in Nat /\ HeaderSize > 0
  BY SizesAssumption
<1>5. CASE HeaderSize <= h.size[a] - m
  <2> DEFINE v == [h.size EXCEPT ![f] = h.size[a] - m]
             g == Split(h, a, n)
             w == [v EXCEPT ![a] = m]
             H == (G \ {a}) \cup {f}
  <2>1. m + HeaderSize <= h.size[a] /\ h.size[a] - m \in Nat
    BY <1>1, <1>3, <1>4, <1>5
  <2>2. k = [g EXCEPT !.size = [g.size EXCEPT ![a] = m]]
    BY <1>5 DEF Take
  <2>3. Room(h.size, a, m) /\ Further(f, a, m)
    BY <1>3, <2>1 DEF Room, Further
  <2>10. f \in Starts /\ f \notin A /\ a < f /\ \A x \in A : a < x => f < x
    <3> HIDE DEF m, A, f
    <3>1. Between(f, a, A)
      BY <1>1, <1>2, <1>3, <2>3, SplitPoint
    <3> QED
      BY <3>1 DEF Between
  <2>4. Lists(g, F, H) /\ g.end = h.end /\ g.size = v
    BY <1>1, <1>2, <2>1, <2>10, SplitLists
  <2>5. /\ v \in [Starts -> Nat] /\ w \in [Starts -> Nat]
        /\ w[a] = m /\ w[f] = h.size[a] - m
        /\ \A x \in Starts \ {a, f} : w[x] = h.size[x]
    BY <1>1, <1>3, <2>1, <2>10
  <2> HIDE DEF g, w, H
  <2>6. Lists(k, F, H) /\ k.end = h.end /\ k.size = w
    <3>1. k = [g EXCEPT !.size = w]
      BY <2>2, <2>4 DEF w
    <3> QED
      BY <2>4, <2>5, <3>1, ResizedLists
  <2>7. Tiles(w, h.end, A \cup {f}) /\ BlocksOf(w) = A \cup {f}
    <3>1. Halved(w, h.size, a, m, f) /\ w \in [Starts -> Nat]
      BY <2>5 DEF Halved
    <3> DEFINE size == h.size
               end == h.end
    <3> HIDE DEF m, A, f, size, end
    <3>2. /\ size \in [Starts -> Nat] /\ end \in HeapSizes /\ A = BlocksOf(size)
          /\ Tiles(size, end, A) /\ a \in A /\ m \in Nat /\ Room(size, a, m)
          /\ Further(f, a, m) /\ w \in [Starts -> Nat] /\ Halved(w, size, a, m, f)
      BY <1>1, <1>2, <1>3, <2>3, <3>1 DEF size, end
    <3>3. Covers(w, end, A \cup {f})
      BY <3>2, TilesSplit
    <3> QED
      BY <3>3 DEF end, Covers
  <2>8. A \cup {f} = F \cup H \cup {a} /\ a \notin H
    BY <1>1, <2>10 DEF H
  <2>9. ASSUME NEW x \in H, NEW y \in H PROVE x + w[x] # y
    <3>1. CASE x = f
      <4>1. x + w[x] = a + h.size[a]
        BY <1>1, <1>3, <2>5, <3>1
      <4>2. a + h.size[a] # y
        <5>1. CASE y = f
          BY <1>1, <1>3, <2>1, <1>4, <5>1
        <5>2. CASE y \in G
          BY <5>2 DEF Apart, Touch
        <5> QED
          BY <5>1, <5>2 DEF H
      <4> QED
        BY <4>1, <4>2
    <3>2. CASE x # f
      <4>1. x \in G /\ x # a /\ w[x] = h.size[x]
        BY <1>1, <2>5, <3>2 DEF H
      <4>2. CASE y = f
        <5>1. x < a => x + h.size[x] <= a
          BY <1>1, <4>1
        <5>2. a < x => f < x
          BY <2>10, <4>1
        <5> QED
          BY <1>1, <1>3, <4>1, <4>2, <5>1, <5>2
      <4>3. CASE y \in G
        BY <4>1, <4>3 DEF Apart, Touch
      <4> QED
        BY <4>2, <4>3 DEF H
    <3> QED
      BY <3>1, <3>2
  <2> QED
    <3>1. Same(k.size, h.size, F) /\ k.size[a] = m
      BY <1>1, <2>5, <2>6, <2>10 DEF Same
    <3> QED
      BY <1>1, <2>6, <2>7, <2>8, <2>9, <3>1, ZenonT(60) DEF Loose, Apart, Touch
<1>6. CASE ~(HeaderSize <= h.size[a] - m)
  <2> DEFINE g == UnlinkFree(h, a)
             w == [h.size EXCEPT ![a] = m]
  <2>1. k = [g EXCEPT !.size = [g.size EXCEPT ![a] = m]]
    BY <1>6 DEF Take
  <2> HIDE DEF m, A, g
  <2>2. Lists(g, F, G \ {a}) /\ g.end = h.end /\ g.size = h.size
    BY <1>2, UnlinkFreeLists DEF g
  <2>3. w \in [Starts -> Nat] /\ w[a] = m /\ \A x \in Starts \ {a} : w[x] = h.size[x]
    BY <1>1, <1>3
  <2> HIDE DEF w
  <2>4. Lists(k, F, G \ {a}) /\ k.end = h.end /\ k.size = w
    <3>1. k = [g EXCEPT !.size = w]
      BY <2>1, <2>2 DEF w
    <3> QED
      BY <2>2, <2>3, <3>1, ResizedLists
  <2>5. Tiles(w, h.end, A) /\ BlocksOf(w) = A
    <3>1. h.size[a] < m + HeaderSize
      BY <1>1, <1>3, <1>4, <1>6
    <3> QED
      BY <1>1, <1>2, <1>3, <2>3, <3>1, TilesCut
  <2>6. A = F \cup (G \ {a}) \cup {a}
    BY DEF A
  <2>7. Apart(w, G \ {a})
    BY <1>1, <2>3 DEF Apart, Touch
  <2>8. Same(k.size, h.size, F) /\ k.size[a] = m
    BY <1>1, <2>3, <2>4 DEF Same
  <2> QED
    BY <1>1, <2>4, <2>5, <2>6, <2>7, <2>8 DEF Loose, m
<1> QED
  BY <1>5, <1>6

\* b is put in its place in the free list: only b may have a free neighbour.
LEMMA Freed ==
    ASSUME NEW h, NEW F, NEW G, NEW b, Loose(h, F, G, b), NEW p, NEW c,
           Before(p, G, b), After(c, G, b), NEW g, g = InsertFree(h, b, p, c)
    PROVE  /\ Sane(g, F, G \cup {b}) /\ g.end = h.end /\ g.size = h.size
           /\ Near(g.size, G \cup {b}, b)
<1>1. /\ Lists(h, F, G) /\ b \in Starts \ (F \cup G) /\ Apart(h.size, G)
      /\ BlocksOf(h.size) = F \cup G \cup {b} /\ Tiles(h.size, h.end, F \cup G \cup {b})
  BY DEF Loose
<1>2. Lists(g, F, G \cup {b}) /\ g.end = h.end /\ g.size = h.size
  BY <1>1, InsertFreeLists
<1>3. F \cup (G \cup {b}) = F \cup G \cup {b}
  OBVIOUS
<1>4. Sane(g, F, G \cup {b})
  BY <1>1, <1>2, <1>3 DEF Sane
<1>5. Near(g.size, G \cup {b}, b)
  BY <1>1, <1>2 DEF Apart, Near
<1> QED
  BY <1>2, <1>4, <1>5

\* Freed, and joined with what comes next: enough for the first of the list.
LEMMA FreedFirst ==
    ASSUME NEW h, NEW F, NEW G, NEW b, Loose(h, F, G, b), NEW c,
           Before(Null, G, b), After(c, G, b), NEW g, g = InsertFree(h, b, Null, c),
           NEW k, k = Join(g, b, g.next[b])
    PROVE  \E H : /\ Sane(k, F, H) /\ k.end = h.end /\ Apart(k.size, H)
                  /\ Same(k.size, h.size, F)
<1>1. /\ Sane(g, F, G \cup {b}) /\ g.end = h.end /\ g.size = h.size
      /\ Near(g.size, G \cup {b}, b)
  BY Freed
<1>2. b \in G \cup {b}
  OBVIOUS
<1>3. PICK H \in SUBSET (G \cup {b}) :
         /\ Sane(k, F, H) /\ k.end = g.end
         /\ Onto(k.size, H, b) /\ Same(k.size, g.size, F)
  BY <1>1, <1>2, JoinNext
<1>4. \A x \in H : x \in Nat /\ k.size[x] \in Nat /\ k.size[x] > 0
  BY <1>3, SaneFacts
<1>5. Null \notin G
  BY NullIsNoStart DEF Loose, Lists
<1>6. \A x \in G : b <= x
  BY <1>5 DEF Before
<1>7. ASSUME NEW x \in H, NEW y \in H, Touch(k.size, x, y) PROVE FALSE
  <2>1. y = b /\ x < b
    BY <1>3, <1>4, <1>7 DEF Onto, Touch
  <2>2. x \in G
    BY <1>4, <2>1
  <2> QED
    BY <1>4, <1>6, <2>1, <2>2
<1> QED
  BY <1>1, <1>3, <1>7 DEF Apart

\* Freed, and joined with what comes next and what comes before.
LEMMA FreedBetween ==
    ASSUME NEW h, NEW F, NEW G, NEW b, Loose(h, F, G, b), NEW p, NEW c,
           Before(p, G, b), After(c, G, b), NEW g, g = InsertFree(h, b, p, c),
           NEW j, j = Join(g, b, g.next[b]), NEW k, k = Join(j, j.prev[b], b)
    PROVE  \E H : /\ Sane(k, F, H) /\ k.end = h.end /\ Apart(k.size, H)
                  /\ Same(k.size, h.size, F)
<1>1. /\ Sane(g, F, G \cup {b}) /\ g.end = h.end /\ g.size = h.size
      /\ Near(g.size, G \cup {b}, b)
  BY Freed
<1>2. b \in G \cup {b}
  OBVIOUS
<1>3. PICK H \in SUBSET (G \cup {b}) :
         /\ b \in H /\ Sane(j, F, H) /\ j.end = g.end
         /\ Onto(j.size, H, b) /\ Same(j.size, g.size, F)
  BY <1>1, <1>2, JoinNext
<1>4. \E K \in SUBSET H : /\ Sane(k, F, K) /\ k.end = j.end /\ Apart(k.size, K)
                          /\ Same(k.size, j.size, F)
  BY <1>3, JoinPrev, SMTT(60)
<1> QED
  BY <1>1, <1>3, <1>4 DEF Same

-----------------------------------------------------------------------------
(* The invariant.                                                          *)

\* A call that returns leaves two lists that are the blocks.
LEMMA Returned ==
    ASSUME pc' = "idle", Locals', NEW H, Sane(heap', held', H), Apart(heap'.size, H)
    PROVE  AInv'
<1>1. /\ Lists(heap', held', H)
      /\ BlocksOf(heap'.size) = held' \cup H
      /\ Tiles(heap'.size, heap'.end, held' \cup H)
      /\ held' \cap H = {}
  BY DEF Sane, Lists
<1>2. Blocks' = held' \cup H
  BY <1>1 DEF Blocks, BlocksOf
<1>3. Full' = held' /\ Free' = H
  BY <1>1, <1>2 DEF Full, Free, FreeBlocks
<1> QED
  BY <1>1, <1>2, <1>3 DEF AInv

\* What a step starts from.
LEMMA Starting ==
    ASSUME AInv
    PROVE  /\ Locals /\ heap \in Heaps /\ heap.end \in Nat /\ held \subseteq Starts
           /\ FreeBlocks \subseteq Starts /\ held \cap FreeBlocks = {}
           /\ BlocksOf(heap.size) = held \cup FreeBlocks /\ Blocks = held \cup FreeBlocks
           /\ pc \in {"idle", "fit"} =>
                 Sane(heap, held, FreeBlocks) /\ Apart(heap.size, FreeBlocks)
           /\ pc = "place" =>
                 /\ Lists(heap, held, FreeBlocks \ {block}) /\ block \in FreeBlocks
                 /\ Tiles(heap.size, heap.end, held \cup FreeBlocks)
                 /\ Apart(heap.size, FreeBlocks \ {block})
           /\ pc = "search" => Loose(heap, held \ {block}, FreeBlocks, block)
<1>1. /\ Lists(heap, Full, Free) /\ held \subseteq Blocks
      /\ Tiles(heap.size, heap.end, Blocks) /\ Apart(heap.size, Free)
      /\ Locals
      /\ pc = "place" => block \in FreeBlocks
      /\ pc = "search" => block \in held
  BY DEF AInv
<1>2. heap \in Heaps /\ heap.end \in Nat
  <2>1. heap \in Heaps
    BY <1>1 DEF Lists
  <2> QED
    BY <2>1, Fields, SizesAssumption
<1>3. /\ held \subseteq Starts /\ FreeBlocks \subseteq Starts /\ held \cap FreeBlocks = {}
      /\ BlocksOf(heap.size) = held \cup FreeBlocks /\ Blocks = held \cup FreeBlocks
  BY <1>1 DEF Blocks, FreeBlocks, BlocksOf
<1>4. CASE pc \in {"idle", "fit"}
  BY <1>1, <1>2, <1>3, <1>4 DEF Sane, Full, Free
<1>5. CASE pc = "place"
  BY <1>1, <1>2, <1>3, <1>5 DEF Full, Free
<1>6. CASE pc = "search"
  <2>1. Full = held \ {block} /\ Free = FreeBlocks /\ block \in held
    BY <1>1, <1>6 DEF Full, Free
  <2>2. (held \ {block}) \cup FreeBlocks \cup {block} = held \cup FreeBlocks
    BY <2>1
  <2>3. block \in Starts \ ((held \ {block}) \cup FreeBlocks)
    BY <1>3, <2>1
  <2> QED
    BY <1>1, <1>2, <1>3, <1>6, <2>1, <2>2, <2>3 DEF Loose
<1> QED
  BY <1>1, <1>2, <1>3, <1>4, <1>5, <1>6 DEF Locals

\* A header takes one block, whatever its size: SizesAssumption.
LEMMA OneHeader == HeaderBlocks = 1
<1> DEFINE q == (HeaderSize + BlockSize - 1) \div BlockSize
<1>1. HeaderSize + BlockSize - 1 \in Nat /\ BlockSize \in Nat
  BY SizesAssumption
<1>2. /\ q \in Nat
      /\ 1 <= q <=> 1 * BlockSize <= HeaderSize + BlockSize - 1
      /\ 2 <= q <=> 2 * BlockSize <= HeaderSize + BlockSize - 1
  BY <1>1, Quotient
<1> HIDE DEF q
<1>3. 1 <= q /\ ~(2 <= q)
  BY <1>2, SizesAssumption
<1> QED
  BY <1>2, <1>3 DEF HeaderBlocks, q

\* The heap is one free block when it is initialised.
LEMMA InitWhole == Init => AInv
<1> SUFFICES ASSUME Init PROVE AInv
  OBVIOUS
<1>1. PICK n \in HeapSizes :
         heap = [end |-> n, free_head |-> 0, full_head |-> Null,
                 next |-> [a \in Starts |-> Null], prev |-> [a \in Starts |-> Null],
                 size |-> [a \in Starts |-> IF a = 0 THEN n ELSE 0]]
  BY DEF Init
<1>2. n \in Nat /\ n > 0 /\ 0 \in Starts
  <2>1. n \in Nat /\ n > 0
    BY SizesAssumption
  <2>2. 0 \in Nat /\ Whole(0)
    BY SizesAssumption DEF Whole
  <2> QED
    BY <2>1, <2>2, StartsWhole
<1>3. /\ heap.end = n /\ heap.free_head = 0 /\ heap.full_head = Null
      /\ heap.next = [a \in Starts |-> Null] /\ heap.prev = [a \in Starts |-> Null]
      /\ heap.size = [a \in Starts |-> IF a = 0 THEN n ELSE 0]
  BY <1>1
<1>4. heap \in Heaps
  BY <1>1, <1>2 DEF Heaps, Pointers
<1>5. held = {} /\ pc = "idle" /\ iter = Null /\ block = Null /\ need = 0 /\ ptr = Null /\ code = 0
  BY DEF Init
<1>6. Blocks = {0} /\ Full = {} /\ Free = {0}
  BY <1>2, <1>3, <1>5 DEF Blocks, FreeBlocks, Full, Free
<1>7. List(heap.full_head, heap.next, heap.prev, {})
  BY <1>3 DEF List, After
<1>8. List(heap.free_head, heap.next, heap.prev, {0})
  BY <1>2, <1>3 DEF List, After, Before, Null
<1>9. heap.size[0] = n
  BY <1>2, <1>3
<1>10. Tiles(heap.size, heap.end, {0})
  BY <1>2, <1>3, <1>9, SizesAssumption DEF Tiles
<1>11. Apart(heap.size, {0})
  BY <1>2, <1>9 DEF Apart, Touch
<1>12. Locals
  BY <1>2, <1>3, <1>5 DEF Locals, Pointers
<1> QED
  BY <1>2, <1>4, <1>5, <1>6, <1>7, <1>8, <1>10, <1>11, <1>12 DEF AInv, Lists

\* A step that leaves the heap and the blocks alone.
LEMMA Unmoved ==
    ASSUME AInv, UNCHANGED <<heap, held>>, Full' = Full, Free' = Free, Locals',
           pc' = "fit" => iter' \in Free \cup {Null} /\ need' > 0,
           pc' = "place" => block' \in FreeBlocks /\ iter' \in held /\ iter' < block',
           pc' = "search" => block' \in held /\ iter' \in Free /\ iter' < block'
    PROVE  AInv'
<1>1. Blocks' = Blocks /\ FreeBlocks' = FreeBlocks
  BY DEF Blocks, FreeBlocks
<1> QED
  BY <1>1 DEF AInv

\* The loops of mem_alloc that move on, and the calls that refuse or fail.
LEMMA AllocWalks ==
    ASSUME AInv,
           \/ \E n \in 0 .. heap.end \div BlockSize : AllocRefused(n) \/ AllocCalled(n)
           \/ AllocFails \/ AllocNext \/ AllocSeek
    PROVE  AInv'
<1>1. /\ Locals /\ heap \in Heaps /\ heap.end \in Nat
      /\ pc \in {"idle", "fit"} =>
            Sane(heap, held, FreeBlocks) /\ Apart(heap.size, FreeBlocks)
  BY Starting
<1>2. /\ Blocks' = Blocks /\ FreeBlocks' = FreeBlocks
      /\ UNCHANGED <<heap, held, block, code>>
  BY DEF AllocRefused, AllocCalled, AllocFails, AllocNext, AllocSeek, Blocks, FreeBlocks
<1>3. CASE \E n \in 0 .. heap.end \div BlockSize : AllocRefused(n)
  BY <1>1, <1>2, <1>3, Unmoved DEF AllocRefused, Locals, Full, Free
<1>4. ASSUME NEW n \in 0 .. heap.end \div BlockSize, AllocCalled(n) PROVE AInv'
  <2>1. pc = "idle" /\ pc' = "fit" /\ n > 0 /\ n < heap.end \div BlockSize
        /\ need' = n + 1 /\ iter' = heap.free_head /\ UNCHANGED <<ptr>>
    BY <1>4, OneHeader DEF AllocCalled
  <2>2. heap.end \div BlockSize \in Nat /\ heap.end \div BlockSize <= heap.end
    BY <1>1, Quotient
  <2>3. need' \in 0 .. heap.end /\ need' > 0
    BY <1>1, <2>1, <2>2
  <2>4. heap.free_head \in FreeBlocks \cup {Null}
    <3>1. List(heap.free_head, heap.next, heap.prev, FreeBlocks)
      BY <1>1, <2>1, SaneFacts
    <3> QED
      BY <3>1 DEF List, After
  <2>5. Locals'
    BY <1>1, <1>2, <2>1, <2>3, Fields DEF Locals
  <2>6. Full' = Full /\ Free' = Free /\ Free = FreeBlocks
    BY <1>2, <2>1 DEF Full, Free
  <2> QED
    BY <1>2, <2>1, <2>3, <2>4, <2>5, <2>6, Unmoved
<1>5. CASE AllocFails
  BY <1>1, <1>2, <1>5, Unmoved DEF AllocFails, Locals, Full, Free
<1>6. CASE AllocNext
  <2>1. pc = "fit" /\ iter # Null /\ iter' = heap.next[iter] /\ UNCHANGED <<pc, need, ptr>>
    BY <1>6 DEF AllocNext
  <2>2. iter \in FreeBlocks /\ need > 0
    BY <2>1 DEF AInv, Free
  <2>3. List(heap.free_head, heap.next, heap.prev, FreeBlocks)
    BY <1>1, <2>1, SaneFacts
  <2>4. iter' \in FreeBlocks \cup {Null}
    BY <2>1, <2>2, <2>3 DEF List, After
  <2>5. Locals'
    BY <1>1, <1>2, <2>1, <2>4, Starting DEF Locals, Pointers
  <2>6. Full' = Full /\ Free' = Free /\ Free = FreeBlocks
    BY <1>2, <2>1 DEF Full, Free
  <2> QED
    BY <1>2, <2>1, <2>2, <2>4, <2>5, <2>6, Unmoved
<1>7. CASE AllocSeek
  <2>1. pc = "place" /\ iter' = heap.next[iter] /\ UNCHANGED <<pc, need, ptr>>
        /\ heap.next[iter] # Null /\ heap.next[iter] < block
    BY <1>7 DEF AllocSeek, GoesOn
  <2>2. block \in FreeBlocks /\ iter \in held
    BY <2>1 DEF AInv
  <2>3. List(heap.full_head, heap.next, heap.prev, held)
    BY <2>1 DEF AInv, Lists, Full
  <2>4. iter' \in held
    BY <2>1, <2>2, <2>3 DEF List, After
  <2>5. Locals'
    BY <1>1, <1>2, <2>1, <2>4, Starting DEF Locals, Pointers
  <2>6. Full' = Full /\ Free' = Free
    BY <1>2, <2>1 DEF Full, Free
  <2> QED
    BY <1>2, <2>1, <2>2, <2>4, <2>5, <2>6, Unmoved
<1> QED
  BY <1>3, <1>4, <1>5, <1>6, <1>7

\* mem_free(nullptr), and its loop when it moves on.
LEMMA FreeWalks ==
    ASSUME AInv, FreeNull \/ FreeSeek
    PROVE  AInv'
<1>1. Locals
  BY DEF AInv
<1>2. /\ Blocks' = Blocks /\ FreeBlocks' = FreeBlocks
      /\ UNCHANGED <<heap, held, block, need, ptr, pc>>
  BY DEF FreeNull, FreeSeek, Blocks, FreeBlocks
<1>3. Full' = Full /\ Free' = Free
  BY <1>2 DEF Full, Free
<1>4. CASE FreeNull
  BY <1>1, <1>2, <1>3, <1>4, Unmoved DEF FreeNull, Locals
<1>5. CASE FreeSeek
  <2>1. pc = "search" /\ iter' = heap.next[iter] /\ UNCHANGED code
        /\ heap.next[iter] # Null /\ heap.next[iter] < block
    BY <1>5 DEF FreeSeek, GoesOn
  <2>2. block \in held /\ iter \in FreeBlocks
    BY <2>1 DEF AInv, Free
  <2>3. List(heap.free_head, heap.next, heap.prev, FreeBlocks) /\ Free = FreeBlocks
    BY <2>1 DEF AInv, Lists, Free
  <2>4. iter' \in FreeBlocks
    BY <2>1, <2>2, <2>3 DEF List, After
  <2>5. Locals'
    BY <1>1, <1>2, <2>1, <2>4, Starting DEF Locals, Pointers
  <2> QED
    BY <1>2, <1>3, <2>1, <2>2, <2>3, <2>4, <2>5, Unmoved
<1> QED
  BY <1>4, <1>5

\* mem_alloc has found its block: whole, or the first part of one.
LEMMA AllocTakes ==
    ASSUME AInv, AllocFits
    PROVE  /\ AInv' /\ heap'.end = heap.end
           /\ heap'.size[iter] = need * BlockSize /\ Same(heap'.size, heap.size, held)
<1> DEFINE F == held
           G == FreeBlocks
           a == iter
           k == Taken
<1>1. /\ pc = "fit" /\ a # Null /\ Fits /\ block' = a /\ iter' = heap.full_head
      /\ UNCHANGED <<need, code>>
  BY DEF AllocFits
<1>2. /\ Locals /\ heap \in Heaps /\ heap.end \in Nat /\ F \subseteq Starts
      /\ Sane(heap, F, G) /\ Apart(heap.size, G)
      /\ List(heap.full_head, heap.next, heap.prev, F)
  BY <1>1, Starting DEF Sane, Lists
<1>3. a \in G /\ need > 0 /\ need \in Nat /\ a \in Starts /\ a \in Nat
  <2>1. a \in G /\ need > 0
    BY <1>1 DEF AInv, Free
  <2>2. need \in Nat
    BY <1>2 DEF Locals
  <2>3. a \in Starts
    BY <1>2, <2>1 DEF Sane, Lists
  <2> QED
    BY <2>1, <2>2, <2>3, NullIsNoStart
<1>4. heap.size[a] \div BlockSize >= need
  BY <1>1 DEF Fits
<1>5. k = Take(heap, a, need)
  BY DEF Taken, Take
<1>6. heap.full_head \in F \cup {Null} /\ heap.full_head # a
  BY <1>2, <1>3 DEF List, After, FreeBlocks, Null
<1> HIDE DEF F, G, a, k
<1>7. PICK H : /\ Lists(k, F, H) /\ a \notin H /\ k.end = heap.end
               /\ BlocksOf(k.size) = F \cup H \cup {a}
               /\ Tiles(k.size, k.end, F \cup H \cup {a})
               /\ Apart(k.size, H)
               /\ k.size[a] = need * BlockSize /\ Same(k.size, heap.size, F)
  <2> DEFINE h == heap
             n == need
  <2>1. Sane(h, F, G) /\ Apart(h.size, G) /\ a \in G /\ n \in Nat
        /\ n > 0 /\ h.size[a] \div BlockSize >= n /\ k = Take(h, a, n)
    BY <1>2, <1>3, <1>4, <1>5
  <2> HIDE DEF h, n
  <2>2. \E H : /\ Loose(k, F, H, a) /\ k.end = h.end
               /\ k.size[a] = n * BlockSize /\ Same(k.size, h.size, F)
    BY <2>1, TakeSane
  <2> QED
    BY <2>2 DEF h, n, Loose
<1>8. a \notin F /\ a \in Starts /\ a \notin F \cup H
  BY <1>2, <1>3, <1>7 DEF F, G, FreeBlocks
<1>9. k.end \in Nat /\ need \in 0 .. k.end
  BY <1>2, <1>7 DEF Locals
<1>10. CASE /\ heap.full_head = Null \/ heap.full_head > a
            /\ heap' = InsertFull(k, a, Null, heap.full_head)
            /\ AllocReturns(a)
  <2>1. Before(Null, F, a) /\ After(heap.full_head, F, a)
    BY <1>2, <1>3, <1>8, <1>10, NullIsNoStart, Place
  <2>2. Lists(heap', F \cup {a}, H) /\ heap'.end = k.end /\ heap'.size = k.size
    BY <1>7, <1>8, <1>10, <2>1, InsertFullLists
  <2>3. held' = F \cup {a} /\ pc' = "idle" /\ ptr' = a + HeaderSize
    BY <1>10 DEF AllocReturns, F
  <2>4. (F \cup {a}) \cup H = F \cup H \cup {a}
    OBVIOUS
  <2>5. Sane(heap', held', H) /\ Apart(heap'.size, H)
    BY <1>7, <2>2, <2>3, <2>4 DEF Sane
  <2>6. Locals'
    BY <1>1, <1>2, <1>3, <1>7, <2>2, <2>3, Fields DEF Locals, Pointers, a
  <2>7. AInv'
    BY <2>3, <2>5, <2>6, Returned
  <2> QED
    BY <1>7, <2>2, <2>7 DEF a, F
<1>11. CASE /\ heap.full_head # Null /\ heap.full_head <= a
            /\ heap' = k
            /\ pc' = "place"
            /\ UNCHANGED <<ptr, held>>
  <2>1. held' = F /\ pc' = "place" /\ block' = a /\ iter' = heap.full_head
    BY <1>1, <1>11 DEF F
  <2>2. Blocks' = F \cup H \cup {a}
    BY <1>7, <1>11 DEF Blocks, BlocksOf
  <2>3. F \cap H = {}
    BY <1>7 DEF Lists
  <2>4. FreeBlocks' = H \cup {a} /\ Full' = F /\ Free' = H
    BY <1>7, <1>8, <2>1, <2>2, <2>3 DEF FreeBlocks, Full, Free
  <2>5. iter' \in held' /\ iter' < block'
    <3>1. heap.full_head \in F /\ heap.full_head \in Nat
      BY <1>2, <1>6, <1>11, NullIsNoStart
    <3> QED
      BY <1>3, <1>6, <1>11, <2>1, <3>1
  <2>6. Locals'
    BY <1>1, <1>2, <1>3, <1>7, <1>11, Fields DEF Locals, Pointers, a
  <2>7. AInv'
    BY <1>7, <1>11, <2>1, <2>2, <2>4, <2>5, <2>6 DEF AInv
  <2> QED
    BY <1>7, <1>11, <2>7 DEF a, F
<1> QED
  BY <1>10, <1>11 DEF AllocFits, a, k

\* mem_alloc has found the place of its block in the full list.
LEMMA AllocPlaces ==
    ASSUME AInv, AllocPlace
    PROVE  AInv' /\ heap'.end = heap.end /\ heap'.size = heap.size
<1> DEFINE F == held
           G == FreeBlocks \ {block}
           c == heap.next[iter]
<1>1. /\ pc = "place" /\ ~(c # Null /\ c < block)
      /\ heap' = InsertFull(heap, block, iter, c)
      /\ pc' = "idle" /\ held' = F \cup {block} /\ ptr' = block + HeaderSize
      /\ UNCHANGED <<iter, block, need, code>>
  BY DEF AllocPlace, GoesOn, AllocReturns
<1>2. /\ Locals /\ heap \in Heaps /\ heap.end \in Nat /\ F \subseteq Starts
      /\ FreeBlocks \subseteq Starts /\ F \cap FreeBlocks = {}
      /\ BlocksOf(heap.size) = F \cup FreeBlocks
      /\ Lists(heap, F, G) /\ block \in FreeBlocks
      /\ Tiles(heap.size, heap.end, F \cup FreeBlocks)
      /\ Apart(heap.size, G)
  BY <1>1, Starting
<1>3. iter \in F /\ iter < block
  BY <1>1 DEF AInv
<1>4. /\ List(heap.full_head, heap.next, heap.prev, F)
      /\ block \in Starts /\ block \notin F \cup G /\ block \in Nat
      /\ \A x \in F : x \in Nat
      /\ F \cup FreeBlocks = (F \cup {block}) \cup G
  BY <1>2, NullIsNoStart DEF Lists
<1> HIDE DEF F, G
<1>5. Before(iter, F, block) /\ After(c, F, block)
  BY <1>1, <1>3, <1>4, Place
<1> HIDE DEF c
<1>6. Lists(heap', F \cup {block}, G) /\ heap'.end = heap.end /\ heap'.size = heap.size
  BY <1>1, <1>2, <1>4, <1>5, InsertFullLists
<1>7. Sane(heap', held', G) /\ Apart(heap'.size, G)
  BY <1>1, <1>2, <1>4, <1>6 DEF Sane
<1>8. Locals'
  BY <1>1, <1>2, <1>4, <1>6 DEF Locals
<1>9. AInv'
  BY <1>1, <1>7, <1>8, Returned
<1> QED
  BY <1>6, <1>9

\* mem_free takes its block out of the full list.
LEMMA FreeUnlinks ==
    ASSUME AInv, NEW b \in held, FreeCalled(b)
    PROVE  AInv' /\ heap'.end = heap.end /\ Same(heap'.size, heap.size, held')
<1> DEFINE F == held \ {b}
           G == FreeBlocks
           h == UnlinkFull(heap, b)
           c == h.free_head
<1>1. /\ pc = "idle" /\ block' = b /\ iter' = c
      /\ UNCHANGED <<need, ptr>>
  BY DEF FreeCalled
<1>2. /\ Locals /\ heap \in Heaps /\ heap.end \in Nat /\ held \subseteq Starts
      /\ G \subseteq Starts /\ held \cap G = {}
      /\ BlocksOf(heap.size) = held \cup G /\ Blocks = held \cup G
      /\ Sane(heap, held, G) /\ Apart(heap.size, G)
  BY <1>1, Starting
<1>3. Lists(heap, held, G)
  BY <1>2 DEF Sane
<1> HIDE DEF h, c
<1>4. Lists(h, F, G) /\ h.end = heap.end /\ h.size = heap.size
  BY <1>3, UnlinkFullLists DEF h
<1>5. held \cup G = F \cup G \cup {b} /\ b \in Starts \ (F \cup G) /\ b \in Nat
  BY <1>2, NullIsNoStart
<1>6. Loose(h, F, G, b)
  BY <1>2, <1>4, <1>5 DEF Loose, Sane
<1>7. /\ List(h.free_head, h.next, h.prev, G) /\ \A x \in G : x \in Nat /\ b \notin G
      /\ c \in G \cup {Null} /\ c = h.free_head
  BY <1>2, <1>4, <1>5, NullIsNoStart DEF Lists, List, After, c
<1>8. Locals' <=> /\ pc' \in {"idle", "fit", "place", "search"}
                  /\ need \in 0 .. heap'.end
                  /\ code' \in {0, -1}
  BY <1>1, <1>2, <1>5, <1>7 DEF Locals, Pointers
<1> HIDE DEF F, G
<1>9. ASSUME FreeReturns(b),
             \E H : /\ Sane(heap', F, H) /\ heap'.end = h.end /\ Apart(heap'.size, H)
                    /\ Same(heap'.size, h.size, F)
      PROVE  AInv' /\ heap'.end = heap.end /\ Same(heap'.size, heap.size, held')
  <2>1. pc' = "idle" /\ held' = F /\ code' = 0
    BY <1>9 DEF FreeReturns, F
  <2>2. PICK H : /\ Sane(heap', F, H) /\ heap'.end = h.end /\ Apart(heap'.size, H)
                 /\ Same(heap'.size, h.size, F)
    BY <1>9
  <2>3. Locals'
    BY <1>2, <1>4, <1>8, <2>1, <2>2 DEF Locals
  <2>4. AInv'
    BY <2>1, <2>2, <2>3, Returned
  <2> QED
    BY <1>4, <2>1, <2>2, <2>4
<1>10. CASE c = Null /\ heap' = InsertFree(h, b, Null, Null) /\ FreeReturns(b)
  <2>1. G = {}
    BY <1>7, <1>10 DEF List, After, Null
  <2>2. Before(Null, G, b) /\ After(Null, G, b)
    BY <2>1 DEF Before, After
  <2>3. Sane(heap', F, G \cup {b}) /\ heap'.end = h.end /\ Same(heap'.size, h.size, F)
    BY <1>6, <1>10, <2>2, Freed DEF Same
  <2>4. heap'.size[b] \in Nat /\ heap'.size[b] > 0
    BY <2>3, SaneFacts
  <2>5. Apart(heap'.size, G \cup {b})
    BY <1>5, <2>1, <2>4 DEF Apart, Touch
  <2> QED
    BY <1>9, <1>10, <2>3, <2>5
<1>11. CASE /\ c # Null /\ c > b
            /\ LET g == InsertFree(h, b, Null, c) IN heap' = Join(g, b, g.next[b])
            /\ FreeReturns(b)
  <2> DEFINE g == InsertFree(h, b, Null, c)
  <2>1. Before(Null, G, b) /\ After(c, G, b)
    BY <1>5, <1>7, <1>11, Place
  <2>2. heap' = Join(g, b, g.next[b])
    BY <1>11
  <2> HIDE DEF g
  <2>3. \E H : /\ Sane(heap', F, H) /\ heap'.end = h.end /\ Apart(heap'.size, H)
               /\ Same(heap'.size, h.size, F)
    BY <1>6, <2>1, <2>2, FreedFirst DEF g
  <2> QED
    BY <1>9, <1>11, <2>3
<1>12. CASE /\ c # Null /\ c <= b
            /\ heap' = h
            /\ pc' = "search"
            /\ UNCHANGED <<code, held>>
  <2>1. Blocks' = Blocks /\ FreeBlocks' = G
    BY <1>4, <1>12 DEF Blocks, FreeBlocks, G
  <2>2. Full' = F /\ Free' = G
    BY <1>1, <1>12, <2>1 DEF Full, Free, F
  <2>3. iter' \in G /\ iter' < block'
    BY <1>1, <1>5, <1>7, <1>12
  <2>4. Locals'
    BY <1>2, <1>4, <1>8, <1>12 DEF Locals
  <2>5. Tiles(heap'.size, heap'.end, Blocks) /\ Apart(heap'.size, G) /\ held \subseteq Blocks
    BY <1>2, <1>4, <1>12 DEF Sane
  <2>6. AInv'
    BY <1>1, <1>4, <1>12, <2>1, <2>2, <2>3, <2>4, <2>5 DEF AInv
  <2> QED
    BY <1>4, <1>12, <2>6 DEF Same
<1> QED
  BY <1>10, <1>11, <1>12 DEF FreeCalled, h, c

\* mem_free has found the place of its block in the free list.
LEMMA FreePlaces ==
    ASSUME AInv, FreePlace
    PROVE  AInv' /\ heap'.end = heap.end /\ Same(heap'.size, heap.size, held')
<1> DEFINE F == held \ {block}
           G == FreeBlocks
           c == heap.next[iter]
           g == InsertFree(heap, block, iter, c)
           j == Join(g, block, g.next[block])
<1>1. /\ pc = "search" /\ ~(c # Null /\ c < block)
      /\ heap' = Join(j, j.prev[block], block)
      /\ pc' = "idle" /\ held' = F /\ code' = 0
      /\ UNCHANGED <<iter, block, need, ptr>>
  BY DEF FreePlace, GoesOn, FreeReturns
<1>2. Locals /\ Loose(heap, F, G, block)
  BY <1>1, Starting
<1>3. iter \in G /\ iter < block
  BY <1>1 DEF AInv, Free
<1>4. /\ List(heap.free_head, heap.next, heap.prev, G)
      /\ block \in Nat /\ block \notin G
      /\ \A x \in G : x \in Nat
  BY <1>2, NullIsNoStart DEF Loose, Lists
<1> HIDE DEF F, G, g, j
<1>5. Before(iter, G, block) /\ After(c, G, block)
  BY <1>1, <1>3, <1>4, Place
<1> HIDE DEF c
<1>6. PICK H : /\ Sane(heap', F, H) /\ heap'.end = heap.end /\ Apart(heap'.size, H)
               /\ Same(heap'.size, heap.size, F)
  BY <1>1, <1>2, <1>5, FreedBetween DEF g, j
<1>7. Locals'
  BY <1>1, <1>2, <1>6 DEF Locals
<1>8. AInv'
  BY <1>1, <1>6, <1>7, Returned
<1> QED
  BY <1>1, <1>6, <1>8

-----------------------------------------------------------------------------

\* Every step keeps the invariant.
LEMMA AInvStep == ASSUME ~Misuse, AInv, [Next]_vars PROVE AInv'
<1>1. CASE \/ \E n \in 0 .. heap.end \div BlockSize : AllocRefused(n) \/ AllocCalled(n)
           \/ AllocFails \/ AllocNext \/ AllocSeek
  BY <1>1, AllocWalks
<1>2. CASE AllocFits
  BY <1>2, AllocTakes
<1>3. CASE AllocPlace
  BY <1>3, AllocPlaces
<1>4. CASE FreeNull \/ FreeSeek
  BY <1>4, FreeWalks
<1>5. ASSUME NEW b \in Starts, MayFree(b), FreeCalled(b) PROVE AInv'
  <2>1. b \in held
    BY <1>5 DEF MayFree
  <2> QED
    BY <1>5, <2>1, FreeUnlinks
<1>6. CASE FreePlace
  BY <1>6, FreePlaces
<1>7. CASE UNCHANGED vars
  <2>1. /\ UNCHANGED <<heap, held>> /\ UNCHANGED <<pc, iter, block, need, ptr, code>>
    BY <1>7 DEF vars
  <2>2. Full' = Full /\ Free' = Free /\ Locals'
    BY <2>1 DEF AInv, Locals, Full, Free, FreeBlocks, Blocks
  <2> QED
    BY <2>1, <2>2, Unmoved DEF AInv
<1> QED
  BY <1>1, <1>2, <1>3, <1>4, <1>5, <1>6, <1>7 DEF Next

\* The invariant holds for ever, when programs free what they hold.
THEOREM AllocatorInvariance == ASSUME ~Misuse PROVE Spec => []AInv
<1>1. AInv /\ [Next]_vars => AInv'
  BY AInvStep
<1> QED
  BY <1>1, InitWhole, PTL DEF Spec

\* What comes after a is the first of those above it, and what comes before
\* it is the last of those below it.
LEMMA Neighbouring ==
    ASSUME NEW S, \A x \in S : x \in Nat, NEW a \in Nat \cup {Null}, NEW p
    PROVE  /\ After(p, S, a) => p = First({b \in S : a < b})
           /\ Before(p, S, a) => p = Last({b \in S : b < a})
<1> DEFINE A == {b \in S : a < b}
           B == {b \in S : b < a}
<1>1. ASSUME After(p, S, a) PROVE p = First(A)
  <2>1. CASE A = {}
    BY <1>1, <2>1 DEF After, First, Null
  <2>2. CASE A # {}
    <3>1. p \in A /\ \A b \in A : p <= b
      BY <1>1, <2>2 DEF After, Null
    <3>2. \A q \in A : (\A b \in A : q <= b) => q = p
      BY <3>1
    <3>3. (CHOOSE q \in A : \A b \in A : q <= b) = p
      BY <3>1, <3>2
    <3> QED
      BY <2>2, <3>3 DEF First
  <2> QED
    BY <2>1, <2>2
<1>2. ASSUME Before(p, S, a) PROVE p = Last(B)
  <2>1. CASE B = {}
    BY <1>2, <2>1 DEF Before, Last, Null
  <2>2. CASE B # {}
    <3>1. p \in B /\ \A b \in B : b <= p
      BY <1>2, <2>2 DEF Before, Null
    <3>2. \A q \in B : (\A b \in B : b <= q) => q = p
      BY <3>1
    <3>3. (CHOOSE q \in B : \A b \in B : b <= q) = p
      BY <3>1, <3>2
    <3> QED
      BY <2>2, <3>3 DEF Last
  <2> QED
    BY <2>1, <2>2
<1> QED
  BY <1>1, <1>2

\* List says of the pointers what Linked says.
LEMMA ListIsLinked ==
    ASSUME NEW head, NEW S, \A x \in S : x \in Nat, List(head, heap.next, heap.prev, S)
    PROVE  Linked(head, S)
<1>1. head = First(S)
  <2>1. {b \in S : Null < b} = S /\ Null \in Nat \cup {Null}
    BY DEF Null
  <2>2. head = First({b \in S : Null < b})
    BY <2>1, Neighbouring DEF List
  <2> QED
    BY <2>1, <2>2
<1>2. ASSUME NEW a \in S
      PROVE  /\ heap.next[a] = First({b \in S : a < b})
             /\ heap.prev[a] = Last({b \in S : b < a})
  BY Neighbouring DEF List
<1> QED
  BY <1>1, <1>2 DEF Linked

\* Every pointer leads to a place where a block may start, and no block is
\* larger than the heap.
THEOREM AllocatorTypes == ASSUME ~Misuse PROVE Spec => []TypeOK
<1>1. AInv /\ sizeInBlocks \in Nat => TypeOK
  <2> SUFFICES ASSUME AInv, sizeInBlocks \in Nat PROVE TypeOK
    OBVIOUS
  <2>1. heap \in Heaps /\ held \subseteq Starts /\ heap.end \in Nat /\ Locals
    BY Starting
  <2>2. Tiles(heap.size, heap.end, Blocks)
    BY DEF AInv
  <2>3. ASSUME NEW a \in Starts PROVE heap.size[a] \in 0 .. heap.end
    <3>1. heap.size[a] \in Nat /\ a \in Nat
      BY <2>1, Fields, NullIsNoStart
    <3>2. CASE a \in Blocks
      <4>1. a + heap.size[a] <= heap.end
        BY <2>2, <3>2 DEF Tiles
      <4> QED
        BY <2>1, <3>1, <4>1
    <3>3. CASE a \notin Blocks
      BY <2>1, <3>1, <3>3 DEF Blocks
    <3> QED
      BY <3>2, <3>3
  <2>4. heap.size \in [Starts -> 0 .. heap.end]
    BY <2>1, <2>3, Fields
  <2>5. heap \in [end : HeapSizes, free_head : Pointers, full_head : Pointers,
                  next : [Starts -> Pointers], prev : [Starts -> Pointers],
                  size : [Starts -> 0 .. heap.end]]
    <3> DEFINE T == [Starts -> 0 .. heap.end]
    <3>1. heap.size \in T
      BY <2>4
    <3> HIDE DEF T
    <3>2. heap \in [end : HeapSizes, free_head : Pointers, full_head : Pointers,
                    next : [Starts -> Pointers], prev : [Starts -> Pointers], size : T]
      BY <2>1, <3>1 DEF Heaps
    <3> QED
      BY <3>2 DEF T
  <2> QED
    BY <2>1, <2>5 DEF TypeOK, Locals
<1>2. Init => sizeInBlocks \in Nat
  BY DEF Init
<1>3. AInv /\ sizeInBlocks \in Nat /\ [Next]_vars => (sizeInBlocks \in Nat)'
  <2> SUFFICES ASSUME AInv, sizeInBlocks \in Nat, [Next]_vars PROVE sizeInBlocks' \in Nat
    OBVIOUS
  <2>1. CASE \E n \in 0 .. heap.end \div BlockSize : AllocRefused(n) \/ AllocCalled(n)
    <3>1. heap.end \div BlockSize \in Nat
      BY Starting, Quotient
    <3> QED
      BY <2>1, <3>1 DEF AllocRefused, AllocCalled
  <2>2. CASE sizeInBlocks' = sizeInBlocks
    BY <2>2
  <2> QED
    BY <2>1, <2>2 DEF Next, vars, AllocFails, AllocNext, AllocFits, AllocSeek, AllocPlace,
       FreeNull, FreeCalled, FreeSeek, FreePlace
<1> QED
  BY <1>1, <1>2, <1>3, AllocatorInvariance, PTL DEF Spec

\* Whatever splits, joins and relinkings came before, between two calls both
\* lists are linked in the order of addresses, and they hold what programs
\* hold and all the rest.
THEOREM ListsAlwaysHold == ASSUME ~Misuse PROVE Spec => []ListsHold
<1>1. AInv => ListsHold
  <2> SUFFICES ASSUME AInv, pc = "idle"
               PROVE  /\ held \subseteq Blocks
                      /\ Linked(heap.full_head, held)
                      /\ Linked(heap.free_head, FreeBlocks)
    BY DEF ListsHold
  <2>1. /\ held \subseteq Starts /\ FreeBlocks \subseteq Starts /\ Blocks = held \cup FreeBlocks
        /\ Lists(heap, held, FreeBlocks)
    BY Starting DEF Sane
  <2>2. (\A x \in held : x \in Nat) /\ (\A x \in FreeBlocks : x \in Nat)
    BY <2>1, NullIsNoStart
  <2> QED
    BY <2>1, <2>2, ListIsLinked DEF Lists
<1> QED
  BY <1>1, AllocatorInvariance, PTL

\* No call loses a part of the heap or gives one away twice.
THEOREM AlwaysTiled == ASSUME ~Misuse PROVE Spec => []Tiled
<1>1. AInv => Tiled
  <2> SUFFICES ASSUME AInv, NEW a \in Blocks
               PROVE  /\ 0 \in Blocks
                      /\ \A b \in Blocks : a < b => a + heap.size[a] <= b
                      /\ \/ a + heap.size[a] \in Blocks
                         \/ heap.end - (a + heap.size[a]) \in 0 .. HeaderSize - 1
    <3>1. AInv => 0 \in Blocks
      BY DEF AInv, Tiles
    <3> QED
      BY <3>1 DEF Tiled
  <2>1. heap \in Heaps /\ heap.end \in Nat
    BY Starting
  <2>2. heap.size[a] \in Nat /\ a \in Nat /\ HeaderSize \in Nat
    BY <2>1, Fields, NullIsNoStart, SizesAssumption DEF Blocks
  <2>3. Tiles(heap.size, heap.end, Blocks)
    BY DEF AInv
  <2>4. /\ 0 \in Blocks /\ a + heap.size[a] <= heap.end
        /\ \A b \in Blocks : a < b => a + heap.size[a] <= b
        /\ a + heap.size[a] \in Blocks \/ heap.end - (a + heap.size[a]) < HeaderSize
    BY <2>3 DEF Tiles
  <2>5. heap.end - (a + heap.size[a]) < HeaderSize
        => heap.end - (a + heap.size[a]) \in 0 .. HeaderSize - 1
    BY <2>1, <2>2, <2>4
  <2> QED
    BY <2>4, <2>5
<1> QED
  BY <1>1, AllocatorInvariance, PTL

\* No two free blocks stay neighbours: what is freed is joined with both.
THEOREM AlwaysCoalesced == ASSUME ~Misuse PROVE Spec => []Coalesced
<1>1. AInv => Coalesced
  BY Starting DEF Coalesced, Apart, Touch
<1> QED
  BY <1>1, AllocatorInvariance, PTL

-----------------------------------------------------------------------------
(* Blocks and cells.                                                       *)

\* Where cell i is.
Addr(i) == i * BlockSize

\* Cells are as far from each other as their numbers say.
LEMMA Addresses ==
    /\ \A i \in Nat : /\ Addr(i) \in Nat
                      /\ Addr(i + 1) = Addr(i) + BlockSize
                      /\ Addr(i) \div BlockSize = i
    /\ \A i, j \in Nat : /\ i < j <=> Addr(i) < Addr(j)
                         /\ i <= j <=> Addr(i) <= Addr(j)
                         /\ Addr(i + j) = Addr(i) + Addr(j)
<1> SUFFICES ASSUME NEW i \in Nat, NEW j \in Nat
             PROVE  /\ Addr(i) \in Nat
                    /\ Addr(i + 1) = Addr(i) + BlockSize
                    /\ Addr(i) \div BlockSize = i
                    /\ i < j <=> Addr(i) < Addr(j)
                    /\ i <= j <=> Addr(i) <= Addr(j)
                    /\ Addr(i + j) = Addr(i) + Addr(j)
  OBVIOUS
<1> USE SizesAssumption DEF Addr
<1>1. Addr(i) \in Nat /\ Addr(j) \in Nat
  OBVIOUS
<1>2. i < j => Addr(i) < Addr(j)
  OBVIOUS
<1>3. j < i => Addr(j) < Addr(i)
  OBVIOUS
<1>4. Addr(i + j) = Addr(i) + Addr(j) /\ Addr(i + 1) = Addr(i) + BlockSize
  OBVIOUS
<1>5. Addr(i) \div BlockSize = i
  OBVIOUS
<1> HIDE DEF Addr
<1> QED
  BY <1>1, <1>2, <1>3, <1>4, <1>5

\* Whole blocks are as long as some number of cells.
LEMMA WholeCells == \A n \in Nat : Whole(n) <=> \E i \in Nat : n = Addr(i)
<1>1. \A n \in Nat : Whole(n) => \E i \in Nat : n = Addr(i)
  BY DEF Whole, Addr
<1>2. \A i \in Nat : Whole(Addr(i))
  BY WholeTimes DEF Addr
<1> QED
  BY <1>1, <1>2

\* The cells of a heap are those that end in it.
LEMMA CellsOf ==
    ASSUME NEW end \in Nat, NEW i
    PROVE  i \in 0 .. end \div BlockSize - 1 <=> i \in Nat /\ Addr(i + 1) <= end
<1>1. end \div BlockSize \in Nat
  BY Quotient
<1>2. i \in 0 .. end \div BlockSize - 1 <=> i \in Nat /\ i + 1 <= end \div BlockSize
  BY <1>1
<1>3. i \in Nat => (i + 1 <= end \div BlockSize <=> Addr(i + 1) <= end)
  BY Quotient DEF Addr
<1> QED
  BY <1>2, <1>3

\* Every set of numbers has a least one.
LEMMA LeastOf ==
    ASSUME NEW T, T \subseteq Nat, T # {}
    PROVE  \E m \in T : \A y \in T : m <= y
<1> DEFINE R == {ss \in Nat \X Nat : ss[1] < ss[2]}
<1>1. IsWellFoundedOn(R, Nat)
  BY NatLessThanWellFounded DEF OpToRel
<1> HIDE DEF R
<1>2. PICK x \in T : \A y \in T : ~(<<y, x>> \in R)
  BY <1>1, WFMin
<1>3. x \in Nat /\ \A y \in T : y \in Nat /\ (y < x => <<y, x>> \in R)
  BY DEF R
<1>4. ASSUME NEW y \in T PROVE x <= y
  <2>1. y \in Nat /\ x \in Nat /\ ~(<<y, x>> \in R) /\ (y < x => <<y, x>> \in R)
    BY <1>2, <1>3
  <2>2. ~(y < x)
    BY <2>1, Zenon
  <2> QED
    BY <2>1, <2>2
<1> QED
  BY <1>4

\* given of Heap, as the full list F has it; and Taken and Fit of that, for m
\* cells with the header's.
GivenBy(h, F) ==
    [c \in 0 .. h.end \div BlockSize - 1 |->
        IF c * BlockSize \in F THEN h.size[c * BlockSize] \div BlockSize ELSE 0]
TakenIn(g) == UNION {c .. c + g[c] - 1 : c \in DOMAIN g}
FitIn(g, m) == {c \in DOMAIN g : c .. c + m - 1 \subseteq DOMAIN g \ TakenIn(g)}

\* Between calls: all of AInv, and programs hold whole cells.
Tidy(h, F, G) ==
    /\ Sane(h, F, G) /\ Apart(h.size, G)
    /\ \A x \in F : Whole(h.size[x])

\* Block x covers cell i.
On(size, x, i) == x <= Addr(i) /\ Addr(i) < x + size[x]

\* A block starts at a cell.
LEMMA StartCell == \A a \in Starts : \E c \in Nat : a = Addr(c)
  BY StartsWhole, WholeCells

\* The blocks of F are in the heap, and whole cells.
Sized(h, F) ==
    /\ h.end \in Nat
    /\ \A x \in F : /\ h.size[x] \in Nat /\ h.size[x] > 0
                    /\ x + h.size[x] <= h.end /\ Whole(h.size[x])

\* How many cells a block that starts there has in the full list.
LEMMA GivenCells ==
    ASSUME NEW h, NEW F, Sized(h, F), NEW c \in Nat
    PROVE  LET g == GivenBy(h, F) IN
           /\ c \in DOMAIN g <=> Addr(c + 1) <= h.end
           /\ c \in DOMAIN g /\ Addr(c) \notin F => g[c] = 0
           /\ Addr(c) \in F => /\ c \in DOMAIN g /\ g[c] \in Nat /\ g[c] > 0
                               /\ h.size[Addr(c)] = Addr(g[c])
<1> DEFINE g == GivenBy(h, F)
           x == Addr(c)
<1>1. h.end \in Nat /\ \A y \in F : /\ h.size[y] \in Nat /\ h.size[y] > 0
                                   /\ y + h.size[y] <= h.end /\ Whole(h.size[y])
  BY DEF Sized
<1>2. c \in DOMAIN g <=> Addr(c + 1) <= h.end
  BY <1>1, CellsOf DEF GivenBy
<1>3. c \in DOMAIN g => g[c] = IF x \in F THEN h.size[x] \div BlockSize ELSE 0
  BY DEF GivenBy, Addr
<1> HIDE DEF g
<1>4. ASSUME x \in F
      PROVE  c \in DOMAIN g /\ g[c] \in Nat /\ g[c] > 0 /\ h.size[x] = Addr(g[c])
  <2>1. PICK s \in Nat : h.size[x] = Addr(s)
    BY <1>1, <1>4, WholeCells
  <2>2. s > 0
    <3>1. Addr(0) = 0
      BY SizesAssumption DEF Addr
    <3> QED
      BY <1>1, <1>4, <2>1, <3>1
  <2>3. Addr(c + 1) <= h.end
    <3>1. Addr(c + s) = x + h.size[x] /\ Addr(c + s) <= h.end
      <4>1. Addr(c + s) = Addr(c) + Addr(s)
        BY <2>1, Addresses
      <4>2. x + h.size[x] <= h.end
        BY <1>1, <1>4
      <4> QED
        BY <2>1, <4>1, <4>2
    <3>2. Addr(c + 1) <= Addr(c + s) /\ Addr(c + 1) \in Nat /\ Addr(c + s) \in Nat
      BY <2>2, Addresses
    <3> QED
      BY <1>1, <3>1, <3>2
  <2>4. g[c] = s
    BY <1>2, <1>3, <1>4, <2>1, <2>3, Addresses
  <2> QED
    BY <1>2, <2>1, <2>2, <2>3, <2>4
<1> QED
  BY <1>2, <1>3, <1>4 DEF g

\* A cell is taken when a block of the full list covers it.
LEMMA TakenCells ==
    ASSUME NEW h, NEW F, NEW G, Tidy(h, F, G), NEW i \in Nat
    PROVE  i \in TakenIn(GivenBy(h, F)) <=> \E x \in F : On(h.size, x, i)
<1> DEFINE g == GivenBy(h, F)
<1>1. F \subseteq Starts /\ Sized(h, F)
  BY SaneFacts DEF Tidy, Sized
<1>2. ASSUME NEW c \in DOMAIN g, i \in c .. c + g[c] - 1
      PROVE  \E x \in F : On(h.size, x, i)
  <2>1. c \in Nat
    <3>1. h.end \in Nat
      BY SaneFacts DEF Tidy
    <3> QED
      BY <3>1, CellsOf DEF GivenBy
  <2> HIDE DEF g
  <2>2. Addr(c) \in F
    <3>1. Addr(c) \notin F => g[c] = 0
      BY <1>1, <1>2, <2>1, GivenCells DEF g
    <3> QED
      BY <1>2, <2>1, <3>1
  <2>3. g[c] \in Nat /\ h.size[Addr(c)] = Addr(g[c])
    BY <1>1, <2>1, <2>2, GivenCells DEF g
  <2>4. c <= i /\ i < c + g[c] /\ c + g[c] \in Nat
    BY <1>2, <2>1, <2>3
  <2>5. Addr(c) <= Addr(i) /\ Addr(i) < Addr(c + g[c]) /\ Addr(c + g[c]) = Addr(c) + Addr(g[c])
    BY <2>1, <2>3, <2>4, Addresses
  <2> QED
    BY <2>2, <2>3, <2>5 DEF On
<1>3. ASSUME NEW x \in F, On(h.size, x, i)
      PROVE  \E c \in DOMAIN g : i \in c .. c + g[c] - 1
  <2>1. PICK c \in Nat : x = Addr(c)
    BY <1>1, StartCell
  <2> HIDE DEF g
  <2>2. c \in DOMAIN g /\ g[c] \in Nat /\ h.size[x] = Addr(g[c])
    BY <1>1, <1>3, <2>1, GivenCells DEF g
  <2>3. Addr(c) <= Addr(i) /\ Addr(i) < Addr(c + g[c])
    BY <1>3, <2>1, <2>2, Addresses DEF On
  <2>4. c <= i /\ i < c + g[c]
    BY <2>1, <2>2, <2>3, Addresses
  <2> QED
    BY <2>1, <2>2, <2>4
<1> QED
  BY <1>2, <1>3 DEF TakenIn

\* A cell is on a block.
LEMMA CoveredCell ==
    ASSUME NEW h, NEW F, NEW G, Sane(h, F, G), NEW i \in Nat, Addr(i + 1) <= h.end
    PROVE  \E x \in F \cup G : On(h.size, x, i)
<1> DEFINE A == F \cup G
           T == {d \in Nat : \E x \in A : d = Addr(i) - x}
           size == h.size
           end == h.end
<1>1. /\ end \in Nat
      /\ \A x \in A : x \in Nat /\ size[x] \in Nat /\ size[x] > 0 /\ x + size[x] <= end
  BY SaneFacts
<1>2. /\ 0 \in A
      /\ \A x \in A : x + size[x] \in A \/ end - (x + size[x]) < HeaderSize
  BY DEF Sane, Tiles
<1>3. /\ Addr(i) \in Nat /\ Addr(i) + BlockSize <= end
      /\ BlockSize \in Nat /\ HeaderSize \in Nat /\ HeaderSize <= BlockSize
  <2>1. Addr(i) \in Nat /\ Addr(i + 1) = Addr(i) + BlockSize
    BY Addresses
  <2>2. BlockSize \in Nat /\ HeaderSize \in Nat /\ HeaderSize <= BlockSize
    BY SizesAssumption
  <2> QED
    BY <2>1, <2>2
<1> HIDE DEF A, size, end
<1>4. PICK d \in T : \A e \in T : d <= e
  <2>1. Addr(i) \in T
    BY <1>2, <1>3
  <2>2. T \subseteq Nat /\ T # {}
    BY <2>1
  <2> HIDE DEF T
  <2> QED
    BY <2>2, LeastOf
<1>5. PICK x \in A : d = Addr(i) - x
  OBVIOUS
<1>6. x <= Addr(i)
  BY <1>1, <1>3, <1>5
<1>7. ASSUME x + size[x] <= Addr(i) PROVE FALSE
  <2> DEFINE y == x + size[x]
  <2>1. y \in A
    BY <1>1, <1>2, <1>3, <1>7
  <2>2. y \in Nat /\ x < y /\ y <= Addr(i)
    BY <1>1, <1>7
  <2> HIDE DEF y
  <2>3. Addr(i) - y \in T
    BY <1>3, <2>1, <2>2
  <2>4. d <= Addr(i) - y
    BY <1>4, <2>3
  <2> QED
    BY <1>1, <1>3, <1>5, <2>2, <2>4
<1> QED
  BY <1>1, <1>3, <1>6, <1>7 DEF On, A, size

\* Cells in a row that nobody holds are in one free block: there would be two
\* that touch otherwise.
LEMMA FitIsInBlock ==
    ASSUME NEW h, NEW F, NEW G, Tidy(h, F, G), NEW m \in Nat, m > 0,
           NEW c \in FitIn(GivenBy(h, F), m)
    PROVE  \E a \in G : a <= Addr(c) /\ Addr(c + m) <= a + h.size[a]
<1> DEFINE g == GivenBy(h, F)
           size == h.size
           end == h.end
<1>1. /\ end \in Nat /\ \A x \in F \cup G : /\ x \in Nat /\ size[x] \in Nat /\ size[x] > 0
                                           /\ x + size[x] <= end
      /\ F \cap G = {}
  BY SaneFacts DEF Tidy
<1>2. /\ Sane(h, F, G) /\ \A x, y \in G : x + size[x] # y
      /\ \A x \in F \cup G : x + size[x] \in F \cup G \/ end - (x + size[x]) < HeaderSize
      /\ \A x \in F \cup G : Whole(size[x]) \/ x + size[x] = end
      /\ F \cup G \subseteq Starts
  BY SaneFacts DEF Tidy, Sane, Tiles, Apart, Touch
<1>3. DOMAIN g = 0 .. end \div BlockSize - 1
  BY DEF GivenBy
<1>4. ASSUME NEW i \in c .. c + m - 1
      PROVE  i \in Nat /\ Addr(i + 1) <= end /\ \A x \in F : ~On(size, x, i)
  <2>1. i \in DOMAIN g /\ i \notin TakenIn(g)
    BY <1>4 DEF FitIn
  <2>2. i \in Nat /\ Addr(i + 1) <= end
    BY <1>1, <1>3, <2>1, CellsOf
  <2> QED
    BY <2>1, <2>2, TakenCells
<1>5. c \in Nat
  <2>1. c \in DOMAIN g
    BY DEF FitIn
  <2> QED
    BY <1>1, <1>3, <2>1, CellsOf
<1>6. c \in c .. c + m - 1 /\ c + m - 1 \in c .. c + m - 1 /\ (c + m - 1) + 1 = c + m
  BY <1>5
<1> HIDE DEF g
<1>7. PICK a \in G : On(size, a, c)
  BY <1>2, <1>4, <1>6, CoveredCell
<1> HIDE DEF size, end
<1> DEFINE e == a + size[a]
<1>8. Addr(c + m) <= end /\ Addr(c) \in Nat /\ Addr(c + m) \in Nat
  <2>1. Addr((c + m - 1) + 1) <= end
    BY <1>4, <1>6
  <2>2. c + m \in Nat
    BY <1>5
  <2> QED
    BY <1>5, <1>6, <2>1, <2>2, Addresses
<1>9. ASSUME e < Addr(c + m) PROVE FALSE
  <2>1. e \in Nat /\ Addr(c) < e /\ a \in F \cup G
    BY <1>1, <1>7, <1>8 DEF On
  <2>2. e # end
    BY <1>1, <1>8, <1>9, <2>1
  <2>3. PICK j \in Nat : e = Addr(j)
    <3>1. Whole(a) /\ Whole(size[a])
      BY <1>2, <2>1, <2>2, StartsWhole
    <3>2. Whole(e)
      BY <1>1, <2>1, <3>1, WholeSum
    <3> QED
      BY <2>1, <3>2, WholeCells
  <2>4. j \in c .. c + m - 1
    <3>1. Addr(c) < Addr(j) /\ Addr(j) < Addr(c + m) /\ c + m \in Nat
      BY <1>5, <1>9, <2>1, <2>3
    <3>2. c < j /\ j < c + m
      BY <1>5, <2>3, <3>1, Addresses
    <3> QED
      BY <1>5, <2>3, <3>2
  <2>5. Addr(j) + BlockSize <= end
    BY <1>4, <2>4, Addresses
  <2>6. e \in F \cup G
    <3>1. BlockSize \in Nat /\ HeaderSize \in Nat /\ HeaderSize <= BlockSize
      BY SizesAssumption
    <3>2. ~(end - e < HeaderSize)
      BY <1>1, <2>1, <2>3, <2>5, <3>1
    <3>3. e \in F \cup G \/ end - e < HeaderSize
      BY <1>2, <2>1, Zenon
    <3> QED
      BY <3>2, <3>3
  <2>7. On(size, e, j)
    BY <1>1, <2>1, <2>3, <2>6 DEF On
  <2>8. e \notin F
    BY <1>4, <2>4, <2>7
  <2> QED
    BY <1>2, <2>6, <2>8
<1>10. Addr(c + m) <= e
  BY <1>1, <1>7, <1>8, <1>9
<1> QED
  BY <1>7, <1>10 DEF On, size

\* And a free block that is long enough is such a row.
LEMMA BlockFits ==
    ASSUME NEW h, NEW F, NEW G, Tidy(h, F, G), NEW m \in Nat, m > 0,
           NEW a \in G, Addr(m) <= h.size[a]
    PROVE  \E c \in FitIn(GivenBy(h, F), m) : a = Addr(c)
<1> DEFINE g == GivenBy(h, F)
           size == h.size
           end == h.end
<1>1. /\ end \in Nat /\ \A x \in F \cup G : /\ x \in Nat /\ size[x] \in Nat /\ size[x] > 0
                                           /\ x + size[x] <= end
      /\ \A x, y \in F \cup G : x < y => x + size[x] <= y
      /\ F \cap G = {} /\ G \subseteq Starts
  BY SaneFacts DEF Tidy
<1>2. PICK c \in Nat : a = Addr(c)
  BY <1>1, StartCell
<1>3. DOMAIN g = 0 .. end \div BlockSize - 1
  BY DEF GivenBy
<1>4. Addr(c + m) = a + Addr(m) /\ Addr(c + m) <= a + size[a] /\ c + m \in Nat
  <2>1. Addr(c + m) = Addr(c) + Addr(m) /\ Addr(c) \in Nat /\ Addr(m) \in Nat
    BY <1>2, Addresses
  <2> QED
    BY <1>1, <1>2, <2>1
<1> HIDE DEF g
<1>5. ASSUME NEW i \in c .. c + m - 1 PROVE i \in DOMAIN g /\ i \notin TakenIn(g)
  <2>1. i \in Nat /\ c <= i /\ i + 1 <= c + m /\ i < c + m
    BY <1>2, <1>5
  <2>2. a <= Addr(i) /\ Addr(i + 1) <= a + size[a] /\ Addr(i) < a + size[a]
    <3>1. c \in Nat /\ i \in Nat /\ i + 1 \in Nat /\ c + m \in Nat
      BY <1>2, <1>4, <2>1
    <3>2. /\ Addr(c) <= Addr(i) /\ Addr(i + 1) <= Addr(c + m) /\ Addr(i) < Addr(c + m)
          /\ Addr(i + 1) \in Nat /\ Addr(i) \in Nat /\ Addr(c + m) \in Nat
      BY <2>1, <3>1, Addresses
    <3>3. a \in Nat /\ size[a] \in Nat
      BY <1>1
    <3> QED
      BY <1>2, <1>4, <3>2, <3>3
  <2>3. i \in DOMAIN g
    <3>1. /\ Addr(i + 1) \in Nat
          /\ a \in Nat /\ size[a] \in Nat /\ a + size[a] <= end
      <4>1. i + 1 \in Nat
        BY <2>1
      <4> QED
        BY <1>1, <4>1, Addresses
    <3>2. Addr(i + 1) <= end
      BY <1>1, <2>2, <3>1
    <3> QED
      BY <1>1, <1>3, <2>1, <3>2, CellsOf
  <2>4. ASSUME NEW x \in F, On(size, x, i) PROVE FALSE
    <3>1. x # a /\ Addr(i) \in Nat
      BY <1>1, <2>1, Addresses
    <3> QED
      BY <1>1, <2>2, <2>4, <3>1 DEF On
  <2> QED
    BY <2>1, <2>3, <2>4, TakenCells DEF g
<1>6. c \in c .. c + m - 1
  BY <1>2
<1> QED
  BY <1>2, <1>5, <1>6 DEF FitIn, g

\* The first free block that is long enough is the lowest such row.
LEMMA FirstFit ==
    ASSUME NEW h, NEW F, NEW G, Tidy(h, F, G), NEW m \in Nat, m > 0,
           NEW a \in G, Addr(m) <= h.size[a], \A b \in G : b < a => h.size[b] < Addr(m)
    PROVE  \E c \in FitIn(GivenBy(h, F), m) :
              a = Addr(c) /\ \A d \in FitIn(GivenBy(h, F), m) : c <= d
<1>1. PICK c \in FitIn(GivenBy(h, F), m) : a = Addr(c)
  BY BlockFits
<1>2. \A d \in FitIn(GivenBy(h, F), m) : d \in Nat
  <2>1. h.end \in Nat /\ DOMAIN GivenBy(h, F) = 0 .. h.end \div BlockSize - 1
    BY SaneFacts DEF Tidy, GivenBy
  <2> QED
    BY <2>1, CellsOf DEF FitIn
<1>3. ASSUME NEW d \in FitIn(GivenBy(h, F), m) PROVE c <= d
  <2>1. PICK b \in G : b <= Addr(d) /\ Addr(d + m) <= b + h.size[b]
    BY FitIsInBlock
  <2>2. /\ Addr(d + m) = Addr(d) + Addr(m) /\ Addr(d) \in Nat /\ Addr(m) \in Nat
        /\ b \in Nat /\ h.size[b] \in Nat /\ a \in Nat
    BY <1>2, Addresses, SaneFacts, ZenonT(60) DEF Tidy
  <2>3. Addr(m) <= h.size[b]
    BY <2>1, <2>2
  <2>4. a <= b
    BY <2>2, <2>3
  <2>5. Addr(c) <= Addr(d)
    BY <1>1, <2>1, <2>2, <2>4
  <2> QED
    BY <1>2, <2>5, Addresses
<1> QED
  BY <1>1, <1>3

\* Without one there is no such row.
LEMMA NoFit ==
    ASSUME NEW h, NEW F, NEW G, Tidy(h, F, G), NEW m \in Nat, m > 0,
           \A b \in G : h.size[b] < Addr(m)
    PROVE  FitIn(GivenBy(h, F), m) = {}
<1> SUFFICES ASSUME NEW d \in FitIn(GivenBy(h, F), m) PROVE FALSE
  OBVIOUS
<1>1. PICK b \in G : b <= Addr(d) /\ Addr(d + m) <= b + h.size[b]
  BY FitIsInBlock
<1>2. d \in Nat
  <2>1. h.end \in Nat /\ DOMAIN GivenBy(h, F) = 0 .. h.end \div BlockSize - 1
    BY SaneFacts DEF Tidy, GivenBy
  <2> QED
    BY <2>1, CellsOf DEF FitIn
<1>3. /\ Addr(d + m) = Addr(d) + Addr(m) /\ Addr(d) \in Nat /\ Addr(m) \in Nat
      /\ b \in Nat /\ h.size[b] \in Nat
  BY <1>2, Addresses, SaneFacts, ZenonT(60) DEF Tidy
<1> QED
  BY <1>1, <1>3

-----------------------------------------------------------------------------
(* The steps of the heap of cells.                                         *)

\* given and asked, as Abstract has them.
Given == GivenBy(heap, held)
Asked == IF pc \in {"fit", "place"} THEN need - HeaderBlocks ELSE 0

\* b is the lowest place for what is asked.
Lowest(b) ==
    \E c \in FitIn(Given, need) : b = Addr(c) /\ \A d \in FitIn(Given, need) : c <= d

\* Programs hold whole blocks, so that cells can tell what they hold.
HeldWhole == \A x \in held : Whole(heap.size[x])

\* What the search has passed does not fit, and nobody can tell that the block
\* whose place is sought is not free any more.
HInv ==
    /\ AInv /\ HeldWhole
    /\ pc \in {"fit", "place"} => need > HeaderBlocks
    /\ pc = "fit" => \A x \in FreeBlocks : iter = Null \/ x < iter => heap.size[x] < Addr(need)
    /\ pc = "place" => heap.size[block] = Addr(need) /\ Lowest(block)

\* Cells change hands when the blocks that programs hold change.
LEMMA GivenKept ==
    ASSUME heap'.end = heap.end, held' = held, Same(heap'.size, heap.size, held)
    PROVE  Given' = Given
  BY DEF Given, GivenBy, Same

\* What a program sees of a step that is none of Heap's.
LEMMA StutterSeen ==
    ASSUME Given' = Given, Asked' = Asked, ptr' = ptr, code' = code,
           sizeInBlocks' = sizeInBlocks
    PROVE  UNCHANGED Abstract!vars
  BY DEF Abstract!vars, Given, GivenBy, Asked

\* The values that Abstract has for its variables have names here.
LEMMA Mapped ==
    /\ Given = [c \in 0 .. heap.end \div BlockSize - 1 |->
                   IF c * BlockSize \in held THEN heap.size[c * BlockSize] \div BlockSize
                                             ELSE 0]
    /\ Asked = IF pc \in {"fit", "place"} THEN need - HeaderBlocks ELSE 0
    /\ Given' = [c \in 0 .. heap.end \div BlockSize - 1 |->
                    IF c * BlockSize \in held THEN heap.size[c * BlockSize] \div BlockSize
                                              ELSE 0]'
    /\ Asked' = (IF pc \in {"fit", "place"} THEN need - HeaderBlocks ELSE 0)'
  BY DEF Given, GivenBy, Asked

\* Of a call with a size that is refused, and of one that is not.
LEMMA AskSeen ==
    ASSUME Asked = 0, Given' = Given, code' = code, AInv,
           NEW n \in Nat, n = 0 \/ n - 1 \in DOMAIN Given, sizeInBlocks' = n,
           \/ ptr' = Null /\ Asked' = Asked /\ n \notin DOMAIN Given \ {0}
           \/ ptr' = ptr /\ Asked' = n /\ n \in DOMAIN Given \ {0}
    PROVE  Abstract!Next
<1> USE Mapped
<1>1. n \in {0} \cup {c + 1 : c \in Abstract!Cells}
  <2>1. n = 0 \/ (n - 1 \in Abstract!Cells /\ n = n - 1 + 1)
    BY DEF Abstract!Cells
  <2> QED
    BY <2>1
<1>2. CASE ptr' = Null /\ Asked' = Asked /\ n \notin DOMAIN Given \ {0}
  <2>1. Abstract!Refuse(n)
    BY <1>2 DEF Abstract!Refuse, Abstract!Null, Null, Abstract!Cells
  <2> QED
    BY <1>1, <2>1 DEF Abstract!Next
<1>3. CASE ptr' = ptr /\ Asked' = n /\ n \in DOMAIN Given \ {0}
  <2>1. Abstract!Ask(n)
    BY <1>3 DEF Abstract!Ask, Abstract!Cells
  <2> QED
    BY <1>1, <2>1 DEF Abstract!Next
<1> QED
  BY <1>2, <1>3

\* Of a return of mem_alloc.
LEMMA AnswerSeen ==
    ASSUME HInv, pc \in {"fit", "place"}, pc' = "idle", code' = code,
           sizeInBlocks' = sizeInBlocks,
           \/ FitIn(Given, need) = {} /\ ptr' = Null /\ Given' = Given
           \/ \E c \in FitIn(Given, need) :
                 /\ \A d \in FitIn(Given, need) : c <= d
                 /\ ptr' = Addr(c) + HeaderSize
                 /\ Given' = [Given EXCEPT ![c] = need]
    PROVE  Abstract!Next
<1> USE Mapped
<1>1. Asked > 0 /\ Asked' = 0 /\ Asked + HeaderBlocks = need /\ need \in Nat /\ Asked \in Nat
  BY OneHeader DEF HInv, AInv, Locals, Asked
<1>2. Abstract!HeaderCells = HeaderBlocks
  BY DEF Abstract!HeaderCells, HeaderBlocks
<1>3. Abstract!Fit(Asked) = FitIn(Given, need)
  <2>1. \A c \in DOMAIN Given : c + Asked + HeaderBlocks - 1 = c + need - 1
    <3>1. \A c \in DOMAIN Given : c \in Nat
      BY Starting, CellsOf DEF HInv, Given, GivenBy
    <3> QED
      BY <1>1, <3>1, OneHeader
  <2>2. Abstract!Taken = TakenIn(Given) /\ Abstract!Cells = DOMAIN Given
    BY DEF Abstract!Taken, Abstract!Cells, TakenIn
  <2> QED
    BY <1>2, <2>1, <2>2 DEF Abstract!Fit, FitIn
<1>4. Abstract!Answer
  <2>1. CASE FitIn(Given, need) = {} /\ ptr' = Null /\ Given' = Given
    <3>1. Abstract!Fit(Asked) = {} /\ ptr' = Abstract!Null
      BY <1>3, <2>1 DEF Abstract!Null, Null
    <3> HIDE DEF Abstract!Fit
    <3> QED
      BY <1>1, <2>1, <3>1 DEF Abstract!Answer
  <2>2. ASSUME NEW c \in FitIn(Given, need), \A d \in FitIn(Given, need) : c <= d,
               ptr' = Addr(c) + HeaderSize, Given' = [Given EXCEPT ![c] = need]
        PROVE  Abstract!Answer
    <3>1. /\ c \in Abstract!Fit(Asked) /\ \A d \in Abstract!Fit(Asked) : c <= d
          /\ ptr' = c * BlockSize + HeaderSize
          /\ Given' = [Given EXCEPT ![c] = Asked + Abstract!HeaderCells]
      BY <1>1, <1>2, <1>3, <2>2, ZenonT(60) DEF Addr
    <3> QED
      BY <1>1, <3>1 DEF Abstract!Answer
  <2> QED
    BY <2>1, <2>2
<1> QED
  BY <1>4 DEF Abstract!Next

\* Of a return of mem_free.
LEMMA FreeSeen ==
    ASSUME Asked = 0, Asked' = 0, ptr' = ptr, sizeInBlocks' = sizeInBlocks,
           \/ code' = -1 /\ Given' = Given
           \/ code' = 0 /\ \E c \in DOMAIN Given : /\ Given[c] > 0
                                                  /\ Given' = [Given EXCEPT ![c] = 0]
    PROVE  Abstract!Next
<1> USE Mapped
<1>1. CASE code' = -1 /\ Given' = Given
  <2>1. Abstract!FreeNull
    BY <1>1 DEF Abstract!FreeNull
  <2> QED
    BY <2>1 DEF Abstract!Next
<1>2. ASSUME code' = 0, NEW c \in DOMAIN Given, Given[c] > 0, Given' = [Given EXCEPT ![c] = 0]
      PROVE  Abstract!Next
  <2>1. Abstract!Free(c) /\ c \in Abstract!Cells
    BY <1>2 DEF Abstract!Free, Abstract!Cells
  <2> QED
    BY <2>1 DEF Abstract!Next
<1> QED
  BY <1>1, <1>2

\* What programs hold, they hold in whole cells.
LEMMA HeldSized ==
    ASSUME HInv
    PROVE  /\ Sized(heap, held) /\ held \subseteq Starts
           /\ DOMAIN Given = 0 .. heap.end \div BlockSize - 1
           /\ \A c \in DOMAIN Given : c \in Nat /\ c * BlockSize = Addr(c)
<1>1. /\ heap \in Heaps /\ heap.end \in Nat /\ held \subseteq Starts /\ held \subseteq Blocks
      /\ Tiles(heap.size, heap.end, Blocks) /\ heap.size \in [Starts -> Nat]
  BY Starting, Fields DEF HInv, AInv
<1>2. Sized(heap, held)
  BY <1>1 DEF HInv, HeldWhole, Sized, Tiles, Blocks
<1>3. DOMAIN Given = 0 .. heap.end \div BlockSize - 1
  BY DEF Given, GivenBy
<1> QED
  BY <1>1, <1>2, <1>3, CellsOf DEF Addr

\* A block is given away.
LEMMA GivenMore ==
    ASSUME HInv, NEW c \in DOMAIN Given, Addr(c) \notin held, held' = held \cup {Addr(c)},
           heap'.end = heap.end, Same(heap'.size, heap.size, held),
           need \in Nat, heap'.size[Addr(c)] = Addr(need)
    PROVE  Given' = [Given EXCEPT ![c] = need]
<1>1. DOMAIN Given = 0 .. heap.end \div BlockSize - 1
      /\ \A d \in DOMAIN Given : d \in Nat /\ d * BlockSize = Addr(d)
  BY HeldSized
<1>2. Given' = [d \in DOMAIN Given |->
                  IF Addr(d) \in held' THEN heap'.size[Addr(d)] \div BlockSize ELSE 0]
  BY <1>1 DEF Given, GivenBy, Addr
<1>3. Given = [d \in DOMAIN Given |->
                  IF Addr(d) \in held THEN heap.size[Addr(d)] \div BlockSize ELSE 0]
  BY <1>1 DEF Given, GivenBy, Addr
<1>4. \A d \in DOMAIN Given : Addr(d) = Addr(c) => d = c
  <2> SUFFICES ASSUME NEW d \in DOMAIN Given, Addr(d) = Addr(c) PROVE d = c
    OBVIOUS
  <2>1. Addr(c) \div BlockSize = c /\ Addr(d) \div BlockSize = d
    BY <1>1, Addresses
  <2> QED
    BY <2>1
<1>5. Addr(need) \div BlockSize = need
  BY Addresses
<1> DEFINE g == Given
           k == Given'
<1>6. /\ DOMAIN k = DOMAIN g /\ k[c] = need
      /\ \A d \in DOMAIN g : d # c => k[d] = g[d]
      /\ k = [d \in DOMAIN g |-> k[d]] /\ g = [d \in DOMAIN g |-> g[d]]
  <2>1. k[c] = need
    BY <1>2, <1>5
  <2>2. ASSUME NEW d \in DOMAIN g, d # c PROVE k[d] = g[d]
    <3>1. Addr(d) \in held' <=> Addr(d) \in held
      BY <1>4, <2>2
    <3>2. Addr(d) \in held => heap'.size[Addr(d)] = heap.size[Addr(d)]
      BY DEF Same
    <3> QED
      BY <1>2, <1>3, <3>1, <3>2
  <2>3. DOMAIN k = DOMAIN g /\ k = [d \in DOMAIN g |-> k[d]]
    <3>1. k = [d \in DOMAIN g |->
                  IF Addr(d) \in held' THEN heap'.size[Addr(d)] \div BlockSize ELSE 0]
      BY <1>2
    <3> HIDE DEF k, g
    <3> QED
      BY <3>1
  <2>4. g = [d \in DOMAIN g |-> g[d]]
    <3>1. g = [d \in DOMAIN g |->
                  IF Addr(d) \in held THEN heap.size[Addr(d)] \div BlockSize ELSE 0]
      BY <1>3
    <3> HIDE DEF g
    <3> QED
      BY <3>1
  <2> QED
    BY <2>1, <2>2, <2>3, <2>4
<1>7. k = [g EXCEPT ![c] = need]
  <2>1. c \in DOMAIN g
    OBVIOUS
  <2> HIDE DEF k, g
  <2> QED
    BY <1>6, <2>1
<1> QED
  BY <1>7

\* A block is given back.
LEMMA GivenLess ==
    ASSUME HInv, NEW b \in held, held' = held \ {b},
           heap'.end = heap.end, Same(heap'.size, heap.size, held')
    PROVE  \E c \in DOMAIN Given : Given[c] > 0 /\ Given' = [Given EXCEPT ![c] = 0]
<1>1. /\ Sized(heap, held) /\ held \subseteq Starts
      /\ DOMAIN Given = 0 .. heap.end \div BlockSize - 1
      /\ \A d \in DOMAIN Given : d \in Nat /\ d * BlockSize = Addr(d)
  BY HeldSized
<1>2. PICK c \in Nat : b = Addr(c)
  BY <1>1, StartCell
<1>3. c \in DOMAIN Given /\ Given[c] > 0
  BY <1>1, <1>2, GivenCells DEF Given
<1>4. Given' = [d \in DOMAIN Given |->
                  IF Addr(d) \in held' THEN heap'.size[Addr(d)] \div BlockSize ELSE 0]
  BY <1>1 DEF Given, GivenBy, Addr
<1>5. Given = [d \in DOMAIN Given |->
                  IF Addr(d) \in held THEN heap.size[Addr(d)] \div BlockSize ELSE 0]
  BY <1>1 DEF Given, GivenBy, Addr
<1>6. \A d \in DOMAIN Given : Addr(d) = b => d = c
  <2> SUFFICES ASSUME NEW d \in DOMAIN Given, Addr(d) = b PROVE d = c
    OBVIOUS
  <2>1. Addr(c) \div BlockSize = c /\ Addr(d) \div BlockSize = d /\ Addr(c) = b
    BY <1>1, <1>2, Addresses
  <2> QED
    BY <2>1
<1> DEFINE g == Given
           k == Given'
<1>7. k[c] = 0
  BY <1>2, <1>3, <1>4
<1>8. ASSUME NEW d \in DOMAIN g, d # c PROVE k[d] = g[d]
  <2>1. Addr(d) \in held' <=> Addr(d) \in held
    BY <1>6, <1>8
  <2>2. Addr(d) \in held' => heap'.size[Addr(d)] = heap.size[Addr(d)]
    BY DEF Same
  <2> QED
    BY <1>4, <1>5, <2>1, <2>2
<1>9. DOMAIN k = DOMAIN g /\ k = [d \in DOMAIN g |-> k[d]]
  <2>1. k = [d \in DOMAIN g |->
                IF Addr(d) \in held' THEN heap'.size[Addr(d)] \div BlockSize ELSE 0]
    BY <1>4
  <2> HIDE DEF k, g
  <2> QED
    BY <2>1
<1>10. g = [d \in DOMAIN g |-> g[d]]
  <2>1. g = [d \in DOMAIN g |->
                IF Addr(d) \in held THEN heap.size[Addr(d)] \div BlockSize ELSE 0]
    BY <1>5
  <2> HIDE DEF g
  <2> QED
    BY <2>1
<1>11. k = [g EXCEPT ![c] = 0]
  <2>1. c \in DOMAIN g
    BY <1>3
  <2> HIDE DEF k, g
  <2> QED
    BY <1>7, <1>8, <1>9, <1>10, <2>1
<1> QED
  BY <1>3, <1>11

-----------------------------------------------------------------------------
(* Each step of the lists is a step of the heap of cells, or none.         *)

\* Between calls the invariant says no more than AInv.
LEMMA AtRest ==
    ASSUME AInv', HeldWhole', pc' \in {"idle", "search"}
    PROVE  HInv' /\ Asked' = 0
  BY DEF HInv, HeldWhole, Asked

\* A call that is refused, and one that starts: nothing has been passed yet.
LEMMA AskSteps ==
    ASSUME HInv, NEW n \in 0 .. heap.end \div BlockSize, AllocRefused(n) \/ AllocCalled(n)
    PROVE  HInv' /\ Abstract!Next
<1>1. AInv'
  BY AllocWalks DEF HInv
<1>2. FreeBlocks' = FreeBlocks /\ UNCHANGED <<heap, held, code>> /\ pc = "idle"
  BY DEF AllocRefused, AllocCalled, FreeBlocks, Blocks
<1>3. HeldWhole' /\ Given' = Given /\ Asked = 0
  <2>1. HeldWhole'
    BY <1>2 DEF HInv, HeldWhole
  <2>2. Given' = Given
    BY <1>2, GivenKept DEF Same
  <2> QED
    BY <1>2, <2>1, <2>2 DEF Asked
<1>4. /\ n \in Nat /\ DOMAIN Given = 0 .. heap.end \div BlockSize - 1
      /\ heap.end \div BlockSize \in Nat
      /\ n = 0 \/ n - 1 \in DOMAIN Given
  <2>1. heap.end \div BlockSize \in Nat
    BY Starting, Quotient DEF HInv
  <2>2. DOMAIN Given = 0 .. heap.end \div BlockSize - 1
    BY DEF Given, GivenBy
  <2> QED
    BY <2>1, <2>2
<1>5. CASE AllocRefused(n)
  <2>1. pc' = "idle" /\ ptr' = Null
    BY <1>5 DEF AllocRefused
  <2>2. HInv' /\ Asked' = 0
    BY <1>1, <1>3, <2>1, AtRest
  <2>3. n \notin DOMAIN Given \ {0} /\ sizeInBlocks' = n
    BY <1>5, <1>4 DEF AllocRefused
  <2> QED
    BY <1>2, <1>3, <1>4, <2>1, <2>2, <2>3, AskSeen DEF HInv
<1>6. CASE AllocCalled(n)
  <2>1. /\ n > 0 /\ n < heap.end \div BlockSize /\ need' = n + 1 /\ HeaderBlocks = 1
        /\ iter' = heap.free_head /\ pc' = "fit" /\ ptr' = ptr
    BY <1>6, OneHeader DEF AllocCalled
  <2>2. /\ \A x \in FreeBlocks : x \in Nat
        /\ List(heap.free_head, heap.next, heap.prev, FreeBlocks)
        /\ heap.end \div BlockSize \in Nat
    <3>1. Sane(heap, held, FreeBlocks) /\ heap.end \in Nat
      BY <1>2, Starting DEF HInv
    <3> QED
      BY <3>1, SaneFacts, Quotient
  <2>3. ASSUME NEW x \in FreeBlocks PROVE ~(iter' = Null \/ x < iter')
    BY <2>1, <2>2 DEF List, After, Null
  <2>4. need' > HeaderBlocks' /\ HeaderBlocks' = 1
    BY <2>1, <2>2 DEF HeaderBlocks
  <2>5. HInv'
    BY <1>1, <1>2, <1>3, <2>1, <2>3, <2>4 DEF HInv, HeldWhole
  <2>6. Asked' = n
    BY <2>1, <2>2, <2>4 DEF Asked
  <2>7. n \in DOMAIN Given \ {0} /\ sizeInBlocks' = n
    BY <1>6, <1>4, <2>1 DEF AllocCalled
  <2> QED
    BY <1>2, <1>3, <1>4, <2>1, <2>5, <2>6, <2>7, AskSeen DEF HInv
<1> QED
  BY <1>5, <1>6

\* The search passes a block that is too short.
LEMMA PassSteps ==
    ASSUME HInv, AllocNext
    PROVE  HInv' /\ UNCHANGED Abstract!vars
<1>1. AInv'
  BY AllocWalks DEF HInv
<1>2. /\ FreeBlocks' = FreeBlocks /\ UNCHANGED <<heap, held, pc, need, block, ptr, code>>
      /\ sizeInBlocks' = sizeInBlocks
      /\ pc = "fit" /\ iter # Null /\ ~Fits /\ iter' = heap.next[iter]
  BY DEF AllocNext, FreeBlocks, Blocks
<1>3. /\ iter \in FreeBlocks /\ need \in Nat
      /\ \A x \in FreeBlocks : x \in Nat /\ heap.size[x] \in Nat
      /\ List(heap.free_head, heap.next, heap.prev, FreeBlocks)
  <2>1. Sane(heap, held, FreeBlocks) /\ heap.end \in Nat /\ Locals
    BY <1>2, Starting DEF HInv
  <2>2. iter \in FreeBlocks
    BY <1>2 DEF HInv, AInv, Free
  <2>3. need \in Nat
    BY <2>1 DEF Locals
  <2> QED
    BY <2>1, <2>2, <2>3, SaneFacts
<1>4. heap.size[iter] < Addr(need)
  <2>1. ~(heap.size[iter] \div BlockSize >= need)
    BY <1>2 DEF Fits
  <2>2. /\ heap.size[iter] \in Nat /\ heap.size[iter] \div BlockSize \in Nat
        /\ need <= heap.size[iter] \div BlockSize <=> need * BlockSize <= heap.size[iter]
    BY <1>3, Quotient
  <2>3. Addr(need) \in Nat /\ Addr(need) = need * BlockSize
    BY <1>3, Addresses DEF Addr
  <2> QED
    BY <1>3, <2>1, <2>2, <2>3
<1>5. ASSUME NEW x \in FreeBlocks, iter' = Null \/ x < iter' PROVE heap.size[x] < Addr(need)
  <2>1. x <= iter
    <3>1. After(iter', FreeBlocks, iter) /\ x \in Nat /\ iter \in Nat
      BY <1>2, <1>3 DEF List
    <3>2. iter' \in FreeBlocks => iter' \in Nat
      BY <1>3
    <3>3. Null \notin Nat
      BY DEF Null
    <3> QED
      BY <1>5, <3>1, <3>2, <3>3 DEF After
  <2>2. CASE x = iter
    BY <1>4, <2>2
  <2>3. CASE x < iter
    BY <1>2, <2>3 DEF HInv
  <2> QED
    BY <1>3, <2>1, <2>2, <2>3
<1>6. HInv'
  <2>1. Addr(need)' = Addr(need) /\ (need > HeaderBlocks)'
    BY <1>2 DEF HInv, Addr, HeaderBlocks
  <2> QED
    BY <1>1, <1>2, <1>5, <2>1 DEF HInv, HeldWhole
<1>7. Given' = Given /\ Asked' = Asked
  BY <1>2, GivenKept DEF Same, Asked, HeaderBlocks
<1> QED
  BY <1>2, <1>6, <1>7, StutterSeen

\* The search has passed all blocks.
LEMMA FailSteps ==
    ASSUME HInv, AllocFails
    PROVE  HInv' /\ Abstract!Next
<1>1. AInv'
  BY AllocWalks DEF HInv
<1>2. /\ UNCHANGED <<heap, held, code, sizeInBlocks>> /\ ptr' = Null
      /\ pc = "fit" /\ pc' = "idle" /\ iter = Null
  BY DEF AllocFails
<1>3. HeldWhole' /\ Given' = Given
  <2>1. HeldWhole'
    BY <1>2 DEF HInv, HeldWhole
  <2>2. Given' = Given
    BY <1>2, GivenKept DEF Same
  <2> QED
    BY <2>1, <2>2
<1>4. Tidy(heap, held, FreeBlocks) /\ need \in Nat /\ need > 0
  BY <1>2, Starting DEF HInv, HeldWhole, Tidy, AInv, Locals
<1>5. \A x \in FreeBlocks : heap.size[x] < Addr(need)
  BY <1>2 DEF HInv
<1>6. FitIn(Given, need) = {}
  BY <1>4, <1>5, NoFit DEF Given
<1>7. HInv'
  BY <1>1, <1>2, <1>3, AtRest
<1> QED
  BY <1>2, <1>3, <1>6, <1>7, AnswerSeen

\* The search for a place in the full list goes on.
LEMMA SeekSteps ==
    ASSUME HInv, AllocSeek
    PROVE  HInv' /\ UNCHANGED Abstract!vars
<1>1. AInv'
  BY AllocWalks DEF HInv
<1>2. UNCHANGED <<heap, held, pc, need, block, ptr, code, sizeInBlocks>> /\ pc = "place"
  BY DEF AllocSeek
<1>3. Given' = Given /\ Asked' = Asked
  BY <1>2, GivenKept DEF Same, Asked, HeaderBlocks
<1>4. HInv'
  <2>1. Lowest(block)'
    BY <1>2, <1>3 DEF HInv, Lowest, FitIn, TakenIn, Addr
  <2>2. Addr(need)' = Addr(need) /\ (need > HeaderBlocks)'
    BY <1>2 DEF HInv, Addr, HeaderBlocks
  <2> QED
    BY <1>1, <1>2, <2>1, <2>2 DEF HInv, HeldWhole
<1> QED
  BY <1>2, <1>3, <1>4, StutterSeen

\* A block is long enough: it is the lowest such place, whether it goes to the
\* front of the full list or its place there is sought first.
LEMMA TakeSteps ==
    ASSUME HInv, AllocFits
    PROVE  HInv' /\ [Abstract!Next]_(Abstract!vars)
<1>1. /\ AInv' /\ heap'.end = heap.end
      /\ heap'.size[iter] = Addr(need) /\ Same(heap'.size, heap.size, held)
  BY AllocTakes DEF HInv, Addr
<1>2. /\ pc = "fit" /\ iter # Null /\ Fits /\ block' = iter
      /\ UNCHANGED <<need, code, sizeInBlocks>>
  BY DEF AllocFits
<1>3. /\ Tidy(heap, held, FreeBlocks) /\ need \in Nat /\ need > 0
      /\ iter \in FreeBlocks /\ iter \notin held
  BY <1>2, Starting DEF HInv, HeldWhole, Tidy, AInv, Locals, Free
<1>4. Addr(need) <= heap.size[iter]
  <2>1. heap.size[iter] \in Nat /\ heap.size[iter] \div BlockSize >= need
    BY <1>2, <1>3, SaneFacts DEF Tidy, Fits
  <2>2. /\ heap.size[iter] \div BlockSize \in Nat
        /\ need <= heap.size[iter] \div BlockSize <=> need * BlockSize <= heap.size[iter]
    BY <1>3, <2>1, Quotient
  <2> QED
    BY <1>3, <2>1, <2>2 DEF Addr
<1>5. PICK c \in FitIn(Given, need) :
         iter = Addr(c) /\ \A d \in FitIn(Given, need) : c <= d
  <2>1. \A b \in FreeBlocks : b < iter => heap.size[b] < Addr(need)
    BY <1>2 DEF HInv
  <2> QED
    BY <1>3, <1>4, <2>1, FirstFit DEF Given
<1>6. Whole(heap'.size[iter]) /\ \A x \in held : Whole(heap'.size[x])
  <2>1. Whole(Addr(need))
    BY <1>3, WholeTimes DEF Addr
  <2> QED
    BY <1>1, <2>1 DEF HInv, HeldWhole, Same
<1>7. CASE AllocReturns(iter)
  <2>1. ptr' = iter + HeaderSize /\ held' = held \cup {iter} /\ pc' = "idle"
    BY <1>7 DEF AllocReturns
  <2>2. HInv'
    <3>1. HeldWhole'
      BY <1>6, <2>1 DEF HeldWhole
    <3> QED
      BY <1>1, <2>1, <3>1, AtRest
  <2>3. Given' = [Given EXCEPT ![c] = need]
    <3>1. c \in DOMAIN Given
      BY DEF FitIn
    <3> QED
      BY <1>1, <1>3, <1>5, <2>1, <3>1, GivenMore
  <2>4. \E d \in FitIn(Given, need) :
           /\ \A e \in FitIn(Given, need) : d <= e
           /\ ptr' = Addr(d) + HeaderSize
           /\ Given' = [Given EXCEPT ![d] = need]
    BY <1>5, <2>1, <2>3
  <2>5. Abstract!Next
    BY <1>2, <2>1, <2>4, AnswerSeen
  <2> QED
    BY <2>2, <2>5
<1>8. CASE pc' = "place" /\ UNCHANGED <<ptr, held>>
  <2>1. Given' = Given
    BY <1>1, <1>8, GivenKept
  <2>2. Asked' = Asked /\ (need > HeaderBlocks)'
    BY <1>2, <1>8 DEF HInv, Asked, HeaderBlocks
  <2>3. Lowest(block)'
    <3>1. Lowest(iter)
      BY <1>5 DEF Lowest
    <3> QED
      BY <1>2, <2>1, <3>1 DEF Lowest, FitIn, TakenIn, Addr
  <2>4. heap'.size[block'] = Addr(need)'
    BY <1>1, <1>2 DEF Addr
  <2>5. HInv'
    BY <1>1, <1>6, <1>8, <2>2, <2>3, <2>4 DEF HInv, HeldWhole
  <2> QED
    BY <1>2, <1>8, <2>1, <2>2, <2>5, StutterSeen
<1> QED
  BY <1>7, <1>8 DEF AllocFits

\* Its place is found.
LEMMA PlaceSteps ==
    ASSUME HInv, AllocPlace
    PROVE  HInv' /\ Abstract!Next
<1>1. AInv' /\ heap'.end = heap.end /\ heap'.size = heap.size
  BY AllocPlaces DEF HInv
<1>2. /\ pc = "place" /\ UNCHANGED <<code, sizeInBlocks>>
      /\ ptr' = block + HeaderSize /\ held' = held \cup {block} /\ pc' = "idle"
  BY DEF AllocPlace, AllocReturns
<1>3. need \in Nat /\ block \notin held
  BY <1>2, Starting DEF HInv, AInv, Locals
<1>4. heap.size[block] = Addr(need) /\ Lowest(block)
  BY <1>2 DEF HInv
<1>5. PICK c \in FitIn(Given, need) :
         block = Addr(c) /\ \A d \in FitIn(Given, need) : c <= d
  BY <1>4 DEF Lowest
<1>6. HInv'
  <2>1. Whole(Addr(need))
    BY <1>3, WholeTimes DEF Addr
  <2>2. HeldWhole'
    BY <1>1, <1>2, <1>4, <2>1 DEF HInv, HeldWhole
  <2> QED
    BY <1>1, <1>2, <2>2, AtRest
<1>7. Given' = [Given EXCEPT ![c] = need]
  <2>1. c \in DOMAIN Given
    BY DEF FitIn
  <2> QED
    BY <1>1, <1>2, <1>3, <1>4, <1>5, <2>1, GivenMore DEF Same
<1>8. \E d \in FitIn(Given, need) :
         /\ \A e \in FitIn(Given, need) : d <= e
         /\ ptr' = Addr(d) + HeaderSize
         /\ Given' = [Given EXCEPT ![d] = need]
  BY <1>2, <1>5, <1>7
<1> QED
  BY <1>2, <1>6, <1>8, AnswerSeen

\* mem_free(nullptr), and the walk of mem_free.
LEMMA FreeWalkSteps ==
    ASSUME HInv, FreeNull \/ FreeSeek
    PROVE  HInv' /\ [Abstract!Next]_(Abstract!vars)
<1>1. AInv'
  BY FreeWalks DEF HInv
<1>2. /\ UNCHANGED <<heap, held, pc, ptr, sizeInBlocks>> /\ pc \in {"idle", "search"}
      /\ code' = -1 \/ code' = code
  BY DEF FreeNull, FreeSeek
<1>3. HeldWhole' /\ Given' = Given /\ Asked = 0
  <2>1. HeldWhole'
    BY <1>2 DEF HInv, HeldWhole
  <2>2. Given' = Given
    BY <1>2, GivenKept DEF Same
  <2> QED
    BY <1>2, <2>1, <2>2 DEF Asked
<1>4. HInv' /\ Asked' = 0
  BY <1>1, <1>2, <1>3, AtRest
<1>5. CASE code' = -1
  BY <1>2, <1>3, <1>4, <1>5, FreeSeen
<1>6. CASE code' = code
  BY <1>2, <1>3, <1>4, <1>6, StutterSeen
<1> QED
  BY <1>2, <1>4, <1>5, <1>6

\* A block is given back: at once, or when its place in the free list is found.
LEMMA FreeSteps ==
    ASSUME HInv, (\E b \in held : FreeCalled(b)) \/ FreePlace
    PROVE  HInv' /\ [Abstract!Next]_(Abstract!vars)
<1>1. AInv' /\ heap'.end = heap.end /\ Same(heap'.size, heap.size, held')
  BY FreeUnlinks, FreePlaces DEF HInv
<1>2. /\ pc \in {"idle", "search"} /\ ptr' = ptr /\ sizeInBlocks' = sizeInBlocks
      /\ \/ pc' = "search" /\ UNCHANGED <<code, held>>
         \/ \E b \in held : FreeReturns(b)
  <2>1. CASE FreePlace
    BY <2>1 DEF FreePlace, HInv, AInv
  <2>2. CASE \E b \in held : FreeCalled(b)
    BY <2>2 DEF FreeCalled
  <2> QED
    BY <2>1, <2>2
<1>3. Asked = 0
  BY <1>2 DEF Asked
<1>4. CASE pc' = "search" /\ UNCHANGED <<code, held>>
  <2>1. HeldWhole'
    BY <1>1, <1>4 DEF HInv, HeldWhole, Same
  <2>2. HInv' /\ Asked' = 0
    BY <1>1, <1>4, <2>1, AtRest
  <2>3. Given' = Given
    BY <1>1, <1>4, GivenKept
  <2> QED
    BY <1>2, <1>3, <1>4, <2>2, <2>3, StutterSeen
<1>5. ASSUME NEW b \in held, FreeReturns(b)
      PROVE  HInv' /\ [Abstract!Next]_(Abstract!vars)
  <2>1. code' = 0 /\ held' = held \ {b} /\ pc' = "idle"
    BY <1>5 DEF FreeReturns
  <2>2. HeldWhole'
    BY <1>1, <2>1 DEF HInv, HeldWhole, Same
  <2>3. HInv' /\ Asked' = 0
    BY <1>1, <2>1, <2>2, AtRest
  <2>4. \E c \in DOMAIN Given : Given[c] > 0 /\ Given' = [Given EXCEPT ![c] = 0]
    BY <1>1, <2>1, GivenLess
  <2>5. Abstract!Next
    BY <1>2, <1>3, <2>1, <2>3, <2>4, FreeSeen
  <2> QED
    BY <2>3, <2>5
<1> QED
  BY <1>2, <1>4, <1>5

\* Every step of the lists is a step of the heap of cells, or none.
LEMMA HeapStep ==
    ASSUME ~Misuse, HInv, [Next]_vars
    PROVE  HInv' /\ [Abstract!Next]_(Abstract!vars)
<1>1. CASE \E n \in 0 .. heap.end \div BlockSize : AllocRefused(n) \/ AllocCalled(n)
  BY <1>1, AskSteps
<1>2. CASE AllocNext \/ AllocSeek
  BY <1>2, PassSteps, SeekSteps
<1>3. CASE AllocFails \/ AllocPlace
  BY <1>3, FailSteps, PlaceSteps
<1>4. CASE AllocFits
  BY <1>4, TakeSteps
<1>5. CASE FreeNull \/ FreeSeek
  BY <1>5, FreeWalkSteps
<1>6. ASSUME NEW b \in Starts, MayFree(b), FreeCalled(b)
      PROVE  HInv' /\ [Abstract!Next]_(Abstract!vars)
  <2>1. b \in held
    BY <1>6 DEF MayFree
  <2> QED
    BY <1>6, <2>1, FreeSteps
<1>7. CASE FreePlace
  BY <1>7, FreeSteps
<1>8. CASE UNCHANGED vars
  <2>1. UNCHANGED <<heap, pc, iter, block, need, ptr, code, held, sizeInBlocks>>
    BY <1>8 DEF vars
  <2>2. Given' = Given /\ Asked' = Asked /\ FreeBlocks' = FreeBlocks
    BY <2>1, GivenKept DEF Same, Asked, HeaderBlocks, FreeBlocks, Blocks
  <2>3. AInv'
    BY <1>8, AInvStep DEF HInv
  <2>4. /\ (need > HeaderBlocks)' = (need > HeaderBlocks) /\ Addr(need)' = Addr(need)
        /\ Lowest(block)' = Lowest(block)
    BY <2>1, <2>2 DEF HeaderBlocks, Addr, Lowest, FitIn, TakenIn
  <2>5. HInv'
    BY <2>1, <2>2, <2>3, <2>4 DEF HInv, HeldWhole
  <2> QED
    BY <2>1, <2>2, <2>5, StutterSeen
<1> QED
  BY <1>1, <1>2, <1>3, <1>4, <1>5, <1>6, <1>7, <1>8 DEF Next

\* At the start nothing is given.
LEMMA HeapInit == Init => HInv /\ Abstract!Init
<1> SUFFICES ASSUME Init PROVE HInv /\ Abstract!Init
  OBVIOUS
<1>1. AInv
  BY InitWhole
<1>2. PICK n \in HeapSizes : heap.end = n
  BY DEF Init
<1>3. pc = "idle" /\ held = {} /\ ptr = Null /\ code = 0 /\ sizeInBlocks = 0
  BY DEF Init
<1>4. HInv
  BY <1>1, <1>3 DEF HInv, HeldWhole
<1>5. /\ [c \in 0 .. heap.end \div BlockSize - 1 |->
             IF c * BlockSize \in held THEN heap.size[c * BlockSize] \div BlockSize ELSE 0]
           = [c \in 0 .. n \div BlockSize - 1 |-> 0]
      /\ (IF pc \in {"fit", "place"} THEN need - HeaderBlocks ELSE 0) = 0
  BY <1>2, <1>3
<1>6. Abstract!Init
  BY <1>3, <1>5 DEF Abstract!Init, Abstract!Null, Null
<1> QED
  BY <1>4, <1>6

\* The lists are a row of cells, of which mem_alloc gives the lowest run that
\* is long enough, and none only when there is no such run.
THEOREM AllocatorImplementsHeap == ASSUME ~Misuse PROVE Spec => ImplementsHeap
<1>1. Init => HInv /\ Abstract!Init
  BY HeapInit
<1>2. HInv /\ [Next]_vars => HInv' /\ [Abstract!Next]_(Abstract!vars)
  BY HeapStep
<1> QED
  BY <1>1, <1>2, PTL DEF Spec, ImplementsHeap, Abstract!Spec

=============================================================================
