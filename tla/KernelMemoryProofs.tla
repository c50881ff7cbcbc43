-------------------------- MODULE KernelMemoryProofs --------------------------
(***************************************************************************)
(* The invariants of Kernel hold with delete as well, by which a thread is *)
(* made anew at the address of one that has finished; and every thread has *)
(* its stack for as long as it can run.                                    *)
(***************************************************************************)
EXTENDS KernelMemory, KernelProofs, FiniteSetTheorems

\* The threads whose TCB exists.
Created == {t \in Threads : pc[t] # "none"}

\* StacksLive as a step preserves it: main, which has no stack, never goes.
MInv ==
    /\ IInv
    /\ Main \in Created
    /\ stacks = Created \ {Main}

\* main is the only thread at first.
LEMMA MemoryInitInv == MemoryInit => MInv
<1> SUFFICES ASSUME MemoryInit PROVE MInv
  OBVIOUS
<1>1. IInv
  BY InitInv DEF MemoryInit
<1> QED
  BY <1>1, ThreadsAssumption DEF MemoryInit, Init, MInv, Created

\* Only a creation makes a thread (of KernelMemory's other calls none ends one).
LEMMA CreatedKept ==
    ASSUME TypeOK, NEW t \in Threads,
           \/ ThreadWrapper(t) \/ BodyReturn(t) \/ NullCall(t) \/ SemWaitReturn(t)
           \/ ThreadDispatch(t) \/ WrapperYield(t) \/ ThreadExit(t)
           \/ \E u \in Threads : ThreadStart(t, u)
           \/ \E s \in Sems : \/ SemOpen(t, s) \/ SemClose(t, s) \/ SemWait(t, s)
                              \/ SemSignal(t, s) \/ SemTryWait(t, s)
    PROVE  Created' = Created
<1>1. /\ pc[t] # "none"
      /\ UNCHANGED pc \/ \E w \in {"user", "block", "exit"} : pc' = [pc EXCEPT ![t] = w]
  <2> USE DEF Calls, Running, TypeOK
  <2>1. CASE \/ ThreadWrapper(t) \/ BodyReturn(t) \/ NullCall(t) \/ SemWaitReturn(t)
    BY <2>1 DEF ThreadWrapper, BodyReturn, NullCall, SemWaitReturn
  <2>2. CASE ThreadDispatch(t) \/ WrapperYield(t) \/ ThreadExit(t)
    BY <2>2 DEF ThreadDispatch, WrapperYield, ThreadExit
  <2>3. CASE \E u \in Threads : ThreadStart(t, u)
    BY <2>3 DEF ThreadStart
  <2>4. ASSUME NEW s \in Sems,
               SemOpen(t, s) \/ SemClose(t, s) \/ SemSignal(t, s) \/ SemTryWait(t, s)
        PROVE  pc[t] # "none" /\ UNCHANGED pc
    BY <2>4 DEF SemOpen, SemClose, SemSignal, SemTryWait
  <2>5. ASSUME NEW s \in Sems, SemWait(t, s)
        PROVE  /\ pc[t] # "none"
               /\ UNCHANGED pc \/ pc' = [pc EXCEPT ![t] = "block"]
    BY <2>5 DEF SemWait
  <2> QED
    BY <2>1, <2>2, <2>3, <2>4, <2>5
<1> QED
  BY <1>1 DEF Created, TypeOK

\* A finished thread is in no queue, so that its address can be another's.
LEMMA DeleteInv ==
    ASSUME MInv, NEW t \in Threads, NEW u \in Threads, DeleteThread(t, u)
    PROVE  MInv'
<1> USE ThreadsAssumption, SemsAssumption DEF MInv, IInv
<1>1. /\ running = t /\ pc[t] = "user" /\ u \notin {t, Main} /\ pc[u] = "exit"
      /\ u \notin Range(readyThreadQueue)
      /\ \A s \in Sems : u \notin Range(blockedThreads[s])
  BY DEF DeleteThread, Calls, Running, NoneLost, Contexts
<1>2. /\ pc' = [pc EXCEPT ![u] = "none"]
      /\ finished' = [finished EXCEPT ![u] = FALSE]
      /\ semaphoreDeleted' = [semaphoreDeleted EXCEPT ![u] = FALSE]
      /\ stacks' = stacks \ {u}
      /\ UNCHANGED <<schedVars, blocked, semVars, ret>>
  BY DEF DeleteThread
<1>3. TypeOK'
  BY <1>2 DEF TypeOK, schedVars, semVars, PCs
<1>4. OnePlace'
  BY <1>2 DEF OnePlace, schedVars, semVars
<1>5. NoneLost'
  BY <1>1, <1>2 DEF NoneLost, schedVars, semVars, TypeOK
<1>6. Contexts'
  BY <1>1, <1>2 DEF Contexts, schedVars, semVars, TypeOK
<1>7. SemCount' /\ ClosedIsEmpty'
  BY <1>2 DEF SemCount, ClosedIsEmpty, semVars
<1>8. Created' = Created \ {u}
  BY <1>2 DEF Created, TypeOK
<1> QED
  BY <1>1, <1>2, <1>3, <1>4, <1>5, <1>6, <1>7, <1>8

\* Creation makes the thread and its stack.
LEMMA MakeInv ==
    ASSUME MInv, NEW t \in Threads, NEW u \in Threads, Create(t, u)
    PROVE  MInv'
<1>1. IInv'
  BY CreateInv DEF MInv, Create
<1>2. pc[u] = "none" /\ pc' = [pc EXCEPT ![u] = "start"] /\ stacks' = stacks \cup {u}
  BY DEF Create, ThreadCreate, ThreadCreateWithoutStart
<1>3. Created' = Created \cup {u}
  BY <1>2 DEF Created, MInv, IInv, TypeOK
<1> QED
  BY <1>1, <1>2, <1>3 DEF MInv, Created

\* Every other call leaves threads and stacks as they are.
LEMMA OtherInv ==
    ASSUME MInv, NEW t \in Threads,
           \/ \E u \in Threads : Start(t, u)
           \/ CreateNoHandle(t) \/ NewFails(t) \/ Yield(t) \/ NoMemory(t)
           \/ \E s \in Sems : Open(t, s) \/ Wait(t, s) \/ Signal(t, s)
    PROVE  MInv'
<1> USE DEF RestOfMemory, memVars
<1>1. CASE NewFails(t)
  <2>1. OutOfMemory /\ UNCHANGED <<pc, stacks>>
    BY <1>1 DEF NewFails, OutOfMemory
  <2> QED
    BY <2>1, OutOfMemoryInv DEF MInv, Created
<1>2. CASE ~NewFails(t)
  <2>1. (ThreadStep(t) \/ SemStep(t)) /\ UNCHANGED stacks
    BY <1>2 DEF Start, CreateNoHandle, Yield, NoMemory, Open, Wait, Signal,
                ThreadStep, SemStep
  <2>2. Created' = Created
    <3>1. TypeOK
      BY DEF MInv, IInv
    <3> QED
      BY <1>2, <3>1, CreatedKept
         DEF Start, CreateNoHandle, Yield, NoMemory, Open, Wait, Signal
  <2>3. IInv'
    BY <2>1, StepInv DEF MInv, Next
  <2> QED
    BY <2>1, <2>2, <2>3 DEF MInv
<1> QED
  BY <1>1, <1>2

\* The loop of Sem::close leaves them too.
LEMMA CloseInv ==
    ASSUME MInv, NEW s \in Sems, CloseUnblock(s) \/ CloseDelete(s)
    PROVE  MInv'
<1>1. CloseStep(s) /\ UNCHANGED <<pc, stacks>>
  BY DEF CloseUnblock, CloseDelete, CloseStep, SemCloseUnblock, SemCloseDelete, RestOfMemory
<1>2. IInv'
  BY <1>1, StepInv DEF MInv, Next
<1> QED
  BY <1>1, <1>2 DEF MInv, Created

\* Every call, with its memory, keeps the invariant.
LEMMA MemoryStepInv == MInv /\ [MemoryNext]_memoryVars => MInv'
<1> SUFFICES ASSUME MInv, [MemoryNext]_memoryVars PROVE MInv'
  OBVIOUS
<1>1. CASE UNCHANGED memoryVars
  BY <1>1, StutterInv DEF MInv, Created, memoryVars, memVars, vars
<1>2. CASE MemoryNext
  BY <1>2, MakeInv, DeleteInv, OtherInv, CloseInv DEF MemoryNext
<1> QED
  BY <1>1, <1>2

-----------------------------------------------------------------------------
(* The books: what is counted is finite, and each call keeps the balance.  *)

Books ==
    /\ free \in Int /\ lost \in Int
    /\ IsFiniteSet(Waits) /\ IsFiniteSet(Created)
    /\ IsFiniteSet(stacks) /\ IsFiniteSet(open)
    /\ Balanced

\* One of a kind, none, and one less.
LEMMA OneOrNone == \A k \in Int : k * 1 = k /\ k * 0 = 0 /\ k * (-1) = -k
OBVIOUS

\* The constants are numbers.
LEMMA Sizes ==
    /\ Total \in Int /\ Stack \in Int /\ Tcb \in Int /\ Object \in Int /\ Elem \in Int
BY MemoryAssumption

\* n more of a kind.
LEMMA More ==
    ASSUME NEW k \in Int, NEW n \in Int, NEW d \in Int
    PROVE  k * n \in Int /\ k * d \in Int /\ k * (n + d) = k * n + k * d
OBVIOUS

\* f free units, l lost ones, and those of so many Elems, TCBs, stacks and Sems.
Units(f, l, p, c, k, o) == f + l + Elem * p + Tcb * c + Stack * k + Object * o

\* The sum stays if what is taken and given is what the counts say.
LEMMA Sum ==
    ASSUME NEW f \in Int, NEW l \in Int, NEW p \in Int, NEW c \in Int, NEW k \in Int, NEW o \in Int,
           NEW f1 \in Int, NEW l1 \in Int,
           NEW dp \in Int, NEW dc \in Int, NEW dk \in Int, NEW do \in Int,
           Units(f, l, p, c, k, o) = Total,
           Units(f1, l1, dp, dc, dk, do) = f + l
    PROVE  Units(f1, l1, p + dp, c + dc, k + dk, o + do) = Total
<1>1. /\ Elem * p \in Int /\ Elem * dp \in Int /\ Elem * (p + dp) = Elem * p + Elem * dp
      /\ Tcb * c \in Int /\ Tcb * dc \in Int /\ Tcb * (c + dc) = Tcb * c + Tcb * dc
      /\ Stack * k \in Int /\ Stack * dk \in Int /\ Stack * (k + dk) = Stack * k + Stack * dk
      /\ Object * o \in Int /\ Object * do \in Int /\ Object * (o + do) = Object * o + Object * do
  BY Sizes, More
<1> QED
  BY <1>1, Sizes DEF Units

\* The counts are numbers.
LEMMA Counts ==
    ASSUME MInv, Books
    PROVE  /\ free \in Int /\ lost \in Int
           /\ Len(readyThreadQueue) \in Int /\ Cardinality(Waits) \in Int
           /\ Cardinality(Created) \in Int
           /\ Cardinality(stacks) \in Int /\ Cardinality(open) \in Int
<1>1. /\ Cardinality(Waits) \in Int /\ Cardinality(Created) \in Int
      /\ Cardinality(stacks) \in Int /\ Cardinality(open) \in Int
  BY FS_CardinalityType DEF Books
<1>2. Len(readyThreadQueue) \in Int
  BY DEF MInv, IInv, TypeOK
<1> QED
  BY <1>1, <1>2 DEF Books

\* What a step takes and gives, against what it makes and deletes.
LEMMA BooksKept ==
    ASSUME MInv, Books, free' \in Int, lost' \in Int,
           IsFiniteSet(Waits'), IsFiniteSet(Created'), IsFiniteSet(stacks'), IsFiniteSet(open'),
           NEW dp \in Int, NEW dc \in Int, NEW dk \in Int, NEW do \in Int,
           Len(readyThreadQueue') + Cardinality(Waits')
              = Len(readyThreadQueue) + Cardinality(Waits) + dp,
           Cardinality(Created') = Cardinality(Created) + dc,
           Cardinality(stacks') = Cardinality(stacks) + dk,
           Cardinality(open') = Cardinality(open) + do,
           Units(free', lost', dp, dc, dk, do) = free + lost
    PROVE  Books'
<1> DEFINE p == Len(readyThreadQueue) + Cardinality(Waits)
<1>1. p \in Int
  BY Counts
<1>2. Units(free, lost, p, Cardinality(Created), Cardinality(stacks), Cardinality(open)) = Total
  BY DEF Books, Balanced, Created, Units
<1> HIDE DEF p
<1>3. Units(free', lost', p + dp, Cardinality(Created) + dc, Cardinality(stacks) + dk,
            Cardinality(open) + do) = Total
  BY <1>1, <1>2, Counts, Sum
<1>4. Units(free', lost', Len(readyThreadQueue') + Cardinality(Waits'), Cardinality(Created'),
            Cardinality(stacks'), Cardinality(open')) = Total
  BY <1>3, Zenon DEF p
<1>5. Balanced'
  BY <1>4 DEF Balanced, Created, Units
<1> QED
  BY <1>5 DEF Books

\* A queue that gets longer has one place more.
LEMMA WaitsGrow ==
    ASSUME TypeOK, IsFiniteSet(Waits), NEW s \in Sems, NEW t \in Threads,
           blockedThreads' = [blockedThreads EXCEPT ![s] = Append(blockedThreads[s], t)]
    PROVE  IsFiniteSet(Waits') /\ Cardinality(Waits') = Cardinality(Waits) + 1
<1> DEFINE q == blockedThreads[s]
           n == Len(q) + 1
<1>1. q \in Seq(Threads) /\ blockedThreads \in [Sems -> Seq(Threads)]
  BY DEF TypeOK
<1>2. DOMAIN q = 1 .. Len(q) /\ DOMAIN Append(q, t) = 1 .. n /\ Len(q) \in Nat
  BY <1>1
<1>3. DOMAIN Append(q, t) = DOMAIN q \cup {n} /\ n \notin DOMAIN q
  BY <1>2
<1>4. /\ blockedThreads'[s] = Append(q, t)
      /\ \A r \in Sems \ {s} : blockedThreads'[r] = blockedThreads[r]
  BY <1>1
<1> HIDE DEF q, n
<1>5. Waits' = Waits \cup {<<s, n>>}
  <2>1. \A r \in Sems : \A i : i \in DOMAIN blockedThreads'[r]
                             <=> i \in DOMAIN blockedThreads[r] \/ (r = s /\ i = n)
    BY <1>3, <1>4 DEF q
  <2> QED
    BY <2>1 DEF Waits
<1>6. <<s, n>> \notin Waits
  BY <1>3 DEF Waits, q
<1> QED
  BY <1>5, <1>6, FS_AddElement

\* A queue whose first is removed has one place less.
LEMMA WaitsShrink ==
    ASSUME TypeOK, IsFiniteSet(Waits), NEW s \in Sems, blockedThreads[s] # <<>>,
           blockedThreads' = [blockedThreads EXCEPT ![s] = Tail(blockedThreads[s])]
    PROVE  IsFiniteSet(Waits') /\ Cardinality(Waits') = Cardinality(Waits) - 1
<1> DEFINE q == blockedThreads[s]
           n == Len(q)
<1>1. q \in Seq(Threads) /\ blockedThreads \in [Sems -> Seq(Threads)]
  BY DEF TypeOK
<1>2. DOMAIN q = 1 .. n /\ DOMAIN Tail(q) = 1 .. n - 1 /\ n \in Nat \ {0}
  <2>1. n \in Nat \ {0}
    BY <1>1, EmptySeq
  <2> QED
    BY <1>1, <2>1, HeadTailProperties, LenProperties
<1>3. DOMAIN Tail(q) = DOMAIN q \ {n} /\ n \in DOMAIN q
  BY <1>2
<1>4. /\ blockedThreads'[s] = Tail(q)
      /\ \A r \in Sems \ {s} : blockedThreads'[r] = blockedThreads[r]
  BY <1>1
<1> HIDE DEF q, n
<1>5. Waits' = Waits \ {<<s, n>>}
  <2>1. \A r \in Sems : \A i : i \in DOMAIN blockedThreads'[r]
                             <=> i \in DOMAIN blockedThreads[r] /\ ~(r = s /\ i = n)
    BY <1>3, <1>4 DEF q
  <2> QED
    BY <2>1 DEF Waits
<1>6. <<s, n>> \in Waits
  BY <1>3 DEF Waits, q
<1> QED
  BY <1>5, <1>6, FS_RemoveElement

\* TCB::dispatch gives back the element of the thread it takes, and takes one
\* for the caller if it goes on.
LEMMA DispatchBalance ==
    ASSUME TypeOK, running \in Threads, NEW held \in Int, Dispatch, DispatchMemory(held)
    PROVE  \/ Len(readyThreadQueue') = Len(readyThreadQueue) /\ free' = held
           \/ Len(readyThreadQueue') = Len(readyThreadQueue) - 1 /\ free' = held + Elem
<1> DEFINE goesOn == ~finished'[running] /\ ~blocked'[running]
           queue == IF goesOn THEN Append(readyThreadQueue, running)
                              ELSE readyThreadQueue
<1>1. readyThreadQueue \in Seq(Threads) /\ Len(readyThreadQueue) \in Nat /\ Elem \in Int
  BY Sizes DEF TypeOK
<1>2. \/ queue # <<>> /\ readyThreadQueue' = Tail(queue)
      \/ queue = <<>> /\ readyThreadQueue' = queue
  BY DEF Dispatch
<1>3. CASE goesOn
  <2>1. /\ queue = Append(readyThreadQueue, running) /\ queue # <<>> /\ queue \in Seq(Threads)
        /\ Len(queue) = Len(readyThreadQueue) + 1
    BY <1>1, <1>3, AppendQueue
  <2>2. readyThreadQueue' = Tail(queue)
    BY <1>2, <2>1
  <2>3. Len(readyThreadQueue') = Len(readyThreadQueue)
    BY <1>1, <2>1, <2>2, TailQueue
  <2>4. free' = held - Elem + Elem
    BY <1>3 DEF DispatchMemory
  <2> QED
    BY <1>1, <2>3, <2>4
<1>4. CASE ~goesOn /\ readyThreadQueue # <<>>
  <2>1. readyThreadQueue' = Tail(readyThreadQueue)
    BY <1>2, <1>4
  <2>2. Len(readyThreadQueue') = Len(readyThreadQueue) - 1
    BY <1>1, <1>4, <2>1, TailQueue
  <2>3. free' = held - 0 + Elem
    BY <1>4 DEF DispatchMemory
  <2> QED
    BY <1>1, <2>2, <2>3
<1>5. CASE ~goesOn /\ readyThreadQueue = <<>>
  <2>1. readyThreadQueue' = readyThreadQueue
    BY <1>2, <1>5
  <2>2. free' = held - 0 + 0
    BY <1>5 DEF DispatchMemory
  <2> QED
    BY <1>1, <2>1, <2>2
<1> QED
  BY <1>3, <1>4, <1>5

\* Sem::unblock exchanges the element of one queue for that of another.
LEMMA UnblockBalance ==
    ASSUME MInv, IsFiniteSet(Waits), free \in Int, NEW s \in open, NEW deleted \in BOOLEAN,
           Unblock(s, deleted), UnblockMemory(s)
    PROVE  /\ free' = free /\ IsFiniteSet(Waits')
           /\ Len(readyThreadQueue') \in Int
           /\ Len(readyThreadQueue') + Cardinality(Waits')
                = Len(readyThreadQueue) + Cardinality(Waits)
<1> DEFINE q == blockedThreads[s]
<1>1. /\ TypeOK /\ NoneLost /\ s \in Sems /\ q \in Seq(Threads)
      /\ blockedThreads \in [Sems -> Seq(Threads)]
      /\ readyThreadQueue \in Seq(Threads) /\ Len(readyThreadQueue) \in Nat
      /\ Len(q) \in Nat /\ Elem \in Int
  BY MemoryAssumption DEF MInv, IInv, TypeOK
<1>2. Wakeable(s) = DOMAIN q /\ DOMAIN q = 1 .. Len(q)
  BY <1>1, AllWakeable
<1>3. Cardinality(Waits) \in Nat
  BY FS_CardinalityType
<1>4. \/ q = <<>> /\ UNCHANGED <<readyThreadQueue, blockedThreads>>
      \/ /\ q # <<>>
         /\ blockedThreads' = [blockedThreads EXCEPT ![s] = Tail(q)]
         /\ readyThreadQueue' = Append(readyThreadQueue, Head(q))
  BY <1>1, UnblockMoves
<1>5. CASE q = <<>> /\ UNCHANGED <<readyThreadQueue, blockedThreads>>
  <2>1. Wakeable(s) = {} /\ Len(q) = 0
    BY <1>2, <1>5
  <2>2. free' = free
    BY <1>1, <2>1, OneOrNone DEF UnblockMemory, Give
  <2>3. Waits' = Waits
    BY <1>5 DEF Waits
  <2> QED
    BY <1>1, <1>5, <2>2, <2>3
<1>6. CASE /\ q # <<>>
           /\ blockedThreads' = [blockedThreads EXCEPT ![s] = Tail(q)]
           /\ readyThreadQueue' = Append(readyThreadQueue, Head(q))
  <2>1. 1 \in DOMAIN q /\ \A i \in DOMAIN q : i \in Int /\ 1 <= i
    BY <1>1, <1>2, <1>6, EmptySeq
  <2>2. PICK i \in Wakeable(s) : (\A j \in Wakeable(s) : i <= j) /\ Give(Elem * i - Elem)
    BY <1>2, <2>1 DEF UnblockMemory
  <2>3. i = 1
    BY <1>2, <2>1, <2>2
  <2>4. free' = free
    BY <1>1, <2>2, <2>3, OneOrNone DEF Give
  <2>5. Head(q) \in Threads
    BY <1>1, <1>6, TailQueue
  <2>6. Len(readyThreadQueue') = Len(readyThreadQueue) + 1
    BY <1>1, <1>6, <2>5, AppendQueue
  <2>7. IsFiniteSet(Waits') /\ Cardinality(Waits') = Cardinality(Waits) - 1
    BY <1>1, <1>6, WaitsShrink
  <2> QED
    BY <1>1, <1>3, <2>4, <2>6, <2>7
<1> QED
  BY <1>4, <1>5, <1>6

\* What is in no book of its own stays as it is counted.
LEMMA Unmoved ==
    /\ UNCHANGED blockedThreads => Waits' = Waits
    /\ UNCHANGED pc => Created' = Created
BY DEF Waits, Created

\* A creation takes the stack, the TCB and, unless the start is left for
\* later, the element in the ready queue.
LEMMA MakeBooks ==
    ASSUME MInv, Books, NEW t \in Threads, NEW u \in Threads, Create(t, u)
    PROVE  Books'
<1>1. /\ pc[u] = "none" /\ pc' = [pc EXCEPT ![u] = "start"] /\ stacks' = stacks \cup {u}
      /\ open' = open /\ lost' = lost /\ blockedThreads' = blockedThreads
  BY DEF Create, ThreadCreate, ThreadCreateWithoutStart, semVars
<1>2. /\ Created' = Created \cup {u} /\ u \notin Created /\ u \notin stacks
      /\ readyThreadQueue \in Seq(Threads)
  BY <1>1 DEF Created, MInv, IInv, TypeOK
<1>3. /\ Cardinality(Created') = Cardinality(Created) + 1 /\ IsFiniteSet(Created')
      /\ Cardinality(stacks') = Cardinality(stacks) + 1 /\ IsFiniteSet(stacks')
  BY <1>1, <1>2, FS_AddElement DEF Books
<1>4. Waits' = Waits
  BY <1>1, Unmoved
<1>5. \/ /\ Len(readyThreadQueue') = Len(readyThreadQueue) + 1
         /\ free' = free - (Stack + Tcb + Elem)
      \/ /\ Len(readyThreadQueue') = Len(readyThreadQueue)
         /\ free' = free - (Stack + Tcb)
  BY <1>2, AppendQueue
     DEF Create, ThreadCreate, ThreadCreateWithoutStart, Put, Take, schedVars
<1>6. free' \in Int /\ lost' \in Int
  BY <1>1, <1>5, Counts, Sizes
<1>7. /\ IsFiniteSet(Waits') /\ IsFiniteSet(open')
      /\ Cardinality(open') = Cardinality(open) + 0
  BY <1>1, <1>4, Counts DEF Books
<1>8. CASE /\ Len(readyThreadQueue') = Len(readyThreadQueue) + 1
           /\ free' = free - (Stack + Tcb + Elem)
  <2>1. Units(free', lost', 1, 1, 1, 0) = free + lost
    <3>1. Elem * 1 = Elem /\ Tcb * 1 = Tcb /\ Stack * 1 = Stack /\ Object * 0 = 0
      BY Sizes, OneOrNone
    <3>2. /\ free' = free - (Stack + Tcb + Elem) /\ lost' = lost
          /\ free \in Int /\ lost \in Int /\ Elem \in Int /\ Tcb \in Int /\ Stack \in Int
      BY <1>1, <1>8, Counts, Sizes
    <3>3. free' + lost' + Elem + Tcb + Stack + 0 = free + lost
      BY <3>2
    <3> QED
      BY <3>1, <3>3 DEF Units
  <2>2. Len(readyThreadQueue') + Cardinality(Waits')
           = Len(readyThreadQueue) + Cardinality(Waits) + 1
    BY <1>4, <1>8, Counts
  <2> QED
    BY <1>3, <1>6, <1>7, <2>1, <2>2, BooksKept
<1>9. CASE /\ Len(readyThreadQueue') = Len(readyThreadQueue)
           /\ free' = free - (Stack + Tcb)
  <2>1. Units(free', lost', 0, 1, 1, 0) = free + lost
    <3>1. Elem * 0 = 0 /\ Tcb * 1 = Tcb /\ Stack * 1 = Stack /\ Object * 0 = 0
      BY Sizes, OneOrNone
    <3> QED
      BY <1>1, <1>9, <3>1, Counts, Sizes, SMTT(30) DEF Units
  <2>2. Len(readyThreadQueue') + Cardinality(Waits')
           = Len(readyThreadQueue) + Cardinality(Waits) + 0
    BY <1>4, <1>9, Counts
  <2> QED
    BY <1>3, <1>6, <1>7, <2>1, <2>2, BooksKept
<1> QED
  BY <1>5, <1>8, <1>9

\* A deletion gives back the TCB and the stack, and no element: a finished
\* thread is in no queue.
LEMMA DeleteBooks ==
    ASSUME MInv, Books, NEW t \in Threads, NEW u \in Threads, DeleteThread(t, u)
    PROVE  Books'
<1>1. /\ pc[u] # "none" /\ u # Main /\ pc' = [pc EXCEPT ![u] = "none"]
      /\ stacks' = stacks \ {u} /\ free' = free + (Tcb + IF u \in stacks THEN Stack ELSE 0)
      /\ open' = open /\ lost' = lost /\ blockedThreads' = blockedThreads
      /\ readyThreadQueue' = readyThreadQueue
  BY DEF DeleteThread, Give, MInv, IInv, NoneLost, schedVars, semVars
<1>2. Created' = Created \ {u} /\ u \in Created /\ u \in stacks
  BY <1>1 DEF Created, MInv, IInv, TypeOK
<1>3. /\ IsFiniteSet(Created') /\ IsFiniteSet(stacks') /\ IsFiniteSet(open')
      /\ IsFiniteSet(Waits')
  BY <1>1, <1>2, Unmoved, FS_RemoveElement DEF Books
<1>4. /\ Cardinality(Created') = Cardinality(Created) + (-1)
      /\ Cardinality(stacks') = Cardinality(stacks) + (-1)
  <2>1. /\ Cardinality(Created \ {u}) = Cardinality(Created) - 1
        /\ Cardinality(stacks \ {u}) = Cardinality(stacks) - 1
    BY <1>2, FS_RemoveElement DEF Books
  <2> QED
    BY <1>1, <1>2, <2>1, Counts
<1>5. /\ Cardinality(open') = Cardinality(open) + 0
      /\ Len(readyThreadQueue') + Cardinality(Waits')
            = Len(readyThreadQueue) + Cardinality(Waits) + 0
  BY <1>1, Unmoved, Counts
<1>6. Units(free', lost', 0, -1, -1, 0) = free + lost
  <2>1. Elem * 0 = 0 /\ Tcb * (-1) = -Tcb /\ Stack * (-1) = -Stack /\ Object * 0 = 0
    BY Sizes, OneOrNone
  <2> QED
    BY <1>1, <1>2, <2>1, Counts, Sizes DEF Units
<1>7. free' \in Int /\ lost' \in Int
  BY <1>1, <1>2, Counts, Sizes
<1> QED
  BY <1>3, <1>4, <1>5, <1>6, <1>7, BooksKept

\* The books of a step that makes and deletes no thread.
LEMMA NoThreadBooks ==
    ASSUME MInv, Books, Created' = Created, stacks' = stacks,
           free' \in Int, lost' \in Int, IsFiniteSet(Waits'), IsFiniteSet(open'),
           NEW dp \in Int, NEW do \in Int,
           Len(readyThreadQueue') + Cardinality(Waits')
              = Len(readyThreadQueue) + Cardinality(Waits) + dp,
           Cardinality(open') = Cardinality(open) + do,
           free' + lost' + Elem * dp + Object * do = free + lost
    PROVE  Books'
<1>1. /\ IsFiniteSet(Created') /\ IsFiniteSet(stacks')
      /\ Cardinality(Created') = Cardinality(Created) + 0
      /\ Cardinality(stacks') = Cardinality(stacks) + 0
  BY Counts DEF Books
<1>2. Units(free', lost', dp, 0, 0, do) = free + lost
  <2>1. /\ Elem * dp \in Int /\ Tcb * 0 = 0 /\ Stack * 0 = 0 /\ Object * do \in Int
    BY Sizes, OneOrNone, More
  <2> QED
    BY <2>1 DEF Units
<1> QED
  BY <1>1, <1>2, BooksKept

\* A dispatch by the running thread, which a call may first have put in the
\* queue of a semaphore.
LEMMA DispatchBooks ==
    ASSUME MInv, Books, running \in Threads, Dispatch,
           NEW waits \in {0, 1}, NEW held,
           held = IF waits = 1 THEN free - Elem ELSE free, DispatchMemory(held),
           IsFiniteSet(Waits'), Cardinality(Waits') = Cardinality(Waits) + waits,
           Created' = Created, stacks' = stacks, lost' = lost, open' = open
    PROVE  Books'
<1>1. /\ held \in Int /\ TypeOK /\ IsFiniteSet(open') /\ Elem \in Int
      /\ free \in Int /\ lost \in Int /\ Len(readyThreadQueue) \in Int
      /\ Cardinality(Waits) \in Int /\ Cardinality(open) \in Int
  BY Counts, Sizes DEF MInv, IInv, Books
<1>2. \/ Len(readyThreadQueue') = Len(readyThreadQueue) /\ free' = held
      \/ Len(readyThreadQueue') = Len(readyThreadQueue) - 1 /\ free' = held + Elem
  BY <1>1, DispatchBalance
<1>3. \E n \in {-1, 0, 1} :
         /\ free' = free - (IF n = 1 THEN Elem ELSE IF n = 0 THEN 0 ELSE -Elem)
         /\ Len(readyThreadQueue') + Cardinality(Waits')
               = Len(readyThreadQueue) + Cardinality(Waits) + n
  <2>1. CASE Len(readyThreadQueue') = Len(readyThreadQueue) /\ free' = held
    BY <1>1, <2>1
  <2>2. CASE Len(readyThreadQueue') = Len(readyThreadQueue) - 1 /\ free' = held + Elem
    <3>1. CASE waits = 0
      BY <1>1, <2>2, <3>1
    <3>2. CASE waits = 1
      BY <1>1, <2>2, <3>2
    <3> QED
      BY <3>1, <3>2
  <2> QED
    BY <1>2, <2>1, <2>2
<1>4. PICK n \in {-1, 0, 1} :
         /\ free' = free - (IF n = 1 THEN Elem ELSE IF n = 0 THEN 0 ELSE -Elem)
         /\ Len(readyThreadQueue') + Cardinality(Waits')
               = Len(readyThreadQueue) + Cardinality(Waits) + n
  BY <1>3
<1>5. free' + lost' + Elem * n + Object * 0 = free + lost
  <2>1. Elem * n = IF n = 1 THEN Elem ELSE IF n = 0 THEN 0 ELSE -Elem
    BY Sizes, OneOrNone
  <2>2. Object * 0 = 0
    BY Sizes, OneOrNone
  <2> QED
    BY <1>1, <1>4, <2>1, <2>2
<1>6. Cardinality(open') = Cardinality(open) + 0 /\ free' \in Int /\ lost' \in Int /\ n \in Int
  BY <1>1, <1>4
<1> QED
  BY <1>1, <1>4, <1>5, <1>6, NoThreadBooks

\* Calls that put no thread in a semaphore's queue and dispatch nobody.
LEMMA PlainBooks ==
    ASSUME MInv, Books, NEW t \in Threads,
           \/ \E u \in Threads : Start(t, u)
           \/ CreateNoHandle(t) \/ NewFails(t) \/ NoMemory(t)
           \/ \E s \in Sems : Open(t, s),
           Created' = Created
    PROVE  Books'
<1>1. /\ Elem \in Int /\ Object \in Int /\ Stack \in Int /\ readyThreadQueue \in Seq(Threads)
      /\ free \in Int /\ lost \in Int /\ Len(readyThreadQueue) \in Int
      /\ Cardinality(Waits) \in Int /\ Cardinality(open) \in Int
      /\ IsFiniteSet(Waits) /\ IsFiniteSet(open)
  BY Counts, Sizes DEF MInv, IInv, TypeOK, Books
<1>2. Elem * 0 = 0 /\ Object * 0 = 0 /\ Elem * 1 = Elem /\ Object * 1 = Object
  BY Sizes, OneOrNone
<1>3. ASSUME NEW u \in Threads, Start(t, u) PROVE Books'
  <2>1. /\ readyThreadQueue' = Append(readyThreadQueue, u) /\ free' = free - Elem
        /\ UNCHANGED <<blockedThreads, open, stacks, lost>>
    BY <1>3 DEF Start, ThreadStart, Put, Take, RestOfMemory, semVars
  <2>2. Len(readyThreadQueue') = Len(readyThreadQueue) + 1 /\ Waits' = Waits
    BY <1>1, <2>1, AppendQueue, Unmoved
  <2>3. free' + lost' + Elem * 1 + Object * 0 = free + lost /\ free' \in Int /\ lost' \in Int
    BY <1>1, <1>2, <2>1
  <2>4. /\ Len(readyThreadQueue') + Cardinality(Waits')
              = Len(readyThreadQueue) + Cardinality(Waits) + 1
        /\ Cardinality(open') = Cardinality(open) + 0 /\ stacks' = stacks
        /\ IsFiniteSet(Waits') /\ IsFiniteSet(open')
    BY <1>1, <2>1, <2>2
  <2> QED
    BY <2>3, <2>4, NoThreadBooks
<1>4. CASE CreateNoHandle(t) \/ NewFails(t) \/ NoMemory(t)
  <2>1. /\ UNCHANGED <<readyThreadQueue, blockedThreads, open, stacks>>
        /\ free' + lost' = free + lost /\ free' \in Int /\ lost' \in Int
    <3>1. CASE CreateNoHandle(t)
      <4>1. /\ UNCHANGED <<readyThreadQueue, blockedThreads, open, stacks>>
            /\ free' = free - Stack /\ lost' = lost + Stack
        BY <3>1 DEF CreateNoHandle, NullCall, Take, schedVars, semVars
      <4> QED
        BY <1>1, <4>1
    <3>2. CASE NewFails(t)
      BY <1>1, <3>2 DEF NewFails, OutOfMemory, memVars, semVars
    <3>3. CASE NoMemory(t)
      BY <1>1, <3>3 DEF NoMemory, memVars, ThreadWrapper, BodyReturn, NullCall,
                        SemWaitReturn, SemClose, SemTryWait, schedVars, semVars
    <3> QED
      BY <1>4, <3>1, <3>2, <3>3
  <2>2. free' + lost' + Elem * 0 + Object * 0 = free + lost
    <3>1. free' + lost' + 0 + 0 = free' + lost'
      BY <2>1
    <3> QED
      BY <1>2, <2>1, <3>1
  <2>3. /\ Len(readyThreadQueue') + Cardinality(Waits')
              = Len(readyThreadQueue) + Cardinality(Waits) + 0
        /\ Cardinality(open') = Cardinality(open) + 0 /\ stacks' = stacks
        /\ IsFiniteSet(Waits') /\ IsFiniteSet(open')
    BY <1>1, <2>1, Unmoved
  <2> QED
    BY <2>1, <2>2, <2>3, NoThreadBooks
<1>5. ASSUME NEW s \in Sems, Open(t, s) PROVE Books'
  <2>1. /\ open' = open \cup {s} /\ s \notin open /\ free' = free - Object
        /\ UNCHANGED <<readyThreadQueue, blockedThreads, stacks, lost>>
    BY <1>5 DEF Open, SemOpen, Take, RestOfMemory, schedVars
  <2>2. Cardinality(open') = Cardinality(open) + 1 /\ IsFiniteSet(open')
    BY <1>1, <2>1, FS_AddElement
  <2>3. free' + lost' + Elem * 0 + Object * 1 = free + lost /\ free' \in Int /\ lost' \in Int
    BY <1>1, <1>2, <2>1
  <2>4. /\ Len(readyThreadQueue') + Cardinality(Waits')
              = Len(readyThreadQueue) + Cardinality(Waits) + 0
        /\ stacks' = stacks /\ IsFiniteSet(Waits')
    BY <1>1, <2>1, Unmoved
  <2> QED
    BY <2>2, <2>3, <2>4, NoThreadBooks
<1> QED
  BY <1>3, <1>4, <1>5

\* Calls that dispatch.
LEMMA SwitchBooks ==
    ASSUME MInv, Books, NEW t \in Threads, Created' = Created,
           Yield(t) \/ \E s \in Sems : Wait(t, s)
    PROVE  Books'
<1>1. /\ IsFiniteSet(Waits) /\ IsFiniteSet(open) /\ Cardinality(Waits) \in Int
      /\ Cardinality(open) \in Int /\ free \in Int /\ lost \in Int
      /\ Len(readyThreadQueue) \in Int /\ TypeOK
  BY Counts DEF Books, MInv, IInv
<1>2. CASE Yield(t)
  <2>1. /\ running \in Threads /\ Dispatch /\ DispatchMemory(free)
        /\ UNCHANGED <<blockedThreads, open, stacks, lost>>
    BY <1>2 DEF Yield, ThreadDispatch, WrapperYield, ThreadExit, Calls, Running,
                RestOfMemory, semVars
  <2>2. /\ free = IF 0 = 1 THEN free - Elem ELSE free
        /\ IsFiniteSet(Waits') /\ Cardinality(Waits') = Cardinality(Waits) + 0
    BY <1>1, <2>1, Unmoved
  <2>3. 0 \in {0, 1} /\ stacks' = stacks /\ lost' = lost /\ open' = open
    BY <2>1
  <2> QED
    BY <2>1, <2>2, <2>3, DispatchBooks
<1>3. ASSUME NEW s \in Sems, Wait(t, s) PROVE Books'
  <2>1. /\ running = t /\ ~blocked[t] /\ UNCHANGED <<open, stacks, lost>>
    BY <1>3 DEF Wait, SemWait, Calls, Running, RestOfMemory, MInv, IInv, NoneLost, OnePlace, TypeOK
  <2>2. CASE value'[s] >= 0
    <3>1. /\ UNCHANGED <<readyThreadQueue, blocked, blockedThreads>>
      BY <1>1, <1>3, <2>2 DEF Wait, SemWait, TypeOK, Ints, schedVars
    <3>2. free' = free
      BY <1>3, <2>1, <3>1 DEF Wait
    <3>3. free' + lost' + Elem * 0 + Object * 0 = free + lost
      BY <1>1, <2>1, <3>2, Sizes, OneOrNone
    <3>4. /\ Len(readyThreadQueue') + Cardinality(Waits')
                = Len(readyThreadQueue) + Cardinality(Waits) + 0
          /\ Cardinality(open') = Cardinality(open) + 0 /\ stacks' = stacks
          /\ IsFiniteSet(Waits') /\ IsFiniteSet(open') /\ free' \in Int /\ lost' \in Int
      BY <1>1, <2>1, <3>1, <3>2, Unmoved
    <3> QED
      BY <3>3, <3>4, NoThreadBooks
  <2>3. CASE ~(value'[s] >= 0)
    <3>1. /\ blocked' = [blocked EXCEPT ![t] = TRUE] /\ Dispatch
          /\ blockedThreads' = [blockedThreads EXCEPT ![s] = Append(blockedThreads[s], t)]
      BY <1>3, <2>3 DEF Wait, SemWait
    <3>2. DispatchMemory(free - Elem)
      BY <1>1, <1>3, <3>1 DEF Wait, TypeOK
    <3>3. IsFiniteSet(Waits') /\ Cardinality(Waits') = Cardinality(Waits) + 1
      BY <1>1, <3>1, WaitsGrow
    <3>4. /\ free - Elem = IF 1 = 1 THEN free - Elem ELSE free
          /\ 1 \in {0, 1} /\ running \in Threads
          /\ stacks' = stacks /\ lost' = lost /\ open' = open
      BY <2>1
    <3> QED
      BY <3>1, <3>2, <3>3, <3>4, DispatchBooks
  <2> QED
    BY <2>2, <2>3
<1> QED
  BY <1>2, <1>3

\* Calls that wake, and the end of a close, which deletes the Sem.
LEMMA WakeBooks ==
    ASSUME MInv, Books, Created' = Created, NEW s \in Sems,
           \/ \E t \in Threads : Signal(t, s)
           \/ CloseUnblock(s) \/ CloseDelete(s)
    PROVE  Books'
<1>1. /\ IsFiniteSet(Waits) /\ IsFiniteSet(open) /\ Cardinality(Waits) \in Int
      /\ Cardinality(open) \in Int /\ free \in Int /\ lost \in Int
      /\ Len(readyThreadQueue) \in Int /\ TypeOK /\ Object \in Int
  BY Counts, Sizes DEF Books, MInv, IInv
<1>2. /\ Elem * 0 = 0 /\ Object * 0 = 0 /\ Object * (-1) = -Object
  BY Sizes, OneOrNone
<1>3. ASSUME UNCHANGED <<open, stacks, lost>>, free' = free, IsFiniteSet(Waits'),
             Len(readyThreadQueue') + Cardinality(Waits')
                = Len(readyThreadQueue) + Cardinality(Waits)
      PROVE  Books'
  <2>1. free' + lost' + Elem * 0 + Object * 0 = free + lost
    BY <1>1, <1>2, <1>3
  <2>2. /\ Len(readyThreadQueue') + Cardinality(Waits')
              = Len(readyThreadQueue) + Cardinality(Waits) + 0
        /\ Cardinality(open') = Cardinality(open) + 0 /\ stacks' = stacks
        /\ IsFiniteSet(open') /\ free' \in Int /\ lost' \in Int
    BY <1>1, <1>3
  <2> QED
    BY <1>3, <2>1, <2>2, NoThreadBooks
<1>4. ASSUME NEW t \in Threads, Signal(t, s) PROVE Books'
  <2>1. /\ s \in open /\ UNCHANGED <<open, stacks, lost>> /\ value'[s] \in Int
        /\ \/ value'[s] <= 0 /\ Unblock(s, FALSE) /\ UnblockMemory(s)
           \/ value'[s] > 0 /\ UNCHANGED <<readyThreadQueue, blockedThreads, free>>
    <3>1. value'[s] = value[s] + 1 /\ value[s] \in Int
      BY <1>1, <1>4 DEF Signal, SemSignal, TypeOK, Ints
    <3>2. s \in open /\ UNCHANGED <<open, stacks, lost>>
      BY <1>4 DEF Signal, SemSignal, RestOfMemory
    <3>3. \/ value'[s] <= 0 /\ Unblock(s, FALSE)
          \/ value'[s] > 0 /\ UNCHANGED <<readyThreadQueue, blockedThreads>>
      BY <1>4, Zenon DEF Signal, SemSignal
    <3>4. \/ value'[s] <= 0 /\ UnblockMemory(s)
          \/ value'[s] > 0 /\ UNCHANGED free
      BY <1>4, Zenon DEF Signal
    <3>5. ~(value'[s] <= 0 /\ value'[s] > 0) /\ value'[s] \in Int
      BY <3>1
    <3> QED
      BY <3>2, <3>3, <3>4, <3>5, Zenon
  <2>2. CASE Unblock(s, FALSE) /\ UnblockMemory(s)
    BY <1>1, <1>3, <2>1, <2>2, UnblockBalance
  <2>3. CASE UNCHANGED <<readyThreadQueue, blockedThreads, free>>
    BY <1>1, <1>3, <2>1, <2>3, Unmoved
  <2> QED
    BY <2>1, <2>2, <2>3
<1>5. CASE CloseUnblock(s)
  <2>1. s \in open /\ UNCHANGED <<open, stacks, lost>> /\ UnblockMemory(s) /\ Unblock(s, TRUE)
    BY <1>5, SemsAssumption
       DEF CloseUnblock, SemCloseUnblock, RestOfMemory, MInv, IInv, Contexts
  <2> QED
    BY <1>1, <1>3, <2>1, UnblockBalance
<1>6. CASE CloseDelete(s)
  <2>1. /\ s \in open /\ open' = open \ {s} /\ free' = free + Object
        /\ UNCHANGED <<readyThreadQueue, blockedThreads, stacks, lost>>
    BY <1>6, SemsAssumption
       DEF CloseDelete, SemCloseDelete, Give, RestOfMemory, MInv, IInv, Contexts, schedVars
  <2>2. Cardinality(open') = Cardinality(open) - 1 /\ IsFiniteSet(open')
    BY <1>1, <2>1, FS_RemoveElement
  <2>3. /\ free' + lost' + Elem * 0 + Object * (-1) = free + lost
        /\ free' \in Int /\ lost' \in Int
    BY <1>1, <1>2, <2>1
  <2>4. /\ Len(readyThreadQueue') + Cardinality(Waits')
              = Len(readyThreadQueue) + Cardinality(Waits) + 0
        /\ Cardinality(open') = Cardinality(open) + (-1)
        /\ stacks' = stacks /\ IsFiniteSet(Waits')
    BY <1>1, <2>1, <2>2, Unmoved
  <2> QED
    BY <2>2, <2>3, <2>4, NoThreadBooks
<1> QED
  BY <1>4, <1>5, <1>6

\* main has been paid for, and nothing else exists.
LEMMA BooksInit == MemoryInit => Books
<1> SUFFICES ASSUME MemoryInit PROVE Books
  OBVIOUS
<1>1. /\ readyThreadQueue = <<>> /\ open = {} /\ stacks = {} /\ lost = 0
      /\ free = Total - Tcb /\ \A s \in Sems : DOMAIN blockedThreads[s] = {}
  BY DEF MemoryInit, Init
<1>2. Waits = {}
  BY <1>1 DEF Waits
<1>3. Created = {Main}
  BY ThreadsAssumption DEF MemoryInit, Init, Created
<1>4. /\ IsFiniteSet({}) /\ Cardinality({}) = 0
      /\ IsFiniteSet({Main}) /\ Cardinality({Main}) = 1
  BY FS_EmptySet, FS_Singleton
<1>5. Len(readyThreadQueue) + Cardinality(Waits) = 0
  BY <1>1, <1>2, <1>4
<1>6. /\ Elem * 0 = 0 /\ Tcb * 1 = Tcb /\ Stack * 0 = 0 /\ Object * 0 = 0
  BY Sizes, OneOrNone
<1>7. (Total - Tcb) + 0 + Elem * 0 + Tcb * 1 + Stack * 0 + Object * 0 = Total
  BY <1>6, Sizes
<1>8. Balanced
  BY <1>1, <1>3, <1>4, <1>5, <1>7 DEF Balanced, Created
<1> QED
  BY <1>1, <1>2, <1>3, <1>4, <1>8, Sizes DEF Books

\* Every call keeps the books.
LEMMA BooksStep == MInv /\ Books /\ [MemoryNext]_memoryVars => Books'
<1> SUFFICES ASSUME MInv, Books, [MemoryNext]_memoryVars PROVE Books'
  OBVIOUS
<1>1. CASE UNCHANGED memoryVars
  BY <1>1 DEF Books, Balanced, Waits, Created, memoryVars, memVars, vars, schedVars, semVars
<1>2. ASSUME NEW t \in Threads, NEW u \in Threads, Create(t, u) \/ DeleteThread(t, u)
      PROVE  Books'
  BY <1>2, MakeBooks, DeleteBooks
<1>3. ASSUME NEW t \in Threads,
             \/ \E u \in Threads : Start(t, u)
             \/ CreateNoHandle(t) \/ NewFails(t) \/ Yield(t) \/ NoMemory(t)
             \/ \E s \in Sems : Open(t, s) \/ Wait(t, s) \/ Signal(t, s)
      PROVE  Books'
  <2>1. Created' = Created
    <3>1. CASE NewFails(t)
      BY <3>1, Unmoved DEF NewFails, OutOfMemory
    <3>2. CASE ~NewFails(t)
      BY <1>3, <3>2, CreatedKept
         DEF MInv, IInv, Start, CreateNoHandle, Yield, NoMemory, Open, Wait, Signal
    <3> QED
      BY <3>1, <3>2
  <2> QED
    BY <1>3, <2>1, PlainBooks, SwitchBooks, WakeBooks
<1>4. ASSUME NEW s \in Sems, CloseUnblock(s) \/ CloseDelete(s) PROVE Books'
  <2>1. Created' = Created
    BY <1>4, Unmoved DEF CloseUnblock, CloseDelete, SemCloseUnblock, SemCloseDelete
  <2> QED
    BY <1>4, <2>1, WakeBooks
<1> QED
  BY <1>1, <1>2, <1>3, <1>4 DEF MemoryNext

-----------------------------------------------------------------------------
(* The theorems.                                                           *)

\* The inductive invariant holds in every state the kernel with its memory reaches.
THEOREM MemoryInvariance == MemorySpec => []MInv
  BY MemoryInitInv, MemoryStepInv, PTL DEF MemorySpec

\* Deleting finished threads, reusing their addresses and running out of
\* memory break none of the promises of the kernel.
THEOREM KernelWithDelete ==
    MemorySpec => [](TypeOK /\ OnePlace /\ NoneLost /\ Contexts /\ SemCount /\ ClosedIsEmpty)
<1>1. MInv => TypeOK /\ OnePlace /\ NoneLost /\ Contexts /\ SemCount /\ ClosedIsEmpty
  BY DEF MInv, IInv
<1> QED
  BY <1>1, MemoryInvariance, PTL

\* No thread runs, or can come to run, on a stack that was given back.
THEOREM StacksOutlive == MemorySpec => []StacksLive
<1>1. MInv => StacksLive
  <2> SUFFICES ASSUME MInv PROVE StacksLive
    OBVIOUS
  <2>1. stacks = {t \in Threads \ {Main} : pc[t] # "none"}
    BY DEF MInv, Created
  <2>2. ASSUME NEW t \in {running} \cup Range(readyThreadQueue)
                           \cup UNION {Range(blockedThreads[s]) : s \in Sems},
               t # NoThread
        PROVE  pc[t] # "none"
    BY <2>2 DEF MInv, IInv, Contexts
  <2> QED
    BY <2>1, <2>2 DEF StacksLive
<1> QED
  BY <1>1, MemoryInvariance, PTL

\* No call leaks memory or gives any back twice, but for the stacks of
\* creations without a handle: at every moment what is not free is what the
\* threads, semaphores and queues that exist need, in any number.
THEOREM NothingLeaks == MemorySpec => []Balanced
<1>1. Books => Balanced
  BY DEF Books
<1>2. MemoryInit => MInv /\ Books
  BY MemoryInitInv, BooksInit
<1>3. MInv /\ Books /\ [MemoryNext]_memoryVars => (MInv /\ Books)'
  BY MemoryStepInv, BooksStep
<1> QED
  BY <1>1, <1>2, <1>3, PTL DEF MemorySpec
=============================================================================
