---------------------------- MODULE KernelMemory ----------------------------
(***************************************************************************)
(* Kernel with the memory its calls take and give back: the stack that     *)
(* thread_create allocates before its ecall, the TCB and Sem objects, and  *)
(* one List Elem for every place in a queue; and delete, by which programs *)
(* dispose of a finished thread.  All of it comes from the one heap        *)
(* (MemoryAllocator), counted here in units; fragmentation is left to      *)
(* chance: an allocation may fail although enough units are free.          *)
(***************************************************************************)
EXTENDS Kernel, FiniteSets

CONSTANTS
    Total,                      \* the units of the heap
    Stack, Tcb, Object, Elem    \* what a stack, TCB, Sem and Elem take

ASSUME MemoryAssumption ==
    /\ {Total, Stack, Tcb, Object, Elem} \subseteq Nat \ {0}
    /\ Tcb <= Total

VARIABLES
    free,       \* units that are not allocated
    stacks,     \* the threads that have a stack of their own
    lost        \* units of stacks nobody has a pointer to

memVars == <<free, stacks, lost>>
memoryVars == <<vars, memVars>>

\* The TCB of main has no stack.
MemoryInit ==
    /\ Init
    /\ free = Total - Tcb
    /\ stacks = {} /\ lost = 0

Take(n) == n <= free /\ free' = free - n
Give(n) == free' = free + n
RestOfMemory == UNCHANGED <<stacks, lost>>

-----------------------------------------------------------------------------
(* Calls that take memory.                                                 *)

\* thread_create and thread_create_without_starting.
Create(t, u) ==
    /\ \/ ThreadCreate(t, u) /\ Take(Stack + Tcb + Elem)
       \/ ThreadCreateWithoutStart(t, u) /\ Take(Stack + Tcb)
    /\ stacks' = stacks \cup {u}
    /\ UNCHANGED lost

\* With a body and no handle the call fails after the stack is allocated.
CreateNoHandle(t) ==
    /\ NullCall(t) /\ ret'[t] = -2
    /\ Take(Stack) /\ lost' = lost + Stack
    /\ UNCHANGED stacks

Start(t, u) == ThreadStart(t, u) /\ Take(Elem) /\ RestOfMemory

Open(t, s) == SemOpen(t, s) /\ Take(Object) /\ RestOfMemory

\* operator new returns nullptr to the constructor of a TCB, Sem or Elem, which
\* writes through it.
NewFails(t) == Calls(t) /\ OutOfMemory /\ UNCHANGED memVars

-----------------------------------------------------------------------------
(* Calls that dispatch, with `held` units free when they reach it.  The    *)
(* caller is put before the next thread is taken off the queue.            *)

\* removeFirst forgets `delete elem`.
DispatchMemoryBugElem(held) ==
    LET goesOn == ~finished'[running] /\ ~blocked'[running]
    IN  free' = IF goesOn THEN held - Elem ELSE held

DispatchMemory(held) ==
    LET goesOn == ~finished'[running] /\ ~blocked'[running]
        put    == IF goesOn THEN Elem ELSE 0
        got    == IF goesOn \/ readyThreadQueue # <<>> THEN Elem ELSE 0
    IN  held >= put /\ free' = held - put + got

Yield(t) ==
    /\ ThreadDispatch(t) \/ WrapperYield(t) \/ ThreadExit(t)
    /\ DispatchMemory(free)
    /\ RestOfMemory

\* A wait that blocks puts the caller in blockedThreads first.
Wait(t, s) ==
    /\ SemWait(t, s)
    /\ \/ ~blocked'[t] /\ UNCHANGED free
       \/ blocked'[t] /\ free >= Elem /\ DispatchMemory(free - Elem)
    /\ RestOfMemory

-----------------------------------------------------------------------------
(* Calls that give memory back.                                            *)

\* Sem::unblock: removeFirst deletes an Elem for each entry up to the first
\* that is blocked, and Scheduler::put of that one makes one.
UnblockMemory(s) ==
    \/ \E i \in Wakeable(s) :
          /\ \A j \in Wakeable(s) : i <= j
          /\ Give(Elem * i - Elem)
    \/ Wakeable(s) = {} /\ Give(Elem * Len(blockedThreads[s]))

Signal(t, s) ==
    /\ SemSignal(t, s)
    /\ \/ value'[s] <= 0 /\ UnblockMemory(s)
       \/ value'[s] > 0 /\ UNCHANGED free
    /\ RestOfMemory

CloseUnblock(s) == SemCloseUnblock(s) /\ UnblockMemory(s) /\ RestOfMemory

CloseDelete(s) == SemCloseDelete(s) /\ Give(Object) /\ RestOfMemory

\* `delete thread` of a TCB that is still in use.
DeleteThreadBugLive(t, u) ==
    /\ Calls(t) /\ u \notin {t, Main} /\ pc[u] # "none"
    /\ pc' = [pc EXCEPT ![u] = "none"]
    /\ finished' = [finished EXCEPT ![u] = FALSE]
    /\ semaphoreDeleted' = [semaphoreDeleted EXCEPT ![u] = FALSE]
    /\ Give(Tcb + IF u \in stacks THEN Stack ELSE 0)
    /\ stacks' = stacks \ {u}
    /\ UNCHANGED <<schedVars, blocked, semVars, ret, lost>>

\* `delete thread`, as ThreadTest does it: after isFinished().  ~TCB deletes
\* the stack, and another thread may be made at the address.
DeleteThread(t, u) ==
    /\ Calls(t) /\ u \notin {t, Main} /\ finished[u]
    /\ pc' = [pc EXCEPT ![u] = "none"]
    /\ finished' = [finished EXCEPT ![u] = FALSE]
    /\ semaphoreDeleted' = [semaphoreDeleted EXCEPT ![u] = FALSE]
    /\ Give(Tcb + IF u \in stacks THEN Stack ELSE 0)
    /\ stacks' = stacks \ {u}
    /\ UNCHANGED <<schedVars, blocked, semVars, ret, lost>>

\* The calls that neither take nor give.
NoMemory(t) ==
    /\ \/ ThreadWrapper(t) \/ BodyReturn(t) \/ NullCall(t) \/ SemWaitReturn(t)
       \/ \E s \in Sems : SemClose(t, s) \/ SemTryWait(t, s)
    /\ UNCHANGED memVars

MemoryNext ==
    \/ \E t, u \in Threads : Create(t, u) \/ Start(t, u) \/ DeleteThread(t, u)
    \/ \E t \in Threads : CreateNoHandle(t) \/ NewFails(t) \/ Yield(t) \/ NoMemory(t)
    \/ \E t \in Threads, s \in Sems : Open(t, s) \/ Wait(t, s) \/ Signal(t, s)
    \/ \E s \in Sems : CloseUnblock(s) \/ CloseDelete(s)

MemorySpec == MemoryInit /\ [][MemoryNext]_memoryVars

-----------------------------------------------------------------------------

\* The places in the queues of the semaphores.
Waits == UNION {{s} \X DOMAIN blockedThreads[s] : s \in Sems}

\* Every unit is free or has an owner that will give it back, but for the
\* stacks of creations without a handle: one Elem for each place in a queue,
\* a TCB for each thread until it is deleted, finished or not, a stack for
\* each but main, and a Sem until its close.
Balanced ==
    LET places == Len(readyThreadQueue) + Cardinality(Waits)
        tcbs   == Cardinality({t \in Threads : pc[t] # "none"})
    IN  free + lost + Elem * places + Tcb * tcbs
           + Stack * Cardinality(stacks) + Object * Cardinality(open) = Total

\* No thread runs, or can come to run, on a stack that was given back or that
\* it shares: those that exist have theirs, and those in a queue exist.
StacksLive ==
    /\ stacks = {t \in Threads \ {Main} : pc[t] # "none"}
    /\ \A t \in {running} \cup Range(readyThreadQueue)
               \cup UNION {Range(blockedThreads[s]) : s \in Sems} :
          t # NoThread => pc[t] # "none"
=============================================================================
