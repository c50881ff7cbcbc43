------------------------------- MODULE Kernel -------------------------------
(***************************************************************************)
(* Threads, the ready queue and the semaphores of the kernel, on its one   *)
(* hart.  A system call is the handler handleSupervisorTrap runs for it    *)
(* (src/src/riscv.cpp) with everything it calls in TCB, Scheduler and Sem. *)
(* Traps leave supervisor interrupts masked, so a handler is one step; it  *)
(* is cut where TCB::dispatch gives the hart to another thread (the rest   *)
(* runs when the caller is dispatched again: pc says where it goes on) and *)
(* at the iterations of Sem::close (closing), which nothing interleaves.   *)
(*                                                                         *)
(* The threads are arbitrary programs that follow three rules: a handle    *)
(* is live when it is used, thread_start is called once on a handle made   *)
(* by thread_create_without_starting, and a thread has a body.             *)
(***************************************************************************)
EXTENDS Integers, Sequences, Functions

CONSTANTS
    Threads,      \* the TCBs there may be, Main among them
    Main,         \* the thread initMainThread makes of main()
    Sems,         \* the Sem objects there may be at a time
    InitValues,   \* the values clients pass to sem_open, as unsigned numbers
    IntMax,       \* the greatest int: the value of a semaphore is an int
    NullCodes,    \* what the calls that change nothing return (see NullCall)
    NoThread,     \* TCB* nullptr
    NoSem         \* Sem* nullptr

ASSUME ThreadsAssumption == Main \in Threads /\ NoThread \notin Threads
ASSUME SemsAssumption == NoSem \notin Sems
ASSUME CodesAssumption == NullCodes \subseteq {-3, -2, -1, 49}
ASSUME IntAssumption == /\ IntMax \in Nat \ {0}
                        /\ InitValues \subseteq 0 .. 2 * IntMax + 1

VARIABLES
    running,           \* TCB::running
    readyThreadQueue,  \* Scheduler::readyThreadQueue, head first
    pc,                \* where each thread goes on: its context
    finished,          \* TCB::finished
    blocked,           \* TCB::blocked
    semaphoreDeleted,  \* TCB::semaphoreDeleted
    open,              \* the Sem objects that exist
    value,             \* Sem::value
    blockedThreads,    \* Sem::blockedThreads, head first
    closing,           \* the Sem whose close is in its loop
    ret,               \* what the last system call of each thread returned
    halt               \* why the hart stopped: "no", "idle", "memory"

schedVars == <<running, readyThreadQueue, halt>>
flagVars == <<finished, blocked, semaphoreDeleted>>
semVars == <<open, value, blockedThreads, closing>>
vars == <<schedVars, flagVars, semVars, pc, ret>>

\* "none": no TCB; "start": threadWrapper comes first; "user": in its body;
\* "block": in Sem::block, after dispatch; "exit": its body is over.
PCs == {"none", "start", "user", "block", "exit"}
\* What the calls return.
Codes == {-3, -2, -1, 0, 1, 49}
Ints == -IntMax - 1 .. IntMax

TypeOK ==
    /\ running \in Threads \cup {NoThread}
    /\ readyThreadQueue \in Seq(Threads)
    /\ pc \in [Threads -> PCs]
    /\ finished \in [Threads -> BOOLEAN]
    /\ blocked \in [Threads -> BOOLEAN]
    /\ semaphoreDeleted \in [Threads -> BOOLEAN]
    /\ open \subseteq Sems
    /\ value \in [Sems -> Ints]
    /\ blockedThreads \in [Sems -> Seq(Threads)]
    /\ closing \in Sems \cup {NoSem}
    /\ ret \in [Threads -> Codes]
    /\ halt \in {"no", "idle", "memory"}

\* After initMainThread: main runs, and nothing else exists.
Init ==
    /\ running = Main
    /\ readyThreadQueue = <<>>
    /\ pc = [t \in Threads |-> IF t = Main THEN "user" ELSE "none"]
    /\ finished = [t \in Threads |-> FALSE]
    /\ blocked = [t \in Threads |-> FALSE]
    /\ semaphoreDeleted = [t \in Threads |-> FALSE]
    /\ open = {}
    /\ value = [s \in Sems |-> 0]
    /\ blockedThreads = [s \in Sems |-> <<>>]
    /\ closing = NoSem
    /\ ret = [t \in Threads |-> 0]
    /\ halt = "no"

-----------------------------------------------------------------------------
(* What the handlers are made of.  The definitions with Bug in their names *)
(* are mistakes this code might have had: no specification uses them, and  *)
(* each of them breaks a property below.                                   *)

Running(t, at) == running = t /\ halt = "no" /\ closing = NoSem /\ pc[t] = at

\* t is in its own code, about to make a system call.
Calls(t) == Running(t, "user")

Return(t, code) == ret' = [ret EXCEPT ![t] = code]

\* List::addFirst for addLast.
PutBugFront(t) == readyThreadQueue' = <<t>> \o readyThreadQueue

Put(t) == readyThreadQueue' = Append(readyThreadQueue, t)

\* A blocked thread stays in the ready queue.
DispatchBugBlocked ==
    LET queue == IF finished'[running] THEN readyThreadQueue
                                       ELSE Append(readyThreadQueue, running)
    IN  /\ queue # <<>>
        /\ running' = Head(queue)
        /\ readyThreadQueue' = Tail(queue)
        /\ UNCHANGED halt

\* The caller goes to the front.
DispatchBugFront ==
    LET goesOn == ~finished'[running] /\ ~blocked'[running]
        queue  == IF goesOn THEN <<running>> \o readyThreadQueue
                            ELSE readyThreadQueue
    IN  /\ queue # <<>>
        /\ running' = Head(queue)
        /\ readyThreadQueue' = Tail(queue)
        /\ UNCHANGED halt

\* TCB::dispatch by the running thread, with its flags as this step sets
\* them.  There is no idle thread: Scheduler::get may return nullptr, and
\* contextSwitch then faults, which ends in shutDownEmulator.
Dispatch ==
    LET goesOn == ~finished'[running] /\ ~blocked'[running]
        queue  == IF goesOn THEN Append(readyThreadQueue, running)
                            ELSE readyThreadQueue
    IN  \/ /\ queue # <<>>
           /\ running' = Head(queue)
           /\ readyThreadQueue' = Tail(queue)
           /\ UNCHANGED halt
        \/ /\ queue = <<>>
           /\ running' = NoThread
           /\ readyThreadQueue' = queue
           /\ halt' = "idle"

\* The entries of s.blockedThreads that Sem::unblock does not skip.
Wakeable(s) == {i \in DOMAIN blockedThreads[s] : blocked[blockedThreads[s][i]]}

\* setBlocked(false) is forgotten.
UnblockBugFlag(s, deleted) ==
    LET t == Head(blockedThreads[s]) IN
    /\ blockedThreads' = [blockedThreads EXCEPT ![s] = Tail(@)]
    /\ semaphoreDeleted' = [semaphoreDeleted EXCEPT ![t] = deleted]
    /\ Put(t)
    /\ UNCHANGED blocked

\* setSemaphoreDeleted is called by sem_close only, so the flag goes stale.
UnblockBugStale(s, deleted) ==
    LET t == Head(blockedThreads[s]) IN
    /\ blockedThreads' = [blockedThreads EXCEPT ![s] = Tail(@)]
    /\ blocked' = [blocked EXCEPT ![t] = FALSE]
    /\ semaphoreDeleted' = [semaphoreDeleted EXCEPT ![t] = @ \/ deleted]
    /\ Put(t)

\* removeLast for removeFirst.
UnblockBugLast(s, deleted) ==
    LET q == blockedThreads[s]
        t == q[Len(q)]
    IN  /\ blockedThreads' = [blockedThreads EXCEPT ![s] = SubSeq(q, 1, Len(q) - 1)]
        /\ blocked' = [blocked EXCEPT ![t] = FALSE]
        /\ semaphoreDeleted' = [semaphoreDeleted EXCEPT ![t] = deleted]
        /\ Put(t)

\* Sem::unblock: the first blocked thread of the queue becomes ready; the
\* entries before it are dropped.
Unblock(s, deleted) ==
    LET q == blockedThreads[s] IN
    \/ \E i \in Wakeable(s) :
          /\ \A j \in Wakeable(s) : i <= j
          /\ blockedThreads' = [blockedThreads EXCEPT ![s] = SubSeq(q, i + 1, Len(q))]
          /\ blocked' = [blocked EXCEPT ![q[i]] = FALSE]
          /\ semaphoreDeleted' = [semaphoreDeleted EXCEPT ![q[i]] = deleted]
          /\ Put(q[i])
    \/ /\ Wakeable(s) = {}
       /\ blockedThreads' = [blockedThreads EXCEPT ![s] = <<>>]
       /\ UNCHANGED <<blocked, semaphoreDeleted, readyThreadQueue>>

-----------------------------------------------------------------------------
(* Threads.                                                                *)

\* thread_create: the constructor puts the new thread in the ready queue.
ThreadCreate(t, u) ==
    /\ Calls(t) /\ pc[u] = "none"
    /\ pc' = [pc EXCEPT ![u] = "start"]
    /\ Put(u)
    /\ Return(t, 0)
    /\ UNCHANGED <<running, halt, flagVars, semVars>>

\* thread_create_without_starting: the same TCB, in no queue.
ThreadCreateWithoutStart(t, u) ==
    /\ Calls(t) /\ pc[u] = "none"
    /\ pc' = [pc EXCEPT ![u] = "start"]
    /\ Return(t, 0)
    /\ UNCHANGED <<schedVars, flagVars, semVars>>

\* Created and never started.
Unstarted(u) == pc[u] = "start" /\ running # u /\ u \notin Range(readyThreadQueue)

ThreadStart(t, u) ==
    /\ Calls(t) /\ Unstarted(u)
    /\ Put(u)
    /\ Return(t, 0)
    /\ UNCHANGED <<running, halt, pc, flagVars, semVars>>

\* A thread dispatched for the first time leaves the handler through
\* popSppSpie and enters its body.
ThreadWrapper(t) ==
    /\ Running(t, "start")
    /\ pc' = [pc EXCEPT ![t] = "user"]
    /\ UNCHANGED <<schedVars, flagVars, semVars, ret>>

\* setFinished(true) is forgotten.
BodyReturnBugFlag(t) ==
    /\ Calls(t) /\ t # Main
    /\ pc' = [pc EXCEPT ![t] = "exit"]
    /\ UNCHANGED <<schedVars, flagVars, semVars, ret>>

\* Its body returns: the wrapper marks it finished, and then yields.
BodyReturn(t) ==
    /\ Calls(t) /\ t # Main
    /\ finished' = [finished EXCEPT ![t] = TRUE]
    /\ pc' = [pc EXCEPT ![t] = "exit"]
    /\ UNCHANGED <<schedVars, blocked, semaphoreDeleted, semVars, ret>>

WrapperYield(t) ==
    /\ Running(t, "exit")
    /\ UNCHANGED <<flagVars, semVars, pc, ret>>
    /\ Dispatch

\* thread_exit; the case falls through to THREAD_DISPATCH, which a finished
\* thread never reaches: nobody dispatches it again.
ThreadExit(t) ==
    /\ Calls(t)
    /\ finished' = [finished EXCEPT ![t] = TRUE]
    /\ pc' = [pc EXCEPT ![t] = "exit"]
    /\ UNCHANGED <<blocked, semaphoreDeleted, semVars, ret>>
    /\ Dispatch

ThreadDispatch(t) ==
    /\ Calls(t)
    /\ UNCHANGED <<flagVars, semVars, pc, ret>>
    /\ Dispatch

\* A call that changes nothing but a0: a nullptr handle (-1, or -2 from
\* thread_create and sem_open), a thread_create that finds no room for a stack
\* (-3), sem_timedwait (-1) and time_sleep, whose own operation code 0x31
\* stays in a0.
NullCall(t) ==
    /\ Calls(t)
    /\ \E code \in NullCodes : Return(t, code)
    /\ UNCHANGED <<schedVars, flagVars, semVars, pc>>

-----------------------------------------------------------------------------
(* Semaphores.                                                             *)

\* sem_open takes a uint64, Sem::open an int.
ToInt(n) == IF n > IntMax THEN n - 2 * (IntMax + 1) ELSE n

SemOpen(t, s) ==
    /\ Calls(t) /\ s \notin open
    /\ open' = open \cup {s}
    /\ \E n \in InitValues : value' = [value EXCEPT ![s] = ToInt(n)]
    /\ Return(t, 0)
    /\ UNCHANGED <<schedVars, flagVars, pc, blockedThreads, closing>>

\* Sem::close: entered, one thread unblocked per iteration, and the delete.
SemClose(t, s) ==
    /\ Calls(t) /\ s \in open
    /\ closing' = s
    /\ UNCHANGED <<schedVars, flagVars, pc, ret, open, value, blockedThreads>>

SemCloseUnblock(s) ==
    /\ closing = s /\ halt = "no" /\ blockedThreads[s] # <<>>
    /\ Unblock(s, TRUE)
    /\ UNCHANGED <<running, halt, finished, pc, ret, open, value, closing>>

\* `if` for `while`: one waiter is woken, and the object deleted.
SemCloseDeleteBugIf(s) ==
    /\ closing = s /\ halt = "no"
    /\ closing' = NoSem
    /\ open' = open \ {s}
    /\ value' = [value EXCEPT ![s] = 0]
    /\ Return(running, 0)
    /\ UNCHANGED <<schedVars, flagVars, pc, blockedThreads>>

SemCloseDelete(s) ==
    /\ closing = s /\ halt = "no" /\ blockedThreads[s] = <<>>
    /\ closing' = NoSem
    /\ open' = open \ {s}
    /\ value' = [value EXCEPT ![s] = 0]       \* freed: it has no value now
    /\ Return(running, 0)
    /\ UNCHANGED <<schedVars, flagVars, pc, blockedThreads>>

SemWait(t, s) ==
    /\ Calls(t) /\ s \in open
    /\ value[s] > -IntMax - 1                 \* --value does not overflow
    /\ value' = [value EXCEPT ![s] = @ - 1]
    /\ UNCHANGED <<finished, semaphoreDeleted, open, closing>>
    /\ \/ /\ value'[s] >= 0
          /\ Return(t, 0)
          /\ UNCHANGED <<schedVars, pc, blocked, blockedThreads>>
       \/ /\ value'[s] < 0
          /\ blocked' = [blocked EXCEPT ![t] = TRUE]
          /\ blockedThreads' = [blockedThreads EXCEPT ![s] = Append(@, t)]
          /\ pc' = [pc EXCEPT ![t] = "block"]
          /\ UNCHANGED ret
          /\ Dispatch

\* Sem::block after dispatch returned: the flag says who woke the thread.
\* The Sem itself may be gone by now, and is not touched.
SemWaitReturn(t) ==
    /\ Running(t, "block")
    /\ pc' = [pc EXCEPT ![t] = "user"]
    /\ Return(t, IF semaphoreDeleted[t] THEN -1 ELSE 0)
    /\ UNCHANGED <<schedVars, flagVars, semVars>>

\* `< 0` for `<= 0`: the last waiter is not woken.
SemSignalBugLast(t, s) ==
    /\ Calls(t) /\ s \in open
    /\ value[s] < IntMax
    /\ value' = [value EXCEPT ![s] = @ + 1]
    /\ Return(t, 0)
    /\ UNCHANGED <<running, halt, finished, pc, open, closing>>
    /\ \/ value'[s] < 0 /\ Unblock(s, FALSE)
       \/ /\ value'[s] >= 0
          /\ UNCHANGED <<readyThreadQueue, blocked, semaphoreDeleted, blockedThreads>>

SemSignal(t, s) ==
    /\ Calls(t) /\ s \in open
    /\ value[s] < IntMax                      \* ++value does not overflow
    /\ value' = [value EXCEPT ![s] = @ + 1]
    /\ UNCHANGED <<running, halt, finished, pc, open, closing>>
    /\ \/ /\ value'[s] <= 0
          /\ Unblock(s, FALSE)
          /\ Return(t, IF Wakeable(s) = {} THEN -1 ELSE 0)
       \/ /\ value'[s] > 0
          /\ Return(t, 0)
          /\ UNCHANGED <<readyThreadQueue, blocked, semaphoreDeleted, blockedThreads>>

\* The value is decremented whatever it is.
SemTryWaitBugBelow(t, s) ==
    /\ Calls(t) /\ s \in open
    /\ value' = [value EXCEPT ![s] = @ - 1]
    /\ Return(t, IF value[s] > 0 THEN 0 ELSE 1)
    /\ UNCHANGED <<schedVars, flagVars, pc, open, blockedThreads, closing>>

SemTryWait(t, s) ==
    /\ Calls(t) /\ s \in open
    /\ \/ /\ value[s] = 1
          /\ value' = [value EXCEPT ![s] = 0]
          /\ Return(t, 0)
       \/ /\ value[s] # 1
          /\ Return(t, 1)
          /\ UNCHANGED value
    /\ UNCHANGED <<schedVars, flagVars, pc, open, blockedThreads, closing>>

-----------------------------------------------------------------------------

\* A `new` in a handler (a TCB, a Sem, an element of a queue) gets nullptr
\* from mem_alloc and constructs on it all the same: the store faults.
OutOfMemory ==
    /\ halt = "no"
    /\ running \in Threads /\ pc[running] = "user"
    /\ halt' = "memory"
    /\ UNCHANGED <<running, readyThreadQueue, flagVars, semVars, pc, ret>>

ThreadStep(t) ==
    \/ \E u \in Threads : \/ ThreadCreate(t, u)
                          \/ ThreadCreateWithoutStart(t, u)
                          \/ ThreadStart(t, u)
    \/ ThreadWrapper(t) \/ BodyReturn(t) \/ WrapperYield(t)
    \/ ThreadExit(t) \/ ThreadDispatch(t) \/ NullCall(t)

SemStep(t) ==
    \/ SemWaitReturn(t)
    \/ \E s \in Sems : \/ SemOpen(t, s) \/ SemClose(t, s)
                       \/ SemWait(t, s) \/ SemSignal(t, s) \/ SemTryWait(t, s)

CloseStep(s) == SemCloseUnblock(s) \/ SemCloseDelete(s)

Next ==
    \/ \E t \in Threads : ThreadStep(t) \/ SemStep(t)
    \/ \E s \in Sems : CloseStep(s)
    \/ OutOfMemory

Spec == Init /\ [][Next]_vars

-----------------------------------------------------------------------------
(* What the kernel promises.                                               *)

\* A thread is in one place at a time: it runs, or it is once in the ready
\* queue, or it waits once on one semaphore (the puts of TCB::dispatch,
\* TCB::startThread and Sem::unblock never enqueue a thread twice).
OnePlace ==
    /\ IsInjective(readyThreadQueue)
    /\ running \notin Range(readyThreadQueue)
    /\ \A s \in Sems :
          /\ IsInjective(blockedThreads[s])
          /\ running \notin Range(blockedThreads[s])
          /\ Range(blockedThreads[s]) \cap Range(readyThreadQueue) = {}
          /\ \A r \in Sems \ {s} :
                Range(blockedThreads[s]) \cap Range(blockedThreads[r]) = {}

\* No thread is lost: one whose body has begun and is not over runs, is
\* ready, or waits on an open semaphore with its flag `blocked` set; a
\* finished one is in no queue, and blockedThreads holds nobody else.
NoneLost ==
    \A t \in Threads :
       LET waits == \E s \in open : t \in Range(blockedThreads[s])
           ready == t \in Range(readyThreadQueue)
       IN  /\ pc[t] \in {"user", "block"} => running = t \/ ready \/ waits
           /\ blocked[t] <=> waits
           /\ finished[t] <=> pc[t] = "exit"
           /\ finished[t] => ~ready

\* Whoever is dispatched has a context to go on with: what is ready or runs
\* was created, a thread in a queue of waiters is in Sem::block, and none
\* comes back after its threadWrapper has yielded for the last time.  Only
\* the thread in sem_close stands between the caller and a close in its loop.
Contexts ==
    /\ running = NoThread <=> halt = "idle"
    /\ halt = "idle" => readyThreadQueue = <<>>
    /\ running # NoThread => pc[running] # "none"
    /\ \A t \in Range(readyThreadQueue) : pc[t] \in {"start", "user", "block"}
    /\ \A s \in Sems : \A t \in Range(blockedThreads[s]) : pc[t] = "block"
    /\ closing # NoSem => /\ closing \in open /\ running # NoThread
                          /\ pc[running] = "user"

\* Clients open semaphores with values that an int holds.
InitsFit == \A n \in InitValues : n <= IntMax

\* The value of a semaphore is the number of free units or, negative, of
\* waiting threads.  Opened with a value that does not fit an int it starts
\* negative, and then there are at most that many waiting.
SemCount ==
    \A s \in open :
       /\ Len(blockedThreads[s]) <= IF value[s] < 0 THEN -value[s] ELSE 0
       /\ InitsFit /\ closing # s =>
             Len(blockedThreads[s]) = IF value[s] < 0 THEN -value[s] ELSE 0

\* sem_close leaves nobody behind: an object that does not exist has no
\* thread in its queue (nothing would ever wake it).
ClosedIsEmpty == \A s \in Sems \ open : blockedThreads[s] = <<>>

\* The hart runs out of threads only when the program is over or deadlocked:
\* every thread is finished, never started, or waits on an open semaphore
\* that has no unit to give.
IdleIsStuck ==
    halt = "idle" =>
       \A t \in Threads :
          \/ pc[t] \in {"none", "exit"} \/ Unstarted(t)
          \/ \E s \in open : value[s] < 0 /\ t \in Range(blockedThreads[s])

\* From q to qq, those that stay do so in their order, and whoever is new
\* comes after all of them.
Fifo(q, qq) ==
    \A k, l \in DOMAIN qq :
       k < l /\ qq[l] \in Range(q) =>
          \E i, j \in DOMAIN q : i < j /\ q[i] = qq[k] /\ q[j] = qq[l]

\* Nobody overtakes in the ready queue, nor among the waiters of a semaphore
\* (List::addLast and removeFirst are the only ways in and out).
NoOvertaking ==
    [][/\ Fifo(readyThreadQueue, readyThreadQueue')
       /\ \A s \in Sems : Fifo(blockedThreads[s], blockedThreads'[s])]_vars

\* Sem.h: sem_trywait on a value greater than 0 decrements it and returns 0.
TryWaitTakes ==
    [][\A t \in Threads, s \in Sems :
          SemTryWait(t, s) /\ value[s] > 0 => ret'[t] = 0]_vars

-----------------------------------------------------------------------------

\* The invariant as a step preserves it.  NoneLost needs Contexts to know
\* where a woken thread goes on, IdleIsStuck follows from the counts.
IInv ==
    /\ TypeOK
    /\ OnePlace
    /\ NoneLost
    /\ Contexts
    /\ SemCount
    /\ ClosedIsEmpty
=============================================================================
