---------------------------- MODULE KernelProofs ----------------------------
(***************************************************************************)
(* The invariants of Kernel, for any threads, semaphores and int width.    *)
(***************************************************************************)
EXTENDS Kernel, SequenceTheorems, TLAPS

-----------------------------------------------------------------------------
(* Queues without repetition.                                              *)

\* List::addLast of somebody who is not in the queue.
LEMMA AppendQueue ==
    ASSUME NEW S, NEW q \in Seq(S), NEW x \in S
    PROVE  /\ Append(q, x) \in Seq(S)
           /\ Append(q, x) # <<>>
           /\ Len(Append(q, x)) = Len(q) + 1
           /\ Range(Append(q, x)) = Range(q) \cup {x}
           /\ IsInjective(q) /\ x \notin Range(q) => IsInjective(Append(q, x))
<1>1. /\ Append(q, x) \in Seq(S) /\ Len(Append(q, x)) = Len(q) + 1
      /\ DOMAIN Append(q, x) = 1 .. Len(q) + 1 /\ DOMAIN q = 1 .. Len(q)
      /\ Len(q) \in Nat
      /\ Append(q, x)[Len(q) + 1] = x
      /\ \A i \in 1 .. Len(q) : Append(q, x)[i] = q[i]
  OBVIOUS
<1>2. Append(q, x) # <<>>
  BY <1>1
<1>3. Range(Append(q, x)) = Range(q) \cup {x}
  BY <1>1 DEF Range
<1>4. IsInjective(q) /\ x \notin Range(q) => IsInjective(Append(q, x))
  BY <1>1 DEF Range, IsInjective
<1> QED
  BY <1>1, <1>2, <1>3, <1>4

\* List::removeFirst.
LEMMA TailQueue ==
    ASSUME NEW S, NEW q \in Seq(S), q # <<>>
    PROVE  /\ Head(q) \in S /\ Tail(q) \in Seq(S)
           /\ Head(q) \in Range(q)
           /\ Len(Tail(q)) = Len(q) - 1
           /\ Range(q) = Range(Tail(q)) \cup {Head(q)}
           /\ IsInjective(q) => IsInjective(Tail(q)) /\ Head(q) \notin Range(Tail(q))
<1>1. /\ Head(q) = q[1] /\ Tail(q) \in Seq(S) /\ Len(Tail(q)) = Len(q) - 1
      /\ DOMAIN Tail(q) = 1 .. Len(q) - 1 /\ DOMAIN q = 1 .. Len(q)
      /\ Len(q) \in Nat \ {0}
      /\ \A i \in 1 .. Len(q) - 1 : Tail(q)[i] = q[i + 1]
      /\ \A i \in 1 .. Len(q) : q[i] \in S
  OBVIOUS
<1>2. Head(q) \in Range(q) /\ Head(q) \in S
  BY <1>1 DEF Range
<1>3. Range(q) = Range(Tail(q)) \cup {Head(q)}
  <2>1. ASSUME NEW x \in Range(q) PROVE x \in Range(Tail(q)) \cup {Head(q)}
    <3>1. PICK i \in 1 .. Len(q) : q[i] = x
      BY <1>1 DEF Range
    <3>2. i = 1 \/ (i - 1 \in 1 .. Len(q) - 1 /\ Tail(q)[i - 1] = q[i])
      BY <1>1
    <3> QED
      BY <1>1, <3>1, <3>2 DEF Range
  <2>2. Range(Tail(q)) \subseteq Range(q)
    BY <1>1 DEF Range
  <2> QED
    BY <1>2, <2>1, <2>2
<1>4. IsInjective(q) => IsInjective(Tail(q)) /\ Head(q) \notin Range(Tail(q))
  BY <1>1 DEF Range, IsInjective
<1> QED
  BY <1>1, <1>2, <1>3, <1>4

-----------------------------------------------------------------------------
(* What the two helpers that move threads do to the queues.                *)

\* TCB::dispatch: the caller goes to the ready queue unless it is finished
\* or blocked, and the thread that runs is taken from there.
LEMMA DispatchMoves ==
    ASSUME TypeOK, OnePlace, running \in Threads, halt = "no", Dispatch
    PROVE  /\ readyThreadQueue' \in Seq(Threads)
           /\ IsInjective(readyThreadQueue')
           /\ running' \notin Range(readyThreadQueue')
           /\ LET on == IF ~finished'[running] /\ ~blocked'[running]
                          THEN {running} ELSE {}
              IN  \/ /\ halt' = "no" /\ running' \in Threads
                     /\ Range(readyThreadQueue) \cup on
                           = Range(readyThreadQueue') \cup {running'}
                  \/ /\ halt' = "idle" /\ running' = NoThread
                     /\ Range(readyThreadQueue) \cup on = {}
                     /\ readyThreadQueue' = <<>> /\ Range(readyThreadQueue') = {}
<1> DEFINE goesOn == ~finished'[running] /\ ~blocked'[running]
           queue == IF goesOn THEN Append(readyThreadQueue, running)
                              ELSE readyThreadQueue
           on == IF goesOn THEN {running} ELSE {}
<1>1. readyThreadQueue \in Seq(Threads)
  BY DEF TypeOK
<1>2. /\ queue \in Seq(Threads) /\ IsInjective(queue)
      /\ Range(queue) = Range(readyThreadQueue) \cup on
  <2>1. CASE goesOn
    BY <1>1, <2>1, AppendQueue DEF OnePlace
  <2>2. CASE ~goesOn
    BY <1>1, <2>2 DEF OnePlace
  <2> QED
    BY <2>1, <2>2
<1>3. \/ /\ queue # <<>> /\ running' = Head(queue)
         /\ readyThreadQueue' = Tail(queue) /\ halt' = halt
      \/ /\ queue = <<>> /\ running' = NoThread
         /\ readyThreadQueue' = queue /\ halt' = "idle"
  BY DEF Dispatch
<1> HIDE DEF goesOn, queue
<1>4. CASE queue # <<>> /\ running' = Head(queue) /\ readyThreadQueue' = Tail(queue) /\ halt' = halt
  <2>1. /\ Head(queue) \in Threads /\ Tail(queue) \in Seq(Threads)
        /\ Range(queue) = Range(Tail(queue)) \cup {Head(queue)}
        /\ IsInjective(Tail(queue)) /\ Head(queue) \notin Range(Tail(queue))
    BY <1>2, <1>4, TailQueue
  <2> QED
    BY <1>2, <1>4, <2>1 DEF goesOn
<1>5. CASE queue = <<>> /\ running' = NoThread /\ readyThreadQueue' = queue /\ halt' = "idle"
  <2>1. Range(queue) = {}
    BY <1>5 DEF Range
  <2> QED
    BY <1>2, <1>5, <2>1 DEF goesOn
<1> QED
  BY <1>3, <1>4, <1>5

\* Whoever is in a queue is blocked, so that Sem::unblock skips no entry.
LEMMA AllWakeable ==
    ASSUME TypeOK, NoneLost, NEW s \in open
    PROVE  Wakeable(s) = DOMAIN blockedThreads[s]
<1> DEFINE q == blockedThreads[s]
<1>1. s \in Sems /\ q \in Seq(Threads)
  BY DEF TypeOK
<1>2. \A i \in DOMAIN q : q[i] \in Range(q) /\ q[i] \in Threads
  BY <1>1 DEF Range
<1>3. \A t \in Range(q) : t \in Threads => blocked[t]
  BY <1>1 DEF NoneLost
<1> QED
  BY <1>2, <1>3 DEF Wakeable

\* Sem::unblock: every thread in the queue is blocked, so that the loop ends
\* with the first one, or finds nobody.
LEMMA UnblockMoves ==
    ASSUME TypeOK, NoneLost, NEW s \in open, NEW deleted \in BOOLEAN,
           Unblock(s, deleted)
    PROVE  LET q == blockedThreads[s] IN
           \/ /\ q = <<>> /\ Wakeable(s) = {}
              /\ UNCHANGED <<blocked, semaphoreDeleted, readyThreadQueue, blockedThreads>>
           \/ /\ q # <<>> /\ Wakeable(s) # {}
              /\ blockedThreads' = [blockedThreads EXCEPT ![s] = Tail(q)]
              /\ blocked' = [blocked EXCEPT ![Head(q)] = FALSE]
              /\ semaphoreDeleted' = [semaphoreDeleted EXCEPT ![Head(q)] = deleted]
              /\ readyThreadQueue' = Append(readyThreadQueue, Head(q))
<1> DEFINE q == blockedThreads[s]
<1>1. s \in Sems /\ q \in Seq(Threads) /\ blockedThreads \in [Sems -> Seq(Threads)]
  BY DEF TypeOK
<1>2. DOMAIN q = 1 .. Len(q) /\ Len(q) \in Nat
  BY <1>1
<1>3. Wakeable(s) = DOMAIN q
  BY AllWakeable
<1>4. CASE q = <<>>
  <2>1. Wakeable(s) = {}
    BY <1>3, <1>4
  <2>2. /\ blockedThreads' = [blockedThreads EXCEPT ![s] = <<>>]
        /\ UNCHANGED <<blocked, semaphoreDeleted, readyThreadQueue>>
    BY <2>1 DEF Unblock
  <2>3. blockedThreads' = blockedThreads
    BY <1>1, <1>4, <2>2
  <2> QED
    BY <1>4, <2>1, <2>2, <2>3
<1>5. CASE q # <<>>
  <2>1. 1 \in Wakeable(s) /\ \A j \in Wakeable(s) : 1 <= j
    BY <1>1, <1>2, <1>3, <1>5
  <2>2. PICK i \in Wakeable(s) :
           /\ \A j \in Wakeable(s) : i <= j
           /\ blockedThreads' = [blockedThreads EXCEPT ![s] = SubSeq(q, i + 1, Len(q))]
           /\ blocked' = [blocked EXCEPT ![q[i]] = FALSE]
           /\ semaphoreDeleted' = [semaphoreDeleted EXCEPT ![q[i]] = deleted]
           /\ Put(q[i])
    BY <2>1 DEF Unblock
  <2>3. i = 1 /\ i + 1 = 2
    BY <1>2, <1>3, <2>1, <2>2
  <2>4. q[i] = Head(q) /\ SubSeq(q, i + 1, Len(q)) = Tail(q)
    BY <1>1, <1>5, <2>3, TailIsSubSeq
  <2>5. /\ blockedThreads' = [blockedThreads EXCEPT ![s] = Tail(q)]
        /\ blocked' = [blocked EXCEPT ![Head(q)] = FALSE]
        /\ semaphoreDeleted' = [semaphoreDeleted EXCEPT ![Head(q)] = deleted]
    BY <2>2, <2>4
  <2>6. readyThreadQueue' = Append(readyThreadQueue, Head(q))
    BY <2>2, <2>4 DEF Put
  <2>7. Wakeable(s) # {}
    BY <2>1
  <2> QED
    BY <1>5, <2>5, <2>6, <2>7
<1> QED
  BY <1>4, <1>5

\* Scheduler::put of a thread that is not in the ready queue.
LEMMA PutMoves ==
    ASSUME TypeOK, IsInjective(readyThreadQueue), NEW t \in Threads,
           t \notin Range(readyThreadQueue), Put(t)
    PROVE  /\ readyThreadQueue' \in Seq(Threads)
           /\ IsInjective(readyThreadQueue')
           /\ Range(readyThreadQueue') = Range(readyThreadQueue) \cup {t}
<1>1. readyThreadQueue \in Seq(Threads)
  BY DEF TypeOK
<1> QED
  BY <1>1, AppendQueue DEF Put

\* The members of a queue are threads.
LEMMA QueuesHoldThreads ==
    ASSUME TypeOK
    PROVE  /\ Range(readyThreadQueue) \subseteq Threads
           /\ \A s \in Sems : Range(blockedThreads[s]) \subseteq Threads
<1>1. ASSUME NEW q \in Seq(Threads) PROVE Range(q) \subseteq Threads
  BY DEF Range
<1> QED
  BY <1>1 DEF TypeOK

-----------------------------------------------------------------------------
(* The invariant, action by action.                                        *)

\* What initMainThread leaves behind satisfies the invariant.
LEMMA InitInv == Init => IInv
<1> SUFFICES ASSUME Init PROVE IInv
  OBVIOUS
<1> USE ThreadsAssumption, SemsAssumption, CodesAssumption, IntAssumption
<1>0. Range(<<>>) = {} /\ IsInjective(<<>>) /\ <<>> \in Seq(Threads) /\ Len(<<>>) = 0
  BY DEF Range, IsInjective
<1>1. TypeOK
  BY <1>0 DEF Init, TypeOK, PCs, Codes, Ints
<1>2. OnePlace
  BY <1>0 DEF Init, OnePlace
<1>3. NoneLost
  BY <1>0 DEF Init, NoneLost
<1>4. Contexts
  BY <1>0 DEF Init, Contexts
<1>5. SemCount /\ ClosedIsEmpty
  BY <1>0 DEF Init, SemCount, ClosedIsEmpty
<1> QED
  BY <1>1, <1>2, <1>3, <1>4, <1>5 DEF IInv

\* Calls that put a thread in the ready queue, or only create one.
LEMMA CreateInv ==
    ASSUME IInv, NEW t \in Threads, NEW u \in Threads,
           \/ ThreadCreate(t, u)
           \/ ThreadCreateWithoutStart(t, u)
           \/ ThreadStart(t, u)
    PROVE  IInv'
<1> USE ThreadsAssumption, SemsAssumption DEF IInv
<1>1. /\ running = t /\ halt = "no" /\ closing = NoSem /\ pc[t] = "user"
      /\ pc[u] \in {"none", "start"} /\ u # running
      /\ u \notin Range(readyThreadQueue)
      /\ \A s \in Sems : u \notin Range(blockedThreads[s])
  BY DEF ThreadCreate, ThreadCreateWithoutStart, ThreadStart, Calls, Running,
         Unstarted, Contexts, OnePlace
<1>2. /\ pc' = [pc EXCEPT ![u] = "start"]
      /\ ret' = [ret EXCEPT ![t] = 0]
      /\ UNCHANGED <<running, halt, flagVars, semVars>>
  <2>1. CASE ThreadStart(t, u)
    BY <2>1 DEF ThreadStart, Unstarted, Return, TypeOK
  <2> QED
    BY <2>1 DEF ThreadCreate, ThreadCreateWithoutStart, Return, schedVars
<1>3. /\ readyThreadQueue' \in Seq(Threads)
      /\ IsInjective(readyThreadQueue')
      /\ \/ Range(readyThreadQueue') = Range(readyThreadQueue) \cup {u}
         \/ Range(readyThreadQueue') = Range(readyThreadQueue)
  <2>1. CASE Put(u)
    BY <1>1, <2>1, PutMoves DEF OnePlace
  <2>2. CASE UNCHANGED readyThreadQueue
    BY <2>2 DEF OnePlace, TypeOK
  <2> QED
    BY <2>1, <2>2 DEF ThreadCreate, ThreadCreateWithoutStart, ThreadStart, schedVars
<1>4. TypeOK'
  BY <1>2, <1>3 DEF TypeOK, flagVars, semVars, PCs, Codes
<1>5. OnePlace'
  BY <1>1, <1>2, <1>3 DEF OnePlace, semVars
<1>6. NoneLost'
  BY <1>1, <1>2, <1>3 DEF NoneLost, flagVars, semVars, TypeOK
<1>7. Contexts'
  BY <1>1, <1>2, <1>3, QueuesHoldThreads DEF Contexts, semVars, TypeOK
<1>8. SemCount' /\ ClosedIsEmpty'
  BY <1>2 DEF SemCount, ClosedIsEmpty, semVars
<1> QED
  BY <1>4, <1>5, <1>6, <1>7, <1>8

\* Calls that change no queue and no value.
LEMMA LocalInv ==
    ASSUME IInv, NEW t \in Threads,
           ThreadWrapper(t) \/ BodyReturn(t) \/ NullCall(t) \/ SemWaitReturn(t)
    PROVE  IInv'
<1> USE ThreadsAssumption, SemsAssumption, CodesAssumption DEF IInv
<1>1. /\ running = t /\ halt = "no" /\ closing = NoSem
      /\ pc[t] \in {"start", "user", "block"}
      /\ t \notin Range(readyThreadQueue)
      /\ \A s \in Sems : t \notin Range(blockedThreads[s])
  BY DEF ThreadWrapper, BodyReturn, NullCall, SemWaitReturn, Calls, Running, OnePlace
<1>2. /\ \/ /\ pc' = [pc EXCEPT ![t] = "exit"]
            /\ finished' = [finished EXCEPT ![t] = TRUE]
         \/ /\ pc' = [pc EXCEPT ![t] = "user"]
            /\ UNCHANGED finished
      /\ UNCHANGED <<schedVars, blocked, semaphoreDeleted, semVars>>
  <2>1. CASE NullCall(t)
    BY <2>1 DEF NullCall, Calls, Running, TypeOK, flagVars
  <2> QED
    BY <2>1 DEF ThreadWrapper, BodyReturn, SemWaitReturn, flagVars
<1>3. \/ UNCHANGED ret
      \/ \E code \in {-3, -2, -1, 0, 49} : ret' = [ret EXCEPT ![t] = code]
  BY DEF ThreadWrapper, BodyReturn, NullCall, SemWaitReturn, Return
<1>4. TypeOK'
  <2>1. ret' \in [Threads -> Codes]
    BY <1>3 DEF TypeOK, Codes
  <2> QED
    BY <1>2, <2>1 DEF TypeOK, schedVars, semVars, PCs
<1>5. OnePlace'
  BY <1>2 DEF OnePlace, schedVars, semVars
<1>6. NoneLost'
  BY <1>1, <1>2, ZenonT(60) DEF NoneLost, schedVars, semVars, TypeOK
<1>7. Contexts'
  BY <1>1, <1>2, QueuesHoldThreads DEF Contexts, schedVars, semVars, TypeOK
<1>8. SemCount' /\ ClosedIsEmpty'
  BY <1>2 DEF SemCount, ClosedIsEmpty, semVars
<1> QED
  BY <1>4, <1>5, <1>6, <1>7, <1>8

\* Calls by which the running thread gives up the hart without blocking.
LEMMA DispatchInv ==
    ASSUME IInv, NEW t \in Threads,
           ThreadDispatch(t) \/ ThreadExit(t) \/ WrapperYield(t)
    PROVE  IInv'
<1> USE ThreadsAssumption, SemsAssumption DEF IInv
<1>1. /\ running = t /\ halt = "no" /\ closing = NoSem
      /\ pc[t] \in {"user", "exit"}
      /\ t \notin Range(readyThreadQueue)
      /\ \A s \in Sems : t \notin Range(blockedThreads[s])
      /\ Dispatch
  BY DEF ThreadDispatch, ThreadExit, WrapperYield, Calls, Running, OnePlace
<1>2. /\ \/ /\ pc[t] = "user" /\ pc' = [pc EXCEPT ![t] = "exit"]
            /\ finished' = [finished EXCEPT ![t] = TRUE]
         \/ UNCHANGED <<pc, finished>>
      /\ UNCHANGED <<blocked, semaphoreDeleted, semVars, ret>>
  BY DEF ThreadDispatch, ThreadExit, WrapperYield, Calls, Running, flagVars
<1>3. ~blocked[t]
  BY <1>1 DEF NoneLost, TypeOK
<1>4. finished'[t] <=> pc'[t] = "exit"
  BY <1>2 DEF NoneLost, TypeOK
<1>5. /\ readyThreadQueue' \in Seq(Threads) /\ IsInjective(readyThreadQueue')
      /\ running' \notin Range(readyThreadQueue')
      /\ LET on == IF pc'[t] = "exit" THEN {} ELSE {t}
         IN  \/ /\ halt' = "no" /\ running' \in Threads
                /\ Range(readyThreadQueue) \cup on
                      = Range(readyThreadQueue') \cup {running'}
             \/ /\ halt' = "idle" /\ running' = NoThread
                /\ Range(readyThreadQueue) \cup on = {}
                /\ readyThreadQueue' = <<>> /\ Range(readyThreadQueue') = {}
  BY <1>1, <1>2, <1>3, <1>4, DispatchMoves
<1>6. TypeOK'
  BY <1>2, <1>5 DEF TypeOK, semVars, PCs
<1>7. OnePlace'
  <2>1. /\ Range(readyThreadQueue') \subseteq Range(readyThreadQueue) \cup {t}
        /\ running' \in Range(readyThreadQueue) \cup {t, NoThread}
    BY <1>5
  <2>2. \A s \in Sems : /\ Range(blockedThreads[s]) \cap Range(readyThreadQueue') = {}
                        /\ running' \notin Range(blockedThreads[s])
    BY <1>1, <2>1, QueuesHoldThreads DEF OnePlace
  <2> QED
    BY <1>2, <1>5, <2>2 DEF OnePlace, semVars
<1>8. NoneLost'
  BY <1>1, <1>2, <1>5 DEF NoneLost, semVars, TypeOK
<1>9. Contexts'
  BY <1>1, <1>2, <1>5, QueuesHoldThreads, ZenonT(60) DEF Contexts, semVars, TypeOK
<1>10. SemCount' /\ ClosedIsEmpty'
  BY <1>2 DEF SemCount, ClosedIsEmpty, semVars
<1> QED
  BY <1>6, <1>7, <1>8, <1>9, <1>10

\* sem_open, sem_trywait, the entry into sem_close and its delete.
LEMMA OpenCloseInv ==
    ASSUME IInv, NEW s \in Sems,
           \/ \E t \in Threads : SemOpen(t, s) \/ SemClose(t, s) \/ SemTryWait(t, s)
           \/ SemCloseDelete(s)
    PROVE  IInv'
<1> USE ThreadsAssumption, SemsAssumption, IntAssumption DEF IInv
<1>1. /\ halt = "no" /\ running \in Threads /\ pc[running] = "user"
      /\ UNCHANGED <<schedVars, flagVars, pc, blockedThreads>>
  BY DEF SemOpen, SemClose, SemTryWait, SemCloseDelete, Calls, Running, Contexts, TypeOK
<1>2. \/ UNCHANGED ret
      \/ \E code \in {0, 1} : ret' = [ret EXCEPT ![running] = code]
  BY DEF SemOpen, SemClose, SemTryWait, SemCloseDelete, Calls, Running, Return
<1>3. /\ open' \subseteq Sems /\ closing' \in Sems \cup {NoSem}
      /\ closing' # NoSem => closing' \in open'
      /\ \A r \in open \ open' : blockedThreads[r] = <<>>
      /\ \A r \in Sems \ open' : blockedThreads[r] = <<>>
  <2>1. CASE \E t \in Threads : SemOpen(t, s) \/ SemClose(t, s) \/ SemTryWait(t, s)
    <3>1. \/ open' = open \cup {s} /\ closing' = NoSem
          \/ open' = open /\ s \in open /\ closing' \in {s, NoSem}
      BY <2>1 DEF SemOpen, SemClose, SemTryWait, Calls, Running
    <3> QED
      BY <3>1 DEF TypeOK, ClosedIsEmpty
  <2>2. CASE SemCloseDelete(s)
    BY <2>2 DEF SemCloseDelete, TypeOK, ClosedIsEmpty
  <2> QED
    BY <2>1, <2>2
<1>4. value' \in [Sems -> Ints]
  <2>1. \A n \in InitValues : ToInt(n) \in Ints
    BY DEF ToInt, Ints
  <2>2. 0 \in Ints
    BY DEF Ints
  <2>3. \/ UNCHANGED value
        \/ \E v \in Ints : value' = [value EXCEPT ![s] = v]
    BY <2>1, <2>2 DEF SemOpen, SemClose, SemTryWait, SemCloseDelete
  <2> QED
    BY <2>3 DEF TypeOK
<1>5. TypeOK'
  <2>1. ret' \in [Threads -> Codes]
    BY <1>2, SMTT(60) DEF TypeOK, Codes
  <2> QED
    BY <1>1, <1>3, <1>4, <2>1 DEF TypeOK, schedVars, flagVars
<1>6. OnePlace'
  BY <1>1 DEF OnePlace, schedVars
<1>7. NoneLost'
  <2>1. \A t \in Threads :
           (\E r \in open : t \in Range(blockedThreads[r]))
              <=> (\E r \in open' : t \in Range(blockedThreads[r]))
    <3>1. \A r \in Sems : blockedThreads[r] = <<>> => Range(blockedThreads[r]) = {}
      BY DEF Range
    <3> QED
      BY <1>3, <3>1 DEF TypeOK, ClosedIsEmpty
  <2> QED
    BY <1>1, <2>1 DEF NoneLost, schedVars, flagVars
<1>8. Contexts'
  BY <1>1, <1>3 DEF Contexts, schedVars
<1>9. ClosedIsEmpty'
  BY <1>1, <1>3 DEF ClosedIsEmpty
<1>10. SemCount'
  <2>0. \A r \in open : /\ Len(blockedThreads[r]) \in Nat /\ value[r] \in Int
                        /\ r \in Sems
    BY DEF TypeOK, Ints
  <2>1. ASSUME NEW t \in Threads, SemOpen(t, s) PROVE SemCount'
    <3>1. PICK n \in InitValues : value' = [value EXCEPT ![s] = ToInt(n)]
      BY <2>1 DEF SemOpen
    <3>2. blockedThreads[s] = <<>> /\ Len(blockedThreads[s]) = 0
      BY <2>1 DEF SemOpen, ClosedIsEmpty
    <3>3. InitsFit => ToInt(n) >= 0
      BY DEF InitsFit, ToInt
    <3>4. ToInt(n) \in Int
      BY DEF ToInt
    <3> QED
      BY <2>1, <3>1, <3>2, <3>3, <3>4 DEF SemOpen, SemCount, TypeOK
  <2>2. ASSUME NEW t \in Threads, SemClose(t, s) PROVE SemCount'
    BY <2>0, <2>2 DEF SemClose, SemCount, Calls, Running
  <2>3. ASSUME NEW t \in Threads, SemTryWait(t, s) PROVE SemCount'
    <3>1. CASE UNCHANGED value
      BY <2>3, <3>1 DEF SemTryWait, SemCount
    <3>2. CASE value[s] = 1 /\ value' = [value EXCEPT ![s] = 0]
      BY <2>0, <2>3, <3>2 DEF SemTryWait, SemCount, TypeOK
    <3> QED
      BY <2>3, <3>1, <3>2 DEF SemTryWait
  <2>4. ASSUME SemCloseDelete(s) PROVE SemCount'
    BY <2>4 DEF SemCloseDelete, SemCount, TypeOK
  <2> QED
    BY <2>1, <2>2, <2>3, <2>4
<1> QED
  BY <1>5, <1>6, <1>7, <1>8, <1>9, <1>10

\* sem_wait keeps the invariant, whether the caller goes on or blocks.
LEMMA SemWaitInv ==
    ASSUME IInv, NEW t \in Threads, NEW s \in Sems, SemWait(t, s)
    PROVE  IInv'
<1> USE ThreadsAssumption, SemsAssumption, IntAssumption DEF IInv
<1> DEFINE q == blockedThreads[s]
<1>1. /\ running = t /\ halt = "no" /\ closing = NoSem /\ pc[t] = "user"
      /\ s \in open /\ value[s] \in Ints /\ value[s] > -IntMax - 1
      /\ t \notin Range(readyThreadQueue)
      /\ \A r \in Sems : t \notin Range(blockedThreads[r])
      /\ q \in Seq(Threads) /\ Len(q) \in Nat
      /\ value' = [value EXCEPT ![s] = value[s] - 1]
      /\ UNCHANGED <<finished, semaphoreDeleted, open, closing>>
  BY DEF SemWait, Calls, Running, OnePlace, TypeOK
<1>2. \A r \in open : /\ Len(blockedThreads[r]) \in Nat /\ value[r] \in Int
                      /\ r \in Sems
  BY DEF TypeOK, Ints
<1>3. value' \in [Sems -> Ints] /\ value'[s] = value[s] - 1 /\ value[s] \in Int
  BY <1>1 DEF TypeOK, Ints
\* There is a unit to take.
<1>4. CASE value'[s] >= 0
  <2>1. /\ ret' = [ret EXCEPT ![t] = 0]
        /\ UNCHANGED <<schedVars, pc, blocked, blockedThreads>>
    BY <1>3, <1>4 DEF SemWait, Return
  <2>2. TypeOK'
    BY <1>1, <1>3, <2>1 DEF TypeOK, schedVars, Codes
  <2>3. OnePlace' /\ NoneLost' /\ Contexts' /\ ClosedIsEmpty'
    BY <1>1, <2>1 DEF OnePlace, NoneLost, Contexts, ClosedIsEmpty, schedVars
  <2>4. SemCount'
    BY <1>1, <1>2, <1>3, <1>4, <2>1 DEF SemCount, TypeOK
  <2> QED
    BY <2>2, <2>3, <2>4
\* There is none: the thread blocks.
<1>5. CASE value'[s] < 0
  <2>1. /\ blocked' = [blocked EXCEPT ![t] = TRUE]
        /\ blockedThreads' = [blockedThreads EXCEPT ![s] = Append(q, t)]
        /\ pc' = [pc EXCEPT ![t] = "block"]
        /\ UNCHANGED ret
        /\ Dispatch
    BY <1>3, <1>5 DEF SemWait
  <2>2. /\ Append(q, t) \in Seq(Threads) /\ IsInjective(Append(q, t))
        /\ Range(Append(q, t)) = Range(q) \cup {t}
        /\ Len(Append(q, t)) = Len(q) + 1
    BY <1>1, AppendQueue DEF OnePlace
  <2>3. /\ blockedThreads' \in [Sems -> Seq(Threads)]
        /\ blockedThreads'[s] = Append(q, t)
        /\ \A r \in Sems \ {s} : blockedThreads'[r] = blockedThreads[r]
    BY <2>1, <2>2 DEF TypeOK
  <2>4. /\ readyThreadQueue' \in Seq(Threads) /\ IsInjective(readyThreadQueue')
        /\ running' \notin Range(readyThreadQueue')
        /\ \/ /\ halt' = "no" /\ running' \in Threads
              /\ Range(readyThreadQueue) = Range(readyThreadQueue') \cup {running'}
           \/ /\ halt' = "idle" /\ running' = NoThread
              /\ Range(readyThreadQueue) = {}
              /\ readyThreadQueue' = <<>> /\ Range(readyThreadQueue') = {}
    <3>1. blocked'[running]
      BY <1>1, <2>1 DEF TypeOK
    <3> QED
      BY <1>1, <2>1, <3>1, DispatchMoves
  <2>5. TypeOK'
    BY <1>1, <1>3, <2>1, <2>3, <2>4 DEF TypeOK, PCs
  <2>6. OnePlace'
    <3>1. /\ Range(readyThreadQueue') \subseteq Range(readyThreadQueue)
          /\ running' \in Range(readyThreadQueue) \cup {NoThread}
      BY <2>4
    <3>2. \A r \in Sems :
             /\ Range(blockedThreads'[r]) \subseteq Range(blockedThreads[r]) \cup {t}
             /\ IsInjective(blockedThreads'[r])
      BY <2>2, <2>3 DEF OnePlace
    <3>3. ASSUME NEW r \in Sems
          PROVE  /\ Range(blockedThreads'[r]) \cap Range(readyThreadQueue') = {}
                 /\ running' \notin Range(blockedThreads'[r])
      <4>1. /\ Range(blockedThreads[r]) \cap Range(readyThreadQueue) = {}
            /\ Range(blockedThreads'[r]) \subseteq Range(blockedThreads[r]) \cup {t}
            /\ NoThread \notin Range(blockedThreads[r]) /\ NoThread # t
        BY <3>2, QueuesHoldThreads DEF OnePlace
      <4> QED
        BY <1>1, <3>1, <4>1
    <3>4. ASSUME NEW r \in Sems, NEW p \in Sems, r # p
          PROVE  Range(blockedThreads'[r]) \cap Range(blockedThreads'[p]) = {}
      <4>1. /\ Range(blockedThreads[r]) \cap Range(blockedThreads[p]) = {}
            /\ t \notin Range(blockedThreads[r]) /\ t \notin Range(blockedThreads[p])
            /\ r = s \/ Range(blockedThreads'[r]) = Range(blockedThreads[r])
            /\ p = s \/ Range(blockedThreads'[p]) = Range(blockedThreads[p])
        BY <1>1, <2>3, <3>4 DEF OnePlace
      <4> QED
        BY <2>2, <2>3, <3>2, <3>4, <4>1
    <3> QED
      BY <2>4, <3>2, <3>3, <3>4 DEF OnePlace
  <2>7. NoneLost'
    <3>1. \A u \in Threads :
             (\E r \in open' : u \in Range(blockedThreads'[r]))
                <=> u = t \/ (\E r \in open : u \in Range(blockedThreads[r]))
      BY <1>1, <1>2, <2>2, <2>3
    <3> QED
      BY <1>1, <2>1, <2>4, <3>1 DEF NoneLost, TypeOK
  <2>8. Contexts'
    <3>1. pc' \in [Threads -> PCs] /\ pc'[t] = "block"
          /\ \A u \in Threads \ {t} : pc'[u] = pc[u]
      BY <2>1 DEF TypeOK, PCs
    <3>2. /\ running' = NoThread <=> halt' = "idle"
          /\ halt' = "idle" => readyThreadQueue' = <<>>
          /\ running' # NoThread => running' \in Range(readyThreadQueue) /\ running' # t
          /\ Range(readyThreadQueue') \subseteq Range(readyThreadQueue) \ {t}
      BY <1>1, <2>4
    <3>3. \A u \in Range(readyThreadQueue) \ {t} : pc'[u] \in {"start", "user", "block"}
      BY <3>1, QueuesHoldThreads DEF Contexts
    <3>4. \A r \in Sems : \A u \in Range(blockedThreads'[r]) : pc'[u] = "block"
      BY <2>2, <2>3, <3>1, QueuesHoldThreads, ZenonT(60) DEF Contexts
    <3> QED
      BY <1>1, <3>2, <3>3, <3>4 DEF Contexts
  <2>9. SemCount'
    BY <1>1, <1>2, <1>3, <1>5, <2>2, <2>3 DEF SemCount, TypeOK
  <2>10. ClosedIsEmpty'
    BY <1>1, <2>3 DEF ClosedIsEmpty
  <2> QED
    BY <2>5, <2>6, <2>7, <2>8, <2>9, <2>10
<1> QED
  BY <1>3, <1>4, <1>5 DEF Ints

\* The first waiter of s becomes ready (sem_signal, an iteration of
\* sem_close): the part of the invariant about threads and queues.
LEMMA WakeInv ==
    ASSUME IInv, halt = "no", NEW s \in open, blockedThreads[s] # <<>>,
           blockedThreads' = [blockedThreads EXCEPT ![s] = Tail(blockedThreads[s])],
           blocked' = [blocked EXCEPT ![Head(blockedThreads[s])] = FALSE],
           readyThreadQueue' = Append(readyThreadQueue, Head(blockedThreads[s])),
           UNCHANGED <<running, halt, finished, pc, open, closing>>
    PROVE  /\ readyThreadQueue' \in Seq(Threads)
           /\ blocked' \in [Threads -> BOOLEAN]
           /\ blockedThreads' \in [Sems -> Seq(Threads)]
           /\ OnePlace' /\ NoneLost' /\ Contexts' /\ ClosedIsEmpty'
<1> USE ThreadsAssumption, SemsAssumption DEF IInv
<1> DEFINE q == blockedThreads[s]
           w == Head(q)
<1>1. /\ s \in Sems /\ q \in Seq(Threads) /\ w \in Threads /\ Tail(q) \in Seq(Threads)
      /\ Range(q) = Range(Tail(q)) \cup {w}
      /\ IsInjective(Tail(q)) /\ w \notin Range(Tail(q)) /\ w \in Range(q)
  <2>1. s \in Sems /\ q \in Seq(Threads) /\ IsInjective(q)
    BY DEF TypeOK, OnePlace
  <2> QED
    BY <2>1, TailQueue
<1>2. /\ w \notin Range(readyThreadQueue) /\ running # w
      /\ \A r \in Sems \ {s} : w \notin Range(blockedThreads[r])
      /\ pc[w] = "block"
  BY <1>1 DEF OnePlace, Contexts
<1>3. /\ readyThreadQueue' \in Seq(Threads) /\ IsInjective(readyThreadQueue')
      /\ Range(readyThreadQueue') = Range(readyThreadQueue) \cup {w}
  BY <1>1, <1>2, PutMoves DEF OnePlace, Put
<1> HIDE DEF w
<1>4. /\ blockedThreads' \in [Sems -> Seq(Threads)] /\ blockedThreads'[s] = Tail(q)
      /\ \A r \in Sems \ {s} : blockedThreads'[r] = blockedThreads[r]
      /\ blocked' \in [Threads -> BOOLEAN] /\ ~blocked'[w]
      /\ \A u \in Threads \ {w} : blocked'[u] = blocked[u]
  BY <1>1 DEF TypeOK, w
<1>5. OnePlace'
  <2>1. \A r \in Sems : /\ Range(blockedThreads'[r]) \subseteq Range(blockedThreads[r]) \ {w}
                        /\ IsInjective(blockedThreads'[r])
    BY <1>1, <1>2, <1>4 DEF OnePlace
  <2> QED
    BY <1>2, <1>3, <2>1 DEF OnePlace
<1>6. NoneLost'
  <2>1. \A u \in Threads :
           (\E r \in open' : u \in Range(blockedThreads'[r]))
              <=> u # w /\ (\E r \in open : u \in Range(blockedThreads[r]))
    BY <1>1, <1>2, <1>4, ZenonT(60) DEF TypeOK
  <2> QED
    BY <1>2, <1>3, <1>4, <2>1 DEF NoneLost
<1>7. Contexts'
  BY <1>1, <1>2, <1>3, <1>4 DEF Contexts
<1>8. ClosedIsEmpty'
  BY <1>4 DEF ClosedIsEmpty
<1> QED
  BY <1>3, <1>4, <1>5, <1>6, <1>7, <1>8

\* sem_signal keeps the invariant: at a negative value there is somebody to
\* wake, so that value and waiters go up and down together.
LEMMA SemSignalInv ==
    ASSUME IInv, NEW t \in Threads, NEW s \in Sems, SemSignal(t, s)
    PROVE  IInv'
<1> USE ThreadsAssumption, SemsAssumption, IntAssumption DEF IInv
<1> DEFINE q == blockedThreads[s]
<1>1. /\ running = t /\ halt = "no" /\ closing = NoSem
      /\ s \in open /\ value[s] \in Int /\ value[s] < IntMax
      /\ value' = [value EXCEPT ![s] = value[s] + 1]
      /\ UNCHANGED <<running, halt, finished, pc, open, closing>>
  BY DEF SemSignal, Calls, Running, TypeOK, Ints
<1>2. \A r \in open : /\ Len(blockedThreads[r]) \in Nat /\ value[r] \in Int
                      /\ r \in Sems
  BY DEF TypeOK, Ints
<1>3. value' \in [Sems -> Ints] /\ value'[s] = value[s] + 1
  BY <1>1 DEF TypeOK, Ints
<1>4. ret' \in [Threads -> Codes]
  BY ZenonT(60) DEF SemSignal, Return, TypeOK, Codes
\* Somebody waits, and is woken.
<1>5. CASE /\ q # <<>>
           /\ blockedThreads' = [blockedThreads EXCEPT ![s] = Tail(q)]
           /\ blocked' = [blocked EXCEPT ![Head(q)] = FALSE]
           /\ semaphoreDeleted' = [semaphoreDeleted EXCEPT ![Head(q)] = FALSE]
           /\ readyThreadQueue' = Append(readyThreadQueue, Head(q))
           /\ value'[s] <= 0
  <2>1. /\ readyThreadQueue' \in Seq(Threads) /\ blocked' \in [Threads -> BOOLEAN]
        /\ blockedThreads' \in [Sems -> Seq(Threads)]
        /\ OnePlace' /\ NoneLost' /\ Contexts' /\ ClosedIsEmpty'
    BY <1>1, <1>5, WakeInv
  <2>2. TypeOK'
    BY <1>1, <1>3, <1>4, <1>5, <2>1 DEF TypeOK
  <2>3. SemCount'
    <3>1. Len(blockedThreads'[s]) = Len(q) - 1
      BY <1>1, <1>2, <1>5, TailQueue DEF TypeOK
    <3>2. \A r \in open \ {s} : /\ blockedThreads'[r] = blockedThreads[r]
                                /\ value'[r] = value[r]
      BY <1>1, <1>2, <1>5 DEF TypeOK
    <3> QED
      BY <1>1, <1>2, <1>3, <1>5, <3>1, <3>2 DEF SemCount
  <2> QED
    BY <2>1, <2>2, <2>3
\* Nobody waits.
<1>6. CASE /\ value'[s] > 0 \/ q = <<>>
           /\ UNCHANGED <<readyThreadQueue, blocked, semaphoreDeleted, blockedThreads>>
  <2>1. TypeOK' /\ OnePlace' /\ NoneLost' /\ Contexts' /\ ClosedIsEmpty'
    BY <1>1, <1>3, <1>4, <1>6
       DEF TypeOK, OnePlace, NoneLost, Contexts, ClosedIsEmpty
  <2>2. SemCount'
    <3>1. \A r \in open \ {s} : value'[r] = value[r]
      BY <1>1, <1>2 DEF TypeOK
    <3>2. Len(q) = 0
      BY <1>1, <1>2, <1>3, <1>6 DEF SemCount
    <3>3. InitsFit => value[s] >= 0
      BY <1>1, <1>2, <3>2 DEF SemCount
    <3> QED
      BY <1>1, <1>2, <1>3, <1>6, <3>1, <3>2, <3>3 DEF SemCount
  <2> QED
    BY <2>1, <2>2
<1>7. CASE value'[s] <= 0 /\ Unblock(s, FALSE)
  BY <1>1, <1>5, <1>6, <1>7, UnblockMoves
<1> QED
  BY <1>6, <1>7 DEF SemSignal

\* An iteration of sem_close keeps the invariant: one waiter fewer, and no
\* count is claimed of a semaphore that is being closed.
LEMMA SemCloseUnblockInv ==
    ASSUME IInv, NEW s \in Sems, SemCloseUnblock(s)
    PROVE  IInv'
<1> USE ThreadsAssumption, SemsAssumption DEF IInv
<1> DEFINE q == blockedThreads[s]
<1>1. /\ closing = s /\ s \in open /\ q # <<>> /\ halt = "no"
      /\ Unblock(s, TRUE)
      /\ UNCHANGED <<running, halt, finished, pc, ret, open, value, closing>>
  BY DEF SemCloseUnblock, Contexts
<1>2. /\ blockedThreads' = [blockedThreads EXCEPT ![s] = Tail(q)]
      /\ blocked' = [blocked EXCEPT ![Head(q)] = FALSE]
      /\ semaphoreDeleted' = [semaphoreDeleted EXCEPT ![Head(q)] = TRUE]
      /\ readyThreadQueue' = Append(readyThreadQueue, Head(q))
  BY <1>1, UnblockMoves
<1>3. /\ readyThreadQueue' \in Seq(Threads) /\ blocked' \in [Threads -> BOOLEAN]
      /\ blockedThreads' \in [Sems -> Seq(Threads)]
      /\ OnePlace' /\ NoneLost' /\ Contexts' /\ ClosedIsEmpty'
  BY <1>1, <1>2, WakeInv
<1>4. TypeOK'
  BY <1>1, <1>2, <1>3 DEF TypeOK
<1>5. SemCount'
  <2>1. /\ \A r \in open : Len(blockedThreads[r]) \in Nat /\ value[r] \in Int
        /\ Len(blockedThreads'[s]) = Len(q) - 1
        /\ \A r \in open \ {s} : blockedThreads'[r] = blockedThreads[r]
    BY <1>1, <1>2, TailQueue DEF TypeOK, Ints
  <2> QED
    BY <1>1, <2>1 DEF SemCount
<1> QED
  BY <1>3, <1>4, <1>5

\* The fault of a failed allocation moves no thread.
LEMMA OutOfMemoryInv == IInv /\ OutOfMemory => IInv'
<1> SUFFICES ASSUME IInv, OutOfMemory PROVE IInv'
  OBVIOUS
<1>1. TypeOK'
  BY DEF IInv, OutOfMemory, TypeOK, flagVars, semVars
<1> QED
  BY <1>1, ThreadsAssumption
     DEF IInv, OutOfMemory, OnePlace, NoneLost, Contexts, SemCount, ClosedIsEmpty,
         flagVars, semVars

\* The invariant depends on the variables alone.
LEMMA StutterInv == IInv /\ UNCHANGED vars => IInv'
  BY DEF IInv, TypeOK, OnePlace, NoneLost, Contexts, SemCount, ClosedIsEmpty,
         vars, schedVars, flagVars, semVars

\* Every step of the kernel keeps the invariant.
LEMMA StepInv == IInv /\ [Next]_vars => IInv'
<1> SUFFICES ASSUME IInv, [Next]_vars PROVE IInv'
  OBVIOUS
<1>1. ASSUME NEW t \in Threads, ThreadStep(t) PROVE IInv'
  BY <1>1, CreateInv, LocalInv, DispatchInv DEF ThreadStep
<1>2. ASSUME NEW t \in Threads, SemStep(t) PROVE IInv'
  BY <1>2, LocalInv, OpenCloseInv, SemWaitInv, SemSignalInv DEF SemStep
<1>3. ASSUME NEW s \in Sems, CloseStep(s) PROVE IInv'
  BY <1>3, SemCloseUnblockInv, OpenCloseInv DEF CloseStep
<1>4. CASE OutOfMemory
  BY <1>4, OutOfMemoryInv
<1>5. CASE UNCHANGED vars
  BY <1>5, StutterInv
<1> QED
  BY <1>1, <1>2, <1>3, <1>4, <1>5 DEF Next
-----------------------------------------------------------------------------
(* The theorems.                                                           *)

\* The inductive invariant holds in every state the kernel reaches.
THEOREM Invariance == Spec => []IInv
  BY InitInv, StepInv, PTL DEF Spec

\* Every variable keeps its type, and no value leaves the range of an int.
THEOREM TypeCorrect == Spec => []TypeOK
<1>1. IInv => TypeOK
  BY DEF IInv
<1> QED
  BY <1>1, Invariance, PTL

\* No thread is ever in two places: two queues, twice in one, or in one
\* while it runs.
THEOREM NeverTwice == Spec => []OnePlace
<1>1. IInv => OnePlace
  BY DEF IInv
<1> QED
  BY <1>1, Invariance, PTL

\* No thread that has begun and not finished is ever in no place, and the
\* flag `blocked` says which place it is.
THEOREM NeverLost == Spec => []NoneLost
<1>1. IInv => NoneLost
  BY DEF IInv
<1> QED
  BY <1>1, Invariance, PTL

\* Whoever is dispatched was created and has not ended, and stands where its
\* queue says.
THEOREM SomewhereToGoOn == Spec => []Contexts
<1>1. IInv => Contexts
  BY DEF IInv
<1> QED
  BY <1>1, Invariance, PTL

\* The value of a semaphore counts its units or its waiters.
THEOREM CountsWaiters == Spec => []SemCount
<1>1. IInv => SemCount
  BY DEF IInv
<1> QED
  BY <1>1, Invariance, PTL

\* A semaphore that is gone has left nobody waiting.
THEOREM NobodyLeftBehind == Spec => []ClosedIsEmpty
<1>1. IInv => ClosedIsEmpty
  BY DEF IInv
<1> QED
  BY <1>1, Invariance, PTL

\* The hart only runs dry when the program is over or deadlocked.
THEOREM IdleOnlyWhenStuck == Spec => []IdleIsStuck
<1>1. IInv => IdleIsStuck
  <2> SUFFICES ASSUME IInv, halt = "idle", NEW t \in Threads,
                      pc[t] \notin {"none", "exit"}, ~Unstarted(t)
               PROVE  \E s \in open : value[s] < 0 /\ t \in Range(blockedThreads[s])
    BY DEF IdleIsStuck
  <2>1. running = NoThread /\ t # running /\ Range(readyThreadQueue) = {}
    BY ThreadsAssumption DEF IInv, Contexts, Range
  <2>2. PICK s \in open : t \in Range(blockedThreads[s])
    <3>1. pc[t] \in {"user", "block"}
      BY <2>1 DEF IInv, TypeOK, PCs, Unstarted
    <3> QED
      BY <2>1, <3>1 DEF IInv, NoneLost
  <2>3. value[s] < 0
    <3>1. /\ s \in Sems /\ blockedThreads[s] \in Seq(Threads) /\ value[s] \in Int
      BY DEF IInv, TypeOK, Ints
    <3>2. Len(blockedThreads[s]) \in Nat \ {0}
      BY <2>2, <3>1 DEF Range
    <3> QED
      BY <3>1, <3>2 DEF IInv, SemCount
  <2> QED
    BY <2>2, <2>3
<1> QED
  BY <1>1, Invariance, PTL
=============================================================================
