----------------------- MODULE KernelRefinementProofs -----------------------
(***************************************************************************)
(* Kernel implements Semaphores, and its queues are first come, first      *)
(* served: both from the invariant of KernelProofs, step by step.          *)
(***************************************************************************)
EXTENDS KernelSemaphores, KernelProofs

\* A semaphore opened with a value that an int does not hold starts without
\* units, which Semaphores allows only where 0 is a value to open with.
UnitsFit == \A n \in InitValues : ToInt(n) < 0 => 0 \in InitValues

AbstractVars == <<open \ {closing}, Units, Waiters, Outcome>>

\* The system starts with no abstract semaphore open and nobody waiting.
LEMMA InitAbstract == Init => Abstract!Init
  BY SemsAssumption DEF Init, Abstract!Init, Units, Waiters, Outcome

\* A thread in its own code is in no wait.
LEMMA CallerActive ==
    ASSUME IInv, NEW t \in Threads, running = t, pc[t] = "user"
    PROVE  Abstract!Active(t)
<1>1. Outcome[t] = "none"
  BY DEF Outcome
<1>2. ASSUME NEW s \in Sems PROVE t \notin Abstract!Range(Waiters[s])
  BY DEF IInv, OnePlace, Waiters, Abstract!Range, Range
<1> QED
  BY <1>1, <1>2 DEF Abstract!Active

\* What Semaphores sees of a step that leaves semaphores alone: nothing.
LEMMA NothingSeen ==
    ASSUME UNCHANGED <<blocked, semaphoreDeleted, semVars>>,
           \A u \in Threads : pc'[u] = pc[u] \/ "block" \notin {pc[u], pc'[u]}
    PROVE  UNCHANGED AbstractVars
<1>1. Outcome' = Outcome
  BY DEF Outcome, semVars
<1> QED
  BY <1>1 DEF AbstractVars, Units, Waiters, semVars

\* Calls that are not about semaphores: they return a code, or only move the
\* hart from thread to thread.
LEMMA ThreadStepSeen ==
    ASSUME IInv, NEW t \in Threads, ThreadStep(t)
    PROVE  Abstract!OtherCall(t) \/ UNCHANGED Abstract!vars
<1> USE DEF IInv
<1>1. running = t /\ UNCHANGED AbstractVars
  <2>1. running = t
    BY DEF ThreadStep, ThreadCreate, ThreadCreateWithoutStart, ThreadStart,
           ThreadWrapper, BodyReturn, WrapperYield, ThreadExit, ThreadDispatch,
           NullCall, Calls, Running
  <2>2. UNCHANGED <<blocked, semaphoreDeleted, semVars>>
    BY DEF ThreadStep, ThreadCreate, ThreadCreateWithoutStart, ThreadStart,
           ThreadWrapper, BodyReturn, WrapperYield, ThreadExit, ThreadDispatch,
           NullCall, flagVars
  <2>3. \A u \in Threads : pc'[u] = pc[u] \/ "block" \notin {pc[u], pc'[u]}
    BY DEF ThreadStep, ThreadCreate, ThreadCreateWithoutStart, ThreadStart,
           ThreadWrapper, BodyReturn, WrapperYield, ThreadExit, ThreadDispatch,
           NullCall, Calls, Running, TypeOK
  <2> QED
    BY <2>1, <2>2, <2>3, NothingSeen
<1>2. \/ UNCHANGED ret
      \/ /\ pc[t] = "user"
         /\ \E code \in {-3, -2, -1, 0, 1, 49} : ret' = [ret EXCEPT ![t] = code]
  BY CodesAssumption
     DEF ThreadStep, ThreadCreate, ThreadCreateWithoutStart, ThreadStart,
         ThreadWrapper, BodyReturn, WrapperYield, ThreadExit, ThreadDispatch,
         NullCall, Calls, Running, Return
<1> QED
  BY <1>1, <1>2, CallerActive
     DEF Abstract!OtherCall, Abstract!Returns, Abstract!vars, AbstractVars

\* sem_open.
LEMMA OpenSeen ==
    ASSUME IInv, UnitsFit, NEW t \in Threads, NEW s \in Sems, SemOpen(t, s)
    PROVE  Abstract!Open(t, s)
<1> USE SemsAssumption, IntAssumption DEF IInv
<1>1. /\ running = t /\ pc[t] = "user" /\ closing = NoSem
      /\ s \notin open /\ open' = open \cup {s}
      /\ UNCHANGED <<flagVars, pc, blockedThreads, closing>>
      /\ ret' = [ret EXCEPT ![t] = 0]
  BY DEF SemOpen, Calls, Running, Return
<1>2. PICK n \in InitValues : value' = [value EXCEPT ![s] = ToInt(n)]
  BY DEF SemOpen
<1>3. \E m \in InitValues : Units' = [Units EXCEPT ![s] = m]
  <2>1. /\ n \in Nat /\ ToInt(n) \in Int
        /\ value' \in [Sems -> Int] /\ value'[s] = ToInt(n)
        /\ \A r \in Sems \ {s} : value'[r] = value[r]
    BY <1>2 DEF ToInt, TypeOK, Ints
  <2>2. Units'[s] \in InitValues
    <3>1. CASE ToInt(n) > 0
      <4>1. ToInt(n) = n
        BY <3>1, <2>1 DEF ToInt
      <4> QED
        BY <1>1, <2>1, <3>1, <4>1 DEF Units
    <3>2. CASE ToInt(n) <= 0
      <4>1. 0 \in InitValues
        BY <2>1, <3>2 DEF UnitsFit, ToInt
      <4> QED
        BY <1>1, <2>1, <3>2, <4>1 DEF Units
    <3> QED
      BY <2>1, <3>1, <3>2
  <2>3. Units' = [Units EXCEPT ![s] = Units'[s]]
    BY <1>1, <2>1 DEF Units
  <2> QED
    BY <2>2, <2>3
<1>4. Waiters' = Waiters /\ Outcome' = Outcome
  BY <1>1 DEF Waiters, Outcome, flagVars
<1> QED
  BY <1>1, <1>3, <1>4, CallerActive DEF Abstract!Open, Abstract!Returns

\* sem_close turns every waiter away when it is entered, and what its loop
\* does is not seen any more but for its return.
LEMMA CloseSeen ==
    ASSUME IInv, NEW t \in Threads, NEW s \in Sems, SemClose(t, s)
    PROVE  Abstract!Close(t, s)
<1> USE SemsAssumption DEF IInv
<1>1. /\ running = t /\ pc[t] = "user" /\ closing = NoSem
      /\ s \in open /\ closing' = s
      /\ UNCHANGED <<flagVars, pc, ret, open, value, blockedThreads>>
  BY DEF SemClose, Calls, Running
<1>2. open' \ {closing'} = (open \ {closing}) \ {s} /\ s \in open \ {closing}
  BY <1>1 DEF TypeOK
<1>3. Units' = [Units EXCEPT ![s] = 0] /\ Waiters' = [Waiters EXCEPT ![s] = <<>>]
  BY <1>1 DEF Units, Waiters
<1>4. Outcome' = [u \in Threads |-> IF u \in Abstract!Range(Waiters[s]) THEN "closed"
                                                                      ELSE Outcome[u]]
  <2>1. \A u \in Range(blockedThreads[s]) : u \in Threads => pc[u] = "block"
    BY DEF Contexts
  <2>2. \A u : u \in Abstract!Range(Waiters[s]) <=> u \in Range(blockedThreads[s])
    BY <1>1 DEF Abstract!Range, Range, Waiters
  <2> QED
    BY <1>1, <2>1, <2>2 DEF Outcome, flagVars
<1> QED
  BY <1>1, <1>2, <1>3, <1>4, CallerActive DEF Abstract!Close

\* A turn of the loop of ~Sem changes nothing that the promise speaks of: the
\* semaphore counts as closed since closing named it.
LEMMA CloseLoopSeen ==
    ASSUME IInv, NEW s \in Sems, SemCloseUnblock(s)
    PROVE  UNCHANGED Abstract!vars
<1> USE SemsAssumption DEF IInv
<1> DEFINE q == blockedThreads[s]
<1>1. /\ closing = s /\ s \in open /\ q # <<>>
      /\ Unblock(s, TRUE)
      /\ UNCHANGED <<pc, ret, open, value, closing>>
  BY DEF SemCloseUnblock, Contexts
<1>2. /\ blockedThreads' = [blockedThreads EXCEPT ![s] = Tail(q)]
      /\ blocked' = [blocked EXCEPT ![Head(q)] = FALSE]
      /\ semaphoreDeleted' = [semaphoreDeleted EXCEPT ![Head(q)] = TRUE]
  BY <1>1, UnblockMoves
<1>3. /\ Head(q) \in Threads /\ Head(q) \in Range(q)
      /\ Range(q) = Range(Tail(q)) \cup {Head(q)}
      /\ Head(q) \notin Range(Tail(q))
  <2>1. q \in Seq(Threads) /\ IsInjective(q)
    BY DEF TypeOK, OnePlace
  <2> QED
    BY <1>1, <2>1, TailQueue
<1>4. blockedThreads'[s] = Tail(q)
      /\ \A r \in Sems \ {s} : blockedThreads'[r] = blockedThreads[r]
  BY <1>2 DEF TypeOK
<1>5. Units' = Units /\ Waiters' = Waiters
  BY <1>1, <1>4 DEF Units, Waiters
<1>6. Outcome' = Outcome
  <2>1. ASSUME NEW u \in Threads PROVE Outcome'[u] = Outcome[u]
    <3>1. CASE u = Head(q)
      <4>1. ~blocked'[u] /\ semaphoreDeleted'[u] /\ u \notin Range(blockedThreads'[s])
        BY <1>2, <1>3, <1>4, <3>1 DEF TypeOK
      <4> QED
        BY <1>1, <1>3, <3>1, <4>1 DEF Outcome
    <3>2. CASE u # Head(q)
      <4>1. /\ blocked'[u] = blocked[u] /\ semaphoreDeleted'[u] = semaphoreDeleted[u]
            /\ u \in Range(blockedThreads'[s]) <=> u \in Range(q)
        BY <1>2, <1>3, <1>4, <3>2 DEF TypeOK
      <4> QED
        BY <1>1, <4>1 DEF Outcome
    <3> QED
      BY <3>1, <3>2
  <2> QED
    BY <2>1 DEF Outcome
<1> QED
  BY <1>1, <1>5, <1>6 DEF Abstract!vars

\* Nor does the end of ~Sem, which for the promise is the return of a call.
LEMMA CloseReturnSeen ==
    ASSUME IInv, NEW s \in Sems, SemCloseDelete(s)
    PROVE  Abstract!OtherCall(running)
<1> USE SemsAssumption DEF IInv
<1>1. /\ closing = s /\ s \in open /\ blockedThreads[s] = <<>>
      /\ running \in Threads /\ pc[running] = "user"
      /\ closing' = NoSem /\ open' = open \ {s}
      /\ value' = [value EXCEPT ![s] = 0]
      /\ ret' = [ret EXCEPT ![running] = 0]
      /\ UNCHANGED <<flagVars, pc, blockedThreads>>
  BY DEF SemCloseDelete, Contexts, Return, TypeOK
<1>2. open' \ {closing'} = open \ {closing} /\ Units' = Units /\ Waiters' = Waiters
  BY <1>1 DEF Units, Waiters, TypeOK
<1>3. Outcome' = Outcome
  <2>1. Range(blockedThreads[closing]) = {}
    BY <1>1 DEF Range
  <2> QED
    BY <1>1, <2>1 DEF Outcome, flagVars
<1> QED
  BY <1>1, <1>2, <1>3, CallerActive DEF Abstract!OtherCall, Abstract!Returns

\* A call on one semaphore leaves the units of the others.
LEMMA UnitsElsewhere ==
    ASSUME UNCHANGED <<open, closing>>, NEW s \in Sems,
           \A r \in Sems \ {s} : value'[r] = value[r]
    PROVE  Units' = [Units EXCEPT ![s] = Units'[s]]
<1>1. \A r \in Sems \ {s} : Units'[r] = Units[r]
  BY DEF Units
<1>2. Units = [r \in Sems |-> Units[r]] /\ Units' = [r \in Sems |-> Units'[r]]
  BY DEF Units
<1> QED
  BY <1>1, <1>2

\* sem_wait takes a unit, or queues up.
LEMMA WaitSeen ==
    ASSUME IInv, NEW t \in Threads, NEW s \in Sems, SemWait(t, s)
    PROVE  Abstract!Wait(t, s)
<1> USE SemsAssumption DEF IInv
<1>1. /\ running = t /\ pc[t] = "user" /\ closing = NoSem
      /\ s \in open \ {closing} /\ value[s] \in Int
      /\ value' = [value EXCEPT ![s] = value[s] - 1]
      /\ UNCHANGED <<semaphoreDeleted, open, closing>>
  BY DEF SemWait, Calls, Running, TypeOK, Ints
<1>2. value'[s] = value[s] - 1 /\ \A r \in Sems \ {s} : value'[r] = value[r]
  BY <1>1 DEF TypeOK
<1>3. CASE /\ value'[s] >= 0 /\ ret' = [ret EXCEPT ![t] = 0]
           /\ UNCHANGED <<pc, blocked, blockedThreads>>
  <2>1. Units[s] = value[s] /\ Units'[s] = value[s] - 1 /\ Units[s] > 0
    BY <1>1, <1>2, <1>3 DEF Units
  <2>2. Units' = [Units EXCEPT ![s] = Units[s] - 1]
    BY <1>1, <1>2, <2>1, UnitsElsewhere
  <2>3. Waiters' = Waiters /\ Outcome' = Outcome
    BY <1>1, <1>3 DEF Waiters, Outcome
  <2> QED
    BY <1>1, <1>3, <2>1, <2>2, <2>3, CallerActive DEF Abstract!Wait, Abstract!Returns
<1>4. CASE /\ value'[s] < 0
           /\ blocked' = [blocked EXCEPT ![t] = TRUE]
           /\ blockedThreads' = [blockedThreads EXCEPT ![s] = Append(blockedThreads[s], t)]
           /\ pc' = [pc EXCEPT ![t] = "block"]
           /\ UNCHANGED ret
  <2>1. Units[s] = 0 /\ Units' = Units
    BY <1>1, <1>2, <1>4 DEF Units
  <2>2. Waiters' = [Waiters EXCEPT ![s] = Append(Waiters[s], t)]
    BY <1>1, <1>4 DEF Waiters, TypeOK
  <2>3. Outcome' = Outcome
    BY <1>1, <1>4 DEF Outcome, TypeOK
  <2> QED
    BY <1>1, <1>4, <2>1, <2>2, <2>3, CallerActive DEF Abstract!Wait
<1> QED
  BY <1>3, <1>4 DEF SemWait, Return, schedVars

\* The rest of sem_wait reports the outcome: by then neither the semaphore nor
\* whoever woke the thread matters any more.
LEMMA WaitReturnSeen ==
    ASSUME IInv, NEW t \in Threads, SemWaitReturn(t)
    PROVE  Abstract!WaitReturns(t)
<1> USE SemsAssumption DEF IInv
<1>1. /\ running = t /\ pc[t] = "block" /\ closing = NoSem
      /\ pc' = [pc EXCEPT ![t] = "user"]
      /\ ret' = [ret EXCEPT ![t] = IF semaphoreDeleted[t] THEN -1 ELSE 0]
      /\ UNCHANGED <<flagVars, semVars>>
  BY DEF SemWaitReturn, Running, Return
<1>2. ~blocked[t]
  BY <1>1 DEF NoneLost, OnePlace, TypeOK
<1>3. Outcome[t] = IF semaphoreDeleted[t] THEN "closed" ELSE "granted"
  BY <1>1, <1>2 DEF Outcome
<1>4. Outcome' = [Outcome EXCEPT ![t] = "none"]
  BY <1>1 DEF Outcome, flagVars, semVars, TypeOK
<1>5. UNCHANGED <<open \ {closing}, Units, Waiters>>
  BY <1>1 DEF Units, Waiters, semVars
<1> QED
  BY <1>1, <1>3, <1>4, <1>5 DEF Abstract!WaitReturns, Abstract!Returns

\* sem_signal hands its unit to the first waiter, or keeps it.  When it finds
\* nobody although the value was negative it has changed nothing.
LEMMA SignalSeen ==
    ASSUME IInv, NEW t \in Threads, NEW s \in Sems, SemSignal(t, s)
    PROVE  Abstract!Signal(t, s) \/ Abstract!OtherCall(t)
<1> USE SemsAssumption DEF IInv
<1> DEFINE q == blockedThreads[s]
<1>1. /\ running = t /\ pc[t] = "user" /\ closing = NoSem
      /\ s \in open \ {closing} /\ value[s] \in Int
      /\ value' = [value EXCEPT ![s] = value[s] + 1]
      /\ UNCHANGED <<pc, open, closing>>
  BY DEF SemSignal, Calls, Running, TypeOK, Ints
<1>2. value'[s] = value[s] + 1 /\ \A r \in Sems \ {s} : value'[r] = value[r]
  BY <1>1 DEF TypeOK
<1>3. q \in Seq(Threads) /\ IsInjective(q) /\ Len(q) \in Nat
  BY DEF TypeOK, OnePlace
\* A waiter is woken.
<1>4. CASE /\ value'[s] <= 0 /\ q # <<>>
           /\ blockedThreads' = [blockedThreads EXCEPT ![s] = Tail(q)]
           /\ blocked' = [blocked EXCEPT ![Head(q)] = FALSE]
           /\ semaphoreDeleted' = [semaphoreDeleted EXCEPT ![Head(q)] = FALSE]
           /\ ret' = [ret EXCEPT ![t] = 0]
  <2>1. Head(q) \in Threads /\ Head(q) \in Range(q) /\ pc[Head(q)] = "block"
    BY <1>3, <1>4, TailQueue DEF Contexts
  <2>2. Units' = Units
    BY <1>1, <1>2, <1>4 DEF Units
  <2>3. Waiters[s] = q /\ Waiters' = [Waiters EXCEPT ![s] = Tail(Waiters[s])]
    BY <1>1, <1>4 DEF Waiters, TypeOK
  <2>4. Outcome' = [Outcome EXCEPT ![Head(q)] = "granted"]
    BY <1>1, <1>4, <2>1 DEF Outcome, TypeOK
  <2> QED
    BY <1>1, <1>4, <2>2, <2>3, <2>4, CallerActive DEF Abstract!Signal, Abstract!Returns
\* The value was negative and nobody waits.
<1>5. CASE /\ value'[s] <= 0 /\ ret' = [ret EXCEPT ![t] = -1]
           /\ UNCHANGED <<blocked, semaphoreDeleted, blockedThreads>>
  <2>1. Units' = Units /\ Waiters' = Waiters /\ Outcome' = Outcome
    BY <1>1, <1>2, <1>5 DEF Units, Waiters, Outcome
  <2> QED
    BY <1>1, <1>5, <2>1, CallerActive DEF Abstract!OtherCall, Abstract!Returns
\* The unit is kept.
<1>6. CASE /\ value'[s] > 0 /\ ret' = [ret EXCEPT ![t] = 0]
           /\ UNCHANGED <<blocked, semaphoreDeleted, blockedThreads>>
  <2>1. Waiters[s] = <<>>
    <3>1. Len(q) = 0
      BY <1>1, <1>2, <1>3, <1>6 DEF SemCount
    <3> QED
      BY <1>1, <1>3, <3>1 DEF Waiters
  <2>2. Units[s] = value[s] /\ Units'[s] = value[s] + 1
    BY <1>1, <1>2, <1>6 DEF Units
  <2>3. Units' = [Units EXCEPT ![s] = Units[s] + 1]
    BY <1>1, <1>2, <2>2, UnitsElsewhere
  <2>4. Waiters' = Waiters /\ Outcome' = Outcome
    BY <1>1, <1>6 DEF Waiters, Outcome
  <2> QED
    BY <1>1, <1>6, <2>1, <2>3, <2>4, CallerActive DEF Abstract!Signal, Abstract!Returns
<1>7. CASE ~(value'[s] > 0)
  <2>1. value'[s] <= 0 /\ Unblock(s, FALSE) /\ ret' = [ret EXCEPT ![t] = IF Wakeable(s) = {} THEN -1 ELSE 0]
    BY <1>1, <1>2, <1>7 DEF SemSignal, Return
  <2> QED
    BY <1>1, <1>4, <1>5, <1>7, <2>1, UnblockMoves
<1>8. CASE value'[s] > 0
  <2>1. /\ ret' = [ret EXCEPT ![t] = 0]
        /\ UNCHANGED <<blocked, semaphoreDeleted, blockedThreads>>
    <3>1. ~(value'[s] <= 0)
      BY <1>1, <1>2, <1>8
    <3> QED
      BY <3>1 DEF SemSignal, Return
  <2> QED
    BY <1>6, <1>8, <2>1
<1> QED
  BY <1>7, <1>8

\* sem_trywait takes a unit only where there is one.
LEMMA TryWaitSeen ==
    ASSUME IInv, NEW t \in Threads, NEW s \in Sems, SemTryWait(t, s)
    PROVE  Abstract!TryWait(t, s)
<1> USE SemsAssumption DEF IInv
<1>1. /\ running = t /\ pc[t] = "user" /\ closing = NoSem
      /\ s \in open \ {closing} /\ value[s] \in Int
      /\ UNCHANGED <<flagVars, pc, open, blockedThreads, closing>>
  BY DEF SemTryWait, Calls, Running, TypeOK, Ints
<1>2. Waiters' = Waiters /\ Outcome' = Outcome
  BY <1>1 DEF Waiters, Outcome, flagVars
<1>3. CASE value[s] = 1 /\ value' = [value EXCEPT ![s] = 0] /\ Return(t, 0)
  <2>1. value'[s] = 0 /\ \A r \in Sems \ {s} : value'[r] = value[r]
    BY <1>1, <1>3 DEF TypeOK
  <2>2. Units[s] = 1 /\ Units'[s] = 0
    BY <1>1, <1>3, <2>1 DEF Units
  <2>3. Units' = [Units EXCEPT ![s] = Units[s] - 1]
    BY <1>1, <2>1, <2>2, UnitsElsewhere
  <2> QED
    BY <1>1, <1>2, <1>3, <2>2, <2>3, CallerActive DEF Abstract!TryWait, Abstract!Returns, Return
<1>4. CASE value[s] # 1 /\ Return(t, 1) /\ UNCHANGED value
  <2>1. Units[s] # 1 /\ Units' = Units
    BY <1>1, <1>4 DEF Units
  <2> QED
    BY <1>1, <1>2, <1>4, <2>1, CallerActive DEF Abstract!TryWait, Abstract!Returns, Return
<1> QED
  BY <1>3, <1>4 DEF SemTryWait

\* Every step of the kernel is one step of the semaphores, or none.
LEMMA StepSeen ==
    IInv /\ UnitsFit /\ [Next]_vars => [Abstract!Next]_Abstract!vars
<1> SUFFICES ASSUME IInv, UnitsFit, [Next]_vars
             PROVE  Abstract!Next \/ UNCHANGED Abstract!vars
  OBVIOUS
<1>1. ASSUME NEW t \in Threads, ThreadStep(t)
      PROVE  Abstract!Next \/ UNCHANGED Abstract!vars
  BY <1>1, ThreadStepSeen DEF Abstract!Next
<1>2. ASSUME NEW t \in Threads, SemStep(t)
      PROVE  Abstract!Next
  BY <1>2, WaitReturnSeen, OpenSeen, CloseSeen, WaitSeen, SignalSeen, TryWaitSeen
     DEF SemStep, Abstract!Next
<1>3. ASSUME NEW s \in Sems, CloseStep(s)
      PROVE  Abstract!Next \/ UNCHANGED Abstract!vars
  <2>1. CASE SemCloseUnblock(s)
    BY <2>1, CloseLoopSeen
  <2>2. CASE SemCloseDelete(s)
    <3>1. running \in Threads
      BY <2>2 DEF IInv, SemCloseDelete, Contexts, TypeOK, SemsAssumption
    <3> QED
      BY <2>2, <3>1, CloseReturnSeen DEF Abstract!Next
  <2> QED
    BY <1>3, <2>1, <2>2 DEF CloseStep
<1>4. CASE OutOfMemory \/ UNCHANGED vars
  <2>1. UNCHANGED <<pc, ret, flagVars, semVars>>
    BY <1>4 DEF OutOfMemory, vars
  <2> QED
    BY <2>1, NothingSeen DEF Abstract!vars, AbstractVars, flagVars
<1> QED
  BY <1>1, <1>2, <1>3, <1>4 DEF Next

\* The semaphores of the kernel keep what the API promises, whatever the
\* number of threads, semaphores and units.
THEOREM KernelImplementsSemaphores ==
    ASSUME UnitsFit PROVE Spec => ImplementsSemaphores
<1>1. IInv /\ [Next]_vars => [Abstract!Next]_Abstract!vars
  BY StepSeen
<1> QED
  BY <1>1, Invariance, InitAbstract, PTL DEF Spec, ImplementsSemaphores, Abstract!Spec

-----------------------------------------------------------------------------
(* First come, first served.                                               *)

\* What a step does to a queue that nobody overtakes in: it stays, it loses its
\* head, it gains somebody at its end, or both.
Served(q, qq) ==
    \/ qq = q
    \/ q # <<>> /\ qq = Tail(q)
    \/ \E t \in Threads : t \notin Range(q) /\ qq \in {Append(q, t), Tail(Append(q, t))}

\* Whoever is in the queue before and after keeps those behind him behind him.
LEMMA ServedFifo ==
    ASSUME NEW q \in Seq(Threads), NEW qq, Served(q, qq)
    PROVE  Fifo(q, qq)
<1>1. CASE qq = q
  BY <1>1 DEF Fifo
<1>2. CASE q # <<>> /\ qq = Tail(q)
  <2>1. \A k \in DOMAIN qq : k \in Int /\ k + 1 \in DOMAIN q /\ qq[k] = q[k + 1]
    BY <1>2
  <2> QED
    BY <2>1 DEF Fifo
<1>3. ASSUME NEW t \in Threads, t \notin Range(q), qq \in {Append(q, t), Tail(Append(q, t))}
      PROVE  Fifo(q, qq)
  <2> DEFINE long == Append(q, t)
  <2>1. /\ DOMAIN long = 1 .. Len(q) + 1 /\ DOMAIN q = 1 .. Len(q) /\ Len(q) \in Nat
        /\ long[Len(q) + 1] = t
        /\ \A i \in 1 .. Len(q) : long[i] = q[i]
        /\ DOMAIN Tail(long) = 1 .. Len(q)
        /\ \A i \in 1 .. Len(q) : Tail(long)[i] = long[i + 1]
    OBVIOUS
  <2>2. \A i \in DOMAIN long : long[i] \in Range(q) => i \in DOMAIN q /\ long[i] = q[i]
    BY <1>3, <2>1
  <2> HIDE DEF long
  <2>3. CASE qq = long
    <3>1. \A k, l \in DOMAIN long : k < l /\ l \in DOMAIN q => k \in DOMAIN q
      BY <2>1
    <3> QED
      BY <2>1, <2>2, <2>3, <3>1 DEF Fifo
  <2>4. CASE qq = Tail(long)
    <3>1. \A k \in DOMAIN qq : /\ k \in Int /\ k + 1 \in DOMAIN long
                               /\ qq[k] = long[k + 1]
      BY <2>1, <2>4
    <3>2. \A k, l \in DOMAIN qq : k < l /\ l + 1 \in DOMAIN q => k + 1 \in DOMAIN q
      BY <2>1, <2>4
    <3>3. ASSUME NEW k \in DOMAIN qq, NEW l \in DOMAIN qq, k < l, qq[l] \in Range(q)
          PROVE  \E i, j \in DOMAIN q : i < j /\ q[i] = qq[k] /\ q[j] = qq[l]
      <4>1. l + 1 \in DOMAIN q /\ q[l + 1] = qq[l]
        BY <2>2, <3>1, <3>3
      <4>2. k + 1 \in DOMAIN q /\ q[k + 1] = qq[k]
        BY <2>1, <3>1, <3>2, <3>3, <4>1
      <4> QED
        BY <3>1, <3>3, <4>1, <4>2
    <3> QED
      BY <3>3 DEF Fifo
  <2> QED
    BY <1>3, <2>3, <2>4 DEF long
<1> QED
  BY <1>1, <1>2, <1>3 DEF Served

\* TCB::dispatch by somebody who is in no queue.
LEMMA DispatchServed ==
    ASSUME OnePlace, running \in Threads, Dispatch
    PROVE  Served(readyThreadQueue, readyThreadQueue')
<1>1. running \notin Range(readyThreadQueue)
  BY DEF OnePlace
<1> QED
  BY <1>1 DEF Dispatch, Served

\* Sem::unblock.
LEMMA UnblockServed ==
    ASSUME IInv, NEW s \in open, NEW deleted \in BOOLEAN, Unblock(s, deleted)
    PROVE  /\ Served(readyThreadQueue, readyThreadQueue')
           /\ \A r \in Sems : Served(blockedThreads[r], blockedThreads'[r])
<1> DEFINE q == blockedThreads[s]
<1>1. q \in Seq(Threads) /\ IsInjective(q) /\ blockedThreads \in [Sems -> Seq(Threads)]
  BY DEF IInv, TypeOK, OnePlace
<1>2. CASE UNCHANGED <<readyThreadQueue, blockedThreads>>
  BY <1>2 DEF Served
<1>3. CASE /\ q # <<>>
           /\ blockedThreads' = [blockedThreads EXCEPT ![s] = Tail(q)]
           /\ readyThreadQueue' = Append(readyThreadQueue, Head(q))
  <2>1. Head(q) \in Threads /\ Head(q) \in Range(q)
    BY <1>1, <1>3, TailQueue
  <2>2. Head(q) \notin Range(readyThreadQueue)
    BY <2>1 DEF IInv, TypeOK, OnePlace
  <2> QED
    BY <1>1, <1>3, <2>1, <2>2 DEF Served
<1> QED
  BY <1>2, <1>3, UnblockMoves DEF IInv

\* Every step serves every queue in its order.
LEMMA StepServes ==
    ASSUME IInv, [Next]_vars
    PROVE  /\ Served(readyThreadQueue, readyThreadQueue')
           /\ \A s \in Sems : Served(blockedThreads[s], blockedThreads'[s])
<1> DEFINE Goal == /\ Served(readyThreadQueue, readyThreadQueue')
                   /\ \A s \in Sems : Served(blockedThreads[s], blockedThreads'[s])
<1> USE SemsAssumption DEF IInv
<1>1. UNCHANGED <<readyThreadQueue, blockedThreads>> => Goal
  BY DEF Served
<1>2. ASSUME NEW t \in Threads,
             \E u \in Threads : \/ ThreadCreate(t, u) \/ ThreadCreateWithoutStart(t, u)
                               \/ ThreadStart(t, u)
      PROVE  Goal
  <2>1. PICK u \in Threads : \/ ThreadCreate(t, u) \/ ThreadCreateWithoutStart(t, u)
                            \/ ThreadStart(t, u)
    BY <1>2
  <2>2. /\ u \notin Range(readyThreadQueue) /\ UNCHANGED blockedThreads
        /\ readyThreadQueue' \in {readyThreadQueue, Append(readyThreadQueue, u)}
    BY <2>1 DEF ThreadCreate, ThreadCreateWithoutStart, ThreadStart, Unstarted, Put,
                Contexts, schedVars, semVars
  <2> QED
    BY <2>2 DEF Served
<1>3. ASSUME NEW t \in Threads,
             \/ ThreadWrapper(t) \/ BodyReturn(t) \/ NullCall(t) \/ SemWaitReturn(t)
             \/ \E s \in Sems : SemOpen(t, s) \/ SemClose(t, s) \/ SemTryWait(t, s)
      PROVE  Goal
  BY <1>1, <1>3 DEF ThreadWrapper, BodyReturn, NullCall, SemWaitReturn, SemOpen, SemClose,
                    SemTryWait, schedVars, semVars
<1>4. ASSUME NEW t \in Threads, ThreadDispatch(t) \/ ThreadExit(t) \/ WrapperYield(t)
      PROVE  Goal
  <2>1. running \in Threads /\ Dispatch /\ UNCHANGED blockedThreads
    BY <1>4 DEF ThreadDispatch, ThreadExit, WrapperYield, Calls, Running, semVars
  <2> QED
    BY <2>1, DispatchServed DEF Served
<1>5. ASSUME NEW t \in Threads, NEW s \in Sems, SemWait(t, s)
      PROVE  Goal
  <2>1. running = t
    BY <1>5 DEF SemWait, Calls, Running
  <2>2. CASE /\ Dispatch
             /\ blockedThreads' = [blockedThreads EXCEPT ![s] = Append(blockedThreads[s], t)]
    <3>1. t \notin Range(blockedThreads[s])
      BY <2>1 DEF OnePlace
    <3>2. \A r \in Sems : Served(blockedThreads[r], blockedThreads'[r])
      BY <2>2, <3>1 DEF Served, TypeOK
    <3> QED
      BY <2>1, <2>2, <3>2, DispatchServed
  <2> QED
    BY <1>1, <1>5, <2>2 DEF SemWait, schedVars
<1>6. ASSUME NEW s \in Sems, (\E t \in Threads : SemSignal(t, s)) \/ SemCloseUnblock(s)
      PROVE  Goal
  <2>1. \/ UNCHANGED <<readyThreadQueue, blockedThreads>>
        \/ s \in open /\ \E deleted \in BOOLEAN : Unblock(s, deleted)
    BY <1>6 DEF SemSignal, SemCloseUnblock, Contexts
  <2> QED
    BY <1>1, <2>1, UnblockServed
<1>7. CASE (\E s \in Sems : SemCloseDelete(s)) \/ OutOfMemory \/ UNCHANGED vars
  BY <1>1, <1>7 DEF SemCloseDelete, OutOfMemory, vars, schedVars, semVars
<1> QED
  BY <1>2, <1>3, <1>4, <1>5, <1>6, <1>7 DEF Next, ThreadStep, SemStep, CloseStep

\* Nobody overtakes in the ready queue, nor among the waiters of a semaphore,
\* however many there are.
THEOREM FirstComeFirstServed == Spec => NoOvertaking
<1>1. ASSUME IInv, [Next]_vars
      PROVE  /\ Fifo(readyThreadQueue, readyThreadQueue')
             /\ \A s \in Sems : Fifo(blockedThreads[s], blockedThreads'[s])
  <2>1. readyThreadQueue \in Seq(Threads) /\ \A s \in Sems : blockedThreads[s] \in Seq(Threads)
    BY <1>1 DEF IInv, TypeOK
  <2> QED
    BY <1>1, <2>1, StepServes, ServedFifo
<1>2. IInv /\ [Next]_vars =>
         [/\ Fifo(readyThreadQueue, readyThreadQueue')
          /\ \A s \in Sems : Fifo(blockedThreads[s], blockedThreads'[s])]_vars
  BY <1>1
<1> QED
  BY <1>2, Invariance, PTL DEF Spec, NoOvertaking
=============================================================================
