----------------------------- MODULE BootProofs -----------------------------
(***************************************************************************)
(* main() and userMain are clients of the kernel, so that all it promises  *)
(* holds of them; and with `Semaphore sem(0)` main() does not shut the     *)
(* emulator down under userMain, however many threads userMain makes.      *)
(***************************************************************************)
EXTENDS Boot, KernelProofs

\* While userMain is not over, main() has not passed its wait: the semaphore
\* has no unit, and once main() has called wait, main is in its queue.
Waiting ==
    /\ mainAt # "off"
    /\ mainAt \in {"create", "wait"} => MainSem \in open /\ value[MainSem] = 0
    /\ mainAt = "waited" => Main \in Range(blockedThreads[MainSem])

BInv ==
    /\ IInv
    /\ wrapperAt \in {"userMain", "signal", "exit", "gone"}
    /\ closing = MainSem => mainAt = "returned"
    /\ wrapperAt \in {"userMain", "signal"} => Waiting

-----------------------------------------------------------------------------

\* The program takes no step but system calls.
LEMMA BootStepsAreCalls == [BootNext]_bootVars => [Next]_vars
<1> SUFFICES ASSUME [BootNext]_bootVars PROVE [Next]_vars
  OBVIOUS
<1> USE BootAssumption, ThreadsAssumption
<1>1. CASE \/ MainOpen \/ MainCreate \/ MainCreateFails \/ MainReturns
           \/ MainWait \/ MainResumes \/ MainShutDown
  BY <1>1 DEF MainOpen, MainCreate, MainCreateFails, MainReturns, MainWait, MainResumes, MainShutDown,
              Next, ThreadStep, SemStep
<1>2. ASSUME NEW t \in Threads, UserStep(t) PROVE Next
  BY <1>2 DEF UserStep, Next
<1>3. ASSUME NEW s \in Sems, GoOnClosing(s) PROVE Next
  BY <1>3 DEF GoOnClosing, Next
<1>4. CASE UserMainReturns \/ WrapperSignal \/ WrapperExit
  BY <1>4 DEF UserMainReturns, WrapperSignal, WrapperExit, Next, ThreadStep, SemStep
<1>5. CASE UNCHANGED bootVars
  BY <1>5 DEF bootVars
<1> QED
  BY <1>1, <1>2, <1>3, <1>4, <1>5 DEF BootNext

\* What a step of userMain's threads leaves of main's semaphore.
LEMMA SemSpared ==
    ASSUME IInv, NEW t \in Threads, UserStep(t)
    PROVE  /\ value'[MainSem] = value[MainSem]
           /\ MainSem \in open => MainSem \in open'
           /\ closing' # MainSem
           /\ blockedThreads'[MainSem] = blockedThreads[MainSem]
           /\ mainAt' = mainAt /\ wrapperAt' = wrapperAt
<1>1. /\ value'[MainSem] = value[MainSem] /\ (MainSem \in open => MainSem \in open')
      /\ closing' # MainSem /\ mainAt' = mainAt /\ wrapperAt' = wrapperAt
      /\ ThreadStep(t) \/ SemStep(t)
  BY DEF UserStep, UserTurn, SparesMainSem
<1>2. /\ MainSem \in Sems /\ value \in [Sems -> Ints]
      /\ blockedThreads \in [Sems -> Seq(Threads)]
      /\ Ints \subseteq Int
  BY BootAssumption, IntAssumption DEF IInv, TypeOK, Ints
<1>3. ASSUME ThreadStep(t) PROVE blockedThreads' = blockedThreads
  BY <1>3 DEF ThreadStep, ThreadCreate, ThreadCreateWithoutStart, ThreadStart,
              ThreadWrapper, BodyReturn, WrapperYield, ThreadExit, ThreadDispatch,
              NullCall, semVars
<1>4. ASSUME SemStep(t) PROVE blockedThreads'[MainSem] = blockedThreads[MainSem]
  <2>1. ASSUME SemWaitReturn(t) PROVE blockedThreads' = blockedThreads
    BY <2>1 DEF SemWaitReturn, semVars
  <2>2. ASSUME NEW s \in Sems, SemOpen(t, s) \/ SemClose(t, s) \/ SemTryWait(t, s)
        PROVE  blockedThreads' = blockedThreads
    BY <2>2 DEF SemOpen, SemClose, SemTryWait
  <2>3. ASSUME NEW s \in Sems, SemWait(t, s)
        PROVE  blockedThreads'[MainSem] = blockedThreads[MainSem]
    <3>1. value' = [value EXCEPT ![s] = value[s] - 1] /\ value[s] \in Int
      BY <1>2, <2>3 DEF SemWait
    <3>2. s # MainSem
      <4> SUFFICES ASSUME s = MainSem PROVE FALSE
        OBVIOUS
      <4>1. value'[s] = value[s] - 1
        BY <1>2, <3>1
      <4> QED
        BY <1>1, <3>1, <4>1
    <3> QED
      BY <1>2, <2>3, <3>2 DEF SemWait
  <2>4. ASSUME NEW s \in Sems, SemSignal(t, s)
        PROVE  blockedThreads'[MainSem] = blockedThreads[MainSem]
    <3>1. value' = [value EXCEPT ![s] = value[s] + 1] /\ value[s] \in Int
      BY <1>2, <2>4 DEF SemSignal
    <3>2. s # MainSem
      <4> SUFFICES ASSUME s = MainSem PROVE FALSE
        OBVIOUS
      <4>1. value'[s] = value[s] + 1
        BY <1>2, <3>1
      <4> QED
        BY <1>1, <3>1, <4>1
    <3> QED
      BY <1>2, <2>4, <3>2 DEF SemSignal, Unblock
  <2> QED
    BY <1>4, <2>1, <2>2, <2>3, <2>4 DEF SemStep
<1> QED
  BY <1>1, <1>3, <1>4

\* Nothing is open, and nobody waits.
LEMMA BootInitInv == BootInit => BInv
<1> SUFFICES ASSUME BootInit PROVE BInv
  OBVIOUS
<1>1. IInv
  BY InitInv DEF BootInit
<1> QED
  BY <1>1, BootAssumption, SemsAssumption DEF BootInit, Init, BInv, Waiting

\* No step lets main() past its wait before userMain is over.
LEMMA BootStepInv == ASSUME SemInit = 0 PROVE BInv /\ [BootNext]_bootVars => BInv'
<1> SUFFICES ASSUME BInv, [BootNext]_bootVars PROVE BInv'
  OBVIOUS
<1>1. IInv /\ IInv'
  BY BootStepsAreCalls, StepInv DEF BInv
<1>2. /\ MainSem \in Sems /\ Main \in Threads /\ value \in [Sems -> Ints]
      /\ blockedThreads \in [Sems -> Seq(Threads)]
      /\ MainSem # NoSem
  BY <1>1, BootAssumption, ThreadsAssumption, SemsAssumption DEF IInv, TypeOK
<1>3. CASE MainOpen
  <2>1. value'[MainSem] = 0
    BY <1>3, IntAssumption DEF MainOpen, ToInt
  <2>2. /\ MainSem \in open' /\ closing' = closing /\ wrapperAt' = wrapperAt
        /\ mainAt = "open" /\ mainAt' = "create"
    BY <1>3 DEF MainOpen, MainGoes, SemOpen
  <2> QED
    BY <1>1, <2>1, <2>2 DEF BInv, Waiting
<1>4. CASE MainCreate
  BY <1>1, <1>4 DEF MainCreate, MainGoes, ThreadCreate, semVars, BInv, Waiting
<1>5. CASE MainCreateFails
  BY <1>1, <1>5 DEF MainCreateFails, MainGoes, NullCall, semVars, BInv, Waiting
<1>6. CASE MainReturns
  BY <1>1, <1>6 DEF MainReturns, MainGoes, SemClose, BInv, Waiting
<1>7. CASE MainWait
  <2>1. /\ closing' = closing /\ mainAt = "wait" /\ mainAt' = "waited" /\ wrapperAt' = wrapperAt
    BY <1>7 DEF MainWait, MainGoes, SemWait
  <2>2. value[MainSem] = 0 => Main \in Range(blockedThreads'[MainSem])
    <3> SUFFICES ASSUME value[MainSem] = 0 PROVE Main \in Range(blockedThreads'[MainSem])
      OBVIOUS
    <3>1. value'[MainSem] = -1
      BY <1>2, <1>7 DEF MainWait, SemWait
    <3>2. blockedThreads' = [blockedThreads EXCEPT ![MainSem] = Append(@, Main)]
      BY <1>7, <3>1 DEF MainWait, SemWait
    <3> QED
      BY <1>2, <3>2, AppendQueue
  <2> QED
    BY <1>1, <2>1, <2>2 DEF BInv, Waiting
<1>8. CASE MainResumes
  BY <1>1, <1>8 DEF MainResumes, SemWaitReturn, semVars, BInv, Waiting
<1>9. CASE MainShutDown
  <2>1. /\ mainAt = "waited" /\ running = Main /\ UNCHANGED <<vars, wrapperAt>>
    BY <1>9 DEF MainShutDown, MainGoes, Calls, Running
  <2>2. Main \notin Range(blockedThreads[MainSem])
    BY <1>1, <1>2, <2>1 DEF IInv, OnePlace
  <2> QED
    BY <1>1, <2>1, <2>2 DEF BInv, Waiting, vars, semVars
<1>10. ASSUME NEW t \in Threads, UserStep(t) PROVE BInv'
  BY <1>1, <1>10, SemSpared DEF BInv, Waiting
<1>11. ASSUME NEW s \in Sems, GoOnClosing(s) PROVE BInv'
  <2>1. CASE s = MainSem
    <3>1. /\ closing = MainSem /\ closing' \in {MainSem, NoSem}
          /\ mainAt' = mainAt /\ wrapperAt' = wrapperAt
      BY <1>11, <2>1 DEF GoOnClosing, CloseStep, SemCloseUnblock, SemCloseDelete
    <3>2. mainAt = "returned"
      BY <3>1 DEF BInv
    <3> QED
      BY <1>1, <1>2, <3>1, <3>2 DEF BInv, Waiting
  <2>2. CASE s # MainSem
    <3>1. /\ s # MainSem /\ mainAt' = mainAt /\ wrapperAt' = wrapperAt /\ value \in [Sems -> Ints]
          /\ SemCloseUnblock(s) \/ SemCloseDelete(s)
      BY <1>2, <1>11, <2>2 DEF GoOnClosing, CloseStep, SemCloseUnblock, SemCloseDelete, BInv
    <3>2. /\ value'[MainSem] = value[MainSem]
          /\ MainSem \in open => MainSem \in open'
          /\ closing' # MainSem
          /\ blockedThreads'[MainSem] = blockedThreads[MainSem]
      BY <1>2, <3>1 DEF SemCloseUnblock, SemCloseDelete, Unblock, BInv
    <3> QED
      BY <1>1, <3>1, <3>2 DEF BInv, Waiting
  <2> QED
    BY <2>1, <2>2
<1>12. CASE UserMainReturns
  BY <1>1, <1>12 DEF UserMainReturns, vars, semVars, BInv, Waiting
<1>13. CASE WrapperSignal \/ WrapperExit
  BY <1>1, <1>13 DEF WrapperSignal, WrapperExit, SemSignal, ThreadExit, semVars, BInv
<1>14. CASE UNCHANGED bootVars
  BY <1>1, <1>14 DEF bootVars, vars, semVars, BInv, Waiting
<1> QED
  BY <1>3, <1>4, <1>5, <1>6, <1>7, <1>8, <1>9, <1>10, <1>11, <1>12, <1>13, <1>14
     DEF BootNext

-----------------------------------------------------------------------------
(* The theorems.                                                           *)

\* The program is one of the kernel's clients, whatever the semaphore opens
\* with: KernelProofs' theorems are about it too.
THEOREM BootIsAClient == BootSpec => Spec
  BY BootStepsAreCalls, PTL DEF BootSpec, BootInit, Spec

\* With `Semaphore sem(0)` the emulator is shut down only when userMain is
\* over, for any number of threads and semaphores that userMain makes.
THEOREM UserMainFirst == ASSUME SemInit = 0 PROVE BootSpec => []ShutDownLast
<1>1. BInv => ShutDownLast
  BY DEF BInv, Waiting, ShutDownLast
<1> QED
  BY <1>1, BootInitInv, BootStepInv, PTL DEF BootSpec
=============================================================================
