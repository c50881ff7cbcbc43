-------------------------------- MODULE Boot --------------------------------
(***************************************************************************)
(* The program the kernel is linked with (src/src/main.cpp).  main(), after*)
(* initMainThread, opens a semaphore, creates a thread for userMain, waits *)
(* and shuts the emulator down; the thread runs userMain, signals and      *)
(* exits.  userMain itself is any program over Kernel that leaves main's   *)
(* semaphore alone, with the threads it creates.                           *)
(***************************************************************************)
EXTENDS Kernel

CONSTANTS
    UserThread,   \* the thread of userMainWrapper
    MainSem,      \* `sem` of main()
    SemInit       \* the value it opens with: 1 for `Semaphore sem;`, 0 for the
                  \* `Semaphore sem(0);` of the version main() has in comments

ASSUME BootAssumption ==
    UserThread \in Threads \ {Main} /\ MainSem \in Sems /\ SemInit \in InitValues

VARIABLES
    mainAt,       \* what main() does next, "off" when the emulator is shut down,
                  \* "returned" when main() has returned without that
    wrapperAt     \* what userMainWrapper does next

bootVars == <<vars, mainAt, wrapperAt>>

BootInit == Init /\ mainAt = "open" /\ wrapperAt = "userMain"

MainGoes(from, to) == mainAt = from /\ mainAt' = to /\ UNCHANGED wrapperAt

\* Semaphore sem;
MainOpen ==
    /\ MainGoes("open", "create")
    /\ SemOpen(Main, MainSem) /\ value'[MainSem] = ToInt(SemInit)

MainCreate == MainGoes("create", "wait") /\ ThreadCreate(Main, UserThread)

\* thread_create finds no room: main() says so and returns, which closes `sem`
\* and leaves the hart to whoever called main(), with no other thread.
MainCreateFails == MainGoes("create", "failed") /\ NullCall(Main)
MainReturns == MainGoes("failed", "returned") /\ SemClose(Main, MainSem)

\* sem.wait() is forgotten.
MainWaitBugNone == MainGoes("wait", "waited") /\ Calls(Main) /\ UNCHANGED vars

MainWait == MainGoes("wait", "waited") /\ SemWait(Main, MainSem)

\* main() is dispatched again and leaves sem.wait().
MainResumes == SemWaitReturn(Main) /\ UNCHANGED <<mainAt, wrapperAt>>

\* "Mainfinished", and Riscv::shutDownEmulator.
MainShutDown == MainGoes("waited", "off") /\ Calls(Main) /\ UNCHANGED vars

\* userMain, or a thread it made, has its turn.
UserTurn(t) ==
    /\ mainAt # "off" /\ t # Main
    /\ t = UserThread => wrapperAt = "userMain"
    /\ UNCHANGED <<mainAt, wrapperAt>>

SparesMainSem ==
    /\ value'[MainSem] = value[MainSem] /\ (MainSem \in open <=> MainSem \in open')
    /\ closing' # MainSem

\* A step of theirs; calls of theirs that change nothing but a0 are left out.
\* The body of UserThread is userMainWrapper, which ends in thread_exit and
\* never returns to threadWrapper (keeping the hart).
UserStep(t) ==
    /\ UserTurn(t)
    /\ (ThreadStep(t) /\ ~NullCall(t)) \/ SemStep(t)
    /\ t = UserThread => ~(pc'[t] = "exit" /\ running' = t)
    /\ SparesMainSem

\* The loop of Sem::close, for userMain's threads and for main().
GoOnClosing(s) == mainAt # "off" /\ CloseStep(s) /\ UNCHANGED <<mainAt, wrapperAt>>

\* userMain returns.
UserMainReturns ==
    /\ Calls(UserThread) /\ wrapperAt = "userMain" /\ wrapperAt' = "signal"
    /\ UNCHANGED <<vars, mainAt>>

\* The signal is left to a line after thread_exit().
WrapperSignalBugLate ==
    /\ wrapperAt = "signal" /\ wrapperAt' = "exit"
    /\ Calls(UserThread) /\ UNCHANGED <<vars, mainAt>>

WrapperSignal ==
    /\ wrapperAt = "signal" /\ wrapperAt' = "exit"
    /\ SemSignal(UserThread, MainSem) /\ UNCHANGED mainAt

WrapperExit ==
    /\ wrapperAt = "exit" /\ wrapperAt' = "gone"
    /\ ThreadExit(UserThread) /\ UNCHANGED mainAt

BootNext ==
    \/ MainOpen \/ MainCreate \/ MainCreateFails \/ MainReturns
    \/ MainWait \/ MainResumes \/ MainShutDown
    \/ \E t \in Threads : UserStep(t)
    \/ \E s \in Sems : GoOnClosing(s)
    \/ UserMainReturns \/ WrapperSignal \/ WrapperExit

BootSpec == BootInit /\ [][BootNext]_bootVars

\* main() and the wrapper go on when they can, and so does the kernel with what
\* it has begun; userMain and its threads call thread_dispatch again and again
\* (nothing else takes the hart from them: the timer handler does not dispatch).
BootFairness ==
    /\ WF_bootVars(MainOpen \/ MainCreate \/ MainCreateFails \/ MainReturns
                      \/ MainWait \/ MainResumes \/ MainShutDown)
    /\ WF_bootVars(WrapperSignal \/ WrapperExit)
    /\ \A t \in Threads :
          /\ WF_bootVars(UserTurn(t) /\ (\/ ThreadWrapper(t) \/ WrapperYield(t)
                                         \/ SemWaitReturn(t)))
          /\ SF_bootVars(UserTurn(t) /\ ThreadDispatch(t))
    /\ \A s \in Sems : WF_bootVars(GoOnClosing(s))

BootLiveSpec == BootSpec /\ BootFairness

\* The emulator is shut down only after userMain is over (sem.wait() in main()
\* against the signal of userMainWrapper), whatever userMain's threads do.
ShutDownLast == mainAt = "off" => wrapperAt \in {"exit", "gone"}

\* Once userMain has returned, main() is woken and shuts the emulator down,
\* although the thread that signals is itself about to go.
UserMainEnds == wrapperAt = "signal" ~> mainAt = "off" \/ halt # "no"

\* A ready thread is eventually dispatched, while the hart goes on.
ReadyRuns ==
    \A t \in Threads :
       t \in Range(readyThreadQueue) ~> running = t \/ halt # "no" \/ mainAt = "off"

\* A waiter is woken if its semaphore is signalled again and again, however
\* many others wait and come back.
WaiterWoken ==
    \A s \in Sems :
       ([]<><<\E u \in Threads : SemSignal(u, s)>>_bootVars)
          => \A t \in Threads : blocked[t] /\ t \in Range(blockedThreads[s])
                                   ~> ~blocked[t]

\* README.md: "The kernel initializes memory and starts executing the
\* userMain() function".  The emulator is not shut down before it has.
UserMainStarts == mainAt = "off" => pc[UserThread] \notin {"none", "start"}
=============================================================================
