---------------------------- MODULE KernelTimer -----------------------------
(***************************************************************************)
(* Kernel with the machine timer.  Machine mode turns a tick into a        *)
(* pending supervisor software interrupt (SSIP); the hart takes it as soon *)
(* as a thread is in its own code, since a handler runs masked, and the    *)
(* handler acknowledges it.  Waking the sleepers, counting the slice and   *)
(* dispatching are commented out in the source.  The handler then returns  *)
(* one instruction past the interrupted one (r_sepc() + 4, as after an     *)
(* ecall); what a program loses by that is below the level of this module, *)
(* which is about who has the hart.                                        *)
(***************************************************************************)
EXTENDS Kernel

VARIABLE ssip      \* sip.SSIP: a tick waits to be taken

timerVars == <<vars, ssip>>

TimerInit == Init /\ ssip = FALSE

Tick == ~ssip /\ ssip' = TRUE /\ UNCHANGED vars

TimerTrap ==
    /\ ssip
    /\ \E t \in Threads : Running(t, "user") \/ Running(t, "exit")
    /\ ssip' = FALSE
    /\ UNCHANGED vars

TimerNext == (Next /\ UNCHANGED ssip) \/ Tick \/ TimerTrap

\* The timer ticks, its interrupts are taken, and the hart goes on with what
\* it has begun.  What the threads do is up to them: they need not yield.
TimerSpec ==
    /\ TimerInit /\ [][TimerNext]_timerVars
    /\ WF_timerVars(Tick) /\ WF_timerVars(TimerTrap)
    /\ \A t \in Threads :
          WF_timerVars(/\ ThreadWrapper(t) \/ WrapperYield(t) \/ SemWaitReturn(t)
                       /\ UNCHANGED ssip)
    /\ \A s \in Sems : WF_timerVars(CloseStep(s) /\ UNCHANGED ssip)

\* README.md: "Time Sharing: Implements preemption using timer and keyboard
\* interrupts".  A ready thread gets the hart while the timer ticks on.
TimeSharing ==
    \A t \in Threads :
       t \in Range(readyThreadQueue) ~> running = t \/ halt # "no"
=============================================================================
