-------------------------- MODULE KernelSemaphores --------------------------
(***************************************************************************)
(* The kernel's semaphores implement Semaphores.  Programs see the value   *)
(* only where it is not negative; a close in its loop counts as done, and  *)
(* those still in its queue as turned away: the loop cannot be interrupted *)
(* and ends before any of them runs.                                       *)
(***************************************************************************)
EXTENDS Kernel

Units == [s \in Sems |-> IF s \in open \ {closing} /\ value[s] > 0 THEN value[s] ELSE 0]

Waiters == [s \in Sems |-> IF s = closing THEN <<>> ELSE blockedThreads[s]]

Outcome ==
    [t \in Threads |->
       IF pc[t] # "block" THEN "none"
       ELSE IF closing \in Sems /\ t \in Range(blockedThreads[closing]) THEN "closed"
       ELSE IF blocked[t] THEN "none"
       ELSE IF semaphoreDeleted[t] THEN "closed" ELSE "granted"]

Abstract == INSTANCE Semaphores WITH
    open <- open \ {closing}, units <- Units, waiters <- Waiters,
    outcome <- Outcome, result <- ret

\* Every step of the kernel is a step of the semaphores the API promises, or
\* none: FIFO hand-over without lost or stolen units, and -1 from sem_wait
\* exactly for the waiters of a closed semaphore.
ImplementsSemaphores == Abstract!Spec
=============================================================================
