----------------------------- MODULE Semaphores -----------------------------
(***************************************************************************)
(* What the semaphore calls of the API (h/syscall_c.h) promise a program,  *)
(* with no kernel in sight: no hart, no ready queue, no flags and no value *)
(* below zero.  A wait takes a unit or queues up; a signal hands its unit  *)
(* to the thread that queued first, and nobody can snatch it; a close      *)
(* turns every waiter away at once; a wait returns 0 exactly when it got a *)
(* unit and -1 when its semaphore was closed under it.                     *)
(*                                                                         *)
(* One thing is as weak as the code: a trywait may fail on more than one   *)
(* unit, but never takes a unit there is not.                              *)
(***************************************************************************)
EXTENDS Integers, Sequences, Functions

CONSTANTS Threads, Sems, InitValues

VARIABLES
    open,       \* the semaphores that exist
    units,      \* how many units each has to give
    waiters,    \* who waits on each, first come first
    outcome,    \* of a wait that is decided and has not returned
    result      \* what the last call of each thread returned

vars == <<open, units, waiters, outcome, result>>

Init ==
    /\ open = {}
    /\ units = [s \in Sems |-> 0]
    /\ waiters = [s \in Sems |-> <<>>]
    /\ outcome = [t \in Threads |-> "none"]
    /\ result = [t \in Threads |-> 0]

\* t is in no wait.
Active(t) ==
    outcome[t] = "none" /\ \A s \in Sems : t \notin Range(waiters[s])

Returns(t, code) == result' = [result EXCEPT ![t] = code]

Open(t, s) ==
    /\ Active(t) /\ s \notin open
    /\ open' = open \cup {s}
    /\ \E n \in InitValues : units' = [units EXCEPT ![s] = n]
    /\ Returns(t, 0)
    /\ UNCHANGED <<waiters, outcome>>

\* Every waiter is turned away in one step.
Close(t, s) ==
    /\ Active(t) /\ s \in open
    /\ open' = open \ {s}
    /\ units' = [units EXCEPT ![s] = 0]
    /\ outcome' = [u \in Threads |-> IF u \in Range(waiters[s]) THEN "closed"
                                                                ELSE outcome[u]]
    /\ waiters' = [waiters EXCEPT ![s] = <<>>]
    /\ UNCHANGED result

Wait(t, s) ==
    /\ Active(t) /\ s \in open
    /\ \/ /\ units[s] > 0
          /\ units' = [units EXCEPT ![s] = @ - 1]
          /\ Returns(t, 0)
          /\ UNCHANGED waiters
       \/ /\ units[s] = 0
          /\ waiters' = [waiters EXCEPT ![s] = Append(@, t)]
          /\ UNCHANGED <<units, result>>
    /\ UNCHANGED <<open, outcome>>

WaitReturns(t) ==
    /\ outcome[t] # "none"
    /\ Returns(t, IF outcome[t] = "granted" THEN 0 ELSE -1)
    /\ outcome' = [outcome EXCEPT ![t] = "none"]
    /\ UNCHANGED <<open, units, waiters>>

\* The unit goes to the first waiter, or is kept.
Signal(t, s) ==
    /\ Active(t) /\ s \in open
    /\ \/ /\ waiters[s] # <<>>
          /\ waiters' = [waiters EXCEPT ![s] = Tail(@)]
          /\ outcome' = [outcome EXCEPT ![Head(waiters[s])] = "granted"]
          /\ UNCHANGED units
       \/ /\ waiters[s] = <<>>
          /\ units' = [units EXCEPT ![s] = @ + 1]
          /\ UNCHANGED <<waiters, outcome>>
    /\ Returns(t, 0)
    /\ UNCHANGED open

TryWait(t, s) ==
    /\ Active(t) /\ s \in open
    /\ \/ /\ units[s] > 0
          /\ units' = [units EXCEPT ![s] = @ - 1]
          /\ Returns(t, 0)
       \/ /\ units[s] # 1
          /\ Returns(t, 1)
          /\ UNCHANGED units
    /\ UNCHANGED <<open, waiters, outcome>>

\* Calls that are not about semaphores, and the return of a close.
OtherCall(t) ==
    /\ Active(t)
    /\ \E code \in {-3, -2, -1, 0, 1, 49} : Returns(t, code)
    /\ UNCHANGED <<open, units, waiters, outcome>>

Next ==
    \E t \in Threads :
       \/ WaitReturns(t) \/ OtherCall(t)
       \/ \E s \in Sems : \/ Open(t, s) \/ Close(t, s) \/ Wait(t, s)
                          \/ Signal(t, s) \/ TryWait(t, s)

Spec == Init /\ [][Next]_vars
=============================================================================
