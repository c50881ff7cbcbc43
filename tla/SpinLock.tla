------------------------------ MODULE SpinLock ------------------------------
(***************************************************************************)
(* copy_and_swap (src/test/lock.S; src/src/test_and_set.S is its twin),    *)
(* instruction by instruction, under the LOCK and UNLOCK that printString, *)
(* getString and printInt of src/test/printing.cpp are made of.  LOCK      *)
(* calls thread_dispatch when it fails, UNLOCK spins, and nobody gives the *)
(* hart away inside: putc and getc do not dispatch.                        *)
(*                                                                         *)
(* The timer interrupt is as its handler serves it (see Trap): the thread  *)
(* goes on one instruction further than it was.                            *)
(***************************************************************************)
EXTENDS Integers

CONSTANT Threads

VARIABLES
    running,
    lockPrint,
    at,            \* where each thread is: "out", "in" or an instruction
    op,            \* the last operation it began: "LOCK" or "UNLOCK"
    a0, t0,        \* registers of each thread
    reserved,      \* does the reservation of lr.w hold?
    swapped        \* history: did this call of copy_and_swap write lockPrint?

registers == <<a0, t0>>
memory == <<lockPrint, reserved, swapped>>
vars == <<running, at, op, registers, memory>>

\* The instructions and their order.  "li 0", "jr 0" return success, and
\* `fail:` is "li 1", "jr 1".
Instructions == {"lr", "bne", "sc", "bnez", "li 0", "jr 0", "li 1", "jr 1"}
NextInstruction(i) ==
    CASE i = "lr" -> "bne" [] i = "bne" -> "sc" [] i = "sc" -> "bnez"
      [] i = "bnez" -> "li 0" [] i = "li 0" -> "jr 0" [] i = "jr 0" -> "li 1"
      [] i = "li 1" -> "jr 1"

Expected(t) == IF op[t] = "LOCK" THEN 0 ELSE 1
Desired(t) == 1 - Expected(t)

\* In a0 the number 2 stands for &lockPrint.
Init ==
    /\ running \in Threads
    /\ at = [t \in Threads |-> "out"]
    /\ op = [t \in Threads |-> "UNLOCK"]
    /\ a0 = [t \in Threads |-> 0] /\ t0 \in [Threads -> {0, 1}]
    /\ lockPrint = 0 /\ reserved = FALSE
    /\ swapped = [t \in Threads |-> FALSE]

At(t, i) == running = t /\ at[t] = i
Goto(t, i) == at' = [at EXCEPT ![t] = i]

\* LOCK() or UNLOCK() calls copy_and_swap.
Call(t, from, operation) ==
    /\ At(t, from) /\ Goto(t, "lr")
    /\ op' = [op EXCEPT ![t] = operation]
    /\ a0' = [a0 EXCEPT ![t] = 2]
    /\ swapped' = [swapped EXCEPT ![t] = FALSE]
    /\ UNCHANGED <<running, t0, lockPrint, reserved>>

Lr(t) ==
    /\ At(t, "lr") /\ Goto(t, "bne")
    /\ t0' = [t0 EXCEPT ![t] = lockPrint]
    /\ reserved' = TRUE
    /\ UNCHANGED <<running, op, a0, lockPrint, swapped>>

Bne(t) ==
    /\ At(t, "bne") /\ Goto(t, IF t0[t] # Expected(t) THEN "li 1" ELSE "sc")
    /\ UNCHANGED <<running, op, registers, memory>>

\* It may fail without a cause.
Sc(t) ==
    /\ At(t, "sc") /\ Goto(t, "bnez")
    /\ \/ /\ reserved
          /\ lockPrint' = Desired(t)
          /\ t0' = [t0 EXCEPT ![t] = 0]
          /\ swapped' = [swapped EXCEPT ![t] = TRUE]
       \/ /\ t0' = [t0 EXCEPT ![t] = 1]
          /\ UNCHANGED <<lockPrint, swapped>>
    /\ reserved' = FALSE
    /\ UNCHANGED <<running, op, a0>>

Bnez(t) ==
    /\ At(t, "bnez") /\ Goto(t, IF t0[t] # 0 THEN "lr" ELSE "li 0")
    /\ UNCHANGED <<running, op, registers, memory>>

Li(t, n) ==
    /\ At(t, IF n = 0 THEN "li 0" ELSE "li 1")
    /\ Goto(t, IF n = 0 THEN "jr 0" ELSE "jr 1")
    /\ a0' = [a0 EXCEPT ![t] = n]
    /\ UNCHANGED <<running, op, t0, memory>>

\* Back in the loop of LOCK or UNLOCK: done at 0; else try again, LOCK after
\* a thread_dispatch.
Jr(t) ==
    /\ At(t, "jr 0") \/ At(t, "jr 1")
    /\ \/ /\ a0[t] = 0
          /\ Goto(t, IF op[t] = "LOCK" THEN "in" ELSE "out")
          /\ UNCHANGED running
       \/ /\ a0[t] # 0
          /\ Goto(t, IF op[t] = "LOCK" THEN "out" ELSE "in")
          /\ running' \in IF op[t] = "LOCK" THEN Threads ELSE {t}
    /\ UNCHANGED <<op, registers, memory>>

\* The program dispatches outside its prints.
Dispatch(t) ==
    /\ At(t, "out") /\ running' \in Threads
    /\ UNCHANGED <<at, op, registers, memory>>

\* A timer interrupt before an instruction.  (After the last one there is
\* whatever function the linker put there: left out.)
TimerInterrupt(t) ==
    /\ running = t /\ at[t] \in Instructions \ {"jr 1"}
    /\ Goto(t, NextInstruction(at[t]))
    /\ UNCHANGED <<running, op, registers, memory>>

Next ==
    \E t \in Threads :
       \/ Call(t, "out", "LOCK") \/ Call(t, "in", "UNLOCK") \/ Dispatch(t)
       \/ Lr(t) \/ Bne(t) \/ Sc(t) \/ Bnez(t) \/ Li(t, 0) \/ Li(t, 1) \/ Jr(t)
       \/ TimerInterrupt(t)

Spec == Init /\ [][Next]_vars

\* src/test/lock.S:5: "a0 holds return value, 0 if successful, !0 otherwise".
\* LOCK and UNLOCK rest on it: at the return a0 is 0 exactly if this call has
\* written the lock.
ReturnTells ==
    \A t \in Threads : at[t] \in {"jr 0", "jr 1"} => (a0[t] = 0 <=> swapped[t])
=============================================================================
