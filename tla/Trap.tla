-------------------------------- MODULE Trap --------------------------------
(***************************************************************************)
(* Entering and leaving the kernel: the CSRs of the hart (src/h/riscv.hpp),*)
(* supervisorTrap and contextSwitch, and what handleSupervisorTrap does to *)
(* sepc and sstatus around its system calls.  Where Kernel says that a     *)
(* handler is one step that ends where its caller goes on, this module is  *)
(* about why that is so.                                                   *)
(*                                                                         *)
(* A handler makes system calls of its own (operator new and delete, putc),*)
(* so that traps nest, and it may give the hart to another thread before   *)
(* it returns; sepc and sstatus are one pair of registers for all of them. *)
(* Interrupts are taken wherever the hart has them enabled, in a handler   *)
(* too if it ever does.  A thread is a count of instructions; register t1  *)
(* stands for those that supervisorTrap saves.                             *)
(*                                                                         *)
(* contextSwitch saves ra and sp.  The handler's own copies of sepc and    *)
(* sstatus are plain locals that live across TCB::dispatch: a build that   *)
(* has them on the stack gives each thread its own back, and one that has  *)
(* them in s-registers, as the -Og of the Makefile (44, 61) lets the       *)
(* compiler do, gives it those of the thread that dispatched last.         *)
(***************************************************************************)
EXTENDS Integers, SequencesExt

CONSTANTS
    Threads,      \* those that exist: main() and the ones it has created
    Main,         \* the only one with systemThread set
    Printers,     \* those that call printInteger or printAddress
    Values,       \* what programs put in t1
    MaxAt,        \* bound: the instructions of a thread
    Builds        \* where the compiler may keep the handler's sepc and sstatus:
                  \* in s-registers (TRUE), or on the stack (FALSE)

ASSUME TrapAssumption ==
    /\ Main \in Threads /\ Printers \subseteq Threads
    /\ Values \subseteq Nat \ {0} /\ Values # {} /\ MaxAt \in Nat
    /\ Builds \subseteq BOOLEAN

VARIABLES
    inRegisters,  \* the build that runs: one of Builds, and never another
    mode,         \* privilege of the hart
    sstatus,      \* its bits SIE, SPIE and SPP
    sepc,
    pc,           \* what the hart executes next
    t1, s,        \* t1, and the s-registers that hold a handler's locals
    running,      \* TCB::running
    context,      \* TCB::context: where a thread goes on that is not running
    frames,       \* the activations of supervisorTrap on each thread's stack
    saved,        \* `sstatus & SSTATUS_SIE` of the print function a thread is in
    locked,       \* is lockPrint 1, with nobody who will reset it?
    halt,         \* "fault": an illegal instruction, which ends the program
    own, executed, ticks,  \* history: t1 as its thread left it, the instructions
                           \* it executed, and the timer interrupts it took
    strays                 \* history: the threads that another's dispatch has
                           \* resumed in a build with inRegisters

csrVars == <<mode, sstatus, sepc>>
counts == <<own, executed, ticks>>
history == <<counts, strays>>
kernel == <<inRegisters, locked, running, context>>
vars == <<csrVars, pc, t1, s, kernel, frames, saved, halt, history>>

\* Level 0 is the thread's own code, level n its n-th handler activation.
Own(t, n) == [of |-> t, level |-> 0, at |-> n]
Wrapper(t) == [of |-> t, level |-> 1, at |-> 0]
Following(p) == [p EXCEPT !.at = @ + 1]

\* Kinds of traps.  A "leaf" is a system call that makes none itself, a
\* "call" allocates or frees, a "switch" calls TCB::dispatch after that, and
\* "bad" has an unknown code, which the handler prints: it tests the lock of
\* printString at 0, again at 1 after every dispatch, and prints at 2.
Calls == {"leaf", "call", "switch", "bad"}
Steps == [op \in Calls \cup {"timer", "external"} |->
             CASE op = "bad" -> 3 [] op = "switch" -> 2 [] op = "call" -> 1 [] OTHER -> 0]

Locations == [of : Threads, level : 0 .. 3, at : Nat]
Sstatus == [SIE : BOOLEAN, SPIE : BOOLEAN, SPP : {"U", "S"}]
Locals == [sepc : Locations, sstatus : Sstatus]

TypeOK ==
    /\ inRegisters \in Builds /\ locked \in BOOLEAN
    /\ mode \in {"U", "S"} /\ sstatus \in Sstatus
    /\ sepc \in Locations /\ pc \in Locations
    /\ t1 \in Values \cup {0} /\ s \in Locals
    /\ running \in Threads
    /\ context \in [Threads -> {"wrapper", "handler"}]
    /\ \A t \in Threads :
          /\ Len(frames[t]) <= 3
          /\ \A i \in DOMAIN frames[t] :
                frames[t][i] \in [op : DOMAIN Steps, locals : Locals,
                                  t1 : Values \cup {0}, s : Locals]
    /\ saved \in [Threads -> {"none", "on", "off"}]
    /\ halt \in {"no", "fault"}
    /\ own \in [Threads -> Values \cup {0}]
    /\ executed \in [Threads -> 0 .. MaxAt] /\ ticks \in [Threads -> 0 .. MaxAt]
    /\ strays \subseteq Threads

\* The mode of a thread's own code.
Privilege(t) == IF t = Main THEN "S" ELSE "U"

\* main() after ms_sstatus(SSTATUS_SIE), with its threads created.
Init ==
    /\ inRegisters \in Builds /\ locked = FALSE
    /\ mode = "S"
    /\ sstatus = [SIE |-> TRUE, SPIE |-> TRUE, SPP |-> "U"]
    /\ pc = Own(Main, 0) /\ sepc = pc
    /\ t1 = 0 /\ s = [sepc |-> sepc, sstatus |-> sstatus]
    /\ running = Main
    /\ context = [t \in Threads |-> "wrapper"]
    /\ frames = [t \in Threads |-> <<>>]
    /\ saved = [t \in Threads |-> "none"]
    /\ halt = "no"
    /\ own = [t \in Threads |-> 0]
    /\ executed = [t \in Threads |-> 0] /\ ticks = [t \in Threads |-> 0]
    /\ strays = {}

-----------------------------------------------------------------------------
(* The hart.                                                               *)

\* The hart is in code whose frame is on top of the stack.  (A stray may come
\* to code that is not: what it does there is not modelled.)
Runs == halt = "no" /\ pc.level = Len(frames[running])

InOwnCode == Runs /\ pc.level = 0
InHandler(op, at) ==
    /\ Runs /\ pc.level > 0 /\ pc.at = at
    /\ Last(frames[running]).op = op

\* The bound on what is executed.
Within == executed[running] + ticks[running] < MaxAt

\* An instruction of the thread that changes no CSR.
Execute ==
    /\ InOwnCode /\ Within
    /\ \E v \in Values : t1' = v /\ own' = [own EXCEPT ![running] = v]
    /\ pc' = Following(pc)
    /\ executed' = [executed EXCEPT ![running] = @ + 1]
    /\ UNCHANGED <<csrVars, s, kernel, frames, saved, halt, ticks, strays>>

Enabled == mode = "U" \/ sstatus.SIE

\* A trap at place: the hart sets the CSRs, supervisorTrap saves the registers,
\* and the handler reads sepc + 4 and sstatus.  It uses t1 for its own ends.
TakeTrap(op, place) ==
    /\ sepc' = place
    /\ sstatus' = [SIE |-> FALSE, SPIE |-> sstatus.SIE, SPP |-> mode]
    /\ mode' = "S"
    /\ s' = [sepc |-> Following(place), sstatus |-> sstatus']
    /\ frames' = [frames EXCEPT ![running] =
                     Append(@, [op |-> op, locals |-> s', t1 |-> t1, s |-> s])]
    /\ pc' = [of |-> pc.of, level |-> pc.level + 1, at |-> 0]
    /\ t1' = 0
    /\ UNCHANGED <<inRegisters, running, context, saved, halt, own, strays>>

\* An ecall of the thread.  A print function only calls putc.
Ecall(op) ==
    /\ InOwnCode /\ Within
    /\ saved[running] # "none" => op = "leaf"
    /\ TakeTrap(op, pc)
    /\ executed' = [executed EXCEPT ![running] = @ + 1]
    /\ UNCHANGED <<locked, ticks>>

\* The timer's software interrupt: its handler writes sepc + 4 back too.  The
\* instruction that is skipped may be one of copy_and_swap, on lockPrint: the
\* lock is then held by nobody, or free while it is held (see SpinLock).
TimerInterrupt ==
    /\ Runs /\ Enabled /\ Within
    /\ TakeTrap("timer", pc)
    /\ IF pc.level = 0
          THEN /\ ticks' = [ticks EXCEPT ![running] = @ + 1]
               /\ locked' \in BOOLEAN
          ELSE UNCHANGED <<ticks, locked>>
    /\ UNCHANGED executed

ExternalInterrupt ==
    /\ Runs /\ Enabled
    /\ TakeTrap("external", pc)
    /\ UNCHANGED <<locked, executed, ticks>>

\* sret, with the values sstatus and sepc have by then.
Sret(status, epc) ==
    /\ mode' = status.SPP
    /\ sstatus' = [SIE |-> status.SPIE, SPIE |-> TRUE, SPP |-> "U"]
    /\ sepc' = epc /\ pc' = epc

-----------------------------------------------------------------------------
(* The handler.                                                            *)

\* The handler of a leaf calls operator new itself, not the MemoryAllocator.
HandlerEcallBugNested ==
    /\ \/ \E op \in {"call", "switch", "leaf"} : InHandler(op, 0)
       \/ InHandler("bad", 2) /\ saved[running] # "none"
    /\ TakeTrap("leaf", pc)
    /\ UNCHANGED <<locked, executed, ticks>>

\* operator new or delete, or a putc of the print function: an ecall in
\* supervisor mode, with SIE clear.
HandlerEcall ==
    /\ \/ InHandler("call", 0) \/ InHandler("switch", 0)
       \/ InHandler("bad", 2) /\ saved[running] # "none"
    /\ TakeTrap("leaf", pc)
    /\ UNCHANGED <<locked, executed, ticks>>

\* printString takes its lock, and will have reset it when the handler prints
\* on: nobody else runs in between.
TestsLock == InHandler("bad", 0) \/ InHandler("bad", 1)
LockPrint ==
    /\ TestsLock /\ ~locked
    /\ pc' = [pc EXCEPT !.at = 2]
    /\ UNCHANGED <<csrVars, t1, s, kernel, frames, saved, halt, history>>

\* It does not get it, calls thread_dispatch in the handler, and tests again.
Spin ==
    /\ TestsLock /\ locked
    /\ TakeTrap("switch", [pc EXCEPT !.at = 0])
    /\ UNCHANGED <<locked, executed, ticks>>

\* contextSwitch to u, which the scheduler chose (it may choose the caller):
\* ra and sp change, and no other register.
ContextSwitch(u) ==
    /\ InHandler("switch", 1)
    /\ running' = u
    /\ context' = [context EXCEPT ![running] = "handler"]
    /\ pc' = IF context'[u] = "wrapper"
                THEN Wrapper(u)
                ELSE [of |-> u, level |-> Len(frames[u]), at |-> 2]
    /\ strays' = IF inRegisters /\ u # running /\ context[u] = "handler"
                    THEN strays \cup {u}
                    ELSE strays
    /\ UNCHANGED <<csrVars, t1, s, inRegisters, locked, frames, saved, halt, counts>>

\* popSppSpie sets SPP for every thread, without asking isSystemThread().
PopSppSpieBugMode ==
    /\ halt = "no" /\ pc = Wrapper(running) /\ frames[running] = <<>>
    /\ Sret([sstatus EXCEPT !.SPP = "S"], Own(running, 0))
    /\ own' = [own EXCEPT ![running] = t1]
    /\ UNCHANGED <<t1, s, kernel, frames, saved, halt, executed, ticks, strays>>

\* threadWrapper: popSppSpie drops to the mode of the thread, with interrupts
\* enabled if sstatus says so, and the body starts.
PopSppSpie ==
    /\ halt = "no" /\ pc = Wrapper(running) /\ frames[running] = <<>>
    /\ Sret([sstatus EXCEPT !.SPP = Privilege(running)], Own(running, 0))
    /\ own' = [own EXCEPT ![running] = t1]
    /\ UNCHANGED <<t1, s, kernel, frames, saved, halt, executed, ticks, strays>>

\* What supervisorTrap pops after the handler has returned.
PopRegisters ==
    LET top == Last(frames[running]) IN
    /\ frames' = [frames EXCEPT ![running] = Front(@)]
    /\ t1' = top.t1 /\ s' = top.s

\* sepc and sstatus of the handler, where the build keeps them.
HandlerLocals == IF inRegisters THEN s ELSE Last(frames[running]).locals

AtReturn(op) == InHandler(op, Steps[op]) /\ (op = "bad" => saved[running] = "none")

\* w_sstatus is forgotten.
ReturnBugStatus ==
    /\ \E op \in Calls \cup {"timer"} : AtReturn(op)
    /\ Sret(sstatus, HandlerLocals.sepc)
    /\ PopRegisters
    /\ UNCHANGED <<kernel, saved, halt, history>>

\* w_sepc(r_sepc() + 4) for w_sepc(sepc): sepc is read too late.
ReturnBugEpc ==
    /\ \E op \in Calls \cup {"timer"} : AtReturn(op)
    /\ Sret(HandlerLocals.sstatus, Following(sepc))
    /\ PopRegisters
    /\ UNCHANGED <<kernel, saved, halt, history>>

\* t1 is left out of the registers that are popped.
ReturnBugRegisters ==
    /\ \E op \in Calls \cup {"timer"} : AtReturn(op)
    /\ Sret(HandlerLocals.sstatus, HandlerLocals.sepc)
    /\ frames' = [frames EXCEPT ![running] = Front(@)]
    /\ s' = Last(frames[running]).s
    /\ UNCHANGED <<t1, kernel, saved, halt, history>>

\* After an ecall or the timer: w_sstatus, w_sepc, the registers and sret.
Return ==
    /\ \E op \in Calls \cup {"timer"} : AtReturn(op)
    /\ Sret(HandlerLocals.sstatus, HandlerLocals.sepc)
    /\ PopRegisters
    /\ UNCHANGED <<kernel, saved, halt, history>>

\* sepc + 4 is written back here too.
ExternalReturnBugEpc ==
    /\ AtReturn("external")
    /\ Sret(HandlerLocals.sstatus, HandlerLocals.sepc)
    /\ PopRegisters
    /\ UNCHANGED <<kernel, saved, halt, history>>

\* After console_handler the CSRs are not written.
ExternalReturn ==
    /\ AtReturn("external")
    /\ Sret(sstatus, sepc)
    /\ PopRegisters
    /\ UNCHANGED <<kernel, saved, halt, history>>

-----------------------------------------------------------------------------
(* printInteger and printAddress mask interrupts while they print, in main *)
(* and in the handler.  In user mode sstatus cannot be read.               *)

Prints == \/ InOwnCode /\ running \in Printers
          \/ InHandler("bad", 2)

\* A fault ends in the last branch of the handler, which shuts down.
PrintBegin ==
    /\ Prints /\ saved[running] = "none"
    /\ \/ /\ mode = "S"
          /\ saved' = [saved EXCEPT ![running] = IF sstatus.SIE THEN "on" ELSE "off"]
          /\ sstatus' = [sstatus EXCEPT !.SIE = FALSE]
          /\ UNCHANGED halt
       \/ /\ mode = "U"
          /\ halt' = "fault"
          /\ UNCHANGED <<saved, sstatus>>
    /\ UNCHANGED <<mode, sepc, pc, t1, s, kernel, frames, history>>

\* The end sets SIE whatever it was before.
PrintEndBugEnable ==
    /\ saved[running] # "none" /\ (InOwnCode \/ InHandler("bad", 3))
    /\ saved' = [saved EXCEPT ![running] = "none"]
    /\ sstatus' = [sstatus EXCEPT !.SIE = TRUE]
    /\ UNCHANGED <<mode, sepc, pc, t1, s, kernel, frames, halt, history>>

PrintEnd ==
    /\ saved[running] # "none" /\ (InOwnCode \/ InHandler("bad", 3))
    /\ saved' = [saved EXCEPT ![running] = "none"]
    /\ sstatus' = [sstatus EXCEPT !.SIE = @ \/ saved[running] = "on"]
    /\ UNCHANGED <<mode, sepc, pc, t1, s, kernel, frames, halt, history>>

Next ==
    \/ Execute \/ TimerInterrupt \/ ExternalInterrupt
    \/ \E op \in Calls : Ecall(op)
    \/ HandlerEcall \/ LockPrint \/ Spin \/ PopSppSpie \/ Return \/ ExternalReturn
    \/ \E u \in Threads : ContextSwitch(u)
    \/ PrintBegin \/ PrintEnd

Spec == Init /\ [][Next]_vars

-----------------------------------------------------------------------------
(* What this must give every thread.                                       *)

\* Every thread goes on at its own place: in its own code when no handler of it
\* is active, else in its innermost one.  Nested traps, dispatches and the loop
\* on the lock inside a handler do not lead it to another thread's place or to
\* another activation's, in any build, as long as the thread has not been
\* resumed by another's dispatch with its locals in s-registers.
ReturnsHome ==
    running \notin strays =>
       /\ pc.of = running
       /\ pc # Wrapper(running) \/ frames[running] # <<>> => pc.level = Len(frames[running])

\* A thread's own code runs with SIE set unless it is in a print function, in
\* any build: whoever passes its sstatus on in a dispatch has the same SPIE.  The
\* mode is the thread's own (src/test/System_Mode_test.cpp), but for the strays.
OwnStatus ==
    halt = "no" /\ pc.level = 0 /\ frames[running] = <<>> =>
       /\ sstatus.SIE <=> saved[running] = "none"
       /\ running \notin strays => mode = Privilege(running)

\* "Control returns to user mode after the system call completes"
\* (src/README.md:56): a user thread's own code never runs in supervisor mode,
\* in any build.  A stray has the mode of another thread; but main, as long as
\* it is in supervisor mode, dispatches only to threads that begin.
UserMode ==
    pc.level = 0 /\ frames[running] = <<>> /\ mode = "S" => Privilege(running) = "S"

\* No interrupt reaches a handler, the wrapper, or a print function, across
\* every putc they make and every dispatch, in any build: traps nest three
\* times at most, nothing but ecalls, and only printString's loop on its lock
\* makes one that dispatches.
KernelMasked ==
    /\ pc.level > 0 \/ saved[running] # "none" => ~Enabled
    /\ \A t \in Threads : LET f == frames[t] IN
          /\ Len(f) <= 3
          /\ Len(f) >= 2 /\ f[2].op # "leaf" => f[2].op = "switch" /\ f[1].op = "bad"
          /\ Len(f) = 3 => f[2].op = "switch" /\ f[3].op = "leaf"

\* A thread finds t1 as it left it, whatever ran in between (workerBodyC of
\* src/src/workers.cpp prints t1 after a yield), in any build: a stray too has
\* its own registers and stack, wherever it goes on.
RegisterKept == pc.level = 0 /\ frames[running] = <<>> => t1 = own[running]

\* A thread executes every one of its instructions once, except that each
\* timer interrupt makes it skip one: no system call, dispatch or console
\* interrupt repeats or skips any, unless it makes the thread a stray.
OnlyTimerSkips ==
    running \notin strays /\ pc.level = 0 => pc.at = executed[running] + ticks[running]

-----------------------------------------------------------------------------
(* What a comment promises, and a build with inRegisters does not keep.     *)

\* contextSwitch "saves old context and restores new context"
\* (src/h/tcb.hpp:109): a thread that is in its own code is in its own code,
\* not at the place of the thread that dispatched to it.
ComesBack == pc.level = 0 /\ frames[running] = <<>> => pc.of = running
=============================================================================
