----------------------------- MODULE TrapProofs -----------------------------
(***************************************************************************)
(* Every thread comes back from a trap to where it was, in its own mode    *)
(* and with its own registers, for any number of threads and instructions  *)
(* and in any build: but for the strays, those that another's dispatch has *)
(* resumed where the handler's locals are in s-registers.  What interrupts *)
(* find masked, and the registers, hold for the strays too.                *)
(***************************************************************************)
EXTENDS Trap, SequenceTheorems, TLAPS

\* Where t is in its own code: the instructions it executed, and those that
\* timer interrupts made it skip.
Base(t) == Own(t, executed[t] + ticks[t])

\* What a trap makes of sstatus: interrupts off, and how it was before.
Masked(status, enabled, from) ==
    ~status.SIE /\ (status.SPIE <=> enabled) /\ status.SPP = from

Frames == [op : DOMAIN Steps, locals : Locals, t1 : Values \cup {0}, s : Locals]

\* What the trap that t took in its own code has saved: the way back there.
\* A thread prints in its own code only in supervisor mode, and only with putc;
\* in a handler nothing but the report of an unknown call prints.
FirstFrame(t) ==
    LET f == frames[t][1] IN
    /\ f.t1 = own[t]
    /\ Masked(f.locals.sstatus, f.op = "bad" \/ saved[t] = "none", f.locals.sstatus.SPP)
    /\ f.locals.sepc.level = 0
    /\ t \notin strays =>
          /\ f.locals.sstatus.SPP = Privilege(t)
          /\ f.locals.sepc = IF f.op = "external" THEN Following(Base(t)) ELSE Base(t)
    /\ saved[t] = "on" => f.op = "leaf" /\ f.locals.sstatus.SPP = "S"
    /\ saved[t] = "off" => f.op = "bad"

\* The calls a handler makes, each of which knows where it goes on: leaves, and
\* the dispatch of printString while its lock is taken.
Goes(op, in, at, printing) ==
    \/ op = "leaf" /\ in \in {"call", "switch"} /\ at = 1
    \/ op = "leaf" /\ in = "bad" /\ at = 3 /\ printing = "off"
    \/ op = "switch" /\ in = "bad" /\ at = 1 /\ printing = "none"

NestedFrame(t, i) ==
    LET f == frames[t][i] IN
    /\ Goes(f.op, frames[t][i - 1].op, f.locals.sepc.at, saved[t])
    /\ f.locals.sepc.level = i - 1
    /\ t \notin strays => f.locals.sepc.of = t
    /\ Masked(f.locals.sstatus, FALSE, "S")
    /\ f.s = frames[t][i - 1].locals

Stack(t) ==
    /\ Len(frames[t]) <= 3
    /\ Len(frames[t]) >= 1 => FirstFrame(t)
    /\ Len(frames[t]) >= 2 => NestedFrame(t, 2)
    /\ Len(frames[t]) = 3 => NestedFrame(t, 3) /\ frames[t][2].op = "switch"
    /\ executed[t] + ticks[t] <= MaxAt

\* A thread that does not run has not begun, or stands in a call that dispatched.
Fresh(t) ==
    /\ frames[t] = <<>> /\ saved[t] = "none" /\ executed[t] = 0 /\ ticks[t] = 0
    /\ t \notin strays
Away(t) ==
    \/ context[t] = "wrapper" /\ Fresh(t)
    \/ /\ context[t] = "handler" /\ Len(frames[t]) \in {1, 2}
       /\ frames[t][Len(frames[t])].op = "switch"

\* Where the hart can be with the thread that runs.
InOwn ==
    /\ frames[running] = <<>> /\ pc.level = 0
    /\ running \notin strays => pc = Base(running) /\ mode = Privilege(running)
    /\ sstatus.SIE <=> saved[running] = "none"
    /\ saved[running] \in {"none", "on"}
    /\ saved[running] # "none" => mode = "S"
    /\ t1 = own[running]

InWrapper ==
    /\ Fresh(running) /\ pc = Wrapper(running)
    /\ mode = "S" /\ ~sstatus.SIE /\ sstatus.SPIE

\* The locals that one dispatch may leave in the s-registers for another: those
\* of a call from a thread's own code, or of printString's in a handler.
Passed(l) ==
    \/ l.sepc.level = 0 /\ Masked(l.sstatus, TRUE, l.sstatus.SPP)
    \/ l.sepc.level = 1 /\ l.sepc.at = 1 /\ Masked(l.sstatus, FALSE, "S")

\* popSppSpie finds SPIE set, since the handler that dispatched has made a call
\* of its own; after the console's interrupt the CSRs are as the hart left them.
\* The s-registers hold the handler's locals except after a dispatch.
Top == frames[running][Len(frames[running])]
InTrap ==
    /\ frames[running] # <<>> /\ pc.level = Len(frames[running])
    /\ running \notin strays => pc.of = running
    /\ pc.at \in 0 .. Steps[Top.op]
    /\ mode = "S" /\ ~sstatus.SIE
    /\ Top.op = "external" =>
          /\ sstatus = Top.locals.sstatus /\ sepc.level = 0
          /\ running \notin strays => sepc = Base(running)
    /\ Top.op = "switch" /\ pc.at > 0 => sstatus.SPIE
    /\ Top.op = "bad" /\ pc.at < 2 => saved[running] = "none"
    /\ (Top.op = "switch" /\ pc.at = 2) \/ s = Top.locals
    /\ inRegisters => (s = Top.locals \/ (running \in strays /\ Passed(s)))

\* A stray may come to code whose frame is not on its stack.
Lost ==
    /\ running \in strays /\ saved[running] = "none"
    /\ pc.level # Len(frames[running])
    /\ pc.level > 0 => pc.at = 1 /\ mode = "S" /\ ~sstatus.SIE

\* The inductive invariant.
Here == InOwn \/ InWrapper \/ InTrap \/ Lost
TInv ==
    /\ TypeOK /\ frames \in [Threads -> Seq(Frames)]
    /\ \A t \in Threads : Stack(t)
    /\ \A t \in Threads \ {running} : Away(t)
    /\ Here

-----------------------------------------------------------------------------
(* What the operators do.                                                  *)

\* How far each handler goes before it returns.
LEMMA StepsOf ==
    /\ DOMAIN Steps = {"leaf", "call", "switch", "bad", "timer", "external"}
    /\ Steps["leaf"] = 0 /\ Steps["timer"] = 0 /\ Steps["external"] = 0
    /\ Steps["call"] = 1 /\ Steps["switch"] = 2 /\ Steps["bad"] = 3
BY DEF Steps, Calls

\* A trap puts one frame on top of the stack, and nothing else changes there.
LEMMA Pushed ==
    ASSUME NEW S, NEW q \in Seq(S), NEW f \in S
    PROVE  /\ Append(q, f) \in Seq(S)
           /\ Len(Append(q, f)) = Len(q) + 1
           /\ Append(q, f)[Len(q) + 1] = f
           /\ \A i \in 1 .. Len(q) : Append(q, f)[i] = q[i]
OBVIOUS

\* A return takes the last frame, and nothing else.
LEMMA Popped ==
    ASSUME NEW S, NEW q \in Seq(S), q # <<>>
    PROVE  /\ Len(q) \in Nat \ {0}
           /\ Last(q) = q[Len(q)] /\ Last(q) \in S
           /\ Front(q) \in Seq(S)
           /\ Len(Front(q)) = Len(q) - 1
           /\ \A i \in 1 .. Len(q) - 1 : Front(q)[i] = q[i]
<1>1. Len(q) \in Nat \ {0}
  BY EmptySeq
<1>2. \A i \in 1 .. Len(q) - 1 : q[i] \in S
  BY <1>1
<1>3. /\ SubSeq(q, 1, Len(q) - 1) \in Seq(S)
      /\ Len(SubSeq(q, 1, Len(q) - 1)) =
            IF 1 <= Len(q) - 1 THEN Len(q) - 1 - 1 + 1 ELSE 0
      /\ \A i \in 1 .. Len(q) - 1 - 1 + 1 : SubSeq(q, 1, Len(q) - 1)[i] = q[1 + i - 1]
  BY <1>1, <1>2, SubSeqProperties
<1>4. /\ Len(Front(q)) = Len(q) - 1 /\ Front(q) \in Seq(S)
      /\ \A i \in 1 .. Len(q) - 1 : Front(q)[i] = q[i]
  <2>1. Front(q) = SubSeq(q, 1, Len(q) - 1)
    BY DEF Front
  <2>2. \A i \in 1 .. Len(q) - 1 : i \in 1 .. Len(q) - 1 - 1 + 1 /\ 1 + i - 1 = i
    BY <1>1
  <2>3. (IF 1 <= Len(q) - 1 THEN Len(q) - 1 - 1 + 1 ELSE 0) = Len(q) - 1
    <3>1. \A n \in Nat \ {0} : (IF 1 <= n - 1 THEN n - 1 - 1 + 1 ELSE 0) = n - 1
      OBVIOUS
    <3> QED
      BY <1>1, <3>1, Zenon
  <2> HIDE DEF Front
  <2> QED
    BY <1>3, <2>1, <2>2, <2>3
<1>5. Last(q) = q[Len(q)] /\ q[Len(q)] \in S
  BY <1>1 DEF Last
<1> QED
  BY <1>1, <1>4, <1>5

\* The types, without the frames.
LEMMA Typed ==
    ASSUME TInv
    PROVE  /\ inRegisters \in Builds /\ locked \in BOOLEAN
           /\ mode \in {"U", "S"} /\ sstatus \in Sstatus
           /\ sepc \in Locations /\ pc \in Locations
           /\ t1 \in Values \cup {0} /\ s \in Locals
           /\ running \in Threads
           /\ context \in [Threads -> {"wrapper", "handler"}]
           /\ frames \in [Threads -> Seq(Frames)]
           /\ saved \in [Threads -> {"none", "on", "off"}]
           /\ halt \in {"no", "fault"}
           /\ own \in [Threads -> Values \cup {0}]
           /\ executed \in [Threads -> 0 .. MaxAt] /\ ticks \in [Threads -> 0 .. MaxAt]
           /\ strays \subseteq Threads
BY DEF TInv, TypeOK

\* What a stack of so many frames says.
LEMMA StackOf ==
    ASSUME TInv, NEW t \in Threads
    PROVE  /\ Len(frames[t]) \in 0 .. 3
           /\ \A i \in 1 .. Len(frames[t]) : frames[t][i] \in Frames
           /\ Len(frames[t]) >= 1 => FirstFrame(t)
           /\ Len(frames[t]) >= 2 => NestedFrame(t, 2)
           /\ Len(frames[t]) = 3 => NestedFrame(t, 3) /\ frames[t][2].op = "switch"
           /\ executed[t] + ticks[t] <= MaxAt
<1>1. Stack(t) /\ frames[t] \in Seq(Frames)
  BY DEF TInv
<1>2. /\ Len(frames[t]) \in Nat
      /\ \A i \in 1 .. Len(frames[t]) : frames[t][i] \in Frames
  BY <1>1
<1>3. Len(frames[t]) \in 0 .. 3
  <2>1. Len(frames[t]) <= 3
    BY <1>1 DEF Stack
  <2>2. \A n \in Nat : n <= 3 => n \in 0 .. 3
    OBVIOUS
  <2> QED
    BY <1>2, <2>1, <2>2
<1> QED
  BY <1>1, <1>2, <1>3 DEF Stack

\* Of a step of the running thread only what it does to that thread is in
\* question.
LEMMA OthersKept ==
    ASSUME NEW r \in Threads, running = r, running' = r, TInv,
           \A t \in Threads \ {r} :
              /\ frames'[t] = frames[t] /\ saved'[t] = saved[t] /\ own'[t] = own[t]
              /\ executed'[t] = executed[t] /\ ticks'[t] = ticks[t]
              /\ context'[t] = context[t],
           inRegisters' = inRegisters, strays' = strays, locked' \in BOOLEAN,
           frames' \in [Threads -> Seq(Frames)],
           mode' \in {"U", "S"}, sstatus' \in Sstatus,
           sepc' \in Locations, pc' \in Locations,
           t1' \in Values \cup {0}, s' \in Locals,
           context' \in [Threads -> {"wrapper", "handler"}],
           saved' \in [Threads -> {"none", "on", "off"}],
           halt' \in {"no", "fault"},
           own' \in [Threads -> Values \cup {0}],
           executed' \in [Threads -> 0 .. MaxAt], ticks' \in [Threads -> 0 .. MaxAt],
           Stack(r)', Here'
    PROVE  TInv'
<1>1. \A t \in Threads \ {r} : Stack(t)' /\ Away(t)'
  <2> SUFFICES ASSUME NEW t \in Threads \ {r} PROVE Stack(t)' /\ Away(t)'
    OBVIOUS
  <2>1. Stack(t) /\ Away(t)
    BY DEF TInv
  <2>2. Away(t)'
    BY <2>1 DEF Away, Fresh
  <2>3. Stack(t)'
    BY <2>1, ZenonT(60) DEF Stack, FirstFrame, NestedFrame, Base, Own
  <2> QED
    BY <2>2, <2>3
<1>2. \A t \in Threads : Stack(t)'
  BY <1>1
<1>3. \A t \in Threads : Len(frames'[t]) <= 3
  BY <1>2 DEF Stack
<1>4. running' \in Threads /\ inRegisters' \in Builds /\ strays' \subseteq Threads
  BY Typed
<1>5. \A t \in Threads : \A i \in DOMAIN frames'[t] : frames'[t][i] \in Frames
  OBVIOUS
<1>6. TypeOK'
  BY <1>3, <1>4, <1>5 DEF TypeOK, Frames
<1> QED
  BY <1>1, <1>2, <1>6 DEF TInv

\* The instruction after one.
LEMMA FollowingOf ==
    ASSUME NEW p \in Locations
    PROVE  /\ Following(p) = [of |-> p.of, level |-> p.level, at |-> p.at + 1]
           /\ Following(p) \in Locations
BY DEF Following, Locations

\* Another place in the same code.
LEMMA ElsewhereIn ==
    ASSUME NEW p \in Locations, NEW k \in Nat
    PROVE  /\ [p EXCEPT !.at = k] = [of |-> p.of, level |-> p.level, at |-> k]
           /\ [p EXCEPT !.at = k] \in Locations
BY DEF Locations

\* mc_sstatus and ms_sstatus change one bit.
LEMMA SppSet ==
    ASSUME NEW status \in Sstatus, NEW spp
    PROVE  [status EXCEPT !.SPP = spp] =
              [SIE |-> status.SIE, SPIE |-> status.SPIE, SPP |-> spp]
BY DEF Sstatus

\* And of the bit that masks interrupts.
LEMMA SieSet ==
    ASSUME NEW status \in Sstatus, NEW sie
    PROVE  [status EXCEPT !.SIE = sie] =
              [SIE |-> sie, SPIE |-> status.SPIE, SPP |-> status.SPP]
BY DEF Sstatus

\* A trap, from the thread's own code or from a handler of it.
LEMMA TrapTaken ==
    ASSUME TInv, NEW op \in DOMAIN Steps, NEW place \in Locations,
           TakeTrap(op, place), pc.level \in 0 .. 2
    PROVE  /\ frames' \in [Threads -> Seq(Frames)]
           /\ \A t \in Threads \ {running} : frames'[t] = frames[t]
           /\ Len(frames'[running]) = Len(frames[running]) + 1
           /\ \A i \in 1 .. Len(frames[running]) : frames'[running][i] = frames[running][i]
           /\ frames'[running][Len(frames[running]) + 1] =
                 [op |-> op, locals |-> s', t1 |-> t1, s |-> s]
           /\ s' = [sepc |-> Following(place), sstatus |-> sstatus']
           /\ sstatus' \in Sstatus /\ sepc' \in Locations /\ pc' \in Locations
           /\ s' \in Locals /\ mode' = "S" /\ t1' = 0 /\ sepc' = place
           /\ pc' = [of |-> pc.of, level |-> pc.level + 1, at |-> 0]
           /\ sstatus' = [SIE |-> FALSE, SPIE |-> sstatus.SIE, SPP |-> mode]
           /\ UNCHANGED <<inRegisters, running, context, saved, halt, own, strays>>
<1> DEFINE f == [op |-> op, locals |-> s', t1 |-> t1, s |-> s]
<1>1. sstatus' \in Sstatus
  BY Typed DEF TakeTrap, Sstatus
<1>2. Following(place) \in Locations /\ pc' \in Locations /\ sepc' \in Locations
  <2>1. Following(place) \in Locations
    BY FollowingOf
  <2>2. pc.of \in Threads /\ pc.level + 1 \in 0 .. 3
    BY Typed, SMTT(30) DEF Locations
  <2>3. sepc' = place /\ pc' = [of |-> pc.of, level |-> pc.level + 1, at |-> 0]
    BY DEF TakeTrap
  <2> QED
    BY <2>1, <2>2, <2>3 DEF Locations
<1>3. s' \in Locals /\ s' = [sepc |-> Following(place), sstatus |-> sstatus']
  BY <1>1, <1>2 DEF TakeTrap, Locals
<1>4. f \in Frames
  BY <1>3, Typed DEF Frames
<1>5. frames[running] \in Seq(Frames) /\ running \in Threads
  BY Typed
<1>6. frames' = [frames EXCEPT ![running] = Append(frames[running], f)]
  BY DEF TakeTrap
<1> HIDE DEF f
<1>7. /\ Append(frames[running], f) \in Seq(Frames)
      /\ Len(Append(frames[running], f)) = Len(frames[running]) + 1
      /\ Append(frames[running], f)[Len(frames[running]) + 1] = f
      /\ \A i \in 1 .. Len(frames[running]) :
            Append(frames[running], f)[i] = frames[running][i]
  BY <1>4, <1>5, Pushed
<1>8. frames'[running] = Append(frames[running], f)
  BY <1>5, <1>6, Typed
<1>9. /\ frames' \in [Threads -> Seq(Frames)]
      /\ \A t \in Threads \ {running} : frames'[t] = frames[t]
  BY <1>5, <1>6, <1>7, Typed
<1> QED
  BY <1>1, <1>2, <1>3, <1>7, <1>8, <1>9 DEF f, TakeTrap

-----------------------------------------------------------------------------
(* One lemma for each action.                                              *)

\* main, before its threads have run.
LEMMA TrapInit == Init => TInv
<1> SUFFICES ASSUME Init PROVE TInv
  OBVIOUS
<1>1. /\ running = Main /\ Main \in Threads /\ MaxAt \in Nat /\ strays = {}
      /\ \A t \in Threads : /\ frames[t] = <<>> /\ saved[t] = "none" /\ context[t] = "wrapper"
                            /\ own[t] = 0 /\ executed[t] = 0 /\ ticks[t] = 0
  BY TrapAssumption DEF Init
<1>2. pc = Own(Main, 0) /\ pc \in Locations /\ sepc \in Locations
  BY <1>1 DEF Init, Own, Locations
<1>3. sstatus \in Sstatus /\ s \in Locals
  BY <1>2 DEF Init, Sstatus, Locals
<1>4. \A t \in Threads : Len(frames[t]) = 0 /\ DOMAIN frames[t] = {}
  BY <1>1
<1>5. TypeOK
  <2>1. /\ inRegisters \in Builds /\ locked \in BOOLEAN /\ mode \in {"U", "S"}
        /\ t1 \in Values \cup {0} /\ halt \in {"no", "fault"}
    BY DEF Init
  <2>2. /\ context \in [Threads -> {"wrapper", "handler"}]
        /\ saved \in [Threads -> {"none", "on", "off"}]
        /\ own \in [Threads -> Values \cup {0}]
        /\ executed \in [Threads -> 0 .. MaxAt] /\ ticks \in [Threads -> 0 .. MaxAt]
    BY <1>1 DEF Init
  <2> QED
    BY <1>1, <1>2, <1>3, <1>4, <2>1, <2>2 DEF TypeOK
<1>6. frames \in [Threads -> Seq(Frames)]
  BY DEF Init
<1>7. \A t \in Threads : Stack(t) /\ Away(t)
  <2> SUFFICES ASSUME NEW t \in Threads PROVE Stack(t) /\ Away(t)
    OBVIOUS
  <2>1. executed[t] + ticks[t] <= MaxAt /\ Len(frames[t]) = 0
    BY <1>1, <1>4
  <2> QED
    BY <1>1, <2>1 DEF Stack, Away, Fresh
<1>8. InOwn
  BY <1>1, <1>2 DEF Init, InOwn, Base, Privilege, Own
<1> QED
  BY <1>5, <1>6, <1>7, <1>8 DEF TInv, Here

\* Where there are frames, level 0 is not where the hart is found.
LEMMA NoFrames ==
    ASSUME TInv
    PROVE  /\ Len(frames[running]) = 0 <=> frames[running] = <<>>
           /\ Len(frames[running]) \in 0 .. 3 /\ running \in Threads
<1>1. frames[running] \in Seq(Frames) /\ running \in Threads
  BY Typed
<1>2. Len(frames[running]) = 0 <=> frames[running] = <<>>
  BY <1>1, EmptySeq
<1> QED
  BY <1>1, <1>2, StackOf

\* A thread that runs in its own code has no handler.
LEMMA OwnCode ==
    ASSUME TInv, pc.level = 0, frames[running] = <<>>
    PROVE  InOwn
<1>1. pc.level = Len(frames[running])
  BY NoFrames
<1> QED
  BY <1>1 DEF TInv, Here, InWrapper, Wrapper, InTrap, Lost

\* Its own code is not confused with a handler at the same level.
LEMMA RunsOwnCode ==
    ASSUME TInv, InOwnCode
    PROVE  InOwn /\ pc.level = 0 /\ Len(frames[running]) = 0
BY NoFrames, OwnCode DEF InOwnCode, Runs

\* A handler that goes on is the one on top of the stack.
LEMMA Inside ==
    ASSUME TInv, NEW op, NEW at, InHandler(op, at)
    PROVE  /\ InTrap /\ Top.op = op /\ pc.at = at
           /\ pc.level = Len(frames[running]) /\ Len(frames[running]) \in 1 .. 3
           /\ Top \in Frames /\ Top = frames[running][Len(frames[running])]
<1>1. /\ pc.level = Len(frames[running]) /\ pc.level > 0 /\ pc.at = at
      /\ Last(frames[running]).op = op
  BY DEF InHandler, Runs
<1>2. frames[running] # <<>> /\ Len(frames[running]) \in 1 .. 3
  BY <1>1, NoFrames
<1>3. InTrap
  BY <1>1, <1>2 DEF TInv, Here, InOwn, InWrapper, Fresh, Lost
<1>4. Top = Last(frames[running]) /\ Top \in Frames
  BY <1>2, NoFrames, StackOf DEF Top, Last
<1> QED
  BY <1>1, <1>2, <1>3, <1>4 DEF Top

\* What is on top says how deep it is.
LEMMA Depth ==
    ASSUME TInv, frames[running] # <<>>
    PROVE  /\ Len(frames[running]) >= 2 => Top.op \in {"leaf", "switch"}
           /\ Len(frames[running]) = 3 => Top.op = "leaf"
<1>1. CASE Len(frames[running]) = 2
  <2>1. NestedFrame(running, 2) /\ Top = frames[running][2]
    BY <1>1, NoFrames, StackOf, SMTT(60) DEF Top
  <2> QED
    BY <1>1, <2>1 DEF NestedFrame, Goes
<1>2. CASE Len(frames[running]) = 3
  <2>1. /\ NestedFrame(running, 3) /\ Top = frames[running][3]
        /\ frames[running][2].op = "switch" /\ 3 - 1 = 2
    BY <1>2, NoFrames, StackOf DEF Top
  <2> QED
    BY <1>2, <2>1 DEF NestedFrame, Goes
<1>3. Len(frames[running]) \in 0 .. 3
  BY NoFrames
<1>4. \A n \in 0 .. 3 : n >= 2 => n = 2 \/ n = 3
  OBVIOUS
<1>5. Len(frames[running]) >= 2 => Len(frames[running]) = 2 \/ Len(frames[running]) = 3
  BY <1>3, <1>4, Zenon
<1> QED
  BY <1>1, <1>2, <1>5

\* An instruction of the thread.
LEMMA ExecuteInv == TInv /\ Execute => TInv'
<1> SUFFICES ASSUME TInv, Execute PROVE TInv'
  OBVIOUS
<1> PICK r \in Threads : r = running
  BY Typed
<1>1. InOwn /\ pc.level = 0 /\ Len(frames[r]) = 0
  BY RunsOwnCode DEF Execute
<1>2. /\ executed[r] \in 0 .. MaxAt /\ ticks[r] \in 0 .. MaxAt
      /\ MaxAt \in Nat /\ executed[r] + ticks[r] < MaxAt
  BY Typed, TrapAssumption DEF Execute, Within
<1>3. PICK v \in Values : t1' = v /\ own' = [own EXCEPT ![r] = v]
  BY DEF Execute
<1>4. /\ executed'[r] = executed[r] + 1
      /\ executed' \in [Threads -> 0 .. MaxAt]
      /\ own'[r] = v /\ own' \in [Threads -> Values \cup {0}]
      /\ \A t \in Threads \ {r} : own'[t] = own[t] /\ executed'[t] = executed[t]
  BY <1>2, <1>3, Typed DEF Execute
<1>5. /\ UNCHANGED <<mode, sstatus, sepc, s, inRegisters, locked, running, context>>
      /\ UNCHANGED <<frames, saved, halt, ticks, strays>>
  BY DEF Execute, csrVars, kernel
<1>6. /\ pc' = [of |-> pc.of, level |-> pc.level, at |-> pc.at + 1]
      /\ pc' \in Locations
  <2>1. pc \in Locations /\ pc' = Following(pc)
    BY Typed DEF Execute
  <2> QED
    BY <2>1, FollowingOf
<1>7. r \notin strays => pc' = Base(r)'
  BY <1>1, <1>2, <1>4, <1>5, <1>6 DEF InOwn, Base, Own
<1>8. executed'[r] + ticks'[r] <= MaxAt
  BY <1>2, <1>4, <1>5
<1>9. Stack(r)'
  BY <1>1, <1>5, <1>8 DEF Stack
<1>10. InOwn'
  <2>1. running' = r /\ t1' = own'[r] /\ pc'.level = 0 /\ frames'[r] = <<>>
    BY <1>1, <1>3, <1>4, <1>5, <1>6 DEF InOwn
  <2>2. r \notin strays' => pc' = Base(running)' /\ mode' = Privilege(r)
    BY <1>1, <1>5, <1>7 DEF InOwn
  <2> QED
    BY <1>1, <1>5, <2>1, <2>2 DEF InOwn, Privilege
<1> QED
  BY <1>3, <1>4, <1>5, <1>6, <1>9, <1>10, OthersKept, Typed DEF Here

\* A trap that the thread takes in its own code, by an ecall or an interrupt.
LEMMA OwnTrapInv ==
    ASSUME TInv, InOwn, NEW op \in DOMAIN Steps, TakeTrap(op, pc), locked' \in BOOLEAN,
           saved[running] # "none" => op = "leaf",
           executed' \in [Threads -> 0 .. MaxAt], ticks' \in [Threads -> 0 .. MaxAt],
           \A t \in Threads \ {running} : executed'[t] = executed[t] /\ ticks'[t] = ticks[t],
           executed'[running] + ticks'[running] =
              executed[running] + ticks[running] + (IF op = "external" THEN 0 ELSE 1),
           executed'[running] + ticks'[running] <= MaxAt
    PROVE  TInv'
<1> PICK r \in Threads : r = running
  BY Typed
<1> DEFINE n == executed[r] + ticks[r]
<1>1. /\ pc.level = 0 /\ pc.level \in 0 .. 2
      /\ Len(frames[r]) = 0 /\ t1 = own[r]
      /\ r \notin strays => pc = Own(r, n) /\ mode = Privilege(r)
      /\ n \in Nat /\ pc \in Locations
  BY Typed DEF InOwn, Base
<1>2. /\ frames' \in [Threads -> Seq(Frames)]
      /\ \A t \in Threads \ {r} : frames'[t] = frames[t]
      /\ Len(frames'[r]) = 1
      /\ frames'[r][1] = [op |-> op, locals |-> s', t1 |-> t1, s |-> s]
      /\ s' = [sepc |-> Following(pc), sstatus |-> sstatus']
      /\ sstatus' \in Sstatus /\ sepc' \in Locations /\ pc' \in Locations
      /\ s' \in Locals /\ mode' = "S" /\ t1' = 0
      /\ sepc' = pc /\ pc' = [of |-> pc.of, level |-> 1, at |-> 0]
      /\ sstatus' = [SIE |-> FALSE, SPIE |-> sstatus.SIE, SPP |-> mode]
      /\ running' = r /\ context' = context /\ saved' = saved
      /\ halt' = halt /\ own' = own /\ strays' = strays /\ inRegisters' = inRegisters
  BY <1>1, TrapTaken
<1>3. /\ sstatus.SIE \in BOOLEAN /\ sstatus.SIE <=> saved[r] = "none"
      /\ saved[r] \in {"none", "on"}
      /\ saved[r] # "none" => mode = "S"
  BY Typed DEF InOwn, Sstatus
<1>4. /\ Following(pc) = [of |-> pc.of, level |-> 0, at |-> pc.at + 1]
      /\ Following(pc) \in Locations
  BY <1>1, FollowingOf
<1>5. r \notin strays => /\ Following(pc) = Own(r, n + 1) /\ pc.of = r
                         /\ op = "external" => Base(r)' = pc
                         /\ op # "external" => Base(r)' = Following(pc)
  BY <1>1, <1>2, <1>4 DEF Own, Base
<1>6. FirstFrame(r)'
  <2>1. /\ frames'[r][1].op = op /\ frames'[r][1].t1 = own'[r]
        /\ frames'[r][1].locals = s'
    BY <1>1, <1>2
  <2>2. /\ s'.sepc = Following(pc) /\ s'.sstatus = sstatus' /\ s'.sepc.level = 0
        /\ sstatus'.SPP = mode
    BY <1>2, <1>4
  <2>3. r \notin strays' =>
           s'.sepc = IF op = "external" THEN Following(Base(r))' ELSE Base(r)'
    BY <1>2, <1>5, <2>2 DEF Following
  <2>4. r \notin strays' => s'.sstatus.SPP = Privilege(r)
    BY <1>1, <1>2, <2>2
  <2>5. saved'[r] = "on" => op = "leaf" /\ s'.sstatus.SPP = "S"
    BY <1>2, <1>3, <2>2
  <2>6. saved'[r] # "off"
    BY <1>2, <1>3
  <2>7. Masked(s'.sstatus, op = "bad" \/ saved'[r] = "none", s'.sstatus.SPP)
    BY <1>2, <1>3, <2>2 DEF Masked
  <2> QED
    BY <2>1, <2>2, <2>3, <2>4, <2>5, <2>6, <2>7 DEF FirstFrame, Privilege
<1>7. Stack(r)'
  BY <1>2, <1>6 DEF Stack
<1>8. InTrap'
  <2>1. 0 \in 0 .. Steps[op] /\ (op = "switch" => 0 # 2)
    BY StepsOf
  <2>2. /\ Top' = frames'[r][1] /\ frames'[r][1].op = op /\ frames'[r][1].locals = s'
        /\ s'.sstatus = sstatus'
    <3>1. Top' = frames'[running'][Len(frames'[running'])]
      BY DEF Top
    <3>2. Top' = frames'[r][1]
      BY <1>2, <3>1, Zenon
    <3>3. frames'[r][1].op = op /\ frames'[r][1].locals = s'
      BY <1>2
    <3>4. s'.sstatus = sstatus'
      BY <1>2
    <3> QED
      BY <3>2, <3>3, <3>4
  <2>3. pc'.level = 1 /\ pc'.of = pc.of /\ pc'.at = 0 /\ ~sstatus'.SIE /\ ~(0 > 0)
    BY <1>2
  <2>4. op = "external" => /\ sepc'.level = 0
                           /\ running' \notin strays' => sepc' = Base(running)'
    BY <1>1, <1>2, <1>5 DEF Base
  <2>5. op = "bad" => saved'[r] = "none"
    BY <1>2
  <2>6. running' = r /\ Len(frames'[r]) = 1 /\ frames'[r] # <<>>
    <3>1. Len(<<>>) # 1
      OBVIOUS
    <3> QED
      BY <1>2, <3>1, Zenon
  <2> QED
    BY <1>2, <1>5, <2>1, <2>2, <2>3, <2>4, <2>5, <2>6 DEF InTrap
<1> QED
  BY <1>2, <1>7, <1>8, OthersKept, Typed DEF Here

\* A system call of the thread.
LEMMA EcallInv == ASSUME TInv, NEW op \in Calls, Ecall(op) PROVE TInv'
<1>1. InOwn
  BY RunsOwnCode DEF Ecall
<1>2. /\ executed[running] \in 0 .. MaxAt /\ ticks[running] \in 0 .. MaxAt
      /\ MaxAt \in Nat /\ running \in Threads
      /\ executed[running] + ticks[running] < MaxAt
  BY Typed, TrapAssumption DEF Ecall, Within
<1>3. /\ executed'[running] = executed[running] + 1 /\ ticks' = ticks
      /\ executed' \in [Threads -> 0 .. MaxAt]
      /\ \A t \in Threads \ {running} : executed'[t] = executed[t]
  BY <1>2, Typed DEF Ecall
<1>4. op \in DOMAIN Steps /\ op # "external"
  BY StepsOf DEF Calls
<1>5. /\ executed'[running] + ticks'[running] = executed[running] + ticks[running] + 1
      /\ executed'[running] + ticks'[running] <= MaxAt
  BY <1>2, <1>3
<1>6. locked' \in BOOLEAN
  BY Typed DEF Ecall
<1> QED
  BY <1>1, <1>3, <1>4, <1>5, <1>6, OwnTrapInv, Typed DEF Ecall

\* Interrupts find the hart in the thread's own code, outside a print function,
\* unless it is lost, where nothing goes on.
LEMMA Interrupted ==
    ASSUME TInv, Enabled
    PROVE  pc.level = 0 /\ saved[running] = "none" /\ (InOwn \/ Lost)
<1>1. mode # "S" \/ sstatus.SIE
  BY DEF Enabled
<1>2. InOwn \/ Lost
  BY <1>1 DEF TInv, Here, InWrapper, InTrap
<1>3. CASE Lost
  <2>1. pc.level \in 0 .. 3
    BY Typed DEF Locations
  <2>2. ~(pc.level > 0)
    BY <1>1, <1>3 DEF Lost
  <2> QED
    BY <1>3, <2>1, <2>2 DEF Lost
<1> QED
  BY <1>1, <1>2, <1>3 DEF InOwn

\* And where they are taken, nothing is lost.
LEMMA InterruptTaken ==
    ASSUME TInv, Runs, Enabled
    PROVE  InOwn /\ saved[running] = "none" /\ pc.level = 0
BY Interrupted DEF Runs, Lost

\* The timer.
LEMMA TimerInv == TInv /\ TimerInterrupt => TInv'
<1> SUFFICES ASSUME TInv, TimerInterrupt PROVE TInv'
  OBVIOUS
<1>1. InOwn /\ saved[running] = "none" /\ pc.level = 0
  BY InterruptTaken DEF TimerInterrupt
<1>2. /\ executed[running] \in 0 .. MaxAt /\ ticks[running] \in 0 .. MaxAt
      /\ MaxAt \in Nat /\ running \in Threads
      /\ executed[running] + ticks[running] < MaxAt
  BY Typed, TrapAssumption DEF TimerInterrupt, Within
<1>3. /\ ticks'[running] = ticks[running] + 1 /\ executed' = executed
      /\ ticks' \in [Threads -> 0 .. MaxAt] /\ locked' \in BOOLEAN
      /\ \A t \in Threads \ {running} : ticks'[t] = ticks[t]
  <2>1. /\ ticks' = [ticks EXCEPT ![running] = @ + 1] /\ executed' = executed
        /\ locked' \in BOOLEAN
    BY <1>1 DEF TimerInterrupt
  <2> QED
    BY <1>2, <2>1, Typed
<1>4. /\ executed'[running] + ticks'[running] = executed[running] + ticks[running] + 1
      /\ executed'[running] + ticks'[running] <= MaxAt
  BY <1>2, <1>3
<1> QED
  BY <1>1, <1>3, <1>4, StepsOf, OwnTrapInv, Typed DEF TimerInterrupt

\* The console.
LEMMA ExternalInv == TInv /\ ExternalInterrupt => TInv'
<1> SUFFICES ASSUME TInv, ExternalInterrupt PROVE TInv'
  OBVIOUS
<1>1. InOwn /\ saved[running] = "none"
  BY InterruptTaken DEF ExternalInterrupt
<1>2. /\ executed[running] \in 0 .. MaxAt /\ ticks[running] \in 0 .. MaxAt
      /\ running \in Threads /\ locked \in BOOLEAN
      /\ executed[running] + ticks[running] <= MaxAt
  BY Typed, StackOf
<1>3. executed' = executed /\ ticks' = ticks /\ locked' = locked
  BY DEF ExternalInterrupt
<1>4. executed'[running] + ticks'[running] = executed[running] + ticks[running] + 0
  BY <1>2, <1>3
<1> QED
  BY <1>1, <1>2, <1>3, <1>4, StepsOf, OwnTrapInv, Typed DEF ExternalInterrupt

\* A system call that a handler makes.
LEMMA InnerTrapInv ==
    ASSUME TInv, InTrap, NEW r \in Threads, r = running,
           NEW op \in {"leaf", "switch"}, NEW place \in Locations, TakeTrap(op, place),
           place.of = pc.of, place.level = pc.level,
           Len(frames[r]) = 1 \/ (Len(frames[r]) = 2 /\ Top.op = "switch"),
           Goes(op, Top.op, place.at + 1, saved[r]),
           s = Top.locals, locked' = locked, executed' = executed, ticks' = ticks
    PROVE  TInv'
<1> PICK n \in 1 .. 2 : n = Len(frames[r])
  OBVIOUS
<1>0. n >= 1 /\ 1 \in 1 .. n /\ n \in 1 .. n /\ n + 1 - 1 = n
  <2>1. \A m \in 1 .. 2 : m >= 1 /\ 1 \in 1 .. m /\ m \in 1 .. m /\ m + 1 - 1 = m
    OBVIOUS
  <2> QED
    BY <2>1, Zenon
<1>1. n \in 1 .. 2 /\ pc.level = n /\ pc.level \in 0 .. 2 /\ op \in DOMAIN Steps
  BY StepsOf DEF InTrap
<1>2. /\ frames' \in [Threads -> Seq(Frames)]
      /\ \A t \in Threads \ {r} : frames'[t] = frames[t]
      /\ Len(frames'[r]) = n + 1
      /\ \A i \in 1 .. n : frames'[r][i] = frames[r][i]
      /\ frames'[r][n + 1] = [op |-> op, locals |-> s', t1 |-> t1, s |-> s]
      /\ s' = [sepc |-> Following(place), sstatus |-> sstatus']
      /\ sstatus' \in Sstatus /\ sepc' \in Locations /\ pc' \in Locations
      /\ s' \in Locals /\ mode' = "S" /\ t1' = 0
      /\ pc' = [of |-> pc.of, level |-> pc.level + 1, at |-> 0]
      /\ sstatus' = [SIE |-> FALSE, SPIE |-> sstatus.SIE, SPP |-> mode]
      /\ running' = running /\ context' = context /\ saved' = saved
      /\ halt' = halt /\ own' = own /\ strays' = strays /\ inRegisters' = inRegisters
  BY <1>1, TrapTaken
<1>3. /\ mode = "S" /\ ~sstatus.SIE /\ sstatus.SIE \in BOOLEAN
      /\ r \notin strays => pc.of = r
  BY Typed DEF InTrap, Sstatus
<1>4. Masked(sstatus', FALSE, "S")
  BY <1>2, <1>3 DEF Masked
<1>5. Following(place) = [of |-> pc.of, level |-> n, at |-> place.at + 1]
  BY <1>1, FollowingOf
<1>6. FirstFrame(r)'
  <2>2. FirstFrame(r)
    BY <1>0, StackOf
  <2>3. frames'[r][1] = frames[r][1]
    BY <1>0, <1>2
  <2> QED
    BY <1>2, <2>2, <2>3, SMTT(60) DEF FirstFrame, Base, Own, Privilege
<1>7. NestedFrame(r, n + 1)'
  <2>1. n + 1 - 1 = n /\ frames'[r][n] = Top
    <3>1. Top = frames[r][n]
      BY DEF Top
    <3>2. frames'[r][n] = frames[r][n]
      BY <1>0, <1>2
    <3> QED
      BY <1>0, <3>1, <3>2
  <2>2. /\ frames'[r][n + 1].op = op /\ frames'[r][n + 1].locals = s'
        /\ frames'[r][n + 1].s = s /\ saved'[r] = saved[r]
    BY <1>2
  <2>3. /\ s'.sepc.at = place.at + 1 /\ s'.sepc.level = n /\ s'.sepc.of = pc.of
        /\ s'.sstatus = sstatus'
    BY <1>2, <1>5
  <2>4. r \notin strays' => s'.sepc.of = r
    BY <1>2, <1>3, <2>3
  <2>5. /\ Goes(op, frames'[r][n + 1 - 1].op, place.at + 1, saved[r])
        /\ s = frames'[r][n + 1 - 1].locals
    BY <2>1
  <2>6. Goes(frames'[r][n + 1].op, frames'[r][n + 1 - 1].op,
             frames'[r][n + 1].locals.sepc.at, saved'[r])
    BY <2>2, <2>3, <2>5
  <2>7. /\ frames'[r][n + 1].locals.sepc.level = n + 1 - 1
        /\ r \notin strays' => frames'[r][n + 1].locals.sepc.of = r
        /\ frames'[r][n + 1].s = frames'[r][n + 1 - 1].locals
    BY <1>0, <2>2, <2>3, <2>4, <2>5
  <2>8. Masked(frames'[r][n + 1].locals.sstatus, FALSE, "S")
    BY <1>4, <2>2, <2>3
  <2> QED
    BY <2>6, <2>7, <2>8, SMTT(60) DEF NestedFrame, Goes, Masked
<1>8. Stack(r)'
  <2>1. executed'[r] + ticks'[r] <= MaxAt
    BY StackOf
  <2>2. CASE n = 1
    <3>1. NestedFrame(r, 2)' /\ Len(frames'[r]) = 2
      BY <1>2, <1>7, <2>2
    <3> QED
      BY <1>6, <2>1, <3>1 DEF Stack
  <2>3. CASE n = 2
    <3>1. NestedFrame(r, 2) /\ frames'[r][1] = frames[r][1] /\ frames'[r][2] = frames[r][2]
      <4>1. 1 \in 1 .. n /\ 2 \in 1 .. n /\ Len(frames[r]) >= 2
        BY <2>3
      <4> QED
        BY <1>2, <4>1, StackOf
    <3>2. NestedFrame(r, 2)'
      <4>1. saved'[r] = saved[r] /\ strays' = strays /\ 2 - 1 = 1
        BY <1>2
      <4> QED
        BY <3>1, <4>1 DEF NestedFrame
    <3>3. frames'[r][2].op = "switch"
      BY <2>3, <3>1 DEF Top
    <3>4. NestedFrame(r, 3)' /\ Len(frames'[r]) = 3
      BY <1>2, <1>7, <2>3
    <3> QED
      BY <1>6, <2>1, <3>2, <3>3, <3>4 DEF Stack
  <2> QED
    BY <1>1, <2>2, <2>3
<1>9. InTrap'
  <2>1. /\ Top' = frames'[r][n + 1] /\ frames'[r][n + 1].op = op
        /\ frames'[r][n + 1].locals = s'
    BY <1>2 DEF Top
  <2>2. pc'.level = n + 1 /\ pc'.of = pc.of /\ pc'.at = 0 /\ ~sstatus'.SIE
    BY <1>1, <1>2
  <2>3. frames'[r] # <<>> /\ Len(frames'[r]) = n + 1 /\ running' = r
    BY <1>1, <1>2
  <2>4. 0 \in 0 .. Steps[op] /\ op # "external" /\ op # "bad"
    BY StepsOf
  <2> QED
    BY <1>2, <1>3, <2>1, <2>2, <2>3, <2>4 DEF InTrap
<1> QED
  BY <1>2, <1>8, <1>9, OthersKept, Typed DEF Here

\* Away from a dispatch the s-registers hold the handler's own locals.
LEMMA OwnLocals ==
    ASSUME TInv, NEW op, NEW at, InHandler(op, at), op # "switch" \/ at # 2
    PROVE  s = Top.locals
BY Inside DEF InTrap

\* Before and while it prints, a handler of a bad code is the only one.
LEMMA BadIsFirst ==
    ASSUME TInv, NEW at, InHandler("bad", at)
    PROVE  /\ Len(frames[running]) = 1 /\ FirstFrame(running)
           /\ Top = frames[running][1] /\ saved[running] # "on"
<1>1. Len(frames[running]) = 1
  BY Inside, Depth, NoFrames
<1>2. FirstFrame(running) /\ Top = frames[running][1] /\ Top.op = "bad"
  BY <1>1, StackOf, NoFrames, Inside DEF Top
<1> QED
  BY <1>1, <1>2 DEF FirstFrame

\* A handler's own system call.
LEMMA HandlerEcallInv == TInv /\ HandlerEcall => TInv'
<1> SUFFICES ASSUME TInv, HandlerEcall PROVE TInv'
  OBVIOUS
<1> PICK r \in Threads : r = running
  BY Typed
<1>1. PICK op \in {"call", "switch", "bad"}, at \in {0, 2} :
         /\ InHandler(op, at) /\ at = IF op = "bad" THEN 2 ELSE 0
         /\ op = "bad" => saved[r] # "none"
  BY DEF HandlerEcall
<1>2. /\ InTrap /\ Top.op = op /\ pc.at = at /\ s = Top.locals /\ pc \in Locations
      /\ Len(frames[r]) \in 1 .. 3
  BY <1>1, Inside, OwnLocals, Typed
<1>3. Len(frames[r]) = 1 \/ (Len(frames[r]) = 2 /\ Top.op = "switch")
  <2>1. /\ Len(frames[r]) >= 2 => Top.op \in {"leaf", "switch"}
        /\ Len(frames[r]) = 3 => Top.op = "leaf"
    BY <1>2, Depth DEF InTrap
  <2>2. PICK n \in 1 .. 3 : n = Len(frames[r])
    BY <1>2
  <2>3. Top.op \notin {"leaf"} /\ (Top.op = "switch" \/ Top.op \notin {"leaf", "switch"})
    BY <1>1, <1>2
  <2>4. n >= 2 => Top.op \in {"leaf", "switch"}
    BY <2>1, <2>2
  <2>5. n # 3 /\ (n = 1 \/ (n = 2 /\ Top.op = "switch"))
    BY <2>1, <2>2, <2>3, <2>4
  <2> QED
    BY <2>2, <2>5
<1>4. Goes("leaf", Top.op, pc.at + 1, saved[r])
  <2>1. CASE op = "bad"
    <3>1. saved[r] # "on" /\ saved[r] # "none" /\ saved[r] \in {"none", "on", "off"}
      BY <1>1, <2>1, BadIsFirst, Typed
    <3>2. pc.at + 1 = 3
      BY <1>1, <1>2, <2>1
    <3> QED
      BY <1>2, <2>1, <3>1, <3>2 DEF Goes
  <2>2. CASE op # "bad"
    BY <1>1, <1>2, <2>2 DEF Goes
  <2> QED
    BY <2>1, <2>2
<1>5. TakeTrap("leaf", pc) /\ locked' = locked /\ executed' = executed /\ ticks' = ticks
  BY DEF HandlerEcall
<1> QED
  BY <1>2, <1>3, <1>4, <1>5, InnerTrapInv

\* The dispatch of printString in the handler.
LEMMA SpinInv == TInv /\ Spin => TInv'
<1> SUFFICES ASSUME TInv, Spin PROVE TInv'
  OBVIOUS
<1> PICK r \in Threads : r = running
  BY Typed
<1> DEFINE place == [pc EXCEPT !.at = 0]
<1>1. PICK at \in {0, 1} : InHandler("bad", at)
  BY DEF Spin, TestsLock
<1>2. /\ InTrap /\ Top.op = "bad" /\ pc.at = at /\ s = Top.locals
      /\ Len(frames[r]) = 1 /\ pc \in Locations
  BY <1>1, Inside, OwnLocals, BadIsFirst, Typed
<1>3. /\ place \in Locations
      /\ place = [of |-> pc.of, level |-> pc.level, at |-> 0]
  BY <1>2, ElsewhereIn
<1>4. place.of = pc.of /\ place.level = pc.level /\ place.at + 1 = 1
  BY <1>3
<1>5. saved[r] = "none"
  BY <1>2 DEF InTrap
<1>6. Goes("switch", Top.op, place.at + 1, saved[r])
  BY <1>2, <1>4, <1>5 DEF Goes
<1>7. TakeTrap("switch", place) /\ locked' = locked /\ executed' = executed /\ ticks' = ticks
  BY DEF Spin
<1> HIDE DEF place
<1> QED
  BY <1>2, <1>3, <1>4, <1>6, <1>7, InnerTrapInv

\* What a return leaves of the stack.
LEMMA FramePopped ==
    ASSUME TInv, NEW r \in Threads, r = running, frames[r] # <<>>, PopRegisters,
           UNCHANGED <<kernel, saved, halt, history>>
    PROVE  /\ frames' \in [Threads -> Seq(Frames)]
           /\ \A t \in Threads \ {r} : frames'[t] = frames[t]
           /\ Len(frames[r]) \in 1 .. 3
           /\ Len(frames'[r]) = Len(frames[r]) - 1
           /\ \A i \in 1 .. Len(frames[r]) - 1 : frames'[r][i] = frames[r][i]
           /\ Last(frames[r]) = Top /\ Top \in Frames
           /\ t1' = Top.t1 /\ s' = Top.s
           /\ t1' \in Values \cup {0} /\ s' \in Locals
           /\ Stack(r)'
           /\ UNCHANGED <<inRegisters, locked, running, context, saved, halt, own>>
           /\ UNCHANGED <<executed, ticks, strays>>
<1>1. frames[r] \in Seq(Frames)
  BY Typed
<1>2. /\ Len(frames[r]) \in Nat \ {0}
      /\ Last(frames[r]) = frames[r][Len(frames[r])] /\ Last(frames[r]) \in Frames
      /\ Front(frames[r]) \in Seq(Frames)
      /\ Len(Front(frames[r])) = Len(frames[r]) - 1
      /\ \A i \in 1 .. Len(frames[r]) - 1 : Front(frames[r])[i] = frames[r][i]
  BY <1>1, Popped
<1>3. frames' = [frames EXCEPT ![r] = Front(frames[r])]
  BY DEF PopRegisters
<1>4. Last(frames[r]) = Top
  BY <1>2 DEF Top
<1>5. t1' = Top.t1 /\ s' = Top.s
  BY <1>4 DEF PopRegisters
<1>6. t1' \in Values \cup {0} /\ s' \in Locals
  BY <1>2, <1>4, <1>5 DEF Frames
<1>7. /\ frames' \in [Threads -> Seq(Frames)]
      /\ \A t \in Threads \ {r} : frames'[t] = frames[t]
      /\ frames'[r] = Front(frames[r])
  BY <1>2, <1>3, Typed
<1>8. PICK n \in 1 .. 3 : n = Len(frames[r])
  <2>1. Len(frames[r]) \in 0 .. 3
    BY StackOf
  <2>2. \A k \in 0 .. 3 : k # 0 => k \in 1 .. 3
    OBVIOUS
  <2> QED
    BY <1>2, <2>1, <2>2
<1>9. /\ Len(frames'[r]) = n - 1
      /\ \A i \in 1 .. n - 1 : frames'[r][i] = frames[r][i]
  BY <1>2, <1>7, <1>8
<1>10. /\ UNCHANGED <<inRegisters, locked, running, context, saved, halt, own>>
       /\ UNCHANGED <<executed, ticks, strays>>
  BY DEF kernel, history, counts
<1>11. executed'[r] + ticks'[r] <= MaxAt
  BY <1>10, StackOf
<1>12. Len(frames'[r]) >= 1 => FirstFrame(r)'
  <2> SUFFICES ASSUME n - 1 >= 1 PROVE FirstFrame(r)'
    BY <1>9
  <2>1. 1 \in 1 .. n - 1 /\ Len(frames[r]) >= 1
    BY <1>8
  <2>2. frames'[r][1] = frames[r][1] /\ FirstFrame(r)
    BY <1>9, <2>1, StackOf
  <2> QED
    BY <1>10, <2>2 DEF FirstFrame, Base, Own, Privilege
<1>13. Len(frames'[r]) >= 2 => NestedFrame(r, 2)'
  <2> SUFFICES ASSUME n - 1 >= 2 PROVE NestedFrame(r, 2)'
    BY <1>9
  <2>1. 1 \in 1 .. n - 1 /\ 2 \in 1 .. n - 1 /\ Len(frames[r]) >= 2
    BY <1>8
  <2>2. frames'[r][1] = frames[r][1] /\ frames'[r][2] = frames[r][2] /\ NestedFrame(r, 2)
    BY <1>9, <2>1, StackOf
  <2>3. saved'[r] = saved[r] /\ strays' = strays /\ 2 - 1 = 1
    BY <1>10
  <2> QED
    BY <2>2, <2>3 DEF NestedFrame
<1>14. Len(frames'[r]) <= 3 /\ Len(frames'[r]) # 3
  <2>1. \A m \in 1 .. 3 : m - 1 <= 3 /\ m - 1 # 3
    OBVIOUS
  <2> QED
    BY <1>8, <1>9, <2>1
<1>15. Stack(r)'
  BY <1>11, <1>12, <1>13, <1>14 DEF Stack
<1> QED
  BY <1>2, <1>4, <1>5, <1>6, <1>7, <1>8, <1>9, <1>10, <1>15

\* What sret does with locals of the right types.
LEMMA SretTyped ==
    ASSUME NEW status \in Sstatus, NEW epc \in Locations, Sret(status, epc)
    PROVE  /\ mode' = status.SPP /\ mode' \in {"U", "S"}
           /\ sstatus' = [SIE |-> status.SPIE, SPIE |-> TRUE, SPP |-> "U"]
           /\ sstatus' \in Sstatus /\ (sstatus'.SIE <=> status.SPIE) /\ sstatus'.SPIE
           /\ sepc' = epc /\ pc' = epc /\ sepc' \in Locations /\ pc' \in Locations
<1>1. /\ mode' = status.SPP /\ sepc' = epc /\ pc' = epc
      /\ sstatus' = [SIE |-> status.SPIE, SPIE |-> TRUE, SPP |-> "U"]
  BY DEF Sret
<1>2. status.SPIE \in BOOLEAN /\ status.SPP \in {"U", "S"}
  BY DEF Sstatus
<1>3. sstatus' \in Sstatus /\ (sstatus'.SIE <=> status.SPIE) /\ sstatus'.SPIE
  BY <1>1, <1>2 DEF Sstatus
<1> QED
  BY <1>1, <1>2, <1>3

\* The end of a trap from the thread's own code.
LEMMA BackHome ==
    ASSUME TInv, NEW r \in Threads, r = running, Len(frames[r]) = 1,
           NEW status \in Sstatus, NEW epc \in Locations,
           Sret(status, epc), PopRegisters,
           epc.level = 0, status.SPIE <=> saved[r] = "none",
           r \notin strays => epc = Base(r) /\ status.SPP = Privilege(r),
           saved[r] # "off", saved[r] = "on" => status.SPP = "S",
           UNCHANGED <<kernel, saved, halt, history>>
    PROVE  TInv'
<1>1. frames[r] # <<>>
  BY EmptySeq
<1>2. /\ frames' \in [Threads -> Seq(Frames)]
      /\ \A t \in Threads \ {r} : frames'[t] = frames[t]
      /\ Len(frames'[r]) = Len(frames[r]) - 1
      /\ t1' = Top.t1
      /\ t1' \in Values \cup {0} /\ s' \in Locals /\ Stack(r)'
      /\ UNCHANGED <<inRegisters, locked, running, context, saved, halt, own>>
      /\ UNCHANGED <<executed, ticks, strays>>
  BY <1>1, FramePopped
<1>3. t1' = own'[r]
  <2>1. Len(frames[r]) >= 1
    OBVIOUS
  <2>2. FirstFrame(r)
    BY <2>1, StackOf
  <2>3. Top = frames[r][1]
    BY DEF Top
  <2> QED
    BY <1>2, <2>2, <2>3 DEF FirstFrame
<1>4. frames'[r] = <<>>
  <2>1. Len(frames'[r]) = 0 /\ frames'[r] \in Seq(Frames)
    BY <1>2
  <2> QED
    BY <2>1, EmptySeq
<1>5. /\ mode' = status.SPP /\ mode' \in {"U", "S"}
      /\ sstatus' \in Sstatus /\ (sstatus'.SIE <=> status.SPIE)
      /\ sepc' = epc /\ pc' = epc /\ sepc' \in Locations /\ pc' \in Locations
  BY SretTyped
<1>6. saved[r] \in {"none", "on"} /\ saved[r] \in {"none", "on", "off"}
  BY Typed
<1>7. Base(running)' = Base(r)
  BY <1>2 DEF Base
<1>8. InOwn'
  BY <1>2, <1>3, <1>4, <1>5, <1>6, <1>7 DEF InOwn, Privilege
<1> QED
  BY <1>2, <1>5, <1>8, OthersKept, Typed DEF Here

\* The end of a handler's own system call.
LEMMA BackInside ==
    ASSUME TInv, NEW r \in Threads, r = running, frames[r] # <<>>,
           NEW n \in 2 .. 3, n = Len(frames[r]),
           NEW status \in Sstatus, NEW epc \in Locations,
           Sret(status, epc), PopRegisters,
           epc.level = n - 1, Masked(status, FALSE, "S"),
           r \notin strays => epc.of = r,
           Goes(frames[r][n].op, frames[r][n - 1].op, epc.at, saved[r]),
           UNCHANGED <<kernel, saved, halt, history>>
    PROVE  TInv'
<1>1. /\ frames' \in [Threads -> Seq(Frames)]
      /\ \A t \in Threads \ {r} : frames'[t] = frames[t]
      /\ Len(frames'[r]) = n - 1
      /\ \A i \in 1 .. n - 1 : frames'[r][i] = frames[r][i]
      /\ s' = Top.s /\ Top = frames[r][n]
      /\ t1' \in Values \cup {0} /\ s' \in Locals /\ Stack(r)'
      /\ UNCHANGED <<inRegisters, locked, running, context, saved, halt, own>>
      /\ UNCHANGED <<executed, ticks, strays>>
  BY FramePopped DEF Top
<1>2. /\ mode' = status.SPP /\ mode' \in {"U", "S"}
      /\ sstatus' \in Sstatus /\ (sstatus'.SIE <=> status.SPIE) /\ sstatus'.SPIE
      /\ sepc' = epc /\ pc' = epc /\ sepc' \in Locations /\ pc' \in Locations
  BY SretTyped
<1>3. mode' = "S" /\ ~sstatus'.SIE
  BY <1>2 DEF Masked
<1>4. n - 1 \in 1 .. n - 1 /\ n - 1 >= 1 /\ n >= 2 /\ (n = 2 \/ n = 3)
  <2>1. \A m \in 2 .. 3 : m - 1 \in 1 .. m - 1 /\ m - 1 >= 1 /\ m >= 2 /\ (m = 2 \/ m = 3)
    OBVIOUS
  <2> QED
    BY <2>1
<1> DEFINE g == frames[r][n - 1]
<1>5. s' = g.locals
  <2>1. NestedFrame(r, n)
    BY <1>4, StackOf
  <2> QED
    BY <1>1, <2>1 DEF NestedFrame
<1>6. Top' = g
  <2>1. Top' = frames'[r][Len(frames'[r])]
    BY <1>1 DEF Top
  <2>2. frames'[r][n - 1] = frames[r][n - 1]
    BY <1>1, <1>4
  <2> QED
    BY <1>1, <2>1, <2>2
<1>7. frames'[r] # <<>>
  <2>1. Len(<<>>) = 0 /\ n - 1 # 0
    BY <1>4
  <2> QED
    BY <1>1, <2>1, Zenon
<1>8. /\ g.op \in {"call", "switch", "bad"} /\ epc.at \in Nat
      /\ epc.at \in 0 .. Steps[g.op]
      /\ g.op = "switch" => epc.at # 2
      /\ g.op = "bad" /\ epc.at < 2 => saved[r] = "none"
  BY StepsOf DEF Goes
<1>9. InTrap'
  <2>1. running' = r /\ pc'.level = Len(frames'[r]) /\ (r \notin strays' => pc'.of = r)
    BY <1>1, <1>2
  <2> HIDE DEF g
  <2> QED
    BY <1>1, <1>2, <1>3, <1>5, <1>6, <1>7, <1>8, <2>1 DEF InTrap
<1> QED
  BY <1>1, <1>2, <1>9, OthersKept, Typed DEF Here

\* The end of a handler with locals that belong to another depth.
LEMMA GoesAstray ==
    ASSUME TInv, NEW r \in Threads, r = running, frames[r] # <<>>,
           NEW status \in Sstatus, NEW epc \in Locations,
           Sret(status, epc), PopRegisters,
           r \in strays, saved[r] = "none", epc.level # Len(frames[r]) - 1,
           epc.level > 0 => epc.at = 1 /\ Masked(status, FALSE, "S"),
           UNCHANGED <<kernel, saved, halt, history>>
    PROVE  TInv'
<1>1. /\ frames' \in [Threads -> Seq(Frames)]
      /\ \A t \in Threads \ {r} : frames'[t] = frames[t]
      /\ Len(frames'[r]) = Len(frames[r]) - 1
      /\ t1' \in Values \cup {0} /\ s' \in Locals /\ Stack(r)'
      /\ UNCHANGED <<inRegisters, locked, running, context, saved, halt, own>>
      /\ UNCHANGED <<executed, ticks, strays>>
  BY FramePopped
<1>2. /\ mode' = status.SPP /\ mode' \in {"U", "S"}
      /\ sstatus' \in Sstatus /\ (sstatus'.SIE <=> status.SPIE)
      /\ sepc' = epc /\ pc' = epc /\ sepc' \in Locations /\ pc' \in Locations
  BY SretTyped
<1>3. Lost'
  BY <1>1, <1>2 DEF Lost, Masked
<1> QED
  BY <1>1, <1>2, <1>3, OthersKept, Typed DEF Here

\* Where the handler finds its locals when it returns: its own, or those that
\* were passed on by the thread that dispatched to it.
LEMMA LocalsAtReturn ==
    ASSUME TInv, NEW op, NEW at, InHandler(op, at)
    PROVE  /\ HandlerLocals \in Locals
           /\ \/ HandlerLocals = Top.locals
              \/ op = "switch" /\ running \in strays /\ Passed(HandlerLocals)
<1>1. /\ InTrap /\ Top.op = op /\ Top \in Frames /\ frames[running] # <<>>
      /\ s \in Locals /\ Last(frames[running]) = Top
  BY Inside, Typed DEF InTrap, Top, Last
<1>2. Top.locals \in Locals
  BY <1>1 DEF Frames
<1>3. CASE inRegisters
  <2>1. HandlerLocals = s
    BY <1>3 DEF HandlerLocals
  <2> QED
    BY <1>1, <1>3, <2>1 DEF InTrap
<1>4. CASE ~inRegisters
  <2>1. HandlerLocals = Top.locals
    BY <1>1, <1>4 DEF HandlerLocals
  <2> QED
    BY <1>2, <2>1
<1> QED
  BY <1>3, <1>4

\* The end of an ecall or of the timer's handler.
LEMMA ReturnInv == TInv /\ Return => TInv'
<1> SUFFICES ASSUME TInv, Return PROVE TInv'
  OBVIOUS
<1> PICK r \in Threads : r = running
  BY Typed
<1>1. PICK op \in Calls \cup {"timer"} : AtReturn(op)
  BY DEF Return
<1>2. /\ InHandler(op, Steps[op]) /\ (op = "bad" => saved[r] = "none")
      /\ op # "external"
  BY <1>1 DEF AtReturn, Calls
<1> DEFINE l == HandlerLocals
<1>3. /\ l \in Locals
      /\ l = Top.locals \/ (op = "switch" /\ r \in strays /\ Passed(l))
  BY <1>2, LocalsAtReturn
<1>4. l.sepc \in Locations /\ l.sstatus \in Sstatus
  BY <1>3 DEF Locals
<1>5. /\ Sret(l.sstatus, l.sepc) /\ PopRegisters
      /\ UNCHANGED <<kernel, saved, halt, history>>
  BY DEF Return
<1>6. /\ InTrap /\ Top.op = op /\ frames[r] # <<>> /\ Top = frames[r][Len(frames[r])]
      /\ Len(frames[r]) \in 1 .. 3
  BY <1>2, Inside DEF InTrap
<1> HIDE DEF l
<1>7. PICK n \in 1 .. 3 : n = Len(frames[r])
  BY <1>6
<1>8. /\ n >= 2 => op \in {"leaf", "switch"}
      /\ n = 3 => op = "leaf"
  BY <1>6, <1>7, Depth
<1>9. saved[r] \in {"none", "on", "off"}
  BY Typed
<1>10. CASE n = 1
  <2>1. FirstFrame(r) /\ frames[r][1] = Top /\ frames[r][1].op = op
    BY <1>6, <1>7, <1>10, StackOf
  <2>2. CASE l = Top.locals
    <3>1. /\ l.sepc.level = 0 /\ Masked(l.sstatus, op = "bad" \/ saved[r] = "none", l.sstatus.SPP)
          /\ r \notin strays => l.sstatus.SPP = Privilege(r) /\ l.sepc = Base(r)
          /\ saved[r] = "on" => l.sstatus.SPP = "S"
          /\ saved[r] = "off" => op = "bad"
      BY <1>2, <2>1, <2>2 DEF FirstFrame
    <3>2. l.sstatus.SPIE <=> saved[r] = "none"
      BY <1>2, <3>1 DEF Masked
    <3>3. saved[r] # "off"
      BY <1>2, <3>1
    <3> QED
      BY <1>4, <1>5, <1>7, <1>10, <3>1, <3>2, <3>3, BackHome
  <2>3. CASE op = "switch" /\ r \in strays /\ Passed(l)
    <3>1. saved[r] = "none"
      BY <1>9, <2>1, <2>3 DEF FirstFrame
    <3>2. CASE l.sepc.level = 0 /\ Masked(l.sstatus, TRUE, l.sstatus.SPP)
      <4>1. l.sstatus.SPIE <=> saved[r] = "none"
        BY <3>1, <3>2 DEF Masked
      <4> QED
        BY <1>4, <1>5, <1>7, <1>10, <2>3, <3>1, <3>2, <4>1, BackHome
    <3>3. CASE l.sepc.level = 1 /\ l.sepc.at = 1 /\ Masked(l.sstatus, FALSE, "S")
      <4>1. l.sepc.level # Len(frames[r]) - 1
        BY <1>7, <1>10, <3>3
      <4> QED
        BY <1>4, <1>5, <1>6, <2>3, <3>1, <3>3, <4>1, GoesAstray
    <3> QED
      BY <2>3, <3>2, <3>3 DEF Passed
  <2> QED
    BY <1>3, <2>2, <2>3
<1>11. CASE n \in 2 .. 3
  <2>1. NestedFrame(r, n) /\ frames[r][n] = Top
    <3>1. n = 2 \/ n = 3
      BY <1>11
    <3> QED
      BY <1>6, <1>7, <3>1, StackOf
  <2>2. CASE l = Top.locals
    <3>1. /\ l.sepc.level = n - 1 /\ Masked(l.sstatus, FALSE, "S")
          /\ r \notin strays => l.sepc.of = r
          /\ Goes(frames[r][n].op, frames[r][n - 1].op, l.sepc.at, saved[r])
      BY <2>1, <2>2 DEF NestedFrame
    <3> QED
      BY <1>4, <1>5, <1>6, <1>7, <1>11, <3>1, BackInside
  <2>3. CASE op = "switch" /\ r \in strays /\ Passed(l)
    <3>1. n = 2 /\ n - 1 = 1
      BY <1>8, <1>11, <2>3
    <3>2. frames[r][1].op = "bad" /\ saved[r] = "none" /\ frames[r][2].op = "switch"
      BY <1>6, <2>1, <2>3, <3>1 DEF NestedFrame, Goes
    <3>3. CASE l.sepc.level = 1 /\ l.sepc.at = 1 /\ Masked(l.sstatus, FALSE, "S")
      <4>1. Goes(frames[r][n].op, frames[r][n - 1].op, l.sepc.at, saved[r])
        BY <3>1, <3>2, <3>3 DEF Goes
      <4>2. l.sepc.level = n - 1
        BY <3>1, <3>3
      <4> QED
        BY <1>4, <1>5, <1>6, <1>7, <1>11, <2>3, <3>3, <4>1, <4>2, BackInside
    <3>4. CASE l.sepc.level = 0 /\ Masked(l.sstatus, TRUE, l.sstatus.SPP)
      <4>1. l.sepc.level # Len(frames[r]) - 1 /\ ~(l.sepc.level > 0)
        BY <1>7, <3>1, <3>4
      <4> QED
        BY <1>4, <1>5, <1>6, <2>3, <3>2, <4>1, GoesAstray
    <3> QED
      BY <2>3, <3>3, <3>4 DEF Passed
  <2> QED
    BY <1>3, <2>2, <2>3
<1> QED
  BY <1>10, <1>11

\* The end of the console's handler.
LEMMA ExternalReturnInv == TInv /\ ExternalReturn => TInv'
<1> SUFFICES ASSUME TInv, ExternalReturn PROVE TInv'
  OBVIOUS
<1> PICK r \in Threads : r = running
  BY Typed
<1>1. InHandler("external", Steps["external"])
  BY DEF ExternalReturn, AtReturn
<1>2. /\ InTrap /\ Top.op = "external" /\ frames[r] # <<>>
      /\ Len(frames[r]) \in 1 .. 3 /\ Top = frames[r][Len(frames[r])]
  BY <1>1, Inside DEF InTrap
<1>3. Len(frames[r]) = 1
  BY <1>2, Depth
<1>4. FirstFrame(r) /\ frames[r][1] = Top
  BY <1>2, <1>3, StackOf
<1>5. /\ sstatus = Top.locals.sstatus /\ sepc.level = 0
      /\ r \notin strays => sepc = Base(r)
  BY <1>2 DEF InTrap
<1>6. /\ sstatus.SPIE <=> saved[r] = "none"
      /\ saved[r] # "off" /\ saved[r] # "on"
      /\ r \notin strays => sstatus.SPP = Privilege(r)
  BY <1>2, <1>4, <1>5 DEF FirstFrame, Masked
<1>7. sstatus \in Sstatus /\ sepc \in Locations
  BY Typed
<1> QED
  BY <1>3, <1>5, <1>6, <1>7, BackHome DEF ExternalReturn

\* printString gets its lock.
LEMMA LockPrintInv == TInv /\ LockPrint => TInv'
<1> SUFFICES ASSUME TInv, LockPrint PROVE TInv'
  OBVIOUS
<1> PICK r \in Threads : r = running
  BY Typed
<1>1. PICK at \in {0, 1} : InHandler("bad", at)
  BY DEF LockPrint, TestsLock
<1>2. InTrap /\ Top.op = "bad" /\ s = Top.locals /\ pc \in Locations
  BY <1>1, Inside, OwnLocals, Typed
<1>3. /\ pc' = [of |-> pc.of, level |-> pc.level, at |-> 2] /\ pc' \in Locations
  <2>1. pc' = [pc EXCEPT !.at = 2]
    BY DEF LockPrint
  <2> QED
    BY <1>2, <2>1, ElsewhereIn
<1>4. /\ UNCHANGED <<mode, sstatus, sepc, t1, s, inRegisters, locked, running, context>>
      /\ UNCHANGED <<frames, saved, halt, own, executed, ticks, strays>>
  BY DEF LockPrint, csrVars, kernel, history, counts
<1>5. Top' = Top /\ 2 \in 0 .. Steps["bad"]
  BY <1>4, StepsOf DEF Top
<1>6. InTrap'
  BY <1>2, <1>3, <1>4, <1>5 DEF InTrap
<1>7. Stack(r)'
  <2>1. Stack(r)
    BY DEF TInv
  <2> QED
    BY <1>4, <2>1 DEF Stack, FirstFrame, NestedFrame, Base
<1> QED
  BY <1>3, <1>4, <1>6, <1>7, OthersKept, Typed DEF Here

\* popSppSpie, and with it the start of a thread.
LEMMA PopSppSpieInv == TInv /\ PopSppSpie => TInv'
<1> SUFFICES ASSUME TInv, PopSppSpie PROVE TInv'
  OBVIOUS
<1> PICK r \in Threads : r = running
  BY Typed
<1>1. InWrapper
  <2>1. frames[r] = <<>> /\ pc.level = 1 /\ pc.at = 0
    BY DEF PopSppSpie, Wrapper
  <2> QED
    BY <2>1 DEF TInv, Here, InOwn, InTrap, Lost
<1>2. /\ frames[r] = <<>> /\ Len(frames[r]) = 0 /\ saved[r] = "none"
      /\ executed[r] = 0 /\ ticks[r] = 0 /\ sstatus.SPIE
  BY <1>1 DEF InWrapper, Fresh
<1> DEFINE status == [sstatus EXCEPT !.SPP = Privilege(r)]
<1>3. /\ own' = [own EXCEPT ![r] = t1] /\ Sret(status, Own(r, 0))
      /\ UNCHANGED <<t1, s, inRegisters, locked, running, context>>
      /\ UNCHANGED <<frames, saved, halt, executed, ticks, strays>>
  BY DEF PopSppSpie, kernel
<1>4. /\ status = [SIE |-> sstatus.SIE, SPIE |-> sstatus.SPIE, SPP |-> Privilege(r)]
      /\ status \in Sstatus
  <2>1. status = [SIE |-> sstatus.SIE, SPIE |-> sstatus.SPIE, SPP |-> Privilege(r)]
    BY Typed, SppSet
  <2> QED
    BY <2>1, Typed DEF Sstatus, Privilege
<1>5. Own(r, 0) \in Locations
  BY DEF Own, Locations
<1> HIDE DEF status
<1>6. /\ mode' = Privilege(r) /\ mode' \in {"U", "S"}
      /\ sstatus' \in Sstatus /\ sstatus'.SIE
      /\ pc' = Own(r, 0) /\ sepc' \in Locations /\ pc' \in Locations
  <2>1. /\ mode' = status.SPP /\ mode' \in {"U", "S"}
        /\ sstatus' \in Sstatus /\ (sstatus'.SIE <=> status.SPIE)
        /\ pc' = Own(r, 0) /\ sepc' \in Locations /\ pc' \in Locations
    BY <1>3, <1>4, <1>5, SretTyped
  <2>2. status.SPP = Privilege(r) /\ (status.SPIE <=> sstatus.SPIE)
    BY <1>4
  <2> QED
    BY <1>2, <2>1, <2>2
<1>7. /\ own' \in [Threads -> Values \cup {0}] /\ own'[r] = t1'
      /\ \A t \in Threads \ {r} : own'[t] = own[t]
  BY <1>3, Typed
<1>8. pc' = Base(running)'
  BY <1>2, <1>3, <1>6 DEF Base
<1>9. InOwn'
  <2>1. pc'.level = 0
    BY <1>6 DEF Own
  <2> QED
    BY <1>2, <1>3, <1>6, <1>7, <1>8, <2>1 DEF InOwn, Privilege
<1>10. Stack(r)'
  <2>1. executed'[r] + ticks'[r] <= MaxAt /\ Len(frames'[r]) = 0
    BY <1>2, <1>3, StackOf
  <2> QED
    BY <2>1 DEF Stack
<1> QED
  BY <1>3, <1>6, <1>7, <1>9, <1>10, OthersKept, Typed DEF Here


\* What a dispatch finds, and leaves in the s-registers for the next thread.
LEMMA Dispatching ==
    ASSUME TInv, InHandler("switch", 1)
    PROVE  /\ Len(frames[running]) \in {1, 2}
           /\ Top = frames[running][Len(frames[running])] /\ Top.op = "switch"
           /\ mode = "S" /\ ~sstatus.SIE /\ sstatus.SPIE
           /\ s = Top.locals /\ Passed(s)
<1>1. /\ InTrap /\ Top.op = "switch" /\ pc.at = 1 /\ frames[running] # <<>>
      /\ Len(frames[running]) \in 1 .. 3
      /\ Top = frames[running][Len(frames[running])]
  BY Inside DEF InTrap
<1>2. Len(frames[running]) \in {1, 2}
  <2>1. PICK n \in 1 .. 3 : n = Len(frames[running])
    BY <1>1
  <2>2. n # 3
    BY <1>1, <2>1, Depth
  <2> QED
    BY <2>1, <2>2
<1>3. mode = "S" /\ ~sstatus.SIE /\ sstatus.SPIE /\ s = Top.locals
  BY <1>1 DEF InTrap
<1>4. CASE Len(frames[running]) = 1
  <2>1. /\ FirstFrame(running) /\ frames[running][1] = Top
        /\ saved[running] \in {"none", "on", "off"}
    BY <1>1, <1>4, StackOf, Typed
  <2>2. saved[running] = "none"
    BY <1>1, <2>1 DEF FirstFrame
  <2>3. s.sepc.level = 0 /\ Masked(s.sstatus, TRUE, s.sstatus.SPP)
    BY <1>3, <2>1, <2>2 DEF FirstFrame, Masked
  <2> QED
    BY <1>1, <1>2, <1>3, <2>3 DEF Passed
<1>5. CASE Len(frames[running]) = 2
  <2>1. NestedFrame(running, 2) /\ frames[running][2] = Top
    <3>1. running \in Threads
      BY Typed
    <3> QED
      BY <1>1, <1>5, <3>1, StackOf
  <2>2. s.sepc.level = 1 /\ s.sepc.at = 1 /\ Masked(s.sstatus, FALSE, "S")
    BY <1>1, <1>3, <2>1 DEF NestedFrame, Goes, Masked
  <2> QED
    BY <1>1, <1>2, <1>3, <2>2 DEF Passed
<1> QED
  BY <1>2, <1>4, <1>5

\* contextSwitch: the thread that stops stands where a dispatch comes back to,
\* and the one that goes on begins, or becomes a stray if the build makes it one.
LEMMA ContextSwitchInv == ASSUME TInv, NEW u \in Threads, ContextSwitch(u) PROVE TInv'
<1> PICK r \in Threads : r = running
  BY Typed
<1>1. /\ Len(frames[r]) \in {1, 2}
      /\ Top = frames[r][Len(frames[r])] /\ Top.op = "switch"
      /\ mode = "S" /\ ~sstatus.SIE /\ sstatus.SPIE
      /\ s = Top.locals /\ Passed(s)
  BY Dispatching DEF ContextSwitch
<1>2. /\ running' = u /\ context' = [context EXCEPT ![r] = "handler"]
      /\ pc' = IF context'[u] = "wrapper"
                  THEN Wrapper(u)
                  ELSE [of |-> u, level |-> Len(frames[u]), at |-> 2]
      /\ strays' = IF inRegisters /\ u # r /\ context[u] = "handler"
                      THEN strays \cup {u}
                      ELSE strays
  BY DEF ContextSwitch
<1>3. /\ UNCHANGED <<mode, sstatus, sepc, t1, s, inRegisters, locked>>
      /\ UNCHANGED <<frames, saved, halt, own, executed, ticks>>
  BY DEF ContextSwitch, csrVars, counts
<1>4. /\ context' \in [Threads -> {"wrapper", "handler"}]
      /\ context'[r] = "handler"
      /\ \A t \in Threads \ {r} : context'[t] = context[t]
  BY <1>2, Typed
<1>5. /\ strays' \subseteq Threads /\ \A t \in Threads : t \in strays => t \in strays'
      /\ \A t \in Threads \ {u} : t \in strays' <=> t \in strays
  BY <1>2, Typed
<1>6. \A t \in Threads : Stack(t)'
  <2> SUFFICES ASSUME NEW t \in Threads PROVE Stack(t)'
    OBVIOUS
  <2>1. Stack(t) /\ (t \notin strays' => t \notin strays)
    BY <1>5 DEF TInv
  <2>2. FirstFrame(t) => FirstFrame(t)'
    BY <1>3, <2>1 DEF FirstFrame, Base, Own, Privilege, Masked, Following
  <2>3. \A i \in {2, 3} : NestedFrame(t, i) => NestedFrame(t, i)'
    BY <1>3, <2>1 DEF NestedFrame, Goes, Masked
  <2>4. frames'[t] = frames[t] /\ executed'[t] = executed[t] /\ ticks'[t] = ticks[t]
    BY <1>3
  <2> QED
    BY <2>1, <2>2, <2>3, <2>4 DEF Stack
<1>7. \A t \in Threads \ {r} : Away(t)
  BY DEF TInv
<1>8. \A t \in Threads \ {u} : Away(t)'
  <2> SUFFICES ASSUME NEW t \in Threads \ {u} PROVE Away(t)'
    OBVIOUS
  <2>1. CASE t = r
    BY <1>1, <1>3, <1>4, <2>1 DEF Away
  <2>2. CASE t # r
    <3>1. context'[t] = context[t] /\ (t \in strays' <=> t \in strays) /\ Away(t)
      BY <1>4, <1>5, <1>7, <2>2
    <3> QED
      BY <1>3, <3>1 DEF Away, Fresh
  <2> QED
    BY <2>1, <2>2
<1>9. CASE context'[u] = "wrapper"
  <2>1. u # r /\ context[u] = "wrapper"
    BY <1>4, <1>9
  <2>2. Fresh(u) /\ strays' = strays
    BY <1>2, <1>7, <2>1 DEF Away
  <2>3. pc' = Wrapper(u) /\ pc' \in Locations
    BY <1>2, <1>9 DEF Wrapper, Locations
  <2>4. InWrapper'
    BY <1>1, <1>2, <1>3, <2>2, <2>3 DEF InWrapper, Fresh, Wrapper
  <2>5. TypeOK'
    BY <1>2, <1>3, <1>4, <1>5, <2>3 DEF TInv, TypeOK
  <2> QED
    BY <1>2, <1>3, <1>6, <1>8, <2>4, <2>5, Typed DEF TInv, Here
<1>10. CASE context'[u] = "handler"
  <2>1. /\ Len(frames[u]) \in {1, 2} /\ frames[u][Len(frames[u])].op = "switch"
        /\ u # r => context[u] = "handler"
    <3>1. CASE u = r
      BY <1>1, <3>1
    <3>2. CASE u # r
      BY <1>4, <1>7, <1>10, <3>2 DEF Away
    <3> QED
      BY <3>1, <3>2
  <2>2. /\ pc' = [of |-> u, level |-> Len(frames[u]), at |-> 2]
        /\ pc'.of = u /\ pc'.level = Len(frames[u]) /\ pc'.at = 2
    BY <1>2, <1>10
  <2>3. pc' \in Locations
    <3>1. Len(frames[u]) \in 0 .. 3 /\ 2 \in Nat
      BY StackOf
    <3> QED
      BY <2>2, <3>1 DEF Locations
  <2>4. Top' = frames[u][Len(frames[u])]
    BY <1>2, <1>3 DEF Top
  <2>5. inRegisters => \/ s = frames[u][Len(frames[u])].locals
                       \/ u \in strays' /\ Passed(s)
    BY <1>1, <1>2, <2>1
  <2>6. frames[u] # <<>> /\ 2 \in 0 .. Steps["switch"]
    <3>1. Len(<<>>) \notin {1, 2}
      OBVIOUS
    <3>2. frames[u] # <<>>
      BY <2>1, <3>1, Zenon
    <3> QED
      BY <3>2, StepsOf
  <2>7. InTrap'
    <3>1. Passed(s)' <=> Passed(s)
      BY <1>3 DEF Passed, Masked
    <3> QED
      BY <1>1, <1>2, <1>3, <2>1, <2>2, <2>4, <2>5, <2>6, <3>1 DEF InTrap
  <2>8. TypeOK'
    BY <1>2, <1>3, <1>4, <1>5, <2>3 DEF TInv, TypeOK
  <2> QED
    BY <1>2, <1>3, <1>6, <1>8, <2>7, <2>8, Typed DEF TInv, Here
<1> QED
  BY <1>4, <1>9, <1>10

\* A print function masks interrupts, or faults in user mode.
LEMMA PrintBeginInv == TInv /\ PrintBegin => TInv'
<1> SUFFICES ASSUME TInv, PrintBegin PROVE TInv'
  OBVIOUS
<1> PICK r \in Threads : r = running
  BY Typed
<1>1. /\ saved[r] = "none"
      /\ InOwnCode \/ InHandler("bad", 2)
      /\ UNCHANGED <<mode, sepc, pc, t1, s, inRegisters, locked, running, context>>
      /\ UNCHANGED <<frames, own, executed, ticks, strays>>
  BY DEF PrintBegin, Prints, kernel, history, counts
<1>2. Stack(r)
  BY DEF TInv
<1>3. CASE mode = "U"
  <2>1. /\ halt' = "fault" /\ saved' = saved /\ sstatus' = sstatus
    BY <1>3 DEF PrintBegin
  <2>2. InOwn
    BY <1>1, <1>3, RunsOwnCode, Inside DEF InTrap
  <2>3. InOwn'
    BY <1>1, <2>1, <2>2 DEF InOwn, Base, Own, Privilege
  <2>4. Stack(r)'
    BY <1>1, <1>2, <2>1 DEF Stack, FirstFrame, NestedFrame, Base
  <2> QED
    BY <1>1, <2>1, <2>3, <2>4, OthersKept, Typed DEF Here
<1>4. CASE mode = "S"
  <2>1. /\ saved' = [saved EXCEPT ![r] = IF sstatus.SIE THEN "on" ELSE "off"]
        /\ sstatus' = [sstatus EXCEPT !.SIE = FALSE] /\ halt' = halt
    BY <1>4 DEF PrintBegin
  <2>2. /\ sstatus' = [SIE |-> FALSE, SPIE |-> sstatus.SPIE, SPP |-> sstatus.SPP]
        /\ sstatus' \in Sstatus
    <3>1. [sstatus EXCEPT !.SIE = FALSE] =
             [SIE |-> FALSE, SPIE |-> sstatus.SPIE, SPP |-> sstatus.SPP]
      BY Typed, SieSet
    <3> QED
      BY <2>1, <3>1, Typed DEF Sstatus
  <2>3. /\ saved' \in [Threads -> {"none", "on", "off"}]
        /\ saved'[r] = IF sstatus.SIE THEN "on" ELSE "off"
        /\ \A t \in Threads \ {r} : saved'[t] = saved[t]
    BY <2>1, Typed
  <2>4. CASE InOwnCode
    <3>1. InOwn /\ frames[r] = <<>> /\ Len(frames[r]) = 0 /\ sstatus.SIE
      BY <1>1, <2>4, RunsOwnCode DEF InOwn
    <3>2. saved'[r] = "on" /\ ~sstatus'.SIE
      BY <2>2, <2>3, <3>1
    <3>3. InOwn'
      BY <1>1, <1>4, <3>1, <3>2 DEF InOwn, Base, Own, Privilege
    <3>4. Stack(r)'
      BY <1>1, <1>2, <3>1 DEF Stack
    <3> QED
      BY <1>1, <2>1, <2>2, <2>3, <3>3, <3>4, OthersKept, Typed DEF Here
  <2>5. CASE InHandler("bad", 2)
    <3>1. /\ InTrap /\ Top.op = "bad" /\ pc.at = 2 /\ Len(frames[r]) = 1
          /\ FirstFrame(r) /\ frames[r][1] = Top /\ ~sstatus.SIE
      BY <2>5, Inside, BadIsFirst DEF InTrap
    <3>2. saved'[r] = "off" /\ ~sstatus'.SIE
      BY <2>2, <2>3, <3>1
    <3>3. InTrap'
      <4>1. Top' = Top
        BY <1>1 DEF Top
      <4>2. ~(2 < 2)
        OBVIOUS
      <4> QED
        BY <1>1, <1>4, <3>1, <3>2, <4>1, <4>2 DEF InTrap, Passed, Masked
    <3>4. FirstFrame(r)'
      BY <1>1, <3>1, <3>2 DEF FirstFrame, Base, Own, Privilege, Masked
    <3>5. Stack(r)'
      BY <1>1, <1>2, <3>1, <3>4 DEF Stack
    <3> QED
      BY <1>1, <2>1, <2>2, <2>3, <3>3, <3>5, OthersKept, Typed DEF Here
  <2> QED
    BY <1>1, <2>4, <2>5
<1> QED
  BY <1>3, <1>4, Typed

\* Its end sets SIE if it was set.
LEMMA PrintEndInv == TInv /\ PrintEnd => TInv'
<1> SUFFICES ASSUME TInv, PrintEnd PROVE TInv'
  OBVIOUS
<1> PICK r \in Threads : r = running
  BY Typed
<1>1. /\ saved[r] # "none"
      /\ InOwnCode \/ InHandler("bad", 3)
      /\ UNCHANGED <<mode, sepc, pc, t1, s, inRegisters, locked, running, context>>
      /\ UNCHANGED <<frames, halt, own, executed, ticks, strays>>
  BY DEF PrintEnd, kernel, history, counts
<1>2. Stack(r)
  BY DEF TInv
<1>3. /\ saved' = [saved EXCEPT ![r] = "none"]
      /\ sstatus' = [sstatus EXCEPT !.SIE = @ \/ saved[r] = "on"]
  BY DEF PrintEnd
<1>4. /\ saved' \in [Threads -> {"none", "on", "off"}] /\ saved'[r] = "none"
      /\ \A t \in Threads \ {r} : saved'[t] = saved[t]
  BY <1>3, Typed
<1>5. sstatus.SIE \in BOOLEAN /\ sstatus.SPIE \in BOOLEAN /\ sstatus.SPP \in {"U", "S"}
  BY Typed DEF Sstatus
<1>6. sstatus' = [SIE |-> (sstatus.SIE \/ saved[r] = "on"),
                  SPIE |-> sstatus.SPIE, SPP |-> sstatus.SPP]
  <2>1. [sstatus EXCEPT !.SIE = (sstatus.SIE \/ saved[r] = "on")] =
           [SIE |-> (sstatus.SIE \/ saved[r] = "on"),
            SPIE |-> sstatus.SPIE, SPP |-> sstatus.SPP]
    BY Typed, SieSet
  <2> QED
    BY <1>3, <2>1
<1>7. sstatus' \in Sstatus
  BY <1>5, <1>6 DEF Sstatus
<1>8. CASE InOwnCode
  <2>1. /\ InOwn /\ frames[r] = <<>> /\ Len(frames[r]) = 0 /\ saved[r] = "on"
    BY <1>1, <1>8, RunsOwnCode DEF InOwn
  <2>2. sstatus'.SIE
    BY <1>6, <2>1
  <2>3. InOwn'
    BY <1>1, <1>4, <2>1, <2>2 DEF InOwn, Base, Own, Privilege
  <2>4. Stack(r)'
    BY <1>1, <1>2, <2>1 DEF Stack
  <2> QED
    BY <1>1, <1>4, <1>7, <2>3, <2>4, OthersKept, Typed DEF Here
<1>9. CASE InHandler("bad", 3)
  <2>1. /\ InTrap /\ Top.op = "bad" /\ Len(frames[r]) = 1
        /\ FirstFrame(r) /\ frames[r][1] = Top /\ ~sstatus.SIE
        /\ saved[r] # "on"
    BY <1>9, Inside, BadIsFirst DEF InTrap
  <2>2. ~sstatus'.SIE
    BY <1>6, <2>1
  <2>3. InTrap'
    <3>1. Top' = Top
      BY <1>1 DEF Top
    <3> QED
      BY <1>1, <1>4, <2>1, <2>2, <3>1 DEF InTrap, Passed, Masked
  <2>4. FirstFrame(r)'
    BY <1>1, <1>4, <2>1 DEF FirstFrame, Base, Own, Privilege, Masked
  <2>5. Stack(r)'
    BY <1>1, <1>2, <2>1, <2>4 DEF Stack
  <2> QED
    BY <1>1, <1>4, <1>7, <2>3, <2>5, OthersKept, Typed DEF Here
<1> QED
  BY <1>1, <1>8, <1>9

\* No step breaks the invariant.
LEMMA TrapStepInv == TInv /\ [Next]_vars => TInv'
<1> SUFFICES ASSUME TInv, [Next]_vars PROVE TInv'
  OBVIOUS
<1>1. CASE \E op \in Calls : Ecall(op)
  BY <1>1, EcallInv
<1>2. CASE \E u \in Threads : ContextSwitch(u)
  BY <1>2, ContextSwitchInv
<1>3. CASE UNCHANGED vars
  <2>1. /\ UNCHANGED <<mode, sstatus, sepc, pc, t1, s, inRegisters, locked>>
        /\ UNCHANGED <<running, context, frames, saved, halt, own>>
        /\ UNCHANGED <<executed, ticks, strays>>
    BY <1>3 DEF vars, csrVars, kernel, history, counts
  <2>2. TypeOK' /\ frames' \in [Threads -> Seq(Frames)]
    BY <2>1 DEF TInv, TypeOK
  <2>3. \A t \in Threads : Stack(t)'
    BY <2>1, ZenonT(60) DEF TInv, Stack, FirstFrame, NestedFrame, Base
  <2>4. \A t \in Threads \ {running'} : Away(t)'
    BY <2>1 DEF TInv, Away, Fresh
  <2>5. Here'
    BY <2>1 DEF TInv, Here, InOwn, InWrapper, InTrap, Lost, Fresh, Base, Top, Passed
  <2> QED
    BY <2>2, <2>3, <2>4, <2>5 DEF TInv
<1> QED
  BY <1>1, <1>2, <1>3, ExecuteInv, TimerInv, ExternalInv, HandlerEcallInv, LockPrintInv,
     SpinInv, PopSppSpieInv, ReturnInv, ExternalReturnInv, PrintBeginInv, PrintEndInv
     DEF Next

-----------------------------------------------------------------------------
(* The theorems.  They hold in every build that Builds allows: what one    *)
(* with the handler's locals in s-registers breaks is not assumed away,    *)
(* but said of the strays.                                                 *)

\* The invariant of the hart and of every stack, for any number of threads and
\* wherever the handler's locals are.
THEOREM TrapInvariance == Spec => []TInv
<1> QED
  BY TrapInit, TrapStepInv, PTL DEF Spec

\* Type correctness; no stack holds more than three activations of the handler.
THEOREM TrapTypes == Spec => []TypeOK
<1>1. TInv => TypeOK
  BY DEF TInv
<1> QED
  BY <1>1, TrapInvariance, PTL

\* No nested call, no loop on the lock and no dispatch makes a handler return to
\* a place that is not its own thread's, but for the strays.
THEOREM Home == Spec => []ReturnsHome
<1>1. TInv => ReturnsHome
  <2> SUFFICES ASSUME TInv PROVE ReturnsHome
    OBVIOUS
  <2>1. CASE InOwn
    <3>1. /\ frames[running] = <<>> /\ pc.level = 0
          /\ running \notin strays => pc.of = running
      BY <2>1 DEF InOwn, Base, Own
    <3>2. Len(frames[running]) = 0
      BY <3>1
    <3> QED
      BY <3>1, <3>2 DEF ReturnsHome
  <2>2. CASE InWrapper
    BY <2>2 DEF InWrapper, Fresh, Wrapper, ReturnsHome
  <2>3. CASE InTrap
    BY <2>3 DEF InTrap, ReturnsHome
  <2>4. CASE Lost
    BY <2>4 DEF Lost, ReturnsHome
  <2> QED
    BY <2>1, <2>2, <2>3, <2>4 DEF TInv, Here
<1> QED
  BY <1>1, TrapInvariance, PTL

\* A thread's own code is masked only while it prints, in every build, and runs
\* in its own mode unless the thread is a stray.
THEOREM OwnStatusKept == Spec => []OwnStatus
<1>1. TInv => OwnStatus
  BY OwnCode DEF InOwn, OwnStatus
<1> QED
  BY <1>1, TrapInvariance, PTL

\* Interrupts stay away from handlers, from threadWrapper and from what is
\* being printed, so that only a handler's own calls nest, in every build.
THEOREM MaskedInKernel == Spec => []KernelMasked
<1>1. TInv => KernelMasked
  <2> SUFFICES ASSUME TInv PROVE KernelMasked
    OBVIOUS
  <2>1. ASSUME NEW t \in Threads
        PROVE  /\ Len(frames[t]) <= 3
               /\ Len(frames[t]) >= 2 /\ frames[t][2].op # "leaf" =>
                     frames[t][2].op = "switch" /\ frames[t][1].op = "bad"
               /\ Len(frames[t]) = 3 => frames[t][2].op = "switch" /\ frames[t][3].op = "leaf"
    <3>1. Stack(t) /\ 2 - 1 = 1 /\ 3 - 1 = 2
      BY DEF TInv
    <3> QED
      BY <3>1 DEF Stack, NestedFrame, Goes
  <2>2. pc.level > 0 \/ saved[running] # "none" => ~Enabled
    <3>1. pc.level \in 0 .. 3
      BY Typed DEF Locations
    <3> QED
      BY <3>1, Interrupted
  <2> QED
    BY <2>1, <2>2 DEF KernelMasked
<1> QED
  BY <1>1, TrapInvariance, PTL

\* A thread finds its registers as it left them, in every build.
THEOREM RegistersKept == Spec => []RegisterKept
<1>1. TInv => RegisterKept
  BY OwnCode DEF InOwn, RegisterKept
<1> QED
  BY <1>1, TrapInvariance, PTL

\* Only timer interrupts make a thread skip an instruction, one each; only a
\* stray may repeat or lose others.
THEOREM EveryInstructionOnce == Spec => []OnlyTimerSkips
<1>1. TInv => OnlyTimerSkips
  <2> SUFFICES ASSUME TInv, running \notin strays, pc.level = 0
               PROVE  pc.at = executed[running] + ticks[running]
    BY DEF OnlyTimerSkips
  <2>1. InOwn
    <3>1. ~(0 > 0)
      OBVIOUS
    <3>2. frames[running] # <<>> => Len(frames[running]) # 0
      BY NoFrames
    <3> QED
      BY <3>2 DEF TInv, Here, InWrapper, Wrapper, InTrap, Lost
  <2> QED
    BY <2>1 DEF InOwn, Base, Own
<1> QED
  BY <1>1, TrapInvariance, PTL
=============================================================================
