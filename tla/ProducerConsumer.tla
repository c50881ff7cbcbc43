-------------------------- MODULE ProducerConsumer --------------------------
(***************************************************************************)
(* The bounded buffer of src/test/buffer.cpp and the program that tests it *)
(* (ConsumerProducer_C_API_test.cpp; the C++ twins differ in notation), as *)
(* threads over the abstract semaphores, which Kernel implements.          *)
(*                                                                         *)
(* Threads interleave at every call and at every access to the buffer: the *)
(* kernel switches at fewer places, but the buffer is written for one that *)
(* may switch anywhere.                                                    *)
(***************************************************************************)
EXTENDS Semaphores, FiniteSets

CONSTANTS
    Main,           \* the thread that runs producerConsumer_C_API
    Consumer,
    Keyboard,       \* producerKeyboard
    Producers,      \* the other producers there may be
    Sizes,          \* the answers to "velicinu bafera"
    Bang            \* the '!' that producerKeyboard puts last

ASSUME ThreadsAssumption ==
    /\ Cardinality({Main, Consumer, Keyboard}) = 3
    /\ Producers \cap {Main, Consumer, Keyboard} = {}
    /\ Threads = {Main, Consumer, Keyboard} \cup Producers
    /\ Bang \notin Threads
ASSUME SemsAssumption ==
    Sems = {"itemAvailable", "spaceAvailable", "mutexHead", "mutexTail", "waitForAll"}
ASSUME SizesAssumption ==
    Sizes \subseteq Nat /\ IsFiniteSet(Producers) /\ Sizes \cup {0, 1} \subseteq InitValues

VARIABLES
    at,             \* the next step of each thread
    n,              \* the size of the buffer, 0 before it is made
    producers,      \* the producers that were created
    cells, head, tail,
    key,            \* what the consumer got last
    count,          \* what getCnt returned to each thread
    threadEnd,
    joined          \* how often main has waited on waitForAll

bufferVars == <<cells, head, tail>>
localVars == <<n, producers, key, count, threadEnd, joined>>
programVars == <<at, bufferVars, localVars>>
allVars == <<vars, programVars>>

cap == n + 1
threadNum == Cardinality(producers)

Senders == {Keyboard} \cup Producers
Values == Senders \cup {Bang}

\* A producer puts its id, the keyboard what is typed (its id here).
Value(t) == IF t = Keyboard /\ threadEnd THEN Bang ELSE t

ProgramInit ==
    /\ Init
    /\ at = [t \in Threads |-> IF t = Main THEN "input" ELSE "none"]
    /\ n = 0 /\ producers = {}
    /\ cells = <<>> /\ head = 0 /\ tail = 0
    /\ key = Keyboard
    /\ count = [t \in {Main, Consumer} |-> 0]
    /\ threadEnd = FALSE
    /\ joined = 0

At(t, step) == at[t] = step /\ Active(t)
Goto(t, step) == at' = [at EXCEPT ![t] = step]

-----------------------------------------------------------------------------
(* Buffer.  What a put or get returns to is the loop of its caller.        *)

WaitOn(t, step, s, then) ==
    /\ At(t, step) /\ Wait(t, s) /\ Goto(t, then)
    /\ UNCHANGED <<bufferVars, localVars>>

\* put without mutexTail.
PutEntersBugLock(t) ==
    /\ At(t, "put") /\ Wait(t, "spaceAvailable") /\ Goto(t, "putCell")
    /\ UNCHANGED <<bufferVars, localVars>>

PutEnters(t) == \/ WaitOn(t, "put", "spaceAvailable", "putLock")
                \/ WaitOn(t, "putLock", "mutexTail", "putCell")

PutCell(t) ==
    /\ At(t, "putCell")
    /\ cells' = [cells EXCEPT ![tail] = Value(t)]
    /\ Goto(t, "putTail")
    /\ UNCHANGED <<vars, head, tail, localVars>>

PutTail(t) ==
    /\ At(t, "putTail")
    /\ tail' = (tail + 1) % cap
    /\ Signal(t, "mutexTail")
    /\ Goto(t, "putItem")
    /\ UNCHANGED <<cells, head, localVars>>

PutItem(t) ==
    /\ At(t, "putItem") /\ Signal(t, "itemAvailable")
    /\ Goto(t, IF t = Keyboard /\ ~threadEnd THEN "key"
               ELSE IF t = Keyboard THEN "signal" ELSE "loop")
    /\ UNCHANGED <<bufferVars, localVars>>

GetEnters == \/ WaitOn(Consumer, "get", "itemAvailable", "getLock")
             \/ WaitOn(Consumer, "getLock", "mutexHead", "getCell")

GetCell ==
    /\ At(Consumer, "getCell")
    /\ key' = cells[head]
    /\ head' = (head + 1) % cap
    /\ Signal(Consumer, "mutexHead")
    /\ Goto(Consumer, "getSpace")
    /\ UNCHANGED <<cells, tail, n, producers, count, threadEnd, joined>>

\* get signals itemAvailable for spaceAvailable.
GetSpaceBugItem ==
    /\ At(Consumer, "getSpace") /\ Signal(Consumer, "itemAvailable")
    /\ Goto(Consumer, "loop")
    /\ UNCHANGED <<bufferVars, localVars>>

GetSpace ==
    /\ At(Consumer, "getSpace") /\ Signal(Consumer, "spaceAvailable")
    /\ Goto(Consumer, "loop")
    /\ UNCHANGED <<bufferVars, localVars>>

CountEnters(t) == \/ WaitOn(t, "getCnt", "mutexHead", "cntTail")
                  \/ WaitOn(t, "cntTail", "mutexTail", "cnt")

Cnt(t) ==
    /\ At(t, "cnt")
    /\ count' = [count EXCEPT ![t] = IF tail >= head THEN tail - head
                                                     ELSE cap - head + tail]
    /\ Signal(t, "mutexTail")
    /\ Goto(t, "cntHead")
    /\ UNCHANGED <<bufferVars, n, producers, key, threadEnd, joined>>

CntReturns(t, more, last) ==
    /\ At(t, "cntHead") /\ Signal(t, "mutexHead")
    /\ Goto(t, IF count[t] > 0 THEN more ELSE last)
    /\ UNCHANGED <<bufferVars, localVars>>

-----------------------------------------------------------------------------
(* The threads.                                                            *)

\* A key, or the one that ends the test.
KeyboardGets ==
    /\ At(Keyboard, "key")
    /\ threadEnd' \in BOOLEAN
    /\ Goto(Keyboard, "put")
    /\ UNCHANGED <<vars, bufferVars, n, producers, key, count, joined>>

\* The heads of the loops of producer and consumer.  threadEnd is never
\* reset, so that the consumer's two loops are one.
Loop(t, on, over) ==
    /\ At(t, "loop")
    /\ Goto(t, IF threadEnd THEN over ELSE on)
    /\ UNCHANGED <<vars, bufferVars, localVars>>

Ends(t) ==
    /\ At(t, "signal") /\ Signal(t, "waitForAll")
    /\ Goto(t, "done")
    /\ UNCHANGED <<bufferVars, localVars>>

ProducerStep(t) ==
    /\ t # Main
    /\ PutEnters(t) \/ PutCell(t) \/ PutTail(t) \/ PutItem(t) \/ Ends(t)

ConsumerStep ==
    \/ Loop(Consumer, "get", "getCnt")
    \/ GetEnters \/ GetCell \/ GetSpace
    \/ CountEnters(Consumer) \/ Cnt(Consumer) \/ CntReturns(Consumer, "get", "signal")

-----------------------------------------------------------------------------
(* producerConsumer_C_API.                                                 *)

\* `threadNum > n` is not asked for.
MainInputBugCheck ==
    /\ At(Main, "input")
    /\ producers' \in {{}} \cup {{Keyboard} \cup p : p \in SUBSET Producers}
    /\ n' \in IF producers' # {} THEN Sizes \ {0} ELSE {0}
    /\ Goto(Main, IF producers' # {} THEN "open" ELSE "done")
    /\ cells' = [i \in 0 .. n' |-> Keyboard]
    /\ UNCHANGED <<vars, head, tail, key, count, threadEnd, joined>>

\* The answers, and what is refused: more producers than places, or none.
MainInput ==
    /\ At(Main, "input")
    /\ producers' \in {{}} \cup {{Keyboard} \cup p : p \in SUBSET Producers}
    /\ \E size \in Sizes :
          LET refused == Cardinality(producers') > size \/ producers' = {}
          IN  /\ n' = IF refused THEN 0 ELSE size
              /\ Goto(Main, IF refused THEN "done" ELSE "open")
    /\ cells' = [i \in 0 .. n' |-> Keyboard]
    /\ UNCHANGED <<vars, head, tail, key, count, threadEnd, joined>>

\* The constructor of Buffer and the sem_open after it.
Initial(s) ==
    CASE s \in {"itemAvailable", "waitForAll"} -> 0
      [] s = "spaceAvailable" -> n
      [] s \in {"mutexHead", "mutexTail"} -> 1

OpenOrder == <<"itemAvailable", "spaceAvailable", "mutexHead", "mutexTail", "waitForAll">>

MainOpens ==
    /\ At(Main, "open")
    /\ LET s == OpenOrder[Cardinality(open) + 1] IN
       /\ Open(Main, s) /\ units'[s] = Initial(s)
       /\ Goto(Main, IF s = "waitForAll" THEN "create" ELSE "open")
    /\ UNCHANGED <<bufferVars, localVars>>

\* Nobody runs before the thread_dispatch after the last creation.
MainCreates ==
    /\ At(Main, "create")
    /\ at' = [t \in Threads |-> CASE t = Main -> "join"
                                  [] t = Keyboard -> "key"
                                  [] t \in {Consumer} \cup (producers \ {Keyboard}) -> "loop"
                                  [] OTHER -> "none"]
    /\ UNCHANGED <<vars, bufferVars, localVars>>

\* `i < threadNum` for `i <= threadNum`.
MainJoinsBugOne ==
    /\ At(Main, "join") /\ Wait(Main, "waitForAll")
    /\ joined' = joined + 1
    /\ Goto(Main, IF joined' = threadNum THEN "close" ELSE "join")
    /\ UNCHANGED <<bufferVars, n, producers, key, count, threadEnd>>

MainJoins ==
    /\ At(Main, "join") /\ Wait(Main, "waitForAll")
    /\ joined' = joined + 1
    /\ Goto(Main, IF joined' = threadNum + 1 THEN "close" ELSE "join")
    /\ UNCHANGED <<bufferVars, n, producers, key, count, threadEnd>>

CloseOrder == <<"itemAvailable", "spaceAvailable", "mutexTail", "mutexHead">>

\* sem_close(waitForAll), and those at the end of ~Buffer.
MainCloses ==
    /\ \/ /\ At(Main, "close") /\ Close(Main, "waitForAll")
          /\ Goto(Main, "getCnt")
       \/ /\ At(Main, "free")
          /\ LET s == CloseOrder[5 - Cardinality(open)] IN
             /\ Close(Main, s)
             /\ Goto(Main, IF s = "mutexHead" THEN "done" ELSE "free")
    /\ UNCHANGED <<bufferVars, localVars>>

\* ~Buffer prints what is left.
MainDrains ==
    /\ At(Main, "drain")
    /\ key' = cells[head]
    /\ head' = (head + 1) % cap
    /\ Goto(Main, "getCnt")
    /\ UNCHANGED <<vars, cells, tail, n, producers, count, threadEnd, joined>>

MainStep ==
    \/ MainInput \/ MainOpens \/ MainCreates \/ MainJoins \/ MainCloses
    \/ CountEnters(Main) \/ Cnt(Main) \/ CntReturns(Main, "drain", "free") \/ MainDrains

-----------------------------------------------------------------------------

Step(t) ==
    \/ WaitReturns(t) /\ UNCHANGED programVars
    \/ t = Main /\ MainStep
    \/ t = Consumer /\ (ConsumerStep \/ Ends(t))
    \/ t = Keyboard /\ (KeyboardGets \/ ProducerStep(t))
    \/ t \in Producers /\ (Loop(t, "put", "signal") \/ ProducerStep(t))

ProgramNext == \E t \in Threads : Step(t)

ProgramSpec == ProgramInit /\ [][ProgramNext]_allVars

\* Every thread that can go on does: the kernel is fair to ready threads as
\* long as those that run call thread_dispatch (Boot, ReadyRuns), which the
\* loops above do.
LiveProgramSpec == ProgramSpec /\ \A t \in Threads : WF_allVars(Step(t))

-----------------------------------------------------------------------------

\* What the buffer holds: the cells from head up to tail.
Contents == [i \in 1 .. (tail - head) % cap |-> cells[(head + i - 1) % cap]]

\* The puts whose item is not in the buffer yet.
Putting == [t \in Senders |-> IF at[t] \in {"put", "putLock", "putCell", "putTail"}
                             THEN Value(t) ELSE Main]

Abstract == INSTANCE Channel WITH Nothing <- Main, Bounds <- Sizes, bound <- n,
                                  putting <- Putting, queue <- Contents, received <- key

\* put and get are the two ends of a channel of n values, whoever calls them
\* when (no item is lost, repeated or overwritten on its way), and so is the
\* emptying by ~Buffer.
ImplementsChannel == Abstract!Spec

\* Each place of the buffer is free, or full, or promised to a put that waits
\* for the lock or is at work, or about to be given back by a get; until
\* ~Buffer, when nobody puts any more.
PlacesAccountedFor ==
    "spaceAvailable" \in open /\ at[Main] \in {"create", "join"} =>
       LET promised == {t \in Senders : /\ at[t] \in {"putLock", "putCell", "putTail"}
                                        /\ t \notin Range(waiters["spaceAvailable"])}
           freed    == {t \in {Consumer} : at[t] = "getSpace"}
       IN  units["spaceAvailable"] + Len(Contents) + Cardinality(promised \cup freed) = n

\* The buffer outlives its users: the semaphores of a thread that is not
\* done are open, and nobody waits on one that is closed.
UsersBeforeDelete ==
    /\ (\E t \in Threads \ {Main} : at[t] \notin {"none", "done"}) => open = Sems
    /\ \A t \in Threads : outcome[t] # "closed"

\* The program ends after the key that ends it: nobody is left waiting for
\* room, for an item or for a signal.
Finishes == threadEnd ~> at[Main] = "done" /\ open = {}

\* While the keys come, every put returns.
PutsReturn ==
    \A t \in Producers \cup {Keyboard} :
       at[t] = "put" ~> at[t] \in {"key", "loop", "signal"}
=============================================================================
