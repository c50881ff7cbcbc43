----------------------- MODULE ProducerConsumerProofs -----------------------
(***************************************************************************)
(* The program of producers and consumer for any number of producers and   *)
(* any sizes: it makes only calls that Semaphores has, no place of the     *)
(* buffer is lost, and the buffer is deleted after its last use.           *)
(***************************************************************************)
EXTENDS ProducerConsumer, FiniteSetTheorems, TLAPS

MainSteps == {"input", "open", "create", "join", "close", "getCnt", "cntTail",
              "cnt", "cntHead", "drain", "free", "done"}
ConsumerSteps == {"none", "loop", "get", "getLock", "getCell", "getSpace", "getCnt",
                  "cntTail", "cnt", "cntHead", "signal", "done"}
SenderSteps == {"none", "key", "loop", "put", "putLock", "putCell", "putTail",
                "putItem", "signal", "done"}
StepsOf(t) == IF t = Main THEN MainSteps
              ELSE IF t = Consumer THEN ConsumerSteps ELSE SenderSteps

SemTypes ==
    /\ open \subseteq Sems
    /\ units \in [Sems -> Nat]
    /\ waiters \in [Sems -> Seq(Threads)]
    /\ outcome \in [Threads -> {"none", "granted"}]

StepTypes ==
    /\ at \in [Threads -> MainSteps \cup ConsumerSteps \cup SenderSteps]
    /\ \A t \in Threads : at[t] \in StepsOf(t)

LocalTypes ==
    /\ n \in Nat /\ head \in 0 .. n /\ tail \in 0 .. n /\ joined \in Nat
    /\ producers \subseteq Senders

\* Who waits on s is about to take this step.
Queued(step, s) ==
    \/ s = "spaceAvailable" /\ step = "putLock"
    \/ s = "itemAvailable" /\ step = "getLock"
    \/ s = "mutexTail" /\ step \in {"putCell", "cnt"}
    \/ s = "mutexHead" /\ step \in {"getCell", "cntTail"}
    \/ s = "waitForAll" /\ step \in {"join", "close"}

Queues ==
    \A s \in Sems : /\ IsInjective(waiters[s])
                    /\ \A t \in Range(waiters[s]) : Queued(at[t], s)

\* The threads that a place of the buffer is promised to or that give one
\* back, those with an item to announce or to take, and those that are over.
Outside(s, steps) == {t \in Threads : at[t] \in steps /\ t \notin Range(waiters[s])}
HeldSteps == {"putLock", "putCell", "putTail", "getSpace"}
ItemSteps == {"putItem", "getLock", "getCell"}
Held == Outside("spaceAvailable", HeldSteps)
Announcing == Outside("itemAvailable", ItemSteps)
Done == {t \in Threads \ {Main} : at[t] = "done"}

Buffered == (tail - head) % (n + 1)

Places == units["spaceAvailable"] + Buffered + Cardinality(Held) = n
Items == units["itemAvailable"] + Cardinality(Announcing) = Buffered
Joins == units["waitForAll"] + joined = Cardinality(Done) + Len(waiters["waitForAll"])

\* The semaphores that are open while the first ones are opened.
Opened(k) == {OpenOrder[i] : i \in 1 .. k}
Opening == \E k \in 0 .. 4 : /\ open = Opened(k)
                             /\ \A s \in open : units[s] = Initial(s)

PInv ==
    /\ SemTypes /\ StepTypes /\ LocalTypes /\ Queues
    /\ at[Main] \in {"input", "open", "create"} =>
          /\ joined = 0 /\ head = 0 /\ tail = 0
          /\ \A s \in Sems : waiters[s] = <<>>
          /\ \A t \in Threads \ {Main} : at[t] = "none"
    /\ at[Main] = "input" => open = {}
    /\ at[Main] = "open" => Opening
    /\ at[Main] \in {"open", "create"} => Keyboard \in producers
    /\ at[Main] \in {"create", "join", "close"} => open = Sems /\ Places /\ Items /\ Joins
    /\ at[Main] = "close" => joined = threadNum + 1
    /\ at[Main] \notin {"join", "close"} =>
          \A t \in Threads \ {Main} : at[t] \in {"none", "done"}
    /\ \A t \in Threads \ ({Main, Consumer} \cup producers) : at[t] = "none"

-----------------------------------------------------------------------------
(* Facts about the constants, sets and queues.                             *)

\* The three threads that are always there are three.
LEMMA Distinct ==
    /\ Main \in Threads /\ Consumer \in Threads /\ Keyboard \in Threads
    /\ Main # Consumer /\ Main # Keyboard /\ Consumer # Keyboard
    /\ Senders \subseteq Threads /\ Main \notin Senders /\ Consumer \notin Senders
    /\ \A t \in Threads : t = Main \/ t = Consumer \/ t \in Senders
    /\ IsFiniteSet(Threads) /\ IsFiniteSet(Senders)
<1>1. \A a, b : IsFiniteSet({a, b}) /\ Cardinality({a, b}) <= 2
  <2> SUFFICES ASSUME NEW a, NEW b PROVE IsFiniteSet({a, b}) /\ Cardinality({a, b}) <= 2
    OBVIOUS
  <2>1. IsFiniteSet({b}) /\ Cardinality({b}) = 1
    BY FS_Singleton
  <2>2. {a, b} = {b} \cup {a}
    OBVIOUS
  <2> QED
    BY <2>1, <2>2, FS_AddElement
<1>2. Cardinality({Main, Consumer, Keyboard}) = 3
  BY ThreadsAssumption
<1>3. Main # Consumer
  <2> SUFFICES ASSUME Main = Consumer PROVE FALSE
    OBVIOUS
  <2>1. {Main, Consumer, Keyboard} = {Main, Keyboard}
    OBVIOUS
  <2>2. Cardinality({Main, Keyboard}) <= 2 /\ Cardinality({Main, Keyboard}) = 3
    BY <1>1, <1>2, <2>1
  <2> QED
    BY <2>2
<1>4. Main # Keyboard
  <2> SUFFICES ASSUME Main = Keyboard PROVE FALSE
    OBVIOUS
  <2>1. {Main, Consumer, Keyboard} = {Main, Consumer}
    OBVIOUS
  <2>2. Cardinality({Main, Consumer}) <= 2 /\ Cardinality({Main, Consumer}) = 3
    BY <1>1, <1>2, <2>1
  <2> QED
    BY <2>2
<1>5. Consumer # Keyboard
  <2> SUFFICES ASSUME Consumer = Keyboard PROVE FALSE
    OBVIOUS
  <2>1. {Main, Consumer, Keyboard} = {Main, Consumer}
    OBVIOUS
  <2>2. Cardinality({Main, Consumer}) <= 2 /\ Cardinality({Main, Consumer}) = 3
    BY <1>1, <1>2, <2>1
  <2> QED
    BY <2>2
<1>6. IsFiniteSet(Senders)
  <2>1. Senders = Producers \cup {Keyboard}
    BY DEF Senders
  <2> QED
    BY <2>1, SizesAssumption, FS_AddElement
<1>7. IsFiniteSet(Threads)
  <2>1. Threads = (Senders \cup {Consumer}) \cup {Main}
    BY ThreadsAssumption DEF Senders
  <2>2. IsFiniteSet(Senders \cup {Consumer})
    BY <1>6, FS_AddElement
  <2> QED
    BY <2>1, <2>2, FS_AddElement
<1> QED
  BY <1>3, <1>4, <1>5, <1>6, <1>7, ThreadsAssumption DEF Senders

\* One thread is in a set of threads or not, before and after.
In(t, S) == IF t \in S THEN 1 ELSE 0

\* A set that changes by one thread at most.
LEMMA ByOne ==
    ASSUME NEW S, NEW T, S \subseteq Threads, T \subseteq Threads, NEW t \in Threads,
           \A x \in Threads : x # t => (x \in S <=> x \in T)
    PROVE  /\ Cardinality(S) \in Nat /\ Cardinality(T) \in Nat
           /\ Cardinality(T) = Cardinality(S) + In(t, T) - In(t, S)
           /\ In(t, T) \in {0, 1} /\ In(t, S) \in {0, 1}
           /\ Cardinality(S) >= In(t, S)
<1>1. IsFiniteSet(S) /\ IsFiniteSet(T)
  BY Distinct, FS_Subset
<1>2. Cardinality(S) \in Nat /\ Cardinality(T) \in Nat
  BY <1>1, FS_CardinalityType
<1>3. t \in S => Cardinality(S \ {t}) = Cardinality(S) - 1
  BY <1>1, FS_RemoveElement
<1>4. t \in S => Cardinality(S \ {t}) \in Nat
  BY <1>1, FS_RemoveElement, FS_CardinalityType
<1>5. CASE t \in S /\ t \in T
  <2>1. S = T
    BY <1>5
  <2> QED
    BY <1>2, <1>3, <1>4, <1>5, <2>1 DEF In
<1>6. CASE t \in S /\ t \notin T
  <2>1. T = S \ {t}
    BY <1>6
  <2> QED
    BY <1>2, <1>3, <1>6, <2>1 DEF In
<1>7. CASE t \notin S /\ t \in T
  <2>1. T = S \cup {t}
    BY <1>7
  <2>2. Cardinality(T) = Cardinality(S) + 1
    BY <1>1, <1>7, <2>1, FS_AddElement
  <2> QED
    BY <1>2, <1>7, <2>2 DEF In
<1>8. CASE t \notin S /\ t \notin T
  <2>1. S = T
    BY <1>8
  <2> QED
    BY <1>2, <1>8, <2>1 DEF In
<1> QED
  BY <1>5, <1>6, <1>7, <1>8

\* A thread that queues up.
LEMMA AppendQueue ==
    ASSUME NEW q \in Seq(Threads), NEW x \in Threads
    PROVE  /\ Append(q, x) \in Seq(Threads)
           /\ Len(Append(q, x)) = Len(q) + 1
           /\ Range(Append(q, x)) = Range(q) \cup {x}
           /\ IsInjective(q) /\ x \notin Range(q) => IsInjective(Append(q, x))
<1>1. /\ Append(q, x) \in Seq(Threads) /\ Len(Append(q, x)) = Len(q) + 1
      /\ DOMAIN Append(q, x) = 1 .. Len(q) + 1 /\ DOMAIN q = 1 .. Len(q)
      /\ Len(q) \in Nat
      /\ Append(q, x)[Len(q) + 1] = x
      /\ \A i \in 1 .. Len(q) : Append(q, x)[i] = q[i]
  OBVIOUS
<1>2. Range(Append(q, x)) = Range(q) \cup {x}
  BY <1>1 DEF Range
<1>3. IsInjective(q) /\ x \notin Range(q) => IsInjective(Append(q, x))
  BY <1>1 DEF Range, IsInjective
<1> QED
  BY <1>1, <1>2, <1>3

\* A thread that is woken.
LEMMA TailQueue ==
    ASSUME NEW q \in Seq(Threads), q # <<>>, IsInjective(q)
    PROVE  /\ Head(q) \in Threads /\ Tail(q) \in Seq(Threads)
           /\ Head(q) \in Range(q)
           /\ Len(Tail(q)) = Len(q) - 1
           /\ Range(Tail(q)) = Range(q) \ {Head(q)}
           /\ IsInjective(Tail(q))
<1>1. /\ Head(q) = q[1] /\ Tail(q) \in Seq(Threads) /\ Len(Tail(q)) = Len(q) - 1
      /\ DOMAIN Tail(q) = 1 .. Len(q) - 1 /\ DOMAIN q = 1 .. Len(q)
      /\ Len(q) \in Nat \ {0}
      /\ \A i \in 1 .. Len(q) - 1 : Tail(q)[i] = q[i + 1]
      /\ \A i \in 1 .. Len(q) : q[i] \in Threads
  OBVIOUS
<1>2. Head(q) \in Range(q) /\ Head(q) \in Threads
  BY <1>1 DEF Range
<1>3. ASSUME NEW x \in Range(q), x # Head(q) PROVE x \in Range(Tail(q))
  <2>1. PICK i \in 1 .. Len(q) : q[i] = x
    BY <1>1 DEF Range
  <2>2. i - 1 \in 1 .. Len(q) - 1 /\ Tail(q)[i - 1] = q[i]
    BY <1>1, <1>3, <2>1
  <2> QED
    BY <1>1, <2>1, <2>2 DEF Range
<1>4. Range(Tail(q)) \subseteq Range(q)
  BY <1>1 DEF Range
<1>5. IsInjective(Tail(q)) /\ Head(q) \notin Range(Tail(q))
  BY <1>1 DEF Range, IsInjective
<1> QED
  BY <1>1, <1>2, <1>3, <1>4, <1>5

-----------------------------------------------------------------------------
(* What the calls do to the queues of a program.                           *)

Stays(s) == units'[s] = units[s] /\ waiters'[s] = waiters[s]
Free(t) == t \in Threads /\ \A s \in Sems : t \notin Range(waiters[s])
Steps(t, step) == at' = [at EXCEPT ![t] = step] /\ step \in StepsOf(t)

\* Nobody else moves.
LEMMA StepTyped ==
    ASSUME StepTypes, NEW t \in Threads, NEW step, Steps(t, step)
    PROVE  StepTypes' /\ at'[t] = step /\ \A x \in Threads : x # t => at'[x] = at[x]
<1>1. /\ at' = [at EXCEPT ![t] = step]
      /\ at \in [Threads -> MainSteps \cup ConsumerSteps \cup SenderSteps]
      /\ step \in MainSteps \cup ConsumerSteps \cup SenderSteps
  BY DEF Steps, StepsOf, StepTypes
<1>2. at'[t] = step /\ \A x \in Threads : x # t => at'[x] = at[x]
  BY <1>1
<1>3. at' \in [Threads -> MainSteps \cup ConsumerSteps \cup SenderSteps]
  BY <1>1
<1>4. \A x \in Threads : at'[x] \in StepsOf(x)
  BY <1>2 DEF StepTypes, Steps
<1> QED
  BY <1>2, <1>3, <1>4 DEF StepTypes, StepsOf

\* A wait takes a unit, or queues its caller up.
Enters(t, s) ==
    /\ Range(waiters'[s]) = Range(waiters[s]) \cup {t}
    /\ Len(waiters'[s]) = Len(waiters[s]) + 1

\* Of sem_wait, which queues its caller up for what it does next.
LEMMA WaitMoves ==
    ASSUME SemTypes, StepTypes, Queues, NEW t \in Threads, NEW s \in Sems, Wait(t, s),
           NEW step, Steps(t, step), Queued(step, s)
    PROVE  /\ SemTypes' /\ Queues' /\ open' = open /\ Free(t)
           /\ \A x \in Sems : x # s => Stays(x)
           /\ \/ units'[s] = units[s] - 1 /\ waiters'[s] = waiters[s]
              \/ units'[s] = units[s] /\ Enters(t, s)
<1>1. /\ Free(t) /\ open' = open /\ outcome' = outcome /\ s \in open
      /\ waiters \in [Sems -> Seq(Threads)] /\ units \in [Sems -> Nat]
  BY DEF Wait, Active, Free, SemTypes
<1>2. at'[t] = step /\ \A x \in Threads : x # t => at'[x] = at[x]
  BY StepTyped
<1>3. CASE /\ units[s] > 0 /\ units' = [units EXCEPT ![s] = @ - 1] /\ waiters' = waiters
  <2>1. SemTypes'
    BY <1>1, <1>3 DEF SemTypes
  <2>2. Queues'
    BY <1>1, <1>2, <1>3 DEF Queues, Free, Range
  <2> QED
    BY <1>1, <1>3, <2>1, <2>2 DEF Stays
<1>4. CASE /\ units' = units /\ waiters' = [waiters EXCEPT ![s] = Append(@, t)]
  <2> DEFINE q == waiters[s]
  <2>1. /\ q \in Seq(Threads) /\ IsInjective(q) /\ t \notin Range(q)
        /\ waiters' = [waiters EXCEPT ![s] = Append(q, t)]
    BY <1>1, <1>4 DEF Queues, Free
  <2>2. /\ Append(q, t) \in Seq(Threads) /\ IsInjective(Append(q, t))
        /\ Range(Append(q, t)) = Range(q) \cup {t} /\ Len(Append(q, t)) = Len(q) + 1
    BY <2>1, AppendQueue
  <2> HIDE DEF q
  <2>3. /\ waiters'[s] = Append(q, t) /\ waiters' \in [Sems -> Seq(Threads)]
        /\ \A x \in Sems : x # s => waiters'[x] = waiters[x]
    BY <1>1, <2>1, <2>2
  <2>4. SemTypes'
    BY <1>1, <1>4, <2>3 DEF SemTypes
  <2>5. Queues'
    <3> SUFFICES ASSUME NEW x \in Sems
                 PROVE  IsInjective(waiters'[x]) /\ \A u \in Range(waiters'[x]) : Queued(at'[u], x)
      BY DEF Queues
    <3>1. CASE x = s
      <4>1. ASSUME NEW u \in Range(q) PROVE u \in Threads /\ u # t /\ Queued(at[u], s)
        <5>1. u \in Threads
          BY <2>1 DEF q, Range
        <5>2. Queued(at[u], s)
          BY DEF Queues, q
        <5> QED
          BY <2>1, <5>1, <5>2
      <4> QED
        BY <1>2, <2>2, <2>3, <3>1, <4>1
    <3>2. CASE x # s
      <4>1. ASSUME NEW u \in Range(waiters[x]) PROVE u \in Threads /\ u # t /\ Queued(at[u], x)
        <5>1. u \in Threads
          BY <1>1 DEF Range
        <5>2. Queued(at[u], x)
          BY DEF Queues
        <5> QED
          BY <1>1, <5>1, <5>2 DEF Free
      <4>2. IsInjective(waiters[x]) /\ waiters'[x] = waiters[x]
        BY <2>3, <3>2 DEF Queues
      <4> QED
        BY <1>2, <4>1, <4>2
    <3> QED
      BY <3>1, <3>2
  <2> QED
    BY <1>1, <1>4, <2>2, <2>3, <2>4, <2>5 DEF Stays, Enters, q
<1> QED
  BY <1>3, <1>4 DEF Wait

\* A signal wakes the first waiter, or leaves a unit.
Leaves(u, s) ==
    /\ u \in Threads /\ u \in Range(waiters[s])
    /\ Range(waiters'[s]) = Range(waiters[s]) \ {u}
    /\ Len(waiters'[s]) = Len(waiters[s]) - 1

\* Of sem_signal.
LEMMA SignalMoves ==
    ASSUME SemTypes, StepTypes, Queues, NEW t \in Threads, NEW s \in Sems, Signal(t, s),
           NEW step, Steps(t, step)
    PROVE  /\ SemTypes' /\ Queues' /\ open' = open /\ Free(t)
           /\ \A x \in Sems : x # s => Stays(x)
           /\ \/ units'[s] = units[s] + 1 /\ waiters'[s] = waiters[s]
              \/ units'[s] = units[s] /\ \E u \in Threads : Leaves(u, s)
<1>1. /\ Free(t) /\ open' = open /\ s \in open
      /\ waiters \in [Sems -> Seq(Threads)] /\ units \in [Sems -> Nat]
  BY DEF Signal, Active, Free, SemTypes
<1>2. at'[t] = step /\ \A x \in Threads : x # t => at'[x] = at[x]
  BY StepTyped
<1>3. ASSUME NEW x \in Sems, NEW u \in Range(waiters[x])
      PROVE  u \in Threads /\ u # t /\ Queued(at'[u], x)
  <2>1. u \in Threads
    BY <1>1 DEF Range
  <2>2. Queued(at[u], x)
    BY DEF Queues
  <2> QED
    BY <1>1, <1>2, <2>1, <2>2 DEF Free
<1>4. CASE /\ units' = [units EXCEPT ![s] = @ + 1] /\ waiters' = waiters
           /\ outcome' = outcome
  <2>1. SemTypes'
    BY <1>1, <1>4 DEF SemTypes
  <2>2. Queues'
    BY <1>3, <1>4 DEF Queues
  <2> QED
    BY <1>1, <1>4, <2>1, <2>2 DEF Stays
<1>5. CASE /\ waiters[s] # <<>> /\ units' = units
           /\ waiters' = [waiters EXCEPT ![s] = Tail(@)]
           /\ outcome' = [outcome EXCEPT ![Head(waiters[s])] = "granted"]
  <2> DEFINE q == waiters[s]
             u == Head(q)
  <2>1. /\ q \in Seq(Threads) /\ IsInjective(q) /\ q # <<>>
        /\ waiters' = [waiters EXCEPT ![s] = Tail(q)]
    BY <1>1, <1>5 DEF Queues
  <2>2. /\ Tail(q) \in Seq(Threads) /\ IsInjective(Tail(q)) /\ u \in Threads
        /\ u \in Range(q) /\ Range(Tail(q)) = Range(q) \ {u} /\ Len(Tail(q)) = Len(q) - 1
    BY <2>1, TailQueue
  <2> HIDE DEF q, u
  <2>3. /\ waiters'[s] = Tail(q) /\ waiters' \in [Sems -> Seq(Threads)]
        /\ \A x \in Sems : x # s => waiters'[x] = waiters[x]
    BY <1>1, <2>1, <2>2
  <2>4. SemTypes'
    BY <1>1, <1>5, <2>2, <2>3 DEF SemTypes, u, q
  <2>5. Queues'
    <3> SUFFICES ASSUME NEW x \in Sems
                 PROVE  IsInjective(waiters'[x]) /\ \A v \in Range(waiters'[x]) : Queued(at'[v], x)
      BY DEF Queues
    <3>1. CASE x = s
      BY <1>3, <2>2, <2>3, <3>1 DEF q
    <3>2. CASE x # s
      BY <1>3, <2>3, <3>2 DEF Queues
    <3> QED
      BY <3>1, <3>2
  <2>6. Leaves(u, s)
    BY <2>2, <2>3 DEF Leaves, q
  <2> QED
    BY <1>1, <1>5, <2>2, <2>3, <2>4, <2>5, <2>6 DEF Stays
<1> QED
  BY <1>4, <1>5 DEF Signal

\* A step that calls nothing.
LEMMA PlainMoves ==
    ASSUME SemTypes, StepTypes, Queues, NEW t \in Threads, Active(t), UNCHANGED vars,
           NEW step, Steps(t, step)
    PROVE  /\ SemTypes' /\ Queues' /\ open' = open /\ Free(t)
           /\ \A x \in Sems : Stays(x)
<1>1. /\ Free(t) /\ open' = open /\ waiters' = waiters /\ units' = units
      /\ waiters \in [Sems -> Seq(Threads)]
  BY DEF vars, Active, Free, SemTypes
<1>2. at'[t] = step /\ \A x \in Threads : x # t => at'[x] = at[x]
  BY StepTyped
<1>3. ASSUME NEW x \in Sems, NEW u \in Range(waiters[x])
      PROVE  Queued(at'[u], x)
  <2>1. u \in Threads
    BY <1>1 DEF Range
  <2>2. Queued(at[u], x)
    BY DEF Queues
  <2> QED
    BY <1>1, <1>2, <2>1, <2>2 DEF Free
<1>4. Queues'
  BY <1>1, <1>3 DEF Queues
<1> QED
  BY <1>1, <1>4 DEF vars, SemTypes, Stays

-----------------------------------------------------------------------------
(* What a step does to the three counts.                                   *)

One(b) == IF b THEN 1 ELSE 0

\* A thread that takes a step, and one that is woken, enter and leave the
\* set; the others stay.
LEMMA OutsideMoves ==
    ASSUME SemTypes, StepTypes, NEW t \in Threads, Free(t),
           NEW step, Steps(t, step), NEW s \in Sems, NEW P
    PROVE  /\ Cardinality(Outside(s, P)) \in Nat
           /\ One(at[t] \in P) <= Cardinality(Outside(s, P))
           /\ waiters'[s] = waiters[s] =>
                 Cardinality(Outside(s, P))' =
                             Cardinality(Outside(s, P)) + One(step \in P) - One(at[t] \in P)
           /\ Enters(t, s) => Cardinality(Outside(s, P))' =
                                 Cardinality(Outside(s, P)) - One(at[t] \in P)
           /\ \A u \in Threads : Leaves(u, s) /\ at[u] \in P =>
                 Cardinality(Outside(s, P))' =
                    Cardinality(Outside(s, P)) + One(step \in P) - One(at[t] \in P) + 1
<1> DEFINE S == Outside(s, P)
           T == Outside(s, P)'
<1>1. /\ at'[t] = step /\ \A x \in Threads : x # t => at'[x] = at[x]
      /\ t \notin Range(waiters[s])
  BY StepTyped DEF Free
<1>2. /\ \A x \in Threads : x \in S <=> at[x] \in P /\ x \notin Range(waiters[s])
      /\ \A x \in Threads : x \in T <=> at'[x] \in P /\ x \notin Range(waiters'[s])
      /\ S \subseteq Threads /\ T \subseteq Threads
  BY DEF Outside
<1> HIDE DEF S, T
<1>3. In(t, S) = One(at[t] \in P)
  BY <1>1, <1>2 DEF In, One
<1>4. Cardinality(S) \in Nat /\ Cardinality(S) >= In(t, S)
  BY <1>2, ByOne
<1>5. ASSUME waiters'[s] = waiters[s]
      PROVE  Cardinality(T) = Cardinality(S) + One(step \in P) - One(at[t] \in P)
  <2>1. In(t, T) = One(step \in P)
    BY <1>1, <1>2, <1>5 DEF In, One
  <2>2. \A x \in Threads : x # t => (x \in S <=> x \in T)
    BY <1>1, <1>2, <1>5
  <2>3. Cardinality(T) = Cardinality(S) + In(t, T) - In(t, S)
    BY <1>2, <2>2, ByOne
  <2> QED
    BY <1>3, <2>1, <2>3
<1>6. ASSUME Enters(t, s) PROVE Cardinality(T) = Cardinality(S) - One(at[t] \in P)
  <2>1. In(t, T) = 0
    BY <1>1, <1>2, <1>6 DEF In, Enters
  <2>2. \A x \in Threads : x # t => (x \in S <=> x \in T)
    BY <1>1, <1>2, <1>6 DEF Enters
  <2>3. Cardinality(T) = Cardinality(S) + In(t, T) - In(t, S) /\ In(t, S) \in {0, 1}
    BY <1>2, <2>2, ByOne
  <2> QED
    BY <1>3, <1>4, <2>1, <2>3
<1>7. ASSUME NEW u \in Threads, Leaves(u, s), at[u] \in P
      PROVE  Cardinality(T) = Cardinality(S) + One(step \in P) - One(at[t] \in P) + 1
  <2> DEFINE M == IF step \in P THEN S \cup {t} ELSE S \ {t}
  <2>1. M \subseteq Threads /\ In(t, M) = One(step \in P)
    BY <1>2 DEF In, One
  <2>2. \A x \in Threads : x # t => (x \in S <=> x \in M)
    OBVIOUS
  <2>3. u # t /\ u \notin S /\ u \in T
    BY <1>1, <1>2, <1>7 DEF Leaves
  <2>4. u \notin M
    BY <2>3
  <2>5. \A x \in Threads : x # u => (x \in M <=> x \in T)
    <3> SUFFICES ASSUME NEW x \in Threads, x # u PROVE x \in M <=> x \in T
      OBVIOUS
    <3>1. x \in Range(waiters'[s]) <=> x \in Range(waiters[s])
      BY <1>7 DEF Leaves
    <3>2. CASE x = t
      BY <1>1, <1>2, <3>1, <3>2
    <3>3. CASE x # t
      BY <1>1, <1>2, <3>1, <3>3
    <3> QED
      BY <3>2, <3>3
  <2> HIDE DEF M
  <2>6. Cardinality(M) = Cardinality(S) + In(t, M) - In(t, S) /\ Cardinality(M) \in Nat
    BY <1>2, <2>1, <2>2, ByOne
  <2>7. Cardinality(T) = Cardinality(M) + In(u, T) - In(u, M)
    BY <1>2, <2>1, <2>5, ByOne
  <2>8. In(u, T) = 1 /\ In(u, M) = 0
    BY <2>3, <2>4 DEF In
  <2>9. One(step \in P) \in {0, 1} /\ One(at[t] \in P) \in {0, 1}
    BY DEF One
  <2> QED
    BY <1>3, <1>4, <2>1, <2>6, <2>7, <2>8, <2>9
<1> QED
  BY <1>3, <1>4, <1>5, <1>6, <1>7 DEF S, T

\* The threads that are over.
LEMMA DoneMoves ==
    ASSUME StepTypes, NEW t \in Threads, t # Main, at[t] # "done", NEW step, Steps(t, step)
    PROVE  /\ Cardinality(Done) \in Nat
           /\ Cardinality(Done') = Cardinality(Done) + One(step = "done")
<1>1. at'[t] = step /\ \A x \in Threads : x # t => at'[x] = at[x]
  BY StepTyped
<1>2. /\ \A x \in Threads : x \in Done <=> x # Main /\ at[x] = "done"
      /\ \A x \in Threads : x \in Done' <=> x # Main /\ at'[x] = "done"
      /\ Done \subseteq Threads /\ Done' \subseteq Threads
  BY DEF Done
<1> DEFINE S == Done
           T == Done'
<1> HIDE DEF S, T
<1>3. /\ S \subseteq Threads /\ T \subseteq Threads
      /\ \A x \in Threads : x # t => (x \in S <=> x \in T)
  BY <1>1, <1>2 DEF S, T
<1>4. In(t, T) = One(step = "done") /\ In(t, S) = 0
  BY <1>1, <1>2 DEF In, One, S, T
<1>5. Cardinality(T) = Cardinality(S) + In(t, T) - In(t, S) /\ Cardinality(S) \in Nat
  BY <1>3, ByOne
<1>6. One(step = "done") \in {0, 1}
  BY DEF One
<1> QED
  BY <1>4, <1>5, <1>6 DEF S, T

-----------------------------------------------------------------------------
(* The ring of cells.                                                      *)

\* The difference and the successor of indices in a ring of m + 1 cells.
LEMMA Ring ==
    /\ \A m \in Nat : \A h, t \in 0 .. m :
          (t - h) % (m + 1) = IF t >= h THEN t - h ELSE t - h + m + 1
    /\ \A m \in Nat : \A t \in 0 .. m :
          (t + 1) % (m + 1) = IF t = m THEN 0 ELSE t + 1
<1>1. \A m \in Nat : \A h, t \in 0 .. m :
          (t - h) % (m + 1) = IF t >= h THEN t - h ELSE t - h + m + 1
  OBVIOUS
<1>2. \A m \in Nat : \A t \in 0 .. m :
          (t + 1) % (m + 1) = IF t = m THEN 0 ELSE t + 1
  OBVIOUS
<1> QED
  BY <1>1, <1>2

\* The buffer holds from none to n values.
LEMMA BufferedType == LocalTypes => Buffered \in 0 .. n
  BY Ring DEF LocalTypes, Buffered

\* The tail moves up to one place behind the head.
LEMMA TailMoves ==
    ASSUME LocalTypes, Buffered < n, tail' = (tail + 1) % cap, head' = head, n' = n
    PROVE  tail' \in 0 .. n /\ Buffered' = Buffered + 1
<1>1. tail' = IF tail = n THEN 0 ELSE tail + 1
  BY Ring DEF LocalTypes, cap
<1>2. tail' \in 0 .. n /\ n \in Nat /\ head \in 0 .. n /\ tail \in 0 .. n
  BY <1>1 DEF LocalTypes
<1>3. /\ Buffered = IF tail >= head THEN tail - head ELSE tail - head + n + 1
      /\ Buffered' = IF tail' >= head THEN tail' - head ELSE tail' - head + n + 1
  BY <1>2, Ring DEF Buffered
<1> QED
  BY <1>1, <1>2, <1>3

\* The head moves up to the tail.
LEMMA HeadMoves ==
    ASSUME LocalTypes, Buffered > 0, head' = (head + 1) % cap, tail' = tail, n' = n
    PROVE  head' \in 0 .. n /\ Buffered' = Buffered - 1
<1>1. head' = IF head = n THEN 0 ELSE head + 1
  BY Ring DEF LocalTypes, cap
<1>2. head' \in 0 .. n /\ n \in Nat /\ head \in 0 .. n /\ tail \in 0 .. n
  BY <1>1 DEF LocalTypes
<1>3. /\ Buffered = IF tail >= head THEN tail - head ELSE tail - head + n + 1
      /\ Buffered' = IF tail >= head' THEN tail - head' ELSE tail - head' + n + 1
  BY <1>2, Ring DEF Buffered
<1> QED
  BY <1>1, <1>2, <1>3

-----------------------------------------------------------------------------
(* Every step of the senders and the consumer preserves the invariant.     *)

\* While they take steps, main is in its loop of waits or past its last.
LEMMA Running ==
    ASSUME PInv, NEW t \in Threads, t # Main, at[t] \notin {"none", "done"}
    PROVE  /\ at[Main] \in {"join", "close"} /\ open = Sems /\ Places /\ Items /\ Joins
           /\ t \in {Consumer} \cup producers
           /\ SemTypes /\ StepTypes /\ LocalTypes /\ Queues
<1>1. at[Main] \in {"join", "close"}
  BY DEF PInv
<1> QED
  BY <1>1 DEF PInv

\* What is left to show of such a step.
LEMMA RunInv ==
    ASSUME PInv, NEW t \in Threads, t # Main, at[t] \notin {"none", "done"},
           NEW step, Steps(t, step), SemTypes', Queues', open' = open, LocalTypes',
           n' = n, producers' = producers, joined' = joined,
           Places', Items', Joins'
    PROVE  PInv'
<1>1. /\ at[Main] \in {"join", "close"} /\ open = Sems
      /\ t \in {Consumer} \cup producers /\ StepTypes
  BY Running
<1>2. StepTypes' /\ at'[t] = step /\ \A x \in Threads : x # t => at'[x] = at[x]
  BY <1>1, StepTyped
<1>3. at'[Main] = at[Main]
  BY <1>2, Distinct
<1>4. \A x \in Threads \ ({Main, Consumer} \cup producers') : at'[x] = "none"
  BY <1>1, <1>2 DEF PInv
<1>5. at'[Main] = "close" => joined' = threadNum' + 1
  BY <1>3 DEF PInv, threadNum
<1> QED
  BY <1>1, <1>2, <1>3, <1>4, <1>5 DEF PInv

\* Steps that no count sees.
Quiet(step, then) ==
    /\ step \in HeldSteps <=> then \in HeldSteps
    /\ step \in ItemSteps <=> then \in ItemSteps
    /\ step # "done" /\ then # "done"

\* A step that neither holds a place or an item nor gives one back.
LEMMA QuietInv ==
    ASSUME PInv, NEW t \in Threads, t # Main, at[t] \notin {"none", "done"},
           NEW step, Steps(t, step), Quiet(at[t], step), SemTypes', Queues', open' = open,
           Free(t), Stays("spaceAvailable"), Stays("itemAvailable"), Stays("waitForAll"),
           head' = head, tail' = tail, n' = n, producers' = producers, joined' = joined
    PROVE  PInv'
<1>1. /\ SemTypes /\ StepTypes /\ LocalTypes /\ Places /\ Items /\ Joins
      /\ "spaceAvailable" \in Sems /\ "itemAvailable" \in Sems
  BY Running, SemsAssumption
<1>2. LocalTypes'
  BY <1>1 DEF LocalTypes
<1>3. /\ Cardinality(Held)' = Cardinality(Held) + One(step \in HeldSteps) - One(at[t] \in HeldSteps)
      /\ Cardinality(Held) \in Nat
  BY <1>1, OutsideMoves DEF Held, Stays
<1>4. /\ Cardinality(Announcing)' = Cardinality(Announcing) + One(step \in ItemSteps)
                                                          - One(at[t] \in ItemSteps)
      /\ Cardinality(Announcing) \in Nat
  BY <1>1, OutsideMoves DEF Announcing, Stays
<1>5. /\ Cardinality(Done') = Cardinality(Done) + One(step = "done")
      /\ Cardinality(Done) \in Nat
  BY <1>1, DoneMoves
<1>6. /\ Cardinality(Held)' = Cardinality(Held)
      /\ Cardinality(Announcing)' = Cardinality(Announcing)
      /\ Cardinality(Done') = Cardinality(Done)
  BY <1>3, <1>4, <1>5 DEF Quiet, One
<1>7. Places' /\ Items' /\ Joins'
  BY <1>1, <1>6 DEF Places, Items, Joins, Stays, Buffered
<1> QED
  BY <1>2, <1>7, RunInv

\* After a wait on s by t, and after a signal.
Waited(t, s) ==
    \/ units'[s] = units[s] - 1 /\ waiters'[s] = waiters[s]
    \/ units'[s] = units[s] /\ Enters(t, s)
Signalled(s) ==
    \/ units'[s] = units[s] + 1 /\ waiters'[s] = waiters[s]
    \/ units'[s] = units[s] /\ \E u \in Threads : Leaves(u, s)

\* The places when nobody waits or is woken, when the step is a wait for one,
\* and when it is the signal of one.
LEMMA PlacesKept ==
    ASSUME SemTypes, StepTypes, Queues, LocalTypes, Places, NEW t \in Threads, Free(t),
           NEW step, Steps(t, step), n' = n, NEW b \in Int, Buffered' = Buffered + b,
           \/ Stays("spaceAvailable") /\ b + One(step \in HeldSteps) - One(at[t] \in HeldSteps) = 0
           \/ Waited(t, "spaceAvailable") /\ b = 0 /\ step \in HeldSteps /\ at[t] \notin HeldSteps
           \/ Signalled("spaceAvailable") /\ b = 0 /\ step \notin HeldSteps /\ at[t] \in HeldSteps
    PROVE  Places'
<1> DEFINE s == "spaceAvailable"
           x == Cardinality(Held)
           y == Cardinality(Held)'
           i == One(step \in HeldSteps)
           o == One(at[t] \in HeldSteps)
<1>1. s \in Sems /\ units[s] \in Nat /\ Buffered \in Int /\ n \in Nat
  BY SemsAssumption, BufferedType DEF SemTypes, LocalTypes
<1>2. /\ x \in Nat /\ i \in {0, 1} /\ o \in {0, 1}
      /\ waiters'[s] = waiters[s] => y = x + i - o
      /\ Enters(t, s) => y = x - o
      /\ \A u \in Threads : Leaves(u, s) /\ at[u] \in HeldSteps => y = x + i - o + 1
  BY <1>1, OutsideMoves DEF Held, One
<1>3. \A u \in Threads : Leaves(u, s) => at[u] \in HeldSteps
  BY <1>1 DEF Leaves, Queues, Queued, HeldSteps
<1>4. (step \in HeldSteps <=> i = 1) /\ (at[t] \in HeldSteps <=> o = 1)
  BY DEF One
<1>5. Places <=> units[s] + Buffered + x = n
  BY DEF Places
<1>6. Places' <=> units'[s] + Buffered' + y = n'
  BY DEF Places
<1> HIDE DEF s, x, y, i, o
<1>7. CASE Stays("spaceAvailable") /\ b + One(step \in HeldSteps) - One(at[t] \in HeldSteps) = 0
  <2>1. units'[s] = units[s] /\ waiters'[s] = waiters[s] /\ b + i - o = 0
    BY <1>7 DEF Stays, s, i, o
  <2> QED
    BY <1>1, <1>2, <1>5, <1>6, <2>1
<1>8. CASE Waited(t, "spaceAvailable") /\ b = 0 /\ step \in HeldSteps /\ at[t] \notin HeldSteps
  <2>1. /\ \/ units'[s] = units[s] - 1 /\ y = x + i - o
           \/ units'[s] = units[s] /\ y = x - o
        /\ i = 1 /\ o = 0
    BY <1>2, <1>4, <1>8 DEF Waited, s
  <2> QED
    BY <1>1, <1>2, <1>5, <1>6, <1>8, <2>1
<1>9. CASE Signalled("spaceAvailable") /\ b = 0 /\ step \notin HeldSteps /\ at[t] \in HeldSteps
  <2>1. /\ \/ units'[s] = units[s] + 1 /\ y = x + i - o
           \/ units'[s] = units[s] /\ y = x + i - o + 1
        /\ i = 0 /\ o = 1
    BY <1>2, <1>3, <1>4, <1>9 DEF Signalled, s
  <2> QED
    BY <1>1, <1>2, <1>5, <1>6, <1>9, <2>1
<1> QED
  BY <1>7, <1>8, <1>9

\* The items in the same way.
LEMMA ItemsKept ==
    ASSUME SemTypes, StepTypes, Queues, LocalTypes, Items, NEW t \in Threads, Free(t),
           NEW step, Steps(t, step), NEW b \in Int, Buffered' = Buffered + b,
           \/ Stays("itemAvailable") /\ One(step \in ItemSteps) - One(at[t] \in ItemSteps) = b
           \/ Waited(t, "itemAvailable") /\ b = 0 /\ step \in ItemSteps /\ at[t] \notin ItemSteps
           \/ Signalled("itemAvailable") /\ b = 0 /\ step \notin ItemSteps /\ at[t] \in ItemSteps
    PROVE  Items'
<1> DEFINE s == "itemAvailable"
           x == Cardinality(Announcing)
           y == Cardinality(Announcing)'
           i == One(step \in ItemSteps)
           o == One(at[t] \in ItemSteps)
<1>1. s \in Sems /\ units[s] \in Nat /\ Buffered \in Int
  BY SemsAssumption, BufferedType DEF SemTypes, LocalTypes
<1>2. /\ x \in Nat /\ i \in {0, 1} /\ o \in {0, 1}
      /\ waiters'[s] = waiters[s] => y = x + i - o
      /\ Enters(t, s) => y = x - o
      /\ \A u \in Threads : Leaves(u, s) /\ at[u] \in ItemSteps => y = x + i - o + 1
  BY <1>1, OutsideMoves DEF Announcing, One
<1>3. \A u \in Threads : Leaves(u, s) => at[u] \in ItemSteps
  BY <1>1 DEF Leaves, Queues, Queued, ItemSteps
<1>4. (step \in ItemSteps <=> i = 1) /\ (at[t] \in ItemSteps <=> o = 1)
  BY DEF One
<1>5. Items <=> units[s] + x = Buffered
  BY DEF Items
<1>6. Items' <=> units'[s] + y = Buffered'
  BY DEF Items
<1> HIDE DEF s, x, y, i, o
<1>7. CASE Stays("itemAvailable") /\ One(step \in ItemSteps) - One(at[t] \in ItemSteps) = b
  <2>1. units'[s] = units[s] /\ waiters'[s] = waiters[s] /\ i - o = b
    BY <1>7 DEF Stays, s, i, o
  <2> QED
    BY <1>1, <1>2, <1>5, <1>6, <2>1
<1>8. CASE Waited(t, "itemAvailable") /\ b = 0 /\ step \in ItemSteps /\ at[t] \notin ItemSteps
  <2>1. /\ \/ units'[s] = units[s] - 1 /\ y = x + i - o
           \/ units'[s] = units[s] /\ y = x - o
        /\ i = 1 /\ o = 0
    BY <1>2, <1>4, <1>8 DEF Waited, s
  <2> QED
    BY <1>1, <1>2, <1>5, <1>6, <1>8, <2>1
<1>9. CASE Signalled("itemAvailable") /\ b = 0 /\ step \notin ItemSteps /\ at[t] \in ItemSteps
  <2>1. /\ \/ units'[s] = units[s] + 1 /\ y = x + i - o
           \/ units'[s] = units[s] /\ y = x + i - o + 1
        /\ i = 0 /\ o = 1
    BY <1>2, <1>3, <1>4, <1>9 DEF Signalled, s
  <2> QED
    BY <1>1, <1>2, <1>5, <1>6, <1>9, <2>1
<1> QED
  BY <1>7, <1>8, <1>9

\* And the signals of those that are over.
LEMMA JoinsKept ==
    ASSUME SemTypes, StepTypes, Joins, NEW t \in Threads, t # Main, at[t] # "done",
           joined \in Nat, NEW step, Steps(t, step), joined' = joined,
           \/ Stays("waitForAll") /\ step # "done"
           \/ Signalled("waitForAll") /\ step = "done"
    PROVE  Joins'
<1> DEFINE s == "waitForAll"
           x == Cardinality(Done)
           y == Cardinality(Done')
           m == Len(waiters[s])
<1>1. s \in Sems /\ units[s] \in Nat /\ m \in Nat
  BY SemsAssumption DEF SemTypes
<1>2. x \in Nat /\ y = x + One(step = "done")
  BY DoneMoves
<1>3. Joins <=> units[s] + joined = x + m
  BY DEF Joins
<1>4. Joins' <=> units'[s] + joined' = y + Len(waiters'[s])
  BY DEF Joins
<1>5. CASE Stays("waitForAll") /\ step # "done"
  <2>1. units'[s] = units[s] /\ Len(waiters'[s]) = m /\ y = x
    BY <1>2, <1>5 DEF Stays, One
  <2> HIDE DEF s, x, y, m
  <2> QED
    BY <1>1, <1>2, <1>3, <1>4, <2>1
<1>6. CASE Signalled("waitForAll") /\ step = "done"
  <2>1. /\ \/ units'[s] = units[s] + 1 /\ Len(waiters'[s]) = m
           \/ units'[s] = units[s] /\ Len(waiters'[s]) = m - 1
        /\ y = x + 1 /\ x \in Nat
    BY <1>2, <1>6 DEF Signalled, Leaves, One
  <2> HIDE DEF s, x, y, m
  <2>2. units[s] + joined = x + m
    BY <1>3
  <2>3. units'[s] + joined = y + Len(waiters'[s])
    <3>1. \A u, j, c, l \in Nat : u + j = c + l =>
             u + 1 + j = c + 1 + l /\ u + j = c + 1 + (l - 1)
      OBVIOUS
    <3>2. units[s] + 1 + joined = x + 1 + m /\ units[s] + joined = x + 1 + (m - 1)
      BY <1>1, <2>1, <2>2, <3>1
    <3> QED
      BY <2>1, <3>2
  <2> QED
    BY <1>4, <2>3
<1> QED
  BY <1>5, <1>6

-----------------------------------------------------------------------------
(* The steps of a sender.                                                  *)

\* put takes a place, or is given one when it is woken.
LEMMA PutWaits ==
    ASSUME PInv, NEW t \in Senders, WaitOn(t, "put", "spaceAvailable", "putLock")
    PROVE  PInv'
<1>1. /\ at[t] = "put" /\ Steps(t, "putLock") /\ Wait(t, "spaceAvailable")
      /\ UNCHANGED <<bufferVars, localVars>> /\ Queued("putLock", "spaceAvailable")
      /\ t \in Threads /\ t # Main
  BY Distinct DEF WaitOn, At, Goto, Steps, StepsOf, SenderSteps, Queued
<1>2. /\ SemTypes /\ StepTypes /\ LocalTypes /\ Queues /\ Places /\ Items /\ Joins
      /\ "spaceAvailable" \in Sems /\ "itemAvailable" \in Sems /\ "waitForAll" \in Sems
  BY <1>1, Running, SemsAssumption
<1>3. /\ SemTypes' /\ Queues' /\ open' = open /\ Free(t)
      /\ Stays("itemAvailable") /\ Stays("waitForAll") /\ Waited(t, "spaceAvailable")
  BY <1>1, <1>2, WaitMoves DEF Waited
<1>4. LocalTypes' /\ Buffered' = Buffered + 0 /\ n' = n /\ joined' = joined
      /\ producers' = producers /\ joined \in Nat
  BY <1>1, <1>2, BufferedType DEF LocalTypes, Buffered, bufferVars, localVars
<1>5. /\ at[t] \notin HeldSteps /\ "putLock" \in HeldSteps
      /\ One("putLock" \in ItemSteps) - One(at[t] \in ItemSteps) = 0
  BY <1>1 DEF HeldSteps, ItemSteps, One
<1>6. Places'
  BY <1>1, <1>2, <1>3, <1>4, <1>5, PlacesKept
<1>7. Items'
  BY <1>1, <1>2, <1>3, <1>4, <1>5, ItemsKept
<1>8. Joins'
  BY <1>1, <1>2, <1>3, <1>4, JoinsKept
<1> QED
  BY <1>1, <1>3, <1>4, <1>6, <1>7, <1>8, RunInv

\* put announces its item, and the next key or id is to come, or the end.
LEMMA PutTailMoves ==
    ASSUME PInv, NEW t \in Senders, PutTail(t)
    PROVE  PInv'
<1>1. /\ at[t] = "putTail" /\ Steps(t, "putItem") /\ Signal(t, "mutexTail")
      /\ UNCHANGED <<cells, head, localVars>> /\ tail' = (tail + 1) % cap
      /\ t \in Threads /\ t # Main
  BY Distinct DEF PutTail, At, Goto, Steps, StepsOf, SenderSteps
<1>2. /\ SemTypes /\ StepTypes /\ LocalTypes /\ Queues /\ Places /\ Items /\ Joins
      /\ "spaceAvailable" \in Sems /\ "itemAvailable" \in Sems /\ "waitForAll" \in Sems
      /\ "mutexTail" \in Sems
  BY <1>1, Running, SemsAssumption
<1>3. /\ SemTypes' /\ Queues' /\ open' = open /\ Free(t)
      /\ Stays("itemAvailable") /\ Stays("waitForAll") /\ Stays("spaceAvailable")
  BY <1>1, <1>2, SignalMoves
<1>4. n' = n /\ joined' = joined /\ producers' = producers /\ joined \in Nat /\ head' = head
  BY <1>1, <1>2 DEF LocalTypes, localVars
<1>5. Buffered < n
  <2>1. One(at[t] \in HeldSteps) = 1
    BY <1>1 DEF HeldSteps, One
  <2>2. Cardinality(Held) \in Nat /\ 1 <= Cardinality(Held)
    BY <1>1, <1>2, <1>3, <2>1, OutsideMoves DEF Held
  <2>3. units["spaceAvailable"] \in Nat /\ Buffered \in Int /\ n \in Nat
    BY <1>2, BufferedType DEF SemTypes, LocalTypes
  <2> QED
    BY <1>2, <2>2, <2>3 DEF Places
<1>6. tail' \in 0 .. n /\ Buffered' = Buffered + 1
  BY <1>1, <1>2, <1>4, <1>5, TailMoves
<1>7. LocalTypes'
  BY <1>2, <1>4, <1>6 DEF LocalTypes
<1>8. /\ 1 + One("putItem" \in HeldSteps) - One(at[t] \in HeldSteps) = 0
      /\ One("putItem" \in ItemSteps) - One(at[t] \in ItemSteps) = 1
  BY <1>1 DEF HeldSteps, ItemSteps, One
<1>9. Places'
  BY <1>1, <1>2, <1>3, <1>4, <1>6, <1>8, PlacesKept
<1>10. Items'
  BY <1>1, <1>2, <1>3, <1>4, <1>6, <1>8, ItemsKept
<1>11. Joins'
  BY <1>1, <1>2, <1>3, <1>4, JoinsKept
<1> QED
  BY <1>1, <1>3, <1>4, <1>7, <1>9, <1>10, <1>11, RunInv

\* The signal of an item, of a place or of an end: the buffer stays.
LEMMA SignalInv ==
    ASSUME PInv, NEW t \in Threads, t # Main, at[t] \notin {"none", "done"},
           NEW step, Steps(t, step), step # "none", NEW s \in Sems, Signal(t, s),
           UNCHANGED <<bufferVars, localVars>>,
           IF s = "spaceAvailable" THEN at[t] \in HeldSteps /\ step \notin HeldSteps
           ELSE at[t] \in HeldSteps <=> step \in HeldSteps,
           IF s = "itemAvailable" THEN at[t] \in ItemSteps /\ step \notin ItemSteps
           ELSE at[t] \in ItemSteps <=> step \in ItemSteps,
           s = "waitForAll" <=> step = "done"
    PROVE  PInv'
<1>1. /\ SemTypes /\ StepTypes /\ LocalTypes /\ Queues /\ Places /\ Items /\ Joins
      /\ "spaceAvailable" \in Sems /\ "itemAvailable" \in Sems /\ "waitForAll" \in Sems
  BY Running, SemsAssumption
<1>2. /\ SemTypes' /\ Queues' /\ open' = open /\ Free(t) /\ Signalled(s)
      /\ \A x \in Sems : x # s => Stays(x)
  BY <1>1, SignalMoves DEF Signalled
<1>3. LocalTypes' /\ Buffered' = Buffered + 0 /\ n' = n /\ joined' = joined
      /\ producers' = producers /\ joined \in Nat
  BY <1>1, BufferedType DEF LocalTypes, Buffered, bufferVars, localVars
<1>4. Places'
  <2>1. CASE s = "spaceAvailable"
    BY <1>1, <1>2, <1>3, <2>1, PlacesKept
  <2>2. CASE s # "spaceAvailable"
    <3>1. 0 + One(step \in HeldSteps) - One(at[t] \in HeldSteps) = 0 /\ Stays("spaceAvailable")
      BY <1>1, <1>2, <2>2 DEF One
    <3> QED
      BY <1>1, <1>2, <1>3, <3>1, PlacesKept
  <2> QED
    BY <2>1, <2>2
<1>5. Items'
  <2>1. CASE s = "itemAvailable"
    BY <1>1, <1>2, <1>3, <2>1, ItemsKept
  <2>2. CASE s # "itemAvailable"
    <3>1. One(step \in ItemSteps) - One(at[t] \in ItemSteps) = 0 /\ Stays("itemAvailable")
      BY <1>1, <1>2, <2>2 DEF One
    <3> QED
      BY <1>1, <1>2, <1>3, <3>1, ItemsKept
  <2> QED
    BY <2>1, <2>2
<1>6. Joins'
  <2>1. CASE s = "waitForAll"
    BY <1>1, <1>2, <1>3, <2>1, JoinsKept
  <2>2. CASE s # "waitForAll"
    BY <1>1, <1>2, <1>3, <2>2, JoinsKept
  <2> QED
    BY <2>1, <2>2
<1> QED
  BY <1>2, <1>3, <1>4, <1>5, <1>6, RunInv

\* A wait for one of the two locks, and a step that calls nothing.
LEMMA LockWaits ==
    ASSUME PInv, NEW t \in Threads, t # Main, NEW s \in {"mutexHead", "mutexTail"},
           NEW here, NEW step, WaitOn(t, here, s, step), step \in StepsOf(t),
           here \notin {"none", "done"}, Queued(step, s), Quiet(here, step)
    PROVE  PInv'
<1>1. /\ at[t] = here /\ Steps(t, step) /\ Wait(t, s)
      /\ UNCHANGED <<bufferVars, localVars>>
  BY DEF WaitOn, At, Goto, Steps
<1>2. /\ SemTypes /\ StepTypes /\ Queues /\ s \in Sems
      /\ "spaceAvailable" \in Sems /\ "itemAvailable" \in Sems /\ "waitForAll" \in Sems
  BY <1>1, Running, SemsAssumption
<1>3. /\ SemTypes' /\ Queues' /\ open' = open /\ Free(t)
      /\ Stays("itemAvailable") /\ Stays("waitForAll") /\ Stays("spaceAvailable")
  BY <1>1, <1>2, WaitMoves
<1> QED
  BY <1>1, <1>3, QuietInv DEF bufferVars, localVars

\* Such a step without a semaphore.
LEMMA PlainInv ==
    ASSUME PInv, NEW t \in Threads, t # Main, at[t] \notin {"none", "done"}, Active(t),
           UNCHANGED vars, NEW step, Steps(t, step), Quiet(at[t], step),
           head' = head, tail' = tail, n' = n, producers' = producers, joined' = joined
    PROVE  PInv'
<1>1. /\ SemTypes /\ StepTypes /\ Queues
      /\ "spaceAvailable" \in Sems /\ "itemAvailable" \in Sems /\ "waitForAll" \in Sems
  BY Running, SemsAssumption
<1>2. /\ SemTypes' /\ Queues' /\ open' = open /\ Free(t)
      /\ Stays("itemAvailable") /\ Stays("waitForAll") /\ Stays("spaceAvailable")
  BY <1>1, PlainMoves
<1> QED
  BY <1>2, QuietInv

\* Every step of a sender.
LEMMA SenderInv ==
    ASSUME PInv, NEW t \in Senders,
           \/ t = Keyboard /\ KeyboardGets
           \/ Loop(t, "put", "signal")
           \/ PutEnters(t) \/ PutCell(t) \/ PutTail(t) \/ PutItem(t) \/ Ends(t)
    PROVE  PInv'
<1>1. /\ t \in Threads /\ t # Main /\ StepsOf(t) = SenderSteps
      /\ {"itemAvailable", "waitForAll", "mutexTail"} \subseteq Sems
  BY Distinct, SemsAssumption DEF StepsOf
<1>2. CASE t = Keyboard /\ KeyboardGets
  <2>1. /\ at[t] = "key" /\ Steps(t, "put") /\ Active(t) /\ UNCHANGED vars
        /\ head' = head /\ tail' = tail /\ n' = n /\ producers' = producers /\ joined' = joined
    BY <1>1, <1>2 DEF KeyboardGets, At, Goto, Steps, SenderSteps, bufferVars
  <2>2. Quiet(at[t], "put")
    BY <2>1 DEF Quiet, HeldSteps, ItemSteps
  <2> QED
    BY <1>1, <2>1, <2>2, PlainInv
<1>3. CASE Loop(t, "put", "signal")
  <2>1. PICK step \in {"put", "signal"} : Goto(t, step)
    BY <1>3 DEF Loop
  <2>2. /\ at[t] = "loop" /\ Steps(t, step) /\ Active(t) /\ UNCHANGED vars
        /\ head' = head /\ tail' = tail /\ n' = n /\ producers' = producers /\ joined' = joined
    BY <1>1, <1>3, <2>1 DEF Loop, At, Goto, Steps, SenderSteps, bufferVars, localVars
  <2>3. Quiet(at[t], step)
    BY <2>1, <2>2 DEF Quiet, HeldSteps, ItemSteps
  <2> QED
    BY <1>1, <2>2, <2>3, PlainInv
<1>4. CASE PutEnters(t)
  <2>1. CASE WaitOn(t, "putLock", "mutexTail", "putCell")
    <3>1. Queued("putCell", "mutexTail") /\ Quiet("putLock", "putCell") /\ "putCell" \in StepsOf(t)
      BY <1>1 DEF Quiet, HeldSteps, ItemSteps, Queued, SenderSteps
    <3> QED
      BY <1>1, <2>1, <3>1, LockWaits
  <2> QED
    BY <1>4, <2>1, PutWaits DEF PutEnters
<1>5. CASE PutCell(t)
  <2>1. /\ at[t] = "putCell" /\ Steps(t, "putTail") /\ Active(t) /\ UNCHANGED vars
        /\ head' = head /\ tail' = tail /\ n' = n /\ producers' = producers /\ joined' = joined
    BY <1>1, <1>5 DEF PutCell, At, Goto, Steps, SenderSteps, localVars
  <2>2. Quiet(at[t], "putTail")
    BY <2>1 DEF Quiet, HeldSteps, ItemSteps
  <2> QED
    BY <1>1, <2>1, <2>2, PlainInv
<1>6. CASE PutItem(t)
  <2>1. PICK step \in {"key", "signal", "loop"} : Goto(t, step)
    BY <1>6 DEF PutItem
  <2>2. /\ at[t] = "putItem" /\ Steps(t, step) /\ Signal(t, "itemAvailable")
        /\ UNCHANGED <<bufferVars, localVars>>
    BY <1>1, <1>6, <2>1 DEF PutItem, At, Goto, Steps, SenderSteps
  <2>3. at[t] \in ItemSteps /\ step \notin ItemSteps /\ (at[t] \in HeldSteps <=> step \in HeldSteps)
    BY <2>1, <2>2 DEF HeldSteps, ItemSteps
  <2> QED
    BY <1>1, <2>1, <2>2, <2>3, SignalInv
<1>7. CASE Ends(t)
  <2>1. /\ at[t] = "signal" /\ Steps(t, "done") /\ Signal(t, "waitForAll")
        /\ UNCHANGED <<bufferVars, localVars>>
    BY <1>1, <1>7 DEF Ends, At, Goto, Steps, SenderSteps
  <2>2. /\ at[t] \in HeldSteps <=> "done" \in HeldSteps
        /\ at[t] \in ItemSteps <=> "done" \in ItemSteps
    BY <2>1 DEF HeldSteps, ItemSteps
  <2> QED
    BY <1>1, <2>1, <2>2, SignalInv
<1> QED
  BY <1>2, <1>3, <1>4, <1>5, <1>6, <1>7, PutTailMoves

-----------------------------------------------------------------------------
(* The steps of the consumer.                                              *)

\* get takes an item, or is given one when it is woken.
LEMMA GetWaits ==
    ASSUME PInv, WaitOn(Consumer, "get", "itemAvailable", "getLock")
    PROVE  PInv'
<1> DEFINE t == Consumer
<1>1. /\ at[t] = "get" /\ Steps(t, "getLock") /\ Wait(t, "itemAvailable")
      /\ UNCHANGED <<bufferVars, localVars>> /\ Queued("getLock", "itemAvailable")
      /\ t \in Threads /\ t # Main
  BY Distinct DEF WaitOn, At, Goto, Steps, StepsOf, ConsumerSteps, Queued
<1> HIDE DEF t
<1>2. /\ SemTypes /\ StepTypes /\ LocalTypes /\ Queues /\ Places /\ Items /\ Joins
      /\ "spaceAvailable" \in Sems /\ "itemAvailable" \in Sems /\ "waitForAll" \in Sems
  BY <1>1, Running, SemsAssumption
<1>3. /\ SemTypes' /\ Queues' /\ open' = open /\ Free(t)
      /\ Stays("spaceAvailable") /\ Stays("waitForAll") /\ Waited(t, "itemAvailable")
  BY <1>1, <1>2, WaitMoves DEF Waited
<1>4. LocalTypes' /\ Buffered' = Buffered + 0 /\ n' = n /\ joined' = joined
      /\ producers' = producers /\ joined \in Nat
  BY <1>1, <1>2, BufferedType DEF LocalTypes, Buffered, bufferVars, localVars
<1>5. /\ at[t] \notin ItemSteps /\ "getLock" \in ItemSteps
      /\ 0 + One("getLock" \in HeldSteps) - One(at[t] \in HeldSteps) = 0
  BY <1>1 DEF HeldSteps, ItemSteps, One
<1>6. Places'
  BY <1>1, <1>2, <1>3, <1>4, <1>5, PlacesKept
<1>7. Items'
  BY <1>1, <1>2, <1>3, <1>4, <1>5, ItemsKept
<1>8. Joins'
  BY <1>1, <1>2, <1>3, <1>4, JoinsKept
<1> QED
  BY <1>1, <1>3, <1>4, <1>6, <1>7, <1>8, RunInv

\* get takes its item out of the buffer, and has a place to give back.
LEMMA GetCellMoves ==
    ASSUME PInv, GetCell
    PROVE  PInv'
<1> DEFINE t == Consumer
<1>1. /\ at[t] = "getCell" /\ Steps(t, "getSpace") /\ Signal(t, "mutexHead")
      /\ UNCHANGED <<tail, n, producers, joined>> /\ head' = (head + 1) % cap
      /\ t \in Threads /\ t # Main
  BY Distinct DEF GetCell, At, Goto, Steps, StepsOf, ConsumerSteps
<1> HIDE DEF t
<1>2. /\ SemTypes /\ StepTypes /\ LocalTypes /\ Queues /\ Places /\ Items /\ Joins
      /\ "spaceAvailable" \in Sems /\ "itemAvailable" \in Sems /\ "waitForAll" \in Sems
      /\ "mutexHead" \in Sems
  BY <1>1, Running, SemsAssumption
<1>3. /\ SemTypes' /\ Queues' /\ open' = open /\ Free(t)
      /\ Stays("itemAvailable") /\ Stays("waitForAll") /\ Stays("spaceAvailable")
  BY <1>1, <1>2, SignalMoves
<1>4. n' = n /\ joined' = joined /\ producers' = producers /\ joined \in Nat /\ tail' = tail
  BY <1>1, <1>2 DEF LocalTypes
<1>5. Buffered > 0 /\ Buffered \in Int
  <2>1. One(at[t] \in ItemSteps) = 1
    BY <1>1 DEF ItemSteps, One
  <2>2. Cardinality(Announcing) \in Nat /\ 1 <= Cardinality(Announcing)
    BY <1>1, <1>2, <1>3, <2>1, OutsideMoves DEF Announcing
  <2>3. units["itemAvailable"] \in Nat /\ Buffered \in Int
    BY <1>2, BufferedType DEF SemTypes, LocalTypes
  <2> QED
    BY <1>2, <2>2, <2>3 DEF Items
<1>6. head' \in 0 .. n /\ Buffered' = Buffered + (-1)
  <2>1. head' \in 0 .. n /\ Buffered' = Buffered - 1
    BY <1>1, <1>2, <1>4, <1>5, HeadMoves
  <2> QED
    BY <1>5, <2>1
<1>7. LocalTypes'
  BY <1>2, <1>4, <1>6 DEF LocalTypes
<1>8. /\ (-1) + One("getSpace" \in HeldSteps) - One(at[t] \in HeldSteps) = 0
      /\ One("getSpace" \in ItemSteps) - One(at[t] \in ItemSteps) = -1
  BY <1>1 DEF HeldSteps, ItemSteps, One
<1>9. Places'
  BY <1>1, <1>2, <1>3, <1>4, <1>6, <1>8, PlacesKept
<1>10. Items'
  BY <1>1, <1>2, <1>3, <1>4, <1>6, <1>8, ItemsKept
<1>11. Joins'
  BY <1>1, <1>2, <1>3, <1>4, JoinsKept
<1> QED
  BY <1>1, <1>3, <1>4, <1>7, <1>9, <1>10, <1>11, RunInv

\* Every step of the consumer.
LEMMA ConsumerInv ==
    ASSUME PInv, ConsumerStep \/ Ends(Consumer)
    PROVE  PInv'
<1> DEFINE t == Consumer
<1>1. /\ t \in Threads /\ t # Main /\ StepsOf(t) = ConsumerSteps
      /\ {"spaceAvailable", "waitForAll", "mutexTail", "mutexHead"} \subseteq Sems
  BY Distinct, SemsAssumption DEF StepsOf
<1> HIDE DEF t
<1>2. CASE Loop(t, "get", "getCnt")
  <2>1. PICK step \in {"get", "getCnt"} : Goto(t, step)
    BY <1>2 DEF Loop
  <2>2. /\ at[t] = "loop" /\ Steps(t, step) /\ Active(t) /\ UNCHANGED vars
        /\ head' = head /\ tail' = tail /\ n' = n /\ producers' = producers /\ joined' = joined
    BY <1>1, <1>2, <2>1 DEF Loop, At, Goto, Steps, ConsumerSteps, bufferVars, localVars
  <2>3. Quiet(at[t], step)
    BY <2>1, <2>2 DEF Quiet, HeldSteps, ItemSteps
  <2> QED
    BY <1>1, <2>2, <2>3, PlainInv
<1>3. CASE WaitOn(t, "getLock", "mutexHead", "getCell")
  <2>1. Queued("getCell", "mutexHead") /\ Quiet("getLock", "getCell") /\ "getCell" \in StepsOf(t)
    BY <1>1 DEF Quiet, HeldSteps, ItemSteps, Queued, ConsumerSteps
  <2> QED
    BY <1>1, <1>3, <2>1, LockWaits
<1>4. CASE WaitOn(t, "getCnt", "mutexHead", "cntTail")
  <2>1. Queued("cntTail", "mutexHead") /\ Quiet("getCnt", "cntTail") /\ "cntTail" \in StepsOf(t)
    BY <1>1 DEF Quiet, HeldSteps, ItemSteps, Queued, ConsumerSteps
  <2> QED
    BY <1>1, <1>4, <2>1, LockWaits
<1>5. CASE WaitOn(t, "cntTail", "mutexTail", "cnt")
  <2>1. Queued("cnt", "mutexTail") /\ Quiet("cntTail", "cnt") /\ "cnt" \in StepsOf(t)
    BY <1>1 DEF Quiet, HeldSteps, ItemSteps, Queued, ConsumerSteps
  <2> QED
    BY <1>1, <1>5, <2>1, LockWaits
<1>6. CASE GetSpace
  <2>1. /\ at[t] = "getSpace" /\ Steps(t, "loop") /\ Signal(t, "spaceAvailable")
        /\ UNCHANGED <<bufferVars, localVars>>
    BY <1>1, <1>6 DEF GetSpace, At, Goto, Steps, ConsumerSteps, t
  <2>2. at[t] \in HeldSteps /\ "loop" \notin HeldSteps /\ (at[t] \in ItemSteps <=> "loop" \in ItemSteps)
    BY <2>1 DEF HeldSteps, ItemSteps
  <2> QED
    BY <1>1, <2>1, <2>2, SignalInv
<1>7. CASE Cnt(t)
  <2>1. /\ at[t] = "cnt" /\ Steps(t, "cntHead") /\ Signal(t, "mutexTail")
        /\ head' = head /\ tail' = tail /\ n' = n /\ producers' = producers /\ joined' = joined
    BY <1>1, <1>7 DEF Cnt, At, Goto, Steps, ConsumerSteps, bufferVars
  <2>2. Quiet(at[t], "cntHead")
    BY <2>1 DEF Quiet, HeldSteps, ItemSteps
  <2>3. /\ SemTypes /\ StepTypes /\ Queues
        /\ "spaceAvailable" \in Sems /\ "itemAvailable" \in Sems /\ "waitForAll" \in Sems
    BY <1>1, <2>1, Running, SemsAssumption
  <2>4. /\ SemTypes' /\ Queues' /\ open' = open /\ Free(t)
        /\ Stays("itemAvailable") /\ Stays("waitForAll") /\ Stays("spaceAvailable")
    BY <1>1, <2>1, <2>3, SignalMoves
  <2> QED
    BY <1>1, <2>1, <2>2, <2>4, QuietInv
<1>8. CASE CntReturns(t, "get", "signal")
  <2>1. PICK step \in {"get", "signal"} : Goto(t, step)
    BY <1>8 DEF CntReturns
  <2>2. /\ at[t] = "cntHead" /\ Steps(t, step) /\ Signal(t, "mutexHead")
        /\ UNCHANGED <<bufferVars, localVars>>
    BY <1>1, <1>8, <2>1 DEF CntReturns, At, Goto, Steps, ConsumerSteps
  <2>3. (at[t] \in HeldSteps <=> step \in HeldSteps) /\ (at[t] \in ItemSteps <=> step \in ItemSteps)
    BY <2>1, <2>2 DEF HeldSteps, ItemSteps
  <2> QED
    BY <1>1, <2>1, <2>2, <2>3, SignalInv
<1>9. CASE Ends(t)
  <2>1. /\ at[t] = "signal" /\ Steps(t, "done") /\ Signal(t, "waitForAll")
        /\ UNCHANGED <<bufferVars, localVars>>
    BY <1>1, <1>9 DEF Ends, At, Goto, Steps, ConsumerSteps
  <2>2. /\ at[t] \in HeldSteps <=> "done" \in HeldSteps
        /\ at[t] \in ItemSteps <=> "done" \in ItemSteps
    BY <2>1 DEF HeldSteps, ItemSteps
  <2> QED
    BY <1>1, <2>1, <2>2, SignalInv
<1> QED
  BY <1>2, <1>3, <1>4, <1>5, <1>6, <1>7, <1>8, <1>9, GetWaits, GetCellMoves
     DEF ConsumerStep, GetEnters, CountEnters, t

-----------------------------------------------------------------------------
(* The steps of main.                                                      *)

\* The first k semaphores.
LEMMA Openings ==
    ASSUME NEW k \in 0 .. 4
    PROVE  /\ IsFiniteSet(Opened(k)) /\ Cardinality(Opened(k)) = k
           /\ OpenOrder[k + 1] \in Sems
           /\ OpenOrder[k + 1] = "waitForAll" <=> k = 4
           /\ Opened(k + 1) = Opened(k) \cup {OpenOrder[k + 1]}
           /\ Opened(0) = {} /\ Opened(5) = Sems
<1> DEFINE O == OpenOrder
<1>1. /\ O[1] = "itemAvailable" /\ O[2] = "spaceAvailable" /\ O[3] = "mutexHead"
      /\ O[4] = "mutexTail" /\ O[5] = "waitForAll"
  BY DEF OpenOrder
<1> HIDE DEF O
<1>2. \A i \in 1 .. 5, j \in 1 .. 5 : O[i] = O[j] => i = j
  BY <1>1
<1>3. \A j \in Nat : Opened(j) = {O[i] : i \in 1 .. j}
  BY DEF Opened, O
<1>4. Opened(0) = {}
  BY <1>3
<1>5. Opened(5) = Sems
  BY <1>1, <1>3, SemsAssumption
<1>6. ASSUME NEW j \in 0 .. 4
      PROVE  Opened(j + 1) = Opened(j) \cup {O[j + 1]} /\ O[j + 1] \notin Opened(j)
  <2>1. 1 .. j + 1 = 1 .. j \cup {j + 1}
    OBVIOUS
  <2>2. Opened(j + 1) = Opened(j) \cup {O[j + 1]}
    BY <1>3, <2>1
  <2>3. \A i \in 1 .. j : i \in 1 .. 5 /\ j + 1 \in 1 .. 5 /\ i # j + 1
    OBVIOUS
  <2> QED
    BY <1>2, <1>3, <2>2, <2>3
<1>7. ASSUME NEW j \in 0 .. 4, IsFiniteSet(Opened(j)), Cardinality(Opened(j)) = j
      PROVE  IsFiniteSet(Opened(j + 1)) /\ Cardinality(Opened(j + 1)) = j + 1
  <2> DEFINE S == Opened(j)
             x == O[j + 1]
  <2>1. Opened(j + 1) = S \cup {x} /\ x \notin S /\ IsFiniteSet(S) /\ Cardinality(S) = j
    BY <1>6, <1>7
  <2> HIDE DEF S, x
  <2>2. IsFiniteSet(S \cup {x}) /\ Cardinality(S \cup {x}) = j + 1
    BY <2>1, FS_AddElement
  <2> QED
    BY <2>1, <2>2
<1>8. IsFiniteSet(Opened(0)) /\ Cardinality(Opened(0)) = 0
  BY <1>4, FS_EmptySet
<1>9. IsFiniteSet(Opened(k)) /\ Cardinality(Opened(k)) = k
  <2>1. IsFiniteSet(Opened(0 + 1)) /\ Cardinality(Opened(0 + 1)) = 0 + 1
    BY <1>7, <1>8
  <2>2. IsFiniteSet(Opened(1 + 1)) /\ Cardinality(Opened(1 + 1)) = 1 + 1
    BY <1>7, <2>1
  <2>3. IsFiniteSet(Opened(2 + 1)) /\ Cardinality(Opened(2 + 1)) = 2 + 1
    BY <1>7, <2>2
  <2>4. IsFiniteSet(Opened(3 + 1)) /\ Cardinality(Opened(3 + 1)) = 3 + 1
    BY <1>7, <2>3
  <2>5. k = 0 \/ k = 1 \/ k = 2 \/ k = 3 \/ k = 4
    OBVIOUS
  <2> QED
    BY <1>8, <2>1, <2>2, <2>3, <2>4, <2>5
<1>10. k + 1 \in 1 .. 5 /\ (k + 1 = 5 <=> k = 4)
  OBVIOUS
<1>11. O[k + 1] \in Sems /\ (O[k + 1] = "waitForAll" <=> k = 4)
  BY <1>1, <1>2, <1>10, SemsAssumption
<1> QED
  BY <1>4, <1>5, <1>6, <1>9, <1>11 DEF O

\* Nothing is held while the others are not there.
LEMMA NoneHeld ==
    ASSUME \A t \in Threads \ {Main} : at[t] = "none",
           at[Main] \notin HeldSteps \cup ItemSteps
    PROVE  Held = {} /\ Announcing = {} /\ Done = {}
  BY DEF Held, Announcing, Done, Outside, HeldSteps, ItemSteps

\* The same of the next state.
LEMMA NoneHeldNext ==
    ASSUME \A t \in Threads \ {Main} : at'[t] = "none",
           at'[Main] \notin HeldSteps \cup ItemSteps
    PROVE  Held' = {} /\ Announcing' = {} /\ Done' = {}
  BY DEF Held, Announcing, Done, Outside, HeldSteps, ItemSteps

\* The answers.
LEMMA InputInv ==
    ASSUME PInv, MainInput
    PROVE  PInv'
<1>1. PICK step \in {"open", "done"} : Goto(Main, step)
  BY DEF MainInput
<1>2. /\ Steps(Main, step) /\ at[Main] = "input" /\ Active(Main) /\ UNCHANGED vars
      /\ joined' = joined /\ head' = head /\ tail' = tail
  BY <1>1 DEF MainInput, At, Goto, Steps, StepsOf, MainSteps
<1>3. SemTypes' /\ Queues' /\ StepTypes' /\ at'[Main] = step /\ waiters' = waiters
      /\ open' = open /\ \A x \in Threads : x # Main => at'[x] = at[x]
  BY <1>2, Distinct, PlainMoves, StepTyped DEF PInv, vars
<1>4. n' \in Nat /\ producers' \subseteq Senders
  <2>1. n' \in Sizes \cup {0}
    BY DEF MainInput
  <2>2. producers' \subseteq Senders
    BY DEF MainInput, Senders
  <2> QED
    BY <2>1, <2>2, SizesAssumption
<1>5. joined = 0 /\ head = 0 /\ tail = 0 /\ open = {} /\ (\A s \in Sems : waiters[s] = <<>>)
      /\ \A t \in Threads \ {Main} : at[t] = "none"
  BY <1>2 DEF PInv
<1>6. LocalTypes'
  BY <1>2, <1>4, <1>5 DEF LocalTypes
<1>7. Opening'
  <2>1. 0 \in 0 .. 4 /\ open' = Opened(0)
    BY <1>3, <1>5, Openings
  <2> QED
    BY <1>3, <1>5, <2>1 DEF Opening, Opened
<1>8. step = "open" => Keyboard \in producers'
  <2>1. ASSUME producers' = {} PROVE step # "open"
    <3>1. Goto(Main, "done")
      BY <2>1 DEF MainInput
    <3>2. at'[Main] = "done"
      BY <1>2, <3>1, Distinct DEF Goto, PInv, StepTypes
    <3> QED
      BY <1>3, <3>2
  <2> QED
    BY <2>1 DEF MainInput
<1> QED
  BY <1>1, <1>2, <1>3, <1>5, <1>6, <1>7, <1>8, Distinct DEF PInv

\* The constructor of the buffer, and the semaphore for the end.
LEMMA OpensInv ==
    ASSUME PInv, MainOpens
    PROVE  PInv'
<1>1. /\ at[Main] = "open" /\ Active(Main) /\ joined = 0 /\ head = 0 /\ tail = 0
      /\ \A s \in Sems : waiters[s] = <<>>
      /\ \A t \in Threads \ {Main} : at[t] = "none"
      /\ SemTypes /\ StepTypes /\ LocalTypes /\ Queues
      /\ UNCHANGED <<bufferVars, localVars>>
  BY DEF MainOpens, At, PInv
<1>2. PICK k \in 0 .. 4 : open = Opened(k) /\ \A s \in open : units[s] = Initial(s)
  BY <1>1 DEF PInv, Opening
<1> DEFINE s == OpenOrder[k + 1]
           step == IF s = "waitForAll" THEN "create" ELSE "open"
<1>3. /\ Cardinality(open) = k /\ s \in Sems /\ (s = "waitForAll" <=> k = 4)
      /\ Opened(k + 1) = open \cup {s} /\ Opened(5) = Sems
  BY <1>2, Openings
<1>4. Open(Main, s) /\ units'[s] = Initial(s) /\ Goto(Main, step)
  BY <1>3 DEF MainOpens
<1> HIDE DEF s
<1>5. /\ open' = open \cup {s} /\ waiters' = waiters /\ outcome' = outcome /\ s \notin open
      /\ \E m \in InitValues : units' = [units EXCEPT ![s] = m]
  BY <1>4 DEF Open
<1>6. n' = n /\ Initial(s)' = Initial(s) /\ Initial(s) \in Nat
      /\ \A x \in Sems : Initial(x)' = Initial(x)
  <2>1. n' = n /\ n \in Nat
    BY <1>1 DEF localVars, LocalTypes
  <2> QED
    BY <1>3, <2>1, SemsAssumption DEF Initial
<1>7. units' = [units EXCEPT ![s] = Initial(s)]
  BY <1>1, <1>3, <1>4, <1>5 DEF SemTypes
<1>8. units' \in [Sems -> Nat] /\ \A x \in Sems : x # s => units'[x] = units[x]
  BY <1>1, <1>3, <1>6, <1>7 DEF SemTypes
<1>9. SemTypes'
  BY <1>1, <1>3, <1>5, <1>8 DEF SemTypes
<1>10. StepTypes' /\ at'[Main] = step /\ \A x \in Threads : x # Main => at'[x] = at[x]
  <2>1. Steps(Main, step)
    BY <1>4 DEF Steps, Goto, StepsOf, MainSteps
  <2> QED
    BY <1>1, <2>1, Distinct, StepTyped
<1>11. Queues'
  <2>1. ASSUME NEW x \in Sems
        PROVE IsInjective(waiters'[x]) /\ Range(waiters'[x]) = {}
    <3>1. waiters'[x] = <<>>
      BY <1>1, <1>5
    <3> QED
      BY <3>1 DEF IsInjective, Range
  <2> QED
    BY <2>1 DEF Queues
<1>12. LocalTypes'
  BY <1>1 DEF LocalTypes, bufferVars, localVars
<1>13. /\ \A x \in open' : units'[x] = Initial(x)'
       /\ open' = Opened(k + 1)
  <2>1. open \subseteq Sems
    BY <1>1 DEF SemTypes
  <2>2. ASSUME NEW x \in open' PROVE units'[x] = Initial(x)'
    <3>1. CASE x = s
      BY <1>4, <1>6, <3>1
    <3>2. CASE x # s
      <4>1. x \in open /\ x \in Sems
        BY <1>5, <2>1, <3>2
      <4> QED
        BY <1>2, <1>6, <1>8, <3>2, <4>1
    <3> QED
      BY <3>1, <3>2
  <2> QED
    BY <1>3, <1>5, <2>2
<1>14. CASE k = 4
  <2>1. open' = Sems /\ at'[Main] = "create"
    <3>1. k + 1 = 5
      BY <1>14
    <3> QED
      BY <1>3, <1>10, <1>13, <1>14, <3>1
  <2>2. /\ units'["spaceAvailable"] = n /\ units'["itemAvailable"] = 0
        /\ units'["waitForAll"] = 0
    BY <1>6, <1>13, <2>1, SemsAssumption DEF Initial
  <2>3. Held' = {} /\ Announcing' = {} /\ Done' = {}
    BY <1>1, <1>10, <2>1, NoneHeldNext DEF HeldSteps, ItemSteps
  <2>4. Cardinality({}) = 0
    BY FS_EmptySet
  <2>5. Buffered' = 0 /\ n \in Nat
    <3>1. head' = 0 /\ tail' = 0 /\ n' \in Nat /\ n' = n
      BY <1>1, <1>6, <1>12 DEF bufferVars, LocalTypes
    <3>2. (0 - 0) % (n' + 1) = 0
      BY <3>1, Ring
    <3> QED
      BY <3>1, <3>2 DEF Buffered
  <2>6. waiters'["waitForAll"] = <<>> /\ joined' = 0
    BY <1>1, <1>5, SemsAssumption DEF localVars
  <2>7. Places' /\ Items'
    BY <1>6, <2>2, <2>3, <2>4, <2>5 DEF Places, Items
  <2>8. Joins'
    BY <2>2, <2>3, <2>4, <2>6 DEF Joins
  <2> QED
    BY <1>1, <1>5, <1>9, <1>10, <1>11, <1>12, <2>1, <2>6, <2>7, <2>8
       DEF PInv, bufferVars, localVars
<1>15. CASE k # 4
  <2>1. at'[Main] = "open" /\ k + 1 \in 0 .. 4
    BY <1>3, <1>10, <1>15
  <2>2. Opening'
    BY <1>13, <2>1 DEF Opening, Opened
  <2> QED
    BY <1>1, <1>5, <1>9, <1>10, <1>11, <1>12, <2>1, <2>2 DEF PInv, bufferVars, localVars
<1> QED
  BY <1>14, <1>15

\* The threads.
LEMMA CreatesInv ==
    ASSUME PInv, MainCreates
    PROVE  PInv'
<1>1. /\ at[Main] = "create" /\ joined = 0 /\ head = 0 /\ tail = 0
      /\ \A s \in Sems : waiters[s] = <<>>
      /\ \A t \in Threads \ {Main} : at[t] = "none"
      /\ SemTypes /\ StepTypes /\ LocalTypes /\ Queues
      /\ UNCHANGED <<vars, bufferVars, localVars>>
      /\ open = Sems /\ Places /\ Items /\ Joins
  BY DEF MainCreates, At, PInv
<1>2. at' = [t \in Threads |-> CASE t = Main -> "join"
                                  [] t = Keyboard -> "key"
                                  [] t \in {Consumer} \cup (producers \ {Keyboard}) -> "loop"
                                  [] OTHER -> "none"]
  BY DEF MainCreates
<1>3. at'[Main] = "join"
  <2>1. Main # Keyboard /\ Main \notin {Consumer} \cup (producers \ {Keyboard}) /\ Main \in Threads
    BY <1>1, Distinct DEF LocalTypes
  <2> QED
    BY <1>2, <2>1
<1>4. ASSUME NEW t \in Threads, t # Main
      PROVE  /\ at'[t] \in {"none", "key", "loop"}
             /\ at'[t] \in StepsOf(t)
  <2>1. CASE t = Keyboard
    BY <1>2, <1>4, <2>1, Distinct DEF StepsOf, SenderSteps
  <2>2. CASE t # Keyboard
    <3>1. at'[t] \in {"loop", "none"}
      BY <1>2, <1>4, <2>2
    <3> QED
      BY <1>4, <2>2, <3>1 DEF StepsOf, SenderSteps, ConsumerSteps
  <2> QED
    BY <2>1, <2>2
<1>5. StepTypes'
  <2>1. \A t \in Threads : at'[t] \in StepsOf(t)
    BY <1>3, <1>4 DEF StepsOf, MainSteps
  <2>2. DOMAIN at' = Threads /\ at' = [t \in Threads |-> at'[t]]
    BY <1>2
  <2>3. \A t \in Threads : StepsOf(t) \subseteq MainSteps \cup ConsumerSteps \cup SenderSteps
    BY DEF StepsOf
  <2>4. at' \in [Threads -> MainSteps \cup ConsumerSteps \cup SenderSteps]
    BY <2>1, <2>2, <2>3
  <2> QED
    BY <2>1, <2>4 DEF StepTypes, StepsOf
<1>6. /\ Held' = {} /\ Announcing' = {} /\ Done' = {}
  <2>1. /\ \A t \in Threads : at'[t] \notin HeldSteps \cup ItemSteps
        /\ \A t \in Threads \ {Main} : at'[t] # "done"
    <3>1. \A t \in Threads : at'[t] \in {"none", "key", "loop", "join"}
      BY <1>3, <1>4
    <3> QED
      BY <3>1 DEF HeldSteps, ItemSteps
  <2> QED
    BY <2>1 DEF Held, Announcing, Done, Outside
<1>7. Held = {} /\ Announcing = {} /\ Done = {}
  BY <1>1, NoneHeld DEF HeldSteps, ItemSteps
<1>8. Places' /\ Items' /\ Joins'
  BY <1>1, <1>6, <1>7 DEF Places, Items, Joins, Buffered, vars, bufferVars, localVars
<1>9. Queues'
  <2>1. ASSUME NEW x \in Sems
        PROVE IsInjective(waiters'[x]) /\ Range(waiters'[x]) = {}
    <3>1. waiters'[x] = <<>>
      BY <1>1 DEF vars
    <3> QED
      BY <3>1 DEF IsInjective, Range
  <2> QED
    BY <2>1 DEF Queues
<1>10. SemTypes' /\ LocalTypes' /\ open' = Sems /\ producers' = producers
  BY <1>1 DEF SemTypes, LocalTypes, vars, bufferVars, localVars
<1>11. \A t \in Threads \ ({Main, Consumer} \cup producers') : at'[t] = "none"
  <2> SUFFICES ASSUME NEW t \in Threads \ ({Main, Consumer} \cup producers)
               PROVE  at'[t] = "none"
    BY <1>10
  <2>1. CASE t # Keyboard
    BY <1>2, <2>1
  <2>2. CASE t = Keyboard
    BY <1>1, <1>10, <2>2 DEF PInv
  <2> QED
    BY <2>1, <2>2
<1> QED
  BY <1>3, <1>5, <1>8, <1>9, <1>10, <1>11 DEF PInv

\* thread_join, as it were.
LEMMA JoinInv ==
    ASSUME PInv, MainJoins
    PROVE  PInv'
<1>1. /\ at[Main] = "join" /\ Active(Main) /\ Wait(Main, "waitForAll")
      /\ joined' = joined + 1 /\ UNCHANGED <<bufferVars, n, producers, key, count, threadEnd>>
      /\ SemTypes /\ StepTypes /\ LocalTypes /\ Queues
      /\ open = Sems /\ Places /\ Items /\ Joins
      /\ "spaceAvailable" \in Sems /\ "itemAvailable" \in Sems /\ "waitForAll" \in Sems
  BY SemsAssumption DEF MainJoins, At, PInv
<1> DEFINE step == IF joined' = threadNum + 1 THEN "close" ELSE "join"
<1>2. Goto(Main, step) /\ step \in {"close", "join"}
  BY DEF MainJoins
<1>3. step = "close" => joined' = threadNum' + 1
  BY <1>1 DEF threadNum
<1> HIDE DEF step
<1>4. /\ Steps(Main, step) /\ Queued(step, "waitForAll") /\ Main \in Threads
  BY <1>2, Distinct DEF Goto, Steps, StepsOf, MainSteps, Queued
<1>5. /\ SemTypes' /\ Queues' /\ open' = open /\ Free(Main)
      /\ Stays("spaceAvailable") /\ Stays("itemAvailable") /\ Waited(Main, "waitForAll")
  BY <1>1, <1>4, WaitMoves DEF Waited
<1>6. StepTypes' /\ at'[Main] = step /\ \A x \in Threads : x # Main => at'[x] = at[x]
  BY <1>1, <1>4, StepTyped
<1>7. LocalTypes' /\ Buffered' = Buffered + 0 /\ n' = n /\ producers' = producers
  BY <1>1, BufferedType DEF LocalTypes, Buffered, bufferVars
<1>8. /\ 0 + One(step \in HeldSteps) - One(at[Main] \in HeldSteps) = 0
      /\ One(step \in ItemSteps) - One(at[Main] \in ItemSteps) = 0
  BY <1>1, <1>2 DEF HeldSteps, ItemSteps, One
<1>9. Places'
  BY <1>1, <1>4, <1>5, <1>7, <1>8, PlacesKept
<1>10. Items'
  BY <1>1, <1>4, <1>5, <1>7, <1>8, ItemsKept
<1>11. Joins'
  <2> DEFINE u == units["waitForAll"]
             l == Len(waiters["waitForAll"])
             x == Cardinality(Done)
  <2>1. Done' = Done
    BY <1>6 DEF Done
  <2>2. u \in Nat /\ l \in Nat /\ joined \in Nat /\ x \in Nat
    <3>1. x \in Nat
      <4>1. Done \subseteq Threads
        BY DEF Done
      <4> QED
        BY <4>1, Distinct, FS_Subset, FS_CardinalityType
    <3> QED
      BY <1>1, <3>1 DEF SemTypes, LocalTypes
  <2>3. u + joined = x + l
    BY <1>1 DEF Joins
  <2>4. Joins' <=> units'["waitForAll"] + joined' = x + Len(waiters'["waitForAll"])
    BY <2>1 DEF Joins
  <2>5. \/ units'["waitForAll"] = u - 1 /\ Len(waiters'["waitForAll"]) = l
        \/ units'["waitForAll"] = u /\ Len(waiters'["waitForAll"]) = l + 1
    BY <1>5 DEF Waited, Enters
  <2> HIDE DEF u, l, x
  <2>6. /\ (u - 1) + (joined + 1) = x + l
        /\ u + (joined + 1) = x + (l + 1)
    BY <2>2, <2>3
  <2> QED
    BY <1>1, <2>4, <2>5, <2>6
<1> QED
  BY <1>1, <1>2, <1>3, <1>5, <1>6, <1>7, <1>9, <1>10, <1>11 DEF PInv

\* When main has counted all of them and is not waiting, they are all over.
LEMMA AllDone ==
    ASSUME PInv, at[Main] = "close", Free(Main)
    PROVE  \A t \in Threads \ {Main} : at[t] \in {"none", "done"}
<1> DEFINE s == "waitForAll"
           Started == producers \cup {Consumer}
<1>1. /\ Joins /\ joined = threadNum + 1 /\ SemTypes /\ StepTypes /\ LocalTypes /\ Queues
      /\ s \in Sems
      /\ \A t \in Threads \ ({Main, Consumer} \cup producers) : at[t] = "none"
  BY SemsAssumption DEF PInv
<1>2. waiters[s] = <<>>
  <2> SUFFICES ASSUME waiters[s] # <<>> PROVE FALSE
    OBVIOUS
  <2> DEFINE q == waiters[s]
  <2>1. q \in Seq(Threads) /\ q # <<>> /\ IsInjective(q)
    BY <1>1 DEF SemTypes, Queues
  <2>2. Head(q) \in Range(q) /\ Head(q) \in Threads
    BY <2>1, TailQueue
  <2> HIDE DEF q
  <2>3. at[Head(q)] \in {"join", "close"}
    BY <1>1, <2>2 DEF Queues, Queued, q
  <2>4. Head(q) # Main
    BY <1>1, <2>2 DEF Free, q
  <2> QED
    BY <1>1, <2>2, <2>3, <2>4 DEF StepTypes, StepsOf, ConsumerSteps, SenderSteps
<1>3. IsFiniteSet(producers) /\ threadNum \in Nat /\ Consumer \notin producers
  BY <1>1, Distinct, FS_Subset, FS_CardinalityType DEF LocalTypes, threadNum
<1>4. IsFiniteSet(Started) /\ Cardinality(Started) = threadNum + 1
  BY <1>3, FS_AddElement DEF threadNum
<1>5. Done \subseteq Started
  BY <1>1 DEF Done
<1>6. Cardinality(Done) \in Nat
  BY <1>4, <1>5, FS_Subset, FS_CardinalityType
<1>7. Cardinality(Done) = units[s] + (threadNum + 1) /\ units[s] \in Nat
  <2>1. Len(waiters[s]) = 0
    BY <1>2
  <2> QED
    BY <1>1, <1>3, <1>6, <2>1 DEF Joins, SemTypes
<1>8. Done = Started
  <2> DEFINE S == Started
             D == Done
  <2>1. IsFiniteSet(S) /\ D \subseteq S /\ Cardinality(D) >= Cardinality(S)
    BY <1>3, <1>4, <1>5, <1>6, <1>7
  <2>2. Cardinality(D) \in Nat /\ Cardinality(S) \in Nat
    BY <1>3, <1>4, <1>6
  <2> HIDE DEF S, D
  <2>3. Cardinality(D) <= Cardinality(S) /\ (Cardinality(S) = Cardinality(D) => S = D)
    BY <2>1, FS_Subset
  <2>4. D = S
    BY <2>1, <2>2, <2>3
  <2> QED
    BY <2>4 DEF S, D
<1> QED
  BY <1>1, <1>8 DEF Done

\* What main does then is alone with the buffer.
LEMMA AfterInv ==
    ASSUME PInv, \A t \in Threads \ {Main} : at[t] \in {"none", "done"},
           NEW step \in {"getCnt", "cntTail", "cnt", "cntHead", "drain", "free", "done"},
           Steps(Main, step), SemTypes', Queues', LocalTypes', producers' = producers
    PROVE  PInv'
<1>1. StepTypes' /\ at'[Main] = step /\ \A x \in Threads : x # Main => at'[x] = at[x]
  BY Distinct, StepTyped DEF PInv
<1> QED
  BY <1>1, Distinct DEF PInv

\* A close of which nobody can be a victim.
LEMMA CloseMoves ==
    ASSUME SemTypes, StepTypes, Queues, NEW s \in Sems, Close(Main, s),
           \A t \in Threads \ {Main} : at[t] \in {"none", "done"},
           NEW step, Steps(Main, step)
    PROVE  SemTypes' /\ Queues'
<1>1. /\ Free(Main) /\ open' = open \ {s} /\ units' = [units EXCEPT ![s] = 0]
      /\ outcome' = [u \in Threads |-> IF u \in Range(waiters[s]) THEN "closed" ELSE outcome[u]]
      /\ waiters' = [waiters EXCEPT ![s] = <<>>] /\ Main \in Threads
  BY Distinct DEF Close, Active, Free
<1>2. at'[Main] = step /\ \A x \in Threads : x # Main => at'[x] = at[x]
  BY <1>1, StepTyped
<1>3. ASSUME NEW x \in Sems, NEW u \in Range(waiters[x]) PROVE FALSE
  <2>1. u \in Threads
    BY DEF SemTypes, Range
  <2>2. Queued(at[u], x)
    BY DEF Queues
  <2>3. u # Main
    BY <1>1, <1>3 DEF Free
  <2> QED
    BY <2>1, <2>2, <2>3 DEF Queued
<1>4. outcome' \in [Threads -> {"none", "granted"}]
  BY <1>1, <1>3 DEF SemTypes
<1>5. waiters' \in [Sems -> Seq(Threads)]
  BY <1>1 DEF SemTypes
<1>6. \A x \in Sems : Range(waiters'[x]) = {} /\ IsInjective(waiters'[x])
  <2> SUFFICES ASSUME NEW x \in Sems PROVE Range(waiters'[x]) = {} /\ IsInjective(waiters'[x])
    OBVIOUS
  <2>1. CASE x = s
    <3>1. waiters'[x] = <<>>
      BY <1>1, <2>1 DEF SemTypes
    <3> QED
      BY <3>1 DEF Range, IsInjective
  <2>2. CASE x # s
    <3>1. waiters'[x] = waiters[x]
      BY <1>1, <2>2 DEF SemTypes
    <3> QED
      BY <1>3, <3>1 DEF Queues
  <2> QED
    BY <2>1, <2>2
<1> QED
  BY <1>1, <1>4, <1>5, <1>6 DEF SemTypes, Queues

\* sem_close and the destructor of the buffer.
LEMMA LastInv ==
    ASSUME PInv, \/ MainCloses \/ CountEnters(Main) \/ Cnt(Main)
                 \/ CntReturns(Main, "drain", "free") \/ MainDrains
    PROVE  PInv'
<1>1. /\ SemTypes /\ StepTypes /\ LocalTypes /\ Queues
      /\ {"waitForAll", "mutexTail", "mutexHead"} \subseteq Sems
      /\ Main \in Threads /\ StepsOf(Main) = MainSteps
  BY Distinct, SemsAssumption DEF PInv, StepsOf
<1>2. at[Main] \notin {"join", "close"} => \A t \in Threads \ {Main} : at[t] \in {"none", "done"}
  BY DEF PInv
<1>3. CASE MainCloses
  <2>1. PICK s \in Sems, step \in {"getCnt", "done", "free"} :
           Close(Main, s) /\ Goto(Main, step) /\ at[Main] \in {"close", "free"}
    <3>1. CASE At(Main, "close") /\ Close(Main, "waitForAll") /\ Goto(Main, "getCnt")
      BY <1>1, <3>1 DEF At
    <3>2. CASE At(Main, "free")
      <4> DEFINE s == CloseOrder[5 - Cardinality(open)]
      <4>1. /\ at[Main] = "free" /\ Close(Main, s)
            /\ Goto(Main, IF s = "mutexHead" THEN "done" ELSE "free")
        BY <1>3, <3>2 DEF MainCloses, At
      <4> HIDE DEF s
      <4>2. s \in Sems
        BY <1>1, <4>1 DEF Close, SemTypes
      <4> QED
        BY <4>1, <4>2
    <3> QED
      BY <1>3, <3>1, <3>2 DEF MainCloses
  <2>2. Steps(Main, step) /\ UNCHANGED <<bufferVars, localVars>> /\ Free(Main)
    BY <1>1, <1>3, <2>1 DEF MainCloses, Goto, Steps, MainSteps, Close, Active, Free
  <2>3. \A t \in Threads \ {Main} : at[t] \in {"none", "done"}
    BY <1>2, <2>1, <2>2, AllDone
  <2>4. SemTypes' /\ Queues'
    BY <1>1, <2>1, <2>2, <2>3, CloseMoves
  <2>5. LocalTypes' /\ producers' = producers
    BY <1>1, <2>2 DEF LocalTypes, bufferVars, localVars
  <2> QED
    BY <2>1, <2>2, <2>3, <2>4, <2>5, AfterInv
<1>4. CASE CountEnters(Main)
  <2>1. PICK s \in Sems, step \in {"cntTail", "cnt"} :
           /\ Wait(Main, s) /\ Goto(Main, step) /\ Queued(step, s)
           /\ at[Main] \in {"getCnt", "cntTail"} /\ UNCHANGED <<bufferVars, localVars>>
    BY <1>1, <1>4 DEF CountEnters, WaitOn, At, Queued
  <2>2. Steps(Main, step)
    BY <1>1, <2>1 DEF Goto, Steps, MainSteps
  <2>3. SemTypes' /\ Queues'
    BY <1>1, <2>1, <2>2, WaitMoves
  <2>4. LocalTypes' /\ producers' = producers
    BY <1>1, <2>1 DEF LocalTypes, bufferVars, localVars
  <2>5. \A t \in Threads \ {Main} : at[t] \in {"none", "done"}
    BY <1>2, <2>1
  <2> QED
    BY <2>1, <2>2, <2>3, <2>4, <2>5, AfterInv
<1>5. CASE Cnt(Main) \/ CntReturns(Main, "drain", "free")
  <2>1. PICK s \in Sems, step \in {"cntHead", "drain", "free"} :
           /\ Signal(Main, s) /\ Goto(Main, step)
           /\ at[Main] \in {"cnt", "cntHead"} /\ UNCHANGED <<bufferVars, n, producers, joined>>
    BY <1>1, <1>5 DEF Cnt, CntReturns, At, localVars
  <2>2. Steps(Main, step)
    BY <1>1, <2>1 DEF Goto, Steps, MainSteps
  <2>3. SemTypes' /\ Queues'
    BY <1>1, <2>1, <2>2, SignalMoves
  <2>4. LocalTypes' /\ producers' = producers
    BY <1>1, <2>1 DEF LocalTypes, bufferVars
  <2>5. \A t \in Threads \ {Main} : at[t] \in {"none", "done"}
    BY <1>2, <2>1
  <2> QED
    BY <2>1, <2>2, <2>3, <2>4, <2>5, AfterInv
<1>6. CASE MainDrains
  <2>1. /\ at[Main] = "drain" /\ Active(Main) /\ UNCHANGED vars /\ Goto(Main, "getCnt")
        /\ head' = (head + 1) % cap /\ UNCHANGED <<tail, n, producers, joined>>
    BY <1>6 DEF MainDrains, At
  <2>2. Steps(Main, "getCnt")
    BY <1>1, <2>1 DEF Goto, Steps, MainSteps
  <2>3. SemTypes' /\ Queues'
    BY <1>1, <2>1, <2>2, PlainMoves
  <2>4. LocalTypes' /\ producers' = producers
    <3>1. head' = IF head = n THEN 0 ELSE head + 1
      BY <1>1, <2>1, Ring DEF LocalTypes, cap
    <3> QED
      BY <1>1, <2>1, <3>1 DEF LocalTypes
  <2>5. \A t \in Threads \ {Main} : at[t] \in {"none", "done"}
    BY <1>2, <2>1
  <2> QED
    BY <2>2, <2>3, <2>4, <2>5, AfterInv
<1> QED
  BY <1>3, <1>4, <1>5, <1>6
-----------------------------------------------------------------------------
(* The invariant.                                                          *)

\* A wait that was granted returns.
LEMMA ReturnInv ==
    ASSUME PInv, NEW t \in Threads, WaitReturns(t), UNCHANGED programVars
    PROVE  PInv'
<1>1. /\ outcome' = [outcome EXCEPT ![t] = "none"]
      /\ UNCHANGED <<open, units, waiters, programVars>>
  BY DEF WaitReturns
<1>2. SemTypes'
  BY <1>1 DEF PInv, SemTypes
<1>3. UNCHANGED <<open, units, waiters, at, head, tail, n, producers, joined>>
  BY <1>1 DEF programVars, bufferVars, localVars
<1> QED
  BY <1>2, <1>3 DEF PInv, StepTypes, LocalTypes, Queues, Places, Items, Joins, Opening,
                    Held, Announcing, Done, Outside, Buffered, threadNum, Initial

\* No step leaves the invariant.
LEMMA StepInv ==
    ASSUME PInv, [ProgramNext]_allVars
    PROVE  PInv'
<1>1. CASE UNCHANGED allVars
  BY <1>1 DEF allVars, vars, programVars, bufferVars, localVars,
              PInv, SemTypes, StepTypes, LocalTypes, Queues, Places, Items, Joins, Opening,
              Held, Announcing, Done, Outside, Buffered, threadNum, Initial
<1>2. ASSUME NEW t \in Threads, Step(t) PROVE PInv'
  <2>1. CASE WaitReturns(t) /\ UNCHANGED programVars
    BY <2>1, ReturnInv
  <2>2. CASE t = Main /\ MainStep
    BY <2>2, InputInv, OpensInv, CreatesInv, JoinInv, LastInv DEF MainStep
  <2>3. CASE t = Consumer /\ (ConsumerStep \/ Ends(t))
    BY <2>3, ConsumerInv
  <2>4. CASE t = Keyboard /\ (KeyboardGets \/ ProducerStep(t))
    BY <2>4, SenderInv DEF Senders, ProducerStep
  <2>5. CASE t \in Producers /\ (Loop(t, "put", "signal") \/ ProducerStep(t))
    BY <2>5, SenderInv DEF Senders, ProducerStep
  <2> QED
    BY <1>2, <2>1, <2>2, <2>3, <2>4, <2>5 DEF Step
<1> QED
  BY <1>1, <1>2 DEF ProgramNext

\* The program starts in the invariant.
LEMMA InitInv ==
    ASSUME ProgramInit
    PROVE  PInv
<1>1. /\ SemTypes /\ open = {} /\ \A s \in Sems : waiters[s] = <<>>
  BY DEF ProgramInit, Init, SemTypes
<1>2. /\ at[Main] = "input" /\ \A t \in Threads \ {Main} : at[t] = "none"
      /\ at \in [Threads -> {"input", "none"}]
  BY Distinct DEF ProgramInit
<1>3. StepTypes
  BY <1>2 DEF StepTypes, StepsOf, MainSteps, ConsumerSteps, SenderSteps
<1>4. LocalTypes /\ joined = 0 /\ head = 0 /\ tail = 0
  BY DEF ProgramInit, LocalTypes
<1>5. Queues
  BY <1>1 DEF Queues, Range, IsInjective
<1> QED
  BY <1>1, <1>2, <1>3, <1>4, <1>5 DEF PInv

\* Whatever the threads do in whatever order, the three counts hold: of the
\* places, of the items, and of the signals for the end.
THEOREM ProgramInvariant == ProgramSpec => []PInv
<1>1. ProgramInit => PInv
  BY InitInv
<1>2. PInv /\ [ProgramNext]_allVars => PInv'
  BY StepInv
<1> QED
  BY <1>1, <1>2, PTL DEF ProgramSpec

-----------------------------------------------------------------------------
(* What it means.                                                          *)

\* The lines of Buffer::put and Buffer::get, in any interleaving of any
\* number of producers with the consumer, lose no place of the buffer.
THEOREM NoPlaceIsLost == ProgramSpec => []PlacesAccountedFor
<1>1. ASSUME PInv PROVE PlacesAccountedFor
  <2> DEFINE promised == {t \in Senders : /\ at[t] \in {"putLock", "putCell", "putTail"}
                                          /\ t \notin Range(waiters["spaceAvailable"])}
             freed    == {t \in {Consumer} : at[t] = "getSpace"}
  <2> SUFFICES ASSUME at[Main] \in {"create", "join"}
               PROVE  units["spaceAvailable"] + Len(Contents) + Cardinality(promised \cup freed) = n
    BY DEF PlacesAccountedFor
  <2>1. Places /\ SemTypes /\ StepTypes /\ LocalTypes /\ Queues /\ "spaceAvailable" \in Sems
    BY <1>1, SemsAssumption DEF PInv
  <2>2. Len(Contents) = Buffered
    <3>1. (tail - head) % cap \in Nat
      BY <2>1, BufferedType DEF Buffered, cap
    <3> QED
      BY <3>1 DEF Contents, Buffered, cap
  <2>3. promised \cup freed = Held
    <3>1. at[Consumer] = "getSpace" => Consumer \notin Range(waiters["spaceAvailable"])
      BY <2>1 DEF Queues, Queued
    <3>2. \A t \in Senders : at[t] \in SenderSteps
      BY <2>1, Distinct DEF StepTypes, StepsOf
    <3>3. at[Main] \notin HeldSteps /\ at[Consumer] \notin HeldSteps \ {"getSpace"}
      BY <2>1, Distinct DEF StepTypes, StepsOf, ConsumerSteps, HeldSteps
    <3> QED
      BY <3>1, <3>2, <3>3, Distinct DEF Held, Outside, HeldSteps, SenderSteps
  <2> QED
    BY <2>1, <2>2, <2>3 DEF Places
<1> QED
  BY <1>1, ProgramInvariant, PTL

\* main waits as often as there are threads that signal (`i <= threadNum`),
\* so that it deletes the buffer after the last of them is over, and no wait
\* ever finds its semaphore closed.
THEOREM DeletedLast == ProgramSpec => []UsersBeforeDelete
<1>1. PInv => UsersBeforeDelete
  BY DEF PInv, UsersBeforeDelete, SemTypes
<1> QED
  BY <1>1, ProgramInvariant, PTL

-----------------------------------------------------------------------------
(* The program and the semaphores.                                         *)

\* The program makes only calls that Semaphores has: it never opens a
\* semaphore twice and never uses one that is not open.
THEOREM ProgramCallsSemaphores == ProgramSpec => Spec
<1>1. ProgramInit => Init
  BY DEF ProgramInit
<1>2. ASSUME PInv, [ProgramNext]_allVars PROVE [Next]_vars
  <2>1. CASE UNCHANGED allVars
    BY <2>1 DEF allVars
  <2>2. ASSUME NEW t \in Threads, Step(t) PROVE [Next]_vars
    <3>1. {"itemAvailable", "spaceAvailable", "mutexHead", "mutexTail", "waitForAll"} \subseteq Sems
      BY SemsAssumption
    <3>2. ASSUME \/ WaitReturns(t)
                 \/ \E s \in Sems : Open(t, s) \/ Close(t, s) \/ Wait(t, s) \/ Signal(t, s)
                 \/ UNCHANGED vars
          PROVE  [Next]_vars
      BY <3>2 DEF Next
    <3>3. CASE t = Main /\ MainStep
      <4>1. CASE MainOpens
        <5>1. PICK k \in 0 .. 4 : open = Opened(k)
          BY <1>2, <4>1 DEF MainOpens, At, PInv, Opening
        <5>2. Cardinality(open) = k /\ OpenOrder[k + 1] \in Sems
          BY <5>1, Openings
        <5>3. Open(Main, OpenOrder[k + 1])
          BY <4>1, <5>2 DEF MainOpens
        <5> QED
          BY <3>2, <3>3, <5>2, <5>3
      <4>2. CASE MainCloses
        <5>1. open \subseteq Sems
          BY <1>2 DEF PInv, SemTypes
        <5>2. \A s : Close(Main, s) => s \in Sems
          BY <5>1 DEF Close
        <5>3. \E s \in Sems : Close(Main, s)
          BY <4>2, <5>2 DEF MainCloses
        <5> QED
          BY <3>2, <3>3, <5>3
      <4>3. CASE MainInput \/ MainCreates \/ MainDrains
        BY <4>3 DEF MainInput, MainCreates, MainDrains, vars
      <4>4. CASE MainJoins
        BY <3>1, <3>2, <3>3, <4>4 DEF MainJoins
      <4>5. CASE CountEnters(Main) \/ Cnt(Main) \/ CntReturns(Main, "drain", "free")
        BY <3>1, <3>2, <3>3, <4>5 DEF CountEnters, WaitOn, Cnt, CntReturns
      <4> QED
        BY <3>3, <4>1, <4>2, <4>3, <4>4, <4>5 DEF MainStep
    <3>4. CASE ConsumerStep /\ t = Consumer
      BY <3>1, <3>2, <3>4 DEF ConsumerStep, Loop, GetEnters, WaitOn, GetCell, GetSpace,
                              CountEnters, Cnt, CntReturns
    <3>5. CASE Ends(t)
      BY <3>1, <3>2, <3>5 DEF Ends
    <3>6. CASE KeyboardGets \/ Loop(t, "put", "signal") \/ PutCell(t)
      BY <3>6 DEF KeyboardGets, Loop, PutCell
    <3>7. CASE PutEnters(t) \/ PutTail(t) \/ PutItem(t)
      BY <3>1, <3>2, <3>7 DEF PutEnters, WaitOn, PutTail, PutItem
    <3> QED
      BY <2>2, <3>2, <3>3, <3>4, <3>5, <3>6, <3>7 DEF Step, ProducerStep
  <2> QED
    BY <1>2, <2>1, <2>2 DEF ProgramNext
<1> QED
  BY <1>1, <1>2, ProgramInvariant, PTL DEF ProgramSpec, Spec
=============================================================================
