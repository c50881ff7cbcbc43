------------------------------- MODULE Channel -------------------------------
(***************************************************************************)
(* What a bounded buffer promises: a first-in-first-out channel of at most *)
(* `bound` values, which is chosen once.  A put takes effect once, with    *)
(* its own value, somewhere between its call and its return.               *)
(***************************************************************************)
EXTENDS Integers, Sequences

CONSTANTS
    Senders,
    Values,
    Nothing,    \* no value
    Bounds      \* the bounds there may be

VARIABLES
    bound,      \* 0: there is no channel
    putting,    \* what each sender is about to put
    queue,      \* what was put and not received
    received    \* the last value received

vars == <<bound, putting, queue, received>>

Init ==
    /\ bound = 0 /\ queue = <<>> /\ received \in Values
    /\ putting = [t \in Senders |-> Nothing]

Create ==
    /\ bound = 0
    /\ bound' \in Bounds
    /\ UNCHANGED <<putting, queue, received>>

Put(t, v) ==
    /\ putting[t] = Nothing
    /\ putting' = [putting EXCEPT ![t] = v]
    /\ UNCHANGED <<bound, queue, received>>

Arrives(t) ==
    /\ putting[t] # Nothing /\ Len(queue) < bound
    /\ queue' = Append(queue, putting[t])
    /\ putting' = [putting EXCEPT ![t] = Nothing]
    /\ UNCHANGED <<bound, received>>

Receive ==
    /\ queue # <<>>
    /\ queue' = Tail(queue)
    /\ received' = Head(queue)
    /\ UNCHANGED <<bound, putting>>

Next ==
    \/ Create \/ Receive
    \/ \E t \in Senders : Arrives(t) \/ \E v \in Values : Put(t, v)

Spec == Init /\ [][Next]_vars
=============================================================================
