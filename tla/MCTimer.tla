------------------------------ MODULE MCTimer -------------------------------
(* The kernel with its timer on a small instance.                          *)
EXTENDS KernelTimer

CONSTANTS main, t1, t2, t3, s1, s2

TwoThreads == {main, t1}

OneSem == {s1}

=============================================================================
