------------------------------- MODULE MCBoot -------------------------------
(* main() on a small instance.                                             *)
EXTENDS Boot

CONSTANTS main, t1, t2, t3, s1, s2

ThreeThreads == {main, t1, t2}
FourThreads == {main, t1, t2, t3}
TwoSems == {s1, s2}

\* thread_create, without room for a stack.
NoStack == {-3}
=============================================================================
