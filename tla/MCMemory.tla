------------------------------ MODULE MCMemory ------------------------------
(* KernelMemory on small instances.                                        *)
EXTENDS KernelMemory, KernelSemaphores, TLC

CONSTANTS main, t1, t2, s1, s2

ThreeThreads == {main, t1, t2}
TwoSems == {s1, s2}

TwoNullCodes == {-2, -1}

\* The created threads are alike, and so are the semaphores.
Symmetry == Permutations(Threads \ {main}) \cup Permutations(Sems)
=============================================================================
