------------------------------ MODULE MCKernel ------------------------------
(* Kernel on a small instance.                                             *)
EXTENDS Kernel

CONSTANTS main, t1, s1

TwoThreads == {main, t1}
OneSem == {s1}
=============================================================================
