------------------------------- MODULE MCTrap -------------------------------
(* Trap on small instances.                                                *)
EXTENDS Trap, TLC

CONSTANTS main, a, b

TwoThreads == {main, a}
ThreeThreads == {main, a, b}

\* main is the only system thread; the others are alike.
Alike == Permutations({a, b})
=============================================================================
