------------------------ MODULE MCNonBlockingStack ------------------------
(* Model-checking instance of NonBlockingStack: thread names as model     *)
(* values.                                                                *)
EXTENDS NonBlockingStack, TLC

CONSTANTS t1, t2

\* Threads run the same code: permuting their names maps runs to runs.
ThreadSymmetry == Permutations(Threads)
=============================================================================
