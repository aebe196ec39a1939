------------------------ MODULE MCNonBlockingQueue ------------------------
(* Model-checking instance of NonBlockingQueue: thread names as model     *)
(* values.                                                                *)
EXTENDS NonBlockingQueue, TLC

CONSTANTS t1, t2

\* Threads run the same code: permuting their names maps runs to runs.
ThreadSymmetry == Permutations(Threads)
=============================================================================
