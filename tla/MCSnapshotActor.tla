---------------------------- MODULE MCSnapshotActor ----------------------------
(* Model-checking instance of SnapshotActor: client names as model values. *)
EXTENDS SnapshotActor, TLC

CONSTANTS c1, c2

\* Clients are interchangeable: permuting their names maps runs to runs.
ClientSymmetry == Permutations(ClientIds)
=============================================================================
