------------------------------ MODULE MCSnapshot ------------------------------
(* Model-checking instance of Snapshot: two clients with their own vault  *)
(* ids, and a third vault id for the master key.                          *)
EXTENDS Snapshot, TLC

CONSTANTS c1, c2, v1, v2, v3

MCVaultOf == (c1 :> v1) @@ (c2 :> v2)
=============================================================================
