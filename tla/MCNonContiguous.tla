-------------------------- MODULE MCNonContiguous --------------------------
(* NC_DATA_SIZE scaled down to 2 bytes of one bit each; SHA256 replaced by *)
(* a fixed non-linear function on 2-bit words.                             *)
EXTENDS NonContiguous

MCHash == [w \in Word(2) |-> <<w[1] /\ w[2], ~w[1]>>]
=============================================================================
