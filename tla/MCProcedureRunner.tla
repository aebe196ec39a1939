------------------------- MODULE MCProcedureRunner -------------------------
(* Model-checking instance of ProcedureRunner: one vault with two records, *)
(* two secrets, one output key and five procedures that exercise every     *)
(* shape: a generated secret, a secret derived from it, a use of it that  *)
(* publishes an output, and steps that consume that output.               *)
EXTENDS ProcedureRunner

CONSTANTS v1, r1, r2, k1

L1 == <<v1, r1>>
L2 == <<v1, r2>>

MCProcedures ==
  { [kind |-> "GenerateSecret", source |-> L1, target |-> L1, input |-> NoKey, output |-> NoKey],
    [kind |-> "DeriveSecret",   source |-> L1, target |-> L2, input |-> NoKey, output |-> NoKey],
    [kind |-> "UseSecret",      source |-> L2, target |-> L2, input |-> NoKey, output |-> k1],
    [kind |-> "ProcessData",    source |-> L1, target |-> L1, input |-> k1,    output |-> NoKey],
    [kind |-> "GenerateSecret", source |-> L2, target |-> L2, input |-> k1,    output |-> NoKey] }

=============================================================================
