--------------------------- MODULE ProcedureRunner ---------------------------
(***************************************************************************)
(* A client executing chains of cryptographic procedures against its       *)
(* vault (Client::execure_procedure_chained in client_new/src/types/       *)
(* client.rs) and the step bodies the execute_procedure macro generates    *)
(* for the four procedure shapes (derive/src/procs.rs).                    *)
(*                                                                         *)
(* One loop iteration of the chain is one step: it logs the procedure's    *)
(* target, then either succeeds (writes its secret, publishes its output)  *)
(* or fails, in which case the same step revokes every logged location and *)
(* returns the error.  The client is a single-threaded actor: the façade   *)
(* operations (create vault, write, revoke, gc) only run between chains.   *)
(***************************************************************************)
EXTENDS Vault, Sequences

CONSTANTS
  OutputKeys,   \* keys of the temporary state table of non-secret outputs
  NoKey,        \* InputData::Value (literal input) or no output key
  Procedures,   \* the procedure descriptors a chain is built from
  MaxChain      \* longest chain submitted

Kinds == {"GenerateSecret", "DeriveSecret", "UseSecret", "ProcessData"}

Descriptors ==
  [kind : Kinds, source : Locations, target : Locations,
   input : OutputKeys \cup {NoKey}, output : OutputKeys \cup {NoKey}]

ASSUME RunnerAssumption ==
  /\ NoKey \notin OutputKeys
  /\ Procedures \subseteq Descriptors
  /\ MaxChain \in Nat \ {0}

VARIABLES
  chain,    \* the procedures of the running chain; << >> when idle
  next,     \* index of the next procedure to execute
  log,      \* the undo log: target locations pushed before each step
  outputs,  \* keys present in the state table of the running chain
  written,  \* history: locations written by the current (or last) chain
  before,   \* history: the DbView when the current (or last) chain began
  result    \* "none", or the outcome of the last chain: "ok" / "err"

runnerVars == <<chain, next, log, outputs, written, before, result>>
vars == <<keys, db, chain, next, log, outputs, written, before, result>>

Running == chain # << >>

LogSet == {log[i] : i \in 1..Len(log)}

\* proc.output(): the procedures that write a secret report their target.
WritesSecret(p) == p.kind \in {"GenerateSecret", "DeriveSecret"}

\* The state table lookup of the generated input code: a literal input is
\* always there, a keyed one must have been published by an earlier step.
InputReady(p) == p.input = NoKey \/ p.input \in outputs

\* state.insert_output(key, ...) when the procedure returns data.
PublishOutput(p) ==
  outputs' = IF p.output = NoKey THEN outputs ELSE outputs \cup {p.output}

\* Runner::write_to_vault: creates the vault's key if it has none, then
\* writes the secret.
WriteToVault(l, s) ==
  /\ keys' = keys \cup {l[1]}
  /\ db' = [db EXCEPT ![l] = s]

TypeOK ==
  /\ VaultTypeOK
  /\ chain \in Seq(Procedures)
  /\ next \in Nat
  /\ log \in Seq(Locations)
  /\ outputs \subseteq OutputKeys
  /\ written \subseteq Locations
  /\ before \in [Locations -> RecordState]
  /\ result \in {"none", "ok", "err"}

Init ==
  /\ VaultInit
  /\ chain = << >> /\ next = 1 /\ log = << >> /\ outputs = {}
  /\ written = {} /\ before = db /\ result = "none"

(* execure_procedure_chained is called: fresh output list, log and state. *)
Submit ==
  /\ ~Running
  /\ \E n \in 1..MaxChain : \E c \in [1..n -> Procedures] : chain' = c
  /\ next' = 1
  /\ log' = << >> /\ outputs' = {} /\ written' = {}
  /\ before' = db /\ result' = "none"
  /\ UNCHANGED vaultVars

(* One iteration of the loop that succeeds: push proc.output() to the log, *)
(* then run the generated body of the procedure's shape.                  *)
ExecuteStep ==
  /\ Running /\ next <= Len(chain)
  /\ LET p == chain[next] IN
       /\ log' = IF WritesSecret(p) THEN Append(log, p.target) ELSE log
       /\ InputReady(p)
       /\ \/ /\ p.kind = "GenerateSecret"
             /\ \E s \in Secrets : WriteToVault(p.target, s)
             /\ written' = written \cup {p.target}
          \/ /\ p.kind = "DeriveSecret"
             /\ IsLive(p.source)
             /\ \E s \in Secrets : WriteToVault(p.target, s)
             /\ written' = written \cup {p.target}
          \/ /\ p.kind = "UseSecret"
             /\ IsLive(p.source)
             /\ UNCHANGED <<keys, db, written>>
          \/ /\ p.kind = "ProcessData"
             /\ UNCHANGED <<keys, db, written>>
       /\ PublishOutput(p)
  /\ next' = next + 1
  /\ UNCHANGED <<chain, before, result>>

(* Faulty variant of FailStep (off-by-one in the undo loop: the first     *)
(* logged location is skipped), to confirm RollbackRevokesChainWrites     *)
(* detects it.                                                            *)
FailStepSkipFirst ==
  /\ Running /\ next <= Len(chain)
  /\ LET p == chain[next]
         undo == IF WritesSecret(p) THEN Append(log, p.target) ELSE log
     IN  /\ log' = undo
         /\ db' = RevokedView(db, {undo[i] : i \in 2..Len(undo)})
  /\ chain' = << >>
  /\ result' = "err"
  /\ UNCHANGED <<keys, next, outputs, written, before>>

(* One iteration of the loop whose procedure fails (MissingInput,         *)
(* RecordNotFound, or an error of the crypto primitive): after the push   *)
(* to the log, every logged location is revoked, errors ignored, and the  *)
(* error is returned.                                                     *)
FailStep ==
  /\ Running /\ next <= Len(chain)
  /\ LET p == chain[next]
         undo == IF WritesSecret(p) THEN Append(log, p.target) ELSE log
     IN  /\ log' = undo
         /\ db' = RevokedView(db, {undo[i] : i \in 1..Len(undo)})
  /\ chain' = << >>
  /\ result' = "err"
  /\ UNCHANGED <<keys, next, outputs, written, before>>

(* The loop ran through: Ok(out). *)
Finish ==
  /\ Running /\ next > Len(chain)
  /\ chain' = << >>
  /\ result' = "ok"
  /\ UNCHANGED <<keys, db, next, log, outputs, written, before>>

(* The client façade between chains (not under src/: from the spec). *)
Idle(A) ==
  /\ ~Running
  /\ A
  /\ result' = "none"
  /\ UNCHANGED <<chain, next, log, outputs, written, before>>

ClientOp ==
  \/ \E v \in VaultIds : Idle(CreateKey(v))
  \/ \E l \in Locations, s \in Secrets : Idle(WriteRecord(l, s))
  \/ \E l \in Locations : Idle(RevokeRecord(l))
  \/ \E v \in VaultIds : Idle(GarbageCollect(v))

Next == Submit \/ ExecuteStep \/ FailStep \/ Finish \/ ClientOp

Spec == Init /\ [][Next]_vars

-----------------------------------------------------------------------------
(* After a chain failed, no location any of its steps wrote holds a live  *)
(* record: the rollback of execure_procedure_chained revoked them all.    *)
RollbackRevokesChainWrites ==
  result = "err" => \A l \in written : ~IsLive(l)

(* A failed chain is all-or-nothing (spec sections 1 and 5): what         *)
(* get_guard observes after the failure is what it observed before the    *)
(* chain began.                                                           *)
AllOrNothing ==
  result = "err" => \A l \in Locations : Visible(db, l) = Visible(before, l)

=============================================================================
