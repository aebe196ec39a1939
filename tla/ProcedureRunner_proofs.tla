------------------------ MODULE ProcedureRunner_proofs ------------------------
(***************************************************************************)
(* Proofs about ProcedureRunner for every set of vaults, records, secrets  *)
(* and procedures and every chain length: the model is type correct, and   *)
(* a failed chain leaves none of the records it wrote live.                *)
(***************************************************************************)
EXTENDS ProcedureRunner, TLAPS

(* The inductive invariant.  While a chain runs, its outcome is not yet   *)
(* reported and every location it wrote is in the undo log (a step logs   *)
(* its target before writing it); once a chain failed, it is over and the *)
(* rollback has revoked the log.                                          *)
IInv ==
  /\ TypeOK
  /\ next >= 1
  /\ Running => result = "none" /\ written \subseteq LogSet
  /\ result = "err" => ~Running /\ \A l \in written : ~IsLive(l)

-----------------------------------------------------------------------------
(* Revoking keeps a DbView a DbView and leaves no live record in L. *)
LEMMA RevokedViewFacts ==
  ASSUME NEW view \in [Locations -> RecordState], NEW L
  PROVE  /\ RevokedView(view, L) \in [Locations -> RecordState]
         /\ \A l \in L \cap Locations : RevokedView(view, L)[l] \notin Secrets
  BY VaultAssumption DEF RevokedView, RecordState

(* The set of a log with one more entry. *)
LEMMA LogSetAppend ==
  ASSUME NEW q \in Seq(Locations), NEW x \in Locations
  PROVE  /\ Append(q, x) \in Seq(Locations)
         /\ {Append(q, x)[i] : i \in 1..Len(Append(q, x))}
              = {q[i] : i \in 1..Len(q)} \cup {x}
  <1>1. Append(q, x) \in Seq(Locations)
    OBVIOUS
  <1>2. \A i \in 1..Len(q) : Append(q, x)[i] = q[i]
    OBVIOUS
  <1>3. Append(q, x)[Len(q) + 1] = x /\ Len(Append(q, x)) = Len(q) + 1
    OBVIOUS
  <1>4. QED
    BY <1>1, <1>2, <1>3

(* The initial state: no chain, no outcome. *)
LEMMA InitIInv == Init => IInv
  BY VaultAssumption DEF Init, VaultInit, IInv, TypeOK, VaultTypeOK, Running,
                         RecordState

(* Submit starts a chain with an empty log and nothing written. *)
LEMMA SubmitIInv == IInv /\ Submit => IInv'
  <1> SUFFICES ASSUME IInv, Submit PROVE IInv'
    OBVIOUS
  <1>1. chain' \in Seq(Procedures)
    BY DEF Submit
  <1>2. TypeOK'
    BY <1>1 DEF Submit, IInv, TypeOK, VaultTypeOK, vaultVars
  <1>3. QED
    BY <1>2 DEF Submit, IInv, Running

(* The façade operations run between chains and clear the outcome. *)
LEMMA ClientOpIInv == IInv /\ ClientOp => IInv'
  <1> SUFFICES ASSUME IInv, ClientOp PROVE IInv'
    OBVIOUS
  <1>1. VaultTypeOK'
    <2>1. CASE \E v \in VaultIds : Idle(CreateKey(v))
      BY <2>1 DEF Idle, CreateKey, IInv, TypeOK, VaultTypeOK
    <2>2. CASE \E l \in Locations, s \in Secrets : Idle(WriteRecord(l, s))
      BY <2>2 DEF Idle, WriteRecord, IInv, TypeOK, VaultTypeOK, RecordState
    <2>3. CASE \E l \in Locations : Idle(RevokeRecord(l))
      BY <2>3, RevokedViewFacts DEF Idle, RevokeRecord, IInv, TypeOK, VaultTypeOK
    <2>4. CASE \E v \in VaultIds : Idle(GarbageCollect(v))
      BY <2>4 DEF Idle, GarbageCollect, IInv, TypeOK, VaultTypeOK, RecordState
    <2>5. QED
      BY <2>1, <2>2, <2>3, <2>4 DEF ClientOp
  <1>2. /\ ~Running /\ result' = "none"
        /\ UNCHANGED <<chain, next, log, outputs, written, before>>
    BY DEF ClientOp, Idle
  <1>3. QED
    BY <1>1, <1>2 DEF IInv, TypeOK, Running

(* The loop ran through: the outcome is ok. *)
LEMMA FinishIInv == IInv /\ Finish => IInv'
  BY DEF Finish, IInv, TypeOK, VaultTypeOK, Running, LogSet

(* The procedure a running chain executes next is a descriptor. *)
LEMMA CurrentProcedure ==
  ASSUME IInv, Running, next <= Len(chain)
  PROVE  /\ chain[next] \in Descriptors
         /\ chain[next].target \in Locations
  BY RunnerAssumption DEF IInv, TypeOK, Descriptors

(* A successful step logs its target before writing it. *)
LEMMA ExecuteStepIInv == IInv /\ ExecuteStep => IInv'
  <1> SUFFICES ASSUME IInv, ExecuteStep PROVE IInv'
    OBVIOUS
  <1> DEFINE p == chain[next]
  <1>1. p \in Descriptors /\ p.target \in Locations /\ Running /\ next <= Len(chain)
    BY CurrentProcedure DEF ExecuteStep
  <1>2. log' = IF WritesSecret(p) THEN Append(log, p.target) ELSE log
    BY DEF ExecuteStep
  <1>3. log' \in Seq(Locations) /\ LogSet \subseteq LogSet'
    BY <1>1, <1>2, LogSetAppend DEF IInv, TypeOK, LogSet
  <1>4. outputs' \subseteq OutputKeys /\ next' = next + 1
        /\ UNCHANGED <<chain, before, result>>
    BY <1>1 DEF ExecuteStep, PublishOutput, IInv, TypeOK, Descriptors
  <1>5. VaultTypeOK' /\ written' \subseteq LogSet'
    <2>1. CASE WritesSecret(p)
      <3>1. /\ \E s \in Secrets : WriteToVault(p.target, s)
            /\ written' = written \cup {p.target}
        BY <2>1 DEF ExecuteStep, WritesSecret
      <3>2. p.target \in LogSet'
        BY <1>1, <1>2, <2>1, LogSetAppend DEF IInv, TypeOK, LogSet
      <3>3. VaultTypeOK'
        BY <1>1, <3>1 DEF WriteToVault, IInv, TypeOK, VaultTypeOK, RecordState, Locations
      <3>4. QED
        BY <1>1, <1>3, <3>1, <3>2, <3>3 DEF IInv
    <2>2. CASE ~WritesSecret(p)
      <3>1. UNCHANGED <<keys, db, written>>
        BY <2>2 DEF ExecuteStep, WritesSecret
      <3>2. QED
        BY <1>1, <1>3, <3>1 DEF IInv, TypeOK, VaultTypeOK
    <2>3. QED
      BY <2>1, <2>2
  <1>6. TypeOK'
    <2>1. written' \subseteq Locations
      BY <1>1 DEF ExecuteStep, IInv, TypeOK
    <2>2. next' \in Nat
      BY <1>4 DEF IInv, TypeOK
    <2>3. QED
      BY <1>3, <1>4, <1>5, <2>1, <2>2 DEF IInv, TypeOK
  <1>7. result = "none" /\ next' >= 1
    BY <1>1, <1>4 DEF IInv, TypeOK
  <1>8. QED
    BY <1>1, <1>4, <1>5, <1>6, <1>7 DEF IInv, Running

(* A failing step revokes the whole undo log, which holds every location *)
(* the chain wrote, and ends the chain with the error.                    *)
LEMMA FailStepIInv == IInv /\ FailStep => IInv'
  <1> SUFFICES ASSUME IInv, FailStep PROVE IInv'
    OBVIOUS
  <1> DEFINE p == chain[next]
             undo == IF WritesSecret(p) THEN Append(log, p.target) ELSE log
             U == {undo[i] : i \in 1..Len(undo)}
  <1>1. p.target \in Locations /\ Running
    BY CurrentProcedure DEF FailStep
  <1>2. undo \in Seq(Locations) /\ LogSet \subseteq U
    BY <1>1, LogSetAppend DEF IInv, TypeOK, LogSet
  <1>3. log' = undo /\ db' = RevokedView(db, U)
    BY DEF FailStep
  <1>4. written \subseteq LogSet /\ written \subseteq Locations
    BY <1>1 DEF IInv, TypeOK
  <1>5. db' \in [Locations -> RecordState] /\ \A l \in written : db'[l] \notin Secrets
    <2>1. db \in [Locations -> RecordState]
      BY DEF IInv, TypeOK, VaultTypeOK
    <2>2. written \subseteq U \cap Locations
      BY <1>2, <1>4
    <2>3. QED
      BY <1>3, <2>1, <2>2, RevokedViewFacts
  <1>6. TypeOK'
    <2>1. UNCHANGED <<keys, next, outputs, written, before>> /\ chain' = << >>
      BY DEF FailStep
    <2>2. VaultTypeOK'
      BY <1>5, <2>1 DEF IInv, TypeOK, VaultTypeOK
    <2>3. chain' \in Seq(Procedures) /\ result' \in {"none", "ok", "err"}
      BY <2>1 DEF FailStep
    <2>4. QED
      BY <1>2, <1>3, <2>1, <2>2, <2>3 DEF IInv, TypeOK
  <1>7. ~Running' /\ result' = "err" /\ written' = written
    BY DEF FailStep, Running
  <1>8. QED
    BY <1>5, <1>6, <1>7 DEF FailStep, IInv, IsLive

(* Every step of the client and every stutter keeps IInv. *)
LEMMA NextIInv == IInv /\ [Next]_vars => IInv'
  <1> SUFFICES ASSUME IInv, [Next]_vars PROVE IInv'
    OBVIOUS
  <1>1. CASE UNCHANGED vars
    BY <1>1 DEF vars, IInv, TypeOK, VaultTypeOK, Running, LogSet, IsLive
  <1>2. QED
    BY <1>1, SubmitIInv, ExecuteStepIInv, FailStepIInv, FinishIInv, ClientOpIInv
    DEF Next

-----------------------------------------------------------------------------
(* Type correctness of the client: vault, chain, undo log and outcome.    *)
THEOREM TypeCorrect == Spec => []TypeOK
  <1>1. IInv => TypeOK
    BY DEF IInv
  <1>2. QED
    BY <1>1, InitIInv, NextIInv, PTL DEF Spec

(* For every vault layout, every set of procedures and every chain        *)
(* length: after execure_procedure_chained returned an error, no location *)
(* a step of the failed chain wrote holds a live record.                  *)
THEOREM RollbackCorrect == Spec => []RollbackRevokesChainWrites
  <1>1. IInv => RollbackRevokesChainWrites
    BY DEF IInv, RollbackRevokesChainWrites
  <1>2. QED
    BY <1>1, InitIInv, NextIInv, PTL DEF Spec

=============================================================================
