# TLA+ models of the Stronghold sources

This directory holds TLA+ models of the parts of the repository under `src/` that change state.
It also holds TLC configurations that check them on small instances, and TLAPS proofs of their main safety properties.
`PROJECT.json` lists the components, the runs, the mutants, the map from definitions to source lines, the findings, the hazards and the theorems.

## The system and how the modules cover it

| Part of the code | Module | State | Actions |
|---|---|---|---|
| Vault and KeyStore of the engine (not under `src/`, so taken from the spec, section 4.4) | `Vault` | `keys` (vaults with a key), `db` (record per location: a secret, `Absent` or `Revoked`) | `CreateKey`, `WriteRecord`, `RevokeRecord`, `GarbageCollect` |
| `Client::execure_procedure_chained` (`client_new/src/types/client.rs`) and the step bodies generated by `derive/src/procs.rs` | `ProcedureRunner` (extends `Vault`) | the chain, its index, the undo `log`, the published output keys; the history variables `written`, `before`, `result` | `Submit`, `ExecuteStep`, `FailStep`, `Finish`, `ClientOp` |
| `NonContiguousMemory` (`engine/new_runtime/src/memories/noncontiguous_memory.rs`) | `NonContiguous` | `shard1`, `shard2` (Ram or File, with data), `config`, `status` | `Alloc`, `Lock`, `Unlock`, `Refresh`, `Zeroize`, `Drop` |
| `NonBlockingStack` (`stm/src/nonblock.rs`) | `NonBlockingStack`, abstract `AbstractStack` | `head`, the nodes' `next` and `val`, each thread's program counter and local pointers, and the history variable `stackNodes` (the nodes from `head` along `next`) | one action per atomic load, store or CAS of `push` and `pop` |
| `NonBlockingQueue` (`stm/src/nonblock.rs`) | `NonBlockingQueue`, abstract `AbstractQueue` | `head`, `tail`, `next`, each thread's program counter and pointers, the values `polled` returned, and the history variable `queueNodes` (the nodes after `head` along `next`) | one action per atomic step of `put` and `poll` |
| `Snapshot` (`client_new/src/types/snapshot.rs`) | `Snapshot` | the snapshot's own `keystore` and `db`, the encrypted client `states`, the snapshot `file` | `AddData`, `WriteToSnapshot`, `ReadFromSnapshot` (with `FromState`, `SnapshotKeyRecord`, `GetSnapshotState`) |
| the snapshot actor (`client/src/actors/snapshot.rs`) | `SnapshotActor` | the actor's client map `state` and the file `disk` | one action per message handler |

The parts interact as follows:

- A client runs procedure chains against its vault, which is why `ProcedureRunner` extends `Vault`.
- Secrets in memory live in locked memories such as `NonContiguous`.
- Client states are saved to and loaded from snapshot files, either by the new `Snapshot` type or, in the old client, through the snapshot actor.
- The `stm` crate's lock-free stack and queue are stand-alone containers shared between threads.

### Modelling choices

Each action models one whole handler, or one atomic step of a concurrent operation, with its guard, its error paths and its writes.

- **Data is abstracted.**
  - A byte is a bit, and SHA-256 is an arbitrary constant function `Hash`.
  - A fresh random key is the next unused number.
  - Encryption is a record `[key, data]`.
  - A client state is a model value.
- **Procedure runner.** A chain step is one action. A failing primitive is the nondeterministic alternative `FailStep`, which also performs the rollback loop, as the code does in the same iteration.
- **Lock-free structures.** A failed CAS that retries with the same operands cannot change anything, so it is not a step. In `PushCas` and `PutCas` the thread simply stays where it is.
- **Nodes.** They are never freed in the code, so a pointer names one node for the whole run.
- **History variables.** `stackNodes` and `queueNodes` record the list the code builds. Every action that links or unlinks a node updates them in the same step. The refinement mappings `StackSeq` and `QueueSeq` read the abstract sequence off them, with no recursion over `next`.
- **The queue's null dereference.** `poll` may dereference a null `next_ptr` (`nonblock.rs:206`), which is undefined behaviour. The build may read through it at once, or only in `as_ref` after a successful head CAS. `PollHeadCas` therefore lets a failing CAS either retry or fault. A fault stops the process: `Next` has the guard `~Faulted`.
- **`if` chains.** `poll`'s checks after reloading `head` are an `IF ... ELSE IF` chain, as in the code. A `CASE` with overlapping arms would let TLA+ pick any true arm, while the code and TLC take the first.
- **Vault actions.** `WriteToVault` and the façade actions come from the spec; `map` marks them `spec_modelled`.

## Runs

| Run | Checks | Bounds | Result |
|---|---|---|---|
| `procedure_runner` | `RollbackRevokesChainWrites` | 1 vault, 2 records, 2 secrets, chains of up to 3 of 5 descriptors (every kind, one reading an output key) | passes |
| `procedure_atomic` | `AllOrNothing` | same | violated (finding) |
| `nc_unlock` | `UnlockYieldsPrefix` | `NC_DATA_SIZE` = 2, payload lengths 1 to 3, 2 refreshes | passes |
| `stack_sequential` | `ImplementsStack` | 1 thread, 3 pushes, 4 pops | passes |
| `stack_concurrent` | `PoppedNeverOnStack`, `HeadNeverMovesBack` | 2 threads, 3 pushes, 3 pops, thread symmetry | passes |
| `stack_lost` | `NoLostOrDuplicatedValue` | 2 threads | violated (finding) |
| `stack_livelock` | `PushReturns` | 3 pushes, 1 pop, weak fairness | violated (finding) |
| `queue` | `ImplementsQueue`, `ListOnlyGrows` | 2 threads, 3 puts, 3 polls | passes |
| `queue_panic` | `NoPanic` | 2 threads, 1 put, 1 poll | violated (finding) |
| `queue_nullderef` | `NoNullDeref` | 2 threads, 2 puts, 3 polls, thread symmetry | violated (finding) |
| `snapshot` | `RoundTrip`, `StoredKeyRecoverable` | 2 clients, 2 states, 2 master keys, 8 fresh keys | passes |
| `actor_lostfill` | `FilledDataKept` | 2 clients | violated (finding) |

Why these bounds are enough:

- **Procedure runner.** Chains of three reach every shape: a write followed by a failing step, a failure after two writes, and an input published by one step and read by the next.
- **Lock-free structures.** Two threads with three operations reach every interleaving of a load, a CAS and a plain store, including a CAS against a stale comparand. The queue's null dereference needs three polls: with two, tail cannot fall behind head. That is why the `queue` run has three polls.
- **Snapshot.** Eight keys allow a read after several `add_data` calls of the same client.
- **Non-contiguous memory.** Payload lengths 1 and 3 cover the short and the long payload.

`CHECK_DEADLOCK FALSE` is set only where the system really stops: the bounded memory, queue and snapshot runs end when their counters are used up.

Each property of a passing run has a mutant in `PROJECT.json`: a plausible bug in the mapped code that TLC finds.

- `FailStepSkipFirst` has an off-by-one in the undo loop.
- `RefreshSkipOldHash` forgets the old mask's hash.
- `PopClearNoStore` drops the head store.
- `PushCasNoCompare` is a CAS without its compare.
- `PopCasNoCompare` is the same bug in `pop`.
- `PutCasNoCompare` is the same bug in the queue. It breaks both `ImplementsQueue` and `ListOnlyGrows`.
- `AddDataKeepOldKey` is a key insert that keeps the old key.
- `SnapshotKeyRecordWrongKey` encrypts under the wrong vault key.

## Findings

| Run | Where | What happens |
|---|---|---|
| `procedure_atomic` | `client.rs:159` | The rollback of a failed chain revokes every logged target. A record that existed before the chain and was overwritten is therefore left revoked, not restored. |
| `stack_lost` | `nonblock.rs:88`, `nonblock.rs:115` | Plain stores of `head` lose a push or duplicate a pop. |
| `stack_livelock` | `nonblock.rs:90-102` | `push` never reloads `head` in its retry loop, so it spins forever. |
| `queue_panic` | `nonblock.rs:204` | `poll` panics when `put`'s tail store overtakes its tail CAS. |
| `queue_nullderef` | `nonblock.rs:206` | `put`'s plain tail store (`nonblock.rs:175`) can leave `tail` behind `head` once polls have advanced both. A poll that then loads `head` and that stale `tail` sees them differ while `head` has no next node. It takes the null `next_ptr` as the item and dereferences it. |
| `actor_lostfill` | `client/src/actors/snapshot.rs:134` | A `ReadFromSnapshot` for one client drops another client's unsaved fill. |

`NonContiguous` also states `NoPanic`: no call panics. TLC finds it violated by `alloc`, `zeroize`, `unlock`, because `xor` indexes an empty shard (`noncontiguous_memory.rs:83`). No run is kept for it; it is listed as a hazard.

## Fairness

Only `NonBlockingStack` states fairness: weak fairness of each thread.

- The threads are OS threads, and the scheduler eventually runs any thread that can move.
- The fairness is used only for `PushReturns`, and even under it `push` livelocks.
- The other specifications are safety-only.

## Proofs

Six modules hold TLAPS proofs. All of them check from scratch with `tlapm`.

**`ProcedureRunner_proofs` proves two theorems.**

- `TypeCorrect`: `Spec => []TypeOK`.
- `RollbackCorrect`: `Spec => []RollbackRevokesChainWrites`.

`RollbackRevokesChainWrites` alone is not inductive. Writes during a chain must be known to be logged before the failing step revokes the log, so the proof uses the strengthening

`IInv == TypeOK /\ next >= 1 /\ (Running => result = "none" /\ written \subseteq LogSet) /\ (result = "err" => ~Running /\ \A l \in written : ~IsLive(l))`.

The argument has three parts:

- every write of a step is preceded by the push of its target to the log;
- `FailStep` revokes exactly the logged set (lemma `RevokedViewFacts`);
- no action runs between a failure and the next `Submit` that writes a chain target, because the façade actions reset `result` to `"none"`.

There is one lemma per action and a lemma `NextIInv` that combines them.

**`NonContiguous_proofs` proves two theorems.**

- `TypeCorrect`.
- `UnlockCorrect`: `Spec => []UnlockYieldsPrefix`.

The invariant relates the shards to the payload: whenever the configuration is not `ZeroedConfig`, both shards are full and `Decode(shard1, shard2.data) = Prefix(payload)`; a zeroed configuration has both shards empty. The key lemma `DecodeRefresh` shows that a refresh preserves this. It holds because XOR-ing `Hash[old]` into shard2 cancels the old mask and XOR-ing `Hash[new]` installs the new one. The proof works bitwise, for every data size and every hash function.

**`Snapshot_proofs` proves three theorems.**

- `TypeCorrect`.
- `RoundTripCorrect`: `Spec => []RoundTrip`.
- `StoredKeyCorrect`: `KeyVaultsSeparate => (Spec => []StoredKeyRecoverable)`.

The invariant is `IInv == TypeOK /\ KeysMatch`. `KeysMatch` says that every client with a state has an encrypted state in `states`, that the snapshot's `keystore` holds that state's key under the client's vault, and that it decrypts to the client's last state. `RoundTrip` follows from it directly.

- `AddData` and `FromState` install fresh keys. The lemma `KeyAssignment` shows that the injective key assignment they `CHOOSE` exists: the fresh interval has the clients' cardinality (`FS_Interval`, and a bijection from `FiniteSetTheorems`).
- `FromStateFacts` gives the state after `from_state`: the stored master key sits in `keystore` and `db` under its location, and every client's key matches.
- `WriteToSnapshot` changes only the file, and `ReadFromSnapshot` rebuilds everything through `FromState`.

`StoredKeyRecoverable` needs the hypothesis `KeyVaultsSeparate`: no client's vault is a vault callers keep a master key in. The code does not enforce this, and the hazard at `snapshot.rs:131` is the case where it fails: the client's `add_data` overwrites the master key's vault entry.

**`NonBlockingStack_proofs` proves three theorems.** They hold for any number of threads, pushes and pops.

- `TypeCorrect`.
- `PoppedNeverOnStackCorrect`: `Spec => []PoppedNeverOnStack`.
- `HeadNeverMovesBackCorrect`: `Spec => HeadNeverMovesBack`.

The values on the stack (`OnStack`) are those of the nodes reachable from `head`. `Reach(h, next)` is the least set of nodes that holds `h` and is closed under `next`. It is not the recursive `StackSeq`, whose fixpoint the provers cannot establish. The lemmas about `Reach` are:

- `ReachLeast`, `ReachHead`, `ReachClosed` and `ReachNull`;
- `ReachOlder`: from a node of `1..k`, where every node points to an older one, nothing outside `1..k` is reached;
- `ReachStep` and `ReachPush`: what a pop and a push do to the reachable set.

The inductive invariant `IInv` adds these facts to `TypeOK` and `PoppedNeverOnStack`:

- a published node's `next` is an older node (`NodesOlder`);
- the published values are distinct (`ValuesUnique`), and every popped value was published;
- a push in progress holds a value nobody else holds or has published (`PushFresh`, `PushDistinct`);
- a pop in progress holds a published node and, at its CAS, that node's `next` (`PopHolds`, `PopNextHeld`).

The last fact holds because a node's `next` never changes once the node is published. A successful pop CAS therefore moves `head` to an older node, and the popped node is not reachable from there. TLC checks `IInv` on the `stack_concurrent` instance.

The plain stores of `head` lose pushes and duplicate pops (`stack_lost`), but they never bring back a popped value: they install a fresh node or null.

**`NonBlockingStack_refinement` proves `StackRefinement`.** With one thread, for any number of pushes and pops, `Spec => ImplementsStack`.

- The proof maps initial states to `AbstractStack!Init`.
- A publishing push maps to `AbstractStack!Push`, a pop returning the top value maps to `AbstractStack!Pop`, and every other step stutters.
- The invariant adds `StackChain` to `IInv`: `stackNodes` is the list from `head` along `next`. It also adds `SeqInv`, which says what a lone thread's loaded pointers are: the current `head`, and at `pop_clear` a `head` with no next node.

With two threads the refinement is false: that is the `stack_lost` finding. It therefore stays with TLC on one thread (`stack_sequential`).

**`NonBlockingQueue_proofs` proves four theorems.** They hold for any number of threads, puts and polls.

- `TypeCorrect`.
- `Invariance`: `Spec => []IInv`.
- `QueueRefinement`: `Spec => ImplementsQueue`.
- `ListOnlyGrowsThm`: `Spec => ListOnlyGrows`.

The inductive invariant `IInv` has five parts besides `TypeOK`:

- `QueueChain`: `queueNodes` is the list from `head`'s next node to a node with a null `next`.
- `LinkedClosed` and `LinkedStarted`: a node is *linked* when it is `head`, in `queueNodes`, or has a next node. Every next pointer leads to a linked node of a started put, and only nodes of started puts are linked.
- `Linked(tail)`.
- `PutDistinct`: puts that have not linked yet hold different nodes.
- `ThreadOK(t)`: what each thread has loaded. A put before its CAS holds a fresh node that nothing points to, and a linked tail. A poll holds a linked head and tail, and a `next_ptr` that is null or its head's next.

The argument rests on next pointers being written once, from null. The lemma `LastLinked` shows that a linked node with a null `next` is the last node of the list, so a put's CAS appends there (`PutCasIInv`). A poll's CAS moves `head` to the first node of `queueNodes` and keeps the linked set (`PollHeadCasTakeIInv`). Every other step leaves `head`, `next` and `queueNodes` alone. `FrozenStep` reduces such a step to the stepping thread's own view, through `Monotone` and `OtherThread`.

`tail` may lag behind, even behind `head`. Only `NoNullDeref` depends on it, and that property is false.

For the refinement, `QueueSeq = queueNodes`, because a node's value is its number. A put's CAS is `AbstractQueue!Put`, a successful head CAS is `AbstractQueue!Poll` returning the front value, and every other step stutters. TLC checks `IInv` on 2 and 3 threads with 3 puts and 3 polls.

**The constants' assumptions are as weak as the code allows.**

- `NC_DATA_SIZE` is positive.
- `Hash` maps words of that size to words of that size.
- Procedure descriptors are well formed.
- In `Snapshot`, `None` is neither a number, a location nor an encrypted record.

**Only model-checked, not proved:**

- The stack's refinement with several threads. It is false (`stack_lost`), and the one-thread case is proved.
- The stack's `NoLostOrDuplicatedValue`. It is false, and TLC shows the counterexample.
- Liveness (`PushReturns`). TLAPS cannot reason about `ENABLED` or fairness here.

## Not modelled

- **The engine's vault, key store and `FileMemory`.** They are not under `src/`. The vault comes from the spec, and the failure of a file allocation is a nondeterministic error.
- **`SnapshotPath`.** It only builds path names.
- **`lib.rs`.** It holds only module declarations.
- **The tests and benchmarks.** They are drivers of the modelled code.
- **The random source failing.** An `expect` on the OS generator is outside the model.
- **The `panic!` on a procedure without data in `execute_procedure`.** The models do not keep output values.
