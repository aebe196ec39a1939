---------------------------- MODULE NonContiguous ----------------------------
(***************************************************************************)
(* One NonContiguousMemory (engine/new_runtime/src/memories/               *)
(* noncontiguous_memory.rs): a secret of NC_DATA_SIZE bytes split into two *)
(* shards, shard1 = r (random) and shard2 = SHA256(r) XOR payload, so that *)
(* unlock computes SHA256(shard1) XOR shard2.  refresh rerolls r without   *)
(* reconstructing the payload; zeroize (called by drop) empties both       *)
(* shards and sets the configuration to ZeroedConfig.                      *)
(*                                                                         *)
(* A byte is abstracted to a bit: a word of n bytes is a function          *)
(* 1..n -> BOOLEAN and xor is the code's loop over 0..NC_DATA_SIZE, which  *)
(* indexes both operands and so panics on a shorter one.  SHA256 is an     *)
(* arbitrary function Hash from DataSize-words to DataSize-words.  A       *)
(* zeroized buffer is the empty word.                                      *)
(***************************************************************************)
EXTENDS Naturals

CONSTANTS
  DataSize,         \* NC_DATA_SIZE
  PayloadLengths,   \* lengths of the payloads callers pass to alloc/lock
  Hash,             \* sha::SHA256 on DataSize-words
  MaxRefresh        \* refresh calls between two allocations

Word(n) == [1..n -> BOOLEAN]
Key == Word(DataSize)

ASSUME NCAssumption ==
  /\ DataSize \in Nat \ {0}
  /\ PayloadLengths \subseteq Nat
  /\ Hash \in [Key -> Key]
  /\ MaxRefresh \in Nat

Payloads == UNION {Word(n) : n \in PayloadLengths}
Zeroed == Word(0)    \* {<< >>}: the contents of a zeroized Buffer

\* LockedConfiguration: the variant and the size given with it.
ConfigKinds == {"NCRamConfig", "NCRamAndFileConfig", "OtherConfig"}
ConfigSizes == {DataSize, DataSize + 1}

VARIABLES
  status,   \* "dropped" (no memory), "live", or "panicked"
  shard1,   \* the bytes of shard1's Buffer
  shard2,   \* [kind: "Ram" (Buffer) or "File" (FileMemory), data: bytes]
  config,   \* the stored LockedConfiguration kind, or "ZeroedConfig"
  payload,  \* history: the payload given to the last successful alloc
  unlocked, \* the Buffer the last unlock returned; << >> once it is dropped
  refreshes \* history: refresh calls since the last successful alloc

vars == <<status, shard1, shard2, config, payload, unlocked, refreshes>>

(* fn xor: output[i] = a[i] ^ b[i] for i in 0..NC_DATA_SIZE. *)
Xor(a, b) == [i \in 1..DataSize |-> a[i] # b[i]]

\* What unlock computes: SHA256(shard1) XOR shard2.
Decode(s1, s2) == Xor(Hash[s1], s2)

\* check_config: NCRamAndFileConfig(Some(NC_DATA_SIZE)) or
\* NCRamConfig(Some(NC_DATA_SIZE)); anything else is an error.
ConfigOK(kind, size) == kind \in {"NCRamConfig", "NCRamAndFileConfig"} /\ size = DataSize

ShardKind(kind) == IF kind = "NCRamAndFileConfig" THEN "File" ELSE "Ram"

TypeOK ==
  /\ status \in {"dropped", "live", "panicked"}
  /\ shard1 \in Key \cup Zeroed
  /\ shard2 \in [kind : {"Ram", "File"}, data : Key \cup Zeroed]
  /\ config \in {"NCRamConfig", "NCRamAndFileConfig", "ZeroedConfig"}
  /\ payload \in Payloads \cup Zeroed
  /\ unlocked \in Key \cup Zeroed
  /\ refreshes \in 0..MaxRefresh

Init ==
  /\ status = "dropped"
  /\ shard1 = << >>
  /\ shard2 = [kind |-> "Ram", data |-> << >>]
  /\ config = "ZeroedConfig"
  /\ payload = << >>
  /\ unlocked = << >>
  /\ refreshes = 0

(* zeroize: both shards emptied, configuration ZeroedConfig. *)
ZeroizeAll ==
  /\ shard1' = << >>
  /\ shard2' = [shard2 EXCEPT !.data = << >>]
  /\ config' = "ZeroedConfig"
  /\ unlocked' = << >>

(* The body of NonContiguousMemory::alloc after check_config passed: a    *)
(* random mask, the digest SHA256(r) XOR payload (a payload shorter than  *)
(* NC_DATA_SIZE panics in xor, a longer one is cut to NC_DATA_SIZE), and  *)
(* shard2 as a Buffer or, for NCRamAndFileConfig, a FileMemory whose      *)
(* allocation may fail with a file system error.  On a failure nothing is *)
(* left: a fresh alloc had nothing yet, a lock had zeroized self first.   *)
AllocShards(p, kind) ==
  \/ /\ ~(1..DataSize \subseteq DOMAIN p)
     /\ status' = "panicked"
     /\ ZeroizeAll
     /\ UNCHANGED <<payload, refreshes>>
  \/ /\ 1..DataSize \subseteq DOMAIN p
     /\ kind = "NCRamAndFileConfig"
     /\ status' = "dropped"
     /\ ZeroizeAll
     /\ UNCHANGED <<payload, refreshes>>
  \/ /\ 1..DataSize \subseteq DOMAIN p
     /\ \E r \in Key :
          /\ shard1' = r
          /\ shard2' = [kind |-> ShardKind(kind), data |-> Xor(Hash[r], p)]
     /\ config' = kind
     /\ payload' = p
     /\ status' = "live"
     /\ refreshes' = 0
     /\ unlocked' = << >>

(* LockedMemory::alloc for a fresh memory. *)
Alloc ==
  /\ status = "dropped"
  /\ \E p \in Payloads, kind \in ConfigKinds, size \in ConfigSizes :
        /\ ConfigOK(kind, size)
        /\ AllocShards(p, kind)

(* Zeroize::zeroize called on a live memory; it stays usable as a value. *)
Zeroize ==
  /\ status = "live"
  /\ ZeroizeAll
  /\ UNCHANGED <<status, payload, refreshes>>

(* Drop: zeroize, and the memory is gone. *)
Drop ==
  /\ status = "live"
  /\ ZeroizeAll
  /\ status' = "dropped"
  /\ UNCHANGED <<payload, refreshes>>

(* lock(self, payload, config): dealloc (zeroize) then alloc.  When the   *)
(* alloc fails, the consumed self has already been zeroized and dropped.  *)
Lock ==
  /\ status = "live"
  /\ \E p \in Payloads, kind \in ConfigKinds, size \in ConfigSizes :
        IF ConfigOK(kind, size)
        THEN AllocShards(p, kind)
        ELSE /\ ZeroizeAll
             /\ status' = "dropped"
             /\ UNCHANGED <<payload, refreshes>>

(* unlock: SHA256(shard1) XOR shard2 into a fresh Buffer.  On a zeroized  *)
(* memory the Ram shard is empty (xor indexes past its end) and the File  *)
(* shard cannot be unlocked (expect): both panic.                         *)
Unlock ==
  /\ status = "live"
  /\ \/ /\ shard1 \in Key /\ shard2.data \in Key
        /\ unlocked' = Decode(shard1, shard2.data)
        /\ UNCHANGED <<status, shard1, shard2, config, payload, refreshes>>
     \/ /\ shard1 \notin Key \/ shard2.data \notin Key
        /\ status' = "panicked"
        /\ UNCHANGED <<shard1, shard2, config, payload, unlocked, refreshes>>

(* Faulty variant of Refresh that folds only the new mask's hash into     *)
(* shard2, to confirm UnlockYieldsPrefix detects it.                      *)
RefreshSkipOldHash ==
  /\ status = "live"
  /\ \/ /\ config \in {"NCRamConfig", "NCRamAndFileConfig"}
        /\ refreshes < MaxRefresh
        /\ refreshes' = refreshes + 1
        /\ \E rho \in Key :
             LET new1 == Xor(shard1, rho)
             IN  /\ shard1' = new1
                 /\ shard2' = [shard2 EXCEPT !.data = Xor(shard2.data, Hash[new1])]
        /\ config' = IF shard2.kind = "File" THEN "NCRamAndFileConfig" ELSE "NCRamConfig"
        /\ unlocked' = << >>
        /\ UNCHANGED <<status, payload>>
     \/ /\ config = "ZeroedConfig"
        /\ ZeroizeAll
        /\ status' = "dropped"
        /\ UNCHANGED <<payload, refreshes>>

(* refresh(self): check_config on the stored configuration, then shard1  *)
(* becomes r XOR rho and shard2 becomes shard2 XOR SHA256(r) XOR          *)
(* SHA256(r XOR rho); the configuration is rebuilt from shard2's kind.    *)
(* When check_config fails, self is dropped (zeroized).                   *)
Refresh ==
  /\ status = "live"
  /\ \/ /\ config \in {"NCRamConfig", "NCRamAndFileConfig"}
        /\ refreshes < MaxRefresh
        /\ refreshes' = refreshes + 1
        /\ \E rho \in Key :
             LET new1 == Xor(shard1, rho)
             IN  /\ shard1' = new1
                 /\ shard2' = [shard2 EXCEPT
                                 !.data = Xor(Xor(shard2.data, Hash[shard1]), Hash[new1])]
        /\ config' = IF shard2.kind = "File" THEN "NCRamAndFileConfig" ELSE "NCRamConfig"
        /\ unlocked' = << >>
        /\ UNCHANGED <<status, payload>>
     \/ /\ config = "ZeroedConfig"
        /\ ZeroizeAll
        /\ status' = "dropped"
        /\ UNCHANGED <<payload, refreshes>>

Next == Alloc \/ Zeroize \/ Drop \/ Lock \/ Unlock \/ Refresh

Spec == Init /\ [][Next]_vars

-----------------------------------------------------------------------------
\* The first NC_DATA_SIZE bytes of a payload.
Prefix(p) == [i \in 1..DataSize |-> p[i]]

(* Whatever sequence of allocs, locks, refreshes and zeroizes led here,   *)
(* the Buffer unlock returns holds the first NC_DATA_SIZE bytes of the    *)
(* payload last allocated: refresh never changes the decryption result.   *)
UnlockYieldsPrefix ==
  unlocked # << >> => unlocked = Prefix(payload)

(* No call on a memory panics (spec section 7: no unrecoverable abort on  *)
(* input-driven failures).                                                *)
NoPanic == status # "panicked"

=============================================================================
