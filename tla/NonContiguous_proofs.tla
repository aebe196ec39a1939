------------------------- MODULE NonContiguous_proofs -------------------------
(***************************************************************************)
(* Proofs about NonContiguous for every NC_DATA_SIZE, every payload length *)
(* and every hash function: the model is type correct, and the Buffer      *)
(* unlock returns always holds the first NC_DATA_SIZE bytes of the payload *)
(* last allocated, however many refreshes happened in between.             *)
(***************************************************************************)
EXTENDS NonContiguous, TLAPS

(* The inductive invariant.  A non-zeroed configuration goes with two     *)
(* full shards that decode to the payload's prefix; a zeroed one with two *)
(* empty shards (so unlock panics rather than decode them).               *)
IInv ==
  /\ TypeOK
  /\ config = "ZeroedConfig" => shard1 = << >> /\ shard2.data = << >>
  /\ config # "ZeroedConfig" =>
        /\ shard1 \in Key /\ shard2.data \in Key
        /\ Decode(shard1, shard2.data) = Prefix(payload)
  /\ UnlockYieldsPrefix

-----------------------------------------------------------------------------
(* Lemmas on xor over DataSize-words. *)

LEMMA EmptyNotKey == << >> \notin Key
  BY NCAssumption DEF Key, Word

LEMMA EmptyZeroed == << >> \in Zeroed
  BY DEF Zeroed, Word

LEMMA XorType ==
  ASSUME NEW a \in Key, NEW b \in Key
  PROVE  Xor(a, b) \in Key
  BY DEF Xor, Key, Word

(* The digest alloc stores decodes to the payload's prefix. *)
LEMMA DecodeAlloc ==
  ASSUME NEW r \in Key, NEW p,
         \A i \in 1..DataSize : i \in DOMAIN p /\ p[i] \in BOOLEAN
  PROVE  /\ Xor(Hash[r], p) \in Key
         /\ Decode(r, Xor(Hash[r], p)) = Prefix(p)
  <1>1. Hash[r] \in Key
    BY NCAssumption
  <1>2. QED
    BY <1>1 DEF Decode, Xor, Prefix, Key, Word

(* Refresh keeps the decoded value: H(r XOR rho) XOR (s2 XOR H(r) XOR     *)
(* H(r XOR rho)) = H(r) XOR s2.                                           *)
LEMMA DecodeRefresh ==
  ASSUME NEW s1 \in Key, NEW s2 \in Key, NEW rho \in Key
  PROVE  LET n1 == Xor(s1, rho)
         IN  /\ n1 \in Key
             /\ Xor(Xor(s2, Hash[s1]), Hash[n1]) \in Key
             /\ Decode(n1, Xor(Xor(s2, Hash[s1]), Hash[n1])) = Decode(s1, s2)
  <1> DEFINE n1 == Xor(s1, rho)
  <1>1. n1 \in Key
    BY XorType
  <1>2. Hash[s1] \in Key /\ Hash[n1] \in Key
    BY <1>1, NCAssumption
  <1>3. QED
    BY <1>1, <1>2 DEF Decode, Xor, Key, Word

(* Replacing the bytes of a shard keeps its kind. *)
LEMMA ShardUpdate ==
  ASSUME NEW sh \in [kind : {"Ram", "File"}, data : Key \cup Zeroed],
         NEW d \in Key \cup Zeroed
  PROVE  /\ [sh EXCEPT !.data = d] \in [kind : {"Ram", "File"}, data : Key \cup Zeroed]
         /\ [sh EXCEPT !.data = d].data = d
         /\ [sh EXCEPT !.data = d].kind = sh.kind
  OBVIOUS

-----------------------------------------------------------------------------
(* The initial state: no memory, everything zeroed. *)
LEMMA InitIInv == Init => IInv
  <1> SUFFICES ASSUME Init PROVE IInv
    OBVIOUS
  <1>1. [kind |-> "Ram", data |-> << >>] \in [kind : {"Ram", "File"}, data : Key \cup Zeroed]
    BY EmptyZeroed
  <1>2. 0 \in 0..MaxRefresh
    BY NCAssumption
  <1>3. QED
    BY <1>1, <1>2, EmptyZeroed DEF Init, IInv, TypeOK, UnlockYieldsPrefix

(* The three ways AllocShards ends (panic, file error, success) keep      *)
(* IInv, whichever action calls it.                                       *)
LEMMA AllocShardsIInv ==
  ASSUME IInv, NEW p \in Payloads, NEW kind \in {"NCRamConfig", "NCRamAndFileConfig"},
         AllocShards(p, kind)
  PROVE  IInv'
  <1> USE DEF IInv, TypeOK, UnlockYieldsPrefix
  <1>1. CASE ~(1..DataSize \subseteq DOMAIN p) /\ status' = "panicked"
             /\ ZeroizeAll /\ UNCHANGED <<payload, refreshes>>
    BY <1>1, EmptyZeroed DEF ZeroizeAll
  <1>2. CASE 1..DataSize \subseteq DOMAIN p /\ kind = "NCRamAndFileConfig"
             /\ status' = "dropped" /\ ZeroizeAll /\ UNCHANGED <<payload, refreshes>>
    BY <1>2, EmptyZeroed DEF ZeroizeAll
  <1>3. CASE /\ 1..DataSize \subseteq DOMAIN p
             /\ \E r \in Key :
                  /\ shard1' = r
                  /\ shard2' = [kind |-> ShardKind(kind), data |-> Xor(Hash[r], p)]
             /\ config' = kind /\ payload' = p /\ status' = "live"
             /\ refreshes' = 0 /\ unlocked' = << >>
    <2>1. PICK r \in Key :
                 /\ shard1' = r
                 /\ shard2' = [kind |-> ShardKind(kind), data |-> Xor(Hash[r], p)]
      BY <1>3
    <2>2. \A i \in 1..DataSize : i \in DOMAIN p /\ p[i] \in BOOLEAN
      <3>1. PICK n \in PayloadLengths : p \in [1..n -> BOOLEAN]
        BY DEF Payloads, Word
      <3>2. QED
        BY <1>3, <3>1
    <2>3. Xor(Hash[r], p) \in Key /\ Decode(r, Xor(Hash[r], p)) = Prefix(p)
      BY <2>2, DecodeAlloc
    <2>4. ShardKind(kind) \in {"Ram", "File"}
      BY DEF ShardKind
    <2>5. QED
      BY <1>3, <2>1, <2>3, <2>4, EmptyZeroed, NCAssumption
  <1>4. QED
    BY <1>1, <1>2, <1>3 DEF AllocShards

(* Zeroizing, whether the memory then stays live or is dropped, keeps IInv. *)
LEMMA ZeroizeAllIInv ==
  ASSUME IInv, ZeroizeAll, UNCHANGED <<payload, refreshes>>,
         status' \in {"dropped", "live", "panicked"}
  PROVE  IInv'
  <1>1. shard2'.data = << >> /\ shard2' \in [kind : {"Ram", "File"}, data : Key \cup Zeroed]
    BY EmptyZeroed, ShardUpdate DEF ZeroizeAll, IInv, TypeOK
  <1>2. QED
    BY <1>1, EmptyZeroed DEF ZeroizeAll, IInv, TypeOK, UnlockYieldsPrefix

(* Unlock decodes full shards only, and those decode to the prefix. *)
LEMMA UnlockIInv == IInv /\ Unlock => IInv'
  <1> SUFFICES ASSUME IInv, Unlock PROVE IInv'
    OBVIOUS
  <1>1. CASE shard1 \in Key /\ shard2.data \in Key
             /\ unlocked' = Decode(shard1, shard2.data)
             /\ UNCHANGED <<status, shard1, shard2, config, payload, refreshes>>
    <2>1. config # "ZeroedConfig"
      BY <1>1, EmptyNotKey DEF IInv
    <2>2. Decode(shard1, shard2.data) = Prefix(payload)
      BY <2>1 DEF IInv
    <2>3. Decode(shard1, shard2.data) \in Key
      BY <1>1, XorType, NCAssumption DEF Decode
    <2>4. QED
      BY <1>1, <2>2, <2>3 DEF IInv, TypeOK, UnlockYieldsPrefix
  <1>2. CASE status' = "panicked"
             /\ UNCHANGED <<shard1, shard2, config, payload, unlocked, refreshes>>
    BY <1>2 DEF IInv, TypeOK, UnlockYieldsPrefix
  <1>3. QED
    BY <1>1, <1>2 DEF Unlock

(* Refresh rerolls the mask without changing what the shards decode to. *)
LEMMA RefreshIInv == IInv /\ Refresh => IInv'
  <1> SUFFICES ASSUME IInv, Refresh PROVE IInv'
    OBVIOUS
  <1>1. CASE /\ config \in {"NCRamConfig", "NCRamAndFileConfig"}
             /\ refreshes < MaxRefresh
             /\ refreshes' = refreshes + 1
             /\ \E rho \in Key :
                  LET new1 == Xor(shard1, rho)
                  IN  /\ shard1' = new1
                      /\ shard2' = [shard2 EXCEPT
                                      !.data = Xor(Xor(shard2.data, Hash[shard1]), Hash[new1])]
             /\ config' = IF shard2.kind = "File" THEN "NCRamAndFileConfig" ELSE "NCRamConfig"
             /\ unlocked' = << >>
             /\ UNCHANGED <<status, payload>>
    <2>1. shard1 \in Key /\ shard2.data \in Key
          /\ Decode(shard1, shard2.data) = Prefix(payload)
      BY <1>1 DEF IInv
    <2>2. PICK rho \in Key :
             /\ shard1' = Xor(shard1, rho)
             /\ shard2' = [shard2 EXCEPT
                   !.data = Xor(Xor(shard2.data, Hash[shard1]), Hash[Xor(shard1, rho)])]
      BY <1>1
    <2> DEFINE d == Xor(Xor(shard2.data, Hash[shard1]), Hash[Xor(shard1, rho)])
    <2>3. shard1' \in Key /\ d \in Key /\ Decode(shard1', d) = Prefix(payload)
      BY <2>1, <2>2, DecodeRefresh
    <2>4. shard2' \in [kind : {"Ram", "File"}, data : Key \cup Zeroed] /\ shard2'.data = d
      BY <2>2, <2>3, ShardUpdate DEF IInv, TypeOK
    <2>5. refreshes' \in 0..MaxRefresh
      BY <1>1, NCAssumption DEF IInv, TypeOK
    <2>6. config' \in {"NCRamConfig", "NCRamAndFileConfig"}
      BY <1>1
    <2>7. QED
      BY <1>1, <2>3, <2>4, <2>5, <2>6, EmptyZeroed DEF IInv, TypeOK, UnlockYieldsPrefix
  <1>2. CASE config = "ZeroedConfig" /\ ZeroizeAll /\ status' = "dropped"
             /\ UNCHANGED <<payload, refreshes>>
    BY <1>2, ZeroizeAllIInv
  <1>3. QED
    BY <1>1, <1>2 DEF Refresh

(* Every step of the memory (alloc, zeroize, drop, lock, unlock, refresh) *)
(* and every stutter keeps IInv.                                          *)
LEMMA NextIInv == IInv /\ [Next]_vars => IInv'
  <1> SUFFICES ASSUME IInv, [Next]_vars PROVE IInv'
    OBVIOUS
  <1>1. CASE Alloc
    <2>1. PICK p \in Payloads, kind \in ConfigKinds, size \in ConfigSizes :
                 ConfigOK(kind, size) /\ AllocShards(p, kind)
      BY <1>1 DEF Alloc
    <2>2. kind \in {"NCRamConfig", "NCRamAndFileConfig"}
      BY <2>1 DEF ConfigOK
    <2>3. QED
      BY <2>1, <2>2, AllocShardsIInv
  <1>2. CASE Zeroize
    BY <1>2, ZeroizeAllIInv DEF Zeroize
  <1>3. CASE Drop
    BY <1>3, ZeroizeAllIInv DEF Drop
  <1>4. CASE Lock
    <2>1. PICK p \in Payloads, kind \in ConfigKinds, size \in ConfigSizes :
                 IF ConfigOK(kind, size)
                 THEN AllocShards(p, kind)
                 ELSE /\ ZeroizeAll
                      /\ status' = "dropped"
                      /\ UNCHANGED <<payload, refreshes>>
      BY <1>4 DEF Lock
    <2>2. CASE ConfigOK(kind, size)
      <3>1. kind \in {"NCRamConfig", "NCRamAndFileConfig"}
        BY <2>2 DEF ConfigOK
      <3>2. QED
        BY <2>1, <2>2, <3>1, AllocShardsIInv
    <2>3. CASE ~ConfigOK(kind, size)
      BY <2>1, <2>3, ZeroizeAllIInv
    <2>4. QED
      BY <2>2, <2>3
  <1>5. CASE Unlock
    BY <1>5, UnlockIInv
  <1>6. CASE Refresh
    BY <1>6, RefreshIInv
  <1>7. CASE UNCHANGED vars
    BY <1>7 DEF IInv, TypeOK, UnlockYieldsPrefix, vars
  <1>8. QED
    BY <1>1, <1>2, <1>3, <1>4, <1>5, <1>6, <1>7 DEF Next

-----------------------------------------------------------------------------
(* Type correctness: every reachable state of the memory is well typed.   *)
THEOREM TypeCorrect == Spec => []TypeOK
  <1>1. IInv => TypeOK
    BY DEF IInv
  <1>2. QED
    BY <1>1, InitIInv, NextIInv, PTL DEF Spec

(* For every NC_DATA_SIZE, every SHA256 and every sequence of alloc,      *)
(* lock, refresh, zeroize and unlock calls, the Buffer unlock returns     *)
(* holds the first NC_DATA_SIZE bytes of the payload last allocated.      *)
THEOREM UnlockCorrect == Spec => []UnlockYieldsPrefix
  <1>1. IInv => UnlockYieldsPrefix
    BY DEF IInv
  <1>2. QED
    BY <1>1, InitIInv, NextIInv, PTL DEF Spec

=============================================================================
