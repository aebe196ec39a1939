---------------------------- MODULE Snapshot_proofs ----------------------------
(***************************************************************************)
(* Proofs about Snapshot for every set of clients, states, vaults and      *)
(* master keys: the model is type correct, get_state returns every         *)
(* client's last state (RoundTrip), and, when no client's VaultId is a     *)
(* vault the master key is stored in, the stored master key stays          *)
(* recoverable (StoredKeyRecoverable).                                     *)
(***************************************************************************)
EXTENDS Snapshot, FiniteSetTheorems, TLAPS

(* What RoundTrip rests on: a client with a recorded state has an         *)
(* encrypted state holding it, under the key its vault holds.             *)
KeysMatch ==
  \A c \in ClientIds :
     truth[c] # None =>
        /\ states[c] # None
        /\ keystore[VaultOf[c]] = states[c].key
        /\ states[c].data = truth[c]

IInv == TypeOK /\ KeysMatch

-----------------------------------------------------------------------------
(* add_data's fresh keys exist: the clients of a read can be given        *)
(* distinct keys from an interval as long as their number.                *)
LEMMA KeyAssignment ==
  ASSUME NEW ids \in SUBSET ClientIds, NEW a \in Nat
  PROVE  /\ Cardinality(ids) \in Nat
         /\ \E f \in [ids -> a + 1 .. a + Cardinality(ids)] :
               \A c, d \in ids : c # d => f[c] # f[d]
  <1>1. IsFiniteSet(ids) /\ Cardinality(ids) \in Nat
    BY SnapshotAssumption, FS_Subset, FS_CardinalityType
  <1>2. IsFiniteSet(a + 1 .. a + Cardinality(ids))
        /\ Cardinality(a + 1 .. a + Cardinality(ids)) = Cardinality(ids)
    <2>1. a + 1 \in Int /\ a + Cardinality(ids) \in Int
      BY <1>1
    <2>2. /\ IsFiniteSet(a + 1 .. a + Cardinality(ids))
          /\ Cardinality(a + 1 .. a + Cardinality(ids))
               = IF a + 1 > a + Cardinality(ids) THEN 0
                 ELSE (a + Cardinality(ids)) - (a + 1) + 1
      BY <2>1, FS_Interval
    <2>3. QED
      BY <1>1, <2>2
  <1>3. ExistsBijection(ids, a + 1 .. a + Cardinality(ids))
    BY <1>1, <1>2, FS_SameCardinalityBij
  <1>4. PICK f \in Bijection(ids, a + 1 .. a + Cardinality(ids)) : TRUE
    BY <1>3 DEF ExistsBijection
  <1>5. f \in [ids -> a + 1 .. a + Cardinality(ids)]
        /\ \A c, d \in ids : f[c] = f[d] => c = d
    BY <1>4 DEF Bijection, Injection, IsInjective
  <1>6. QED
    BY <1>1, <1>5

(* The state from_state builds. *)
LEMMA FromStateFacts ==
  ASSUME TypeOK,
         NEW content \in [ClientIds -> ClientState \cup {None}],
         NEW m \in MasterKeys, NEW wk \in KeyLocations \cup {None},
         FromState(content, m, wk)
  PROVE  /\ keystore' \in [VaultIds -> Keys \cup {None}]
         /\ db' \in [VaultIds \X RecordIds -> Sealed(MasterKeys) \cup {None}]
         /\ states' \in [ClientIds -> Sealed(ClientState) \cup {None}]
         /\ usedKeys' \in 0..MaxKeys
         /\ \A c \in ClientIds :
               content[c] # None =>
                  /\ states'[c] # None
                  /\ keystore'[VaultOf[c]] = states'[c].key
                  /\ states'[c].data = content[c]
         /\ KeyVaultsSeparate /\ wk # None =>
               /\ keystore'[wk[1]] = usedKeys + 1
               /\ db'[wk] = [key |-> usedKeys + 1, data |-> m]
  <1> DEFINE ids == {c \in ClientIds : content[c] # None}
             n == IF wk = None THEN 0 ELSE 1
             k0 == usedKeys + 1
             K == usedKeys + n + 1 .. usedKeys + n + Cardinality(ids)
             kOf == CHOOSE f \in [ids -> K] : \A c, d \in ids : c # d => f[c] # f[d]
  <1>1. usedKeys \in 0..MaxKeys /\ n \in {0, 1}
    BY DEF TypeOK
  <1>2. /\ Cardinality(ids) \in Nat
        /\ kOf \in [ids -> K]
        /\ \A c, d \in ids : c # d => kOf[c] # kOf[d]
    <2>1. usedKeys + n \in Nat /\ ids \in SUBSET ClientIds
      BY <1>1
    <2>2. /\ Cardinality(ids) \in Nat
          /\ \E f \in [ids -> (usedKeys + n) + 1 .. (usedKeys + n) + Cardinality(ids)] :
                \A c, d \in ids : c # d => f[c] # f[d]
      BY <2>1, KeyAssignment
    <2>3. QED
      BY <2>2
  <1>3. /\ usedKeys + n + Cardinality(ids) <= MaxKeys
        /\ usedKeys' = usedKeys + n + Cardinality(ids)
        /\ keystore' = [v \in VaultIds |->
                          IF \E c \in ids : VaultOf[c] = v
                          THEN kOf[CHOOSE c \in ids : VaultOf[c] = v]
                          ELSE IF wk # None /\ v = wk[1] THEN k0 ELSE None]
        /\ db' = SnapshotKeyRecord(wk, k0, m)
        /\ states' = [c \in ClientIds |->
                        IF c \in ids THEN [key |-> kOf[c], data |-> content[c]] ELSE None]
    BY DEF FromState
  <1>4. \A x \in K : x \in Keys
    BY <1>1, <1>2, <1>3, SnapshotAssumption DEF Keys
  <1>5. wk # None => k0 \in Keys
    BY <1>1, <1>2, <1>3, SnapshotAssumption DEF Keys
  <1>6. ASSUME NEW c \in ids
        PROVE  (CHOOSE d \in ids : VaultOf[d] = VaultOf[c]) = c
    BY SnapshotAssumption
  <1>7. keystore' \in [VaultIds -> Keys \cup {None}]
    BY <1>2, <1>3, <1>4, <1>5, SnapshotAssumption
  <1>8. db' \in [VaultIds \X RecordIds -> Sealed(MasterKeys) \cup {None}]
    BY <1>3, <1>5, SnapshotAssumption DEF SnapshotKeyRecord, Sealed
  <1>9. states' \in [ClientIds -> Sealed(ClientState) \cup {None}]
    BY <1>2, <1>3, <1>4 DEF Sealed
  <1>10. usedKeys' \in 0..MaxKeys
    BY <1>1, <1>2, <1>3
  <1>11. ASSUME NEW c \in ClientIds, content[c] # None
         PROVE  /\ states'[c] # None
                /\ keystore'[VaultOf[c]] = states'[c].key
                /\ states'[c].data = content[c]
    <2>1. c \in ids /\ VaultOf[c] \in VaultIds
      BY <1>11, SnapshotAssumption
    <2>2. keystore'[VaultOf[c]] = kOf[c]
      BY <1>3, <1>6, <2>1
    <2>3. states'[c] = [key |-> kOf[c], data |-> content[c]]
      BY <1>3, <2>1
    <2>4. kOf[c] \in Nat
      <3>1. kOf[c] \in K
        BY <1>2, <2>1
      <3>2. QED
        BY <3>1, <1>4 DEF Keys
    <2>6. content[c] \in States \cup {EmptyState}
      BY <1>11 DEF ClientState
    <2>5. QED
      BY <2>2, <2>3, <2>4, <2>6, SnapshotAssumption
  <1>12. ASSUME KeyVaultsSeparate, wk # None
         PROVE  /\ keystore'[wk[1]] = k0
                /\ db'[wk] = [key |-> k0, data |-> m]
    <2>1. wk[1] \in VaultIds /\ wk \in VaultIds \X RecordIds
      BY <1>12, SnapshotAssumption DEF KeyLocations
    <2>2. ~\E c \in ids : VaultOf[c] = wk[1]
      BY <1>12 DEF KeyVaultsSeparate, KeyLocations
    <2>3. QED
      BY <1>3, <1>12, <2>1, <2>2 DEF SnapshotKeyRecord
  <1>13. QED
    BY <1>7, <1>8, <1>9, <1>10, <1>11, <1>12

(* The initial state: an empty snapshot and no file. *)
LEMMA InitIInv == Init => IInv
  BY SnapshotAssumption DEF Init, IInv, TypeOK, KeysMatch, KeyLocations

(* add_data stores the state under a fresh key in the client's own vault; *)
(* VaultOf is injective, so no other client's key changes.                *)
LEMMA AddDataIInv ==
  ASSUME IInv, NEW c \in ClientIds, NEW s \in States, AddData(c, s)
  PROVE  IInv'
  <1> DEFINE k == usedKeys + 1
  <1>1. /\ usedKeys < MaxKeys /\ usedKeys' = k
        /\ keystore' = [keystore EXCEPT ![VaultOf[c]] = k]
        /\ states' = [states EXCEPT ![c] = [key |-> k, data |-> s]]
        /\ truth' = [truth EXCEPT ![c] = s]
        /\ UNCHANGED <<db, file, keyLoc, readKey>>
    BY DEF AddData, AddedKeys, AddedStates
  <1>2. k \in Keys /\ VaultOf[c] \in VaultIds
    <2>1. usedKeys \in 0..MaxKeys /\ MaxKeys \in Nat
      BY SnapshotAssumption DEF IInv, TypeOK
    <2>2. k \in Keys
      BY <1>1, <2>1 DEF Keys
    <2>3. QED
      BY <2>2, SnapshotAssumption
  <1>3. TypeOK'
    <2>1. keystore' \in [VaultIds -> Keys \cup {None}]
      BY <1>1, <1>2 DEF IInv, TypeOK
    <2>2. states' \in [ClientIds -> Sealed(ClientState) \cup {None}]
      BY <1>1, <1>2 DEF IInv, TypeOK, Sealed, ClientState
    <2>3. truth' \in [ClientIds -> ClientState \cup {None}]
      BY <1>1 DEF IInv, TypeOK, ClientState
    <2>4. usedKeys' \in 0..MaxKeys
      BY <1>1, <1>2 DEF Keys
    <2>5. QED
      BY <1>1, <2>1, <2>2, <2>3, <2>4 DEF IInv, TypeOK
  <1>4. ASSUME NEW d \in ClientIds, truth'[d] # None
        PROVE  /\ states'[d] # None
               /\ keystore'[VaultOf[d]] = states'[d].key
               /\ states'[d].data = truth'[d]
    <2>1. CASE d = c
      <3>1. states'[d] = [key |-> k, data |-> s] /\ keystore'[VaultOf[d]] = k
            /\ truth'[d] = s
        BY <1>1, <1>2, <2>1 DEF IInv, TypeOK
      <3>2. QED
        BY <3>1, <1>2, SnapshotAssumption DEF Keys
    <2>2. CASE d # c
      <3>1. VaultOf[d] # VaultOf[c]
        BY <2>2, SnapshotAssumption
      <3>2. states'[d] = states[d] /\ truth'[d] = truth[d]
            /\ keystore'[VaultOf[d]] = keystore[VaultOf[d]]
        BY <1>1, <2>2, <3>1 DEF IInv, TypeOK
      <3>3. QED
        BY <1>4, <3>2 DEF IInv, KeysMatch
    <2>3. QED
      BY <2>1, <2>2
  <1>5. QED
    BY <1>3, <1>4 DEF IInv, KeysMatch

(* write_to_snapshot changes only the file, which holds the master key   *)
(* and the decrypted client states.                                       *)
LEMMA WriteIInv ==
  ASSUME IInv, NEW u \in MasterKeys \cup KeyLocations, WriteToSnapshot(u)
  PROVE  IInv'
  <1> DEFINE key == IF u \in MasterKeys THEN u ELSE StoredKey(u)
  <1>1. /\ GetSnapshotState # Failed /\ key # Failed
        /\ file' = [master |-> key, content |-> GetSnapshotState]
        /\ UNCHANGED <<keystore, db, states, usedKeys, truth, keyLoc, readKey>>
    BY DEF WriteToSnapshot
  <1>2. key \in MasterKeys
    <2>1. CASE u \in MasterKeys
      BY <2>1
    <2>2. CASE u \notin MasterKeys
      <3>1. u \in VaultIds \X RecordIds /\ u[1] \in VaultIds
        BY <2>2, SnapshotAssumption DEF KeyLocations
      <3>2. StoredKey(u) # Failed
        BY <1>1, <2>2
      <3>3. QED
        BY <2>2, <3>1, <3>2 DEF StoredKey, IInv, TypeOK, Sealed
    <2>3. QED
      BY <2>1, <2>2
  <1>3. GetSnapshotState \in [ClientIds -> ClientState \cup {None}]
    <2> DEFINE ids == {c \in ClientIds : states[c] # None}
    <2>1. ~\E c \in ids : GetState(c) = Failed
      BY <1>1 DEF GetSnapshotState
    <2>2. ASSUME NEW c \in ids PROVE GetState(c) \in ClientState
      <3>1. states[c] \in Sealed(ClientState)
        BY DEF IInv, TypeOK
      <3>2. QED
        BY <2>1, <3>1 DEF GetState, Sealed, ClientState
    <2>3. QED
      BY <2>1, <2>2 DEF GetSnapshotState
  <1>4. QED
    BY <1>1, <1>2, <1>3 DEF IInv, TypeOK, KeysMatch

(* read_from_snapshot replaces the snapshot with from_state of the file   *)
(* and records the file's states as the clients' last states.             *)
LEMMA ReadIInv ==
  ASSUME IInv, NEW m \in MasterKeys, NEW wk \in KeyLocations \cup {None},
         ReadFromSnapshot(m, wk)
  PROVE  IInv'
  <1>1. /\ file # None /\ file.master = m
        /\ FromState(file.content, m, wk)
        /\ truth' = file.content /\ keyLoc' = wk /\ readKey' = m
        /\ UNCHANGED file
    BY DEF ReadFromSnapshot
  <1>2. file.content \in [ClientIds -> ClientState \cup {None}]
    BY <1>1 DEF IInv, TypeOK
  <1>3. TypeOK
    BY DEF IInv
  <1>4. /\ keystore' \in [VaultIds -> Keys \cup {None}]
        /\ db' \in [VaultIds \X RecordIds -> Sealed(MasterKeys) \cup {None}]
        /\ states' \in [ClientIds -> Sealed(ClientState) \cup {None}]
        /\ usedKeys' \in 0..MaxKeys
        /\ \A c \in ClientIds :
              file.content[c] # None =>
                 /\ states'[c] # None
                 /\ keystore'[VaultOf[c]] = states'[c].key
                 /\ states'[c].data = file.content[c]
    BY <1>1, <1>2, <1>3, FromStateFacts
  <1>5. TypeOK'
    BY <1>1, <1>2, <1>3, <1>4 DEF TypeOK
  <1>6. KeysMatch'
    BY <1>1, <1>4 DEF KeysMatch
  <1>7. QED
    BY <1>5, <1>6 DEF IInv

LEMMA NextIInv == IInv /\ [Next]_vars => IInv'
  <1> SUFFICES ASSUME IInv, [Next]_vars PROVE IInv'
    OBVIOUS
  <1>1. CASE \E c \in ClientIds, s \in States : AddData(c, s)
    BY <1>1, AddDataIInv
  <1>2. CASE \E u \in MasterKeys \cup KeyLocations : WriteToSnapshot(u)
    BY <1>2, WriteIInv
  <1>3. CASE \E m \in MasterKeys, wk \in KeyLocations \cup {None} : ReadFromSnapshot(m, wk)
    BY <1>3, ReadIInv
  <1>4. CASE UNCHANGED vars
    BY <1>4 DEF vars, IInv, TypeOK, KeysMatch
  <1>5. QED
    BY <1>1, <1>2, <1>3, <1>4 DEF Next

-----------------------------------------------------------------------------
(* Every reachable snapshot state is well typed. *)
THEOREM TypeCorrect == Spec => []TypeOK
  BY InitIInv, NextIInv, PTL DEF Spec, IInv

(* Snapshot round trip (spec section 8), for all constants: get_state     *)
(* returns every client's state as add_data or the file last gave it.     *)
THEOREM RoundTripCorrect == Spec => []RoundTrip
  <1>1. IInv => RoundTrip
    <2> SUFFICES ASSUME IInv, NEW c \in ClientIds, truth[c] # None
                 PROVE  GetState(c) = truth[c]
      BY DEF RoundTrip
    <2>1. states[c] \in Sealed(ClientState) /\ VaultOf[c] \in VaultIds
      BY SnapshotAssumption DEF IInv, TypeOK, KeysMatch
    <2>2. keystore[VaultOf[c]] = states[c].key /\ states[c].data = truth[c]
      BY DEF IInv, KeysMatch
    <2>3. keystore[VaultOf[c]] # None
      BY <2>1, <2>2, SnapshotAssumption DEF Sealed, Keys
    <2>4. states[c] # None
      <3>1. Sealed(ClientState) \subseteq [key : Nat, data : States \cup MasterKeys \cup {EmptyState}]
        BY DEF Sealed, Keys, ClientState
      <3> QED
        BY <2>1, <3>1, SnapshotAssumption
    <2>5. QED
      BY <2>2, <2>3, <2>4 DEF GetState
  <1>2. QED
    BY <1>1, InitIInv, NextIInv, PTL DEF Spec

-----------------------------------------------------------------------------
(* With the master key's vault kept apart from the clients' vaults, the   *)
(* key a read stored stays where it was put: add_data only replaces the   *)
(* key of a client's vault, and a write changes nothing but the file.     *)
LEMMA NextStoredKey ==
  ASSUME KeyVaultsSeparate, IInv, StoredKeyRecoverable, [Next]_vars
  PROVE  StoredKeyRecoverable'
  <1>1. CASE \E c \in ClientIds, s \in States : AddData(c, s)
    <2>1. PICK c \in ClientIds, s \in States : AddData(c, s)
      BY <1>1
    <2>2. SUFFICES ASSUME keyLoc' # None PROVE StoredKey(keyLoc)' = readKey'
      BY DEF StoredKeyRecoverable
    <2>3. /\ keyLoc' = keyLoc /\ readKey' = readKey /\ db' = db
          /\ keystore' = [keystore EXCEPT ![VaultOf[c]] = usedKeys + 1]
      BY <2>1 DEF AddData, AddedKeys
    <2>4. keyLoc[1] \in KeyVaults /\ VaultOf[c] # keyLoc[1]
      BY <2>2, <2>3 DEF IInv, TypeOK, KeyLocations, KeyVaultsSeparate
    <2>5. keystore'[keyLoc[1]] = keystore[keyLoc[1]]
      BY <2>3, <2>4
    <2>6. QED
      BY <2>2, <2>3, <2>5 DEF StoredKeyRecoverable, StoredKey
  <1>2. CASE \E u \in MasterKeys \cup KeyLocations : WriteToSnapshot(u)
    BY <1>2 DEF WriteToSnapshot, StoredKeyRecoverable, StoredKey
  <1>3. CASE \E m \in MasterKeys, wk \in KeyLocations \cup {None} : ReadFromSnapshot(m, wk)
    <2>1. PICK m \in MasterKeys, wk \in KeyLocations \cup {None} : ReadFromSnapshot(m, wk)
      BY <1>3
    <2>2. /\ FromState(file.content, m, wk)
          /\ keyLoc' = wk /\ readKey' = m
          /\ file.content \in [ClientIds -> ClientState \cup {None}]
      BY <2>1 DEF ReadFromSnapshot, IInv, TypeOK
    <2>3. SUFFICES ASSUME wk # None PROVE StoredKey(wk)' = m
      BY <2>2 DEF StoredKeyRecoverable
    <2>4. /\ keystore'[wk[1]] = usedKeys + 1
          /\ db'[wk] = [key |-> usedKeys + 1, data |-> m]
      BY <2>2, <2>3, FromStateFacts DEF IInv
    <2>5. usedKeys + 1 \in Nat
      BY DEF IInv, TypeOK
    <2>6. keystore'[wk[1]] # None /\ db'[wk] # None
      BY <2>4, <2>5, SnapshotAssumption
    <2>7. QED
      BY <2>4, <2>6 DEF StoredKey
  <1>4. CASE UNCHANGED vars
    BY <1>4 DEF vars, StoredKeyRecoverable, StoredKey
  <1>5. QED
    BY <1>1, <1>2, <1>3, <1>4 DEF Next

(* The master key a read stored at a location is recoverable there by     *)
(* write_to_snapshot with UseKey::Stored, for all constants in which no   *)
(* client's VaultId is a vault the master key is stored in.               *)
THEOREM StoredKeyCorrect ==
  ASSUME KeyVaultsSeparate
  PROVE  Spec => []StoredKeyRecoverable
  <1>1. Init => StoredKeyRecoverable
    BY DEF Init, StoredKeyRecoverable
  <1>2. IInv /\ StoredKeyRecoverable /\ [Next]_vars
          => IInv' /\ StoredKeyRecoverable'
    BY NextIInv, NextStoredKey
  <1>3. QED
    BY <1>1, <1>2, InitIInv, PTL DEF Spec

=============================================================================
