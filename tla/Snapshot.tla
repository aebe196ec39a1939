------------------------------- MODULE Snapshot -------------------------------
(***************************************************************************)
(* The Snapshot of client_new/src/types/snapshot.rs and the snapshot file  *)
(* it writes.  In memory it holds, per client, the client's state          *)
(* encrypted under a fresh inner key, the inner keys in its own KeyStore   *)
(* under VaultId(client id), and optionally the master key in a record of  *)
(* its own DbView.  The file holds the client states under the master key. *)
(*                                                                         *)
(* A key is a number: fresh random keys are the next unused number (32     *)
(* random bytes are taken never to collide).  Encryption is a record of    *)
(* the key and the plaintext; decryption with another key fails.  A client *)
(* state (keystore, DbView, store) is a member of States, or EmptyState    *)
(* for the default triple get_state returns when it finds no key.          *)
(***************************************************************************)
EXTENDS Naturals, FiniteSets

CONSTANTS
  ClientIds,     \* clients whose state the snapshot holds
  States,        \* client states (keystore, DbView, store), abstracted
  EmptyState,    \* (HashMap::default(), DbView::default(), Cache::default())
  MasterKeys,    \* snapshot keys a caller passes
  VaultIds,      \* vault ids of the snapshot's own KeyStore
  RecordIds,     \* record ids of the snapshot's own DbView
  VaultOf,       \* VaultId(id.0): the vault id of a client's inner key
  KeyVaults,     \* vault ids callers choose for storing the master key
  None,          \* an absent entry
  Failed,        \* a read that returns an error
  MaxKeys        \* fresh keys generated in a run

ASSUME SnapshotAssumption ==
  /\ VaultOf \in [ClientIds -> VaultIds]
  /\ \A c, d \in ClientIds : VaultOf[c] = VaultOf[d] => c = d
  /\ KeyVaults \subseteq VaultIds
  /\ EmptyState \notin States
  /\ None \notin States \cup MasterKeys \cup {EmptyState, Failed}
  /\ Failed \notin States \cup MasterKeys \cup {EmptyState}
  /\ MaxKeys \in Nat
  /\ IsFiniteSet(ClientIds)
  /\ None \notin Nat \cup (VaultIds \X RecordIds)
  /\ None \notin [key : Nat, data : States \cup MasterKeys \cup {EmptyState}]

Keys == 1..MaxKeys
KeyLocations == KeyVaults \X RecordIds
ClientState == States \cup {EmptyState}

VARIABLES
  keystore,  \* keystore[v]: the snapshot KeyStore's key for vault v, or None
  db,        \* db[l]: the snapshot DbView's record at l ([key, data]) or None
  states,    \* states[c]: [key, data] the encrypted state of c, or None
  file,      \* the snapshot file: [master, content], or None
  usedKeys,  \* number of fresh keys generated so far
  truth,     \* history: truth[c], the state last given for c, or None
  keyLoc,    \* history: where the last read stored the master key, or None
  readKey    \* history: the master key of the last read, or None

vars == <<keystore, db, states, file, usedKeys, truth, keyLoc, readKey>>

Sealed(data) == [key : Keys, data : data]

TypeOK ==
  /\ keystore \in [VaultIds -> Keys \cup {None}]
  /\ db \in [VaultIds \X RecordIds -> Sealed(MasterKeys) \cup {None}]
  /\ states \in [ClientIds -> Sealed(ClientState) \cup {None}]
  /\ file \in [master : MasterKeys, content : [ClientIds -> ClientState \cup {None}]]
              \cup {None}
  /\ usedKeys \in 0..MaxKeys
  /\ truth \in [ClientIds -> ClientState \cup {None}]
  /\ keyLoc \in KeyLocations \cup {None}
  /\ readKey \in MasterKeys \cup {None}

Init ==
  /\ keystore = [v \in VaultIds |-> None]
  /\ db = [l \in VaultIds \X RecordIds |-> None]
  /\ states = [c \in ClientIds |-> None]
  /\ file = None
  /\ usedKeys = 0
  /\ truth = [c \in ClientIds |-> None]
  /\ keyLoc = None /\ readKey = None

(* get_state(id): the key under VaultId(id) is taken and put back; no     *)
(* state or no key gives the empty state, a key that does not decrypt the *)
(* state gives an error.                                                  *)
GetState(c) ==
  IF states[c] = None \/ keystore[VaultOf[c]] = None THEN EmptyState
  ELSE IF keystore[VaultOf[c]] = states[c].key THEN states[c].data
  ELSE Failed

(* The key write_to_snapshot reads from the record at a Stored location,  *)
(* with the key of its vault; Failed when either is missing or they do    *)
(* not match.                                                             *)
StoredKey(l) ==
  IF keystore[l[1]] # None /\ db[l] # None /\ db[l].key = keystore[l[1]]
  THEN db[l].data ELSE Failed

(* add_data(id, state) applied to the snapshot in ks, st: a fresh inner   *)
(* key k encrypts the state and is inserted under VaultId(id).            *)
AddedKeys(ks, c, k) == [ks EXCEPT ![VaultOf[c]] = k]
AddedStates(st, c, k, s) == [st EXCEPT ![c] = [key |-> k, data |-> s]]

(* Faulty variant of AddData whose KeyStore insert keeps a key already   *)
(* there, to confirm RoundTrip detects it.                                *)
AddDataKeepOldKey(c, s) ==
  /\ usedKeys < MaxKeys
  /\ usedKeys' = usedKeys + 1
  /\ keystore' = IF keystore[VaultOf[c]] = None
                 THEN AddedKeys(keystore, c, usedKeys + 1) ELSE keystore
  /\ states' = AddedStates(states, c, usedKeys + 1, s)
  /\ truth' = [truth EXCEPT ![c] = s]
  /\ UNCHANGED <<db, file, keyLoc, readKey>>

(* Snapshot::add_data for a client's current state. *)
AddData(c, s) ==
  /\ usedKeys < MaxKeys
  /\ usedKeys' = usedKeys + 1
  /\ keystore' = AddedKeys(keystore, c, usedKeys + 1)
  /\ states' = AddedStates(states, c, usedKeys + 1, s)
  /\ truth' = [truth EXCEPT ![c] = s]
  /\ UNCHANGED <<db, file, keyLoc, readKey>>

(* get_snapshot_state: get_state of every client the snapshot holds; the  *)
(* map, or Failed when one of them fails.                                 *)
GetSnapshotState ==
  LET ids == {c \in ClientIds : states[c] # None}
  IN  IF \E c \in ids : GetState(c) = Failed THEN Failed
      ELSE [c \in ClientIds |-> IF c \in ids THEN GetState(c) ELSE None]

(* write_to_snapshot(path, use_key): get_snapshot_state decrypts every     *)
(* client's state (one error fails the write), the master key is the      *)
(* literal one or the one stored at the location, and the file is         *)
(* replaced.  The key taken from the KeyStore is put back before the      *)
(* error of get_guard is returned, so the snapshot itself never changes.  *)
WriteToSnapshot(useKey) ==
  LET key == IF useKey \in MasterKeys THEN useKey ELSE StoredKey(useKey)
  IN  /\ GetSnapshotState # Failed
      /\ key # Failed
      /\ file' = [master |-> key, content |-> GetSnapshotState]
      /\ UNCHANGED <<keystore, db, states, usedKeys, truth, keyLoc, readKey>>

(* Faulty variant of SnapshotKeyRecord that encrypts the master key      *)
(* under the key after the one created for it, to confirm                 *)
(* StoredKeyRecoverable detects it.                                       *)
SnapshotKeyRecordWrongKey(wk, k0, m) ==
  [l \in VaultIds \X RecordIds |-> IF l = wk THEN [key |-> k0 + 1, data |-> m] ELSE None]

(* store_snapshot_key on a default snapshot: the DbView after the master  *)
(* key m is written at wk under the vault key k0 create_key made.         *)
SnapshotKeyRecord(wk, k0, m) ==
  [l \in VaultIds \X RecordIds |-> IF l = wk THEN [key |-> k0, data |-> m] ELSE None]

(* from_state(content, m, write_key): a default snapshot, the master key  *)
(* stored at write_key under a newly created vault key                    *)
(* (store_snapshot_key), then add_data for each client of the content.    *)
FromState(content, m, wk) ==
  LET ids == {c \in ClientIds : content[c] # None}
      n == IF wk = None THEN 0 ELSE 1
      k0 == usedKeys + 1
      \* add_data's fresh keys, one per client; which client gets which
      \* depends on the HashMap's order and does not matter.
      kOf == CHOOSE f \in [ids -> usedKeys + n + 1 .. usedKeys + n + Cardinality(ids)] :
               \A c, d \in ids : c # d => f[c] # f[d]
  IN  /\ usedKeys + n + Cardinality(ids) <= MaxKeys
      /\ usedKeys' = usedKeys + n + Cardinality(ids)
      \* store_snapshot_key runs first, so a client whose VaultId is the
      \* master key's vault replaces the key it was stored under.
      /\ keystore' = [v \in VaultIds |->
                        IF \E c \in ids : VaultOf[c] = v
                        THEN kOf[CHOOSE c \in ids : VaultOf[c] = v]
                        ELSE IF wk # None /\ v = wk[1] THEN k0 ELSE None]
      /\ db' = SnapshotKeyRecord(wk, k0, m)
      /\ states' = [c \in ClientIds |->
                      IF c \in ids THEN [key |-> kOf[c], data |-> content[c]] ELSE None]

(* read_from_snapshot(path, key, write_key): the file decrypts only under *)
(* its master key, and self is replaced by from_state of its content.     *)
ReadFromSnapshot(m, wk) ==
  /\ file # None /\ file.master = m
  /\ FromState(file.content, m, wk)
  /\ truth' = file.content
  /\ keyLoc' = wk
  /\ readKey' = m
  /\ UNCHANGED file

Next ==
  \/ \E c \in ClientIds, s \in States : AddData(c, s)
  \/ \E k \in MasterKeys \cup KeyLocations : WriteToSnapshot(k)
  \/ \E m \in MasterKeys, wk \in KeyLocations \cup {None} : ReadFromSnapshot(m, wk)

Spec == Init /\ [][Next]_vars

-----------------------------------------------------------------------------
\* The vaults callers store the master key in are not the VaultId of any
\* client (nothing in the code enforces this).
KeyVaultsSeparate == \A c \in ClientIds : VaultOf[c] \notin KeyVaults

(* Snapshot round trip (spec section 8): after any sequence of add_data,  *)
(* writes and reads, get_state returns for every client the state last    *)
(* given for it by add_data or by the file it was read from.              *)
RoundTrip ==
  \A c \in ClientIds : truth[c] # None => GetState(c) = truth[c]

(* A read that stores the master key at a location leaves it recoverable *)
(* there: write_to_snapshot with UseKey::Stored of that location finds    *)
(* the master key the snapshot was read with.                             *)
StoredKeyRecoverable ==
  keyLoc # None => StoredKey(keyLoc) = readKey

=============================================================================
