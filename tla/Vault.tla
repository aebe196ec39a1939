-------------------------------- MODULE Vault --------------------------------
(***************************************************************************)
(* The per-client vault: a KeyStore (at most one key per VaultId) and a    *)
(* DbView mapping every (VaultId, RecordId) to a record.  The engine's     *)
(* vault crate is not part of this repository's sources, so the record     *)
(* life cycle here follows the specification (section 4.4): write creates  *)
(* or overwrites a live record, revoke turns a live record into a          *)
(* tombstone, gc removes the tombstones of one vault.                      *)
(*                                                                         *)
(* A record's ciphertext, nonce and hint are abstracted to the secret it   *)
(* decrypts to: a member of Secrets, or Absent, or Revoked (tombstone).    *)
(***************************************************************************)
EXTENDS Naturals

CONSTANTS
  VaultIds,     \* vault identifiers derived from vault paths
  RecordIds,    \* record identifiers derived from record paths
  Secrets,      \* the plaintexts a record can hold
  Absent,       \* no record at this location
  Revoked       \* a tombstoned record (alive = false)

ASSUME VaultAssumption ==
  /\ VaultIds # {} /\ RecordIds # {} /\ Secrets # {}
  /\ Absent \notin Secrets /\ Revoked \notin Secrets /\ Absent # Revoked

\* A Location resolves to the pair (VaultId, RecordId).
Locations == VaultIds \X RecordIds

RecordState == Secrets \cup {Absent, Revoked}

VARIABLES
  keys,   \* the set of VaultIds the KeyStore holds a key for
  db      \* db[<<vid, rid>>]: the record stored at that location

vaultVars == <<keys, db>>

\* A record is readable by get_guard only when it is present and alive.
IsLive(l) == db[l] \in Secrets

\* What get_guard observes at a location in a given DbView.
Visible(view, l) == IF view[l] \in Secrets THEN view[l] ELSE Absent

VaultTypeOK ==
  /\ keys \subseteq VaultIds
  /\ db \in [Locations -> RecordState]

VaultInit ==
  /\ keys = {}
  /\ db = [l \in Locations |-> Absent]

(* KeyStore::create_key: fails with KeyAlreadyExists when v has a key. *)
CreateKey(v) ==
  /\ v \notin keys
  /\ keys' = keys \cup {v}
  /\ UNCHANGED db

(* DbView::write under the vault's key: stores a fresh live record,       *)
(* overwriting whatever was at the location.                              *)
WriteRecord(l, s) ==
  /\ l[1] \in keys
  /\ db' = [db EXCEPT ![l] = s]
  /\ UNCHANGED keys

(* The DbView after revoking every location of L: a live record becomes a *)
(* tombstone, an absent or revoked one is left as it is (revoke is        *)
(* idempotent; revoking an absent record is an error the caller drops).   *)
RevokedView(view, L) ==
  [l \in Locations |-> IF l \in L /\ view[l] \in Secrets THEN Revoked ELSE view[l]]

RevokeRecord(l) ==
  /\ l[1] \in keys
  /\ db' = RevokedView(db, {l})
  /\ UNCHANGED keys

(* DbView::garbage_collect_vault: drops the tombstones of vault v. *)
GarbageCollect(v) ==
  /\ v \in keys
  /\ db' = [l \in Locations |-> IF l[1] = v /\ db[l] = Revoked THEN Absent ELSE db[l]]
  /\ UNCHANGED keys

=============================================================================
