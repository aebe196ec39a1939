----------------------------- MODULE SnapshotActor -----------------------------
(***************************************************************************)
(* The snapshot actor of client/src/actors/snapshot.rs.  Its mailbox       *)
(* handles one message at a time, but messages from the actors of          *)
(* different clients arrive in any order: each handler is one step.        *)
(*                                                                         *)
(* The actor wraps the old crate's state::snapshot::Snapshot, which is not *)
(* part of this repository's sources: its SnapshotState is a map from      *)
(* client ids to client states (filled by add_data), read_from_snapshot    *)
(* builds a Snapshot holding the file's map, write_to_snapshot writes the  *)
(* map to the file (spec section 4.6).  Keys and encryption are left out:  *)
(* the caller's snapshot key is taken to be the file's.                    *)
(***************************************************************************)
EXTENDS Naturals

CONSTANTS
  ClientIds,   \* the clients sharing the snapshot actor
  States,      \* client states (keystore, DbView, store), abstracted
  None         \* no state for a client / no snapshot file

ClientMap == [ClientIds -> States \cup {None}]
NoClients == [c \in ClientIds |-> None]

VARIABLES
  state,    \* self.state: the SnapshotState map held by the actor
  disk,     \* the snapshot file's map, or None when there is no file
  pending   \* history: states filled and not yet written by a WriteSnapshot

vars == <<state, disk, pending>>

TypeOK ==
  /\ state \in ClientMap
  /\ disk \in ClientMap \cup {None}
  /\ pending \in ClientMap

Init == state = NoClients /\ disk = None /\ pending = NoClients

(* FillSnapshot: self.state.add_data(id, data). *)
FillSnapshot(c, s) ==
  /\ state' = [state EXCEPT ![c] = s]
  /\ pending' = [pending EXCEPT ![c] = s]
  /\ UNCHANGED disk

(* ReadFromSnapshot for a client (fid = None): with data in memory it is  *)
(* returned as it is; otherwise the file is read and *self replaced by    *)
(* the snapshot read.  Reading a missing file is an error that leaves     *)
(* self alone.                                                            *)
ReadFromSnapshot(c) ==
  /\ state[c] = None
  /\ disk # None
  /\ state' = disk
  /\ UNCHANGED <<disk, pending>>

(* LoadFromDisk: *self replaced by the snapshot read from the file; the  *)
(* caller asks for the unsaved fills to be discarded.                     *)
LoadFromDisk ==
  /\ disk # None
  /\ state' = disk
  /\ pending' = NoClients
  /\ UNCHANGED disk

(* WriteSnapshot: write_to_snapshot, then self.state reset to default. *)
WriteSnapshot ==
  /\ disk' = state
  /\ state' = NoClients
  /\ pending' = NoClients

Next ==
  \/ \E c \in ClientIds, s \in States : FillSnapshot(c, s)
  \/ \E c \in ClientIds : ReadFromSnapshot(c)
  \/ LoadFromDisk
  \/ WriteSnapshot

Spec == Init /\ [][Next]_vars

-----------------------------------------------------------------------------
(* A state a client filled stays in the actor until a WriteSnapshot saves *)
(* it: no read of another client's state drops it.                        *)
FilledDataKept ==
  \A c \in ClientIds : pending[c] # None => state[c] = pending[c]

=============================================================================
