\* Two clients, two states each, two master keys; the master key may be
\* stored in a vault of its own (v3).  Eight fresh keys allow several
\* add_data calls, a read restoring both clients, and more of each.
CONSTANTS
  c1 = c1
  c2 = c2
  v1 = v1
  v2 = v2
  v3 = v3
  ClientIds = {c1, c2}
  States = {a1, a2}
  EmptyState = EmptyState
  MasterKeys = {m1, m2}
  VaultIds = {v1, v2, v3}
  RecordIds = {r1}
  VaultOf <- MCVaultOf
  KeyVaults = {v3}
  None = None
  Failed = Failed
  MaxKeys = 8
SPECIFICATION Spec
INVARIANT
  RoundTrip
  
\* Each read and add_data uses fresh keys: the run ends when MaxKeys are used.
CHECK_DEADLOCK FALSE
