CONSTANTS
  v1 = v1
  r1 = r1
  r2 = r2
  k1 = k1
  VaultIds = {v1}
  RecordIds = {r1, r2}
  Secrets = {s1, s2}
  Absent = Absent
  Revoked = Revoked
  OutputKeys = {k1}
  NoKey = NoKey
  Procedures <- MCProcedures
  MaxChain = 3
SPECIFICATION Spec
INVARIANT
  RollbackRevokesChainWrites
