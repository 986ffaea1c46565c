CONSTANTS
  Target = 2
  Newest = 3
  Names = {"mcp", "rest", "admin"}
  Secrets = {"s1", "s2"}
  Builtin <- InOrder
  Unset = Unset
  NoToken = NoToken
  Keys = {}
  KindOf <- NoKinds
  Revisions = {}
  Absent = Absent
  MaxFaults = 1
SPECIFICATION Spec
INVARIANTS ServesItsVersion OneIdentity ConfiguredTokensHold
PROPERTY UpgradeKeepsACopy
