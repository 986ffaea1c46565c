\* Two requests for one resource, and the observer or a transaction.
SPECIFICATION FairSpec
CONSTANTS
  c1 = c1  c2 = c2
  Requests = {q1, q2}
  Resources = {x1}
  Revisions = {c1, c2}
  None = None
  Faults = {"idle", "store"}
  Edits <- Forward
  Kinds = {"linux"}
  KindOf <- OneKind
  Others = {w1}
  Tables = 1
  MaxStatements = 2
  MaxChanges = 1
INVARIANTS
  LockOrder
  FreshClient
PROPERTIES
  WaitsEnd
  UsesClients
