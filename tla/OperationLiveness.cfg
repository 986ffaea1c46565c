\* A database and a cluster, a store that answers, no restart of the gateway.
SPECIFICATION FairSpec
CONSTANTS
  c1 = c1  c2 = c2  x1 = x1  x2 = x2  q1 = q1  q2 = q2
  Requests = {q1, q2}
  Resources = {x1, x2}
  Revisions = {c1, c2}
  Ids = {op1}
  None = None
  NoRow = NoRow
  Nobody = Nobody
  Faults = {"remote", "idle"}
  Edits <- Once
  TypeOf <- TypeEach
  EnvironmentOf <- Promote
  DriverOf <- Same
  Statements = {"update_where"}
  Actions = {"rollout_restart"}
PROPERTIES
  ClaimedIsClosed
  RequestsEnd
