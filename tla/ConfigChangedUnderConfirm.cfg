\* The configuration changes between the revision check and the client.
SPECIFICATION Spec
CONSTANTS
  c1 = c1  c2 = c2  x1 = x1  x2 = x2  q1 = q1  q2 = q2
  Requests = {q1}
  Resources = {x1}
  Revisions = {c1, c2}
  Ids = {op1}
  None = None
  NoRow = NoRow
  Nobody = Nobody
  Faults = {}
  Edits <- Once
  TypeOf <- TypeDatabase
  EnvironmentOf <- Promote
  DriverOf <- Same
  Statements = {"update_where"}
  Actions = {"restart_service"}
INVARIANTS
  RunsOnApprovedConfig
