\* One SQL operation, two concurrent requests, every fault, edits that change
\* driver and environment of the database, or delete it.
SPECIFICATION Spec
CONSTANTS
  c1 = c1  c2 = c2  x1 = x1  x2 = x2  q1 = q1  q2 = q2
  Requests = {q1, q2}
  Resources = {x1}
  Revisions = {c1, c2}
  Ids = {op1}
  None = None
  NoRow = NoRow
  Nobody = Nobody
  Faults = {"remote", "crash", "store", "idle"}
  Edits <- Either
  TypeOf <- TypeDatabase
  EnvironmentOf <- Promote
  DriverOf <- Switch
  Statements = {"update_where", "create_index"}
  Actions = {"restart_service"}
SYMMETRY Interchange
INVARIANTS
  AtMostOnce
  RunIsOnRecord
  SucceededRan
  FrozenWhileUnfinished
  FrozenIsConfirmable
  RunsInItsDialect
  ApprovedConfigSeen
  DeadlineHonoured
PROPERTIES
  RowsAreFinal
  KeepsLifecycle
