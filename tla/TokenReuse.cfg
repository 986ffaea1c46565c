CONSTANTS
  Target = 1
  Newest = 1
  Names = {"mcp", "rest"}
  Secrets = {"s1", "s2"}
  Builtin <- TwoOnly
  Unset = Unset
  NoToken = NoToken
  Keys = {}
  KindOf <- NoKinds
  Revisions = {}
  Absent = Absent
  MaxFaults = 0
SPECIFICATION Spec
PROPERTY NewTokensAreTaken
