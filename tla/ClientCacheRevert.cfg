\* One request at a time is enough: the configuration changes and back.
SPECIFICATION Spec
CONSTANTS
  c1 = c1  c2 = c2
  Requests = {q1}
  Resources = {x1}
  Revisions = {c1, c2}
  None = None
  Faults = {}
  Edits <- Revert
INVARIANT FreshClient
