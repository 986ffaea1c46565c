CONSTANTS
  Target = 1
  Newest = 1
  Names = {}
  Secrets = {}
  Builtin <- NoNames
  Unset = Unset
  NoToken = NoToken
  Keys = {"db", "host"}
  KindOf <- TwoKinds
  Revisions = {"r1", "r2"}
  Absent = Absent
  MaxFaults = 1
SPECIFICATION Spec
INVARIANTS TrailAgrees StoreOpenWhileUsed
PROPERTIES NoRepeatedRow ShutdownEnds ChangesNoticed
