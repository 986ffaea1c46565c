\* Every kind of call, with less, exactly, one more and more than the limit.
SPECIFICATION GuardedSpec
CONSTANTS
  Limit = 2
  MaxSize = 4
INVARIANTS
  
  
  DocumentedDecision
  DataIsWhole
  LimitIsExact
PROPERTY CallsEnd
