\* Two calls of every kind, every fault.
SPECIFICATION Spec
CONSTANTS
  Calls = {c1, c2}
  Faults = {"store", "remote", "crash", "leave"}
INVARIANTS
  NoUnrecordedData
  RecordedOnce
  RowTellsAnswer
  AskedOnRecord
  AnsweredIsRecorded
PROPERTY ReadsAreCompleted
