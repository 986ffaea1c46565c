\* Two operations, two confirmations under way; three rows, one on a page.
SPECIFICATION PageSpec
CONSTANTS
  None = None
  NoData = NoData
  Ids = {op1, op2}
  Posts = {p1, p2}
  RowIds = {1, 2, 3}
  Times = {1, 2}
  PageSize = 1
  MaxRequests = 2
INVARIANTS
  ConfirmsWhatItShows
  WalkShowsAll
PROPERTY TrueStateAfterwards
