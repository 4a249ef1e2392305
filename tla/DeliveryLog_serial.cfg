SPECIFICATION Spec
CONSTANTS
  p = p
  q = q
  e1 = e1
  e2 = e2
  NoError = NoError
  Thread = {p, q}
  Err = {e1, e2}
  Interval = 2
  MaxTime = 2
  MaxReports = 4
SYMMETRY Symmetry
INVARIANTS
  IndInv
  FailuresAccountedFor
  LogShowsTheState
  ThrottleFollowsTheLog
