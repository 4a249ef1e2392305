SPECIFICATION Spec
CONSTANTS
  p = p
  q = q
  e1 = e1
  e2 = e2
  NoError = NoError
  Thread = {p}
  Err = {e1, e2}
  Interval = 2
  MaxTime = 5
  MaxReports = 5
INVARIANTS
  OneLinePerInterval
