SPECIFICATION PatientSpec
CONSTANTS
  s1 = s1
  s2 = s2
  s3 = s3
  t1 = t1
  r1 = r1
  m1 = m1
  Session = {s1, s2, s3}
  Topic = {t1}
  Record = {r1}
  Msg = {m1}
  Poll = Poll
  None = None
  QueueMax = 1
  MaxConnects = 1
PROPERTIES
  TeardownReachesItsFlush
