SPECIFICATION FairSpec
CONSTANTS
  s1 = s1
  s2 = s2
  t1 = t1
  r1 = r1
  m1 = m1
  m2 = m2
  Session = {s1, s2}
  Topic = {t1}
  Record = {r1}
  Msg = {m1, m2}
  Poll = Poll
  None = None
  QueueMax = 1
  MaxConnects = 1
PROPERTIES
  WriteLockReleased
  EveryMessageReported
  FullQueueSenderReturns
