SPECIFICATION Spec
CONSTANTS
  s1 = s1
  s2 = s2
  s3 = s3
  t1 = t1
  t2 = t2
  r1 = r1
  r2 = r2
  m1 = m1
  Session = {s1, s2, s3}
  Topic = {t1, t2}
  Record = {r1, r2}
  Msg = {m1}
  Poll = Poll
  None = None
  QueueMax = 1
  MaxConnects = 2
SYMMETRY Symmetry
INVARIANTS
  IndInv
  TopicInUseIsIntact
  OneRecordPerTopic
PROPERTIES
  ImplementsRecordSets
  ImplementsTopicService
