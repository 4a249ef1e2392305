SPECIFICATION Spec
CONSTANTS
  s1 = s1
  s2 = s2
  t1 = t1
  r1 = r1
  r2 = r2
  m1 = m1
  m2 = m2
  m3 = m3
  Session = {s1, s2}
  Topic = {t1}
  Record = {r1, r2}
  Msg = {m1, m2, m3}
  Poll = Poll
  None = None
  QueueMax = 2
  MaxConnects = 2
SYMMETRY Symmetry
INVARIANTS
  TypeOK
  CountInv
  NoUseAfterFree
  NoLeak
  TeardownIsComplete
  UnloadIsSafe
  CountedOnce
  SendQueuesOne
  StatsAccountForProduced
PROPERTIES
  ImplementsTopicLifecycle
