SPECIFICATION InfoSpec
CONSTANTS
  s1 = s1
  s2 = s2
  v1 = v1
  v2 = v2
  bootstrap = bootstrap
  acks = acks
  required_acks = required_acks
  None = None
  Session = {s1, s2}
  Name <- MCName
  Value = {v1, v2}
  Accepted <- MCAccepted
  Setting = {bootstrap, acks}
  SettingOf <- MCSettingOf
  Default <- MCDefault
  Bootstrap = bootstrap
  Reader = {s1}
  LineLen <- MCLineLen
  HeadLen <- MCHeadLen
  ParamsMax = 5
  InfoMax = 10
  SizeMod = 64
INVARIANTS
  IndInv
  OneEntryPerName
  FrozenWhileConnected
  InfoInv
  TextIsWhatFits
  StaysInBuffer
  InfoIsConsistent
PROPERTIES
  ImplementsParamMap
  RemovalYieldsToAliases
