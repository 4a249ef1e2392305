SPECIFICATION Spec
CONSTANTS
  Record = {r1, r2, r3, r4, r5}
  Junk = Junk
  ItemSize = 2
  InitialSlots = 1
  SizeMod = 32
  PtrMax = 15
SYMMETRY Symmetry
INVARIANTS
  IndInv
  InBounds
PROPERTIES
  ImplementsRecordSets
