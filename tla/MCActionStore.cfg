SPECIFICATION Spec
CONSTANTS
  Name = {n1, n2}
  Dataspace = {d1, d2}
  Slot = {s1, s2, s3, s4}
  MaxCount = 12
  MaxNesting = 3
  MaxTransient = 2
  NoSlot = NoSlot
  Nothing = Nothing
SYMMETRY Alike
CONSTRAINT Replaced
INVARIANTS OneOwner RefsExact ActionKeepsDataspace OnlyStraysLeft
PROPERTY KeepsTable
