SPECIFICATION Spec
CONSTANTS
  Name = {n1}
  Dataspace = {d1}
  Slot = {s1, s2}
  MaxCount = 127
  MaxNesting = 43
  MaxTransient = 1
  NoSlot = NoSlot
  Nothing = Nothing
SYMMETRY Alike
INVARIANT RunningIsUsed
