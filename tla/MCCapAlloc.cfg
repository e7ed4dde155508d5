SPECIFICATION FairSpec
CONSTANTS
  t1 = t1
  t2 = t2
  h1 = h1
  h2 = h2
  h3 = h3
  NoSlot = NoSlot
  NoHandle = NoHandle
  Thread <- MCThread
  Handle <- ThreeHandles
  Capacity = 3
  MaxCount = 3
INVARIANTS RefCounted HeldIsUsed FreeIsEmpty ScanMissesOnlyLast
PROPERTIES HeldStaysFilled RefsSpec SlotComesBack
