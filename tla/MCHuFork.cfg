SPECIFICATION SpecHuFork
CONSTANTS
  SizeMod = 4096
  PageSize = 4
  SizeMultiple = 2
  PhysPages = 20
  MemLast = 19
  MallocStarts = {4, 8}
  HeaderSize = 2
  AllocCanFail = TRUE
  MprotectCanFail = FALSE
  Configs <- MCConfigs
  Sizes = {0, 1, 3}
  Counts = {}
  MaxHeld = 2
  MaxChildCalls = 4
CHECK_DEADLOCK FALSE
INVARIANTS
  ChildNeverAborts
  ChildOwnsItsMemory
  ChildCanUseItsMemory
