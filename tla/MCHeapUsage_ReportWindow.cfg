SPECIFICATION Spec
CONSTANTS
  SizeMod = 4096
  PageSize = 4
  SizeMultiple = 2
  PhysPages = 20
  MemLast = 23
  MallocStarts = {2, 8, 16}
  HeaderSize = 2
  AllocCanFail = FALSE
  MprotectCanFail = FALSE
  Configs <- MCConfigs
  Sizes = {3}
  Counts = {}
  MaxHeld = 2
  Stacks = {s1}
  ObjcStacks = {}
  AccessWindow = 4
  CountMod = 4096
  LogFileCanFail = FALSE
  LogConfigs <- MCLogConfigs
  Ptrs = {}
  LogSizes = {}
  MaxAllocs = 0
  MaxFrees = 0
  MaxFaults = 0
  Tools <- OnlyLeak
  MaxReports = 1
  MaxCalls = 5
  OtherThreads = {"report"}
CHECK_DEADLOCK FALSE
INVARIANTS
  NoFalseLeak
