SPECIFICATION Spec
CONSTANTS
  SizeMod = 4096
  PageSize = 4
  SizeMultiple = 2
  PhysPages = 20
  MemLast = 23
  MallocStarts = {}
  HeaderSize = 2
  AllocCanFail = FALSE
  MprotectCanFail = FALSE
  Configs <- MCConfigs
  Sizes = {1, 3}
  Counts = {1}
  MaxHeld = 2
  Stacks = {s1}
  ObjcStacks = {}
  AccessWindow = 4
  CountMod = 4096
  LogFileCanFail = FALSE
  LogConfigs <- MCLogConfigs
  Ptrs = {}
  LogSizes = {}
  MaxAllocs = 0
  MaxFrees = 0
  MaxFaults = 0
  Tools <- FaultTools
  MaxReports = 1
  MaxCalls = 5
  OtherThreads = {}
CHECK_DEADLOCK FALSE
INVARIANTS
  FaultIsAttributed
  FreedRecordsAreQuarantined
