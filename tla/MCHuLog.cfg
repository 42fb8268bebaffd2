SPECIFICATION SpecHuLog
CONSTANTS
  Stacks = {s1, s2, s3}
  ObjcStacks = {s3}
  AccessWindow = 1
  CountMod = 64
  LogFileCanFail = FALSE
  LogConfigs <- MCLogConfigs
  Ptrs = {0, 3}
  LogSizes = {1, 2}
  MaxAllocs = 2
  MaxFrees = 4
  MaxFaults = 1
INVARIANTS
  TypeOKHuLog
  LiveOrFreed
  BytesCoverLive
  ReportsMatchErrors
  DetailsAddUp
