SPECIFICATION SpecHuMalloc
CONSTANTS
  SizeMod = 4096
  PageSize = 4
  SizeMultiple = 2
  PhysPages = 20
  MemLast = 23
  MallocStarts = {4, 6, 16}
  HeaderSize = 2
  AllocCanFail = TRUE
  MprotectCanFail = FALSE
  Configs <- MCConfigs
  Sizes = {0, 1, 3}
  Counts = {3}
  MaxHeld = 2
INVARIANTS
  TypeOKHuMalloc
  OwnsItsBlocks
  NeverAborts
  UsableSizeIsUsable
  ProtectionIsExact
  QuarantineIsBounded
PROPERTIES
  KeepsContract
