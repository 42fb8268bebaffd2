SPECIFICATION Spec
CONSTANTS
  SizeMod = 64
  PageSize = 8
  SizeMultiple = 4
  PhysPages = 4
CHECK_DEADLOCK FALSE
INVARIANTS
  FitsWhenRepresentable
  CallocCheckIsExact
