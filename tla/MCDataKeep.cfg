SPECIFICATION KeepSpec
CONSTANTS
  Layout = {"layout-0"}
  Effect = {"ripples-0", "noise-0"}
  Reader = {"preview"}
  Addr = {a1, a2}
  Is3d = {"ripples-0"}
  Shape <- KeepShape
  DefaultShape <- MCDefaultShape
  UintWrap = 8
  SizeWrap = 64
  DefaultLayout = "layout-0"
  DefaultSource = "ripples-0"
  SourceValue = {"ripples-0", "noise-0"}
  MaxEntries = 16
  Words = 4
  MemFails = FALSE
  NoShape = NoShape
  NoLayout = NoLayout
  Freed = Freed
  Null = Null
INVARIANTS
  AttachedToSource
  DeliversOnce
PROPERTIES
  GeometryReachesReaders
