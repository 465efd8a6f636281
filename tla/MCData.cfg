SPECIFICATION Spec
CONSTANTS
  Layout = {"layout-0"}
  Effect = {"ripples-0", "noise-0"}
  Reader = {"artnet"}
  Addr = {a1, a2}
  Is3d = {"ripples-0"}
  Shape <- OwnShape
  DefaultShape <- MCDefaultShape
  UintWrap = 8
  SizeWrap = 8
  DefaultLayout = "layout-0"
  DefaultSource = "ripples-0"
  SourceValue = {"ripples-0"}
  MaxEntries = 1
  Words = 3
  MemFails = TRUE
  NoShape = NoShape
  NoLayout = NoLayout
  Freed = Freed
  Null = Null
INVARIANTS
  TypeOK
  BuffersOwned
  RegistryNamesLiveBuffers
  FrameFits
  DeliversOnce
SYMMETRY AnyAddr
CHECK_DEADLOCK FALSE
