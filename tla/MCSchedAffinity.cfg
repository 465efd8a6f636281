SPECIFICATION SchedSpec
CONSTANTS
  Id = {"ripples-0", "reader-0"}
  Type <- MCType
  Name <- MCName
  CategoryOf <- MCCategoryOf
  InputsOf <- MCInputsOf
  DefaultLink <- MCDefaultLink
  Source = "source"
  AddRequest <- MCAddRequest
  OrderRequest = {}
  InputValue = {}
  Stored <- MCStored
  ChildWrap = 8
  MaxChildren = 3
  NoId = NoId
  NoType = NoType
  NoInput = NoInput
  Freed = Freed
  Cores = 2
  CoreOf <- MCCoreOf
  Cadence <- OneHook
  Period <- MCPeriod
  Wrap = 3
  MaxLag = 2
  Worker = {"w1"}
  ToggleRequest = {"ripples-0"}
  NoThread = NoThread
PROPERTIES
  TickedByOwnCore
CHECK_DEADLOCK FALSE
