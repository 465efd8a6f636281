SPECIFICATION UiSpec
CONSTANTS
  Type <- MCType
  Name <- MCName
  CategoryOf <- MCCategoryOf
  InputsOf <- MCInputsOf
  DefaultLink <- MCDefaultLink
  Source = "source"
  OrderRequest <- MCOrderRequest
  InputValue <- MCInputValue
  Stored <- MCStored
  ChildWrap = 8
  MaxChildren = 3
  NoId = NoId
  NoType = NoType
  NoInput = NoInput
  Freed = Freed
  Id <- UiId
  AddRequest <- UiAddRequest
INVARIANTS
  ParentsAlive
  Acyclic
  DepthFirst
PROPERTIES
  DestroysExactlyAGroup
  RootsKeepOrder
