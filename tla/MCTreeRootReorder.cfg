SPECIFICATION Spec
CONSTANTS
  Type <- MCType
  Name <- MCName
  CategoryOf <- MCCategoryOf
  InputsOf <- MCInputsOf
  DefaultLink <- MCDefaultLink
  Source = "source"
  OrderRequest <- MCOrderRequest
  InputValue <- MCInputValue
  Stored <- MCStored
  ChildWrap = 4
  MaxChildren = 2
  NoId = NoId
  NoType = NoType
  NoInput = NoInput
  Freed = Freed
  Id <- ApiId
  AddRequest <- ApiAddRequest
PROPERTIES
  RootReorderKeepsModules
CHECK_DEADLOCK FALSE
