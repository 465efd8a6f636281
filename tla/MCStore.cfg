SPECIFICATION StoreSpec
CONSTANTS
  Id <- MCId
  Type <- MCType
  Name <- MCName
  CategoryOf <- MCCategoryOf
  InputsOf <- MCInputsOf
  DefaultLink <- MCDefaultLink
  Source = "source"
  AddRequest <- MCAddRequest
  OrderRequest <- MCOrderRequest
  InputValue = {"layout-0"}
  Stored <- MCStored
  ChildWrap = 8
  MaxChildren = 3
  NoId = NoId
  NoType = NoType
  NoInput = NoInput
  Freed = Freed
  HeadModules <- MCHead
  Store = "state-store-0"
  StoreType = "state-store"
  NoFile = NoFile
  Torn = Torn
  SavedBefore <- MCSavedBefore
  MaxEdits = 2
  MaxFaults = 2
INVARIANTS
  StoreTypeOK
PROPERTIES
  RestoresTree
  QuietReachesDisk
CHECK_DEADLOCK FALSE
