SPECIFICATION WsSpec
CONSTANTS
  Id = {"layout-0", "layout-1", "ripples-0", "ripples-1"}
  Type <- MCType
  Name <- MCName
  CategoryOf <- MCCategoryOf
  InputsOf <- MCInputsOf
  DefaultLink <- MCDefaultLink
  Source = "source"
  AddRequest <- MCAddRequest
  OrderRequest <- MCOrderRequest
  InputValue = {}
  Stored <- MCStored
  ChildWrap = 8
  MaxChildren = 3
  NoId = NoId
  NoType = NoType
  NoInput = NoInput
  Freed = Freed
  Page = {p1, p2}
  AtBoot <- MCAtBoot
  MaxFit = 3
  MaxRequests = 3
  MaxNet = 2
INVARIANTS
  WsTypeOK
  OnlyKnownGaps
PROPERTIES
  PagesAreTold
