SPECIFICATION EspSpec
CONSTANTS
  Addr = {a1, a2}
  Client <- MCClient
  Method <- MCMethod
  Known = {"post", "patch", "get"}
  Pieces <- MCPieces
  Nobody = Nobody
INVARIANTS
  EspTypeOK
  OwnBodyLast
  OnlyAbortedLeaveBytes
CHECK_DEADLOCK FALSE
