CONSTANTS
  Client = {c1}
  Piece <- MCPiece
  UidLen = 3
  TidSpace = 8
  NodeIdSpace = 128
  FirstNodeId = 10
  NoResponse = NoResponse
  NoId = NoId
  Prompt = TRUE
  MaxFaults = 4
  MaxRequests = 0
SPECIFICATION XLiveSpec
INVARIANTS XTypeOK OnlyRealUids
PROPERTY EventuallyAllocated
