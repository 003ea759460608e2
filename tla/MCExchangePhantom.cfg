CONSTANTS
  Client = {c1, c2}
  Piece <- MCPiece
  UidLen = 3
  TidSpace = 4
  NodeIdSpace = 128
  FirstNodeId = 10
  NoResponse = NoResponse
  NoId = NoId
  Prompt = TRUE
  MaxFaults = 0
  MaxRequests = 0
SPECIFICATION XSpec
INVARIANTS OnlyRealUids
