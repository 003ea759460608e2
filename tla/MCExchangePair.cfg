CONSTANTS
  Client = {c1, c2}
  Piece <- MCPiece
  UidLen = 2
  TidSpace = 4
  NodeIdSpace = 3
  FirstNodeId = 1
  NoResponse = NoResponse
  NoId = NoId
  Prompt = FALSE
  MaxFaults = 1
  MaxRequests = 3
SPECIFICATION XSpec
INVARIANTS HeldIdsAreOwn HeldIdsDistinct
