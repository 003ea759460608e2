CONSTANTS
  Piece = {a, b}
  UidLen = 2
  TidSpace = 4
  NodeIdSpace = 4
  FirstNodeId = 1
  NoResponse = NoResponse
  MaxChunk = 2
  MaxUid = 3
SPECIFICATION MCSpec
INVARIANTS TypeOK StateConsistent DistinctWireIds AnswersMatchTable
PROPERTY AllocationsPermanent
