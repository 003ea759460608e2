CONSTANTS
  NodeId = 2
  Key <- MCKey
  Chunk <- MCChunk
  SessionTimeout = 1
  MaxTime = 2
  NoSession = NoSession
  None = None
  CrcOk <- MCCrcOk
  Piece = {1, 2}
  UidLen = 2
  TidSpace = 32
  NodeIdSpace = 128
  FirstNodeId = 10
  NoResponse = NoResponse
  Packets <- MCPackets
  MaxFrames = 4
SPECIFICATION ASpec
INVARIANTS TypeOK CutPacketsKeepPrefix RequestsAnsweredOnce
CHECK_DEADLOCK FALSE
