CONSTANTS
  Key = {k1, k2}
  Registered = {k1}
  Chunk <- MCChunk
  SessionTimeout = 1
  MaxTime = 2
  MaxFrames = 4
  NoSession = NoSession
  None = None
  TooShort <- MCTooShort
  CrcOk <- MCCrcOk
SPECIFICATION HSpec
INVARIANTS TypeOK SessionsAreOpenRuns ReturnsCompletedRuns
PROPERTY MultiFrameSweeps
CHECK_DEADLOCK FALSE
