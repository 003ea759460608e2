CONSTANTS
  x1 = x1
  x2 = x2
  x3 = x3
  x4 = x4
  k1 = k1
  k2 = k2
  Transfer = {x1, x2, x3, x4}
  Key = {k1, k2}
  Registered = {k1}
  KeyOf <- MCKeyOf
  Frames <- MCFrames
  MaxChunks = 6
  SessionTimeout = 1
  MaxTime = 2
  NoSession = NoSession
  None = None
SPECIFICATION LinkSpec
INVARIANTS SessionsInStep UncheckedInStep CheckedIsWhole
PROPERTY ImplementsService
