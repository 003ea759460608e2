CONSTANTS
  LastPoint = 3
  Elapsed <- MCElapsed
  Unbuildable = {2}
  MinSleep = 2
  IdleSleep = 2
  LongestWait = 3
  MaxLag = 1
  TidSpace = 4
  NoFix = NoFix
SPECIFICATION GLiveSpec
INVARIANTS TypeOK SteadyLapsKeepTime
PROPERTIES PlaysTrack KeepsPlaying RecoversPace
