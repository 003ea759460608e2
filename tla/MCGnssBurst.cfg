CONSTANTS
  LastPoint = 3
  Elapsed <- MCElapsed
  Unbuildable = {}
  MinSleep = 1
  IdleSleep = 2
  LongestWait = 3
  MaxLag = 1
  TidSpace = 4
  NoFix = NoFix
SPECIFICATION GSpec
PROPERTY RealTime
