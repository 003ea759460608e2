SPECIFICATION PSpec
CONSTANTS
  Default <- MCDefault
  Docs <- MCDocs
  None = None
  Nan = Nan
  Near <- MCNear
  StepMin <- MCStepMin
  StepMax <- MCStepMax
  Fallback <- MCFallback
  SpeedField = 11
  PercentField = 128
INVARIANTS TypeOK ReportsWithinAsked LeavesOnlyWhatFailed
PROPERTIES Smooth IceAgrees StopsWhenAsked
CHECK_DEADLOCK FALSE
