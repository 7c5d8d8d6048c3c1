CONSTANTS
  Width = 5
  MsPerSec = 2
  UsPerMs = 2
  ReqTimeoutUs = 6
  MaxSecs = 10
  Pals = {"gt202", "posix"}
  WallAtBoot = 40
  StepUs = 8
  MaxSteps = 1
SPECIFICATION Spec
INVARIANT DeadlineHonoured
