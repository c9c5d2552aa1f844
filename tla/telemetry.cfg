SPECIFICATION Spec
CONSTANTS
  PIDs = {1, 2}
  AiPIDs = {1}
  CompletedHistory = 2
  SamplesPerPid = 2
  AuditHistory = 1
  PlateauTicks = 2
  HardTimeout = 3
  HasPower = TRUE
  MaxFindings = 1
  MaxLives = 3
  MaxTicks = 5
INVARIANTS SteadyMeansLoaded ExitsPaired
CHECK_DEADLOCK FALSE
