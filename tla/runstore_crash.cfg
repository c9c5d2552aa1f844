SPECIFICATION Spec
CONSTANTS
  Models = {"m", "n"}
  Times = {0, 1, 2}
  Limit = 1
  BaselineWindow = 2
  MinSamples = 1
  Writers = {"monitor"}
  OneShot = {}
  Faults = {"Crash"}
  MaxRuns = 3
PROPERTIES
  ImplementsRunHistory
  GhostsGoFirst
INVARIANTS
  HardCap
