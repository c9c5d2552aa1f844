SPECIFICATION Spec
CONSTANTS
  Models = {"m"}
  Times = {0, 1}
  Limit = 1
  BaselineWindow = 1
  MinSamples = 1
  Writers = {"monitor", "wrapper"}
  OneShot = {"wrapper"}
  Faults = {"Crash", "Torn", "DiskFull", "DeleteFails"}
  MaxRuns = 3
INVARIANTS
  EntryHasFile
  LossBounded
  TombstoneIsGone
  IndexesAgree
