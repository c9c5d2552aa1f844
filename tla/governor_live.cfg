SPECIFICATION FairSpec
CONSTANTS
  Pids = {1, 2}
  Programs = {"server"}
  AI = {"server"}
  Whitelist = {}
  Blacklist = {}
  DefaultAiAction = "Kill"
  Denied = {}
  AutoActuate = TRUE
  Grace = 1
  Sustain = 1
  MaxKills = 1
  Window = 1
  Captures = {"pidfd", "starttime"}
  Faults = {}
  MaxInst = 2
  MaxManual = 0
PROPERTIES
  PendingResolved
  SustainedBreachEnds
