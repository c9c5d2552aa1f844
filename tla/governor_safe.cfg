SPECIFICATION Spec
CONSTANTS
  Pids = {1, 2}
  Programs = {"server", "shell"}
  AI = {"server"}
  Whitelist = {"shell"}
  Blacklist = {"shell"}
  DefaultAiAction = "Kill"
  Denied = {}
  AutoActuate = TRUE
  Grace = 1
  Sustain = 1
  MaxKills = 1
  Window = 2
  Captures = {"pidfd", "starttime"}
  Faults = {}
  MaxInst = 2
  MaxManual = 1
INVARIANTS
  RateLimit
  SigkillSafe
  PolicyObeyed
  SustainedOnly
  KillsAttributed
  PendingIsTracked
PROPERTIES
  NoSecondTerm
