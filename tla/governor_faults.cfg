SPECIFICATION Spec
CONSTANTS
  Pids = {1}
  Programs = {"server", "shell"}
  AI = {"server"}
  Whitelist = {"shell"}
  Blacklist = {}
  DefaultAiAction = "Kill"
  Denied = {"shell"}
  AutoActuate = TRUE
  Grace = 1
  Sustain = 1
  MaxKills = 1
  Window = 2
  Captures = {"pidfd", "starttime", "none"}
  Faults = {"TickFails", "ReadMisses", "FastReuse"}
  MaxInst = 2
  MaxManual = 1
INVARIANTS
  TypeOK
  PidfdKillSafe
