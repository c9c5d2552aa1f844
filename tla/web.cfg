SPECIFICATION FairSpec
CONSTANTS
  Clients = {"a", "b"}
  Subscribers = {"s"}
  Bodies <- MCBodies
  Files <- MCFiles
  Defaults <- MCDefaults
  MaxPct = 4
  MaxSustain = 4
  Faults = {"Crash", "WriteFails"}
  MaxPosts = 3
  MaxCrashes = 1
INVARIANTS
  AppliedValid
  SavedKeysStay
  NothingMissed
PROPERTIES
  Settles
