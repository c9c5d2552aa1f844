SPECIFICATION FairSpec
CONSTANTS
  Pids = {1, 2}
  Endpoints = {"ollama", "vllm"}
  Offers <- MCOffers
  Debounce = 2
  CounterMax = 3
  Faults = {}
INVARIANTS
  TypeOK
  StatusEarned
PROPERTIES
  ChipSettles
