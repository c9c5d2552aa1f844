SPECIFICATION FairSpec
CONSTANTS
  Pids = {1, 12}
  AiPids = {1, 12}
  Child = 1
  Lines = {"cuda_oom", "empty", "garbled"}
  Lookback = 1
  StderrTail = 1
  MaxLines = 2
INVARIANTS
  OomSeen
  RecordHearsAll
PROPERTY
  WrapperEnds
