SPECIFICATION FairSpec
CONSTANTS
  Jobs = {j1}
  Workers = {w1, w2}
  NoJob = NoJob
  Delays = {0, 1}
  Timeouts = {3, 4}
  Lifetime = 1
  Extensions <- MCExtensions
  MinDelay = 0
  MaxDelay = 1
  MaxAttempts = 2
  Latency = 1
  MaxTries = 7
  MaxFaults = 2
  RanCap = 3
INVARIANTS JobInv MutualExclusion OwnWrites NotifiedOnce
PROPERTIES ImplementsExclusive EveryJobFinishes
