SPECIFICATION FairSpec
CONSTANTS
  Jobs = {j1}
  Workers = {w1, w2}
  NoJob = NoJob
  Timeout = 2
  MaxLag = 2
  BlockPeriod = 2
  Removal = TRUE
  Floor = 4
  MaxRestarts = 1
  MaxTries = 2
PROPERTIES EveryJobFound
INVARIANTS BoardInv
