SPECIFICATION ReactorFairSpec
CONSTANTS
  Inputs = {0, 1, 2}
  NoInput = 0
  Setups = {{"releaser"},
            {"scanning"},
            {"retry", "scanning"},
            {"releaser", "scanning"},
            {"releaser", "retry", "rehash", "scanning"}}
  MaxSaves = 5
  MaxFailures = 2
INVARIANTS ReactorInv
PROPERTIES Settles
CHECK_DEADLOCK FALSE
