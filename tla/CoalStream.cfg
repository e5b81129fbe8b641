SPECIFICATION StreamFairSpec
CONSTANTS
  Docs = {d1, d2}
  Ops = {"insert", "update", "lock", "delete"}
  Faults = {"watch", "load", "stream"}
  MaxChanges = 5
  MaxFaults = 2
CHECK_DEADLOCK FALSE
INVARIANTS TailInv CaughtUp
PROPERTIES MirrorFollows
