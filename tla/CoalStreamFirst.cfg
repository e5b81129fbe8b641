SPECIFICATION StreamSpec
CONSTANTS
  Docs = {d1}
  Ops = {"insert", "update"}
  Faults = {"first"}
  MaxChanges = 2
  MaxFaults = 1
CHECK_DEADLOCK FALSE
INVARIANTS CaughtUp
