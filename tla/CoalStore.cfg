SPECIFICATION FairSpec
CONSTANTS
  Missing = Missing
  Docs = {1, 2}
  Values = {"a", "b"}
  Invalid = {"b"}
  Filters = {{"a"}, {"a", "b"}}
  Initial = {1}
  Procs = {p, q}
  p = p
  q = q
  MaxAttempts = 2
  MaxOps = 2
  MaxCalls = 2
INVARIANT StoreInv
PROPERTIES ImplementsAtomic EveryCallReturns
CHECK_DEADLOCK FALSE
