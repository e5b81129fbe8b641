CONSTANTS
  Clients = {"web", "app"}
  Confidential = {"web"}
  Owners = {"o1"}
  None = "none"
  Scopes <- MCScopes
  URIs = {"u1", "u2"}
  Registered <- MCRegistered
  Permitted <- MCPermitted
  Lifespan <- MCLifespan
  Second = 2
  Delay = 0
  Setups <- MCSetups
  Requests = {req1, req2}
  req1 = req1
  req2 = req2
  MaxTokens = 6
  MaxTime = 2
  MaxFaults = 1

SPECIFICATION Spec
INVARIANTS FlameInv EndedForGood
PROPERTY NeverStranded
CHECK_DEADLOCK FALSE
SYMMETRY Symmetry
