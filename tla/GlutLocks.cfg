SPECIFICATION FairSpec
CONSTANTS
  Clients = {c1, c2}
  NoToken = NoToken
  Timeout = 3
  TTL = 4
  Grace = 1
  Raw = {"ensure", "set", "delete"}
  Latency = 1
  MaxWrites = 2
  MaxFaults = 1
INVARIANTS ValueInv MutualExclusion
PROPERTIES NoLostUpdate LockedAgain
