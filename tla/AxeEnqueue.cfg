SPECIFICATION Spec
CONSTANTS
  Ids = {i1, i2, i3}
  Callers = {c1, c2}
  Labels = {l1, none}
  NoLabel = none
  Isolations = {0, 1, 3}
  Expiry = 2
  AgeCap = 3
INVARIANTS EnqueueInv
PROPERTIES IsolationHonored
