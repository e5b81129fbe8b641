CONSTANTS
  Ids = {1, 2, 3}
  Values = {0, 1, 2}
  LinkSets <- MCLinkSets
  Tokens = {"k1", "k2"}
  Free = Free
  Gone = Gone
  Users = {"all", "some"}
  Allowed <- MCAllowed
  Readable <- MCReadable
  Filters = {"val", "parent"}
  Sorters = {"val"}
  Procs = {proc1, proc2}
  proc1 = proc1
  proc2 = proc2
  Configs <- MCConfigs
  Writable <- MCWritable
  Tolerated = {"links"}
  Protected <- MCProtected
  Invalid = {0}
  Sorts <- MCSorts

SPECIFICATION Spec
INVARIANTS FireInv PagesCover
PROPERTIES ConsistentUpdates DeletedStays AuthorizedChanges
CHECK_DEADLOCK FALSE
SYMMETRY Symmetry
