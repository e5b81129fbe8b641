SPECIFICATION FairSpec
CONSTANTS
  Files = {f1, f2}
  NoFile = NoFile
  Owners = {o1, o2}
  NoOwner = NoOwner
  Services = {s1, s2}
  NoHandle = NoHandle
  Cleaners = {c1}
  Retention = 1
  UploadTime = 1
  MaxFaults = 1
INVARIANTS FilesInv LinksServed BlobsTracked
PROPERTIES StateForward RetentionHonored EventuallyReclaimed
