CONSTANTS
  Accounts = {a1}
  Handlers = {h1}
  Ops = {"create", "suspend", "unsuspend"}
  Faults = {}
  MaxSeq = 3
  MaxVersion = 5
  MaxNow = 1
  Window = 3
  BatchLimit = 4
SPECIFICATION FairSpec
PROPERTY SkippedFoldIsRetried
