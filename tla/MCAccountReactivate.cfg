CONSTANTS
  Accounts = {a1}
  Handlers = {h1}
  Ops = {"create", "detail", "deactivate", "reactivate"}
  Faults = {}
  MaxSeq = 4
  MaxVersion = 6
  MaxNow = 0
  Window = 1
  BatchLimit = 2
SPECIFICATION FairSpec
PROPERTY ReactivationIsProjected
