CONSTANTS
  Accounts = {a1, a2}
  Handlers = {h1}
  Ops = {"create", "suspend", "follow"}
  Faults = {"handler", "write", "keto"}
  MaxSeq = 3
  MaxVersion = 4
  MaxNow = 0
  Window = 3
  BatchLimit = 4
SPECIFICATION FairSpec
PROPERTIES Converges CreatorBecomesOwner
