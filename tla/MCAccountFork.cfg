CONSTANTS
  Accounts = {a1}
  Handlers = {h1, h2}
  Ops = {"create", "suspend"}
  Faults = {}
  MaxSeq = 3
  MaxVersion = 5
  MaxNow = 0
  Window = 3
  BatchLimit = 4
SPECIFICATION Spec
INVARIANT StaleSaveConflicts
