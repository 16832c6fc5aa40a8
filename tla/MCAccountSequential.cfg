CONSTANTS
  Accounts = {a1}
  Handlers = {h1}
  Ops = {"create", "update", "detail", "suspend", "unsuspend", "ban", "unban", "deactivate", "reactivate"}
  Faults = {"handler", "poll", "write"}
  MaxSeq = 4
  MaxVersion = 5
  MaxNow = 1
  Window = 1
  BatchLimit = 2
SPECIFICATION Spec
INVARIANTS TypeOK RowExplained
PROPERTIES OlderVersionNeverOverwrites
