CONSTANTS
  Accounts = {a1}
  Handlers = {h1, h2}
  Ops = {"create", "detail", "suspend", "deactivate", "reactivate"}
  Faults = {"poll"}
  MaxSeq = 4
  MaxVersion = 4
  MaxNow = 0
  Window = 1
  BatchLimit = 2
SPECIFICATION TailingSpec
SYMMETRY HandlerAccountSymmetry
INVARIANTS BrickedOnlyByForkOrDoubleDeactivation
PROPERTIES ImplementsTailing
