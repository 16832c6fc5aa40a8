CONSTANTS
  Workers = {w1, w2}
  Window = 2
  BatchLimit = 3
  MaxSeq = 5
  Editors = {e1, e2}
  MaxProfileEvents = 3
  DependentWindow = 2
  DependentBatchLimit = 3
SPECIFICATION ProjectorsSpec
INVARIANTS
  TypeOK NoTimelyRowLost NoPollSkips
  ProfileSafety
PROPERTIES
  CheckpointNeverRegresses FullPollAdvances TimelyRowsConsumed
  ConvergesWithoutOverlap LiveProfileReturns
