CONSTANTS
  Uploads = {u1, u2, u3}
  DependentWindow = 2
  DependentBatchLimit = 3
  FieldEditors = {e1, e2}
  FieldValues = {"x", "y"}
  SubmittedLists <- FieldLists
  MaxFields = 2
  MaxFieldEvents = 3
  Members = {"m1", "m2"}
  Callers = {"m1"}
  Strangers = {"r"}
  Tasks = {t1, t2}
  MaxRelation = 2
  MaxAccount = 3
  PageLimits = {0, 1}
  Nanoids = {"a", "b"}
  Usernames = {"n1", "n2"}
  BaseUrls = {"u1", "u2"}
  OutboxAccount = "a"
  OutboxLimits = {0, 1, 2}
  MaxActivity = 3
SPECIFICATION Spec
INVARIANTS
  ImagesAreServed FieldSafety LocalRelationSafety AccountPageSafety ActorPageSafety
PROPERTIES
  CommitsTheSubmittedList FieldRowsConverge
  UnblockDeletesWhatItFound WalksEndUnlessRestarted
