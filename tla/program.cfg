SPECIFICATION FairSpec
CONSTANTS
  Namespace = {"default", "zoo"}
  Programs <- MCPrograms
  Callable = {"Create", "Update", "Delete"}
  MaxChanges = 4
INVARIANTS  OnlyWhereAsked
PROPERTIES LatestIsReconciled GoneIsDropped
CHECK_DEADLOCK FALSE
