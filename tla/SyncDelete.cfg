\* Deletion, restore and purge on two targets, with crashes, without retries.
SPECIFICATION Spec

CONSTANTS
  Targets = {t1, t2}
  NeedsPassword = {t1, t2}
  NoDisable = {}
  NoTarget = NoTarget
  Requests = {"update", "delete", "restore", "purge", "restart"}
  Starts = {"established"}
  Outcomes = {"ok", "fail", "lost"}
  MaxOps = 4
  MaxPwd = 3
  MaxCalls = 2

SYMMETRY TargetSymmetry
INVARIANTS
  DeletedMeansGone
PROPERTIES
  RemovedOnlyWhenWanted

\* The system may rest: no request is fair.
CHECK_DEADLOCK FALSE
