\* A retry that was queued before a deletion was requested.
SPECIFICATION Spec

CONSTANTS
  Targets = {t1, t2}
  NeedsPassword = {t1, t2}
  NoDisable = {}
  NoTarget = NoTarget
  Requests = {"update", "delete", "scan"}
  Starts = {"established"}
  Outcomes = {"ok", "fail"}
  MaxOps = 2
  MaxPwd = 1
  MaxCalls = 2

SYMMETRY TargetSymmetry
INVARIANTS
  DeletedMeansGone

\* The system may rest: no request is fair.
CHECK_DEADLOCK FALSE
