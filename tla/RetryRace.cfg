\* A manual retry and the retry worker repair the same target.
SPECIFICATION FairSpec

CONSTANTS
  Targets = {t1}
  NeedsPassword = {t1}
  NoDisable = {}
  NoTarget = NoTarget
  Requests = {"update", "retry", "scan"}
  Starts = {"established"}
  Outcomes = {"ok", "fail"}
  MaxOps = 2
  MaxPwd = 1
  MaxCalls = 2

PROPERTIES
  FailedRecovers

\* The system may rest: no request is fair.
CHECK_DEADLOCK FALSE
