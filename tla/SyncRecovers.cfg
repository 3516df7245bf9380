\* What must eventually happen to a new account on three targets and to an established one on its only target.
SPECIFICATION RecoverySpec

CONSTANTS
  t1 = t1
  t2 = t2
  t3 = t3
  Targets = {t1, t2, t3}
  Lasting = t3
  NeedsPassword = {t1, t2}
  NoDisable = {}
  NoTarget = NoTarget
  Requests = {"update", "delete", "login", "password", "scan"}
  Starts = {"created", "established"}
  Outcomes = {"ok", "fail", "lost"}
  MaxOps = 3
  MaxPwd = 2
  MaxCalls = 2

PROPERTIES
  ReplacementArrives
  DeletionCompletes
  HealsByItself

\* The system may rest: no request is fair.
CHECK_DEADLOCK FALSE
