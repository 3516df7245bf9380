\* The requests decide_transition rejects while an operation runs, on two targets with different connectors: t1 needs a password to create an account, t2 cannot disable one.
SPECIFICATION Spec

CONSTANTS
  Targets = {t1, t2}
  NeedsPassword = {t1}
  NoDisable = {t2}
  NoTarget = NoTarget
  Requests = {"update", "disable", "reset", "login", "password", "keep", "expire"}
  Starts = {"established", "created"}
  Outcomes = {"ok", "fail", "lost", "invalid"}
  MaxOps = 3
  MaxPwd = 3
  MaxCalls = 2

INVARIANTS
  OneUnfinished
  QuietMeansSettled

\* The system may rest: no request is fair.
CHECK_DEADLOCK FALSE
