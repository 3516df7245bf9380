\* Every request and fault on one target.
SPECIFICATION Spec

CONSTANTS
  Targets = {t1}
  NeedsPassword = {t1}
  NoDisable = {}
  NoTarget = NoTarget
  Requests = {"update", "disable", "reset", "delete", "restore", "purge", "retry", "login", "password", "keep", "expire", "scan", "probe", "restart"}
  Starts = {"established", "created"}
  Outcomes = {"ok", "fail", "lost", "invalid"}
  MaxOps = 3
  MaxPwd = 2
  MaxCalls = 2

INVARIANTS
  TemporaryStaysLocal
  FailedIsScheduled
  DisabledIsOff
PROPERTIES
  PasswordNeverRollsBack
  SucceededStays
  KeepsPromise

\* The system may rest: no request is fair.
CHECK_DEADLOCK FALSE
