\* A password is changed while a session with the one before it is under way.
SPECIFICATION Spec

CONSTANTS
  Targets = {t1, t2}
  NeedsPassword = {t1, t2}
  NoDisable = {}
  NoTarget = NoTarget
  Requests = {"update", "password"}
  Starts = {"created"}
  Outcomes = {"ok"}
  MaxOps = 3
  MaxPwd = 3
  MaxCalls = 2

PROPERTIES
  StagedUntilHeld

\* The system may rest: no request is fair.
CHECK_DEADLOCK FALSE
