SPECIFICATION BackgroundSpec
CONSTANTS
  w = w
  mail = mail
  event = event
  t1 = t1
  Endpoints = {w}
  Email = mail
  Events = {event}
  MaxAttempts = 1
  MaxRequeues = 0
  Targets = {t1}
  MaxRevision = 2
  MaxProbes = 2
  k1 = k1
  k2 = k2
  Keys = {k1, k2}
  Dated = {k1}
  NoKey = NoKey
  MaxOthers = 0
INVARIANT VerifiedWasProbed
CHECK_DEADLOCK FALSE
