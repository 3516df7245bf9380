SPECIFICATION FairBackgroundSpec
CONSTANTS
  w = w
  mail = mail
  event = event
  t1 = t1
  Endpoints = {w}
  Email = mail
  Events = {event}
  MaxAttempts = 3
  MaxRequeues = 2
  Targets = {t1}
  MaxRevision = 2
  MaxProbes = 2
  k1 = k1
  k2 = k2
  Keys = {k1, k2}
  Dated = {k1}
  NoKey = NoKey
  MaxOthers = 1
INVARIANTS
  QueueIsTrue
  RevocationIsPending
PROPERTIES
  DeliveryEnds
  FailureHeals
  RevokedLeaves
  FailedRotationKeepsOld
\* The background work may stop: no event, no failed check, no change of keys.
CHECK_DEADLOCK FALSE
