\* Assignment profiles, found accounts, the second factor and the API.
SPECIFICATION AccessSpec
CONSTANTS
  carol = carol
  c1 = c1
  retryKey = retryKey
  work1 = work1
  work2 = work2
  key1 = key1
  t1 = t1
  t2 = t2
  v1 = v1
  v2 = v2
  Names = {carol}
  MaxApprovals = 2
  Creds = {c1}
  ApiKeys = {retryKey}
  Payloads = {work1, work2}
  NoResponse = NoResponse
  RateWindow = 2
  RateLimit = 2
  Retention = 2
  LastTick = 4
  MaxBegun = 2
  Passkeys = {key1}
  Codes = {1}
  LastStep = 2
  MaxSecrets = 2
  MaxSets = 2
  MaxVersion = 2
  AssignTargets = {t1, t2}
  Profiles = {v1, v2}
  NoProfile = NoProfile
  MaxApplications = 2
INVARIANTS
  FindingsAreSound
  LiveCredentials
  RateBound
  ReplayIsFirst
  CodesServeOnce
  NoOrphanRecoveryCodes
  VerifiedIsCurrent
  IntentsMatchAssigned
PROPERTIES
  DiscoveryRespectsDecisions
  OncePerRetention
  ApplicationKeeps
\* The clocks and the requests are bounded.
CHECK_DEADLOCK FALSE
