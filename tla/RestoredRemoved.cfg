SPECIFICATION RestoredSpec
CONSTANTS
  ann = ann
  bob = bob
  gitea = gitea
  Accounts = {ann, bob}
  Populations <- BothPopulations
  Coroutines = {"bulk1", "bulk2", "selection", "governance", "repair"}
  Runners = {"bulk1", "bulk2"}
  Outcomes = {"succeeded", "failed"}
  Disturbances <- AllMixes
  MaxRequests = 3
  Uploads <- TwoRows
  Selections <- TwoAccounts
  LastDay = 2
  MaxReviews = 1
  MaxSaves = 1
  ReminderDays = 1
  Schedules <- FourSchedules
  Pairs <- OneTarget
  Scopes <- AllOrOne
  Seen <- FewSnapshots
  CanDo <- ReadsAll
  MaxAttempts = 2
  ScalarField = {"status"}
  Memberships = {"m"}
  PublicKeys = {"k"}
INVARIANT RemovalIsConfirmed
CHECK_DEADLOCK FALSE
