\* Price cache, token bucket, login, Fund arithmetic, snapshots and balances, one at a time; bounds as the README gives them.
SPECIFICATION AloneSpec
CONSTANTS
  t1 = t1
  t2 = t2
  t3 = t3
  b1 = b1
  ana = ana
  budi = budi
  s1 = s1
  s2 = s2
  k1 = k1
  k2 = k2
  k3 = k3
  k4 = k4
  h1 = h1
  h2 = h2
  interval = interval
  initial = initial
  ck1 = ck1
  ck2 = ck2
  MaxTime = 5
  Reader = {t1, t2, t3}
  TTL = 2
  MaxFetch = 2
  Caller = {t1, t2, t3}
  Capacity = 2
  Refill = 2
  MaxRetries = 1
  Backoff = 1
  LimitBackoff = 3
  MaxStepBack = 1
  User = {ana, budi}
  Nobody = nobody
  Secret = {s1, s2}
  NoSecret = nosecret
  Browser = {b1}
  Configs <- MCConfigs
  MaxFailures = 2
  Window = 2
  Session = 3
  MaxStarts = 1
  Earner = {k1, k2, k3, k4}
  Person = {1, 2, 3}
  Owner <- MCOwner
  Emissions <- MCEmissions
  Threshold = 10
  Amounts <- MCAmounts
  Hotkey = {h1, h2}
  Job = {interval, initial}
  OnceJob = initial
  NoKey = none
  MaxSnapshots = 2
  MaxCrash = 1
  Coldkey = {ck1, ck2}
  OnHost = {ck1}
  Staked = {ck1, ck2}
  MaxClock = 2
  MaxRestart = 1
  ConnectFails = {"manual", "nightly"}
INVARIANTS
  ServedIsFresh
  CallsKeepTheRate
  SleepersTakeTurns
  ThrottleHolds
  ReachedLoggedIn
  LinesAddUp
  SharesAreFair
  StatusTellsRows
  NoRowIsWrittenTwice
  CardsFollowTheRuns
  FiguresAreTrue
  RefusedInFlightOrLeaked
PROPERTIES
  ImplementsTable
  SnapshotsAreClosed
  RunnerIsFreed
CHECK_DEADLOCK FALSE
