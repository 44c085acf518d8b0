\* Two coldkeys: the runner's thread may be refused its connection.
SPECIFICATION BalanceSpec
CONSTANTS
  ck1 = ck1
  ck2 = ck2
  Coldkey = {ck1, ck2}
  OnHost = {ck1}
  Staked = {ck1, ck2}
  MaxClock = 2
  MaxRestart = 1
  ConnectFails = {"manual", "nightly"}
INVARIANTS
  RefusedOnlyInFlight
CHECK_DEADLOCK FALSE
