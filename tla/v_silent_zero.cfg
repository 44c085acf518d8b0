\* Two coldkeys: btcli may print nothing at the stake list of a wallet that holds stake.
SPECIFICATION BalanceSpec
CONSTANTS
  ck1 = ck1
  ck2 = ck2
  Coldkey = {ck1, ck2}
  OnHost = {ck1}
  Staked = {ck1, ck2}
  MaxClock = 2
  MaxRestart = 1
  ConnectFails = {"manual", "nightly"}
INVARIANTS
  ZeroIsZero
CHECK_DEADLOCK FALSE
