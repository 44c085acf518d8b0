\* Two coldkeys: a button and the nightly job.
SPECIFICATION BalanceSpec
CONSTANTS
  ck1 = ck1
  ck2 = ck2
  Coldkey = {ck1, ck2}
  OnHost = {ck1}
  Staked = {ck1, ck2}
  MaxClock = 2
  MaxRestart = 1
  ConnectFails = {"manual", "nightly"}
PROPERTIES
  ClickAtNightIsRefused
CHECK_DEADLOCK FALSE
