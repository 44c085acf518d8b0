\* Two actions, sweeps or unstakes, on the member's wallet under fair scheduling; either process may die once.
SPECIFICATION FairSpec
CONSTANTS
  treasury = treasury
  member = member
  tournament = tournament
  h1 = h1
  Conn = {c1, c2}
  Backlog = 0
  Wallet <- MCWallet
  Outsider <- MCOutsider
  Destination = tournament
  Parent = treasury
  Roster <- MCWallet
  Fee <- MCFee
  MaxTransfer = 3
  DailyCap = 2
  Reserve = 1
  Hotkey = {h1}
  Owner <- MCOwner
  Registered = {h1}
  InitialFree <- MCFree
  InitialStake <- MCStake
  ChainFee = 0
  Asked = {}
  MaxDay = 0
  MaxCrash = 1
  KnownColdkey = {member}
  Treasury = treasury
  TrackerFee <- MCTrackerFee
  Basket = {}
  Gift = {}
  MaxTrackerCrash = 1
PROPERTIES
  PendingRowsResolve
CHECK_DEADLOCK FALSE
