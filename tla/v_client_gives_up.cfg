\* Two actions on the member's wallet; nothing crashes.
SPECIFICATION Spec
CONSTANTS
  treasury = treasury
  member = member
  tournament = tournament
  h1 = h1
  Conn = {c1, c2}
  Backlog = 0
  Wallet <- MCWallet
  Outsider <- MCOutsider
  Destination = tournament
  Parent = treasury
  Roster <- MCWallet
  Fee <- MCFee
  MaxTransfer = 3
  DailyCap = 2
  Reserve = 1
  Hotkey = {}
  Owner <- MCNoOwner
  Registered = {}
  InitialFree <- MCFree
  InitialStake <- MCNoStake
  ChainFee = 0
  Asked = {}
  MaxDay = 0
  MaxCrash = 0
  KnownColdkey = {member}
  Treasury <- NoAddress
  TrackerFee <- MCTrackerFee
  Basket <- MCOneBasket
  Gift = {1}
  MaxTrackerCrash = 0
PROPERTIES
  NoRetryWhileFirstRuns
CHECK_DEADLOCK FALSE
