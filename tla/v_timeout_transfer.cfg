\* One request; no crash, no midnight.
SPECIFICATION SignerSpec
CONSTANTS
  treasury = treasury
  member = member
  poor = poor
  unlisted = unlisted
  tournament = tournament
  stranger = stranger
  h1 = h1
  h2 = h2
  h3 = h3
  Conn = {c1}
  Backlog = 0
  Wallet <- MCWallet
  Outsider <- MCOutsider
  Destination = tournament
  Parent = treasury
  Roster <- MCRoster
  Fee <- MCFee
  MaxTransfer = 3
  DailyCap = 2
  Reserve = 2
  Hotkey = {}
  Owner <- MCNoOwner
  Registered = {}
  InitialFree <- MCFree
  InitialStake <- MCNoStake
  ChainFee = 1
  Asked <- MCFewRequests
  MaxDay = 0
  MaxCrash = 0
INVARIANTS
  PlainFailureMovedNothing
CHECK_DEADLOCK FALSE
