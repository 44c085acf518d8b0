\* Two requests of any kind, an unstake of three hotkeys (one not registered) among them; one midnight, one crash.
SPECIFICATION SignerSpec
CONSTANTS
  treasury = treasury
  member = member
  poor = poor
  unlisted = unlisted
  tournament = tournament
  stranger = stranger
  h1 = h1
  h2 = h2
  h3 = h3
  Conn = {c1, c2}
  Backlog = 0
  Wallet <- MCWallet
  Outsider <- MCOutsider
  Destination = tournament
  Parent = treasury
  Roster <- MCRoster
  Fee <- MCFee
  MaxTransfer = 3
  DailyCap = 2
  Reserve = 2
  Hotkey <- MCHotkeys
  Owner <- MCOwner
  Registered <- MCRegistered
  InitialFree <- MCFree
  InitialStake <- MCStake
  ChainFee = 1
  Asked <- MCRequests
  MaxDay = 1
  MaxCrash = 1
SYMMETRY Connections
INVARIANTS
  OkMeansMoved
  ClassifiedFailureMovedNothing
  SpendWithinCap
  BookedWithinCap
  CleanUnstakeIsComplete
PROPERTIES
  TeamFundsFallOnlyByPayment
  SweptWalletKeepsReserve
CHECK_DEADLOCK FALSE
