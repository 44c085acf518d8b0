\* Two actions of any kind on two wallets; either process may die once.
SPECIFICATION Spec
CONSTANTS
  treasury = treasury
  member = member
  tournament = tournament
  h1 = h1
  Conn = {c1, c2}
  Backlog = 0
  Wallet <- MCWallet
  Outsider <- MCOutsider
  Destination = tournament
  Parent = treasury
  Roster <- MCWallet
  Fee <- MCFee
  MaxTransfer = 3
  DailyCap = 2
  Reserve = 1
  Hotkey = {}
  Owner <- MCNoOwner
  Registered = {}
  InitialFree <- MCFree
  InitialStake <- MCNoStake
  ChainFee = 0
  Asked = {}
  MaxDay = 0
  MaxCrash = 1
  KnownColdkey <- MCWallet
  Treasury = treasury
  TrackerFee <- MCTrackerFee
  Basket <- MCBasket
  Gift = {1}
  MaxTrackerCrash = 1
SYMMETRY Symmetry
INVARIANTS
  PendingShowsOnCard
  EvidenceBeforeMoney
  OkRowHoldsWhatMoved
  UnflaggedFailureIsExplained
PROPERTIES
  ImplementsLedger
  ClosedRowsAreFinal
CHECK_DEADLOCK FALSE
