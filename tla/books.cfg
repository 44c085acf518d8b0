\* Three kinds of behaviour, each with two hotkeys and up to two settlements.
SPECIFICATION MCSpec
CONSTANTS
  h1 = h1
  h2 = h2
  k1 = k1
  k2 = k2
  ana = ana
  budi = budi
  Handler = {h1, h2}
  Hotkey = {k1, k2}
  Person = {ana, budi}
  Prices = {10}
  NoiseFloor = 4
  Distributions = {10}
  Salaries = {5}
  MaxPayout = 10
  MaxSnapshots = 2
  MaxSettlements = 2
  MaxPayouts = 1
  MaxUndone = 14
  MaxRestart = 1
  Teams <- MCTeams
SYMMETRY MCSymmetry
INVARIANTS
  WholeOnDisk
  EmissionIsConserved
  PagesAgree
  OverdrawnByOthersAtMost
  NoSnapshotIsForgotten
  ArchiveIsFrozen
CHECK_DEADLOCK FALSE
