\* One run, of a transfer or an unstake, up to four questions (the last two may be passwords).
SPECIFICATION FairPtySpec
CONSTANTS
  MaxAsk = 4
INVARIANTS
  AnswersFit
  NoStall
PROPERTIES
  ImplementsRun
  DriverEnds
CHECK_DEADLOCK FALSE
