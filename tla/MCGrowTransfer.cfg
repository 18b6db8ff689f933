SPECIFICATION FairSpec
CONSTANTS
  Address <- MCAddress
  Polls = 14
  Bodies <- MCBodies
  MaxCommands = 3
  MaxLost = 1
INVARIANTS TypeOK ReturnedLength WholeAnswer
PROPERTIES AnswerRecognised ImplementsLink ExchangeIsOutcome TransferReturns
CHECK_DEADLOCK FALSE
