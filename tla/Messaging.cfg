CONSTANTS
  Call = {c1, c2, c3}
  Length <- MCLength
  MAX_MSG_LENGTH = 2
  MAXPENDING = 1
  MaxTroubles = 1
  NoCall = NoCall
SPECIFICATION FairSpec
CHECK_DEADLOCK FALSE
INVARIANTS KeepsMessagesWhole
PROPERTIES EveryoneReturns
