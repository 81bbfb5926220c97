SPECIFICATION MCSpec
CONSTANTS
  Rooms <- MCRooms
  Messages <- MCMessages
  MaxRequests = 3
  MaxChunks = 4
  Batch = 2
INVARIANTS  OwnAnswerInOrder
PROPERTY RunReturns
CHECK_DEADLOCK FALSE
