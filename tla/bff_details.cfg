SPECIFICATION FairSpec
CONSTANTS
  ring = ring
  bike = bike
  Gifts = {ring, bike}
  Quantities = {1, 3}
  Prices = {5, 28}
  Gone = Gone
  NoOrder = NoOrder
  Rows <- MCRows
  Routed = TRUE
  CallTimeout = 2
  Deadline = 6
  MaxChanges = 2
  MaxFaults = 1
INVARIANTS
  BffTypeOK
  AnswersAreComplete
  BlameIsDeserved
PROPERTIES
  RequestsEnd
CHECK_DEADLOCK FALSE
