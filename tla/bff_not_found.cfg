SPECIFICATION Spec
CONSTANTS
  ring = ring
  bike = bike
  Gifts = {ring, bike}
  Quantities = {1, 3}
  Prices = {5, 28}
  Gone = Gone
  NoOrder = NoOrder
  Rows <- MCRows
  Routed = FALSE
  CallTimeout = 2
  Deadline = 6
  MaxChanges = 2
  MaxFaults = 0
INVARIANTS
  NotFoundMeansAbsent
CHECK_DEADLOCK FALSE
