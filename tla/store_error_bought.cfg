SPECIFICATION Spec
CONSTANTS
  ring = ring
  bike = bike
  ann = ann
  bob = bob
  b1 = b1
  b2 = b2
  d1 = d1
  d2 = d2
  h1 = h1
  e1 = e1
  x1 = x1
  Gifts = {ring}
  Users = {ann, bob}
  Buyers = {b1, b2}
  UserOf <- MCUserOf
  Basket <- MCRingBasket
  DraftBuyers = {}
  Stock <- MCPlenty
  Seeded = {ring}
  Draws = {}
  HandPicks = {}
  Edits = {}
  Deletions = {}
  Target <- MCTarget
  Picked <- MCPicked
  EditQuantities <- MCQuantities
  MaxRemovals = 0
  MaxFaults = 1
  MaxSqlFaults = 0
INVARIANTS
  ErrorMeansNotBought
CHECK_DEADLOCK FALSE
