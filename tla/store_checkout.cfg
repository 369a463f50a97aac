SPECIFICATION SalesFairSpec
CONSTANTS
  ring = ring
  bike = bike
  ann = ann
  bob = bob
  b1 = b1
  b2 = b2
  d1 = d1
  d2 = d2
  h1 = h1
  e1 = e1
  x1 = x1
  Gifts = {ring, bike}
  Users = {ann, bob}
  Buyers = {b1, b2}
  UserOf <- MCUserOf
  Basket <- MCBasket
  DraftBuyers = {b1}
  Stock <- MCStock
  Seeded = {ring, bike}
  Draws = {}
  HandPicks = {}
  Edits = {e1}
  Deletions = {x1}
  Target <- MCTarget
  Picked <- MCPicked
  EditQuantities <- MCSigned
  MaxRemovals = 0
  MaxFaults = 1
  MaxSqlFaults = 1
  Readers = {r1}
  NoEntry = NoEntry
  MaxAge = 3
  MaxIdle = 2
INVARIANTS
  NoOversell
  NoTicketIsLost
  OkMeansBought
  DeletedGiftsWereUnsold
  SummariesLagBehind
PROPERTIES
  CacheSettles
CHECK_DEADLOCK FALSE
