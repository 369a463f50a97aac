SPECIFICATION Spec
CONSTANTS
  ring = ring
  bike = bike
  ann = ann
  bob = bob
  b1 = b1
  b2 = b2
  d1 = d1
  d2 = d2
  h1 = h1
  e1 = e1
  x1 = x1
  Gifts = {ring, bike}
  Users = {ann, bob}
  Buyers = {b1, b2}
  UserOf <- MCUserOf
  Basket <- MCApartBasket
  DraftBuyers = {b1}
  Stock <- MCPlenty
  Seeded = {ring, bike}
  Draws = {d1, d2}
  HandPicks = {h1}
  Edits = {e1}
  Deletions = {}
  Target <- MCApartTarget
  Picked <- MCPicked
  EditQuantities <- MCQuantities
  MaxRemovals = 1
  MaxFaults = 1
  MaxSqlFaults = 1
INVARIANTS
  StoreTypeOK
  DrawnWinnersHadTickets
  MailsMatchWinners
  RaffledGiftsAreLeftAlone
  FinalOrdersStand
CHECK_DEADLOCK FALSE
