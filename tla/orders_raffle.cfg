CONSTANTS
  o1 = o1
  g1 = g1
  g2 = g2
  g3 = g3
  c1 = c1
  c2 = c2
  ann = ann
  bob = bob
  d1 = d1
  h1 = h1
  OrderSvc = OrderSvc
  Notifier = Notifier
  NoMsg = NoMsg
  Orders = {o1}
  Gifts = {g1, g2, g3}
  Catalogs = {c1}
  ItemsOf <- MCBothGifts
  MaxFaults = 1
  MaxLosses = 0
  WarmStart = FALSE
  DraftChoices = {TRUE, FALSE}
  ManualOrders = {o1}
  Users = {ann, bob}
  Owner <- MCOwner
  Draws = {d1}
  HandPicks = {h1}
  Target <- MCTarget
  Picked <- MCPicked
  Additions <- MCAddition
SPECIFICATION RaffleSpec
INVARIANTS
  NoSilentLoss
  VerdictsFollowDecisions
  RowMatchesStatus
  DrawnWinnersWereInThePool
CHECK_DEADLOCK FALSE
