CONSTANTS
  o1 = o1
  g1 = g1
  g2 = g2
  c1 = c1
  c2 = c2
  OrderSvc = OrderSvc
  Notifier = Notifier
  NoMsg = NoMsg
  Orders = {o1}
  Gifts = {g1}
  Catalogs = {c1, c2, c3, c4}
  ItemsOf <- MCItemsOf
  MaxFaults = 4
  MaxLosses = 0
  WarmStart = TRUE
  DraftChoices = {TRUE}
  ManualOrders = {}
SPECIFICATION FairSpec
INVARIANTS
  NoSilentLoss
  RetriesDuplicateNothing
PROPERTIES
  PlacedIsSettled
CHECK_DEADLOCK FALSE
