CONSTANTS
  o1 = o1
  g1 = g1
  g2 = g2
  c1 = c1
  c2 = c2
  OrderSvc = OrderSvc
  Notifier = Notifier
  NoMsg = NoMsg
  Orders = {o1}
  Gifts = {g1}
  Catalogs = {c1, c2}
  ItemsOf <- MCItemsOf
  MaxFaults = 1
  MaxLosses = 1
  WarmStart = TRUE
  DraftChoices = {TRUE}
  ManualOrders = {o1}
SPECIFICATION Spec
SYMMETRY Replicas
INVARIANTS
  TypeOK
  NoSilentLoss
  SeenAccounted
  VerdictsFollowDecisions
  RowMatchesStatus
  PoolIsJustified
PROPERTIES
  ImplementsOutcome
CHECK_DEADLOCK FALSE
