CONSTANTS
  m1 = m1
  m2 = m2
  NoAsk = NoAsk
  Managers = {m1, m2}
  GiftNames = {"bike", "doll"}
  CategoryNames = {"sport", "kids"}
  DonorNames = {"dana"}
  MaxChanges = 5
  MaxFaults = 1
SPECIFICATION Spec
SYMMETRY Colleagues
INVARIANTS
  AdminTypeOK
  TwinsHaveACause
PROPERTIES
  AddedGiftsAreListed
CHECK_DEADLOCK FALSE
