SPECIFICATION Spec
CONSTANTS
  toys = toys
  home = home
  g1 = g1
  g2 = g2
  c1 = c1
  u1 = u1
  x1 = x1
  Names = {toys, home}
  GiftAdds = {g1, g2}
  PlainAdds = {c1}
  Updates = {u1}
  Deletes = {x1}
  Place <- MCPlace
  Wanted <- MCWanted
  Target <- MCTarget
  NewName <- MCNewName
  MaxFailures = 1
INVARIANTS
  GiftsAreFiledAsAsked
  SomeAddSucceeds
  AddedGiftsExist
  DeletedComesBackOnlyByUpdate
CHECK_DEADLOCK FALSE
