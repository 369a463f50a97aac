CONSTANTS
  r1 = r1
  r2 = r2
  r3 = r3
  r4 = r4
  r5 = r5
  r6 = r6
  low = low
  mixed = mixed
  other = other
  p1 = p1
  p2 = p2
  p3 = p3
  Requests = {r1, r2, r3, r4, r5, r6}
  Spelling <- MCSpelling
  Address <- MCAddress
  Password <- MCPassword
  Malformed = {r6}
  Unstorable = {r5}
  MaxFaults = 2
  MaxCrashes = 1
SPECIFICATION Spec
INVARIANTS
  RegistrationTypeOK
  RegisteredOwnsAccount
  ErrorsAreTrue
  RegistrationGivesNoToken
CHECK_DEADLOCK FALSE
