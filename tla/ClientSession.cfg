SPECIFICATION FairSessionSpec
CONSTANTS
  Users = {alice, bob}
  Calls = {c1, c2}
  Validity = 1
  MaxTime = 2
  MaxSecrets = 1
  ForgetsIfCurrent = TRUE
  None = None
INVARIANTS
  RefusalIsFinal
PROPERTIES
  GoodSessionKept
  DeadSessionNoticed
