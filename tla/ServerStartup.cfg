SPECIFICATION StartupSpec
CONSTANTS
  MaxVersion = 2
  MaxStops = 2
  MaxLosses = 1
  UpgradeUnstamped = FALSE
INVARIANTS
  ServesWhole
  AcknowledgedIsKept
  TokensStand
  PinnedStands
PROPERTIES
  StopsWhenAsked
  ServesAgain
