SPECIFICATION FairSpec
CONSTANTS
  MaxRooms = 2
  MaxSeq = 1
  PageLimit = 1
  Lines = {"text", "help"}
  MaxRebuilds = 1
  None = None
INVARIANTS
  NeverUnwatched
PROPERTIES
  WatchedAgain
