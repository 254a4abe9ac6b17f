SPECIFICATION Spec
CONSTANTS
  Calls = {c1, c2}
  Names = {"ada", "bob"}
  User = "ada"
  MaxAccounts = 2
  MaxRooms = 2
  MaxTokens = 2
  None = None
CONSTANT Asks <- MCAsks
INVARIANTS ExpiredMeansForgotten UnreadableHasACause
PROPERTIES CallsAreSettled
CHECK_DEADLOCK FALSE
