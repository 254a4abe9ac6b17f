SPECIFICATION Spec
CONSTANTS
  MaxRooms = 2
  MaxSeq = 3
  PageLimit = 2
  Lines = {"text", "create"}
  MaxRebuilds = 0
  None = None
INVARIANTS
  StreamIsOfOpenRoom
  PaneIsOfOpenRoom
  UnreadIsTrue
PROPERTIES
  SendsKeepOrder
