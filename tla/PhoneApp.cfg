SPECIFICATION Spec
CONSTANTS
  Systems = {"android", "ios"}
  Rooms = {1, 2}
  Page = 1
  MaxSeq = 2
  MaxTokens = 2
  None = None
INVARIANTS
  PaneIsOfOpenRoom
  UnreadIsTrue
PROPERTIES
  GoodSessionStands
