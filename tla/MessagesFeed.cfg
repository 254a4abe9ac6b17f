SPECIFICATION FairSpec
CONSTANTS
  PageLimit = 2
  MaxLimit = 3
  Interval = 2
  MaxSeq = 5
  None = None
INVARIANTS
  CursorCovers
  ShortPageIsTheEnd
  ResumesAfter
PROPERTIES
  DeliversInOrder
  EventuallyDelivered
