SPECIFICATION Spec
CONSTANTS
  Keys = {k1}
  Tokens = {t1}
  Blank = Blank
  Spaces = Spaces
  MaxEdits = 1
INVARIANTS
  FocusIsShown
  ConnectsAsShown
  RefusedWithinReach
  OpensOnItsFlags
CHECK_DEADLOCK FALSE
