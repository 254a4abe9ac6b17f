SPECIFICATION Spec
CONSTANTS
  Keys = {k1}
  Tokens = {t1}
  Blank = Blank
  Spaces = Spaces
  MaxEdits = 1
INVARIANTS
  TwoTrustsAreRefused
CHECK_DEADLOCK FALSE
