SPECIFICATION Spec
CONSTANTS
  lobby = lobby
  den = den
  DEN = DEN
  hall = hall
  Handlers = {h1, h2}
  Names = {lobby, den, DEN, hall}
  Fold <- MCFold
  Lobby = lobby
  MaxRooms = 2
  MaxLimit = 2
  Limits = {3}
  MaxSeq = 3
  MaxRebuilds = 1
  None = None
SYMMETRY Alike
INVARIANTS
  TypeOK
  OneRoomPerName
  AnswersTrue
  PagesStand
PROPERTIES
  SeqNeverRegresses
  CreatesAtomically
