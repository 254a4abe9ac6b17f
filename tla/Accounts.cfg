SPECIFICATION Spec
CONSTANTS
  alice = alice
  ALICE = ALICE
  bob = bob
  carol = carol
  Handlers = {h1, h2}
  Names = {alice, ALICE, bob, carol}
  Fold <- MCFold
  Passwords = {p1, p2}
  MaxAccounts = 2
  None = None
SYMMETRY Alike
INVARIANTS
  OneAccountPerName
  AnswersTrue
  TokensEarned
PROPERTIES
  RegistersAtomically
