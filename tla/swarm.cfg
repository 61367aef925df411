SPECIFICATION Spec
CONSTANTS
  x1 = x1
  Clients = {x1, x2, x3}
  Groups = {g1, g2}
  Destinations = {d}
  Chunks = {1}
  Owned <- OneOwner
  MaxCommands = 3
  None = None
SYMMETRY Symmetry
CHECK_DEADLOCK FALSE
INVARIANTS TypeOK ListedHaveEntries OffersAreGenuine VerifiedIsShared MismatchHasCause
