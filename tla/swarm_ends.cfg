SPECIFICATION FairSpec
CONSTANTS
  x1 = x1
  Clients = {x1, x2}
  Groups = {g1}
  Destinations = {d}
  Chunks = {1}
  Owned <- OneOwner
  MaxCommands = 4
  None = None
CHECK_DEADLOCK FALSE
PROPERTIES EveryDownloadEnds
