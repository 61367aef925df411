SPECIFICATION FairSpec
CONSTANTS
  Seeders = {p1, p2}
  Bytes = 6
  ChunkSize = 2
  MaxThreads = 2
  WordSize = 2
  None = None
CHECK_DEADLOCK FALSE
INVARIANTS TypeOK AdvertisedIsWritten SelectionFindsPiece RarestGoFirst
PROPERTIES TransferSpec Terminates EveryChunkArrives
