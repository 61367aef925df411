SPECIFICATION ReliableSpec
CONSTANTS
  Seeders = {p1, p2}
  Bytes = 5
  ChunkSize = 2
  MaxThreads = 2
  WordSize = 2
  None = None
CHECK_DEADLOCK FALSE
INVARIANTS DownloadsAreShareable
