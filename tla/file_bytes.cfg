SPECIFICATION Spec
CONSTANTS
  x = x
  Texts = {x}
  Small = 6
  Large = 32
  Files <- SmallFilesLargeTexts
  ChunkSize = 3
  MaxInt = 11
CHECK_DEADLOCK FALSE
INVARIANTS TypeOK StaysInPlace WhatArrives TextIsVerified
