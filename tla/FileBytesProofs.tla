--------------------------- MODULE FileBytesProofs ---------------------------
(***************************************************************************)
(* Theorems about the bytes of a file, for every file, every CHUNK_SIZE    *)
(* and every range of the ints.                                            *)
(***************************************************************************)
EXTENDS FileBytes, SequenceTheorems, TLAPS

----------------------------------------------------------------------------
(* Arithmetic of sizes and chunks.                                         *)

LEMMA Constants == ChunkSize \in Nat /\ ChunkSize >= 1 /\ MaxInt \in Nat /\ ChunkSize <= MaxInt
  BY FileBytesAssumption

LEMMA Division ==
  \A a \in Int, b \in Nat \ {0} :
    /\ a \div b \in Int
    /\ a % b \in 0 .. b - 1
    /\ a = ((a \div b) * b) + (a % b)
  BY SMT

LEMMA Products ==
  /\ \A a, b \in Int : a * b \in Int
  /\ \A a, b \in Int, n \in Nat : a <= b => a * n <= b * n
  /\ \A a, b \in Int, n \in Nat : a < b => (a * n) + n <= b * n
  /\ \A a, b \in Int, n \in Nat : (a - 1) * n = (a * n) - n /\ (a + 1) * n = (a * n) + n
<1>1. \A a, b \in Int : a * b \in Int
  BY SMT
<1>2. \A a, b \in Int, n \in Nat : a <= b => a * n <= b * n
  BY SMT
<1>3. \A a, n \in Int : (a - 1) * n = (a * n) - n /\ (a + 1) * n = (a * n) + n
  BY SMT
<1>4. ASSUME NEW a \in Int, NEW b \in Int, NEW n \in Nat, a < b
      PROVE  (a * n) + n <= b * n
  <2>1. (a + 1) * n <= b * n
    BY <1>2, <1>4
  <2>2. QED
    BY <1>3, <2>1
<1>5. QED
  BY <1>1, <1>2, <1>3, <1>4

\* A size that is too large for an int becomes a smaller one.
LEMMA AsIntIs ==
  ASSUME NEW n \in Nat
  PROVE  /\ AsInt(n) \in Ints
         /\ AsInt(n) <= n
         /\ n <= MaxInt => AsInt(n) = n
<1> DEFINE m == MaxInt + 1
           a == n + m
           b == 2 * m
           q == a \div b
           r == a % b
<1>1. m \in Nat /\ m >= 1 /\ b \in Nat \ {0} /\ a \in Nat /\ b = m + m /\ a = n + m
  BY Constants
<1>2. AsInt(n) = r - m
  BY <1>1, Constants DEF AsInt
<1>3. Ints = -m .. m - 1 /\ MaxInt = m - 1
  BY Constants DEF Ints
<1> HIDE DEF a, b, m
<1>4. q \in Int /\ r \in 0 .. b - 1 /\ a = (q * b) + r
  <2>1. a \in Int /\ b \in Nat \ {0}
    BY <1>1
  <2>2. QED
    BY <2>1, Division
<1> HIDE DEF q, r
<1>5. q >= 0
  <2>1. q < 0 => (q * b) + b <= 0 * b
    BY <1>1, <1>4, Products
  <2>2. 0 * b = 0
    BY <1>1
  <2>3. q * b \in Int
    BY <1>1, <1>4, Products
  <2>4. QED
    BY <1>1, <1>4, <2>1, <2>2, <2>3
<1>6. q * b >= 0 /\ q * b \in Int
  <2>1. 0 * b <= q * b /\ 0 * b = 0
    BY <1>1, <1>4, <1>5, Products
  <2>2. QED
    BY <1>1, <1>4, <2>1, Products
<1>7. n < m => q * b = 0
  <2>1. 0 < q => (0 * b) + b <= q * b
    BY <1>1, <1>4, Products
  <2>2. 0 * b = 0
    BY <1>1
  <2>3. q = 0 => q * b = 0
    BY <1>1
  <2>4. QED
    BY <1>1, <1>4, <1>5, <1>6, <2>1, <2>2, <2>3
<1>8. QED
  BY <1>1, <1>4, <1>6, <1>7, <1>2, <1>3

LEMMA FileSize ==
  ASSUME NEW file \in Seq(Bytes)
  PROVE  /\ giveFileSize(file) \in Ints
         /\ giveFileSize(file) <= Len(file)
         /\ Len(file) <= MaxInt => giveFileSize(file) = Len(file)
  BY AsIntIs DEF giveFileSize

LEMMA ChunkNumbers ==
  ASSUME bytes \in Ints
  PROVE  /\ bytes \in Int
         /\ TotalChunks \in Int
         /\ TotalChunks * ChunkSize \in Int
         /\ TotalChunks * ChunkSize <= bytes + ChunkSize - 1
         /\ bytes <= TotalChunks * ChunkSize
<1>1. bytes \in Int
  BY Constants DEF Ints
<1> DEFINE a == bytes + ChunkSize - 1
<1>2. a \in Int /\ TotalChunks = a \div ChunkSize
  BY <1>1, Constants DEF TotalChunks, giveTotalChunksOfFile
<1>3. a = bytes + ChunkSize - 1
  OBVIOUS
<1> HIDE DEF a
<1>4. /\ TotalChunks \in Int
      /\ a % ChunkSize \in 0 .. ChunkSize - 1
      /\ a = (TotalChunks * ChunkSize) + (a % ChunkSize)
  BY <1>2, Constants, Division
<1>5. TotalChunks * ChunkSize \in Int
  BY <1>4, Constants, Products
<1>6. QED
  BY <1>1, <1>4, <1>5, <1>3, Constants

\* Where a chunk is: within the announced size, at an offset that is an int.
LEMMA ChunkPlaces ==
  ASSUME bytes \in Ints, NEW c \in Chunks
  PROVE  /\ c \in Nat
         /\ FirstOf(c) \in Nat
         /\ BytesWritten(c) \in 0 .. ChunkSize
         /\ FirstOf(c) + BytesWritten(c) <= bytes
         /\ FirstOf(c) + 1 <= bytes
         /\ giveFirstByteNoFromChunkNo(c) = FirstOf(c)
         /\ c # TotalChunks - 1 => BytesWritten(c) = ChunkSize /\ c < TotalChunks - 1
         /\ c = TotalChunks - 1 => BytesWritten(c) = bytes % ChunkSize
<1>1. c \in Nat /\ c < TotalChunks /\ TotalChunks \in Int
  BY ChunkNumbers DEF Chunks
<1>2. c * ChunkSize \in Nat
  <2>1. 0 * ChunkSize <= c * ChunkSize /\ c * ChunkSize \in Int /\ 0 * ChunkSize = 0
    BY <1>1, Constants, Products
  <2>2. QED
    BY <2>1
<1>3. (c * ChunkSize) + ChunkSize <= TotalChunks * ChunkSize
  BY <1>1, Constants, Products
<1>4. c * ChunkSize + 1 <= bytes
  BY <1>2, <1>3, ChunkNumbers, Constants
<1>5. giveFirstByteNoFromChunkNo(c) = FirstOf(c)
  <2>1. c * ChunkSize <= MaxInt
    BY <1>2, <1>4, ChunkNumbers, Constants DEF Ints
  <2>2. QED
    BY <1>2, <2>1, AsIntIs DEF giveFirstByteNoFromChunkNo, FirstOf
<1> DEFINE q == bytes \div ChunkSize
           r == bytes % ChunkSize
<1>6. q \in Int /\ r \in 0 .. ChunkSize - 1 /\ bytes = (q * ChunkSize) + r
  <2>1. bytes \in Int /\ ChunkSize \in Nat \ {0}
    BY ChunkNumbers, Constants
  <2>2. QED
    BY <2>1, Division
<1>7. BytesWritten(c) \in 0 .. ChunkSize
  BY <1>6, Constants DEF BytesWritten, giveLastChunkSizeOfFile
<1>8. FirstOf(c) + BytesWritten(c) <= bytes
  <2>1. CASE c = TotalChunks - 1
    <3>1. c <= q
      <4>1. q < c => (q * ChunkSize) + ChunkSize <= c * ChunkSize
        BY <1>1, <1>6, Constants, Products
      <4>2. q * ChunkSize \in Int
        BY <1>6, Constants, Products
      <4> HIDE DEF q, r
      <4>3. QED
        BY <1>1, <1>2, <1>4, <1>6, <4>1, <4>2, Constants
    <3>2. c * ChunkSize <= q * ChunkSize /\ q * ChunkSize \in Int
      BY <1>1, <1>6, <3>1, Constants, Products
    <3>3. BytesWritten(c) = r
      BY <2>1 DEF BytesWritten, giveLastChunkSizeOfFile
    <3> HIDE DEF q, r
    <3>4. QED
      BY <1>2, <1>6, <3>2, <3>3, Constants DEF FirstOf
  <2>2. CASE c # TotalChunks - 1
    <3>1. c < TotalChunks - 1
      BY <1>1, <2>2
    <3>2. (c * ChunkSize) + ChunkSize <= (TotalChunks - 1) * ChunkSize
      BY <1>1, <3>1, Constants, Products
    <3>3. (TotalChunks - 1) * ChunkSize = (TotalChunks * ChunkSize) - ChunkSize
      BY <1>1, Constants, Products
    <3>4. BytesWritten(c) = ChunkSize
      BY <2>2 DEF BytesWritten
    <3>5. QED
      BY <1>2, <3>2, <3>3, <3>4, ChunkNumbers, Constants DEF FirstOf
  <2>3. QED
    BY <2>1, <2>2
<1>9. /\ c # TotalChunks - 1 => BytesWritten(c) = ChunkSize /\ c < TotalChunks - 1
      /\ c = TotalChunks - 1 => BytesWritten(c) = bytes % ChunkSize
  BY <1>1 DEF BytesWritten, giveLastChunkSizeOfFile
<1>10. QED
  BY <1>1, <1>2, <1>4, <1>5, <1>7, <1>8, <1>9 DEF FirstOf

\* Chunks do not overlap.
LEMMA ChunksApart ==
  ASSUME bytes \in Ints, NEW c \in Chunks, NEW d \in Chunks, c # d,
         NEW i \in 1 .. BytesWritten(c)
  PROVE  ~(FirstOf(d) < FirstOf(c) + i /\ FirstOf(c) + i <= FirstOf(d) + BytesWritten(d))
<1>1. /\ c \in Nat /\ d \in Nat
      /\ FirstOf(c) \in Nat /\ FirstOf(d) \in Nat
      /\ BytesWritten(c) \in 0 .. ChunkSize /\ BytesWritten(d) \in 0 .. ChunkSize
  BY ChunkPlaces
<1>2. /\ c < d => FirstOf(c) + ChunkSize <= FirstOf(d)
      /\ d < c => FirstOf(d) + ChunkSize <= FirstOf(c)
  BY <1>1, Constants, Products DEF FirstOf
<1>3. QED
  BY <1>1, <1>2, Constants

\* The length of the file after k chunks.
LengthOf(k) ==
  IF k < TotalChunks \/ k = 0 THEN k * ChunkSize
  ELSE FirstOf(TotalChunks - 1) + (bytes % ChunkSize)

LEMMA Lengths ==
  ASSUME bytes \in Ints, TotalChunks >= 0
  PROVE  /\ LengthOf(0) = 0
         /\ \A k \in 0 .. TotalChunks : LengthOf(k) \in Nat
         /\ \A c \in Chunks : LengthOf(c) = FirstOf(c) /\ LengthOf(c + 1) = LengthOf(c) + BytesWritten(c)
         /\ \A c \in Chunks : FirstOf(c) + BytesWritten(c) <= LengthOf(TotalChunks)
<1>1. LengthOf(0) = 0
  BY Constants DEF LengthOf
<1>2. TotalChunks \in Int /\ bytes \in Int
  BY ChunkNumbers
<1>3. ASSUME NEW c \in Chunks
      PROVE  /\ LengthOf(c) = FirstOf(c)
             /\ LengthOf(c + 1) = LengthOf(c) + BytesWritten(c)
  <2>1. c \in Nat /\ c < TotalChunks /\ FirstOf(c) \in Nat
    BY <1>2, ChunkPlaces DEF Chunks
  <2>2. LengthOf(c) = FirstOf(c)
    BY <2>1 DEF LengthOf, FirstOf
  <2>3. CASE c = TotalChunks - 1
    <3>1. LengthOf(c + 1) = FirstOf(c) + (bytes % ChunkSize)
      BY <1>2, <2>1, <2>3 DEF LengthOf
    <3>2. QED
      BY <2>2, <2>3, <3>1, ChunkPlaces
  <2>4. CASE c # TotalChunks - 1
    <3>1. LengthOf(c + 1) = (c + 1) * ChunkSize
      BY <1>2, <2>1, <2>4 DEF LengthOf
    <3>2. (c + 1) * ChunkSize = (c * ChunkSize) + ChunkSize
      BY <2>1, Constants, Products
    <3>3. QED
      BY <2>2, <2>4, <3>1, <3>2, ChunkPlaces DEF FirstOf
  <2>5. QED
    BY <2>2, <2>3, <2>4
<1>4. ASSUME NEW k \in 0 .. TotalChunks
      PROVE  LengthOf(k) \in Nat
  <2>1. CASE k \in Chunks
    BY <1>3, <2>1, ChunkPlaces
  <2>2. CASE k \notin Chunks /\ k # 0
    <3>1. k = TotalChunks /\ TotalChunks - 1 \in Chunks
      BY <1>2, <2>2 DEF Chunks
    <3>2. LengthOf(k) = LengthOf(TotalChunks - 1) + BytesWritten(TotalChunks - 1)
      <4>1. (TotalChunks - 1) + 1 = TotalChunks
        BY <1>2
      <4>2. LengthOf((TotalChunks - 1) + 1)
              = LengthOf(TotalChunks - 1) + BytesWritten(TotalChunks - 1)
        BY <1>3, <3>1
      <4>3. QED
        BY <3>1, <4>1, <4>2
    <3>3. QED
      BY <1>3, <3>1, <3>2, ChunkPlaces
  <2>3. QED
    BY <1>1, <2>1, <2>2
<1>5. ASSUME NEW c \in Chunks
      PROVE  FirstOf(c) + BytesWritten(c) <= LengthOf(TotalChunks)
  <2> DEFINE last == TotalChunks - 1
  <2>1. c \in Nat /\ last \in Chunks /\ last \in Nat /\ last + 1 = TotalChunks
    BY <1>2 DEF Chunks
  <2>2. LengthOf(TotalChunks) = FirstOf(last) + BytesWritten(last)
    BY <1>3, <2>1
  <2>3. CASE c = last
    BY <2>1, <2>2, <2>3, ChunkPlaces
  <2>4. CASE c # last
    <3>1. c < last /\ BytesWritten(c) = ChunkSize
      BY <2>4, ChunkPlaces
    <3>2. FirstOf(c) + ChunkSize <= FirstOf(last)
      BY <2>1, <3>1, Constants, Products DEF FirstOf
    <3>3. /\ FirstOf(c) \in Nat /\ FirstOf(last) \in Nat
          /\ BytesWritten(last) \in 0 .. ChunkSize
      BY <2>1, ChunkPlaces
    <3> HIDE DEF last
    <3>4. QED
      BY <2>2, <3>1, <3>2, <3>3, Constants
  <2>5. QED
    BY <2>3, <2>4
<1>6. QED
  BY <1>1, <1>3, <1>4, <1>5

\* Every byte of the file that the download creates is in some chunk.
LEMMA Covered ==
  ASSUME bytes \in Ints, TotalChunks >= 0, NEW i \in 1 .. LengthOf(TotalChunks)
  PROVE  /\ \E c \in Chunks : \E j \in 1 .. BytesWritten(c) : i = FirstOf(c) + j
         /\ LengthOf(TotalChunks) <= bytes
<1>1. TotalChunks \in Nat /\ bytes \in Int /\ LengthOf(TotalChunks) \in Nat
  BY ChunkNumbers, Lengths
<1>2. TotalChunks >= 1
  BY <1>1, Lengths
<1> DEFINE last == TotalChunks - 1
<1>3. last \in Chunks /\ last \in Nat /\ last + 1 = TotalChunks
  BY <1>1, <1>2 DEF Chunks
<1>4. LengthOf(TotalChunks) = FirstOf(last) + BytesWritten(last)
  <2>1. LengthOf(last + 1) = FirstOf(last) + BytesWritten(last)
    BY <1>3, Lengths
  <2>2. QED
    BY <1>3, <2>1
<1>5. LengthOf(TotalChunks) <= bytes
  BY <1>3, <1>4, ChunkPlaces
<1> HIDE DEF last
<1> DEFINE a == i - 1
           c == a \div ChunkSize
           r == a % ChunkSize
<1>6. a \in Int /\ a >= 0 /\ a + 1 <= bytes /\ i = a + 1
  BY <1>1, <1>5
<1> HIDE DEF a
<1>7. c \in Int /\ r \in 0 .. ChunkSize - 1 /\ a = (c * ChunkSize) + r
  BY <1>6, Constants, Division
<1> HIDE DEF c, r
<1>8. c * ChunkSize \in Int
  BY <1>7, Constants, Products
<1>9. c >= 0
  <2>1. c < 0 => (c * ChunkSize) + ChunkSize <= 0 * ChunkSize
    BY <1>7, Constants, Products
  <2>2. 0 * ChunkSize = 0
    BY Constants
  <2>3. QED
    BY <1>6, <1>7, <1>8, <2>1, <2>2, Constants
<1>10. c < TotalChunks
  <2>1. TotalChunks <= c => TotalChunks * ChunkSize <= c * ChunkSize
    BY <1>1, <1>7, Constants, Products
  <2>2. QED
    BY <1>1, <1>6, <1>7, <1>8, <2>1, ChunkNumbers, Constants
<1>11. c \in Chunks
  BY <1>1, <1>7, <1>9, <1>10 DEF Chunks
<1>12. FirstOf(c) = c * ChunkSize /\ i = FirstOf(c) + (r + 1)
  BY <1>6, <1>7, <1>8, Constants DEF FirstOf
<1>13. r + 1 <= BytesWritten(c)
  <2>1. CASE c = last
    BY <1>1, <1>3, <1>4, <1>7, <1>12, <2>1, ChunkPlaces
  <2>2. CASE c # last
    BY <1>1, <1>3, <1>7, <1>11, <2>2, ChunkPlaces
  <2>3. QED
    BY <2>1, <2>2
<1>14. BytesWritten(c) \in 0 .. ChunkSize
  BY <1>11, ChunkPlaces
<1>15. r + 1 \in 1 .. BytesWritten(c)
  BY <1>7, <1>13, <1>14, Constants
<1>16. QED
  BY <1>5, <1>11, <1>12, <1>15

----------------------------------------------------------------------------
(* Buffers and write().                                                    *)

LEMMA WrittenIs ==
  ASSUME NEW file \in Seq(Bytes), NEW first \in Nat, NEW buffer \in Buffers,
         NEW n \in 0 .. ChunkSize
  PROVE  /\ Written(file, first, buffer, n) \in Seq(Bytes)
         /\ n = 0 => Written(file, first, buffer, n) = file
         /\ n > 0 => Len(Written(file, first, buffer, n))
                       = IF first + n > Len(file) THEN first + n ELSE Len(file)
         /\ \A i \in 1 .. Len(Written(file, first, buffer, n)) :
              Written(file, first, buffer, n)[i]
                = IF first < i /\ i <= first + n THEN buffer[i - first]
                  ELSE IF i <= Len(file) THEN file[i]
                  ELSE Nul
<1>1. CASE n = 0
  BY <1>1 DEF Written
<1>2. CASE n > 0
  <2> DEFINE end == IF first + n > Len(file) THEN first + n ELSE Len(file)
             result == [i \in 1 .. end |->
                          IF first < i /\ i <= first + n THEN buffer[i - first]
                          ELSE IF i <= Len(file) THEN file[i]
                          ELSE Nul]
  <2>1. end \in Nat
    BY Constants
  <2>2. ASSUME NEW i \in 1 .. end
        PROVE  (IF first < i /\ i <= first + n THEN buffer[i - first]
                ELSE IF i <= Len(file) THEN file[i]
                ELSE Nul) \in Bytes
    <3>1. first < i /\ i <= first + n => i - first \in 1 .. ChunkSize
      BY <2>1, Constants
    <3>2. buffer \in [1 .. ChunkSize -> Bytes]
      BY DEF Buffers
    <3>3. Nul \in Bytes
      BY DEF Bytes
    <3>4. i <= Len(file) => file[i] \in Bytes
      BY <2>1
    <3>5. QED
      BY <3>1, <3>2, <3>3, <3>4
  <2>3. result \in [1 .. end -> Bytes]
    BY <2>2
  <2> HIDE DEF end, result
  <2>4. result \in Seq(Bytes) /\ Len(result) = end
    BY <2>1, <2>3
  <2>5. Written(file, first, buffer, n) = result
    BY <1>2 DEF Written, result, end
  <2>6. \A i \in 1 .. end : result[i] = IF first < i /\ i <= first + n THEN buffer[i - first]
                                        ELSE IF i <= Len(file) THEN file[i]
                                        ELSE Nul
    BY DEF result
  <2>7. QED
    BY <1>2, <2>4, <2>5, <2>6 DEF end
<1>3. QED
  BY <1>1, <1>2

LEMMA ZerosIs == Zeros \in Buffers /\ \A i \in 1 .. ChunkSize : Zeros[i] = Nul
  BY DEF Zeros, Buffers, Bytes

LEMMA ReceivedIs ==
  ASSUME NEW buffer \in Buffers, NEW n \in 1 .. ChunkSize
  PROVE  /\ Received(buffer, n) \in Buffers
         /\ \A i \in 1 .. ChunkSize :
              Received(buffer, n)[i] = IF i <= n /\ InString(buffer, i) THEN buffer[i] ELSE Nul
  BY DEF Received, Buffers, Bytes

LEMMA ChunkBuffIs ==
  ASSUME source \in Seq(Bytes), bytes \in Ints, NEW c \in Chunks, NEW garbage \in Buffers
  PROVE  /\ ChunkBuff(c, garbage) \in Buffers
         /\ \A i \in 1 .. ChunkSize : FirstOf(c) + i <= Len(source) =>
              ChunkBuff(c, garbage)[i] = source[FirstOf(c) + i]
<1>1. FirstOf(c) \in Nat /\ giveFirstByteNoFromChunkNo(c) = FirstOf(c)
  BY ChunkPlaces
<1>2. ASSUME NEW i \in 1 .. ChunkSize, FirstOf(c) + i <= Len(source)
      PROVE  source[FirstOf(c) + i] \in Bytes
  BY <1>1, <1>2, Constants
<1>3. QED
  BY <1>1, <1>2 DEF ChunkBuff, Buffers

----------------------------------------------------------------------------
(* The invariant.                                                          *)

Transfers == {"fetch", "verified", "mismatched"}

\* What chunk c is like if all that was sent has arrived.
Expected(c, i) == IF Sent(c, i) THEN source[FirstOf(c) + i] ELSE Nul

SizeIsKnown ==
  phase \in Transfers \cup {"create"} => bytes = giveFileSize(source) /\ TotalChunks >= 0

\* The file grows by zeros, a chunk at a time.
FileGrows ==
  /\ phase \in {"upload", "refused", "crashed"} => disk = <<>> /\ created = 0
  /\ phase = "create" =>
       /\ created <= TotalChunks
       /\ Len(disk) = LengthOf(created)
       /\ \A i \in 1 .. Len(disk) : disk[i] = Nul
  /\ phase \in Transfers => Len(disk) = LengthOf(TotalChunks)

ChunkIsTrue(c) ==
  \A i \in 1 .. BytesWritten(c) :
    LET byte == source[FirstOf(c) + i]
        there == disk[FirstOf(c) + i]
    IN  /\ thread[c] \in {"ask", "write"} => there = Nul
        /\ thread[c] = "write" =>
             /\ outputBuffer[c][i] \in {byte, Nul}
             /\ c \notin lost => outputBuffer[c][i] = Expected(c, i)
        /\ thread[c] = "over" =>
             /\ there \in {byte, Nul}
             /\ c \notin lost => there = Expected(c, i)

ChunksAreTrue == phase \in Transfers => \A c \in Chunks : ChunkIsTrue(c)

OutcomeIsTrue ==
  /\ phase \in {"verified", "mismatched"} => \A c \in Chunks : thread[c] = "over"
  /\ phase = "mismatched" => disk # source

FInv == TypeOK /\ SizeIsKnown /\ FileGrows /\ ChunksAreTrue /\ OutcomeIsTrue

LEMMA SourceIs == ASSUME TypeOK PROVE source \in Seq(Bytes) /\ Len(source) \in Nat
  BY FileBytesAssumption DEF TypeOK

\* Of the same file, with the same size announced.
LEMMA SamePlaces ==
  ASSUME UNCHANGED <<source, bytes>>
  PROVE  /\ TotalChunks' = TotalChunks
         /\ Chunks' = Chunks
         /\ \A c : FirstOf(c)' = FirstOf(c)
         /\ \A c : BytesWritten(c)' = BytesWritten(c)
         /\ \A k : LengthOf(k)' = LengthOf(k)
         /\ \A c, i : Expected(c, i)' = Expected(c, i)
<1>1. TotalChunks' = TotalChunks /\ Chunks' = Chunks
  BY DEF TotalChunks, Chunks
<1>2. \A c : FirstOf(c)' = FirstOf(c) /\ BytesWritten(c)' = BytesWritten(c)
  BY <1>1 DEF FirstOf, BytesWritten
<1>3. \A k : LengthOf(k)' = LengthOf(k)
  BY <1>1 DEF LengthOf, FirstOf
<1>4. \A c, i : Expected(c, i)' = Expected(c, i)
  BY DEF Expected, Sent, FirstOf
<1>5. QED
  BY <1>1, <1>2, <1>3, <1>4

LEMMA InitFInv == Init => FInv
<1> SUFFICES ASSUME Init PROVE FInv
  OBVIOUS
<1>1. TypeOK
  BY FileBytesAssumption DEF Init, TypeOK, Ints
<1>2. QED
  BY <1>1
  DEF Init, FInv, SizeIsKnown, FileGrows, ChunksAreTrue, OutcomeIsTrue, Transfers

LEMMA UploadFInv == FInv /\ Upload => FInv'
<1> SUFFICES ASSUME FInv, Upload PROVE FInv'
  OBVIOUS
<1>1. source \in Seq(Bytes) /\ giveFileSize(source) \in Ints
  BY SourceIs, FileSize DEF FInv
<1>2. TypeOK'
  BY <1>1 DEF FInv, Upload, TypeOK
<1>3. bytes' \in Ints /\ bytes' = giveFileSize(source)'
  BY <1>1 DEF Upload, giveFileSize
<1>4. /\ phase' \in {"refused", "crashed", "create"}
      /\ disk' = <<>> /\ created' = 0
      /\ phase' = "create" => ~(giveTotalChunksOfFile(bytes') < 0)
  BY DEF Upload, FInv, FileGrows
<1>5. ASSUME phase' = "create" PROVE TotalChunks' >= 0 /\ LengthOf(0)' = 0
  <2>1. TotalChunks' = giveTotalChunksOfFile(bytes')
    BY DEF TotalChunks
  <2>2. giveTotalChunksOfFile(bytes') \in Int
    <3>1. bytes' \in Int /\ (bytes' + ChunkSize - 1) \in Int /\ ChunkSize \in Nat \ {0}
      BY <1>3, Constants DEF Ints
    <3>2. QED
      BY <3>1, Division DEF giveTotalChunksOfFile
  <2>3. TotalChunks' >= 0
    BY <1>4, <1>5, <2>1, <2>2
  <2>4. LengthOf(0)' = 0
    BY Constants DEF LengthOf
  <2>5. QED
    BY <2>3, <2>4
<1>6. SizeIsKnown'
  BY <1>3, <1>4, <1>5 DEF SizeIsKnown, Transfers
<1>7. FileGrows'
  BY <1>4, <1>5 DEF FileGrows, Transfers
<1>8. QED
  BY <1>2, <1>4, <1>6, <1>7 DEF FInv, ChunksAreTrue, OutcomeIsTrue, Transfers

LEMMA CreateChunkFInv == FInv /\ CreateChunk => FInv'
<1> SUFFICES ASSUME FInv, CreateChunk PROVE FInv'
  OBVIOUS
<1>1. /\ bytes \in Ints /\ TotalChunks \in Nat /\ created \in Nat /\ disk \in Seq(Bytes)
      /\ phase = "create" /\ phase' = "create"
      /\ UNCHANGED <<source, bytes>>
      /\ created' = created + 1
  BY ChunkNumbers DEF FInv, CreateChunk, TypeOK, SizeIsKnown
<1>2. created \in Chunks
  BY <1>1 DEF CreateChunk, Chunks
<1> DEFINE n == BytesWritten(created)
<1>3. n \in 0 .. ChunkSize /\ LengthOf(created + 1) = LengthOf(created) + n
  BY <1>1, <1>2, ChunkPlaces, Lengths
<1>4. Len(disk) = LengthOf(created) /\ \A i \in 1 .. Len(disk) : disk[i] = Nul
  BY <1>1 DEF FInv, FileGrows
<1>5. disk' = Written(disk, Len(disk), Zeros, n) /\ Len(disk) \in Nat
  BY <1>1 DEF CreateChunk
<1> HIDE DEF n
<1>6. /\ disk' \in Seq(Bytes)
      /\ Len(disk') = Len(disk) + n
      /\ \A i \in 1 .. Len(disk') : disk'[i] = Nul
  <2>1. /\ disk' \in Seq(Bytes)
        /\ n = 0 => disk' = disk
        /\ n > 0 => Len(disk') = IF Len(disk) + n > Len(disk) THEN Len(disk) + n ELSE Len(disk)
        /\ \A i \in 1 .. Len(disk') :
             disk'[i] = IF Len(disk) < i /\ i <= Len(disk) + n THEN Zeros[i - Len(disk)]
                        ELSE IF i <= Len(disk) THEN disk[i]
                        ELSE Nul
    BY <1>1, <1>3, <1>5, WrittenIs, ZerosIs
  <2>2. Len(disk') = Len(disk) + n
    BY <1>3, <1>5, <2>1
  <2>3. ASSUME NEW i \in 1 .. Len(disk') PROVE disk'[i] = Nul
    <3>1. CASE Len(disk) < i
      <4>1. i \in Nat /\ i <= Len(disk) + n
        BY <1>3, <1>5, <2>2, Constants
      <4>2. i - Len(disk) \in 1 .. ChunkSize
        BY <1>3, <1>5, <3>1, <4>1, Constants
      <4>3. disk'[i] = Zeros[i - Len(disk)]
        BY <2>1, <3>1, <4>1
      <4>4. QED
        BY <4>2, <4>3, ZerosIs
    <3>2. CASE ~(Len(disk) < i)
      BY <1>4, <1>5, <2>1, <2>2, <1>3, <3>2
    <3>3. QED
      BY <3>1, <3>2
  <2>4. QED
    BY <2>1, <2>2, <2>3
<1>7. TypeOK'
  BY <1>1, <1>6 DEF FInv, CreateChunk, TypeOK
<1>8. SizeIsKnown'
  BY <1>1, SamePlaces DEF FInv, SizeIsKnown, giveFileSize
<1>9. FileGrows'
  <2>1. created + 1 <= TotalChunks
    BY <1>1 DEF CreateChunk
  <2>2. TotalChunks' = TotalChunks
    BY <1>1, SamePlaces
  <2>3. Len(disk') = LengthOf(created + 1)
    BY <1>3, <1>4, <1>6
  <2>4. Len(disk)' = LengthOf(created)'
    BY <1>1, <2>3 DEF LengthOf, FirstOf, TotalChunks
  <2>5. QED
    BY <1>1, <1>6, <2>1, <2>2, <2>4 DEF FileGrows, Transfers
<1>10. QED
  BY <1>1, <1>7, <1>8, <1>9 DEF FInv, ChunksAreTrue, OutcomeIsTrue, Transfers

LEMMA StartThreadsFInv == FInv /\ StartThreads => FInv'
<1> SUFFICES ASSUME FInv, StartThreads PROVE FInv'
  OBVIOUS
<1>1. /\ bytes \in Ints /\ TotalChunks \in Nat /\ created \in Nat
      /\ phase = "create" /\ phase' = "fetch"
      /\ UNCHANGED <<source, bytes, created, disk>>
      /\ thread' = [c \in Chunks |-> "ask"]
      /\ outputBuffer' = [c \in Chunks |-> Zeros]
      /\ lost' = {}
  BY ChunkNumbers DEF FInv, StartThreads, TypeOK, SizeIsKnown
<1>2. created = TotalChunks
  BY <1>1 DEF FInv, FileGrows, StartThreads
<1>3. Len(disk) = LengthOf(TotalChunks) /\ \A i \in 1 .. Len(disk) : disk[i] = Nul
  BY <1>1, <1>2 DEF FInv, FileGrows
<1>4. Chunks' = Chunks /\ LengthOf(TotalChunks)' = LengthOf(TotalChunks)
  BY <1>1 DEF Chunks, TotalChunks, LengthOf, FirstOf
<1>5. TypeOK'
  BY <1>1, <1>4, ZerosIs DEF FInv, TypeOK
<1>6. SizeIsKnown'
  BY <1>1, SamePlaces DEF FInv, SizeIsKnown, giveFileSize
<1>7. FileGrows'
  BY <1>1, <1>3, <1>4 DEF FileGrows
<1>8. ASSUME NEW c \in Chunks PROVE ChunkIsTrue(c)'
  <2>1. ASSUME NEW i \in 1 .. BytesWritten(c)
        PROVE  disk[FirstOf(c) + i] = Nul
    <3>1. /\ FirstOf(c) \in Nat /\ BytesWritten(c) \in 0 .. ChunkSize
          /\ FirstOf(c) + BytesWritten(c) <= Len(disk)
      BY <1>1, <1>3, ChunkPlaces, Lengths
    <3>2. Len(disk) \in Nat
      BY <1>1, <1>3, Lengths
    <3>3. FirstOf(c) + i \in 1 .. Len(disk)
      BY <3>1, <3>2, Constants
    <3>4. QED
      BY <1>3, <3>3
  <2>2. thread'[c] = "ask"
    BY <1>1
  <2>3. QED
    BY <1>1, <2>1, <2>2, SamePlaces DEF ChunkIsTrue
<1>9. QED
  BY <1>1, <1>4, <1>5, <1>6, <1>7, <1>8 DEF FInv, ChunksAreTrue, OutcomeIsTrue, Transfers

----------------------------------------------------------------------------
(* The threads of the chunks.                                              *)

\* Of a chunk, and so much of it as is written, there is something in the file.
LEMMA ChunkOfSource ==
  ASSUME FInv, phase \in Transfers, NEW c \in Chunks, NEW garbage \in Buffers,
         NEW i \in 1 .. BytesWritten(c)
  PROVE  /\ i \in 1 .. ChunkSize
         /\ FirstOf(c) + i \in 1 .. Len(source)
         /\ ChunkBuff(c, garbage)[i] = source[FirstOf(c) + i]
         /\ Expected(c, i) = IF ChunkBuff(c, garbage)[1] # Error
                                  /\ InString(ChunkBuff(c, garbage), i)
                             THEN ChunkBuff(c, garbage)[i] ELSE Nul
<1>1. /\ source \in Seq(Bytes) /\ Len(source) \in Nat
      /\ bytes \in Ints /\ bytes \in Int /\ bytes <= Len(source)
  <2>1. bytes \in Ints /\ bytes = giveFileSize(source)
    BY DEF FInv, TypeOK, SizeIsKnown
  <2>2. source \in Seq(Bytes) /\ Len(source) \in Nat
    BY SourceIs DEF FInv
  <2>3. QED
    BY <2>1, <2>2, FileSize, ChunkNumbers
<1>2. /\ FirstOf(c) \in Nat /\ BytesWritten(c) \in 0 .. ChunkSize
      /\ FirstOf(c) + BytesWritten(c) <= bytes
  BY <1>1, ChunkPlaces
<1> DEFINE buffer == ChunkBuff(c, garbage)
<1>3. \A j \in 1 .. ChunkSize : FirstOf(c) + j <= Len(source) => buffer[j] = source[FirstOf(c) + j]
  BY <1>1, ChunkBuffIs
<1> HIDE DEF buffer
<1>4. ASSUME NEW j \in 1 .. i
      PROVE  j \in 1 .. ChunkSize /\ FirstOf(c) + j \in 1 .. Len(source)
  BY <1>1, <1>2, Constants
<1>5. \A j \in 1 .. i : buffer[j] = source[FirstOf(c) + j]
  BY <1>1, <1>2, <1>3, <1>4
<1>6. 1 \in 1 .. i /\ i \in 1 .. i
  BY <1>2, Constants
<1>7. Sent(c, i) <=> buffer[1] # Error /\ InString(buffer, i)
  BY <1>5, <1>6 DEF Sent, InString
<1>8. QED
  BY <1>4, <1>5, <1>6, <1>7 DEF Expected, buffer

\* A chunk that a step leaves alone.
LEMMA OtherChunk ==
  ASSUME NEW d, ChunkIsTrue(d), UNCHANGED <<source, bytes>>,
         thread'[d] = thread[d], outputBuffer'[d] = outputBuffer[d],
         d \in lost => d \in lost',
         \A i \in 1 .. BytesWritten(d) : disk'[FirstOf(d) + i] = disk[FirstOf(d) + i]
  PROVE  ChunkIsTrue(d)'
<1>1. /\ FirstOf(d)' = FirstOf(d) /\ BytesWritten(d)' = BytesWritten(d)
      /\ \A i : Expected(d, i)' = Expected(d, i)
  BY SamePlaces
<1>2. ASSUME NEW i \in 1 .. BytesWritten(d)
      PROVE  LET byte == source[FirstOf(d) + i]
                 there == disk'[FirstOf(d) + i]
             IN  /\ thread'[d] \in {"ask", "write"} => there = Nul
                 /\ thread'[d] = "write" =>
                      /\ outputBuffer'[d][i] \in {byte, Nul}
                      /\ d \notin lost' => outputBuffer'[d][i] = Expected(d, i)
                 /\ thread'[d] = "over" =>
                      /\ there \in {byte, Nul}
                      /\ d \notin lost' => there = Expected(d, i)
  BY <1>2 DEF ChunkIsTrue
<1>3. QED
  BY <1>1, <1>2 DEF ChunkIsTrue

\* A step of the thread of chunk c.
LEMMA StepOfThread ==
  ASSUME FInv, phase = "fetch", NEW c \in Chunks,
         UNCHANGED <<phase, source, bytes, created>>,
         NEW t \in {"ask", "write", "over"}, thread' = [thread EXCEPT ![c] = t],
         outputBuffer' \in [Chunks -> Buffers],
         \A d \in Chunks \ {c} : outputBuffer'[d] = outputBuffer[d],
         lost \subseteq lost', lost' \in SUBSET Chunks,
         disk' \in Seq(Bytes), Len(disk') = Len(disk),
         \A d \in Chunks \ {c} : \A i \in 1 .. BytesWritten(d) :
           disk'[FirstOf(d) + i] = disk[FirstOf(d) + i],
         ChunkIsTrue(c)'
  PROVE  FInv'
<1>1. Chunks' = Chunks /\ TotalChunks' = TotalChunks /\ LengthOf(TotalChunks)' = LengthOf(TotalChunks)
  BY DEF Chunks, TotalChunks, LengthOf, FirstOf
<1>2. thread \in [Chunks -> {"ask", "write", "over"}] /\ phase' = "fetch"
  BY DEF FInv, TypeOK
<1>3. thread' \in [Chunks -> {"ask", "write", "over"}]
  BY <1>2
<1>4. TypeOK'
  BY <1>1, <1>3 DEF FInv, TypeOK
<1>5. SizeIsKnown'
  BY <1>1 DEF FInv, SizeIsKnown, giveFileSize, Transfers
<1>6. FileGrows'
  BY <1>1, <1>2 DEF FInv, FileGrows, Transfers
<1>7. ASSUME NEW d \in Chunks PROVE ChunkIsTrue(d)'
  <2>1. CASE d # c
    <3>1. ChunkIsTrue(d) /\ thread'[d] = thread[d] /\ d \in Chunks \ {c}
      BY <1>2, <2>1 DEF FInv, ChunksAreTrue, Transfers
    <3>2. QED
      BY <3>1, OtherChunk
  <2>2. CASE d = c
    BY <2>2
  <2>3. QED
    BY <2>1, <2>2
<1>8. ChunksAreTrue'
  BY <1>1, <1>7 DEF ChunksAreTrue
<1>9. QED
  BY <1>2, <1>4, <1>5, <1>6, <1>8 DEF FInv, OutcomeIsTrue

LEMMA ReceiveFInv ==
  ASSUME FInv, phase = "fetch", NEW c \in Chunks, Receive(c)
  PROVE  FInv'
<1> USE DEF Transfers
<1>1. PICK garbage \in Buffers, n \in 1 .. ChunkSize :
        LET buffer == ChunkBuff(c, garbage)
        IN  /\ buffer[1] \notin {Nul, Error}
            /\ outputBuffer' = [outputBuffer EXCEPT ![c] = Received(buffer, n)]
            /\ lost' = IF n < ChunkSize /\ InString(buffer, n + 1) THEN lost \cup {c} ELSE lost
  BY DEF Receive
<1> DEFINE buffer == ChunkBuff(c, garbage)
<1>2. source \in Seq(Bytes) /\ bytes \in Ints
  BY SourceIs DEF FInv, TypeOK
<1>3. buffer \in Buffers
  BY <1>2, ChunkBuffIs
<1>4. /\ Received(buffer, n) \in Buffers
      /\ \A i \in 1 .. ChunkSize :
           Received(buffer, n)[i] = IF i <= n /\ InString(buffer, i) THEN buffer[i] ELSE Nul
  <2> HIDE DEF buffer
  <2>1. QED
    BY <1>3, ReceivedIs
<1>5. /\ buffer[1] # Error
      /\ outputBuffer' = [outputBuffer EXCEPT ![c] = Received(buffer, n)]
      /\ lost' = IF n < ChunkSize /\ InString(buffer, n + 1) THEN lost \cup {c} ELSE lost
  BY <1>1
<1>6. /\ outputBuffer \in [Chunks -> Buffers] /\ thread \in [Chunks -> {"ask", "write", "over"}]
      /\ lost \in SUBSET Chunks /\ disk \in Seq(Bytes) /\ ChunkIsTrue(c)
  BY DEF FInv, TypeOK, ChunksAreTrue
<1>7. /\ thread[c] = "ask"
      /\ thread' = [thread EXCEPT ![c] = "write"]
      /\ UNCHANGED <<phase, source, bytes, created, disk>>
  BY DEF Receive
<1>8. ASSUME NEW i \in 1 .. BytesWritten(c)
      PROVE  /\ i \in 1 .. ChunkSize
             /\ buffer[i] = source[FirstOf(c) + i]
             /\ Expected(c, i) = IF InString(buffer, i) THEN buffer[i] ELSE Nul
  BY <1>5, ChunkOfSource
<1> HIDE DEF buffer
<1>9. ASSUME NEW i \in 1 .. BytesWritten(c)
      PROVE  /\ disk[FirstOf(c) + i] = Nul
             /\ Received(buffer, n)[i] \in {source[FirstOf(c) + i], Nul}
             /\ c \notin lost' => Received(buffer, n)[i] = Expected(c, i)
  <2>1. disk[FirstOf(c) + i] = Nul
    BY <1>6, <1>7 DEF ChunkIsTrue
  <2>2. Received(buffer, n)[i] \in {source[FirstOf(c) + i], Nul}
    BY <1>4, <1>8
  <2>3. ASSUME c \notin lost' PROVE Received(buffer, n)[i] = Expected(c, i)
    <3>1. CASE i <= n
      BY <1>4, <1>8, <3>1
    <3>2. CASE ~(i <= n)
      <4>1. n < ChunkSize /\ n + 1 <= i
        BY <1>8, <3>2, Constants
      <4>2. ~InString(buffer, n + 1)
        BY <1>5, <2>3, <4>1
      <4>3. ~InString(buffer, i)
        BY <1>8, <4>1, <4>2, Constants DEF InString
      <4>4. QED
        BY <1>4, <1>8, <4>3
    <3>3. QED
      BY <3>1, <3>2
  <2>4. QED
    BY <2>1, <2>2, <2>3
<1>10. ChunkIsTrue(c)'
  <2>1. thread'[c] = "write" /\ outputBuffer'[c] = Received(buffer, n)
    BY <1>5, <1>6, <1>7
  <2>2. QED
    BY <1>7, <1>9, <2>1, SamePlaces DEF ChunkIsTrue
<1>11. /\ outputBuffer' \in [Chunks -> Buffers]
       /\ \A d \in Chunks \ {c} : outputBuffer'[d] = outputBuffer[d]
       /\ lost \subseteq lost' /\ lost' \in SUBSET Chunks
  BY <1>4, <1>5, <1>6
<1>12. QED
  BY <1>6, <1>7, <1>10, <1>11, StepOfThread

LEMMA RefuseFInv ==
  ASSUME FInv, phase = "fetch", NEW c \in Chunks, Refuse(c)
  PROVE  FInv'
<1> USE DEF Transfers
<1>1. PICK garbage \in Buffers : ChunkBuff(c, garbage)[1] \in {Nul, Error}
  BY DEF Refuse
<1>2. /\ outputBuffer \in [Chunks -> Buffers] /\ thread \in [Chunks -> {"ask", "write", "over"}]
      /\ lost \in SUBSET Chunks /\ disk \in Seq(Bytes) /\ ChunkIsTrue(c)
  BY DEF FInv, TypeOK, ChunksAreTrue
<1>3. /\ thread[c] = "ask"
      /\ thread' = [thread EXCEPT ![c] = "over"]
      /\ UNCHANGED <<phase, source, bytes, created, disk, outputBuffer, lost>>
  BY DEF Refuse
<1>4. ASSUME NEW i \in 1 .. BytesWritten(c)
      PROVE  disk[FirstOf(c) + i] = Nul /\ Expected(c, i) = Nul
  <2>1. disk[FirstOf(c) + i] = Nul
    BY <1>2, <1>3 DEF ChunkIsTrue
  <2>2. i \in 1 .. ChunkSize
    BY <1>1, ChunkOfSource
  <2>3. InString(ChunkBuff(c, garbage), i) => ChunkBuff(c, garbage)[1] # Nul
    BY <2>2, Constants DEF InString
  <2>4. QED
    BY <1>1, <2>1, <2>3, ChunkOfSource
<1>5. ChunkIsTrue(c)'
  <2>1. thread'[c] = "over"
    BY <1>2, <1>3
  <2>2. QED
    BY <1>3, <1>4, <2>1, SamePlaces DEF ChunkIsTrue
<1>6. QED
  BY <1>2, <1>3, <1>5, StepOfThread

LEMMA ChunkFailsFInv ==
  ASSUME FInv, phase = "fetch", NEW c \in Chunks, ChunkFails(c)
  PROVE  FInv'
<1> USE DEF Transfers
<1>1. /\ outputBuffer \in [Chunks -> Buffers] /\ thread \in [Chunks -> {"ask", "write", "over"}]
      /\ lost \in SUBSET Chunks /\ disk \in Seq(Bytes) /\ ChunkIsTrue(c)
  BY DEF FInv, TypeOK, ChunksAreTrue
<1>2. /\ thread[c] \in {"ask", "write"}
      /\ thread' = [thread EXCEPT ![c] = "over"]
      /\ lost' = lost \cup {c}
      /\ UNCHANGED <<phase, source, bytes, created, disk, outputBuffer>>
  BY DEF ChunkFails
<1>3. \A i \in 1 .. BytesWritten(c) : disk[FirstOf(c) + i] = Nul
  BY <1>1, <1>2 DEF ChunkIsTrue
<1>4. ChunkIsTrue(c)'
  <2>1. thread'[c] = "over" /\ c \in lost'
    BY <1>1, <1>2
  <2>2. QED
    BY <1>2, <1>3, <2>1, SamePlaces DEF ChunkIsTrue
<1>5. QED
  BY <1>1, <1>2, <1>4, StepOfThread

LEMMA WriteChunkFInv ==
  ASSUME FInv, phase = "fetch", NEW c \in Chunks, WriteChunk(c)
  PROVE  FInv'
<1> USE DEF Transfers
<1>1. /\ outputBuffer \in [Chunks -> Buffers] /\ thread \in [Chunks -> {"ask", "write", "over"}]
      /\ lost \in SUBSET Chunks /\ disk \in Seq(Bytes) /\ ChunkIsTrue(c)
      /\ bytes \in Ints /\ TotalChunks >= 0 /\ Len(disk) = LengthOf(TotalChunks)
  BY DEF FInv, TypeOK, ChunksAreTrue, SizeIsKnown, FileGrows
<1> DEFINE n == BytesWritten(c)
           first == FirstOf(c)
           buffer == outputBuffer[c]
<1>2. /\ thread[c] = "write"
      /\ thread' = [thread EXCEPT ![c] = "over"]
      /\ disk' = Written(disk, first, buffer, n)
      /\ UNCHANGED <<phase, source, bytes, created, outputBuffer, lost>>
  BY <1>1, ChunkPlaces DEF WriteChunk
<1>3. /\ first \in Nat /\ n \in 0 .. ChunkSize /\ buffer \in Buffers
      /\ first + n <= Len(disk) /\ Len(disk) \in Nat
  BY <1>1, ChunkPlaces, Lengths
<1>4. /\ disk' \in Seq(Bytes)
      /\ n = 0 => disk' = disk
      /\ n > 0 => Len(disk') = IF first + n > Len(disk) THEN first + n ELSE Len(disk)
      /\ \A i \in 1 .. Len(disk') :
           disk'[i] = IF first < i /\ i <= first + n THEN buffer[i - first]
                      ELSE IF i <= Len(disk) THEN disk[i]
                      ELSE Nul
  <2> HIDE DEF n, first, buffer
  <2>1. disk \in Seq(Bytes) /\ first \in Nat /\ buffer \in Buffers /\ n \in 0 .. ChunkSize
    BY <1>1, <1>3
  <2>2. LET file == Written(disk, first, buffer, n)
        IN  /\ file \in Seq(Bytes)
            /\ n = 0 => file = disk
            /\ n > 0 => Len(file) = IF first + n > Len(disk) THEN first + n ELSE Len(disk)
            /\ \A i \in 1 .. Len(file) :
                 file[i] = IF first < i /\ i <= first + n THEN buffer[i - first]
                           ELSE IF i <= Len(disk) THEN disk[i]
                           ELSE Nul
    BY ONLY <2>1, WrittenIs
  <2>3. QED
    BY <1>2, <2>2
<1>5. Len(disk') = Len(disk)
  <2> HIDE DEF n, first, buffer
  <2>1. QED
    BY <1>3, <1>4, Constants
<1>6. ASSUME NEW i \in 1 .. BytesWritten(c)
      PROVE  disk'[FirstOf(c) + i] = outputBuffer[c][i]
  <2>1. i \in 1 .. n
    OBVIOUS
  <2> HIDE DEF n, first, buffer
  <2>2. first + i \in 1 .. Len(disk') /\ first < first + i /\ first + i <= first + n
    BY <1>3, <1>5, <2>1
  <2>3. (first + i) - first = i
    BY <1>3, <2>1
  <2>4. disk'[first + i] = buffer[i]
    BY <1>4, <2>2, <2>3
  <2>5. QED
    BY <2>4 DEF first, buffer
<1>7. ASSUME NEW d \in Chunks \ {c}, NEW i \in 1 .. BytesWritten(d)
      PROVE  disk'[FirstOf(d) + i] = disk[FirstOf(d) + i]
  <2>1. ~(first < FirstOf(d) + i /\ FirstOf(d) + i <= first + n)
    BY <1>1, <1>7, ChunksApart
  <2>2. /\ FirstOf(d) \in Nat /\ BytesWritten(d) \in 0 .. ChunkSize
        /\ FirstOf(d) + BytesWritten(d) <= Len(disk)
    BY <1>1, ChunkPlaces, Lengths
  <2>3. FirstOf(d) + i \in 1 .. Len(disk)
    BY <1>3, <2>2, Constants
  <2> HIDE DEF n, first, buffer
  <2>4. QED
    BY <1>3, <1>4, <1>5, <2>1, <2>3
<1>8. ChunkIsTrue(c)'
  <2>1. thread'[c] = "over"
    BY <1>1, <1>2
  <2>2. ASSUME NEW i \in 1 .. BytesWritten(c)
        PROVE  /\ outputBuffer[c][i] \in {source[FirstOf(c) + i], Nul}
               /\ c \notin lost => outputBuffer[c][i] = Expected(c, i)
    BY <1>1, <1>2 DEF ChunkIsTrue
  <2>3. QED
    BY <1>2, <1>6, <2>1, <2>2, SamePlaces DEF ChunkIsTrue
<1>9. QED
  BY <1>1, <1>2, <1>4, <1>5, <1>7, <1>8, StepOfThread

LEMMA VerifySHAFInv == FInv /\ VerifySHA => FInv'
<1> SUFFICES ASSUME FInv, VerifySHA PROVE FInv'
  OBVIOUS
<1> USE DEF Transfers
<1>1. /\ phase = "fetch" /\ phase' \in {"verified", "mismatched"}
      /\ UNCHANGED <<source, bytes, created, disk, thread, outputBuffer, lost>>
      /\ \A c \in Chunks : thread[c] = "over"
      /\ phase' = "mismatched" => disk # source
  BY DEF VerifySHA
<1>2. Chunks' = Chunks /\ TotalChunks' = TotalChunks /\ LengthOf(TotalChunks)' = LengthOf(TotalChunks)
  BY <1>1 DEF Chunks, TotalChunks, LengthOf, FirstOf
<1>3. TypeOK'
  BY <1>1, <1>2 DEF FInv, TypeOK
<1>4. SizeIsKnown'
  BY <1>1, <1>2 DEF FInv, SizeIsKnown, giveFileSize
<1>5. FileGrows'
  BY <1>1, <1>2 DEF FInv, FileGrows
<1>6. ASSUME NEW c \in Chunks PROVE ChunkIsTrue(c)'
  <2>1. ChunkIsTrue(c)
    BY <1>1 DEF FInv, ChunksAreTrue
  <2>2. QED
    BY <1>1, <2>1, OtherChunk
<1>7. QED
  BY <1>1, <1>2, <1>3, <1>4, <1>5, <1>6 DEF FInv, ChunksAreTrue, OutcomeIsTrue

LEMMA StutterFInv == FInv /\ UNCHANGED vars => FInv'
<1> SUFFICES ASSUME FInv, UNCHANGED vars PROVE FInv'
  OBVIOUS
<1>1. UNCHANGED <<phase, source, bytes, created, disk, thread, outputBuffer, lost>>
  BY DEF vars
<1>2. Chunks' = Chunks /\ TotalChunks' = TotalChunks
  BY <1>1 DEF Chunks, TotalChunks
<1>3. \A k : LengthOf(k)' = LengthOf(k)
  BY <1>1, SamePlaces
<1>4. \A c : ChunkIsTrue(c) => ChunkIsTrue(c)'
  BY <1>1, OtherChunk
<1>5. TypeOK'
  BY <1>1, <1>2 DEF FInv, TypeOK
<1>6. SizeIsKnown'
  BY <1>1, <1>2 DEF FInv, SizeIsKnown, giveFileSize
<1>7. FileGrows'
  <2>1. LengthOf(created)' = LengthOf(created)
    BY <1>1, <1>2 DEF LengthOf, FirstOf
  <2>2. LengthOf(TotalChunks)' = LengthOf(TotalChunks)
    BY <1>1, <1>2 DEF LengthOf, FirstOf
  <2>3. QED
    BY <1>1, <1>2, <2>1, <2>2 DEF FInv, FileGrows
<1>8. QED
  BY <1>1, <1>2, <1>4, <1>5, <1>6, <1>7 DEF FInv, ChunksAreTrue, OutcomeIsTrue

LEMMA SpecFInv == Spec => []FInv
<1>1. Init => FInv
  BY InitFInv
<1>2. FInv /\ [Next]_vars => FInv'
  <2> SUFFICES ASSUME FInv, [Next]_vars PROVE FInv'
    OBVIOUS
  <2>1. CASE Upload
    BY <2>1, UploadFInv
  <2>2. CASE CreateChunk
    BY <2>2, CreateChunkFInv
  <2>3. CASE StartThreads
    BY <2>3, StartThreadsFInv
  <2>4. ASSUME phase = "fetch", NEW c \in Chunks, ChunkThread(c) PROVE FInv'
    BY <2>4, ReceiveFInv, RefuseFInv, ChunkFailsFInv, WriteChunkFInv DEF ChunkThread
  <2>5. CASE VerifySHA
    BY <2>5, VerifySHAFInv
  <2>6. CASE UNCHANGED vars
    BY <2>6, StutterFInv
  <2>7. QED
    BY <2>1, <2>2, <2>3, <2>4, <2>5, <2>6 DEF Next
<1>3. QED
  BY <1>1, <1>2, PTL DEF Spec

----------------------------------------------------------------------------
(* The theorems.                                                           *)

\* The type invariant: sizes stay ints, and a thread's buffer holds a chunk.
THEOREM FileTypeOK == Spec => []TypeOK
<1>1. FInv => TypeOK
  BY DEF FInv
<1>2. QED
  BY <1>1, SpecFInv, PTL

\* How long the file is that the download creates.
LEMMA LengthIs ==
  ASSUME bytes \in Ints, TotalChunks >= 0
  PROVE  LengthOf(TotalChunks) = IF bytes < 0 THEN 0
                                 ELSE IF bytes % ChunkSize = 0 /\ bytes > 0 THEN bytes - ChunkSize
                                 ELSE bytes
<1> DEFINE last == TotalChunks - 1
           q == bytes \div ChunkSize
           r == bytes % ChunkSize
<1>1. /\ TotalChunks \in Nat /\ bytes \in Int
      /\ TotalChunks * ChunkSize \in Int
      /\ TotalChunks * ChunkSize <= bytes + ChunkSize - 1
      /\ bytes <= TotalChunks * ChunkSize
  BY ChunkNumbers
<1>2. CASE TotalChunks = 0
  <2>1. LengthOf(TotalChunks) = 0
    BY <1>2, Lengths
  <2>2. bytes <= 0
    BY <1>1, <1>2, Constants
  <2>3. QED
    BY <1>1, <2>1, <2>2
<1>3. CASE TotalChunks # 0
  <2>1. last \in Chunks /\ last \in Nat /\ last = TotalChunks - 1
    BY <1>1, <1>3 DEF Chunks
  <2>2. FirstOf(last) = (TotalChunks * ChunkSize) - ChunkSize
    BY <1>1, Constants, Products DEF FirstOf
  <2>3. LengthOf(TotalChunks) = FirstOf(last) + r
    BY <1>1, <1>3 DEF LengthOf
  <2>4. bytes > 0 /\ ~(bytes < 0)
    <3>1. FirstOf(last) \in Nat /\ FirstOf(last) + 1 <= bytes
      BY <2>1, ChunkPlaces
    <3>2. QED
      BY <1>1, <3>1
  <2>5. q \in Int /\ r \in 0 .. ChunkSize - 1 /\ bytes = (q * ChunkSize) + r
    BY <1>1, Constants, Division
  <2>6. q * ChunkSize \in Int
    BY <2>5, Constants, Products
  <2>7. /\ TotalChunks <= q => TotalChunks * ChunkSize <= q * ChunkSize
        /\ q < TotalChunks => (q * ChunkSize) + ChunkSize <= TotalChunks * ChunkSize
        /\ q < last => (q * ChunkSize) + ChunkSize <= last * ChunkSize
    <3> HIDE DEF q
    <3>1. QED
      BY <1>1, <2>1, <2>5, Constants, Products
  <2>8. last * ChunkSize = (TotalChunks * ChunkSize) - ChunkSize
    BY <1>1, Constants, Products
  <2>9. r = bytes % ChunkSize
    OBVIOUS
  <2> HIDE DEF q, r, last
  <2>10. r = 0 => q * ChunkSize = TotalChunks * ChunkSize
    BY <1>1, <2>5, <2>6, <2>7, Constants
  <2>11. r # 0 => q * ChunkSize = (TotalChunks * ChunkSize) - ChunkSize
    <3>1. r # 0 => q < TotalChunks
      BY <1>1, <2>5, <2>6, <2>7, Constants
    <3>2. ASSUME q < last PROVE FALSE
      <4>1. (q * ChunkSize) + ChunkSize <= (TotalChunks * ChunkSize) - ChunkSize
        BY <2>7, <2>8, <3>2
      <4>2. TotalChunks * ChunkSize <= (q * ChunkSize) + r + ChunkSize - 1
        BY <1>1, <2>5
      <4>3. QED
        BY <1>1, <2>5, <2>6, <4>1, <4>2, Constants
    <3>3. r # 0 => q = last
      BY <1>1, <2>1, <2>5, <3>1, <3>2
    <3>4. QED
      BY <2>8, <3>3
  <2>12. CASE r = 0
    <3>1. LengthOf(TotalChunks) = bytes - ChunkSize
      <4>1. bytes = q * ChunkSize
        BY <2>5, <2>6, <2>12
      <4>2. FirstOf(last) = bytes - ChunkSize
        BY <2>2, <2>10, <2>12, <4>1
      <4>3. bytes - ChunkSize \in Int
        BY <1>1, Constants
      <4>4. QED
        BY <2>3, <2>12, <4>2, <4>3
    <3>2. QED
      BY <2>4, <2>9, <2>12, <3>1
  <2>13. CASE r # 0
    <3>1. LengthOf(TotalChunks) = bytes
      <4>1. FirstOf(last) = q * ChunkSize
        BY <2>2, <2>11, <2>13
      <4>2. QED
        BY <2>3, <2>5, <4>1
    <3>2. QED
      BY <2>4, <2>9, <2>13, <3>1
  <2>14. QED
    BY <2>12, <2>13
<1>4. QED
  BY <1>2, <1>3

\* No byte of the destination comes from another place of the source: chunks do
\* not reach into each other, what the seeder's buffer was left with behind the
\* end of the file is not written, and no offset overflows.
THEOREM FileStaysInPlace == Spec => []StaysInPlace
<1>1. FInv => StaysInPlace
  <2> SUFFICES ASSUME FInv PROVE StaysInPlace
    OBVIOUS
  <2>1. /\ bytes \in Ints /\ bytes \in Int
        /\ source \in Seq(Bytes) /\ Len(source) \in Nat
        /\ phase \in {"upload", "refused", "crashed", "create"} \cup Transfers
    BY SourceIs, ChunkNumbers DEF FInv, TypeOK, Transfers
  <2>2. CASE phase \in {"upload", "refused", "crashed"}
    BY <2>1, <2>2 DEF FInv, FileGrows, StaysInPlace
  <2>3. ASSUME phase \in Transfers \cup {"create"}
        PROVE  bytes <= Len(source) /\ TotalChunks >= 0
    BY <2>1, <2>3, FileSize DEF FInv, SizeIsKnown
  <2>4. CASE phase = "create"
    <3>1. /\ created \in 0 .. TotalChunks /\ Len(disk) = LengthOf(created)
          /\ \A i \in 1 .. Len(disk) : disk[i] = Nul
      BY <2>4, ChunkNumbers, <2>1 DEF FInv, TypeOK, FileGrows
    <3>2. LengthOf(created) <= Len(source)
      <4>1. CASE created = 0
        BY <2>1, <2>3, <2>4, <4>1, Lengths
      <4>2. CASE created # 0
        <5>1. TotalChunks \in Int
          BY <2>1, ChunkNumbers
        <5>2. created - 1 \in Chunks /\ (created - 1) + 1 = created
          BY <3>1, <4>2, <5>1 DEF Chunks
        <5>3. LengthOf(created) = FirstOf(created - 1) + BytesWritten(created - 1)
          <6>1. LengthOf((created - 1) + 1) = FirstOf(created - 1) + BytesWritten(created - 1)
            BY <2>1, <2>3, <2>4, <5>2, Lengths
          <6>2. QED
            BY <5>2, <6>1
        <5>4. FirstOf(created - 1) + BytesWritten(created - 1) <= bytes
          BY <2>1, <5>2, ChunkPlaces
        <5>5. LengthOf(created) \in Nat
          BY <2>1, <2>3, <2>4, <3>1, Lengths
        <5>6. QED
          BY <2>1, <2>3, <2>4, <5>3, <5>4, <5>5
      <4>3. QED
        BY <4>1, <4>2
    <3>3. QED
      BY <3>1, <3>2 DEF StaysInPlace
  <2>5. CASE phase \in Transfers
    <3>1. Len(disk) = LengthOf(TotalChunks) /\ Len(disk) \in Nat
      BY <2>1, <2>3, <2>5, ChunkNumbers, Lengths DEF FInv, FileGrows
    <3>2. Len(disk) <= Len(source)
      <4>1. Len(disk) = IF bytes < 0 THEN 0
                        ELSE IF bytes % ChunkSize = 0 /\ bytes > 0 THEN bytes - ChunkSize
                        ELSE bytes
        BY <2>1, <2>3, <2>5, <3>1, LengthIs
      <4>2. QED
        BY <2>1, <2>3, <2>5, <4>1, Constants
    <3>3. ASSUME NEW i \in 1 .. Len(disk)
          PROVE  disk[i] \in {source[i], Nul}
      <4>1. PICK c \in Chunks : \E j \in 1 .. BytesWritten(c) : i = FirstOf(c) + j
        BY <2>1, <2>3, <2>5, <3>1, Covered
      <4>2. PICK j \in 1 .. BytesWritten(c) : i = FirstOf(c) + j
        BY <4>1
      <4>3. thread[c] \in {"ask", "write", "over"} /\ ChunkIsTrue(c)
        BY <2>5 DEF FInv, TypeOK, ChunksAreTrue, Transfers
      <4>4. disk[FirstOf(c) + j] \in {source[FirstOf(c) + j], Nul}
        BY <4>3 DEF ChunkIsTrue
      <4>5. QED
        BY <4>2, <4>4
    <3>4. QED
      BY <3>2, <3>3 DEF StaysInPlace
  <2>6. QED
    BY <2>1, <2>2, <2>4, <2>5
<1>2. QED
  BY <1>1, SpecFInv, PTL

\* In the end the destination holds, of each chunk that arrived, what was sent
\* and zeros, and has the announced size but for a last chunk that is full.
THEOREM FileWhatArrives == Spec => []WhatArrives
<1>1. FInv => WhatArrives
  <2> SUFFICES ASSUME FInv, phase \in {"verified", "mismatched"}
               PROVE  /\ Len(disk) = IF bytes < 0 THEN 0
                                     ELSE IF bytes % ChunkSize = 0 /\ bytes > 0
                                     THEN bytes - ChunkSize
                                     ELSE bytes
                      /\ \A c \in Chunks \ lost : \A i \in 1 .. BytesWritten(c) :
                           disk[FirstOf(c) + i] = IF Sent(c, i) THEN source[FirstOf(c) + i]
                                                  ELSE Nul
    BY DEF WhatArrives
  <2>1. /\ bytes \in Ints /\ TotalChunks >= 0 /\ Len(disk) = LengthOf(TotalChunks)
        /\ \A c \in Chunks : ChunkIsTrue(c) /\ thread[c] = "over"
    BY DEF FInv, TypeOK, SizeIsKnown, FileGrows, ChunksAreTrue, OutcomeIsTrue, Transfers
  <2>2. ASSUME NEW c \in Chunks \ lost, NEW i \in 1 .. BytesWritten(c)
        PROVE  disk[FirstOf(c) + i] = Expected(c, i)
    BY <2>1 DEF ChunkIsTrue
  <2>3. QED
    BY <2>1, <2>2, LengthIs DEF Expected
<1>2. QED
  BY <1>1, SpecFInv, PTL

\* A text that was not verified has lost something on the way, is too large for
\* an int, or ends with a full chunk.
THEOREM FileTextIsVerified == Spec => []TextIsVerified
<1>1. FInv => TextIsVerified
  <2> SUFFICES ASSUME FInv, phase = "mismatched", lost = {}, IsText(source),
                      Len(source) <= MaxInt, Len(source) % ChunkSize # 0
               PROVE  FALSE
    <3>1. FInv => Len(source) \in Nat /\ MaxInt \in Nat
      BY SourceIs, Constants DEF FInv
    <3>2. QED
      BY <3>1 DEF TextIsVerified
  <2>1. /\ source \in Seq(Bytes) /\ disk \in Seq(Bytes) /\ Len(source) \in Nat
        /\ bytes \in Ints /\ bytes = Len(source) /\ TotalChunks >= 0
        /\ Len(disk) = LengthOf(TotalChunks)
        /\ disk # source
    <3>1. source \in Seq(Bytes) /\ Len(source) \in Nat
      BY SourceIs DEF FInv
    <3>2. bytes = Len(source)
      BY <3>1, FileSize DEF FInv, SizeIsKnown, Transfers
    <3>3. QED
      BY <3>1, <3>2 DEF FInv, TypeOK, SizeIsKnown, FileGrows, OutcomeIsTrue, Transfers
  <2>2. Len(disk) = Len(source)
    BY <2>1, LengthIs
  <2>3. ASSUME NEW i \in 1 .. Len(disk)
        PROVE  disk[i] = source[i]
    <3>1. PICK c \in Chunks : \E j \in 1 .. BytesWritten(c) : i = FirstOf(c) + j
      BY <2>1, Covered
    <3>2. PICK j \in 1 .. BytesWritten(c) : i = FirstOf(c) + j
      BY <3>1
    <3>3. ChunkIsTrue(c) /\ thread[c] = "over"
      BY DEF FInv, ChunksAreTrue, OutcomeIsTrue, Transfers
    <3>4. disk[i] = Expected(c, j)
      BY <3>2, <3>3 DEF ChunkIsTrue
    <3>5. /\ FirstOf(c) \in Nat /\ BytesWritten(c) \in 0 .. ChunkSize
          /\ FirstOf(c) + BytesWritten(c) <= Len(source)
      BY <2>1, ChunkPlaces
    <3>6. ASSUME NEW k \in 1 .. j
          PROVE  source[FirstOf(c) + k] \in Texts
      <4>1. FirstOf(c) + k \in 1 .. Len(source)
        BY <2>1, <3>5, Constants
      <4>2. QED
        BY <4>1 DEF IsText
    <3>7. 1 \in 1 .. j
      BY <3>5, Constants
    <3>8. Sent(c, j)
      BY <3>6, <3>7, FileBytesAssumption DEF Sent
    <3>9. QED
      BY <3>2, <3>4, <3>8 DEF Expected
  <2>4. disk = source
    BY <2>1, <2>2, <2>3, SeqEqual
  <2>5. QED
    BY <2>1, <2>4
<1>2. QED
  BY <1>1, SpecFInv, PTL
=============================================================================
