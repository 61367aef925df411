----------------------------- MODULE FileBytes -----------------------------
(***************************************************************************)
(* The bytes of one file, from the client that uploads it to one that      *)
(* downloads it (src/client): the size that upload_file finds and          *)
(* announces, the file that the download creates, and the chunks, which    *)
(* give_chunk reads and returns as a C string and the chunk threads write. *)
(* Who seeds and which chunks there are is in modules Swarm and Download.  *)
(*                                                                         *)
(* Sizes and offsets are ints.  A byte is a NUL, one of a text, or Error,  *)
(* which stands for the word "SeederSideError:".                           *)
(*                                                                         *)
(* An operator that Next does not reach, right before one that it does and *)
(* with the same parameters, is that operator with a fault: the README     *)
(* says which property notices it.                                         *)
(***************************************************************************)
EXTENDS Integers, Sequences

CONSTANTS
  Texts,      \* the bytes of texts
  Files,      \* files that there may be
  ChunkSize,  \* CHUNK_SIZE
  MaxInt      \* the largest int

Nul == "nul"
Error == "error"
Bytes == Texts \cup {Nul, Error}

ASSUME FileBytesAssumption ==
  /\ ChunkSize \in Nat \ {0}
  /\ MaxInt \in Nat
  /\ ChunkSize <= MaxInt
  /\ Files \subseteq Seq(Bytes)
  /\ Nul \notin Texts /\ Error \notin Texts

VARIABLES
  phase,   \* where upload_file, then the download is
  source,  \* the file that is uploaded
  bytes,   \* File.bytes: the size in the message to the tracker, and in its reply
  created, \* how many chunks the loop that creates the file has written
  disk,    \* the file at the destination
  thread,  \* thread[c]: where the thread of chunk c is
  outputBuffer,  \* outputBuffer[c]
  lost     \* history: chunks that did not arrive, or not in one read

vars == <<phase, source, bytes, created, disk, thread, outputBuffer, lost>>

----------------------------------------------------------------------------
(* Sizes and offsets.                                                      *)

Ints == -(MaxInt + 1) .. MaxInt

AsInt(n) == ((n + MaxInt + 1) % (2 * (MaxInt + 1))) - (MaxInt + 1)

SizeAsOffT(file) == Len(file)

\* An off_t, returned as an int.
giveFileSize(file) == AsInt(Len(file))

RoundedDown(fileSize) == fileSize \div ChunkSize

\* ceil(fileSize * 1.0 / CHUNK_SIZE)
giveTotalChunksOfFile(fileSize) == (fileSize + ChunkSize - 1) \div ChunkSize

NextByteNo(chunkNo) == AsInt(chunkNo * ChunkSize + 1)

giveFirstByteNoFromChunkNo(chunkNo) == AsInt(chunkNo * ChunkSize)

giveLastChunkSizeOfFile(fileSize) == fileSize % ChunkSize

TotalChunks == giveTotalChunksOfFile(bytes)
Chunks == 0 .. TotalChunks - 1

SizeOfBuffer(c) == ChunkSize

\* How many bytes of chunk c are written, first as zeros and then as received.
BytesWritten(c) ==
  IF c = TotalChunks - 1 THEN giveLastChunkSizeOfFile(bytes) ELSE ChunkSize

----------------------------------------------------------------------------
Buffers == [1 .. ChunkSize -> Bytes]
Zeros == [i \in 1 .. ChunkSize |-> Nul]

TypeOK ==
  /\ phase \in {"upload", "refused", "crashed", "create", "fetch", "verified", "mismatched"}
  /\ source \in Files
  /\ bytes \in Ints
  /\ created \in Nat
  /\ disk \in Seq(Bytes)
  /\ phase \in {"fetch", "verified", "mismatched"} =>
       /\ thread \in [Chunks -> {"ask", "write", "over"}]
       /\ outputBuffer \in [Chunks -> Buffers]
       /\ lost \in SUBSET Chunks

Init ==
  /\ phase = "upload"
  /\ source \in Files
  /\ bytes = 0
  /\ created = 0
  /\ disk = <<>>
  /\ thread = <<>>
  /\ outputBuffer = <<>>
  /\ lost = {}

\* upload_file and uploadFilesToGroup: -1 stands for an error, and a vector of
\* a negative size ends the process.  Then download_file of another client,
\* which opens and truncates the file at its destination.
Upload ==
  /\ phase = "upload"
  /\ bytes' = giveFileSize(source)
  /\ phase' = IF bytes' = -1 THEN "refused"
              ELSE IF giveTotalChunksOfFile(bytes') < 0 THEN "crashed"
              ELSE "create"
  /\ UNCHANGED <<source, created, disk, thread, outputBuffer, lost>>

\* write(): n bytes of the buffer at offset first; none do not extend a file.
Written(file, first, buffer, n) ==
  IF n = 0 THEN file
  ELSE LET end == IF first + n > Len(file) THEN first + n ELSE Len(file)
       IN  [i \in 1 .. end |->
              IF first < i /\ i <= first + n THEN buffer[i - first]
              ELSE IF i <= Len(file) THEN file[i]
              ELSE Nul]

CreateChunk ==
  /\ phase = "create"
  /\ created < TotalChunks
  /\ disk' = Written(disk, Len(disk), Zeros, BytesWritten(created))
  /\ created' = created + 1
  /\ UNCHANGED <<phase, source, bytes, thread, outputBuffer, lost>>

StartThreads ==
  /\ phase = "create"
  /\ created >= TotalChunks
  /\ phase' = "fetch"
  /\ thread' = [c \in Chunks |-> "ask"]
  /\ outputBuffer' = [c \in Chunks |-> Zeros]
  /\ lost' = {}
  /\ UNCHANGED <<source, bytes, created, disk>>

\* chunkBuff of the seeder: behind the end of the file it is not initialized.
ChunkBuff(c, garbage) ==
  LET first == giveFirstByteNoFromChunkNo(c)
  IN  [i \in 1 .. ChunkSize |->
         IF first + i <= Len(source) THEN source[first + i] ELSE garbage[i]]

\* return chunkBuff: a string, up to the first NUL.  Without one it is longer
\* than the buffer, of which the other side does not read more than CHUNK_SIZE.
InString(buffer, i) == \A j \in 1 .. i : buffer[j] # Nul

\* read() into a buffer of zeros, when n bytes have arrived.
Received(buffer, n) ==
  [i \in 1 .. ChunkSize |-> IF i <= n /\ InString(buffer, i) THEN buffer[i] ELSE Nul]

Receive(c) ==
  /\ thread[c] = "ask"
  /\ \E garbage \in Buffers, n \in 1 .. ChunkSize :
       LET buffer == ChunkBuff(c, garbage)
       IN  /\ buffer[1] \notin {Nul, Error}
           /\ outputBuffer' = [outputBuffer EXCEPT ![c] = Received(buffer, n)]
           /\ lost' = IF n < ChunkSize /\ InString(buffer, n + 1) THEN lost \cup {c} ELSE lost
  /\ thread' = [thread EXCEPT ![c] = "write"]
  /\ UNCHANGED <<phase, source, bytes, created, disk>>

\* An empty answer, or one that begins with "SeederSideError:", be it the text.
Refuse(c) ==
  /\ thread[c] = "ask"
  /\ \E garbage \in Buffers : ChunkBuff(c, garbage)[1] \in {Nul, Error}
  /\ thread' = [thread EXCEPT ![c] = "over"]
  /\ UNCHANGED <<phase, source, bytes, created, disk, outputBuffer, lost>>

\* The seeder is gone, or refuses, or nothing can be read or written.
ChunkFails(c) ==
  /\ thread[c] \in {"ask", "write"}
  /\ thread' = [thread EXCEPT ![c] = "over"]
  /\ lost' = lost \cup {c}
  /\ UNCHANGED <<phase, source, bytes, created, disk, outputBuffer>>

WriteChunk(c) ==
  /\ thread[c] = "write"
  /\ disk' = Written(disk, giveFirstByteNoFromChunkNo(c), outputBuffer[c], BytesWritten(c))
  /\ thread' = [thread EXCEPT ![c] = "over"]
  /\ UNCHANGED <<phase, source, bytes, created, outputBuffer, lost>>

\* newSHA is the one of the file, the other the one that upload_file found.
VerifySHA ==
  /\ phase = "fetch"
  /\ \A c \in Chunks : thread[c] = "over"
  /\ phase' = IF disk = source THEN "verified" ELSE "mismatched"
  /\ UNCHANGED <<source, bytes, created, disk, thread, outputBuffer, lost>>

ChunkThread(c) == Receive(c) \/ Refuse(c) \/ ChunkFails(c) \/ WriteChunk(c)

Next ==
  \/ Upload
  \/ CreateChunk
  \/ StartThreads
  \/ phase = "fetch" /\ \E c \in Chunks : ChunkThread(c)
  \/ VerifySHA

Spec == Init /\ [][Next]_vars

----------------------------------------------------------------------------
\* A byte of the destination comes from the same place of the source, or is a
\* NUL still: no chunk reaches into another, nothing that was left in a buffer
\* gets into the file, and offsets do not overflow, even if the size did.
StaysInPlace ==
  /\ Len(disk) <= Len(source)
  /\ \A i \in 1 .. Len(disk) : disk[i] \in {source[i], Nul}

FirstOf(c) == c * ChunkSize

\* What give_chunk sends of chunk c: up to the first NUL, and nothing if it
\* begins with the word of an error.
Sent(c, i) ==
  /\ source[FirstOf(c) + 1] # Error
  /\ \A j \in 1 .. i : source[FirstOf(c) + j] # Nul

\* What is there in the end: of each chunk that arrived, what was sent and
\* zeros; and the announced size, less a whole chunk if CHUNK_SIZE divides it.
WhatArrives ==
  phase \in {"verified", "mismatched"} =>
    /\ Len(disk) = IF bytes < 0 THEN 0
                   ELSE IF bytes % ChunkSize = 0 /\ bytes > 0 THEN bytes - ChunkSize
                   ELSE bytes
    /\ \A c \in Chunks \ lost : \A i \in 1 .. BytesWritten(c) :
         disk[FirstOf(c) + i] = IF Sent(c, i) THEN source[FirstOf(c) + i] ELSE Nul

\* A text is verified if nothing of it was lost, and its size has not
\* overflowed and is not a multiple of CHUNK_SIZE.
IsText(file) == \A i \in 1 .. Len(file) : file[i] \in Texts

TextIsVerified ==
  phase = "mismatched" =>
    \/ lost # {}
    \/ ~IsText(source)
    \/ Len(source) > MaxInt
    \/ Len(source) % ChunkSize = 0
=============================================================================
