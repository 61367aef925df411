------------------------------ MODULE Download ------------------------------
(***************************************************************************)
(* One download in a client of MiniTorrent (src/client/handlers.cpp): the  *)
(* thread handleDownloadThread asks every seeder which chunks it has,      *)
(* creates the file and starts threads handleDownloadChunkThread, one per  *)
(* chunk, in windows of MAX_THREADS_FOR_DOWNLOAD that it joins one after   *)
(* the other; at the end it compares the SHA.                              *)
(*                                                                         *)
(* A seeder answers, refuses or breaks off; what it is made of is left     *)
(* out.  The seeders are other clients, and have as many chunks of the     *)
(* file as its size says (README, assumption 1: names are unique).         *)
(*                                                                         *)
(* An operator that Next does not reach, right before one that it does and *)
(* with the same parameters, is that operator with a fault: the README     *)
(* says which property notices it.                                         *)
(***************************************************************************)
EXTENDS Integers, FiniteSets

CONSTANTS
  Seeders,     \* ipAndPorts: who the tracker says shares the file
  Bytes,       \* the size of the file
  ChunkSize,   \* CHUNK_SIZE
  MaxThreads,  \* MAX_THREADS_FOR_DOWNLOAD
  WordSize,    \* how many elements of a vector<bool> share a machine word
  None

ASSUME ConstantsAreSound ==
  /\ Bytes \in Nat
  /\ ChunkSize \in Nat \ {0}
  /\ MaxThreads \in Nat \ {0}
  /\ WordSize \in Nat \ {0}
  /\ IsFiniteSet(Seeders)

\* giveTotalChunksOfFile: ceil(fileSize * 1.0 / CHUNK_SIZE).
TotalChunks == (Bytes + ChunkSize - 1) \div ChunkSize

Chunks == 0 .. TotalChunks - 1

\* giveLastChunkSizeOfFile for the last chunk, CHUNK_SIZE for the others: how
\* many bytes of chunk c both the thread that creates the file and the one
\* that fetches the chunk write.
BytesWritten(c) == IF c = TotalChunks - 1 THEN Bytes % ChunkSize ELSE ChunkSize

VARIABLES
  pc,          \* where handleDownloadThread is, or how it ended
  toAsk,       \* the seeders that the survey has not reached
  chunkStatusOfOthers,  \* [Chunks -> the seeders that say they have it]
  toFetch,     \* the chunks in countOfClientForEachChunk
  iteration,   \* the windows that are over
  window,      \* availableThreadWindow: the threads still to start
  thread,      \* thread[c]: where the thread of chunk c is
  seeder,      \* seeder[c]: whom it asks
  outputBuffer, \* outputBuffer[c]: what it received
  word,        \* word[c]: the elements set in the word it has loaded
  disk,        \* disk[c]: that part of the file
  isChunkAvailable  \* the elements set in File.isChunkAvailable

surveyVars == <<toAsk, chunkStatusOfOthers>>
windowVars == <<toFetch, iteration, window, seeder>>
chunkVars == <<thread, outputBuffer, word, disk, isChunkAvailable>>
vars == <<pc, surveyVars, windowVars, chunkVars>>

Ended == {"done", "aborted", "segv"}

\* Where a chunk thread is when it has returned.
Returned == {"ended", "failed"}

TypeOK ==
  /\ pc \in {"survey", "select", "join", "verify"} \cup Ended
  /\ toAsk \in SUBSET Seeders
  /\ chunkStatusOfOthers \in [Chunks -> SUBSET Seeders]
  /\ toFetch \in SUBSET Chunks
  /\ iteration \in Nat
  /\ window \in Nat
  /\ thread \in [Chunks -> {"none", "fetch", "write", "load", "store"} \cup Returned]
  /\ seeder \in [Chunks -> Seeders \cup {None}]
  /\ outputBuffer \in [Chunks -> {"empty", "intact", "damaged"}]
  /\ word \in [Chunks -> SUBSET Chunks]
  /\ disk \in [Chunks -> {"absent", "zeros", "intact", "damaged"}]
  /\ isChunkAvailable \in SUBSET Chunks

\* handleDownload has put a File without any chunk into files and started the
\* thread.
Init ==
  /\ pc = "survey"
  /\ toAsk = Seeders
  /\ chunkStatusOfOthers = [c \in Chunks |-> {}]
  /\ toFetch = {}
  /\ iteration = 0
  /\ window = 0
  /\ thread = [c \in Chunks |-> "none"]
  /\ seeder = [c \in Chunks |-> None]
  /\ outputBuffer = [c \in Chunks |-> "empty"]
  /\ word = [c \in Chunks |-> {}]
  /\ disk = [c \in Chunks |-> "absent"]
  /\ isChunkAvailable = {}

----------------------------------------------------------------------------
(* The survey: get_chunk_info to every seeder in turn.  ipAndPorts lists an *)
(* unordered_set, so the order is any.                                     *)

ChunkInfo(s, held) ==
  /\ pc = "survey"
  /\ s \in toAsk
  /\ toAsk' = toAsk \ {s}
  /\ chunkStatusOfOthers' =
       [c \in Chunks |-> IF c \in held THEN chunkStatusOfOthers[c] \cup {s}
                                       ELSE chunkStatusOfOthers[c]]
  /\ UNCHANGED <<pc, windowVars, chunkVars>>

\* The first seeder that cannot be reached ends the download.
SeederUnreachable(s) ==
  /\ pc = "survey"
  /\ s \in toAsk
  /\ pc' = "aborted"
  /\ UNCHANGED <<surveyVars, windowVars, chunkVars>>

\* The seeder goes away before it answers: read() returns 0, there is no
\* token, and resTokens[0] reads before the first element.
SeederCutsOff(s) ==
  /\ pc = "survey"
  /\ s \in toAsk
  /\ pc' = "segv"
  /\ UNCHANGED <<surveyVars, windowVars, chunkVars>>

----------------------------------------------------------------------------
(* The windows.                                                            *)

TotalIterations == TotalChunks \div MaxThreads

OnlyFullWindows(i) == MaxThreads

\* The for loop, and the threads for the remainder after it.
WindowSize(i) ==
  IF i < TotalIterations THEN MaxThreads ELSE TotalChunks % MaxThreads

EveryChunkIsHeld == \A c \in Chunks : chunkStatusOfOthers[c] # {}

CreateFile ==
  /\ pc = "survey"
  /\ toAsk = {}
  /\ EveryChunkIsHeld
  /\ disk' = [c \in Chunks |-> IF BytesWritten(c) > 0 THEN "zeros" ELSE "absent"]
  /\ toFetch' = Chunks
  /\ window' = WindowSize(0)
  /\ pc' = "select"
  /\ UNCHANGED <<surveyVars, iteration, seeder, thread, outputBuffer, word, isChunkAvailable>>

\* "Entire file is not available in the group, download aborted."
ChunkIsMissing ==
  /\ pc = "survey"
  /\ toAsk = {}
  /\ ~EveryChunkIsHeld
  /\ pc' = "aborted"
  /\ UNCHANGED <<surveyVars, windowVars, chunkVars>>

\* The destination path cannot be opened for writing, or one of the writes of
\* zeros fails, and what the earlier ones wrote stays.
FileCannotBeCreated ==
  /\ pc = "survey"
  /\ toAsk = {}
  /\ EveryChunkIsHeld
  /\ pc' = "aborted"
  /\ \E filled \in SUBSET {c \in Chunks : BytesWritten(c) > 0} :
       disk' = [c \in Chunks |-> IF c \in filled THEN "zeros" ELSE "absent"]
  /\ UNCHANGED <<surveyVars, windowVars, thread, outputBuffer, word, isChunkAvailable>>

Holders(c) == Cardinality(chunkStatusOfOthers[c])

InFileOrder(c) == c \in toFetch /\ \A d \in toFetch : c <= d

\* The first of countOfClientForEachChunk after sort().
First(c) ==
  /\ c \in toFetch
  /\ \A d \in toFetch : Holders(c) < Holders(d) \/ (Holders(c) = Holders(d) /\ c <= d)

StillToFetch(c) == toFetch

\* countOfClientForEachChunk.erase(it)
FetchedLater(c) == toFetch \ {c}

\* pieceSelection, and a thread for the piece.
StartThread(c, s) ==
  /\ pc = "select"
  /\ window > 0
  /\ First(c)
  /\ s \in chunkStatusOfOthers[c]
  /\ toFetch' = FetchedLater(c)
  /\ window' = window - 1
  /\ seeder' = [seeder EXCEPT ![c] = s]
  /\ thread' = [thread EXCEPT ![c] = "fetch"]
  /\ UNCHANGED <<pc, surveyVars, iteration, outputBuffer, word, disk, isChunkAvailable>>

WindowIsOut ==
  /\ pc = "select"
  /\ window = 0
  /\ pc' = "join"
  /\ UNCHANGED <<surveyVars, windowVars, chunkVars>>

Running == {c \in Chunks : thread[c] \notin {"none"} \cup Returned}

NotJoined == TRUE

EveryChunkJoined == \A c \in Chunks : thread[c] \in Returned

Joined == Running = {}

JoinWindow ==
  /\ pc = "join"
  /\ Joined
  /\ iteration' = iteration + 1
  /\ \/ /\ iteration < TotalIterations
        /\ window' = WindowSize(iteration + 1)
        /\ pc' = "select"
     \/ /\ iteration = TotalIterations
        /\ pc' = "verify"
        /\ UNCHANGED window
  /\ UNCHANGED <<surveyVars, toFetch, seeder, chunkVars>>

\* The SHA of the file is compared with the one of the tracker.  Either way
\* a message is all that follows.
VerifySHA ==
  /\ pc = "verify"
  /\ pc' = "done"
  /\ UNCHANGED <<surveyVars, windowVars, chunkVars>>

----------------------------------------------------------------------------
(* The thread of chunk c.                                                  *)

ReceiveNothing(c, content) ==
  /\ thread[c] = "fetch"
  /\ thread' = [thread EXCEPT ![c] = "write"]
  /\ UNCHANGED <<pc, surveyVars, windowVars, outputBuffer, word, disk, isChunkAvailable>>

\* One read() has returned: all of the chunk, or as much as had arrived, the
\* rest of the buffer being zeros.  A write() that takes only a part leaves
\* the same in the file, so that "damaged" stands for it too.
Receive(c, content) ==
  /\ thread[c] = "fetch"
  /\ outputBuffer' = [outputBuffer EXCEPT ![c] = content]
  /\ thread' = [thread EXCEPT ![c] = "write"]
  /\ UNCHANGED <<pc, surveyVars, windowVars, word, disk, isChunkAvailable>>

\* The seeder refuses, breaks off or answers "SeederSideError:", or the file
\* cannot be opened or written.  Nobody asks again.
ChunkFails(c) ==
  /\ thread[c] \in {"fetch", "write"}
  /\ thread' = [thread EXCEPT ![c] = "failed"]
  /\ UNCHANGED <<pc, surveyVars, windowVars, outputBuffer, word, disk, isChunkAvailable>>

NothingReachesDisk(c) == FALSE

ReachesDisk(c) == BytesWritten(c) > 0

WriteChunk(c) ==
  /\ thread[c] = "write"
  /\ disk' = IF ReachesDisk(c) THEN [disk EXCEPT ![c] = outputBuffer[c]] ELSE disk
  /\ thread' = [thread EXCEPT ![c] = "load"]
  /\ UNCHANGED <<pc, surveyVars, windowVars, outputBuffer, word, isChunkAvailable>>

\* isChunkAvailable[c] = true: a vector<bool> sets a bit of a word, which is
\* to load the word, set the bit and store the word.
WordOf(c) == {d \in Chunks : d \div WordSize = c \div WordSize}

LoadWord(c) ==
  /\ thread[c] = "load"
  /\ word' = [word EXCEPT ![c] = isChunkAvailable \cap WordOf(c)]
  /\ thread' = [thread EXCEPT ![c] = "store"]
  /\ UNCHANGED <<pc, surveyVars, windowVars, outputBuffer, disk, isChunkAvailable>>

StoreWord(c) ==
  /\ thread[c] = "store"
  /\ isChunkAvailable' = (isChunkAvailable \ WordOf(c)) \cup word[c] \cup {c}
  /\ thread' = [thread EXCEPT ![c] = "ended"]
  /\ UNCHANGED <<pc, surveyVars, windowVars, outputBuffer, word, disk>>

----------------------------------------------------------------------------
\* handleDownloadThread, when nothing fails and with what may fail.
DownloadThread ==
  \/ \E s \in Seeders, held \in SUBSET Chunks : ChunkInfo(s, held)
  \/ CreateFile
  \/ ChunkIsMissing
  \/ \E c \in Chunks, s \in Seeders : StartThread(c, s)
  \/ WindowIsOut
  \/ JoinWindow
  \/ VerifySHA

DownloadThreadFails ==
  \/ \E s \in Seeders : SeederUnreachable(s) \/ SeederCutsOff(s)
  \/ FileCannotBeCreated

ChunkThread(c) ==
  \/ Receive(c, "intact")
  \/ WriteChunk(c)
  \/ LoadWord(c)
  \/ StoreWord(c)

ChunkThreadFails(c) == Receive(c, "damaged") \/ ChunkFails(c)

NextReliable == DownloadThread \/ \E c \in Chunks : ChunkThread(c)

Next ==
  \/ NextReliable
  \/ DownloadThreadFails
  \/ \E c \in Chunks : ChunkThreadFails(c)

Spec == Init /\ [][Next]_vars

\* Threads are scheduled, and a seeder that accepted a connection answers or
\* closes it (handleLeecherRequest writes once and closes, whatever it read).
Fairness ==
  /\ WF_vars(DownloadThread \/ DownloadThreadFails)
  /\ \A c \in Chunks : WF_vars(ChunkThread(c) \/ ChunkThreadFails(c))

FairSpec == Spec /\ Fairness

\* All seeders answer and every read() returns a whole chunk.
ReliableSpec == Init /\ [][NextReliable]_vars /\ Fairness

----------------------------------------------------------------------------
(* What holds whatever the seeders do.                                     *)

\* A chunk that the client tells others it has is one that a thread has
\* received and written: the flag follows the write, and a word stored over
\* a newer one never sets what nobody set.  The exception is the last chunk of
\* a file whose size is a multiple of CHUNK_SIZE, of which nothing is written.
AdvertisedIsWritten ==
  \A c \in isChunkAvailable : BytesWritten(c) > 0 => disk[c] \in {"intact", "damaged"}

\* pieceSelection never takes the first of an empty vector: the windows ask
\* for exactly as many pieces as there are.
SelectionFindsPiece == pc = "select" /\ window > 0 => toFetch # {}

\* Working, 11: rarest first, over the whole download.  What has been asked
\* for was held by no more clients than anything that still waits.
RarestGoFirst ==
  \A c \in Chunks \ toFetch, d \in toFetch : Holders(c) <= Holders(d)

\* The windows implement the promise of Transfer.
TransferOutcome ==
  CASE pc = "done" -> "settled"
    [] pc \in {"aborted", "segv"} -> "given up"
    [] OTHER -> "open"

Promise == INSTANCE Transfer WITH
  Parts <- Chunks,
  Width <- MaxThreads,
  waiting <- {c \in Chunks : thread[c] = "none"},
  moving <- Running,
  outcome <- TransferOutcome
TransferSpec == Promise!Spec

\* No seeder can make a download hang: it ends, one way or another.
Terminates == <>(pc \in Ended)

\* If the group holds the whole file, every chunk comes to its end: the file
\* cannot be created, or in the end every chunk has a thread that failed on it
\* or is in its place as it was received - but for the last chunk of a file
\* whose size is a multiple of CHUNK_SIZE, of which there is nothing.
Arrived(c) ==
  \/ thread[c] = "failed"
  \/ thread[c] = "ended" /\ disk[c] = IF BytesWritten(c) > 0 THEN outputBuffer[c] ELSE "absent"

EveryChunkArrives ==
  (pc = "survey" /\ toAsk = {} /\ EveryChunkIsHeld)
    ~> (pc = "aborted" \/ (pc = "done" /\ \A c \in Chunks : Arrived(c)))

----------------------------------------------------------------------------
(* What documentation or comments say and the code does not do.            *)

\* README, working, 10.2: "all the files which client downloads will be shareable to
\* other users in the same group".
DownloadsAreShareable ==
  pc = "done" /\ (\A c \in Chunks : disk[c] = "intact") => isChunkAvailable = Chunks
=============================================================================
