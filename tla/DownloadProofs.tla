--------------------------- MODULE DownloadProofs ---------------------------
(***************************************************************************)
(* Proofs about a download, for every size of the file, of its chunks, of  *)
(* the windows and of the words, and every set of seeders.                 *)
(***************************************************************************)
EXTENDS Download, FiniteSetTheorems, WellFoundedInduction, TLAPS

----------------------------------------------------------------------------
(* Arithmetic of the chunks and the windows.                               *)

LEMMA ChunkNumbers ==
  /\ TotalChunks \in Nat
  /\ Chunks \subseteq Nat
  /\ IsFiniteSet(Chunks)
  /\ Cardinality(Chunks) = TotalChunks
<1>1. TotalChunks \in Nat
  <2>1. \A a \in Nat, b \in Nat \ {0} : (a + b - 1) \div b \in Nat
    BY SMT
  <2>2. QED
    BY <2>1, ConstantsAreSound DEF TotalChunks
<1>2. QED
  BY <1>1, FS_Interval DEF Chunks

LEMMA WindowNumbers ==
  /\ TotalIterations \in Nat
  /\ TotalChunks = (TotalIterations * MaxThreads) + (TotalChunks % MaxThreads)
  /\ \A i \in Nat : WindowSize(i) \in 0 .. MaxThreads
<1>1. \A a \in Nat, b \in Nat \ {0} :
        /\ a \div b \in Nat
        /\ a = ((a \div b) * b) + (a % b)
        /\ a % b \in 0 .. b
  BY SMT
<1>2. QED
  BY <1>1, ChunkNumbers, ConstantsAreSound DEF TotalIterations, WindowSize

\* What the windows after the first i have still to take.
Later(i) == TotalChunks - (i * MaxThreads)

LEMMA LaterNumbers ==
  /\ Later(0) = TotalChunks
  /\ \A i \in Nat : i < TotalIterations => Later(i + 1) = Later(i) - WindowSize(i)
  /\ Later(TotalIterations) = WindowSize(TotalIterations)
  /\ \A i \in Nat : Later(i) \in Int
  /\ \A i \in Nat : i <= TotalIterations => Later(i) >= WindowSize(i)
<1>1. MaxThreads \in Nat /\ TotalChunks \in Nat /\ TotalIterations \in Nat
  BY ChunkNumbers, WindowNumbers, ConstantsAreSound
<1>2. \A i, n \in Nat : (i + 1) * n = (i * n) + n
  BY SMT
<1>3. Later(0) = TotalChunks /\ \A i \in Nat : Later(i) \in Int
  BY <1>1 DEF Later
<1>4. ASSUME NEW i \in Nat, i < TotalIterations
      PROVE  Later(i + 1) = Later(i) - WindowSize(i)
  BY <1>1, <1>2, <1>4 DEF Later, WindowSize
<1>5. Later(TotalIterations) = WindowSize(TotalIterations)
  <2> DEFINE q == TotalIterations * MaxThreads
             r == TotalChunks % MaxThreads
  <2>1. q \in Nat /\ r \in Nat
    BY <1>1, WindowNumbers, SMT DEF WindowSize
  <2>2. TotalChunks - q = r
    <3>1. TotalChunks = q + r
      BY WindowNumbers
    <3> HIDE DEF q, r
    <3>2. QED
      BY <2>1, <3>1
  <2>3. QED
    BY <1>1, <2>2 DEF Later, WindowSize
<1>6. ASSUME NEW i \in Nat, i <= TotalIterations
      PROVE  Later(i) >= WindowSize(i)
  <2>1. CASE i = TotalIterations
    BY <1>5, <2>1, <1>3, <1>1, WindowNumbers
  <2>2. CASE i < TotalIterations
    <3>1. \A a, b, n \in Nat : a < b => (a * n) + n <= b * n
      BY SMT
    <3>2. (i * MaxThreads) + MaxThreads <= TotalIterations * MaxThreads
      BY <1>1, <2>2, <3>1
    <3>3. TotalIterations * MaxThreads <= TotalChunks
      <4>1. \A a \in Nat, b \in Nat \ {0} : (a \div b) * b <= a
        BY SMT
      <4>2. QED
        BY <1>1, <4>1, ConstantsAreSound DEF TotalIterations
    <3>4. i * MaxThreads \in Nat /\ TotalIterations * MaxThreads \in Nat
      BY <1>1
    <3>5. QED
      BY <1>1, <2>2, <3>2, <3>3, <3>4 DEF Later, WindowSize
  <2>3. QED
    BY <1>1, <1>6, <2>1, <2>2
<1>7. QED
  BY <1>3, <1>4, <1>5, <1>6

----------------------------------------------------------------------------
(* The invariant of the windows.                                           *)

\* Before the file is created nothing has happened to any chunk; afterwards
\* the chunks in countOfClientForEachChunk are those without a thread.
Stages ==
  /\ pc \in {"survey", "aborted", "segv"} =>
       /\ \A c \in Chunks : thread[c] = "none"
       /\ toFetch = {} /\ isChunkAvailable = {} /\ iteration = 0
  /\ pc \in {"select", "join", "verify", "done"} =>
       \A c \in Chunks : thread[c] = "none" <=> c \in toFetch

\* What is left to fetch is what this window and the later ones will start,
\* and the threads that run are among those this window has started.
Counting ==
  /\ pc \in {"select", "join"} =>
       /\ iteration <= TotalIterations
       /\ window <= WindowSize(iteration)
       /\ Cardinality(toFetch) = Later(iteration) - WindowSize(iteration) + window
       /\ Cardinality(Running) + window <= MaxThreads
  /\ pc = "join" => window = 0
  /\ pc \in {"verify", "done"} => toFetch = {} /\ Running = {}

\* A thread that writes has something to write.
Filled == \A c \in Chunks : thread[c] = "write" => outputBuffer[c] # "empty"

WindowInv == TypeOK /\ Stages /\ Counting /\ Filled

LEMMA RunningIsFinite ==
  IsFiniteSet(Running) /\ Cardinality(Running) \in Nat
  BY ChunkNumbers, FS_Subset, FS_CardinalityType DEF Running

LEMMA ToFetchIsFinite ==
  ASSUME TypeOK
  PROVE  IsFiniteSet(toFetch) /\ Cardinality(toFetch) \in Nat
  BY ChunkNumbers, FS_Subset, FS_CardinalityType DEF TypeOK

LEMMA InitWindowInv == Init => WindowInv
  BY DEF Init, WindowInv, TypeOK, Stages, Counting, Filled, Returned

\* Before the threads, the file alone may change.
LEMMA SurveyStep ==
  ASSUME WindowInv, pc = "survey", pc' \in {"survey", "aborted", "segv"},
         toAsk' \in SUBSET Seeders,
         chunkStatusOfOthers' \in [Chunks -> SUBSET Seeders],
         disk' \in [Chunks -> {"absent", "zeros", "intact", "damaged"}],
         UNCHANGED <<windowVars, thread, outputBuffer, word, isChunkAvailable>>
  PROVE  WindowInv'
  BY DEF windowVars, chunkVars, WindowInv, TypeOK, Stages, Counting, Filled, Ended

LEMMA CreateFileStep ==
  ASSUME WindowInv, CreateFile
  PROVE  WindowInv'
<1> USE DEF WindowInv
<1>1. WindowSize(0) \in 0 .. MaxThreads /\ WindowSize(0) \in Nat
  BY WindowNumbers, ConstantsAreSound
<1>2. TypeOK'
  BY <1>1 DEF CreateFile, TypeOK, surveyVars
<1>3. Stages'
  BY DEF CreateFile, Stages
<1>4. Running' = {}
  BY DEF CreateFile, Stages, Running
<1>5. Counting'
  <2>1. iteration' = 0 /\ window' = WindowSize(0) /\ toFetch' = Chunks /\ pc' = "select"
    BY DEF CreateFile, Stages
  <2>2. 0 <= TotalIterations
    BY WindowNumbers
  <2>3. Cardinality(toFetch') = Later(0) - WindowSize(0) + WindowSize(0)
    BY <1>1, <2>1, ChunkNumbers, LaterNumbers
  <2>4. Cardinality(Running') = 0
    BY <1>4, FS_EmptySet
  <2>5. QED
    BY <1>1, <2>1, <2>2, <2>3, <2>4 DEF Counting, WindowSize, Later
<1>6. Filled'
  BY DEF CreateFile, Filled
<1>7. QED
  BY <1>2, <1>3, <1>5, <1>6

LEMMA StartThreadStep ==
  ASSUME WindowInv, NEW c \in Chunks, NEW s \in Seeders, StartThread(c, s)
  PROVE  WindowInv'
<1> USE DEF WindowInv
<1>1. /\ c \in toFetch /\ toFetch' = toFetch \ {c}
      /\ pc = "select" /\ window > 0 /\ window' = window - 1
      /\ thread' = [thread EXCEPT ![c] = "fetch"]
      /\ UNCHANGED <<pc, iteration>>
  BY DEF StartThread, First, FetchedLater
<1>2. TypeOK'
  BY <1>1 DEF StartThread, TypeOK, surveyVars
<1>3. Stages'
  BY <1>1 DEF Stages, TypeOK
<1>4. thread[c] = "none"
  BY <1>1 DEF Stages
<1>5. Running' = Running \cup {c} /\ c \notin Running
  BY <1>1, <1>4 DEF Running, TypeOK, Returned
<1>6. Cardinality(Running') = Cardinality(Running) + 1
  BY <1>5, RunningIsFinite, FS_AddElement
<1>7. Cardinality(toFetch') = Cardinality(toFetch) - 1
  BY <1>1, ToFetchIsFinite, FS_RemoveElement
<1>8. iteration \in Nat /\ window \in Nat /\ Later(iteration) \in Int
      /\ WindowSize(iteration) \in Nat /\ MaxThreads \in Nat
  BY LaterNumbers, WindowNumbers, ConstantsAreSound DEF TypeOK
<1>9. Counting'
  BY <1>1, <1>6, <1>7, <1>8, RunningIsFinite, ToFetchIsFinite DEF Counting, WindowSize, Later
<1>10. Filled'
  BY <1>1 DEF StartThread, Filled, TypeOK
<1>11. QED
  BY <1>2, <1>3, <1>9, <1>10

LEMMA JoinWindowStep ==
  ASSUME WindowInv, JoinWindow
  PROVE  WindowInv'
<1> USE DEF WindowInv
<1>1. /\ pc = "join" /\ Running = {} /\ window = 0
      /\ iteration' = iteration + 1
      /\ UNCHANGED <<toFetch, chunkVars>>
  BY DEF JoinWindow, Joined, Counting
<1>2. iteration \in Nat /\ Later(iteration) \in Int /\ WindowSize(iteration) \in Nat
      /\ MaxThreads \in Nat /\ TotalIterations \in Nat
      /\ WindowSize(iteration + 1) \in 0 .. MaxThreads
  BY LaterNumbers, WindowNumbers, ConstantsAreSound DEF TypeOK
<1>3. Cardinality(toFetch) = Later(iteration) - WindowSize(iteration)
  BY <1>1, <1>2 DEF Counting
<1>4. Running' = {} /\ Cardinality(Running') = 0
  BY <1>1, FS_EmptySet DEF Running, chunkVars
<1>5. TypeOK'
  BY <1>1, <1>2 DEF JoinWindow, TypeOK, surveyVars, chunkVars
<1>6. Stages'
  BY <1>1 DEF JoinWindow, Stages, chunkVars
<1>7. Counting'
  <2>1. CASE iteration < TotalIterations
    <3>1. pc' = "select" /\ window' = WindowSize(iteration + 1)
      BY <1>2, <2>1 DEF JoinWindow
    <3>2. Cardinality(toFetch') = Later(iteration + 1)
      BY <1>1, <1>2, <1>3, <2>1, LaterNumbers
    <3>3. Later(iteration + 1) \in Int /\ iteration + 1 <= TotalIterations
      BY <1>2, <2>1, LaterNumbers
    <3>4. QED
      BY <1>1, <1>2, <1>4, <3>1, <3>2, <3>3 DEF Counting, WindowSize, Later
  <2>2. CASE iteration = TotalIterations
    <3>1. pc' = "verify"
      BY <1>2, <2>2 DEF JoinWindow
    <3>2. Cardinality(toFetch) = 0
      BY <1>2, <1>3, <2>2, LaterNumbers
    <3>3. toFetch' = {}
      BY <1>1, <3>2, ToFetchIsFinite, FS_EmptySet
    <3>4. QED
      BY <1>4, <3>1, <3>3 DEF Counting
  <2>3. QED
    BY <2>1, <2>2 DEF JoinWindow
<1>8. Filled'
  BY <1>1 DEF Filled, chunkVars
<1>9. QED
  BY <1>5, <1>6, <1>7, <1>8

\* A thread that is running goes on or ends; the windows do not change.
LEMMA ChunkThreadStep ==
  ASSUME WindowInv, NEW c \in Chunks, thread[c] \notin {"none"} \cup Returned,
         NEW where \in {"write", "load", "store"} \cup Returned,
         thread' = [thread EXCEPT ![c] = where],
         outputBuffer' \in [Chunks -> {"empty", "intact", "damaged"}],
         word' \in [Chunks -> SUBSET Chunks],
         disk' \in [Chunks -> {"absent", "zeros", "intact", "damaged"}],
         isChunkAvailable' \in SUBSET Chunks,
         Filled',
         UNCHANGED <<pc, surveyVars, windowVars>>
  PROVE  WindowInv'
<1> USE DEF WindowInv, surveyVars, windowVars, Returned
<1>1. TypeOK'
  BY DEF TypeOK
<1>2. pc \in {"select", "join"} /\ UNCHANGED <<pc, toFetch, iteration, window>>
  BY DEF TypeOK, Stages, Counting, Running, Ended
<1>3. Stages'
  BY <1>2 DEF Stages, TypeOK
<1>4. Running' \subseteq Running
  BY DEF Running, TypeOK
<1>5. Cardinality(Running') <= Cardinality(Running) /\ Cardinality(Running') \in Nat
  BY <1>4, RunningIsFinite, FS_Subset, FS_CardinalityType
<1>6. Counting'
  BY <1>2, <1>5, RunningIsFinite, ConstantsAreSound DEF Counting, WindowSize, Later, TypeOK
<1>7. QED
  BY <1>1, <1>3, <1>6

LEMMA WindowInvStep ==
  WindowInv /\ [Next]_vars => WindowInv'
<1> SUFFICES ASSUME WindowInv, [Next]_vars
             PROVE  WindowInv'
  OBVIOUS
<1> USE DEF WindowInv
<1>1. ASSUME NEW s \in Seeders, NEW held \in SUBSET Chunks, ChunkInfo(s, held)
      PROVE  WindowInv'
  BY <1>1, SurveyStep DEF ChunkInfo, TypeOK, chunkVars
<1>2. ASSUME NEW s \in Seeders, SeederUnreachable(s) \/ SeederCutsOff(s)
      PROVE  WindowInv'
  BY <1>2, SurveyStep DEF SeederUnreachable, SeederCutsOff, TypeOK, surveyVars, chunkVars
<1>3. CASE ChunkIsMissing \/ FileCannotBeCreated
  BY <1>3, SurveyStep DEF ChunkIsMissing, FileCannotBeCreated, TypeOK, surveyVars, chunkVars
<1>4. CASE WindowIsOut
  BY <1>4, ConstantsAreSound
  DEF WindowIsOut, TypeOK, Stages, Counting, Filled, Running, WindowSize, Later, surveyVars, windowVars,
      chunkVars
<1>5. CASE VerifySHA
  BY <1>5
  DEF VerifySHA, TypeOK, Ended, Stages, Counting, Filled, Running, surveyVars, windowVars, chunkVars
<1>6. ASSUME NEW c \in Chunks, ChunkThread(c) \/ ChunkThreadFails(c)
      PROVE  WindowInv'
  <2>1. ASSUME NEW content \in {"intact", "damaged"}, Receive(c, content)
        PROVE  WindowInv'
    BY <2>1, ChunkThreadStep DEF Receive, TypeOK, Filled, Returned
  <2>2. CASE ChunkFails(c)
    BY <2>2, ChunkThreadStep DEF ChunkFails, TypeOK, Filled, Returned
  <2>3. CASE WriteChunk(c)
    <3>1. outputBuffer[c] \in {"intact", "damaged"}
      BY <2>3 DEF WriteChunk, TypeOK, Filled
    <3>2. disk' \in [Chunks -> {"absent", "zeros", "intact", "damaged"}]
      BY <2>3, <3>1 DEF WriteChunk, TypeOK
    <3>3. Filled'
      BY <2>3 DEF WriteChunk, TypeOK, Filled
    <3>4. QED
      BY <2>3, <3>2, <3>3, ChunkThreadStep DEF WriteChunk, TypeOK, Returned
  <2>4. CASE LoadWord(c)
    BY <2>4, ChunkThreadStep DEF LoadWord, TypeOK, Filled, Returned
  <2>5. CASE StoreWord(c)
    BY <2>5, ChunkThreadStep DEF StoreWord, TypeOK, Filled, Returned
  <2>6. QED
    BY <1>6, <2>1, <2>2, <2>3, <2>4, <2>5 DEF ChunkThread, ChunkThreadFails
<1>7. CASE UNCHANGED vars
  BY <1>7
  DEF vars, TypeOK, Stages, Counting, Filled, Running, WindowSize, Later, surveyVars, windowVars,
      chunkVars
<1>8. QED
  BY <1>1, <1>2, <1>3, <1>4, <1>5, <1>6, <1>7, CreateFileStep, StartThreadStep, JoinWindowStep
  DEF Next, NextReliable, DownloadThread, DownloadThreadFails

LEMMA SpecWindowInv == Spec => []WindowInv
  BY InitWindowInv, WindowInvStep, PTL DEF Spec

\* Every variable of a download has its type.
THEOREM DownloadTypeOK == Spec => []TypeOK
  BY SpecWindowInv, PTL DEF WindowInv

\* The windows never ask pieceSelection for a piece when there is none.
THEOREM DownloadSelectionFindsPiece == Spec => []SelectionFindsPiece
<1>1. WindowInv => SelectionFindsPiece
  <2> SUFFICES ASSUME WindowInv, pc = "select", window > 0, toFetch = {}
               PROVE  FALSE
    BY DEF SelectionFindsPiece
  <2>1. Cardinality(toFetch) = 0
    BY FS_EmptySet
  <2>2. Cardinality(toFetch) = Later(iteration) - WindowSize(iteration) + window
    BY DEF WindowInv, Counting
  <2>3. Later(iteration) >= WindowSize(iteration)
    BY LaterNumbers DEF WindowInv, Counting, TypeOK
  <2>4. Later(iteration) \in Int /\ WindowSize(iteration) \in Nat /\ window \in Nat
    BY LaterNumbers, WindowNumbers, ConstantsAreSound DEF WindowInv, TypeOK
  <2>5. QED
    BY <2>1, <2>2, <2>3, <2>4
<1>2. QED
  BY <1>1, SpecWindowInv, PTL

----------------------------------------------------------------------------
(* Rarest first.                                                           *)

LEMMA HoldersAreNumbers ==
  ASSUME TypeOK, NEW c \in Chunks
  PROVE  Holders(c) \in Nat
<1>1. IsFiniteSet(chunkStatusOfOthers[c])
  BY ConstantsAreSound, FS_Subset DEF TypeOK
<1>2. QED
  BY <1>1, FS_CardinalityType DEF Holders

\* After the survey the numbers of holders do not change, and whoever comes
\* first has no more than those that stay.
THEOREM DownloadRarestGoFirst == Spec => []RarestGoFirst
<1>1. Init => RarestGoFirst
  BY DEF Init, RarestGoFirst
<1>2. ASSUME WindowInv, RarestGoFirst, [Next]_vars
      PROVE  RarestGoFirst'
  <2> USE <1>2 DEF WindowInv
  <2>1. CASE UNCHANGED <<toFetch, chunkStatusOfOthers>>
    BY <2>1 DEF RarestGoFirst, Holders
  <2>2. CASE toFetch' = {} \/ toFetch' = Chunks
    BY <2>2 DEF RarestGoFirst
  <2>3. ASSUME NEW c \in Chunks, NEW s \in Seeders, StartThread(c, s)
        PROVE  RarestGoFirst'
    <3>1. /\ toFetch' = toFetch \ {c} /\ UNCHANGED chunkStatusOfOthers
          /\ \A d \in toFetch : Holders(c) < Holders(d) \/ Holders(c) = Holders(d)
      BY <2>3 DEF StartThread, FetchedLater, First, surveyVars
    <3>2. \A d \in toFetch : Holders(c) <= Holders(d)
      BY <3>1, HoldersAreNumbers DEF TypeOK
    <3>3. QED
      BY <3>1, <3>2 DEF RarestGoFirst, Holders
  <2>4. CASE JoinWindow \/ WindowIsOut \/ VerifySHA
    BY <2>1, <2>4 DEF JoinWindow, WindowIsOut, VerifySHA, surveyVars, windowVars
  <2>5. ASSUME NEW c \in Chunks, ChunkThread(c) \/ ChunkThreadFails(c)
        PROVE  RarestGoFirst'
    BY <2>1, <2>5
    DEF ChunkThread, ChunkThreadFails, Receive, ChunkFails, WriteChunk, LoadWord, StoreWord,
        surveyVars, windowVars
  <2>6. ASSUME NEW s \in Seeders, NEW held \in SUBSET Chunks, ChunkInfo(s, held)
        PROVE  RarestGoFirst'
    BY <2>2, <2>6 DEF ChunkInfo, Stages, windowVars
  <2>7. CASE DownloadThreadFails \/ ChunkIsMissing \/ UNCHANGED vars
    BY <2>1, <2>7
    DEF DownloadThreadFails, SeederUnreachable, SeederCutsOff, FileCannotBeCreated,
        ChunkIsMissing, surveyVars, windowVars, vars
  <2>8. CASE CreateFile
    BY <2>2, <2>8 DEF CreateFile
  <2>9. QED
    BY <2>3, <2>4, <2>5, <2>6, <2>7, <2>8 DEF Next, NextReliable, DownloadThread
<1>3. QED
  BY <1>1, <1>2, SpecWindowInv, PTL DEF Spec

----------------------------------------------------------------------------
(* Flags follow writes.                                                    *)

Written == {"intact", "damaged"}

\* A thread that is past its write has written, and whatever it loaded from
\* the vector<bool> was written before - as far as there is anything to write.
Settled(c) == BytesWritten(c) > 0 => disk[c] \in Written

FlagsFollow ==
  /\ \A c \in Chunks : thread[c] \in {"load", "store"} => Settled(c)
  /\ \A c \in Chunks : thread[c] = "store" => \A d \in word[c] : Settled(d)
  /\ AdvertisedIsWritten

\* What the client offers to others is on its disk, whatever the sizes of the
\* file, the chunks, the windows and the words.
THEOREM DownloadAdvertisedIsWritten == Spec => []AdvertisedIsWritten
<1>1. \A c \in Chunks : BytesWritten(c)' = BytesWritten(c)
  BY DEF BytesWritten
<1>2. Init => FlagsFollow
  BY DEF Init, FlagsFollow, AdvertisedIsWritten
<1>3. ASSUME WindowInv, FlagsFollow, [Next]_vars
      PROVE  FlagsFollow'
  <2> USE <1>3 DEF WindowInv
  <2> DEFINE Kept == \A d \in Chunks : Settled(d) => Settled(d)'
  <2>1. CASE UNCHANGED chunkVars
    BY <1>1, <2>1 DEF chunkVars, FlagsFollow, AdvertisedIsWritten, Settled
  <2>2. CASE CreateFile \/ FileCannotBeCreated
    BY <2>2
    DEF CreateFile, FileCannotBeCreated, Stages, FlagsFollow, AdvertisedIsWritten
  <2>3. ASSUME NEW c \in Chunks, NEW s \in Seeders, StartThread(c, s)
        PROVE  FlagsFollow'
    BY <1>1, <2>3 DEF StartThread, TypeOK, FlagsFollow, AdvertisedIsWritten, Settled
  <2>4. ASSUME NEW c \in Chunks, NEW content, Receive(c, content)
        PROVE  FlagsFollow'
    BY <1>1, <2>4 DEF Receive, TypeOK, FlagsFollow, AdvertisedIsWritten, Settled
  <2>5. ASSUME NEW c \in Chunks, ChunkFails(c)
        PROVE  FlagsFollow'
    BY <1>1, <2>5 DEF ChunkFails, TypeOK, FlagsFollow, AdvertisedIsWritten, Settled
  <2>6. ASSUME NEW c \in Chunks, WriteChunk(c)
        PROVE  FlagsFollow'
    <3>1. outputBuffer[c] \in Written
      BY <2>6 DEF WriteChunk, TypeOK, Filled, Written
    <3>2. /\ \A d \in Chunks \ {c} : disk'[d] = disk[d]
          /\ BytesWritten(c) > 0 => disk'[c] = outputBuffer[c]
      BY <2>6 DEF WriteChunk, ReachesDisk, TypeOK
    <3>3. Settled(c)' /\ Kept
      BY <1>1, <3>1, <3>2 DEF Settled
    <3>4. thread' = [thread EXCEPT ![c] = "load"] /\ UNCHANGED <<word, isChunkAvailable>>
      BY <2>6 DEF WriteChunk
    <3>5. \A d \in Chunks : thread'[d] = "store" => \A e \in word'[d] : Settled(e)'
      BY <3>3, <3>4 DEF TypeOK, FlagsFollow
    <3>6. \A d \in Chunks : thread'[d] \in {"load", "store"} => Settled(d)'
      BY <3>3, <3>4 DEF TypeOK, FlagsFollow
    <3>7. \A d \in isChunkAvailable' : Settled(d)'
      BY <3>3, <3>4 DEF TypeOK, FlagsFollow, AdvertisedIsWritten, Settled, Written
    <3>8. QED
      BY <3>5, <3>6, <3>7 DEF FlagsFollow, AdvertisedIsWritten, Settled, Written
  <2>7. ASSUME NEW c \in Chunks, LoadWord(c)
        PROVE  FlagsFollow'
    BY <1>1, <2>7 DEF LoadWord, TypeOK, FlagsFollow, AdvertisedIsWritten, Settled, Written
  <2>8. ASSUME NEW c \in Chunks, StoreWord(c)
        PROVE  FlagsFollow'
    BY <1>1, <2>8 DEF StoreWord, TypeOK, FlagsFollow, AdvertisedIsWritten, Settled, Written
  <2>9. ASSUME NEW s \in Seeders, NEW held \in SUBSET Chunks, ChunkInfo(s, held)
        PROVE  UNCHANGED chunkVars
    BY <2>9 DEF ChunkInfo
  <2>10. CASE JoinWindow \/ WindowIsOut \/ VerifySHA \/ ChunkIsMissing \/ DownloadThreadFails
              \/ UNCHANGED vars
    BY <2>1, <2>2, <2>10
    DEF JoinWindow, WindowIsOut, VerifySHA, ChunkIsMissing, DownloadThreadFails,
        SeederUnreachable, SeederCutsOff, vars
  <2>11. QED
    BY <2>1, <2>2, <2>3, <2>4, <2>5, <2>6, <2>7, <2>8, <2>9, <2>10
    DEF Next, NextReliable, DownloadThread, ChunkThread, ChunkThreadFails
<1>4. QED
  BY <1>2, <1>3, SpecWindowInv, PTL DEF Spec, FlagsFollow

----------------------------------------------------------------------------
(* The windows implement Transfer.                                         *)

Unstarted == {c \in Chunks : thread[c] = "none"}

LEMMA TransferStep ==
  WindowInv /\ [Next]_vars => [Promise!Next]_Promise!vars
<1> SUFFICES ASSUME WindowInv, [Next]_vars
             PROVE  Promise!Next \/ UNCHANGED Promise!vars
  OBVIOUS
<1> USE DEF WindowInv, Returned
<1>1. CASE UNCHANGED <<thread, TransferOutcome>>
  BY <1>1 DEF Promise!vars, Running
<1>2. CASE pc = "survey" /\ pc' \in {"aborted", "segv"} /\ UNCHANGED thread
  <2>1. Unstarted = Chunks
    BY <1>2 DEF Stages, Unstarted
  <2>2. Promise!GiveUp
    BY <1>2, <2>1 DEF Promise!GiveUp, TransferOutcome, Unstarted, Running
  <2>3. QED
    BY <2>2 DEF Promise!Next
<1>3. ASSUME NEW c \in Chunks, NEW s \in Seeders, StartThread(c, s)
      PROVE  Promise!Next
  <2>1. /\ pc = "select" /\ pc' = "select" /\ c \in toFetch /\ window > 0
        /\ thread' = [thread EXCEPT ![c] = "fetch"]
    BY <1>3 DEF StartThread, First
  <2>2. thread[c] = "none"
    BY <2>1 DEF Stages
  <2>3. Cardinality(Running) < MaxThreads
    BY <2>1, RunningIsFinite, ConstantsAreSound DEF Counting, TypeOK
  <2>4. Running' = Running \cup {c} /\ Unstarted' = Unstarted \ {c}
    BY <2>1, <2>2 DEF Running, Unstarted, TypeOK
  <2>5. TransferOutcome = "open" /\ TransferOutcome' = "open"
    BY <2>1 DEF TransferOutcome
  <2>6. Promise!Cardinality(Running) = Cardinality(Running)
    BY DEF Cardinality, Promise!Cardinality
  <2>7. Promise!Start(c)
    BY <2>2, <2>3, <2>4, <2>5, <2>6 DEF Promise!Start, Unstarted
  <2>8. QED
    BY <2>7 DEF Promise!Next
<1>4. ASSUME NEW c \in Chunks, thread[c] \notin {"none"} \cup Returned,
             NEW where \in {"write", "load", "store"},
             thread' = [thread EXCEPT ![c] = where], UNCHANGED pc
      PROVE  UNCHANGED Promise!vars
  <2>1. Running' = Running /\ Unstarted' = Unstarted
    BY <1>4 DEF Running, Unstarted, TypeOK
  <2>2. QED
    BY <1>4, <2>1 DEF Promise!vars, TransferOutcome, Unstarted
<1>5. ASSUME NEW c \in Chunks, thread[c] \notin {"none"} \cup Returned,
             NEW where \in Returned,
             thread' = [thread EXCEPT ![c] = where], UNCHANGED pc
      PROVE  Promise!Next
  <2>1. c \in Running /\ Running' = Running \ {c} /\ Unstarted' = Unstarted
    BY <1>5 DEF Running, Unstarted, TypeOK
  <2>2. Promise!Finish(c)
    BY <1>5, <2>1 DEF Promise!Finish, TransferOutcome, Unstarted
  <2>3. QED
    BY <2>2 DEF Promise!Next
<1>6. CASE VerifySHA
  <2>1. /\ pc = "verify" /\ pc' = "done" /\ UNCHANGED thread
        /\ Running = {} /\ toFetch = {}
    BY <1>6 DEF VerifySHA, Counting, chunkVars
  <2>2. Unstarted = {}
    BY <2>1 DEF Stages, Unstarted
  <2>3. Promise!Settle
    BY <2>1, <2>2 DEF Promise!Settle, TransferOutcome, Unstarted, Running
  <2>4. QED
    BY <2>3 DEF Promise!Next
<1>7. ASSUME NEW c \in Chunks, ChunkThread(c) \/ ChunkThreadFails(c)
      PROVE  Promise!Next \/ UNCHANGED Promise!vars
  BY <1>4, <1>5, <1>7
  DEF ChunkThread, ChunkThreadFails, Receive, ChunkFails, WriteChunk, LoadWord, StoreWord
<1>8. CASE JoinWindow \/ WindowIsOut \/ CreateFile \/ UNCHANGED vars
  BY <1>1, <1>8
  DEF JoinWindow, WindowIsOut, CreateFile, vars, chunkVars, TransferOutcome
<1>9. ASSUME NEW s \in Seeders, NEW held \in SUBSET Chunks, ChunkInfo(s, held)
      PROVE  Promise!Next \/ UNCHANGED Promise!vars
  BY <1>1, <1>9 DEF ChunkInfo, chunkVars, TransferOutcome
<1>10. CASE ChunkIsMissing \/ DownloadThreadFails
  BY <1>2, <1>10
  DEF ChunkIsMissing, DownloadThreadFails, SeederUnreachable, SeederCutsOff,
      FileCannotBeCreated, chunkVars
<1>11. QED
  BY <1>3, <1>6, <1>7, <1>8, <1>9, <1>10 DEF Next, NextReliable, DownloadThread

\* Every chunk is asked for once, at most MaxThreads at a time, and the SHA
\* is compared after the last thread has ended.
THEOREM DownloadImplementsTransfer == Spec => TransferSpec
<1>1. Init => Promise!Init
  BY DEF Init, Promise!Init, Running, TransferOutcome
<1>2. QED
  BY <1>1, SpecWindowInv, TransferStep, PTL DEF Spec, TransferSpec, Promise!Spec

----------------------------------------------------------------------------
(* Every step of a download is one of boundedly many.                      *)

\* How many steps the thread of chunk c has ahead of it, if it is not cut
\* short: started, received, written, word loaded, word stored.
Stage(c) ==
  CASE thread[c] = "none"  -> 5
    [] thread[c] = "fetch" -> 4
    [] thread[c] = "write" -> 3
    [] thread[c] = "load"  -> 2
    [] thread[c] = "store" -> 1
    [] OTHER -> 0

ChunkStepsAhead == {q \in Chunks \X (1 .. 5) : q[2] <= Stage(q[1])}

\* How many steps handleDownloadThread has ahead of it, those that ask a
\* seeder or start a thread not counted.
WindowsLeft == TotalIterations - iteration

ControlSteps ==
  CASE pc = "survey" -> (2 * TotalIterations) + 4
    [] pc = "select" -> (2 * WindowsLeft) + 3
    [] pc = "join"   -> (2 * WindowsLeft) + 2
    [] pc = "verify" -> 1
    [] OTHER -> 0

StepsLeft == ControlSteps + Cardinality(toAsk) + Cardinality(ChunkStepsAhead)

AreNumbers ==
  /\ ControlSteps \in Nat
  /\ IsFiniteSet(toAsk) /\ Cardinality(toAsk) \in Nat
  /\ IsFiniteSet(ChunkStepsAhead) /\ Cardinality(ChunkStepsAhead) \in Nat

LEMMA FiveStages == IsFiniteSet(1 .. 5) /\ Cardinality(1 .. 5) = 5
<1>1. 1 \in Int /\ 5 \in Int /\ ~(1 > 5) /\ 5 - 1 + 1 = 5
  OBVIOUS
<1>2. QED
  BY ONLY <1>1, FS_Interval

LEMMA StepsAreNumbers == WindowInv => AreNumbers
<1> SUFFICES ASSUME WindowInv PROVE AreNumbers
  OBVIOUS
<1> USE DEF WindowInv
<1>1. IsFiniteSet(toAsk) /\ Cardinality(toAsk) \in Nat
  BY ConstantsAreSound, FS_Subset, FS_CardinalityType DEF TypeOK
<1>2. IsFiniteSet(Chunks \X (1 .. 5))
  BY FiveStages, ChunkNumbers, FS_Product
<1>3. ChunkStepsAhead \in SUBSET (Chunks \X (1 .. 5))
  BY DEF ChunkStepsAhead
<1>4. IsFiniteSet(ChunkStepsAhead) /\ Cardinality(ChunkStepsAhead) \in Nat
  BY <1>2, <1>3, FS_Subset, FS_CardinalityType
<1>5. ControlSteps \in Nat
  BY WindowNumbers DEF ControlSteps, WindowsLeft, Counting, TypeOK
<1>6. QED
  BY <1>1, <1>4, <1>5 DEF AreNumbers

\* A part of a finite set that misses something is smaller.
LEMMA FewerLeft ==
  ASSUME NEW S, IsFiniteSet(S), NEW T \in SUBSET S, T # S
  PROVE  Cardinality(T) \in Nat /\ Cardinality(S) \in Nat /\ Cardinality(T) < Cardinality(S)
  BY FS_Subset, FS_CardinalityType

\* handleDownloadThread goes on, and no chunk does.
LEMMA ControlStepDescends ==
  ASSUME AreNumbers, AreNumbers', UNCHANGED thread,
         \/ UNCHANGED toAsk /\ ControlSteps' < ControlSteps
         \/ UNCHANGED <<pc, iteration>> /\ \E s \in toAsk : toAsk' = toAsk \ {s}
  PROVE  StepsLeft' < StepsLeft
<1>1. ChunkStepsAhead' = ChunkStepsAhead
  BY DEF ChunkStepsAhead, Stage
<1>2. CASE UNCHANGED toAsk /\ ControlSteps' < ControlSteps
  BY <1>1, <1>2 DEF AreNumbers, StepsLeft
<1>3. CASE UNCHANGED <<pc, iteration>> /\ \E s \in toAsk : toAsk' = toAsk \ {s}
  <2>1. Cardinality(toAsk') < Cardinality(toAsk)
    BY <1>3, FewerLeft DEF AreNumbers
  <2>2. ControlSteps' = ControlSteps
    BY <1>3 DEF ControlSteps, WindowsLeft
  <2>3. QED
    BY <1>1, <2>1, <2>2 DEF AreNumbers, StepsLeft
<1>4. QED
  BY <1>2, <1>3

\* The thread of chunk c goes on, or is started.
LEMMA ChunkStepDescends ==
  ASSUME WindowInv, AreNumbers, AreNumbers', NEW c \in Chunks,
         NEW where \in {"fetch", "write", "load", "store"} \cup Returned,
         thread' = [thread EXCEPT ![c] = where],
         Stage(c) > 0, Stage(c)' < Stage(c),
         UNCHANGED <<pc, iteration, toAsk>>
  PROVE  StepsLeft' < StepsLeft
<1>1. \A d \in Chunks \ {c} : Stage(d)' = Stage(d)
  BY DEF Stage, WindowInv, TypeOK, Returned
<1>2. Stage(c) \in 1 .. 5 /\ Stage(c)' \in 0 .. 5
  BY DEF Stage
<1>3. ChunkStepsAhead' \in SUBSET ChunkStepsAhead
  <2>1. ASSUME NEW q \in Chunks \X (1 .. 5), q[2] <= Stage(q[1])'
        PROVE  q[2] <= Stage(q[1])
    BY <1>1, <1>2, <2>1
  <2>2. QED
    BY <2>1 DEF ChunkStepsAhead
<1>4. <<c, Stage(c)>> \in ChunkStepsAhead /\ <<c, Stage(c)>> \notin ChunkStepsAhead'
  BY <1>2 DEF ChunkStepsAhead
<1>5. Cardinality(ChunkStepsAhead') < Cardinality(ChunkStepsAhead)
  BY <1>3, <1>4, FewerLeft DEF AreNumbers
<1>6. ControlSteps' = ControlSteps /\ toAsk' = toAsk
  BY DEF ControlSteps, WindowsLeft
<1>7. QED
  BY <1>5, <1>6 DEF AreNumbers, StepsLeft

LEMMA StepDescends ==
  ASSUME WindowInv, AreNumbers, AreNumbers', Next
  PROVE  StepsLeft' < StepsLeft
<1> USE DEF WindowInv
<1>1. ASSUME NEW s \in Seeders, NEW held \in SUBSET Chunks, ChunkInfo(s, held)
      PROVE  StepsLeft' < StepsLeft
  BY <1>1, ControlStepDescends DEF ChunkInfo, windowVars, chunkVars
<1>2. CASE ChunkIsMissing \/ DownloadThreadFails
  <2>1. pc = "survey" /\ pc' \in Ended /\ UNCHANGED <<toAsk, thread>>
    BY <1>2
    DEF ChunkIsMissing, DownloadThreadFails, SeederUnreachable, SeederCutsOff,
        FileCannotBeCreated, surveyVars, chunkVars, Ended
  <2>2. ControlSteps' < ControlSteps
    BY <2>1, WindowNumbers DEF ControlSteps, Ended
  <2>3. QED
    BY <2>1, <2>2, ControlStepDescends
<1>3. CASE CreateFile
  <2>1. pc = "survey" /\ pc' = "select" /\ iteration' = 0 /\ UNCHANGED <<toAsk, thread>>
    BY <1>3 DEF CreateFile, surveyVars, Stages
  <2>2. ControlSteps' < ControlSteps
    BY <2>1, WindowNumbers DEF ControlSteps, WindowsLeft
  <2>3. QED
    BY <2>1, <2>2, ControlStepDescends
<1>4. CASE WindowIsOut
  <2>1. pc = "select" /\ pc' = "join" /\ UNCHANGED <<iteration, toAsk, thread>>
    BY <1>4 DEF WindowIsOut, surveyVars, windowVars, chunkVars
  <2>2. ControlSteps' < ControlSteps
    BY <2>1, WindowNumbers DEF ControlSteps, WindowsLeft, TypeOK
  <2>3. QED
    BY <2>1, <2>2, ControlStepDescends
<1>5. CASE JoinWindow
  <2>1. pc = "join" /\ iteration' = iteration + 1 /\ UNCHANGED <<toAsk, thread>>
        /\ (pc' = "select" \/ (pc' = "verify" /\ iteration = TotalIterations))
    BY <1>5 DEF JoinWindow, surveyVars, chunkVars
  <2>2. ControlSteps' < ControlSteps
    BY <2>1, WindowNumbers DEF ControlSteps, WindowsLeft, TypeOK
  <2>3. QED
    BY <2>1, <2>2, ControlStepDescends
<1>6. CASE VerifySHA
  <2>1. pc = "verify" /\ pc' = "done" /\ UNCHANGED <<toAsk, thread>>
    BY <1>6 DEF VerifySHA, surveyVars, chunkVars
  <2>2. ControlSteps' < ControlSteps
    BY <2>1 DEF ControlSteps
  <2>3. QED
    BY <2>1, <2>2, ControlStepDescends
<1>7. ASSUME NEW c \in Chunks, NEW s \in Seeders, StartThread(c, s)
      PROVE  StepsLeft' < StepsLeft
  <2>1. /\ thread[c] = "none" /\ thread' = [thread EXCEPT ![c] = "fetch"]
        /\ UNCHANGED <<pc, iteration, toAsk>>
    BY <1>7 DEF StartThread, First, Stages, surveyVars
  <2>2. Stage(c) = 5 /\ Stage(c)' = 4
    BY <2>1 DEF Stage, TypeOK
  <2>3. Stage(c) > 0 /\ Stage(c)' < Stage(c)
    BY <2>2
  <2>4. QED
    BY <2>1, <2>3, ChunkStepDescends
<1>8. ASSUME NEW c \in Chunks, ChunkThread(c) \/ ChunkThreadFails(c)
      PROVE  StepsLeft' < StepsLeft
  <2>1. UNCHANGED <<pc, iteration, toAsk>>
    BY <1>8
    DEF ChunkThread, ChunkThreadFails, Receive, ChunkFails, WriteChunk, LoadWord, StoreWord,
        surveyVars, windowVars
  <2>2. PICK where \in {"write", "load", "store"} \cup Returned :
          /\ thread' = [thread EXCEPT ![c] = where]
          /\ \/ thread[c] = "fetch"
             \/ thread[c] = "write" /\ where \in {"load", "failed"}
             \/ thread[c] = "load" /\ where = "store"
             \/ thread[c] = "store" /\ where = "ended"
    BY <1>8
    DEF ChunkThread, ChunkThreadFails, Receive, ChunkFails, WriteChunk, LoadWord, StoreWord,
        Returned
  <2>3. thread'[c] = where
    BY <2>2 DEF TypeOK
  <2>4. Stage(c) > 0 /\ Stage(c)' < Stage(c)
    BY <2>2, <2>3 DEF Stage, Returned
  <2>5. QED
    BY <2>1, <2>2, <2>4, ChunkStepDescends
<1>9. QED
  BY <1>1, <1>2, <1>3, <1>4, <1>5, <1>6, <1>7, <1>8 DEF Next, NextReliable, DownloadThread

\* The safety half of Terminates, for any seeders and any failures: a download
\* begins with boundedly many steps ahead of it, and each step that it or one
\* of its chunk threads takes leaves fewer.  No loop of handleDownloadThread
\* can go round for ever.
THEOREM DownloadStepsRunOut ==
  /\ Init => StepsLeft = (2 * TotalIterations) + 4 + Cardinality(Seeders) + (5 * TotalChunks)
  /\ Spec => []( StepsLeft \in Nat )
  /\ Spec => [][StepsLeft' < StepsLeft]_vars
<1>1. ASSUME Init
      PROVE  StepsLeft = (2 * TotalIterations) + 4 + Cardinality(Seeders) + (5 * TotalChunks)
  <2>1. ChunkStepsAhead = Chunks \X (1 .. 5)
    BY <1>1 DEF Init, ChunkStepsAhead, Stage
  <2>2. Cardinality(Chunks \X (1 .. 5)) = TotalChunks * 5
    BY FiveStages, ChunkNumbers, FS_Product
  <2>3. ControlSteps = (2 * TotalIterations) + 4 /\ toAsk = Seeders
    BY <1>1 DEF Init, ControlSteps
  <2>4. Cardinality(Seeders) \in Nat
    BY ConstantsAreSound, FS_CardinalityType
  <2>5. QED
    BY <2>1, <2>2, <2>3, <2>4, ChunkNumbers, WindowNumbers DEF StepsLeft
<1>2. AreNumbers => StepsLeft \in Nat
  BY DEF AreNumbers, StepsLeft
<1>3. WindowInv /\ AreNumbers /\ AreNumbers' /\ [Next]_vars => [StepsLeft' < StepsLeft]_vars
  BY StepDescends
<1>4. Spec => []( StepsLeft \in Nat )
  BY <1>2, StepsAreNumbers, SpecWindowInv, PTL
<1>5. Spec => [][StepsLeft' < StepsLeft]_vars
  BY <1>3, StepsAreNumbers, SpecWindowInv, PTL DEF Spec
<1>6. QED
  BY <1>1, <1>4, <1>5

----------------------------------------------------------------------------
(* Piece selection always succeeds.                                        *)

\* The file has been created because the survey found every chunk somewhere.
HeldOnceCreated == pc \in {"select", "join", "verify", "done"} => EveryChunkIsHeld

LEMMA SpecHeldOnceCreated == Spec => []HeldOnceCreated
<1>1. Init => HeldOnceCreated
  BY DEF Init, HeldOnceCreated
<1>2. HeldOnceCreated /\ [Next]_vars => HeldOnceCreated'
  <2> SUFFICES ASSUME HeldOnceCreated, [Next]_vars
               PROVE  HeldOnceCreated'
    OBVIOUS
  <2>1. CASE /\ UNCHANGED chunkStatusOfOthers
             /\ \/ EveryChunkIsHeld
                \/ pc \in {"select", "join", "verify", "done"}
                \/ pc' \in {"aborted", "segv"}
    BY <2>1 DEF HeldOnceCreated, EveryChunkIsHeld
  <2>2. ASSUME NEW c \in Chunks, ChunkThread(c) \/ ChunkThreadFails(c)
        PROVE  UNCHANGED <<pc, chunkStatusOfOthers>>
    BY <2>2
    DEF ChunkThread, ChunkThreadFails, Receive, ChunkFails, WriteChunk, LoadWord, StoreWord,
        surveyVars
  <2>3. CASE UNCHANGED <<pc, chunkStatusOfOthers>>
    BY <2>3 DEF HeldOnceCreated, EveryChunkIsHeld
  <2>4. ASSUME NEW c \in Chunks, NEW s \in Seeders, StartThread(c, s)
        PROVE  UNCHANGED <<pc, chunkStatusOfOthers>>
    BY <2>4 DEF StartThread, surveyVars
  <2>5. CASE DownloadThread \/ DownloadThreadFails
    BY <2>1, <2>3, <2>4, <2>5
    DEF DownloadThread, DownloadThreadFails, ChunkInfo, SeederUnreachable, SeederCutsOff,
        FileCannotBeCreated, CreateFile, ChunkIsMissing, WindowIsOut, JoinWindow, VerifySHA,
        surveyVars, Ended, HeldOnceCreated
  <2>6. QED
    BY <2>2, <2>3, <2>5 DEF Next, NextReliable, vars, surveyVars
<1>3. QED
  BY <1>1, <1>2, PTL DEF Spec

\* Some number of a set of natural numbers is the smallest.
LEMMA SmallestNumber ==
  ASSUME NEW T \in SUBSET Nat, T # {}
  PROVE  \E x \in T : \A y \in T : x <= y
<1>1. PICK x \in T : \A y \in T : <<y, x>> \notin OpToRel(<, Nat)
  BY NatLessThanWellFounded, WFMin
<1>2. ASSUME NEW y \in T
      PROVE  x <= y
  <2>1. ~(y < x)
    BY <1>1 DEF OpToRel
  <2>2. QED
    BY <2>1
<1>3. QED
  BY <1>2

\* Whenever a window has a thread to start, sort() leaves one chunk first, and
\* the set of seeders out of which pieceSelection draws is not empty, nor are
\* chunks of it asked for already.
SelectionIsDetermined ==
  pc = "select" /\ window > 0 =>
    \E c \in toFetch :
      /\ \A d \in Chunks : First(d) <=> d = c
      /\ thread[c] = "none"
      /\ \E s \in Seeders : s \in chunkStatusOfOthers[c]

\* pieceSelection is asked for as many pieces as there are, always finds one
\* rarest piece first in the file, and always someone to ask for it; a download
\* that has created its file is never stuck at a selection.
THEOREM DownloadSelectionIsDetermined == Spec => []SelectionIsDetermined
<1>1. ASSUME WindowInv, SelectionFindsPiece, HeldOnceCreated
      PROVE  SelectionIsDetermined
  <2> USE <1>1 DEF WindowInv
  <2> SUFFICES ASSUME pc = "select", window > 0
               PROVE  \E c \in toFetch :
                        /\ \A d \in Chunks : First(d) <=> d = c
                        /\ thread[c] = "none"
                        /\ \E s \in Seeders : s \in chunkStatusOfOthers[c]
    BY DEF SelectionIsDetermined
  <2>1. toFetch \in SUBSET Chunks /\ toFetch # {} /\ Chunks \subseteq Nat
    BY ChunkNumbers DEF SelectionFindsPiece, TypeOK
  <2>2. \A d \in toFetch : Holders(d) \in Nat
    BY <2>1, HoldersAreNumbers
  <2> DEFINE Counts == {Holders(d) : d \in toFetch}
  <2>3. Counts \in SUBSET Nat /\ Counts # {}
    BY <2>1, <2>2
  <2> HIDE DEF Counts
  <2>4. PICK n \in Counts : \A m \in Counts : n <= m
    BY <2>3, SmallestNumber
  <2> USE DEF Counts
  <2> DEFINE Rarest == {d \in toFetch : Holders(d) = n}
  <2>5. PICK c \in Rarest : \A d \in Rarest : c <= d
    BY <2>1, <2>4, SmallestNumber
  <2>6. c \in toFetch /\ Holders(c) = n /\ c \in Nat
    BY <2>1, <2>5
  <2>7. \A d \in toFetch : Holders(c) < Holders(d) \/ (Holders(c) = Holders(d) /\ c <= d)
    <3>1. ASSUME NEW d \in toFetch
          PROVE  n <= Holders(d) /\ (Holders(d) = n => c <= d)
      BY <2>4, <2>5
    <3>2. QED
      BY <2>2, <2>6, <3>1
  <2>8. First(c)
    BY <2>6, <2>7 DEF First
  <2>9. \A d \in Chunks : First(d) => d = c
    <3>1. ASSUME NEW d \in Chunks, First(d)
          PROVE  d = c
      <4>1. d \in toFetch /\ d \in Nat
        BY <2>1, <3>1 DEF First
      <4>2. Holders(d) < Holders(c) \/ (Holders(d) = Holders(c) /\ d <= c)
        BY <2>6, <3>1 DEF First
      <4>3. Holders(c) < Holders(d) \/ (Holders(c) = Holders(d) /\ c <= d)
        BY <2>7, <4>1
      <4>4. QED
        BY <2>2, <2>6, <4>1, <4>2, <4>3
    <3>2. QED
      BY <3>1
  <2>10. thread[c] = "none"
    BY <2>1, <2>6 DEF Stages
  <2>11. chunkStatusOfOthers[c] # {} /\ chunkStatusOfOthers[c] \subseteq Seeders
    BY <2>1, <2>6 DEF HeldOnceCreated, EveryChunkIsHeld, TypeOK
  <2>12. QED
    BY <2>6, <2>8, <2>9, <2>10, <2>11
<1>2. QED
  BY <1>1, SpecWindowInv, DownloadSelectionFindsPiece, SpecHeldOnceCreated, PTL

----------------------------------------------------------------------------
(* Which flags the shared words of vector<bool> can lose.                  *)

\* What is on the disk got there through a thread that is past its write; of
\* the word of a thread that has ended after its write, some flag is set.
FlagsOfWords ==
  /\ \A c \in Chunks : disk[c] \in Written => thread[c] \in {"load", "store", "ended"}
  /\ \A c \in Chunks : thread[c] = "ended" /\ disk[c] \in Written =>
       \E d \in isChunkAvailable : d \in WordOf(c)

\* Where each thread stores over nothing that it has not loaded, the flag of
\* every thread that has ended after its write is set.
FlagsKept ==
  /\ \A c \in Chunks : thread[c] = "ended" /\ disk[c] \in Written => c \in isChunkAvailable
  /\ \A c \in Chunks : thread[c] = "store" =>
       isChunkAvailable \cap WordOf(c) \subseteq word[c] \cup {c}

LEMMA WordsAreParts ==
  ASSUME NEW c \in Chunks, NEW d \in Chunks
  PROVE  /\ c \in WordOf(c)
         /\ d \in WordOf(c) => WordOf(c) = WordOf(d)
         /\ d \notin WordOf(c) => WordOf(c) \cap WordOf(d) = {}
  BY DEF WordOf

\* What a step of any thread but StoreWord does to the disk and the flags.
LEMMA FlagFrame ==
  ASSUME WindowInv, FlagsOfWords, [Next]_vars, \A c \in Chunks : ~StoreWord(c)
  PROVE  /\ UNCHANGED isChunkAvailable
         /\ \A c \in Chunks : disk'[c] \in Written => thread'[c] \in {"load", "store", "ended"}
         /\ \A c \in Chunks : thread'[c] = "ended" /\ disk'[c] \in Written =>
              thread[c] = "ended" /\ disk[c] \in Written
         /\ \A c \in Chunks : thread'[c] = "store" =>
              \/ thread[c] = "store" /\ word'[c] = word[c]
              \/ word'[c] = isChunkAvailable \cap WordOf(c)
<1> USE DEF WindowInv
<1>1. CASE UNCHANGED chunkVars
  BY <1>1 DEF chunkVars, FlagsOfWords
<1>2. CASE CreateFile \/ FileCannotBeCreated
  BY <1>2 DEF CreateFile, FileCannotBeCreated, Stages, FlagsOfWords, Written
<1>3. ASSUME NEW c \in Chunks, NEW s \in Seeders, StartThread(c, s)
      PROVE  /\ UNCHANGED <<isChunkAvailable, disk, word>>
             /\ thread' = [thread EXCEPT ![c] = "fetch"] /\ thread[c] = "none"
  BY <1>3 DEF StartThread, First, Stages
<1>4. ASSUME NEW c \in Chunks, NEW s \in Seeders, StartThread(c, s)
      PROVE  /\ UNCHANGED isChunkAvailable
             /\ \A d \in Chunks : disk'[d] \in Written => thread'[d] \in {"load", "store", "ended"}
             /\ \A d \in Chunks : thread'[d] = "ended" /\ disk'[d] \in Written =>
                  thread[d] = "ended" /\ disk[d] \in Written
             /\ \A d \in Chunks : thread'[d] = "store" => thread[d] = "store" /\ word'[d] = word[d]
  BY <1>3, <1>4 DEF TypeOK, FlagsOfWords
<1>5. ASSUME NEW c \in Chunks, NEW content, Receive(c, content)
      PROVE  /\ UNCHANGED <<isChunkAvailable, disk, word>>
             /\ thread' = [thread EXCEPT ![c] = "write"] /\ thread[c] = "fetch"
  BY <1>5 DEF Receive
<1>6. ASSUME NEW c \in Chunks, ChunkFails(c)
      PROVE  /\ UNCHANGED <<isChunkAvailable, disk, word>>
             /\ thread' = [thread EXCEPT ![c] = "failed"] /\ thread[c] \in {"fetch", "write"}
  BY <1>6 DEF ChunkFails
<1>7. ASSUME NEW c \in Chunks, WriteChunk(c)
      PROVE  /\ UNCHANGED <<isChunkAvailable, word>>
             /\ \A d \in Chunks \ {c} : disk'[d] = disk[d]
             /\ thread' = [thread EXCEPT ![c] = "load"] /\ thread[c] = "write"
  BY <1>7 DEF WriteChunk, TypeOK
<1>8. ASSUME NEW c \in Chunks, LoadWord(c)
      PROVE  /\ UNCHANGED <<isChunkAvailable, disk>>
             /\ word' = [word EXCEPT ![c] = isChunkAvailable \cap WordOf(c)]
             /\ thread' = [thread EXCEPT ![c] = "store"] /\ thread[c] = "load"
  BY <1>8 DEF LoadWord
<1>9. ASSUME NEW c \in Chunks, ChunkThread(c) \/ ChunkThreadFails(c)
      PROVE  /\ UNCHANGED isChunkAvailable
             /\ \A d \in Chunks : disk'[d] \in Written => thread'[d] \in {"load", "store", "ended"}
             /\ \A d \in Chunks : thread'[d] = "ended" /\ disk'[d] \in Written =>
                  thread[d] = "ended" /\ disk[d] \in Written
             /\ \A d \in Chunks : thread'[d] = "store" =>
                  \/ thread[d] = "store" /\ word'[d] = word[d]
                  \/ word'[d] = isChunkAvailable \cap WordOf(d)
  <2>1. (\E content : Receive(c, content)) \/ ChunkFails(c) \/ WriteChunk(c) \/ LoadWord(c)
    BY <1>9 DEF ChunkThread, ChunkThreadFails
  <2>2. CASE \E content : Receive(c, content)
    BY <1>5, <2>2 DEF TypeOK, FlagsOfWords
  <2>3. CASE ChunkFails(c)
    BY <1>6, <2>3 DEF TypeOK, FlagsOfWords
  <2>4. CASE WriteChunk(c)
    BY <1>7, <2>4 DEF TypeOK, FlagsOfWords
  <2>5. CASE LoadWord(c)
    BY <1>8, <2>5 DEF TypeOK, FlagsOfWords
  <2>6. QED
    BY <2>1, <2>2, <2>3, <2>4, <2>5
<1>10. CASE (\E s \in Seeders, held \in SUBSET Chunks : ChunkInfo(s, held)) \/ JoinWindow
            \/ WindowIsOut \/ VerifySHA \/ ChunkIsMissing \/ DownloadThreadFails \/ UNCHANGED vars
  BY <1>1, <1>2, <1>10
  DEF ChunkInfo, JoinWindow, WindowIsOut, VerifySHA, ChunkIsMissing, DownloadThreadFails,
      SeederUnreachable, SeederCutsOff, vars
<1>11. QED
  BY <1>2, <1>4, <1>9, <1>10 DEF Next, NextReliable, DownloadThread

LEMMA FlagsOfWordsStep ==
  WindowInv /\ FlagsOfWords /\ [Next]_vars => FlagsOfWords'
<1> SUFFICES ASSUME WindowInv, FlagsOfWords, [Next]_vars
             PROVE  FlagsOfWords'
  OBVIOUS
<1>1. CASE \A c \in Chunks : ~StoreWord(c)
  BY <1>1, FlagFrame DEF FlagsOfWords
<1>2. ASSUME NEW c \in Chunks, StoreWord(c)
      PROVE  FlagsOfWords'
  <2>1. /\ isChunkAvailable' = (isChunkAvailable \ WordOf(c)) \cup word[c] \cup {c}
        /\ thread[c] = "store" /\ thread' = [thread EXCEPT ![c] = "ended"]
        /\ UNCHANGED disk
    BY <1>2 DEF StoreWord
  <2>2. \A d \in Chunks : disk'[d] \in Written => thread'[d] \in {"load", "store", "ended"}
    BY <2>1 DEF FlagsOfWords, WindowInv, TypeOK
  <2>3. ASSUME NEW d \in Chunks, thread'[d] = "ended", disk'[d] \in Written
        PROVE  \E e \in isChunkAvailable' : e \in WordOf(d)
    <3>1. CASE c \in WordOf(d)
      BY <2>1, <3>1
    <3>2. CASE c \notin WordOf(d)
      <4>1. d # c /\ WordOf(d) \cap WordOf(c) = {}
        BY <3>2, WordsAreParts
      <4>2. thread[d] = "ended" /\ disk[d] \in Written
        BY <2>1, <2>3, <4>1 DEF WindowInv, TypeOK
      <4>3. PICK e \in isChunkAvailable : e \in WordOf(d)
        BY <4>2 DEF FlagsOfWords
      <4>4. QED
        BY <2>1, <4>1, <4>3
    <3>3. QED
      BY <3>1, <3>2
  <2>4. QED
    BY <2>2, <2>3 DEF FlagsOfWords
<1>3. QED
  BY <1>1, <1>2

LEMMA InitFlagsOfWords == Init => FlagsOfWords
  BY DEF Init, FlagsOfWords, Written

LEMMA SpecFlagsOfWords == Spec => []FlagsOfWords
  BY InitFlagsOfWords, FlagsOfWordsStep, SpecWindowInv, PTL DEF Spec

\* A chunk that was received and written and is not offered.
LostFlag(c) == thread[c] = "ended" /\ disk[c] \in Written /\ c \notin isChunkAvailable

LostToNeighbours ==
  \A c \in Chunks : LostFlag(c) =>
    \E d \in isChunkAvailable : d # c /\ d \div WordSize = c \div WordSize

\* How far a download can fall short of DownloadsAreShareable: a flag is lost
\* only to the thread of another chunk in the same word of the vector<bool>,
\* and not all flags of a word are.
THEOREM DownloadLostToNeighbours == Spec => []LostToNeighbours
<1>1. FlagsOfWords => LostToNeighbours
  BY DEF FlagsOfWords, LostToNeighbours, LostFlag, WordOf
<1>2. QED
  BY <1>1, SpecFlagsOfWords, PTL

\* The words are all there is to it: if elements did not share words, or one
\* thread ran at a time, every download that is complete would be shareable,
\* whatever its seeders do.
THEOREM DownloadShareableWithoutSharing ==
  ASSUME WordSize = 1 \/ MaxThreads = 1
  PROVE  Spec => []DownloadsAreShareable
<1>1. Init => FlagsKept
  BY DEF Init, FlagsKept
<1>2. ASSUME WindowInv, FlagsOfWords, FlagsKept, [Next]_vars
      PROVE  FlagsKept'
  <2> USE <1>2
  <2>1. CASE \A c \in Chunks : ~StoreWord(c)
    <3>1. \A c \in Chunks : WordOf(c)' = WordOf(c)
      BY DEF WordOf
    <3>2. QED
      BY <2>1, <3>1, FlagFrame DEF FlagsKept
  <2>2. ASSUME NEW c \in Chunks, StoreWord(c)
        PROVE  FlagsKept'
    <3>1. /\ isChunkAvailable' = (isChunkAvailable \ WordOf(c)) \cup word[c] \cup {c}
          /\ thread[c] = "store" /\ thread' = [thread EXCEPT ![c] = "ended"]
          /\ UNCHANGED <<disk, word>>
      BY <2>2 DEF StoreWord
    <3>2. isChunkAvailable \subseteq isChunkAvailable'
      BY <3>1 DEF FlagsKept
    <3>3. \A d \in Chunks : thread'[d] = "ended" /\ disk'[d] \in Written => d \in isChunkAvailable'
      BY <3>1, <3>2 DEF FlagsKept, WindowInv, TypeOK
    <3>4. ASSUME NEW d \in Chunks, thread'[d] = "store"
          PROVE  isChunkAvailable' \cap WordOf(d) \subseteq word'[d] \cup {d}
      <4>1. d # c /\ thread[d] = "store"
        BY <3>1, <3>4 DEF WindowInv, TypeOK
      <4>2. CASE WordSize = 1
        <5>1. \A n \in Nat : n \div 1 = n
          BY SMT
        <5>2. WordOf(d) = {d}
          BY <4>2, <5>1, ChunkNumbers DEF WordOf
        <5>3. QED
          BY <5>2
      <4>3. CASE MaxThreads = 1
        <5>1. Cardinality(Running) <= 1
          <6>1. pc \in {"select", "join"}
            BY <4>1 DEF WindowInv, TypeOK, Stages, Counting, Running, Ended, Returned
          <6>2. QED
            BY <4>3, <6>1, RunningIsFinite DEF WindowInv, Counting, TypeOK
        <5>2. c \in Running /\ d \in Running \ {c}
          BY <3>1, <4>1 DEF Running, Returned
        <5>3. Cardinality(Running \ {c}) = Cardinality(Running) - 1 /\ IsFiniteSet(Running \ {c})
          BY <5>2, RunningIsFinite, FS_RemoveElement
        <5>4. Cardinality(Running \ {c}) = 0
          BY <5>1, <5>3, RunningIsFinite, FS_CardinalityType
        <5>5. QED
          BY <5>2, <5>3, <5>4, FS_EmptySet
      <4>4. QED
        BY <4>2, <4>3
    <3>5. \A d \in Chunks : WordOf(d)' = WordOf(d)
      BY DEF WordOf
    <3>6. QED
      BY <3>3, <3>4, <3>5 DEF FlagsKept
  <2>3. QED
    BY <2>1, <2>2
<1>3. WindowInv /\ FlagsOfWords /\ FlagsKept => DownloadsAreShareable
  <2> SUFFICES ASSUME WindowInv, FlagsOfWords, FlagsKept, pc = "done", \A c \in Chunks : disk[c] = "intact"
               PROVE  isChunkAvailable = Chunks
    BY DEF DownloadsAreShareable
  <2>1. \A c \in Chunks : thread[c] = "ended"
    BY DEF WindowInv, Stages, Counting, Running, FlagsOfWords, Written, Returned
  <2>2. \A c \in Chunks : c \in isChunkAvailable
    BY <2>1 DEF FlagsKept, Written
  <2>3. isChunkAvailable \subseteq Chunks
    BY DEF WindowInv, TypeOK
  <2>4. QED
    BY <2>2, <2>3
<1>4. QED
  BY <1>1, <1>2, <1>3, SpecWindowInv, SpecFlagsOfWords, PTL DEF Spec

----------------------------------------------------------------------------
(* What has become of the chunks in the end.                               *)

\* What there is of chunk c after its thread has written it.
InPlace(c) == disk[c] = IF BytesWritten(c) > 0 THEN outputBuffer[c] ELSE "absent"

\* Past its write a thread leaves its chunk, its buffer and the file alone, and
\* of a chunk without bytes there is never anything.
ChunksInPlace ==
  \A c \in Chunks :
    /\ thread[c] \in {"load", "store", "ended"} => InPlace(c)
    /\ BytesWritten(c) > 0 \/ disk[c] = "absent"

LEMMA ChunksInPlaceStep ==
  WindowInv /\ ChunksInPlace /\ [Next]_vars => ChunksInPlace'
<1> SUFFICES ASSUME WindowInv, ChunksInPlace, [Next]_vars
             PROVE  ChunksInPlace'
  OBVIOUS
<1> USE DEF WindowInv
<1>1. \A c \in Chunks : BytesWritten(c)' = BytesWritten(c)
  BY DEF BytesWritten
<1>2. CASE UNCHANGED <<thread, outputBuffer, disk>>
  BY <1>1, <1>2 DEF ChunksInPlace, InPlace
<1>3. CASE CreateFile \/ FileCannotBeCreated
  BY <1>1, <1>3 DEF CreateFile, FileCannotBeCreated, Stages, ChunksInPlace
<1>4. ASSUME NEW c \in Chunks, UNCHANGED disk,
             \A d \in Chunks \ {c} : UNCHANGED <<thread[d], outputBuffer[d]>>,
             thread'[c] \in {"load", "store", "ended"} =>
               thread[c] \in {"load", "store"} /\ UNCHANGED outputBuffer[c]
      PROVE  ChunksInPlace'
  BY <1>1, <1>4 DEF ChunksInPlace, InPlace
<1>5. ASSUME NEW c \in Chunks, NEW s \in Seeders, StartThread(c, s)
      PROVE  ChunksInPlace'
  <2>1. UNCHANGED <<disk, outputBuffer>> /\ thread' = [thread EXCEPT ![c] = "fetch"]
    BY <1>5 DEF StartThread
  <2>2. QED
    BY <1>4, <2>1 DEF TypeOK
<1>6. ASSUME NEW c \in Chunks, NEW content, Receive(c, content)
      PROVE  ChunksInPlace'
  <2>1. /\ UNCHANGED disk /\ thread' = [thread EXCEPT ![c] = "write"]
        /\ outputBuffer' = [outputBuffer EXCEPT ![c] = content]
    BY <1>6 DEF Receive
  <2>2. QED
    BY <1>4, <2>1 DEF TypeOK
<1>7. ASSUME NEW c \in Chunks, ChunkFails(c) \/ LoadWord(c) \/ StoreWord(c)
      PROVE  ChunksInPlace'
  <2>1. PICK where \in {"failed", "store", "ended"} :
          /\ UNCHANGED <<disk, outputBuffer>>
          /\ thread' = [thread EXCEPT ![c] = where]
          /\ where # "failed" => thread[c] \in {"load", "store"}
    BY <1>7 DEF ChunkFails, LoadWord, StoreWord
  <2>2. QED
    BY <1>4, <2>1 DEF TypeOK
<1>8. ASSUME NEW c \in Chunks, WriteChunk(c)
      PROVE  ChunksInPlace'
  <2>1. /\ thread' = [thread EXCEPT ![c] = "load"] /\ UNCHANGED outputBuffer
        /\ \A d \in Chunks \ {c} : disk'[d] = disk[d]
        /\ disk'[c] = IF BytesWritten(c) > 0 THEN outputBuffer[c] ELSE disk[c]
    BY <1>8 DEF WriteChunk, ReachesDisk, TypeOK
  <2>2. InPlace(c)' /\ (BytesWritten(c)' > 0 \/ disk'[c] = "absent")
    BY <1>1, <2>1 DEF ChunksInPlace, InPlace
  <2>3. QED
    BY <1>1, <2>1, <2>2 DEF ChunksInPlace, InPlace, TypeOK
<1>9. CASE (\E s \in Seeders, held \in SUBSET Chunks : ChunkInfo(s, held)) \/ JoinWindow
           \/ WindowIsOut \/ VerifySHA \/ ChunkIsMissing \/ DownloadThreadFails \/ UNCHANGED vars
  BY <1>2, <1>3, <1>9
  DEF ChunkInfo, JoinWindow, WindowIsOut, VerifySHA, ChunkIsMissing, DownloadThreadFails,
      SeederUnreachable, SeederCutsOff, vars, chunkVars
<1>10. QED
  BY <1>3, <1>5, <1>6, <1>7, <1>8, <1>9
  DEF Next, NextReliable, DownloadThread, ChunkThread, ChunkThreadFails

EveryChunkHasArrived == pc = "done" => \A c \in Chunks : Arrived(c)

\* The safety half of EveryChunkArrives, for every size: a download that has
\* come to the comparison has had a thread for each chunk, and what that has
\* received and not failed to write is what there is of the chunk, however the
\* windows were cut and the threads interleaved.
THEOREM DownloadEveryChunkHasArrived == Spec => []EveryChunkHasArrived
<1>1. Init => ChunksInPlace
  BY DEF Init, ChunksInPlace
<1>2. WindowInv /\ ChunksInPlace => EveryChunkHasArrived
  BY DEF WindowInv, Stages, Counting, Running, Returned, ChunksInPlace, InPlace, Arrived,
         EveryChunkHasArrived
<1>3. QED
  BY <1>1, <1>2, ChunksInPlaceStep, SpecWindowInv, PTL DEF Spec

----------------------------------------------------------------------------
(* When nothing fails.                                                     *)

\* What there is of chunk c once its thread has written it.
Delivered(c) == IF BytesWritten(c) > 0 THEN "intact" ELSE "absent"

\* Every thread receives the whole chunk and writes it, and only a chunk that
\* nobody holds ends the download early.
NothingFails ==
  /\ pc # "segv"
  /\ pc = "aborted" => toAsk = {} /\ ~EveryChunkIsHeld
  /\ \A c \in Chunks :
       /\ outputBuffer[c] # "damaged" /\ thread[c] # "failed"
       /\ thread[c] \in {"load", "store", "ended"} => disk[c] = Delivered(c)
       /\ thread[c] = "write" => outputBuffer[c] = "intact"
       /\ BytesWritten(c) > 0 \/ disk[c] = "absent"

LEMMA NothingFailsStep ==
  WindowInv /\ NothingFails /\ [NextReliable]_vars => NothingFails'
<1> SUFFICES ASSUME WindowInv, NothingFails, [NextReliable]_vars
             PROVE  NothingFails'
  OBVIOUS
<1> USE DEF WindowInv
<1>1. \A c \in Chunks : Delivered(c)' = Delivered(c) /\ BytesWritten(c)' = BytesWritten(c)
  BY DEF Delivered, BytesWritten
<1>2. CASE UNCHANGED vars
  BY <1>1, <1>2
  DEF vars, surveyVars, chunkVars, NothingFails, EveryChunkIsHeld
<1>3. ASSUME NEW s \in Seeders, NEW held \in SUBSET Chunks, ChunkInfo(s, held)
      PROVE  NothingFails'
  BY <1>1, <1>3 DEF ChunkInfo, chunkVars, NothingFails
<1>4. CASE CreateFile
  BY <1>1, <1>4 DEF CreateFile, Stages, NothingFails
<1>5. CASE ChunkIsMissing
  BY <1>1, <1>5 DEF ChunkIsMissing, surveyVars, chunkVars, NothingFails, EveryChunkIsHeld
<1>6. ASSUME NEW c \in Chunks, NEW s \in Seeders, StartThread(c, s)
      PROVE  NothingFails'
  BY <1>1, <1>6 DEF StartThread, NothingFails, TypeOK
<1>7. CASE WindowIsOut \/ JoinWindow \/ VerifySHA
  BY <1>1, <1>7 DEF WindowIsOut, JoinWindow, VerifySHA, chunkVars, NothingFails
<1>8. ASSUME NEW c \in Chunks, ChunkThread(c)
      PROVE  NothingFails'
  <2>1. UNCHANGED <<pc, toAsk, chunkStatusOfOthers>> /\ pc \in {"select", "join"}
    BY <1>8
    DEF ChunkThread, Receive, WriteChunk, LoadWord, StoreWord, surveyVars, TypeOK, Stages,
        Counting, Running, Ended, Returned
  <2>2. CASE Receive(c, "intact")
    BY <1>1, <2>1, <2>2 DEF Receive, NothingFails, TypeOK
  <2>3. CASE WriteChunk(c)
    <3>1. outputBuffer[c] = "intact" /\ (BytesWritten(c) > 0 \/ disk[c] = "absent")
      BY <2>3 DEF WriteChunk, NothingFails
    <3>2. disk'[c] = Delivered(c) /\ \A d \in Chunks \ {c} : disk'[d] = disk[d]
      BY <2>3, <3>1 DEF WriteChunk, ReachesDisk, Delivered, TypeOK
    <3>3. thread' = [thread EXCEPT ![c] = "load"] /\ UNCHANGED outputBuffer
      BY <2>3 DEF WriteChunk
    <3>4. \A d \in Chunks : BytesWritten(d) > 0 \/ disk'[d] = "absent"
      BY <3>2 DEF NothingFails, Delivered
    <3>5. \A d \in Chunks :
            thread'[d] \in {"load", "store", "ended"} => disk'[d] = Delivered(d)
      BY <3>2, <3>3 DEF NothingFails, TypeOK
    <3>6. \A d \in Chunks : thread'[d] = "write" => outputBuffer'[d] = "intact"
      BY <3>3 DEF NothingFails, TypeOK
    <3>7. QED
      BY <1>1, <2>1, <3>3, <3>4, <3>5, <3>6 DEF NothingFails
  <2>4. CASE LoadWord(c)
    BY <1>1, <2>1, <2>4 DEF LoadWord, NothingFails, TypeOK
  <2>5. CASE StoreWord(c)
    BY <1>1, <2>1, <2>5 DEF StoreWord, NothingFails, TypeOK
  <2>6. QED
    BY <1>8, <2>2, <2>3, <2>4, <2>5 DEF ChunkThread
<1>9. QED
  BY <1>2, <1>3, <1>4, <1>5, <1>6, <1>7, <1>8 DEF NextReliable, DownloadThread

\* Once a download has ended, the group did not hold some chunk, or every
\* chunk is in its place - but for the last one of a file whose size is a
\* multiple of the chunk size, of which nothing has ever been written.
ReliableOutcome ==
  pc \in Ended =>
    \/ pc = "aborted" /\ toAsk = {} /\ ~EveryChunkIsHeld
    \/ pc = "done" /\ \A c \in Chunks : disk[c] = Delivered(c)

\* When seeders answer and reads return whole chunks, a download does not end
\* in any other way than complete, unless a chunk is missing or the size is a
\* multiple of CHUNK_SIZE.
THEOREM DownloadReliableOutcome == ReliableSpec => []ReliableOutcome
<1>1. Init => NothingFails
  BY DEF Init, NothingFails
<1>2. NothingFails /\ WindowInv => ReliableOutcome
  <2> SUFFICES ASSUME NothingFails, WindowInv, pc \in Ended
               PROVE  \/ pc = "aborted" /\ toAsk = {} /\ ~EveryChunkIsHeld
                      \/ pc = "done" /\ \A c \in Chunks : disk[c] = Delivered(c)
    BY DEF ReliableOutcome
  <2>1. CASE pc = "done"
    <3>1. \A c \in Chunks : thread[c] = "ended"
      BY <2>1 DEF WindowInv, Stages, Counting, Running, NothingFails, Returned
    <3>2. QED
      BY <2>1, <3>1 DEF NothingFails
  <2>2. CASE pc # "done"
    BY <2>2 DEF NothingFails, Ended
  <2>3. QED
    BY <2>1, <2>2
<1>3. NextReliable => Next
  BY DEF Next
<1>4. QED
  BY <1>1, <1>2, <1>3, InitWindowInv, WindowInvStep, NothingFailsStep, PTL DEF ReliableSpec

\* So a file that is not empty is whole after a download in which nothing fails
\* exactly when its size is no multiple of CHUNK_SIZE.
THEOREM DownloadCompleteUnlessMultiple ==
  ASSUME Bytes > 0
  PROVE  ReliableSpec =>
           [](pc = "done" => ((\A c \in Chunks : disk[c] = "intact") <=> Bytes % ChunkSize # 0))
<1>1. \A a \in Nat, b \in Nat \ {0} : a % b \in Nat /\ (a > 0 => (a + b - 1) \div b > 0)
  BY SMT
<1>2. TotalChunks > 0 /\ Bytes % ChunkSize \in Nat
  BY <1>1, ConstantsAreSound DEF TotalChunks
<1>3. TotalChunks - 1 \in Chunks
  BY <1>2, ChunkNumbers DEF Chunks
<1>4. CASE Bytes % ChunkSize # 0
  <2>1. \A c \in Chunks : Delivered(c) = "intact"
    BY <1>2, <1>4, ConstantsAreSound DEF Delivered, BytesWritten
  <2>2. ReliableOutcome => (pc = "done" => \A c \in Chunks : disk[c] = "intact")
    BY <2>1 DEF ReliableOutcome, Ended
  <2>3. QED
    BY <1>4, <2>2, DownloadReliableOutcome, PTL
<1>5. CASE ~(Bytes % ChunkSize # 0)
  <2>1. Delivered(TotalChunks - 1) = "absent"
    BY <1>5 DEF Delivered, BytesWritten
  <2>2. ReliableOutcome => (pc = "done" => ~\A c \in Chunks : disk[c] = "intact")
    BY <1>3, <2>1 DEF ReliableOutcome, Ended
  <2>3. QED
    BY <1>5, <2>2, DownloadReliableOutcome, PTL
<1>6. QED
  BY <1>4, <1>5
=============================================================================
