------------------------- MODULE SwarmContentProofs -------------------------
(***************************************************************************)
(* Theorems about the contents in module Swarm: as long as each client     *)
(* puts the name into its map once, and no connection to the tracker has   *)
(* been reset, what is offered and what is verified is what the tracker    *)
(* listed, unless a read() or a write() took a part of it, or of a number  *)
(* that stands for it - for any number of clients, groups and chunks.      *)
(***************************************************************************)
EXTENDS SwarmProofs

\* What the tracker tells about a group, it tells of clients that have put
\* the group's file into their map.
IndexIsTrue ==
  \A g \in Groups :
    /\ digest[g][Name] \in {None, g}
    /\ \A x \in seeders[g][Name] : entered[x] = g

\* The entry's chunk c is what the tracker listed, and no thread is going to
\* change it; or it has been damaged on its way.
Holds(x, c) ==
  \/ /\ Content(x, files[x].filePath, c) = files[x].SHA
     /\ thread[x][c] = "over" \/ download[x].phase \notin InProgress
  \/ c \in damaged

EntryIsTrue(x) ==
  files[x] # None =>
    /\ files[x].SHA = entered[x]
    /\ \A c \in files[x].isChunkAvailable : Holds(x, c)

CommandIsTrue(x) ==
  /\ command[x].at = "upload" => command[x].group = entered[x]
  /\ command[x].at = "download" =>
       /\ files[x] = None
       /\ command[x].SHA = entered[x]
       /\ \A s \in command[x].seeders : entered[s] = command[x].SHA

\* s, once it has said that it has chunk c of the file of g: it still has it,
\* even if the flag has been lost, or it has ended and will not have an entry
\* again.
Serves(s, g, c) ==
  /\ entered[s] = g
  /\ IF files[s] # None THEN Holds(s, c) ELSE command[s].at # "download"

DownloadIsTrue(x) ==
  download[x].phase \in InProgress =>
    /\ download[x].SHA = files[x].SHA
    /\ download[x].filePath = files[x].filePath
    /\ \A s \in Clients :
         s \in download[x].toAsk \/ s = download[x].asking => entered[s] = download[x].SHA
    /\ \A c \in Chunks : \A s \in download[x].chunkStatusOfOthers[c] :
         Serves(s, download[x].SHA, c)
    /\ download[x].phase \in {"survey", "create"} =>
         files[x].isChunkAvailable = {} /\ \A c \in Chunks : thread[x][c] = "none"
    /\ \A c \in Chunks : thread[x][c] = "over" => files[x].isChunkAvailable # {}

\* What is in the file where nothing has been written yet.
Blank == {"zeros", "empty"}

\* The chunk at disk[x][filePath][c] and its thread.
ChunkIsTrue(x, c) ==
  LET g == download[x].SHA
      content == disk[x][download[x].filePath][c]
  IN  download[x].phase = "fetch" =>
        \/ /\ thread[x][c] = "ask" /\ content \in Blank
           /\ seeder[x][c] \in Clients /\ Serves(seeder[x][c], g, c)
        \/ /\ thread[x][c] = "write" /\ content \in Blank
           /\ outputBuffer[x][c] = g \/ c \in damaged
        \/ /\ thread[x][c] \in {"load", "store", "over"}
           /\ content = g \/ c \in damaged
        \/ thread[x][c] = "failed" /\ content \in Blank

OutcomeIsTrue(x) ==
  /\ download[x].phase = "verified" =>
       /\ \A c \in Chunks : disk[x][download[x].filePath][c] = download[x].SHA
       /\ files[x].isChunkAvailable # {}
  /\ download[x].phase = "mismatched" =>
       \E c \in Chunks : thread[x][c] = "failed" \/ c \in damaged

ClientIsTrue(x) ==
  /\ EntryIsTrue(x)
  /\ CommandIsTrue(x)
  /\ DownloadIsTrue(x)
  /\ \A c \in Chunks : ChunkIsTrue(x, c)
  /\ OutcomeIsTrue(x)

ContentsAreTrue == Undisturbed => IndexIsTrue /\ \A x \in Clients : ClientIsTrue(x)

CInv == SInv /\ ContentsAreTrue

----------------------------------------------------------------------------
StepOf(x) ==
  \/ Start(x)
  \/ Killed(x)
  \/ Disconnected(x)
  \/ CommandThread(x)
  \/ DownloadThread(x)
  \/ \E c \in Chunks : ChunkThread(x, c)

\* What a client has of its own, but for the one whose answer it waits for.
Unmoved(x) ==
  /\ files'[x] = files[x]
  /\ disk'[x] = disk[x]
  /\ download'[x].phase = download[x].phase
  /\ download'[x].SHA = download[x].SHA
  /\ download'[x].filePath = download[x].filePath
  /\ download'[x].toAsk = download[x].toAsk
  /\ download'[x].chunkStatusOfOthers = download[x].chunkStatusOfOthers
  /\ thread'[x] = thread[x]
  /\ seeder'[x] = seeder[x]
  /\ outputBuffer'[x] = outputBuffer[x]

LEMMA InitCInv == Init => CInv
<1> SUFFICES ASSUME Init PROVE CInv
  OBVIOUS
<1>1. SInv
  BY InitSInv
<1>2. IndexIsTrue
  BY DEF Init, Index!Init, IndexIsTrue
<1>3. ASSUME NEW x \in Clients PROVE ClientIsTrue(x)
  BY Constructors
  DEF Init, ClientIsTrue, EntryIsTrue, CommandIsTrue, DownloadIsTrue, ChunkIsTrue, OutcomeIsTrue,
      Idle, InProgress
<1>4. QED
  BY <1>1, <1>2, <1>3 DEF CInv, ContentsAreTrue

\* A step of x leaves the others as they are.
LEMMA OthersUnmoved ==
  ASSUME TypeOK, NEW x \in Clients, StepOf(x), NEW y \in Clients, y # x
  PROVE  /\ Unmoved(y)
         /\ command'[y] = command[y]
         /\ download'[y].asking \in {download[y].asking, "cut"}
         /\ entered'[y] = entered[y]
<1>1. CASE ProcessEnds(x)
  <2>1. download'[y] = ConnectionOf(x, y)
    BY <1>1 DEF ProcessEnds
  <2>2. /\ download'[y].asking \in {download[y].asking, "cut"}
        /\ download'[y].phase = download[y].phase
        /\ download'[y].SHA = download[y].SHA
        /\ download'[y].filePath = download[y].filePath
        /\ download'[y].toAsk = download[y].toAsk
        /\ download'[y].chunkStatusOfOthers = download[y].chunkStatusOfOthers
    BY <2>1, DownloadFields DEF ConnectionOf, Downloads
  <2>3. QED
    BY <1>1, <2>2 DEF ProcessEnds, Unmoved, TypeOK, history
<1>2. CASE ~ProcessEnds(x)
  <2>1. ~Exit(x) /\ ~Dies(x)
    BY <1>2 DEF Exit, Dies
  <2>2. CASE Start(x) \/ Disconnected(x)
    BY <2>2 DEF Start, Disconnected, Unmoved, fileVars, chunkVars, history
  <2>3. CASE CommandThread(x)
    BY <2>1, <2>3
    DEF CommandThread, Enter, Leave, UploadStarts, UploadEnds, DownloadStarts, Replies, ReplyLost,
        HandleDownload, CountCommand, Insert, Unmoved, TypeOK, fileVars, chunkVars, history
  <2>4. CASE DownloadThread(x)
    <3>1. UNCHANGED <<files, command, outputBuffer, entered>>
      BY <2>1, <2>4
      DEF DownloadThread, Connect, Unreachable, Answer, CutOff, ChunkIsMissing, CreateFile,
          CannotCreateFile, StartThreads, CannotWriteZeros, VerifySHA, Abort, GivesUp,
          EntryAfterAbort, userVars, fileVars, chunkVars, history
    <3>2. download'[y] = download[y]
      BY <2>1, <2>4
      DEF DownloadThread, Connect, Unreachable, Answer, CutOff, ChunkIsMissing, CreateFile,
          CannotCreateFile, StartThreads, CannotWriteZeros, VerifySHA, Abort, GivesUp, TypeOK
    <3>3. /\ disk'[y] = disk[y]
          /\ thread'[y] = thread[y]
          /\ seeder'[y] = seeder[y]
      BY <2>1, <2>4
      DEF DownloadThread, Connect, Unreachable, Answer, CutOff, ChunkIsMissing, CreateFile,
          CannotCreateFile, StartThreads, CannotWriteZeros, WriteZeros, VerifySHA, Abort, GivesUp,
          TypeOK, fileVars, chunkVars
    <3>4. QED
      BY <3>1, <3>2, <3>3 DEF Unmoved
  <2>5. ASSUME NEW c \in Chunks, ChunkThread(x, c)
        PROVE  Unmoved(y) /\ UNCHANGED <<command, download, entered>>
    <3>1. UNCHANGED <<command, download, entered>>
      BY <2>5
      DEF ChunkThread, Receive, ChunkFails, WriteChunk, LoadWord, StoreWord, userVars, history
    <3>2. /\ files'[y] = files[y] /\ disk'[y] = disk[y]
          /\ thread'[y] = thread[y] /\ seeder'[y] = seeder[y] /\ outputBuffer'[y] = outputBuffer[y]
      BY <2>5
      DEF ChunkThread, Receive, ChunkFails, WriteChunk, LoadWord, StoreWord, TypeOK, fileVars
    <3>3. QED
      BY <3>1, <3>2 DEF Unmoved
  <2>6. QED
    BY <2>1, <2>2, <2>3, <2>4, <2>5 DEF StepOf, Killed
<1>3. QED
  BY <1>1, <1>2

----------------------------------------------------------------------------
\* Whoever has put the name into its map does not do it again.
LEMMA CountedOnce ==
  ASSUME TypeOK, NEW x \in Clients, NEW g \in Groups, CountCommand(x, g), ~again'
  PROVE  /\ ~again
         /\ entered[x] = None
         /\ entered'[x] = g
  BY DEF CountCommand, TypeOK

\* A tracker that is astray stays so, or is no more.
LEMMA AstrayStays ==
  ASSUME NEW x \in Clients, StepOf(x), tracker' # "astray"
  PROVE  tracker # "astray"
<1>1. CASE tracker' = tracker
  BY <1>1
<1>2. CASE TrackerLosesClient \/ Disconnected(x)
  BY <1>2 DEF TrackerLosesClient, Disconnected, IndexIsLost
<1>3. CASE CommandThread(x)
  BY <1>1, <1>3
  DEF CommandThread, Enter, Leave, UploadStarts, UploadEnds, DownloadStarts, ReplyLost,
      HandleDownload, Exit
<1>4. CASE DownloadThread(x)
  BY <1>1, <1>2, <1>4
  DEF DownloadThread, Connect, Unreachable, Answer, CutOff, Dies, ChunkIsMissing, CreateFile,
      CannotCreateFile, StartThreads, CannotWriteZeros, VerifySHA, Abort, GivesUp, userVars
<1>5. CASE \E c \in Chunks : ChunkThread(x, c)
  BY <1>1, <1>5
  DEF ChunkThread, Receive, ChunkFails, WriteChunk, LoadWord, StoreWord, userVars
<1>6. QED
  BY <1>1, <1>2, <1>3, <1>4, <1>5 DEF StepOf, Start, Killed, Dies

LEMMA EnteredStays ==
  ASSUME TypeOK, NEW x \in Clients, StepOf(x), Undisturbed'
  PROVE  /\ Undisturbed
         /\ \A s \in Clients : entered[s] # None => entered'[s] = entered[s]
         /\ damaged \subseteq damaged'
<1> USE DEF Undisturbed
<1>1. CASE UNCHANGED <<entered, again>> /\ damaged \subseteq damaged'
  BY <1>1, AstrayStays
<1>2. ASSUME NEW g \in Groups, CountCommand(x, g)
      PROVE  /\ Undisturbed
             /\ \A s \in Clients : entered[s] # None => entered'[s] = entered[s]
             /\ damaged \subseteq damaged'
  BY <1>2, AstrayStays DEF CountCommand, TypeOK
<1>3. CASE CommandThread(x)
  <2>1. UNCHANGED history \/ \E g \in Groups : CountCommand(x, g)
    BY <1>3
    DEF CommandThread, Enter, Leave, UploadStarts, UploadEnds, DownloadStarts, ReplyLost,
        HandleDownload, Exit, ProcessEnds
  <2>2. QED
    BY <1>1, <1>2, <2>1 DEF history
<1>4. CASE Dies(x) \/ Start(x) \/ Disconnected(x)
  BY <1>1, <1>4 DEF Dies, ProcessEnds, Start, Disconnected, history
<1>5. CASE DownloadThread(x)
  <2>1. ASSUME Answer(x)
        PROVE  UNCHANGED <<entered, again>> /\ damaged \subseteq damaged'
    BY <2>1 DEF Answer
  <2>2. QED
    BY <1>1, <1>4, <1>5, <2>1
    DEF DownloadThread, Connect, Unreachable, CutOff, ChunkIsMissing, CreateFile,
        CannotCreateFile, StartThreads, CannotWriteZeros, VerifySHA, Abort, GivesUp, history
<1>6. CASE \E c \in Chunks : ChunkThread(x, c)
  BY <1>1, <1>6
  DEF ChunkThread, Receive, ChunkFails, WriteChunk, LoadWord, StoreWord, history
<1>7. QED
  BY <1>3, <1>4, <1>5, <1>6 DEF StepOf, Killed

LEMMA EntryFields ==
  ASSUME TypeOK, NEW x \in Clients, files[x] # None
  PROVE  /\ files[x] \in Entries
         /\ files[x].SHA \in Groups
         /\ files[x].filePath \in Paths
         /\ files[x].isChunkAvailable \in SUBSET Chunks
<1>1. files[x] \in Entries
  BY DEF TypeOK
<1>2. QED
  BY <1>1 DEF Entries

\* What a chunk thread leaves as it is.
LEMMA ChunkThreadFrame ==
  ASSUME TypeOK, NEW x \in Clients, NEW c \in Chunks, ChunkThread(x, c),
         download[x].filePath \in Destinations
  PROVE  /\ UNCHANGED <<tracker, entered, again, command, download>>
         /\ thread[x][c] \in AtWork
         /\ damaged \subseteq damaged'
         /\ \A e \in Chunks \ {c} :
              /\ thread'[x][e] = thread[x][e]
              /\ seeder'[x][e] = seeder[x][e]
              /\ outputBuffer'[x][e] = outputBuffer[x][e]
              /\ disk'[x][download[x].filePath][e] = disk[x][download[x].filePath][e]
<1>1. UNCHANGED <<tracker, entered, again, command, download>> /\ thread[x][c] \in AtWork
  BY DEF ChunkThread, Receive, ChunkFails, WriteChunk, LoadWord, StoreWord, userVars, history, AtWork
<1>2. damaged \subseteq damaged'
  BY DEF ChunkThread, Receive, ChunkFails, WriteChunk, LoadWord, StoreWord, history
<1>3. ASSUME NEW e \in Chunks \ {c}
      PROVE  /\ thread'[x][e] = thread[x][e]
             /\ seeder'[x][e] = seeder[x][e]
             /\ outputBuffer'[x][e] = outputBuffer[x][e]
  <2>1. \E where : thread' = [thread EXCEPT ![x][c] = where]
    BY DEF ChunkThread, Receive, ChunkFails, WriteChunk, LoadWord, StoreWord
  <2>2. \E whom : seeder' = [seeder EXCEPT ![x][c] = whom] \/ seeder' = seeder
    BY DEF ChunkThread, Receive, ChunkFails, WriteChunk, LoadWord, StoreWord
  <2>3. \E what : outputBuffer' = [outputBuffer EXCEPT ![x][c] = what]
               \/ outputBuffer' = outputBuffer
    BY DEF ChunkThread, Receive, ChunkFails, WriteChunk, LoadWord, StoreWord
  <2>4. QED
    BY <2>1, <2>2, <2>3 DEF TypeOK
<1>4. ASSUME NEW e \in Chunks \ {c}
      PROVE  disk'[x][download[x].filePath][e] = disk[x][download[x].filePath][e]
  <2>1. ASSUME NEW content, WriteChunk(x, c, content)
        PROVE  disk'[x][download[x].filePath][e] = disk[x][download[x].filePath][e]
    BY <2>1 DEF WriteChunk, TypeOK
  <2>2. CASE UNCHANGED disk
    BY <2>2
  <2>3. QED
    BY <2>1, <2>2 DEF ChunkThread, Receive, ChunkFails, LoadWord, StoreWord, fileVars
<1>5. QED
  BY <1>1, <1>2, <1>3, <1>4

\* The entry of a download while its chunk threads run.
LEMMA EntryOfThread ==
  ASSUME CInv, Undisturbed, NEW x \in Clients, NEW c \in Chunks, ChunkThread(x, c)
  PROVE  /\ ClientIsTrue(x) /\ FitsAt(x) /\ download[x].phase = "fetch"
         /\ files[x] # None /\ files[x] \in Entries
         /\ download[x].SHA \in Groups /\ download[x].SHA = files[x].SHA
         /\ download[x].filePath \in Destinations /\ download[x].filePath = files[x].filePath
         /\ files'[x] # None
         /\ files'[x].SHA = files[x].SHA /\ files'[x].filePath = files[x].filePath
         /\ files'[x].isChunkAvailable = files[x].isChunkAvailable
              \/ /\ StoreWord(x, c) /\ c \in files'[x].isChunkAvailable
                 /\ files'[x].isChunkAvailable \subseteq files[x].isChunkAvailable \cup {c}
<1> USE DEF CInv, SInv
<1>1. thread[x][c] \in AtWork
  BY DEF ChunkThread, Receive, ChunkFails, WriteChunk, LoadWord, StoreWord, AtWork
<1>2. ClientIsTrue(x) /\ FitsAt(x) /\ download[x].phase = "fetch"
  BY <1>1 DEF ContentsAreTrue, Fits, FitsAt
<1>3. /\ files[x] # None /\ files[x] \in Entries
      /\ download[x].SHA \in Groups /\ download[x].SHA = files[x].SHA
      /\ download[x].filePath \in Destinations /\ download[x].filePath = files[x].filePath
  BY <1>2, EntryFields DEF ClientIsTrue, DownloadIsTrue, FitsAt, InProgress
<1>4. CASE StoreWord(x, c)
  BY <1>2, <1>3, <1>4, StoredEntry
<1>5. CASE ~StoreWord(x, c)
  <2>1. files' = files
    BY <1>5 DEF ChunkThread, Receive, ChunkFails, WriteChunk, LoadWord, fileVars
  <2>2. QED
    BY <1>2, <1>3, <2>1
<1>6. QED
  BY <1>4, <1>5

\* What x holds, a step of x does not take away.
LEMMA HoldsStays ==
  ASSUME CInv, Undisturbed, NEW x \in Clients, NEW c \in Chunks, files[x] # None, Holds(x, c),
         damaged \subseteq damaged',
         \/ DownloadThread(x) /\ ~Dies(x)
         \/ \E e \in Chunks : ChunkThread(x, e)
  PROVE  files'[x] # None /\ Holds(x, c)'
<1> USE DEF CInv, SInv
<1>1. ClientIsTrue(x) /\ FitsAt(x)
  BY DEF ContentsAreTrue, Fits
<1>2. CASE DownloadThread(x) /\ ~Dies(x)
  <2>1. files' = files
    BY <1>2
    DEF DownloadThread, Connect, Unreachable, Answer, CutOff, ChunkIsMissing, CreateFile,
        CannotCreateFile, StartThreads, CannotWriteZeros, VerifySHA, Abort, GivesUp,
        EntryAfterAbort, fileVars
  <2>2. CASE c \in damaged
    BY <2>1, <2>2 DEF Holds
  <2>3. CASE c \notin damaged
    <3>1. download[x].phase \in {"survey", "create"} => FALSE
      BY <1>1, <2>3 DEF ClientIsTrue, DownloadIsTrue, Holds, InProgress
    <3>2. download[x].asking = None
      BY <1>1, <3>1 DEF FitsAt
    <3>3. VerifySHA(x)
      BY <1>2, <3>1, <3>2, SwarmAssumption
      DEF DownloadThread, Connect, Unreachable, Answer, CutOff, ChunkIsMissing, CreateFile,
          CannotCreateFile, StartThreads, CannotWriteZeros, WriteZeros, Surveyed, Surveying, TypeOK
    <3>4. UNCHANGED <<disk, thread>> /\ download[x].phase = "fetch"
      BY <3>3 DEF VerifySHA, fileVars, chunkVars
    <3>5. thread[x][c] = "over" /\ Content(x, files[x].filePath, c) = files[x].SHA
      BY <2>3, <3>4 DEF Holds, InProgress
    <3>6. QED
      BY <2>1, <3>4, <3>5 DEF Holds, Content
  <2>4. QED
    BY <2>2, <2>3
<1>3. ASSUME NEW e \in Chunks, ChunkThread(x, e)
      PROVE  files'[x] # None /\ Holds(x, c)'
  <2>1. /\ download[x].phase = "fetch" /\ files'[x] # None
        /\ files[x].filePath \in Destinations /\ download[x].filePath = files[x].filePath
        /\ files'[x].SHA = files[x].SHA /\ files'[x].filePath = files[x].filePath
    BY <1>3, EntryOfThread
  <2>2. CASE c \in damaged
    BY <2>1, <2>2 DEF Holds
  <2>3. CASE c \notin damaged
    <3>1. /\ thread[x][c] = "over" /\ Content(x, files[x].filePath, c) = files[x].SHA
          /\ thread[x][e] \in AtWork
      BY <1>3, <2>1, <2>3, ChunkThreadFrame DEF Holds, InProgress
    <3>2. c # e
      BY <3>1 DEF AtWork
    <3>3. /\ thread'[x][c] = "over"
          /\ disk'[x][files[x].filePath][c] = disk[x][files[x].filePath][c]
      BY <1>3, <2>1, <3>1, <3>2, ChunkThreadFrame
    <3>4. QED
      BY <2>1, <3>1, <3>3 DEF Holds, Content
  <2>4. QED
    BY <2>2, <2>3
<1>4. QED
  BY <1>2, <1>3

\* A client that can be relied on for a chunk can be in the next state.
LEMMA ServesStays ==
  ASSUME CInv, NEW x \in Clients, StepOf(x), Undisturbed',
         NEW s \in Clients, NEW g \in Groups, NEW c \in Chunks, Serves(s, g, c)
  PROVE  Serves(s, g, c)'
<1> USE DEF CInv, SInv
<1>1. /\ Undisturbed /\ entered[s] = g /\ entered'[s] = g /\ g # None
      /\ CommandIsTrue(s) /\ damaged \subseteq damaged'
  BY EnteredStays, SwarmAssumption DEF Serves, ContentsAreTrue, ClientIsTrue
<1>2. ASSUME files'[s] = files[s], command'[s] \in {command[s], Idle}, disk'[s] = disk[s],
             thread'[s] = thread[s], download'[s].phase = download[s].phase
      PROVE  Serves(s, g, c)'
  BY <1>1, <1>2 DEF Serves, Holds, Content, Idle
<1>3. CASE s # x
  BY <1>2, <1>3, OthersUnmoved DEF Unmoved
<1>4. CASE s = x /\ ProcessEnds(x)
  <2>1. files'[s] = None /\ command'[s] = Idle
    BY <1>4 DEF ProcessEnds, TypeOK
  <2>2. QED
    BY <1>1, <2>1 DEF Serves, Idle
<1>5. CASE s = x /\ CommandThread(x) /\ ~ProcessEnds(x)
  <2>1. ASSUME NEW h \in Groups, CountCommand(x, h)
        PROVE  FALSE
    BY <1>1, <1>5, <2>1, CountedOnce DEF Undisturbed
  <2>2. CASE HandleDownload(x)
    BY <1>1, <1>5, <2>2 DEF HandleDownload, CommandIsTrue, Serves
  <2>3. CASE \/ \E h \in Groups : Enter(x, h)
             \/ Leave(x)
             \/ UploadEnds(x)
             \/ ReplyLost(x)
    <3>1. /\ UNCHANGED <<files, disk, thread, download>>
          /\ command'[s] \in {command[s], Idle}
      BY <1>5, <2>3 DEF Enter, Leave, UploadEnds, ReplyLost, TypeOK, fileVars, chunkVars
    <3>2. QED
      BY <1>2, <3>1
  <2>4. QED
    BY <1>5, <2>1, <2>2, <2>3 DEF CommandThread, UploadStarts, DownloadStarts, Exit
<1>6. CASE s = x /\ (Start(x) \/ Disconnected(x))
  BY <1>2, <1>6 DEF Start, Disconnected, fileVars, chunkVars
<1>7. CASE s = x /\ ((DownloadThread(x) /\ ~Dies(x)) \/ \E e \in Chunks : ChunkThread(x, e))
  <2>1. files[x] # None => files'[x] # None /\ Holds(x, c)'
    BY <1>1, <1>7, HoldsStays DEF Serves
  <2>2. command' = command
    BY <1>7
    DEF DownloadThread, Connect, Unreachable, Answer, CutOff, ChunkIsMissing, CreateFile,
        CannotCreateFile, StartThreads, CannotWriteZeros, VerifySHA, Abort, GivesUp, ChunkThread,
        Receive, ChunkFails, WriteChunk, LoadWord, StoreWord, userVars
  <2>3. files[x] = None => files'[x] = None
    <3>1. CASE DownloadThread(x) /\ ~Dies(x)
      BY <3>1
      DEF DownloadThread, Connect, Unreachable, Answer, CutOff, ChunkIsMissing, CreateFile,
          CannotCreateFile, StartThreads, CannotWriteZeros, VerifySHA, Abort, GivesUp,
          EntryAfterAbort, fileVars
    <3>2. CASE \E e \in Chunks : ChunkThread(x, e)
      BY <1>1, <3>2, EntryOfThread
    <3>3. QED
      BY <1>7, <3>1, <3>2
  <2>4. QED
    BY <1>1, <1>7, <2>1, <2>2, <2>3 DEF Serves
<1>8. QED
  BY <1>3, <1>4, <1>5, <1>6, <1>7 DEF StepOf, Killed, Dies

\* A client whose own state stays, except that a command or a survey may be
\* cut short.
LEMMA UnmovedIsTrue ==
  ASSUME CInv, NEW x \in Clients, StepOf(x), Undisturbed',
         NEW y \in Clients, Unmoved(y),
         command'[y] \in {command[y], Idle},
         \/ download'[y].asking \in {download[y].asking, None, "cut"}
         \/ download'[y].asking \in download[y].toAsk,
         entered'[y] = entered[y]
  PROVE  ClientIsTrue(y)'
<1> USE DEF CInv, SInv
<1>1. ClientIsTrue(y) /\ FitsAt(y) /\ damaged \subseteq damaged'
  BY EnteredStays DEF ContentsAreTrue, Fits
<1> USE DEF Unmoved
<1>2. EntryIsTrue(y)'
  BY <1>1 DEF ClientIsTrue, EntryIsTrue, Holds, Content
<1>3. CommandIsTrue(y)'
  <2>1. CASE command'[y] = Idle
    BY <2>1 DEF CommandIsTrue, Idle
  <2>2. CASE command'[y] = command[y]
    <3>1. ASSUME command[y].at = "download", NEW s \in command[y].seeders
          PROVE  entered'[s] = command[y].SHA
      BY <1>1, <3>1, CommandTypes, EnteredStays, SwarmAssumption
      DEF ClientIsTrue, CommandIsTrue
    <3>2. QED
      BY <1>1, <2>2, <3>1 DEF ClientIsTrue, CommandIsTrue
  <2>3. QED
    BY <2>1, <2>2
<1>4. DownloadIsTrue(y)'
  <2> SUFFICES ASSUME download[y].phase \in InProgress
               PROVE  DownloadIsTrue(y)'
    BY DEF DownloadIsTrue
  <2>1. DownloadIsTrue(y) /\ download[y].SHA \in Groups
    BY <1>1 DEF ClientIsTrue, FitsAt
  <2>2. ASSUME NEW s \in Clients, s \in download'[y].toAsk \/ s = download'[y].asking
        PROVE  entered'[s] = download[y].SHA
    <3>1. s \in download[y].toAsk \/ s = download[y].asking
      BY <2>2, SwarmAssumption
    <3>2. entered[s] = download[y].SHA
      BY <2>1, <3>1 DEF DownloadIsTrue
    <3>3. QED
      BY <2>1, <3>2, EnteredStays, SwarmAssumption
  <2>3. ASSUME NEW c \in Chunks, NEW s \in download[y].chunkStatusOfOthers[c]
        PROVE  Serves(s, download[y].SHA, c)'
    <3>1. s \in Clients /\ Serves(s, download[y].SHA, c)
      BY <2>1, DownloadFields DEF DownloadIsTrue
    <3>2. Serves(s, download[y].SHA, c)'
      BY <2>1, <3>1, ServesStays
    <3>3. QED
      BY <3>2
  <2>4. QED
    BY <2>1, <2>2, <2>3 DEF DownloadIsTrue, Serves, Holds, Content
<1>5. ASSUME NEW c \in Chunks PROVE ChunkIsTrue(y, c)'
  <2>1. ChunkIsTrue(y, c)
    BY <1>1 DEF ClientIsTrue
  <2>2. ASSUME NEW s \in Clients, NEW g \in Groups, Serves(s, g, c)
        PROVE  Serves(s, g, c)'
    BY <2>2, ServesStays
  <2>3. download[y].phase = "fetch" => download[y].SHA \in Groups
    BY <1>1 DEF FitsAt, InProgress
  <2>4. QED
    BY <1>1, <2>1, <2>2, <2>3 DEF ChunkIsTrue, Serves, Holds, Content
<1>6. OutcomeIsTrue(y)'
  BY <1>1 DEF ClientIsTrue, OutcomeIsTrue
<1>7. QED
  BY <1>2, <1>3, <1>4, <1>5, <1>6 DEF ClientIsTrue

----------------------------------------------------------------------------
(* The client that takes the step.                                         *)

LEMMA EndedIsTrue ==
  ASSUME TypeOK, NEW x \in Clients, ProcessEnds(x)
  PROVE  ClientIsTrue(x)'
<1>1. files'[x] = None /\ command'[x] = Idle /\ download'[x] = NoDownload
  BY DEF ProcessEnds, TypeOK
<1>2. download'[x].phase = "none"
  BY <1>1, Constructors
<1>3. QED
  BY <1>1, <1>2
  DEF ClientIsTrue, EntryIsTrue, CommandIsTrue, DownloadIsTrue, ChunkIsTrue, OutcomeIsTrue,
      InProgress, Idle

\* A client without an entry and without a download.
LEMMA NothingYet ==
  ASSUME CInv, Undisturbed, NEW x \in Clients, entered[x] = None
  PROVE  files[x] = None /\ download[x].phase \notin InProgress
<1>1. files[x] = None
  BY EntryFields, SwarmAssumption DEF CInv, SInv, ContentsAreTrue, ClientIsTrue, EntryIsTrue
<1>2. QED
  BY <1>1 DEF CInv, SInv, Fits, FitsAt

LEMMA UploadStartsIsTrue ==
  ASSUME CInv, Undisturbed, Undisturbed', NEW x \in Clients, NEW g \in Groups, NEW p \in Paths,
         UploadStarts(x, g, p)
  PROVE  ClientIsTrue(x)'
<1> USE DEF CInv, SInv
<1>1. entered[x] = None /\ entered'[x] = g
  BY CountedOnce DEF UploadStarts, Undisturbed
<1>2. files[x] = None /\ download[x].phase \notin InProgress
  BY <1>1, NothingYet
<1>3. /\ files'[x] = [SHA |-> g, filePath |-> p, isChunkAvailable |-> Chunks]
      /\ command'[x] = [at |-> "upload", group |-> g]
      /\ UNCHANGED <<disk, download>>
  BY <1>2 DEF UploadStarts, Insert, TypeOK
<1>4. EntryIsTrue(x)'
  BY <1>1, <1>2, <1>3 DEF EntryIsTrue, Holds, UploadStarts, HasFile, Content
<1>5. CommandIsTrue(x)'
  BY <1>1, <1>3 DEF CommandIsTrue
<1>6. QED
  BY <1>2, <1>3, <1>4, <1>5
  DEF ClientIsTrue, DownloadIsTrue, ChunkIsTrue, OutcomeIsTrue, InProgress

LEMMA DownloadStartsIsTrue ==
  ASSUME CInv, Undisturbed, Undisturbed', NEW x \in Clients, NEW g \in Groups,
         NEW p \in Destinations, DownloadStarts(x, g, p)
  PROVE  ClientIsTrue(x)'
<1> USE DEF CInv, SInv
<1>1. entered[x] = None /\ entered'[x] = g
  BY CountedOnce DEF DownloadStarts, Undisturbed
<1>2. files[x] = None /\ download[x].phase \notin InProgress
  BY <1>1, NothingYet
<1>3. Index!Join(g, Name, x) /\ Replies(x, digest[g][Name], p, seeders[g][Name])
  BY DEF DownloadStarts, Undisturbed
<1>4. /\ command'[x] = [at |-> "download", SHA |-> digest[g][Name], filePath |-> p,
                        seeders |-> seeders[g][Name]]
      /\ UNCHANGED <<disk, download, files>>
  BY <1>3 DEF DownloadStarts, Replies, TypeOK, fileVars
<1>5. IndexIsTrue
  BY DEF ContentsAreTrue
<1>6. digest[g][Name] = g
  BY <1>3, <1>5, SwarmAssumption DEF IndexIsTrue, Index!Join, Index!Listed
<1>7. ASSUME NEW s \in seeders[g][Name]
      PROVE  entered'[s] = g
  <2>1. s \in Clients /\ entered[s] = g
    BY <1>5, <1>7 DEF TypeOK, IndexIsTrue
  <2>2. QED
    BY <1>1, <2>1 DEF DownloadStarts, CountCommand, TypeOK
<1>8. CommandIsTrue(x)'
  BY <1>1, <1>2, <1>4, <1>6, <1>7 DEF CommandIsTrue
<1>9. QED
  BY <1>2, <1>4, <1>8
  DEF ClientIsTrue, EntryIsTrue, DownloadIsTrue, ChunkIsTrue, OutcomeIsTrue, InProgress

LEMMA HandleDownloadIsTrue ==
  ASSUME CInv, Undisturbed, NEW x \in Clients, HandleDownload(x)
  PROVE  ClientIsTrue(x)'
<1> USE DEF CInv, SInv
<1> DEFINE reply == command[x]
<1>1. UNCHANGED entered
  BY DEF HandleDownload, history
<1>2. /\ reply.at = "download"
      /\ reply.SHA \in Groups
      /\ reply.filePath \in Destinations
      /\ reply.seeders \in SUBSET Clients
  BY CommandTypes DEF HandleDownload
<1>3. CommandIsTrue(x)
  BY DEF ContentsAreTrue, ClientIsTrue
<1>4. /\ files'[x] = [SHA |-> reply.SHA, filePath |-> reply.filePath, isChunkAvailable |-> {}]
      /\ command'[x] = Idle
      /\ thread'[x] = NoThreads
  BY <1>2, <1>3 DEF CommandIsTrue, HandleDownload, Insert, NothingAvailable, TypeOK
<1>5. /\ download'[x].phase = "survey"
      /\ download'[x].SHA = reply.SHA
      /\ download'[x].filePath = reply.filePath
      /\ download'[x].toAsk = reply.seeders
      /\ download'[x].asking = None
      /\ download'[x].chunkStatusOfOthers = NoDownload.chunkStatusOfOthers
  BY <1>2, Constructors DEF HandleDownload, TypeOK, Downloads
<1>6. EntryIsTrue(x)'
  BY <1>1, <1>2, <1>3, <1>4 DEF EntryIsTrue, CommandIsTrue
<1>7. CommandIsTrue(x)'
  BY <1>4 DEF CommandIsTrue, Idle
<1>8. DownloadIsTrue(x)'
  BY <1>1, <1>2, <1>3, <1>4, <1>5, Constructors, SwarmAssumption
  DEF DownloadIsTrue, CommandIsTrue, NoThreads
<1>9. QED
  BY <1>5, <1>6, <1>7, <1>8 DEF ClientIsTrue, ChunkIsTrue, OutcomeIsTrue

LEMMA CommandThreadIsTrue ==
  ASSUME CInv, Undisturbed', NEW x \in Clients, CommandThread(x)
  PROVE  ClientIsTrue(x)'
<1>1. StepOf(x) /\ Undisturbed
  BY EnteredStays DEF StepOf, CInv, SInv
<1>2. CASE Exit(x)
  BY <1>2, EndedIsTrue DEF Exit, CInv, SInv
<1>3. CASE (\E g \in Groups : Enter(x, g)) \/ Leave(x) \/ UploadEnds(x) \/ ReplyLost(x)
  <2>1. /\ Unmoved(x)
        /\ command'[x] \in {command[x], Idle}
        /\ download'[x].asking = download[x].asking
        /\ entered'[x] = entered[x]
    BY <1>3
    DEF Enter, Leave, UploadEnds, ReplyLost, Unmoved, fileVars, chunkVars, history, CInv, SInv,
        TypeOK
  <2>2. QED
    BY <1>1, <2>1, UnmovedIsTrue
<1>4. QED
  BY <1>1, <1>2, <1>3, UploadStartsIsTrue, DownloadStartsIsTrue, HandleDownloadIsTrue
  DEF CommandThread

\* A download that gives up leaves nothing behind that it would offer.
LEMMA GivesUpIsTrue ==
  ASSUME CInv, Undisturbed, NEW x \in Clients, GivesUp(x),
         download[x].phase \in {"survey", "create"}
  PROVE  ClientIsTrue(x)'
<1> USE DEF CInv, SInv
<1>1. /\ UNCHANGED <<entered, files, command, thread, damaged>>
      /\ download'[x] = [NoDownload EXCEPT !.phase = "aborted"]
  BY DEF GivesUp, EntryAfterAbort, TypeOK, userVars, chunkVars, history
<1>2. download'[x].phase = "aborted"
  BY <1>1, Constructors DEF Downloads
<1>3. ClientIsTrue(x) /\ FitsAt(x)
  BY DEF ContentsAreTrue, Fits
<1>4. files[x].isChunkAvailable = {}
  BY <1>3 DEF ClientIsTrue, DownloadIsTrue, InProgress
<1>5. EntryIsTrue(x)'
  BY <1>1, <1>3, <1>4 DEF ClientIsTrue, EntryIsTrue
<1>6. CommandIsTrue(x)'
  BY <1>1, <1>3 DEF ClientIsTrue, CommandIsTrue
<1>7. QED
  BY <1>2, <1>5, <1>6
  DEF ClientIsTrue, DownloadIsTrue, ChunkIsTrue, OutcomeIsTrue, InProgress

LEMMA AnswerIsTrue ==
  ASSUME CInv, Undisturbed, NEW x \in Clients, Answer(x)
  PROVE  ClientIsTrue(x)'
<1> USE DEF CInv, SInv
<1> DEFINE s == download[x].asking
           g == download[x].SHA
<1>1. UNCHANGED <<entered, files, command, disk, thread>> /\ damaged \subseteq damaged'
  BY DEF Answer, userVars, fileVars, chunkVars
<1>2. ClientIsTrue(x) /\ FitsAt(x)
  BY DEF ContentsAreTrue, Fits
<1>3. s \in Clients /\ download[x].phase = "survey"
  BY <1>2, SwarmAssumption DEF Answer, TypeOK, FitsAt
<1>4. PICK told \in SUBSET Chunks :
        /\ told # {} => ChunkInfo(s) # {}
        /\ download' = [download EXCEPT
             ![x].asking = None,
             ![x].toAsk = @ \ {s},
             ![x].chunkStatusOfOthers =
               [c \in Chunks |-> IF c \in told THEN @[c] \cup {s} ELSE @[c]]]
        /\ damaged' = damaged \cup (told \ ChunkInfo(s))
  BY DEF Answer
<1>5. /\ download'[x].phase = "survey"
      /\ download'[x].SHA = g
      /\ download'[x].filePath = download[x].filePath
      /\ download'[x].toAsk \subseteq download[x].toAsk
      /\ download'[x].asking = None
      /\ \A c \in Chunks : \A t \in download'[x].chunkStatusOfOthers[c] :
           t \in download[x].chunkStatusOfOthers[c] \/ (t = s /\ c \in told)
  BY <1>3, <1>4, DownloadFields DEF TypeOK, Downloads
<1>6. DownloadIsTrue(x) /\ entered[s] = g
  BY <1>2, <1>3 DEF ClientIsTrue, DownloadIsTrue, InProgress
<1>7. PICK h \in Groups : h = g
  BY <1>2, <1>3 DEF FitsAt, InProgress
<1>8. \A t \in Clients : download'[t].phase = download[t].phase
  BY <1>3, <1>4, <1>5 DEF TypeOK
<1>9. ASSUME NEW t \in Clients, NEW c \in Chunks, Serves(t, h, c)
      PROVE  Serves(t, h, c)'
  BY <1>1, <1>8, <1>9 DEF Serves, Holds, Content
<1>10. ASSUME NEW r \in Clients, r = s, NEW c \in told
       PROVE  Serves(r, h, c)'
  <2>1. EntryIsTrue(r) /\ files[r] # None /\ entered[r] = h /\ c \in Chunks
    BY <1>4, <1>6, <1>7, <1>10 DEF ContentsAreTrue, ClientIsTrue, ChunkInfo
  <2>2. CASE c \in ChunkInfo(s)
    <3>1. Serves(r, h, c)
      BY <1>10, <2>1, <2>2 DEF ChunkInfo, Serves, EntryIsTrue
    <3>2. QED
      BY <1>9, <2>1, <3>1
  <2>3. CASE c \notin ChunkInfo(s)
    <3>1. c \in damaged'
      BY <1>4, <2>3
    <3>2. files'[r] # None /\ entered'[r] = h
      BY <1>1, <2>1
    <3>3. QED
      BY <3>1, <3>2 DEF Serves, Holds
  <2>4. QED
    BY <2>2, <2>3
<1>11. DownloadIsTrue(x)'
  <2>1. ASSUME NEW c \in Chunks, NEW t \in download'[x].chunkStatusOfOthers[c]
        PROVE  Serves(t, h, c)'
    <3>1. CASE t \in download[x].chunkStatusOfOthers[c]
      <4>1. t \in Clients /\ Serves(t, h, c)
        BY <1>3, <1>6, <1>7, <3>1, DownloadFields DEF DownloadIsTrue, InProgress
      <4>2. QED
        BY <1>9, <4>1
    <3>2. CASE t = s /\ c \in told
      BY <1>3, <1>10, <3>2
    <3>3. QED
      BY <1>5, <2>1, <3>1, <3>2
  <2>2. ASSUME NEW c \in Chunks, NEW t \in download'[x].chunkStatusOfOthers[c]
        PROVE  Serves(t, download[x].SHA, c)'
    BY <1>5, <1>7, <2>1, <2>2 DEF Serves, Holds, Content
  <2>3. QED
    BY <1>1, <1>3, <1>5, <1>6, <2>2, SwarmAssumption DEF DownloadIsTrue, InProgress
<1>12. QED
  BY <1>1, <1>2, <1>3, <1>5, <1>11
  DEF ClientIsTrue, EntryIsTrue, Holds, CommandIsTrue, ChunkIsTrue, OutcomeIsTrue, Content,
      InProgress

\* What stays true of the others and of a download while its file is created.
LEMMA ServesWhileCreating ==
  ASSUME CInv, Undisturbed, NEW x \in Clients, CreateFile(x) \/ StartThreads(x),
         NEW t \in Clients, NEW g \in Groups, NEW c \in Chunks, Serves(t, g, c), Undisturbed'
  PROVE  Serves(t, g, c)'
  BY ServesStays DEF StepOf, DownloadThread

\* The file is empty, then zeros: nothing of it was offered.
LEMMA CreateFileIsTrue ==
  ASSUME CInv, Undisturbed, Undisturbed', NEW x \in Clients, CreateFile(x)
  PROVE  ClientIsTrue(x)'
<1> USE DEF CInv, SInv
<1>1. UNCHANGED <<entered, files, command, thread, damaged>>
  BY DEF CreateFile, userVars, chunkVars, history
<1>2. ClientIsTrue(x) /\ FitsAt(x) /\ download[x].phase = "survey"
  BY DEF ContentsAreTrue, Fits, CreateFile, Surveyed, Surveying
<1>3. /\ download'[x].phase = "create"
      /\ download'[x].SHA = download[x].SHA
      /\ download'[x].filePath = download[x].filePath
      /\ download'[x].toAsk = download[x].toAsk
      /\ download'[x].asking = download[x].asking
      /\ download'[x].chunkStatusOfOthers = download[x].chunkStatusOfOthers
  BY DownloadFields DEF CreateFile, TypeOK, Downloads
<1>4. /\ DownloadIsTrue(x) /\ download[x].SHA \in Groups
      /\ files[x] # None /\ files[x].isChunkAvailable = {}
  BY <1>2 DEF ClientIsTrue, DownloadIsTrue, FitsAt, InProgress
<1>5. ASSUME NEW c \in Chunks, NEW t \in download[x].chunkStatusOfOthers[c]
      PROVE  Serves(t, download[x].SHA, c)'
  <2>1. PICK g \in Groups : g = download[x].SHA
    BY <1>4
  <2>2. t \in Clients /\ Serves(t, g, c)
    BY <1>2, <1>4, <2>1, DownloadFields DEF DownloadIsTrue, InProgress
  <2>3. Serves(t, g, c)'
    BY <2>2, ServesWhileCreating
  <2>4. QED
    BY <1>3, <2>1, <2>3 DEF Serves, Holds, Content
<1>6. DownloadIsTrue(x)'
  BY <1>1, <1>2, <1>3, <1>4, <1>5 DEF DownloadIsTrue, Serves, Holds, Content, InProgress
<1>7. EntryIsTrue(x)'
  BY <1>1, <1>2, <1>4 DEF ClientIsTrue, EntryIsTrue
<1>8. QED
  BY <1>1, <1>2, <1>3, <1>6, <1>7
  DEF ClientIsTrue, CommandIsTrue, ChunkIsTrue, OutcomeIsTrue

LEMMA StartThreadsIsTrue ==
  ASSUME CInv, Undisturbed, Undisturbed', NEW x \in Clients, StartThreads(x)
  PROVE  ClientIsTrue(x)'
<1> USE DEF CInv, SInv
<1>1. UNCHANGED <<entered, files, command, damaged>>
  BY DEF StartThreads, userVars, history
<1>2. ClientIsTrue(x) /\ FitsAt(x) /\ download[x].phase = "create"
  BY DEF ContentsAreTrue, Fits, StartThreads, WriteZeros
<1>3. /\ download'[x].phase = "fetch"
      /\ download'[x].SHA = download[x].SHA
      /\ download'[x].filePath = download[x].filePath
      /\ download'[x].toAsk = download[x].toAsk
      /\ download'[x].asking = download[x].asking
      /\ \A c \in Chunks : download'[x].chunkStatusOfOthers[c] = {}
  BY DownloadFields, Constructors DEF StartThreads, TypeOK, Downloads
<1>4. /\ DownloadIsTrue(x) /\ download[x].SHA \in Groups
      /\ files[x] # None /\ files[x].isChunkAvailable = {}
      /\ download[x].filePath \in Destinations
  BY <1>2 DEF ClientIsTrue, DownloadIsTrue, FitsAt, InProgress
<1>5. PICK chosen \in [Chunks -> Clients] :
        /\ \A e \in Chunks : chosen[e] \in download[x].chunkStatusOfOthers[e]
        /\ seeder' = [seeder EXCEPT ![x] = chosen]
  BY DEF StartThreads
<1>6. ASSUME NEW c \in Chunks
      PROVE  /\ thread'[x][c] = "ask"
             /\ disk'[x][download[x].filePath][c] \in Blank
             /\ seeder'[x][c] = chosen[c]
  BY <1>4, <1>5 DEF StartThreads, WriteZeros, Blank, TypeOK
<1>7. DownloadIsTrue(x)'
  BY <1>1, <1>2, <1>3, <1>4, <1>6 DEF DownloadIsTrue, InProgress
<1>8. EntryIsTrue(x)'
  BY <1>1, <1>2, <1>4 DEF ClientIsTrue, EntryIsTrue
<1>9. ASSUME NEW c \in Chunks PROVE ChunkIsTrue(x, c)'
  <2>1. PICK g \in Groups : g = download[x].SHA
    BY <1>4
  <2>2. Serves(chosen[c], g, c)
    BY <1>2, <1>4, <1>5, <2>1 DEF DownloadIsTrue, InProgress
  <2>3. Serves(chosen[c], g, c)'
    BY <2>2, ServesWhileCreating
  <2>4. QED
    BY <1>1, <1>3, <1>4, <1>5, <1>6, <2>1, <2>3 DEF ChunkIsTrue, Serves, Holds, Content
<1>10. QED
  BY <1>1, <1>2, <1>3, <1>7, <1>8, <1>9 DEF ClientIsTrue, CommandIsTrue, OutcomeIsTrue

\* All chunks are there, or one thread has failed, or one has been damaged.
LEMMA VerifySHAIsTrue ==
  ASSUME CInv, Undisturbed, NEW x \in Clients, VerifySHA(x)
  PROVE  ClientIsTrue(x)'
<1> USE DEF CInv, SInv
<1> DEFINE content(c) == disk[x][download[x].filePath][c]
<1>1. UNCHANGED <<entered, files, command, disk, thread, damaged>>
  BY DEF VerifySHA, userVars, fileVars, chunkVars, history
<1>2. ClientIsTrue(x) /\ FitsAt(x) /\ download[x].phase = "fetch"
  BY DEF ContentsAreTrue, Fits, VerifySHA
<1>3. /\ download'[x].phase = IF Matches(x) THEN "verified" ELSE "mismatched"
      /\ download'[x].SHA = download[x].SHA
      /\ download'[x].filePath = download[x].filePath
      /\ download'[x].toAsk = {}
      /\ download'[x].asking = None
      /\ \A c \in Chunks : download'[x].chunkStatusOfOthers[c] = {}
  BY Constructors DEF VerifySHA, TypeOK, Downloads
<1>4. /\ download[x].SHA = files[x].SHA /\ download[x].filePath = files[x].filePath
      /\ files[x] # None /\ download[x].SHA \in Groups
      /\ \A c \in Chunks : thread[x][c] = "over" => files[x].isChunkAvailable # {}
  BY <1>2 DEF ClientIsTrue, DownloadIsTrue, FitsAt, InProgress
<1>5. DownloadIsTrue(x)'
  BY <1>1, <1>3, <1>4, SwarmAssumption DEF DownloadIsTrue
<1>6. ASSUME NEW c \in Chunks
      PROVE  \/ thread[x][c] = "failed" /\ content(c) # download[x].SHA
             \/ thread[x][c] = "over" /\ (content(c) = download[x].SHA \/ c \in damaged)
  <2>1. thread[x][c] \in Ended
    BY DEF VerifySHA, Joined
  <2>2. ChunkIsTrue(x, c)
    BY <1>2 DEF ClientIsTrue
  <2>3. download[x].SHA \notin Blank
    BY <1>4, SwarmAssumption DEF Blank, NotAContent
  <2>4. QED
    BY <1>2, <2>1, <2>2, <2>3 DEF ChunkIsTrue, Ended
<1>7. OutcomeIsTrue(x)'
  <2>1. CASE Matches(x)
    <3>1. \A c \in Chunks : content(c) = download[x].SHA
      BY <1>4, <2>1 DEF Matches
    <3>2. \E c \in Chunks : thread[x][c] = "over"
      BY <1>6, <3>1, SwarmAssumption
    <3>3. QED
      BY <1>1, <1>3, <1>4, <2>1, <3>1, <3>2 DEF OutcomeIsTrue
  <2>2. CASE ~Matches(x)
    <3>1. \E c \in Chunks : thread[x][c] = "failed" \/ c \in damaged
      BY <1>4, <1>6, <2>2 DEF Matches
    <3>2. QED
      BY <1>1, <1>3, <2>2, <3>1 DEF OutcomeIsTrue
  <2>3. QED
    BY <2>1, <2>2
<1>8. EntryIsTrue(x)'
  BY <1>1, <1>2 DEF ClientIsTrue, EntryIsTrue, Holds, Content, InProgress
<1>9. CommandIsTrue(x)'
  BY <1>1, <1>2 DEF ClientIsTrue, CommandIsTrue
<1>10. QED
  BY <1>3, <1>5, <1>7, <1>8, <1>9 DEF ClientIsTrue, ChunkIsTrue

LEMMA DownloadThreadIsTrue ==
  ASSUME CInv, Undisturbed', NEW x \in Clients, DownloadThread(x)
  PROVE  ClientIsTrue(x)'
<1>1. StepOf(x) /\ Undisturbed
  BY EnteredStays DEF StepOf, CInv, SInv
<1>2. ASSUME NEW s \in Clients, Connect(x, s)
      PROVE  ClientIsTrue(x)'
  <2>1. /\ download[x] \in Downloads
        /\ download'[x] = [download[x] EXCEPT !.asking = s]
    BY <1>2, DownloadFields DEF Connect, CInv, SInv, TypeOK
  <2>2. /\ download'[x].asking \in download[x].toAsk
        /\ Unmoved(x)
        /\ command'[x] = command[x]
        /\ entered'[x] = entered[x]
    BY <1>2, <2>1 DEF Connect, Unmoved, Downloads, userVars, fileVars, chunkVars, history
  <2>3. QED
    BY <1>1, <2>2, UnmovedIsTrue
<1>3. CASE Dies(x)
  BY <1>3, EndedIsTrue DEF Dies, CInv, SInv
<1>4. CASE GivesUp(x) /\ download[x].phase \in {"survey", "create"}
  BY <1>1, <1>4, GivesUpIsTrue
<1>5. CASE CutOff(x)
  <2>1. download[x].phase = "survey"
    BY <1>5, SwarmAssumption DEF CutOff, CInv, SInv, Fits, FitsAt, TypeOK
  <2>2. QED
    BY <1>3, <1>4, <1>5, <2>1 DEF CutOff, Abort
<1>6. CASE (\E s \in Clients : Unreachable(x, s)) \/ ChunkIsMissing(x) \/ CannotCreateFile(x)
  BY <1>4, <1>6 DEF Unreachable, ChunkIsMissing, CannotCreateFile, Surveyed, Surveying, Abort
<1>7. CASE CannotWriteZeros(x)
  BY <1>4, <1>7 DEF CannotWriteZeros, WriteZeros
<1>8. QED
  BY <1>1, <1>2, <1>5, <1>6, <1>7, AnswerIsTrue, CreateFileIsTrue, StartThreadsIsTrue,
     VerifySHAIsTrue
  DEF DownloadThread

\* One chunk moves on; the others, the entry and the survey follow from that.
LEMMA ChunkMoves ==
  ASSUME CInv, Undisturbed, Undisturbed', NEW x \in Clients, NEW c \in Chunks, ChunkThread(x, c),
         ChunkIsTrue(x, c)', thread'[x][c] = "over" => StoreWord(x, c)
  PROVE  ClientIsTrue(x)'
<1> USE DEF CInv, SInv
<1> DEFINE g == download[x].SHA
           p == download[x].filePath
<1>1. /\ ClientIsTrue(x) /\ FitsAt(x) /\ download[x].phase = "fetch"
      /\ files[x] # None /\ g \in Groups /\ g = files[x].SHA
      /\ p \in Destinations /\ p = files[x].filePath
      /\ files'[x] # None
      /\ files'[x].SHA = files[x].SHA /\ files'[x].filePath = files[x].filePath
      /\ files'[x].isChunkAvailable = files[x].isChunkAvailable
           \/ /\ StoreWord(x, c) /\ c \in files'[x].isChunkAvailable
              /\ files'[x].isChunkAvailable \subseteq files[x].isChunkAvailable \cup {c}
  BY EntryOfThread
<1>2. /\ UNCHANGED <<entered, command, download>>
      /\ damaged \subseteq damaged'
      /\ \A e \in Chunks \ {c} :
           /\ thread'[x][e] = thread[x][e]
           /\ seeder'[x][e] = seeder[x][e]
           /\ outputBuffer'[x][e] = outputBuffer[x][e]
           /\ disk'[x][p][e] = disk[x][p][e]
  BY <1>1, ChunkThreadFrame
<1>3. ASSUME NEW s \in Clients, NEW e \in Chunks, NEW h \in Groups, Serves(s, h, e)
      PROVE  Serves(s, h, e)'
  <2>1. StepOf(x)
    BY DEF StepOf
  <2>2. QED
    BY <1>1, <1>3, <2>1, ServesStays
<1>4. EntryIsTrue(x)'
  <2>1. EntryIsTrue(x)
    BY <1>1 DEF ClientIsTrue
  <2>2. ASSUME NEW e \in files[x].isChunkAvailable
        PROVE  Holds(x, e)'
    <3>1. e \in Chunks /\ Holds(x, e)
      BY <1>1, <2>1, EntryFields DEF EntryIsTrue
    <3>2. QED
      BY <1>1, <1>2, <3>1, HoldsStays
  <2>3. ASSUME StoreWord(x, c)
        PROVE  Holds(x, c)'
    <3>1. thread'[x][c] = "over"
      BY <2>3 DEF StoreWord, TypeOK
    <3>2. disk'[x][p][c] = g \/ c \in damaged'
      BY <1>1, <1>2, <3>1 DEF ChunkIsTrue
    <3>3. QED
      BY <1>1, <3>1, <3>2 DEF Holds, Content
  <2>4. ASSUME NEW e \in files'[x].isChunkAvailable
        PROVE  Holds(x, e)'
    <3>1. CASE e \in files[x].isChunkAvailable
      BY <2>2, <3>1
    <3>2. CASE e = c /\ StoreWord(x, c)
      BY <2>3, <3>2
    <3>3. QED
      BY <1>1, <3>1, <3>2
  <2>5. files'[x].SHA = entered'[x]
    BY <1>1, <1>2, <2>1 DEF EntryIsTrue
  <2>6. QED
    BY <2>4, <2>5 DEF EntryIsTrue
<1>5. CommandIsTrue(x)'
  <2>1. command[x].at # "download"
    BY <1>1 DEF ClientIsTrue, CommandIsTrue
  <2>2. QED
    BY <1>1, <1>2, <2>1 DEF ClientIsTrue, CommandIsTrue
<1>6. DownloadIsTrue(x)'
  <2>1. DownloadIsTrue(x)
    BY <1>1 DEF ClientIsTrue
  <2>2. ASSUME NEW e \in Chunks, NEW s \in download[x].chunkStatusOfOthers[e]
        PROVE  Serves(s, g, e)'
    <3>1. s \in Clients /\ Serves(s, g, e)
      BY <1>1, <2>1, DownloadFields DEF DownloadIsTrue, InProgress
    <3>2. PICK h \in Groups : h = g
      BY <1>1
    <3>3. Serves(s, h, e)'
      BY <1>3, <3>1, <3>2
    <3>4. QED
      BY <1>2, <3>2, <3>3 DEF Serves, Holds, Content
  <2>3. ASSUME NEW e \in Chunks, thread'[x][e] = "over"
        PROVE  files'[x].isChunkAvailable # {}
    <3>1. CASE StoreWord(x, c)
      BY <1>1, <3>1 DEF StoreWord, TypeOK, AtWork, Entries
    <3>2. CASE ~StoreWord(x, c)
      BY <1>1, <1>2, <2>1, <2>3, <3>2 DEF DownloadIsTrue, InProgress
    <3>3. QED
      BY <3>1, <3>2
  <2>4. QED
    BY <1>1, <1>2, <2>1, <2>2, <2>3 DEF DownloadIsTrue, Serves, Holds, Content, InProgress
<1>7. ASSUME NEW e \in Chunks PROVE ChunkIsTrue(x, e)'
  <2>1. CASE e = c
    BY <2>1
  <2>2. CASE e # c
    <3>1. ChunkIsTrue(x, e)
      BY <1>1 DEF ClientIsTrue
    <3>2. QED
      BY <1>1, <1>2, <1>3, <2>2, <3>1 DEF ChunkIsTrue, Serves, Holds, Content
  <2>3. QED
    BY <2>1, <2>2
<1>8. QED
  BY <1>1, <1>2, <1>4, <1>5, <1>6, <1>7 DEF ClientIsTrue, OutcomeIsTrue

\* What a seeder who has the chunk answers.
LEMMA GenuineAnswer ==
  ASSUME NEW s \in Clients, NEW g \in Groups, NEW c \in Chunks, Serves(s, g, c),
         files[s] # None => EntryIsTrue(s), c \notin damaged
  PROVE  Answers(s, c) \ {None} \subseteq {g}
<1>1. CASE files[s] = None
  BY <1>1 DEF Answers
<1>2. CASE files[s] # None
  <2>1. Content(s, files[s].filePath, c) = g
    BY <1>2 DEF EntryIsTrue, Serves, Holds
  <2>2. g \notin {"absent", "empty", "zeros", "garbage"}
    BY SwarmAssumption DEF NotAContent
  <2>3. QED
    BY <1>2, <2>1, <2>2 DEF Answers
<1>3. QED
  BY <1>1, <1>2

LEMMA ChunkThreadIsTrue ==
  ASSUME CInv, Undisturbed', NEW x \in Clients, NEW c \in Chunks, ChunkThread(x, c)
  PROVE  ClientIsTrue(x)'
<1> USE DEF CInv, SInv
<1> DEFINE g == download[x].SHA
           p == download[x].filePath
<1>1. Undisturbed
  BY EnteredStays DEF StepOf
<1>2. /\ ClientIsTrue(x) /\ download[x].phase = "fetch"
      /\ g \in Groups /\ p \in Destinations
  BY <1>1, EntryOfThread
<1>3. ChunkIsTrue(x, c) /\ download' = download /\ damaged \subseteq damaged'
  BY <1>2, ChunkThreadFrame DEF ClientIsTrue
<1>4. ASSUME NEW content, Receive(x, c, content)
      PROVE  ClientIsTrue(x)'
  <2>1. /\ seeder[x][c] \in Clients /\ Serves(seeder[x][c], g, c)
        /\ disk[x][p][c] \in Blank
    BY <1>2, <1>3, <1>4 DEF Receive, ChunkIsTrue
  <2>2. content = g \/ c \in damaged'
    <3>1. CASE damaged' = damaged \cup {c}
      BY <3>1
    <3>2. CASE content \in Answers(seeder[x][c], c) \ {None} /\ c \notin damaged
      <4>1. EntryIsTrue(seeder[x][c])
        BY <1>1, <2>1 DEF ContentsAreTrue, ClientIsTrue
      <4>2. QED
        BY <1>2, <2>1, <3>2, <4>1, GenuineAnswer
    <3>3. QED
      BY <1>4, <3>1, <3>2 DEF Receive
  <2>3. /\ thread'[x][c] = "write" /\ outputBuffer'[x][c] = content
        /\ UNCHANGED disk
    BY <1>4 DEF Receive, TypeOK, fileVars
  <2>4. ChunkIsTrue(x, c)'
    BY <1>3, <2>1, <2>2, <2>3 DEF ChunkIsTrue
  <2>5. QED
    BY <1>1, <2>3, <2>4, ChunkMoves
<1>5. CASE ChunkFails(x, c)
  <2>1. disk[x][p][c] \in Blank
    BY <1>2, <1>3, <1>5 DEF ChunkFails, ChunkIsTrue
  <2>2. thread'[x][c] = "failed" /\ UNCHANGED disk
    BY <1>5 DEF ChunkFails, TypeOK, fileVars
  <2>3. ChunkIsTrue(x, c)'
    BY <1>3, <2>1, <2>2 DEF ChunkIsTrue
  <2>4. QED
    BY <1>1, <2>2, <2>3, ChunkMoves
<1>6. ASSUME NEW content, WriteChunk(x, c, content)
      PROVE  ClientIsTrue(x)'
  <2>1. outputBuffer[x][c] = g \/ c \in damaged
    BY <1>2, <1>3, <1>6 DEF WriteChunk, ChunkIsTrue
  <2>2. disk'[x][p][c] = content /\ thread'[x][c] = "load"
    BY <1>2, <1>6 DEF WriteChunk, TypeOK
  <2>3. content = g \/ c \in damaged'
    BY <1>3, <1>6, <2>1 DEF WriteChunk
  <2>4. ChunkIsTrue(x, c)'
    BY <1>3, <2>2, <2>3 DEF ChunkIsTrue
  <2>5. QED
    BY <1>1, <2>2, <2>4, ChunkMoves
<1>7. CASE LoadWord(x, c)
  <2>1. disk[x][p][c] = g \/ c \in damaged
    BY <1>2, <1>3, <1>7 DEF LoadWord, ChunkIsTrue
  <2>2. thread'[x][c] = "store" /\ UNCHANGED disk
    BY <1>7 DEF LoadWord, TypeOK, fileVars
  <2>3. ChunkIsTrue(x, c)'
    BY <1>3, <2>1, <2>2 DEF ChunkIsTrue
  <2>4. QED
    BY <1>1, <2>2, <2>3, ChunkMoves
<1>8. CASE StoreWord(x, c)
  <2>1. disk[x][p][c] = g \/ c \in damaged
    BY <1>2, <1>3, <1>8 DEF StoreWord, ChunkIsTrue
  <2>2. thread'[x][c] = "over" /\ UNCHANGED disk
    BY <1>8 DEF StoreWord, TypeOK
  <2>3. ChunkIsTrue(x, c)'
    BY <1>3, <2>1, <2>2 DEF ChunkIsTrue
  <2>4. QED
    BY <1>1, <1>8, <2>3, ChunkMoves
<1>9. QED
  BY <1>4, <1>5, <1>6, <1>7, <1>8 DEF ChunkThread

----------------------------------------------------------------------------
LEMMA IndexStays ==
  ASSUME CInv, Undisturbed', NEW x \in Clients, StepOf(x)
  PROVE  IndexIsTrue'
<1> USE DEF CInv, SInv
<1>1. Undisturbed /\ IndexIsTrue /\ ClientIsTrue(x)
  BY EnteredStays DEF ContentsAreTrue
<1>2. ASSUME NEW g \in Groups, NEW y \in Clients, entered[y] = g
      PROVE  entered'[y] = g
  BY <1>2, EnteredStays, SwarmAssumption
<1>3. CASE UNCHANGED indexVars
  <2>1. \A g \in Groups : \A y \in seeders[g][Name] : y \in Clients
    BY DEF TypeOK
  <2>2. QED
    BY <1>1, <1>2, <1>3, <2>1 DEF IndexIsTrue, indexVars
<1>4. CASE Index!Forget
  BY <1>4, SwarmAssumption DEF Index!Forget, IndexIsTrue
<1>5. CASE WithdrawAll(x) /\ ~UNCHANGED indexVars
  <2>1. group[x] \in Groups /\ Index!Withdraw(group[x], x)
    BY <1>5 DEF WithdrawAll, TypeOK
  <2>2. \A g \in Groups : digest'[g][Name] \in {digest[g][Name], None}
    BY <2>1 DEF Index!Withdraw, TypeOK
  <2>3. \A g \in Groups : \A y \in seeders'[g][Name] : y \in seeders[g][Name] /\ y \in Clients
    <3>1. \A g \in Groups : \A y \in seeders'[g][Name] : y \in seeders[g][Name]
      BY <2>1, Removals
    <3>2. QED
      BY <3>1 DEF TypeOK
  <2>4. QED
    BY <1>1, <1>2, <2>2, <2>3 DEF IndexIsTrue
<1>6. ASSUME NEW g \in Groups, entered'[x] = g,
             Index!Join(g, Name, x) \/ Index!Offer(g, Name, x, g)
      PROVE  IndexIsTrue'
  <2>1. \A h \in Groups : digest'[h][Name] \in {digest[h][Name], h}
    <3>1. CASE Index!Join(g, Name, x)
      BY <3>1 DEF Index!Join
    <3>2. CASE Index!Offer(g, Name, x, g)
      BY <3>2 DEF Index!Offer, TypeOK
    <3>3. QED
      BY <1>6, <3>1, <3>2
  <2>2. \A h \in Groups : \A y \in seeders'[h][Name] :
          y \in seeders[h][Name] \/ (h = g /\ y = x)
    BY <1>6, Additions
  <2>3. \A h \in Groups : \A y \in seeders[h][Name] : y \in Clients
    BY DEF TypeOK
  <2>4. QED
    BY <1>1, <1>2, <1>6, <2>1, <2>2, <2>3 DEF IndexIsTrue
<1>7. CASE UploadEnds(x) /\ ~UNCHANGED indexVars
  <2>1. /\ command[x].group \in Groups /\ entered[x] = command[x].group
        /\ entered' = entered
    BY <1>1, <1>7, CommandTypes DEF UploadEnds, ClientIsTrue, CommandIsTrue, history
  <2>2. QED
    BY <1>6, <1>7, <2>1 DEF UploadEnds
<1>8. ASSUME NEW g \in Groups, NEW p \in Destinations, DownloadStarts(x, g, p)
      PROVE  IndexIsTrue'
  <2>1. CountCommand(x, g) /\ Index!Join(g, Name, x)
    BY <1>1, <1>8 DEF DownloadStarts, Undisturbed
  <2>2. entered'[x] = g
    BY <2>1, CountedOnce DEF Undisturbed
  <2>3. QED
    BY <1>6, <2>1, <2>2
<1>9. CASE CommandThread(x)
  <2>1. \/ UNCHANGED indexVars
        \/ WithdrawAll(x)
        \/ UploadEnds(x)
        \/ \E g \in Groups, p \in Destinations : DownloadStarts(x, g, p)
    BY <1>9 DEF CommandThread, Enter, Leave, UploadStarts, ReplyLost, HandleDownload, Exit
  <2>2. QED
    BY <1>3, <1>5, <1>7, <1>8, <2>1
<1>10. CASE Dies(x) \/ Disconnected(x) \/ Start(x)
  BY <1>3, <1>4, <1>10 DEF Dies, Disconnected, Start, TrackerLosesClient, IndexIsLost
<1>11. CASE DownloadThread(x)
  BY <1>3, <1>10, <1>11
  DEF DownloadThread, Connect, Unreachable, Answer, CutOff, ChunkIsMissing, CreateFile,
      CannotCreateFile, StartThreads, CannotWriteZeros, VerifySHA, Abort, GivesUp
<1>12. CASE \E c \in Chunks : ChunkThread(x, c)
  BY <1>3, <1>12 DEF ChunkThread, Receive, ChunkFails, WriteChunk, LoadWord, StoreWord
<1>13. QED
  BY <1>9, <1>10, <1>11, <1>12 DEF StepOf, Killed

LEMMA StepCInv == CInv /\ [Next]_vars => CInv'
<1> SUFFICES ASSUME CInv, [Next]_vars PROVE CInv'
  OBVIOUS
<1>1. SInv'
  BY StepSInv DEF CInv
<1>2. CASE UNCHANGED vars
  <2>1. ContentsAreTrue'
    BY <1>2
    DEF CInv, ContentsAreTrue, Undisturbed, IndexIsTrue, ClientIsTrue, EntryIsTrue, CommandIsTrue,
        DownloadIsTrue, ChunkIsTrue, OutcomeIsTrue, Serves, Holds, Content, vars, indexVars,
        userVars, fileVars, chunkVars, history
  <2>2. QED
    BY <1>1, <2>1 DEF CInv
<1>3. ASSUME NEW x \in Clients, StepOf(x), Undisturbed'
      PROVE  IndexIsTrue' /\ \A y \in Clients : ClientIsTrue(y)'
  <2>1. ClientIsTrue(x)'
    <3>1. CASE Start(x)
      <4>1. Unmoved(x) /\ command'[x] = command[x] /\ download' = download /\ entered' = entered
        BY <3>1 DEF Start, Unmoved, fileVars, chunkVars, history
      <4>2. QED
        BY <1>3, <4>1, UnmovedIsTrue
    <3>2. CASE Killed(x)
      BY <3>2, EndedIsTrue DEF Killed, Dies, CInv, SInv
    <3>3. CASE Disconnected(x)
      BY <1>3, <3>3 DEF Disconnected, IndexIsLost, Undisturbed
    <3>4. QED
      BY <1>3, <3>1, <3>2, <3>3, CommandThreadIsTrue, DownloadThreadIsTrue, ChunkThreadIsTrue
      DEF StepOf
  <2>2. ASSUME NEW y \in Clients, y # x
        PROVE  ClientIsTrue(y)'
    <3>1. /\ Unmoved(y)
          /\ command'[y] = command[y]
          /\ download'[y].asking \in {download[y].asking, "cut"}
          /\ entered'[y] = entered[y]
      BY <1>3, <2>2, OthersUnmoved DEF CInv, SInv
    <3>2. QED
      BY <1>3, <3>1, UnmovedIsTrue
  <2>3. QED
    BY <1>3, <2>1, <2>2, IndexStays
<1>4. CASE Next
  BY <1>1, <1>3, <1>4 DEF Next, StepOf, CInv, ContentsAreTrue
<1>5. QED
  BY <1>2, <1>4

LEMMA SpecCInv == Spec => []CInv
<1>1. Init => CInv
  BY InitCInv
<1>2. CInv /\ [Next]_vars => CInv'
  BY StepCInv
<1>3. QED
  BY <1>1, <1>2, PTL DEF Spec

\* OffersAreGenuine: until a client uses the name again or the tracker goes
\* astray, a chunk that a client says it has is the one that the tracker
\* listed, through any chain of downloads, unless a read() or a write() on its
\* way took only a part of it, or of another chunk's number.
THEOREM SwarmOffersAreGenuine == Spec => []OffersAreGenuine
<1>1. ASSUME CInv, Undisturbed, NEW x \in Clients, files[x] # None,
             NEW c \in files[x].isChunkAvailable \ damaged
      PROVE  Content(x, files[x].filePath, c) = files[x].SHA
  BY <1>1 DEF CInv, ContentsAreTrue, ClientIsTrue, EntryIsTrue, Holds
<1>2. CInv => OffersAreGenuine
  BY <1>1 DEF OffersAreGenuine
<1>3. QED
  BY <1>2, SpecCInv, PTL

\* VerifiedIsShared: under the same condition, and whatever was lost or damaged
\* on the way, a verified file is the listed one, and some of it is offered.
THEOREM SwarmVerifiedIsShared == Spec => []VerifiedIsShared
<1>1. ASSUME CInv, Undisturbed, NEW x \in Clients, download[x].phase = "verified"
      PROVE  /\ HasFile(x, download[x].filePath, download[x].SHA)
             /\ files[x].SHA = download[x].SHA
             /\ files[x].isChunkAvailable # {}
  <2>1. ClientIsTrue(x) /\ FitsAt(x)
    BY <1>1 DEF CInv, ContentsAreTrue, SInv, Fits
  <2>2. /\ download[x].filePath \in Destinations
        /\ files[x].SHA = download[x].SHA
    BY <1>1, <2>1 DEF FitsAt, ClientIsTrue, DownloadIsTrue, InProgress
  <2>3. QED
    BY <1>1, <2>1, <2>2 DEF ClientIsTrue, OutcomeIsTrue, HasFile, Content
<1>2. CInv => VerifiedIsShared
  BY <1>1 DEF VerifiedIsShared
<1>3. QED
  BY <1>2, SpecCInv, PTL

\* MismatchHasCause: under the same condition, a mismatch comes from a chunk
\* whose thread failed, that was read or written in part, or whose number came
\* of one that was cut off, and from nothing else.
THEOREM SwarmMismatchHasCause == Spec => []MismatchHasCause
<1>1. CInv => MismatchHasCause
  BY DEF CInv, ContentsAreTrue, ClientIsTrue, OutcomeIsTrue, MismatchHasCause
<1>2. QED
  BY <1>1, SpecCInv, PTL
=============================================================================
