------------------------ MODULE SwarmProgressProofs ------------------------
(***************************************************************************)
(* Theorems about module Swarm: until a connection to the tracker is reset *)
(* the index is used as module ShareIndex says; nobody ever waits for a    *)
(* process that has ended, and every step of a download is one of boundedly *)
(* many, whatever the other clients do.                                    *)
(***************************************************************************)
EXTENDS SwarmContentProofs, FiniteSetTheorems

----------------------------------------------------------------------------
(* The index.                                                              *)

\* The guard of ShareIndex that the tracker does not test: as long as no
\* connection to the tracker has been reset, whoever uploads or downloads in
\* his group shares nothing outside of it.
CommandsAreNotRefused ==
  tracker = "up" =>
    \A x \in Clients, g \in Groups : group[x] = g => ~Index!SharesOutside(g, x)

\* So module Swarm loses no behaviour by using ShareIndex for a tracker that is
\* "up": what the tracker would do with a command, the guard of Offer or Join
\* allows.  After a reset the tracker keeps a client that is gone, or has come
\* back to another group, and module Swarm does not use ShareIndex any more.
THEOREM SwarmCommandsAreNotRefused == Spec => []CommandsAreNotRefused
<1>1. SInv => CommandsAreNotRefused
  BY DEF SInv, ListedAreMembers, CommandsAreNotRefused, Index!SharesOutside
<1>2. QED
  BY <1>1, SpecSInv, PTL

LEMMA StepUsesIndex ==
  ASSUME TypeOK, Next, tracker' # "astray"
  PROVE  tracker # "astray" /\ (Index!Next \/ UNCHANGED indexVars)
<1>1. PICK x \in Clients : StepOf(x)
  BY DEF Next, StepOf
<1>2. tracker # "astray"
  BY <1>1, AstrayStays
<1>3. ASSUME WithdrawAll(x)
      PROVE  Index!Next \/ UNCHANGED indexVars
  BY <1>3 DEF WithdrawAll, TypeOK, Index!Next
<1>4. ASSUME Dies(x) \/ Disconnected(x)
      PROVE  Index!Next
  BY <1>4 DEF Dies, Disconnected, TrackerLosesClient, IndexIsLost, Index!Next
<1>5. ASSUME NEW g \in Groups, Index!Join(g, Name, x) \/ Index!Offer(g, Name, x, g)
      PROVE  Index!Next
  BY <1>5 DEF Index!Next
<1>6. CASE UploadEnds(x)
  <2>1. command[x].group \in Groups
    BY <1>6, CommandTypes DEF UploadEnds
  <2>2. QED
    BY <1>2, <1>5, <1>6, <2>1 DEF UploadEnds
<1>7. CASE \E g \in Groups, p \in Destinations : DownloadStarts(x, g, p)
  BY <1>2, <1>5, <1>7 DEF DownloadStarts
<1>8. CASE CommandThread(x)
  BY <1>2, <1>3, <1>6, <1>7, <1>8
  DEF CommandThread, Enter, Leave, UploadStarts, ReplyLost, HandleDownload, Exit
<1>9. CASE DownloadThread(x)
  BY <1>2, <1>4, <1>9
  DEF DownloadThread, Connect, Unreachable, Answer, CutOff, ChunkIsMissing, CreateFile,
      CannotCreateFile, StartThreads, CannotWriteZeros, VerifySHA, Abort, GivesUp
<1>10. CASE Start(x) \/ Killed(x) \/ Disconnected(x) \/ \E c \in Chunks : ChunkThread(x, c)
  BY <1>2, <1>4, <1>10
  DEF Start, Killed, ChunkThread, Receive, ChunkFails, WriteChunk, LoadWord, StoreWord
<1>11. QED
  BY <1>1, <1>2, <1>8, <1>9, <1>10 DEF StepOf

\* The clients and the tracker together keep the promise about shares from the
\* start until a connection to the tracker is reset, after which nothing is
\* said of the index: also when clients are killed and take the tracker along,
\* or leave while they download.
SharesAreKept == tracker' # "astray" => tracker # "astray" /\ [Index!Next]_(Index!vars)

THEOREM SwarmUsesShareIndex == Spec => Index!Init /\ [][SharesAreKept]_vars
<1>1. Init => Index!Init
  BY DEF Init
<1>2. TypeOK /\ [Next]_vars => [SharesAreKept]_vars
  BY StepUsesIndex DEF SharesAreKept, indexVars, Index!vars
<1>3. QED
  BY <1>1, <1>2, SwarmTypeOK, PTL DEF Spec

----------------------------------------------------------------------------
(* Whom a download waits for.                                              *)

\* The seeder whose answer a survey is waiting for runs, and is one that it was
\* told to ask; a file is created only when each of its chunks was found; a
\* client is not told of a new download while it has one.
WaitsAt(x) ==
  /\ download[x].asking \in Clients =>
       download[x].asking \in running /\ download[x].asking \in download[x].toAsk
  /\ download[x].phase = "create" => HeldByOthers(x)
  /\ command[x].at = "download" => download[x].phase \in Over

NobodyWaitsForTheDead == \A x \in Clients : WaitsAt(x)

\* A process goes only in ProcessEnds, which cuts the connections to it.
LEMMA WhoEnds ==
  ASSUME TypeOK, NEW x \in Clients, StepOf(x)
  PROVE  (ProcessEnds(x) /\ running' = running \ {x}) \/ running \subseteq running'
<1>1. CASE ProcessEnds(x)
  BY <1>1 DEF ProcessEnds
<1>2. CASE ~ProcessEnds(x)
  <2>1. ~Exit(x) /\ ~Dies(x)
    BY <1>2 DEF Exit, Dies
  <2>2. CASE Start(x) \/ Disconnected(x) \/ CommandThread(x)
    BY <2>1, <2>2
    DEF Start, Disconnected, CommandThread, Enter, Leave, UploadStarts, UploadEnds, DownloadStarts,
        ReplyLost, HandleDownload
  <2>3. CASE DownloadThread(x) \/ \E c \in Chunks : ChunkThread(x, c)
    BY <2>1, <2>3
    DEF DownloadThread, Connect, Unreachable, Answer, CutOff, ChunkIsMissing, CreateFile,
        CannotCreateFile, StartThreads, CannotWriteZeros, VerifySHA, Abort, GivesUp, ChunkThread,
        Receive, ChunkFails, WriteChunk, LoadWord, StoreWord, userVars
  <2>4. QED
    BY <2>1, <2>2, <2>3 DEF StepOf, Killed
<1>3. QED
  BY <1>1, <1>2

LEMMA OthersWait ==
  ASSUME TypeOK, NEW x \in Clients, StepOf(x), NEW y \in Clients, y # x, WaitsAt(y)
  PROVE  WaitsAt(y)'
<1>1. /\ download'[y].phase = download[y].phase
      /\ download'[y].toAsk = download[y].toAsk
      /\ download'[y].chunkStatusOfOthers = download[y].chunkStatusOfOthers
      /\ command'[y] = command[y]
      /\ download'[y].asking \in {download[y].asking, "cut"}
  BY OthersUnmoved DEF Unmoved
<1>2. ASSUME download'[y].asking \in Clients
      PROVE  download'[y].asking \in running' /\ download'[y].asking \in download'[y].toAsk
  <2>1. download'[y].asking = download[y].asking
    BY <1>1, <1>2, SwarmAssumption
  <2>2. download[y].asking \in running /\ download[y].asking \in download[y].toAsk
    BY <1>2, <2>1 DEF WaitsAt
  <2>3. CASE running \subseteq running'
    BY <1>1, <2>1, <2>2, <2>3
  <2>4. CASE ProcessEnds(x) /\ running' = running \ {x}
    <3>1. download[y].asking # x
      <4>1. SUFFICES ASSUME download[y].asking = x PROVE FALSE
        OBVIOUS
      <4>2. download'[y] = [download[y] EXCEPT !.asking = "cut"]
        BY <2>4, <4>1 DEF ProcessEnds, ConnectionOf
      <4>3. download'[y].asking = "cut"
        BY <4>2, DownloadFields DEF Downloads
      <4>4. QED
        BY <1>2, <4>3, SwarmAssumption
    <3>2. QED
      BY <1>1, <2>1, <2>2, <2>4, <3>1
  <2>5. QED
    BY <2>3, <2>4, WhoEnds
<1>3. HeldByOthers(y)' <=> HeldByOthers(y)
  BY <1>1 DEF HeldByOthers
<1>4. QED
  BY <1>1, <1>2, <1>3 DEF WaitsAt

\* Where a download stands when nothing is known about its survey.
LEMMA NotWaiting ==
  ASSUME NEW x \in Clients, download'[x].asking = None, download'[x].phase # "create",
         command'[x].at = "download" => download'[x].phase \in Over
  PROVE  WaitsAt(x)'
  BY SwarmAssumption DEF WaitsAt

LEMMA EndedWaits ==
  ASSUME TypeOK, NEW x \in Clients, ProcessEnds(x)
  PROVE  WaitsAt(x)'
<1>1. download'[x] = NoDownload /\ command'[x] = Idle
  BY DEF ProcessEnds, TypeOK
<1>2. QED
  BY <1>1, Constructors, NotWaiting DEF Idle

LEMMA CommandWaits ==
  ASSUME SInv, NEW x \in Clients, CommandThread(x), WaitsAt(x)
  PROVE  WaitsAt(x)'
<1> USE DEF SInv
<1>1. CASE Exit(x)
  BY <1>1, EndedWaits DEF Exit
<1>2. CASE HandleDownload(x)
  <2>1. download'[x] = [NoDownload EXCEPT !.phase = "survey", !.SHA = command[x].SHA,
                          !.filePath = command[x].filePath, !.toAsk = command[x].seeders]
    BY <1>2 DEF HandleDownload, TypeOK
  <2>2. download'[x].asking = None /\ download'[x].phase = "survey"
    BY <2>1, Constructors DEF Downloads
  <2>3. command'[x] = Idle
    BY <1>2 DEF HandleDownload, TypeOK
  <2>4. QED
    BY <2>2, <2>3, NotWaiting DEF Idle
<1>3. ASSUME UNCHANGED <<running, download>>,
             command'[x].at = "download" => command[x].at = "download" \/ download[x].phase \in Over
      PROVE  WaitsAt(x)'
  BY <1>3 DEF WaitsAt, HeldByOthers
<1>4. CASE Leave(x) \/ \E g \in Groups : Enter(x, g)
  BY <1>3, <1>4 DEF Leave, Enter
<1>5. ASSUME NEW g \in Groups, NEW p \in Paths, UploadStarts(x, g, p)
      PROVE  WaitsAt(x)'
  <2>1. command'[x].at = "upload"
    BY <1>5 DEF UploadStarts, TypeOK
  <2>2. QED
    BY <1>3, <1>5, <2>1 DEF UploadStarts
<1>6. CASE UploadEnds(x) \/ ReplyLost(x)
  <2>1. command'[x] = Idle
    BY <1>6 DEF UploadEnds, ReplyLost, TypeOK
  <2>2. QED
    BY <1>3, <1>6, <2>1 DEF UploadEnds, ReplyLost, Idle
<1>7. ASSUME NEW g \in Groups, NEW p \in Destinations, DownloadStarts(x, g, p)
      PROVE  WaitsAt(x)'
  BY <1>3, <1>7 DEF DownloadStarts
<1>8. QED
  BY <1>1, <1>2, <1>4, <1>5, <1>6, <1>7 DEF CommandThread

LEMMA GivesUpWaits ==
  ASSUME TypeOK, NEW x \in Clients, GivesUp(x)
  PROVE  WaitsAt(x)'
<1>1. download'[x] = [NoDownload EXCEPT !.phase = "aborted"]
  BY DEF GivesUp, TypeOK
<1>2. download'[x].asking = None /\ download'[x].phase = "aborted"
  BY <1>1, Constructors DEF Downloads
<1>3. QED
  BY <1>2, NotWaiting DEF Over

LEMMA DownloadWaits ==
  ASSUME SInv, NEW x \in Clients, DownloadThread(x), WaitsAt(x)
  PROVE  WaitsAt(x)'
<1> USE DEF SInv
<1>0. FitsAt(x)
  BY DEF Fits
<1>1. ASSUME NEW s \in Clients, Connect(x, s)
      PROVE  WaitsAt(x)'
  <2>1. download'[x] = [download[x] EXCEPT !.asking = s] /\ download[x].phase = "survey"
    BY <1>1 DEF Connect, Surveying, TypeOK
  <2>2. /\ download'[x].asking = s /\ download'[x].toAsk = download[x].toAsk
        /\ download'[x].phase = "survey"
    BY <2>1, DownloadFields DEF Downloads
  <2>3. s \in running /\ s \in download[x].toAsk /\ UNCHANGED <<running, command>>
    BY <1>1 DEF Connect, userVars
  <2>4. command'[x].at # "download"
    BY <2>1, <2>3 DEF WaitsAt, Over
  <2>5. QED
    BY <2>2, <2>3, <2>4 DEF WaitsAt
<1>2. CASE \E s \in Clients : Unreachable(x, s)
  BY <1>2, GivesUpWaits DEF Unreachable, Abort
<1>3. CASE Answer(x)
  <2>1. download'[x].asking = None /\ download'[x].phase = download[x].phase
    BY <1>3, DownloadFields DEF Answer, TypeOK, Downloads
  <2>2. download[x].phase = "survey"
    BY <1>0, <1>3, SwarmAssumption DEF Answer, FitsAt, TypeOK
  <2>3. UNCHANGED command
    BY <1>3 DEF Answer, userVars
  <2>4. QED
    BY <2>1, <2>2, <2>3, NotWaiting DEF WaitsAt, Over
<1>4. CASE CutOff(x)
  BY <1>4, GivesUpWaits, EndedWaits DEF CutOff, Dies, Abort
<1>5. CASE ChunkIsMissing(x) \/ CannotCreateFile(x) \/ CannotWriteZeros(x)
  BY <1>5, GivesUpWaits DEF ChunkIsMissing, CannotCreateFile, CannotWriteZeros, Abort
<1>6. CASE CreateFile(x)
  <2>1. /\ download'[x].phase = "create" /\ download'[x].asking = None
        /\ download'[x].chunkStatusOfOthers = download[x].chunkStatusOfOthers
        /\ download[x].phase = "survey"
    BY <1>6, DownloadFields DEF CreateFile, Surveyed, Surveying, TypeOK, Downloads
  <2>2. HeldByOthers(x) /\ UNCHANGED command
    BY <1>6 DEF CreateFile, userVars
  <2>3. command'[x].at # "download"
    BY <2>1, <2>2 DEF WaitsAt, Over
  <2>4. QED
    BY <2>1, <2>2, <2>3, SwarmAssumption DEF WaitsAt, HeldByOthers
<1>7. CASE StartThreads(x)
  <2>1. /\ download'[x].phase = "fetch" /\ download'[x].asking = download[x].asking
        /\ download[x].phase = "create"
    BY <1>7, DownloadFields DEF StartThreads, WriteZeros, TypeOK, Downloads
  <2>2. download[x].asking = None
    BY <1>0, <2>1 DEF FitsAt
  <2>3. UNCHANGED command
    BY <1>7 DEF StartThreads, userVars
  <2>4. QED
    BY <2>1, <2>2, <2>3, NotWaiting DEF WaitsAt, Over
<1>8. CASE VerifySHA(x)
  <2>1. /\ download'[x].phase \in {"verified", "mismatched"} /\ download'[x].asking = None
    BY <1>8, Constructors DEF VerifySHA, TypeOK, Downloads
  <2>2. QED
    BY <2>1, NotWaiting DEF Over
<1>9. QED
  BY <1>1, <1>2, <1>3, <1>4, <1>5, <1>6, <1>7, <1>8 DEF DownloadThread

LEMMA StepWaits ==
  SInv /\ NobodyWaitsForTheDead /\ [Next]_vars => NobodyWaitsForTheDead'
<1> SUFFICES ASSUME SInv, NobodyWaitsForTheDead, [Next]_vars, NEW y \in Clients
             PROVE  WaitsAt(y)'
  BY DEF NobodyWaitsForTheDead
<1>1. WaitsAt(y) /\ TypeOK
  BY DEF NobodyWaitsForTheDead, SInv
<1>2. CASE UNCHANGED vars
  BY <1>1, <1>2 DEF vars, userVars, WaitsAt, HeldByOthers
<1>3. CASE Next
  <2>1. PICK x \in Clients : StepOf(x)
    BY <1>3 DEF Next, StepOf
  <2>2. CASE y # x
    BY <1>1, <2>1, <2>2, OthersWait
  <2>3. CASE y = x
    <3>1. CASE Start(x) \/ Disconnected(x)
      BY <1>1, <2>3, <3>1 DEF Start, Disconnected, WaitsAt, HeldByOthers
    <3>2. CASE Killed(x)
      BY <1>1, <2>3, <3>2, EndedWaits DEF Killed, Dies
    <3>3. ASSUME NEW c \in Chunks, ChunkThread(x, c)
          PROVE  WaitsAt(x)'
      <4>1. UNCHANGED <<running, command, download>>
        BY <3>3 DEF ChunkThread, Receive, ChunkFails, WriteChunk, LoadWord, StoreWord, userVars
      <4>2. QED
        BY <1>1, <2>3, <4>1 DEF WaitsAt, HeldByOthers
    <3>4. QED
      BY <1>1, <2>1, <2>3, <3>1, <3>2, <3>3, CommandWaits, DownloadWaits DEF StepOf
  <2>4. QED
    BY <2>2, <2>3
<1>4. QED
  BY <1>2, <1>3

\* However clients that ask each other end, are killed, leave or lose the
\* tracker, no thread waits for the answer of a process that is gone, and none
\* that has created its file lacks a seeder to draw for a chunk.
THEOREM SwarmNobodyWaitsForTheDead == Spec => []NobodyWaitsForTheDead
<1>1. Init => NobodyWaitsForTheDead
  <2> SUFFICES ASSUME Init, NEW x \in Clients PROVE WaitsAt(x)
    BY DEF NobodyWaitsForTheDead
  <2>1. download[x] = NoDownload /\ command[x] = Idle
    BY DEF Init
  <2>2. QED
    BY <2>1, Constructors, SwarmAssumption DEF WaitsAt, Idle
<1>2. QED
  BY <1>1, StepWaits, SpecSInv, PTL DEF Spec

----------------------------------------------------------------------------
(* A download runs out of steps.                                           *)

\* How many steps the thread of chunk c of x has ahead of it.
ThreadSteps(x, c) ==
  CASE thread[x][c] = "ask"   -> 4
    [] thread[x][c] = "write" -> 3
    [] thread[x][c] = "load"  -> 2
    [] thread[x][c] = "store" -> 1
    [] OTHER -> 0

ThreadStepsAhead(x) == {q \in Chunks \X (1 .. 4) : q[2] <= ThreadSteps(x, q[1])}

AllThreadSteps == Cardinality(Chunks \X (1 .. 4))

\* A seeder takes two steps of the survey, to connect and to hear or give up.
SurveySteps(x) ==
  (2 * Cardinality(download[x].toAsk)) + (IF download[x].asking = None THEN 1 ELSE 0)

StepsLeft(x) ==
  CASE download[x].phase = "survey" -> SurveySteps(x) + AllThreadSteps + 3
    [] download[x].phase = "create" -> AllThreadSteps + 2
    [] download[x].phase = "fetch"  -> Cardinality(ThreadStepsAhead(x)) + 1
    [] OTHER -> 0

FiniteSwarm == IsFiniteSet(Clients) /\ IsFiniteSet(Chunks)

CountsAt(x) ==
  /\ IsFiniteSet(download[x].toAsk) /\ Cardinality(download[x].toAsk) \in Nat
  /\ IsFiniteSet(ThreadStepsAhead(x)) /\ Cardinality(ThreadStepsAhead(x)) \in Nat
  /\ Cardinality(ThreadStepsAhead(x)) <= AllThreadSteps
  /\ AllThreadSteps \in Nat

AllCount == \A x \in Clients : CountsAt(x)

LEMMA StepsAreCounted ==
  ASSUME FiniteSwarm
  PROVE  TypeOK => AllCount
<1> SUFFICES ASSUME TypeOK, NEW x \in Clients PROVE CountsAt(x)
  BY DEF AllCount
<1>1. IsFiniteSet(download[x].toAsk) /\ Cardinality(download[x].toAsk) \in Nat
  BY DownloadFields, FS_Subset, FS_CardinalityType DEF FiniteSwarm
<1>2. IsFiniteSet(1 .. 4)
  <2>1. 1 \in Int /\ 4 \in Int
    OBVIOUS
  <2>2. QED
    BY ONLY <2>1, FS_Interval
<1>3. IsFiniteSet(Chunks \X (1 .. 4))
  BY <1>2, FS_Product DEF FiniteSwarm
<1>4. ThreadStepsAhead(x) \in SUBSET (Chunks \X (1 .. 4))
  BY DEF ThreadStepsAhead
<1>5. /\ IsFiniteSet(ThreadStepsAhead(x)) /\ Cardinality(ThreadStepsAhead(x)) \in Nat
      /\ Cardinality(ThreadStepsAhead(x)) <= AllThreadSteps /\ AllThreadSteps \in Nat
  BY <1>3, <1>4, FS_Subset, FS_CardinalityType DEF AllThreadSteps
<1>6. QED
  BY <1>1, <1>5 DEF CountsAt

LEMMA StepsLeftType ==
  ASSUME NEW x \in Clients, CountsAt(x)
  PROVE  StepsLeft(x) \in Nat /\ (download[x].phase \in {"survey", "create", "fetch"} => StepsLeft(x) > 0)
<1>1. SurveySteps(x) \in Nat
  BY DEF CountsAt, SurveySteps
<1>2. QED
  BY <1>1 DEF CountsAt, StepsLeft

\* Someone else's step.
LEMMA OthersLeaveSteps ==
  ASSUME TypeOK, NEW x \in Clients, StepOf(x), NEW y \in Clients, y # x, CountsAt(y), CountsAt(y)'
  PROVE  StepsLeft(y)' <= StepsLeft(y)
<1>1. /\ download'[y].phase = download[y].phase
      /\ download'[y].toAsk = download[y].toAsk
      /\ download'[y].asking \in {download[y].asking, "cut"}
      /\ thread'[y] = thread[y]
  BY OthersUnmoved DEF Unmoved
<1>2. ThreadStepsAhead(y)' = ThreadStepsAhead(y)
  BY <1>1 DEF ThreadStepsAhead, ThreadSteps
<1>3. AllThreadSteps' = AllThreadSteps
  BY DEF AllThreadSteps
<1>4. download'[y].asking = None => download[y].asking = None
  BY <1>1, SwarmAssumption
<1>5. /\ SurveySteps(y) \in Nat /\ SurveySteps(y)' \in Nat
      /\ SurveySteps(y)' <= SurveySteps(y)
  BY <1>1, <1>4 DEF CountsAt, SurveySteps
<1>6. QED
  BY <1>1, <1>2, <1>3, <1>5 DEF StepsLeft, CountsAt

\* A download that ends has no steps left.
LEMMA OverHasNone ==
  ASSUME NEW x \in Clients, download'[x].phase \in Over
  PROVE  StepsLeft(x)' = 0
  BY DEF StepsLeft, Over

\* A step of the download of x, or of one of its threads.
OwnStep(x) == DownloadThread(x) \/ \E c \in Chunks : ChunkThread(x, c)

LEMMA DownloadThreadDescends ==
  ASSUME SInv, NEW x \in Clients, WaitsAt(x), DownloadThread(x), CountsAt(x), CountsAt(x)'
  PROVE  download[x].phase \notin Over /\ StepsLeft(x)' < StepsLeft(x)
<1> USE DEF SInv
<1>0. FitsAt(x) /\ AllThreadSteps' = AllThreadSteps
  BY DEF Fits, AllThreadSteps
<1>1. ASSUME download[x].phase \in {"survey", "create", "fetch"}, download'[x].phase \in Over
      PROVE  download[x].phase \notin Over /\ StepsLeft(x)' < StepsLeft(x)
  BY <1>1, OverHasNone, StepsLeftType DEF Over
<1>2. ASSUME GivesUp(x)
      PROVE  download'[x].phase \in Over
  <2>1. download'[x] = [NoDownload EXCEPT !.phase = "aborted"]
    BY <1>2 DEF GivesUp, TypeOK
  <2>2. QED
    BY <2>1, Constructors DEF Downloads, Over
<1>3. ASSUME NEW s \in Clients, Connect(x, s)
      PROVE  download[x].phase \notin Over /\ StepsLeft(x)' < StepsLeft(x)
  <2>1. /\ download[x].phase = "survey" /\ download[x].asking = None
        /\ download'[x] = [download[x] EXCEPT !.asking = s]
    BY <1>3 DEF Connect, Surveying, TypeOK
  <2>2. /\ download'[x].phase = "survey" /\ download'[x].asking = s
        /\ download'[x].toAsk = download[x].toAsk
    BY <2>1, DownloadFields DEF Downloads
  <2>3. SurveySteps(x) \in Nat /\ SurveySteps(x)' \in Nat /\ SurveySteps(x)' < SurveySteps(x)
    BY <2>1, <2>2, SwarmAssumption DEF SurveySteps, CountsAt
  <2>4. QED
    BY <1>0, <2>1, <2>2, <2>3 DEF StepsLeft, CountsAt, Over
<1>4. CASE \E s \in Clients : Unreachable(x, s)
  BY <1>1, <1>2, <1>4 DEF Unreachable, Surveying, Abort
<1>5. CASE Answer(x)
  <2> DEFINE s == download[x].asking
  <2>1. s \in Clients /\ download[x].phase = "survey"
    BY <1>0, <1>5, SwarmAssumption DEF Answer, FitsAt, TypeOK
  <2>2. s \in download[x].toAsk /\ s # None
    BY <2>1, SwarmAssumption DEF WaitsAt
  <2>3. /\ download'[x].phase = "survey" /\ download'[x].asking = None
        /\ download'[x].toAsk = download[x].toAsk \ {s}
    BY <1>5, <2>1, DownloadFields DEF Answer, TypeOK, Downloads
  <2>4. Cardinality(download'[x].toAsk) = Cardinality(download[x].toAsk) - 1
    BY <2>2, <2>3, FS_RemoveElement DEF CountsAt
  <2>5. SurveySteps(x) \in Nat /\ SurveySteps(x)' \in Nat /\ SurveySteps(x)' < SurveySteps(x)
    BY <2>2, <2>3, <2>4 DEF SurveySteps, CountsAt
  <2>6. QED
    BY <1>0, <2>1, <2>3, <2>5 DEF StepsLeft, CountsAt, Over
<1>6. CASE CutOff(x)
  <2>1. download[x].phase = "survey"
    BY <1>0, <1>6, SwarmAssumption DEF CutOff, FitsAt, TypeOK
  <2>2. ASSUME Dies(x)
        PROVE  download'[x].phase \in Over
    BY <2>2, Constructors DEF Dies, ProcessEnds, Over
  <2>3. QED
    BY <1>1, <1>2, <1>6, <2>1, <2>2 DEF CutOff, Abort
<1>7. CASE ChunkIsMissing(x) \/ CannotCreateFile(x) \/ CannotWriteZeros(x)
  <2>1. download[x].phase \in {"survey", "create"} /\ GivesUp(x)
    BY <1>7
    DEF ChunkIsMissing, CannotCreateFile, CannotWriteZeros, WriteZeros, Surveyed, Surveying, Abort
  <2>2. QED
    BY <1>1, <1>2, <2>1
<1>8. CASE CreateFile(x)
  <2>1. download'[x].phase = "create" /\ download[x].phase = "survey"
    BY <1>8, DownloadFields DEF CreateFile, Surveyed, Surveying, TypeOK, Downloads
  <2>2. SurveySteps(x) \in Nat
    BY DEF CountsAt, SurveySteps
  <2>3. QED
    BY <1>0, <2>1, <2>2 DEF StepsLeft, CountsAt, Over
<1>9. CASE StartThreads(x)
  <2>1. download'[x].phase = "fetch" /\ download[x].phase = "create"
    BY <1>9, DownloadFields DEF StartThreads, WriteZeros, TypeOK, Downloads
  <2>2. QED
    BY <1>0, <2>1 DEF StepsLeft, CountsAt, Over
<1>10. CASE VerifySHA(x)
  <2>1. download'[x].phase \in Over /\ download[x].phase = "fetch"
    BY <1>10, Constructors DEF VerifySHA, TypeOK, Downloads, Over
  <2>2. QED
    BY <1>1, <2>1
<1>11. QED
  BY <1>3, <1>4, <1>5, <1>6, <1>7, <1>8, <1>9, <1>10 DEF DownloadThread

LEMMA ChunkThreadDescends ==
  ASSUME SInv, NEW x \in Clients, NEW c \in Chunks, ChunkThread(x, c), CountsAt(x), CountsAt(x)'
  PROVE  download[x].phase \notin Over /\ StepsLeft(x)' < StepsLeft(x)
<1> USE DEF SInv
<1>1. /\ UNCHANGED download
      /\ \A d \in Chunks \ {c} : thread'[x][d] = thread[x][d]
      /\ \/ thread[x][c] = "ask" /\ thread'[x][c] \in {"write", "failed"}
         \/ thread[x][c] = "write" /\ thread'[x][c] \in {"load", "failed"}
         \/ thread[x][c] = "load" /\ thread'[x][c] = "store"
         \/ thread[x][c] = "store" /\ thread'[x][c] = "over"
  <2>1. /\ UNCHANGED download
        /\ \/ thread[x][c] = "ask" /\ thread' = [thread EXCEPT ![x][c] = "write"]
           \/ thread[x][c] \in {"ask", "write"} /\ thread' = [thread EXCEPT ![x][c] = "failed"]
           \/ thread[x][c] = "write" /\ thread' = [thread EXCEPT ![x][c] = "load"]
           \/ thread[x][c] = "load" /\ thread' = [thread EXCEPT ![x][c] = "store"]
           \/ thread[x][c] = "store" /\ thread' = [thread EXCEPT ![x][c] = "over"]
    BY DEF ChunkThread, Receive, ChunkFails, WriteChunk, LoadWord, StoreWord
  <2>2. QED
    BY <2>1 DEF TypeOK
<1>2. download[x].phase = "fetch" /\ download'[x].phase = "fetch"
  BY <1>1 DEF Fits, FitsAt, AtWork
<1>3. /\ ThreadSteps(x, c) \in 1 .. 4 /\ ThreadSteps(x, c)' \in 0 .. 4
      /\ ThreadSteps(x, c)' < ThreadSteps(x, c)
  BY <1>1 DEF ThreadSteps
<1>4. \A d \in Chunks \ {c} : ThreadSteps(x, d)' = ThreadSteps(x, d)
  BY <1>1 DEF ThreadSteps
<1>5. ThreadStepsAhead(x)' \in SUBSET ThreadStepsAhead(x)
  <2>1. ASSUME NEW q \in Chunks \X (1 .. 4), q[2] <= ThreadSteps(x, q[1])'
        PROVE  q[2] <= ThreadSteps(x, q[1])
    BY <1>3, <1>4, <2>1
  <2>2. QED
    BY <2>1 DEF ThreadStepsAhead
<1>6. /\ <<c, ThreadSteps(x, c)>> \in ThreadStepsAhead(x)
      /\ <<c, ThreadSteps(x, c)>> \notin ThreadStepsAhead(x)'
  BY <1>3 DEF ThreadStepsAhead
<1>7. Cardinality(ThreadStepsAhead(x)') < Cardinality(ThreadStepsAhead(x))
  BY <1>5, <1>6, FS_Subset, FS_CardinalityType DEF CountsAt
<1>8. QED
  BY <1>2, <1>7 DEF StepsLeft, CountsAt, Over

\* While a download is under way, its own steps leave it fewer, and what any
\* other thread or client does leaves it no more.
StepsRunOut ==
  \A x \in Clients : download[x].phase \notin Over =>
    /\ StepsLeft(x) \in Nat /\ StepsLeft(x) > 0
    /\ StepsLeft(x)' <= StepsLeft(x)
    /\ OwnStep(x) => StepsLeft(x)' < StepsLeft(x)

\* The safety half of EveryDownloadEnds, for any number of clients and chunks:
\* clients that ask each other, end or are killed, and commands of the same
\* client, never give a download more to do.
THEOREM SwarmStepsRunOut ==
  ASSUME FiniteSwarm
  PROVE  Spec => [][StepsRunOut]_vars
<1>1. ASSUME SInv, AllCount, AllCount', NobodyWaitsForTheDead, Next
      PROVE  StepsRunOut
  <2> USE DEF SInv
  <2> SUFFICES ASSUME NEW y \in Clients, download[y].phase \notin Over
               PROVE  /\ StepsLeft(y) \in Nat /\ StepsLeft(y) > 0
                      /\ StepsLeft(y)' <= StepsLeft(y)
                      /\ OwnStep(y) => StepsLeft(y)' < StepsLeft(y)
    BY DEF StepsRunOut
  <2>1. CountsAt(y)
    BY <1>1 DEF AllCount
  <2>2. CountsAt(y)'
    BY <1>1 DEF AllCount
  <2>3. StepsLeft(y) \in Nat /\ StepsLeft(y) > 0
    <3>1. download[y].phase \in {"survey", "create", "fetch"}
      BY <1>1, DownloadFields
    <3>2. QED
      BY <2>1, <3>1, StepsLeftType
  <2>4. StepsLeft(y)' \in Nat
    BY <2>2 DEF CountsAt, StepsLeft, SurveySteps
  <2>5. WaitsAt(y)
    BY <1>1 DEF NobodyWaitsForTheDead
  <2>6. OwnStep(y) => StepsLeft(y)' < StepsLeft(y)
    BY <1>1, <2>1, <2>2, <2>5, DownloadThreadDescends, ChunkThreadDescends DEF OwnStep
  <2>7. StepsLeft(y)' <= StepsLeft(y)
    <3>1. PICK x \in Clients : StepOf(x)
      BY <1>1 DEF Next, StepOf
    <3>2. CASE y # x
      BY <1>1, <2>1, <2>2, <3>1, <3>2, OthersLeaveSteps
    <3>3. CASE y = x /\ OwnStep(y)
      BY <2>3, <2>4, <2>6, <3>3
    <3>4. CASE y = x /\ ~OwnStep(y)
      <4>1. Start(y) \/ Disconnected(y) \/ Killed(y) \/ CommandThread(y)
        BY <3>1, <3>4 DEF StepOf, OwnStep
      <4>2. ~HandleDownload(y)
        BY <2>5 DEF HandleDownload, WaitsAt
      <4>3. CASE ProcessEnds(y)
        <5>1. download'[y].phase \in Over
          BY <4>3, Constructors DEF ProcessEnds, Over
        <5>2. QED
          BY <2>3, <5>1, OverHasNone
      <4>4. CASE ~ProcessEnds(y)
        <5>1. UNCHANGED <<download, thread>>
          BY <4>1, <4>2, <4>4
          DEF Start, Disconnected, Killed, Dies, CommandThread, Enter, Leave, UploadStarts,
              UploadEnds, DownloadStarts, ReplyLost, Exit, chunkVars
        <5>2. StepsLeft(y)' = StepsLeft(y)
          BY <5>1
          DEF StepsLeft, SurveySteps, ThreadStepsAhead, ThreadSteps, AllThreadSteps
        <5>3. QED
          BY <2>3, <5>2
      <4>5. QED
        BY <4>3, <4>4
    <3>5. QED
      BY <3>2, <3>3, <3>4
  <2>8. QED
    BY <2>3, <2>6, <2>7
<1>2. SInv /\ AllCount /\ AllCount' /\ NobodyWaitsForTheDead /\ [Next]_vars => [StepsRunOut]_vars
  BY <1>1
<1>3. SInv => AllCount
  BY StepsAreCounted DEF SInv
<1>4. QED
  BY <1>2, <1>3, SpecSInv, SwarmNobodyWaitsForTheDead, PTL DEF Spec
=============================================================================
