---------------------------- MODULE SwarmProofs ----------------------------
(***************************************************************************)
(* Theorems about module Swarm: for any number of clients, groups, paths,  *)
(* chunks and commands.                                                    *)
(***************************************************************************)
EXTENDS Swarm, TLAPS

----------------------------------------------------------------------------
(* Part 1: what holds whatever the users do.                               *)

\* What a download and its threads rely on: a process that does not run has
\* no state; a download in progress has an entry, and knows what it is
\* fetching and where to; only such a download has chunk threads.
InProgress == {"survey", "create", "fetch", "verified", "mismatched"}

\* Where a chunk thread is while it runs.
AtWork == {"ask", "write", "load", "store"}

FitsAt(x) ==
  /\ x \notin running => files[x] = None /\ command[x] = Idle /\ group[x] = None
  /\ command[x].at = "upload" => files[x] # None
  /\ download[x].phase \in InProgress =>
       /\ files[x] # None
       /\ download[x].SHA \in Groups
       /\ download[x].filePath \in Destinations
  /\ download[x].asking # None => download[x].phase = "survey"
  /\ \A c \in Chunks : thread[x][c] \in AtWork => download[x].phase = "fetch"

Fits == \A x \in Clients : FitsAt(x)

\* The tracker lists members, and ListedHaveEntries.
ListedAreMembers ==
  \A g \in Groups : \A x \in seeders[g][Name] :
    group[x] = g /\ (files[x] # None \/ command[x].at = "download")

\* A tracker that is gone, or astray, has no members that are known of.
Offline == tracker # "up" => \A x \in Clients : group[x] = None

SInv == TypeOK /\ Fits /\ ListedAreMembers /\ Offline

LEMMA Constructors ==
  /\ Idle \in Commands
  /\ NoDownload \in Downloads
  /\ NoDownload.phase = "none" /\ NoDownload.SHA = None /\ NoDownload.filePath = None
  /\ NoDownload.toAsk = {} /\ NoDownload.asking = None
  /\ NoDownload.chunkStatusOfOthers \in [Chunks -> SUBSET Clients]
  /\ \A c \in Chunks : NoDownload.chunkStatusOfOthers[c] = {}
  BY DEF Commands, Idle, NoDownload, Downloads, Over

\* The index, whichever of its actions is taken.
LEMMA IndexTypes ==
  ASSUME TypeOK, NEW g \in Groups, NEW x \in Clients,
         \/ Index!Join(g, Name, x)
         \/ Index!Offer(g, Name, x, g)
         \/ Index!Withdraw(g, x)
         \/ Index!Forget
  PROVE  /\ digest' \in [Groups -> [{Name} -> Groups \cup {None}]]
         /\ seeders' \in [Groups -> [{Name} -> SUBSET Clients]]
<1>1. CASE Index!Join(g, Name, x)
  BY <1>1 DEF TypeOK, Index!Join
<1>2. CASE Index!Offer(g, Name, x, g)
  BY <1>2 DEF TypeOK, Index!Offer
<1>3. CASE Index!Withdraw(g, x)
  <2>1. \A f \in {Name} : (IF seeders[g][f] \subseteq {x} THEN None ELSE digest[g][f])
                            \in Groups \cup {None}
    BY DEF TypeOK
  <2>2. [f \in {Name} |-> IF seeders[g][f] \subseteq {x} THEN None ELSE digest[g][f]]
          \in [{Name} -> Groups \cup {None}]
    BY <2>1
  <2>3. [f \in {Name} |-> seeders[g][f] \ {x}] \in [{Name} -> SUBSET Clients]
    BY DEF TypeOK
  <2>4. QED
    BY <1>3, <2>2, <2>3 DEF TypeOK, Index!Withdraw
<1>4. CASE Index!Forget
  BY <1>4 DEF Index!Forget
<1>5. QED
  BY <1>1, <1>2, <1>3, <1>4

LEMMA Additions ==
  ASSUME TypeOK, NEW g \in Groups, NEW x \in Clients,
         Index!Join(g, Name, x) \/ Index!Offer(g, Name, x, g)
  PROVE  \A h \in Groups : \A y \in seeders'[h][Name] :
           y \in seeders[h][Name] \/ (h = g /\ y = x)
  BY DEF TypeOK, Index!Join, Index!Offer

LEMMA Removals ==
  ASSUME TypeOK, NEW g \in Groups, NEW x \in Clients, Index!Withdraw(g, x)
  PROVE  \A h \in Groups : \A y \in seeders'[h][Name] :
           y \in seeders[h][Name] /\ (h = g => y # x)
  BY DEF TypeOK, Index!Withdraw

----------------------------------------------------------------------------
LEMMA InitSInv == Init => SInv
<1> SUFFICES ASSUME Init PROVE SInv
  OBVIOUS
<1>1. TypeOK
  BY Constructors, SwarmAssumption
  DEF Init, TypeOK, Index!Init, NotAContent, NoThreads, NoBuffers, NoWords
<1>2. Fits
  BY Constructors DEF Init, Fits, FitsAt, InProgress, NoThreads, Idle, AtWork
<1>3. ListedAreMembers
  BY DEF Init, Index!Init, ListedAreMembers
<1>4. QED
  BY <1>1, <1>2, <1>3 DEF SInv, Init, Offline

LEMMA WithdrawTypes ==
  ASSUME TypeOK, NEW x \in Clients, WithdrawAll(x)
  PROVE  /\ digest' \in [Groups -> [{Name} -> Groups \cup {None}]]
         /\ seeders' \in [Groups -> [{Name} -> SUBSET Clients]]
<1>1. CASE group[x] = None
  BY <1>1 DEF WithdrawAll, indexVars, TypeOK
<1>2. CASE group[x] # None
  <2>1. group[x] \in Groups
    BY <1>2 DEF TypeOK
  <2>2. QED
    BY <1>2, <2>1, IndexTypes DEF WithdrawAll
<1>3. QED
  BY <1>1, <1>2

\* The process of x ends; the tracker and the index are another matter.
LEMMA ProcessEndsTypes ==
  ASSUME TypeOK, NEW x \in Clients, ProcessEnds(x),
         tracker' \in {"up", "astray", "down"},
         group' \in [Clients -> Groups \cup {None}],
         digest' \in [Groups -> [{Name} -> Groups \cup {None}]],
         seeders' \in [Groups -> [{Name} -> SUBSET Clients]]
  PROVE  TypeOK'
<1>1. running' \in SUBSET Clients
  BY DEF TypeOK, ProcessEnds
<1>2. command' \in [Clients -> Commands]
  BY Constructors DEF TypeOK, ProcessEnds
<1>3. files' \in [Clients -> Entries \cup {None}]
  BY DEF TypeOK, ProcessEnds
<1>4. download' \in [Clients -> Downloads]
  <2>1. ASSUME NEW y \in Clients
        PROVE  ConnectionOf(x, y) \in Downloads
    <3>1. download[y] \in Downloads
      BY DEF TypeOK
    <3>2. [download[y] EXCEPT !.asking = "cut"] \in Downloads
      BY <3>1 DEF Downloads
    <3>3. QED
      BY <3>1, <3>2 DEF ConnectionOf
  <2>2. QED
    BY <2>1, Constructors DEF ProcessEnds
<1>5. /\ thread' \in [Clients -> [Chunks -> {"none", "ask", "write", "load", "store"} \cup Ended]]
      /\ seeder' \in [Clients -> [Chunks -> Clients \cup {None}]]
      /\ outputBuffer' \in [Clients -> [Chunks -> Groups \cup {"garbage", None}]]
      /\ word' \in [Clients -> [Chunks -> SUBSET Chunks]]
  BY DEF TypeOK, ProcessEnds, NoThreads, NoBuffers, NoWords
<1>6. QED
  BY <1>1, <1>2, <1>3, <1>4, <1>5 DEF TypeOK, ProcessEnds, history

LEMMA CommandTypes ==
  ASSUME TypeOK, NEW x \in Clients
  PROVE  /\ command[x].at = "upload" => command[x].group \in Groups
         /\ command[x].at = "download" =>
              /\ command[x].SHA \in Groups
              /\ command[x].filePath \in Destinations
              /\ command[x].seeders \in SUBSET Clients
<1>1. command[x] \in Commands
  BY DEF TypeOK
<1>2. QED
  BY <1>1 DEF Commands, Idle

LEMMA CommandThreadTypes ==
  ASSUME SInv, NEW x \in Clients, CommandThread(x)
  PROVE  TypeOK'
<1> USE DEF SInv
<1>1. CASE Exit(x)
  <2>1. group' \in [Clients -> Groups \cup {None}]
    BY <1>1 DEF Exit, TypeOK
  <2>2. QED
    BY <1>1, <2>1, WithdrawTypes, ProcessEndsTypes DEF Exit, TypeOK
<1>2. ASSUME NEW g \in Groups, Enter(x, g)
      PROVE  TypeOK'
  BY <1>2 DEF Enter, TypeOK, indexVars, fileVars, chunkVars, history
<1>3. CASE Leave(x)
  <2>1. group' \in [Clients -> Groups \cup {None}]
    BY <1>3 DEF Leave, TypeOK
  <2>2. QED
    BY <1>3, <2>1, WithdrawTypes DEF Leave, TypeOK, fileVars, chunkVars, history
<1>4. ASSUME NEW g \in Groups, CountCommand(x, g)
      PROVE  /\ commands' \in Nat
             /\ entered' \in [Clients -> Groups \cup {None}]
             /\ again' \in BOOLEAN
             /\ damaged' \in SUBSET Chunks
  BY <1>4, SwarmAssumption DEF CountCommand, TypeOK
<1>5. ASSUME NEW entry \in Entries, Insert(x, entry)
      PROVE  files' \in [Clients -> Entries \cup {None}]
  BY <1>5 DEF Insert, TypeOK
<1>6. ASSUME NEW g \in Groups, NEW p \in Paths, UploadStarts(x, g, p)
      PROVE  TypeOK'
  <2>1. [SHA |-> g, filePath |-> p, isChunkAvailable |-> Chunks] \in Entries
    BY DEF Entries
  <2>2. [at |-> "upload", group |-> g] \in Commands
    BY DEF Commands
  <2>3. command' \in [Clients -> Commands]
    BY <1>6, <2>2 DEF UploadStarts, TypeOK
  <2>4. files' \in [Clients -> Entries \cup {None}]
    BY <1>5, <1>6, <2>1 DEF UploadStarts
  <2>5. QED
    BY <1>4, <1>6, <2>3, <2>4 DEF UploadStarts, TypeOK, indexVars, chunkVars
<1>7. CASE UploadEnds(x)
  <2>1. command[x].group \in Groups
    BY <1>7, CommandTypes DEF UploadEnds
  <2>2. /\ digest' \in [Groups -> [{Name} -> Groups \cup {None}]]
        /\ seeders' \in [Groups -> [{Name} -> SUBSET Clients]]
    <3>1. CASE UNCHANGED indexVars
      BY <3>1 DEF indexVars, TypeOK
    <3>2. CASE \/ Index!Join(command[x].group, Name, x)
               \/ Index!Offer(command[x].group, Name, x, command[x].group)
      BY <2>1, <3>2, IndexTypes
    <3>3. QED
      BY <1>7, <3>1, <3>2 DEF UploadEnds
  <2>3. command' \in [Clients -> Commands]
    BY <1>7, Constructors DEF UploadEnds, TypeOK
  <2>4. QED
    BY <1>7, <2>2, <2>3 DEF UploadEnds, TypeOK, fileVars, chunkVars, history
<1>8. ASSUME NEW g \in Groups, NEW p \in Destinations, DownloadStarts(x, g, p)
      PROVE  TypeOK'
  <2>1. /\ digest' \in [Groups -> [{Name} -> Groups \cup {None}]]
        /\ seeders' \in [Groups -> [{Name} -> SUBSET Clients]]
    BY <1>8, IndexTypes DEF DownloadStarts, indexVars, TypeOK
  <2>2. \A sha \in Groups, listed \in SUBSET Clients :
          Replies(x, sha, p, listed) => command' \in [Clients -> Commands]
    <3>1. ASSUME NEW sha \in Groups, NEW listed \in SUBSET Clients
          PROVE  [at |-> "download", SHA |-> sha, filePath |-> p, seeders |-> listed] \in Commands
      BY DEF Commands
    <3>2. QED
      BY <3>1 DEF Replies, TypeOK
  <2>3. Index!Join(g, Name, x) => digest[g][Name] \in Groups /\ seeders[g][Name] \in SUBSET Clients
    BY DEF Index!Join, Index!Listed, TypeOK
  <2>4. command' \in [Clients -> Commands]
    BY <1>8, <2>2, <2>3 DEF DownloadStarts
  <2>5. QED
    BY <1>4, <1>8, <2>1, <2>4 DEF DownloadStarts, TypeOK, fileVars, chunkVars
<1>9. CASE HandleDownload(x)
  <2> DEFINE reply == command[x]
  <2>1. /\ reply.SHA \in Groups
        /\ reply.filePath \in Destinations
        /\ reply.seeders \in SUBSET Clients
    BY <1>9, CommandTypes DEF HandleDownload
  <2>2. [SHA |-> reply.SHA, filePath |-> reply.filePath, isChunkAvailable |-> NothingAvailable]
          \in Entries
    BY <2>1 DEF Entries, Paths, NothingAvailable
  <2>3. files' \in [Clients -> Entries \cup {None}]
    BY <1>5, <1>9, <2>2 DEF HandleDownload
  <2>4. [NoDownload EXCEPT !.phase = "survey", !.SHA = reply.SHA,
           !.filePath = reply.filePath, !.toAsk = reply.seeders] \in Downloads
    BY <2>1, Constructors DEF Downloads
  <2>5. download' \in [Clients -> Downloads]
    BY <1>9, <2>4 DEF HandleDownload, TypeOK
  <2>6. command' \in [Clients -> Commands]
    BY <1>9, Constructors DEF HandleDownload, TypeOK
  <2>7. /\ thread' \in [Clients -> [Chunks -> {"none", "ask", "write", "load", "store"} \cup Ended]]
        /\ seeder' \in [Clients -> [Chunks -> Clients \cup {None}]]
        /\ outputBuffer' \in [Clients -> [Chunks -> Groups \cup {"garbage", None}]]
        /\ word' \in [Clients -> [Chunks -> SUBSET Chunks]]
    BY <1>9 DEF HandleDownload, TypeOK, NoThreads, NoBuffers, NoWords
  <2>8. QED
    BY <1>9, <2>3, <2>5, <2>6, <2>7 DEF HandleDownload, TypeOK, indexVars, history
<1>10. CASE ReplyLost(x)
  <2>1. command' \in [Clients -> Commands]
    BY <1>10, Constructors DEF ReplyLost, TypeOK
  <2>2. QED
    BY <1>10, <2>1 DEF ReplyLost, TypeOK, indexVars, fileVars, chunkVars, history
<1>11. QED
  BY <1>1, <1>2, <1>3, <1>6, <1>7, <1>8, <1>9, <1>10 DEF CommandThread

LEMMA IndexIsLostTypes ==
  ASSUME NEW status \in {"up", "astray", "down"}, IndexIsLost(status)
  PROVE  /\ digest' \in [Groups -> [{Name} -> Groups \cup {None}]]
         /\ seeders' \in [Groups -> [{Name} -> SUBSET Clients]]
         /\ tracker' \in {"up", "astray", "down"}
         /\ group' \in [Clients -> Groups \cup {None}]
  BY DEF IndexIsLost, Index!Forget

LEMMA DiesTypes ==
  ASSUME TypeOK, NEW x \in Clients, Dies(x)
  PROVE  TypeOK'
  BY IndexIsLostTypes, ProcessEndsTypes DEF Dies, TrackerLosesClient

LEMMA DisconnectedTypes ==
  ASSUME TypeOK, NEW x \in Clients, Disconnected(x)
  PROVE  TypeOK'
  BY IndexIsLostTypes DEF Disconnected, TypeOK, fileVars, chunkVars, history

LEMMA GivesUpTypes ==
  ASSUME TypeOK, NEW x \in Clients, GivesUp(x),
         disk' \in [Clients -> [Destinations -> [Chunks -> Groups \cup NotAContent]]]
  PROVE  TypeOK'
<1>1. [NoDownload EXCEPT !.phase = "aborted"] \in Downloads
  BY Constructors DEF Downloads, Over
<1>2. download' \in [Clients -> Downloads]
  BY <1>1 DEF GivesUp, TypeOK
<1>3. QED
  BY <1>2 DEF GivesUp, EntryAfterAbort, TypeOK, indexVars, userVars, chunkVars, history

LEMMA AbortTypes ==
  ASSUME TypeOK, NEW x \in Clients, Abort(x)
  PROVE  TypeOK'
  BY GivesUpTypes DEF Abort, TypeOK

LEMMA WriteZerosTypes ==
  ASSUME TypeOK, NEW x \in Clients, NEW written \in SUBSET Chunks, WriteZeros(x, written)
  PROVE  disk' \in [Clients -> [Destinations -> [Chunks -> Groups \cup NotAContent]]]
  BY DEF WriteZeros, TypeOK, NotAContent

\* A step that changes the record of the download only.
LEMMA DownloadOnlyTypes ==
  ASSUME TypeOK, NEW x \in Clients, NEW d \in Downloads,
         download' = [download EXCEPT ![x] = d],
         UNCHANGED <<indexVars, userVars, fileVars, chunkVars, history>>
  PROVE  TypeOK'
<1>1. download' \in [Clients -> Downloads]
  BY DEF TypeOK
<1>2. QED
  BY <1>1 DEF TypeOK, indexVars, userVars, fileVars, chunkVars, history

LEMMA DownloadFields ==
  ASSUME TypeOK, NEW x \in Clients
  PROVE  /\ download[x] \in Downloads
         /\ download[x].phase \in {"survey", "create", "fetch"} \cup Over
         /\ download[x].SHA \in Groups \cup {None}
         /\ download[x].filePath \in Destinations \cup {None}
         /\ download[x].toAsk \in SUBSET Clients
         /\ download[x].asking \in Clients \cup {None, "cut"}
         /\ download[x].chunkStatusOfOthers \in [Chunks -> SUBSET Clients]
<1>1. download[x] \in Downloads
  BY DEF TypeOK
<1>2. QED
  BY <1>1 DEF Downloads

\* How the record of the download of x changes, field by field.
LEMMA ConnectRecord ==
  ASSUME TypeOK, NEW x \in Clients, NEW s \in Clients, Connect(x, s)
  PROVE  [download[x] EXCEPT !.asking = s] \in Downloads
  BY DownloadFields DEF Downloads

LEMMA DownloadThreadTypes ==
  ASSUME SInv, NEW x \in Clients, DownloadThread(x)
  PROVE  TypeOK'
<1> USE DEF SInv
<1>1. ASSUME NEW s \in Clients, Connect(x, s)
      PROVE  TypeOK'
  <2>1. download' = [download EXCEPT ![x] = [download[x] EXCEPT !.asking = s]]
    BY <1>1 DEF Connect, TypeOK
  <2>2. QED
    BY <1>1, <2>1, ConnectRecord, DownloadOnlyTypes DEF Connect
<1>2. ASSUME NEW s \in Clients, Unreachable(x, s)
      PROVE  TypeOK'
  BY <1>2, AbortTypes DEF Unreachable
<1>3. CASE Answer(x)
  <2> DEFINE s == download[x].asking
  <2> PICK told \in SUBSET Chunks :
        download' = [download EXCEPT
          ![x].asking = None,
          ![x].toAsk = @ \ {s},
          ![x].chunkStatusOfOthers =
            [c \in Chunks |-> IF c \in told THEN @[c] \cup {s} ELSE @[c]]]
    BY <1>3 DEF Answer
  <2> DEFINE held == [c \in Chunks |->
                        IF c \in told THEN download[x].chunkStatusOfOthers[c] \cup {s}
                                      ELSE download[x].chunkStatusOfOthers[c]]
             d == [download[x] EXCEPT !.asking = None, !.toAsk = @ \ {s},
                                      !.chunkStatusOfOthers = held]
  <2>1. s \in Clients
    BY <1>3 DEF Answer, TypeOK
  <2>2. held \in [Chunks -> SUBSET Clients]
    BY <2>1, DownloadFields
  <2>3. d \in Downloads
    <3> DEFINE e == [download[x] EXCEPT !.asking = None]
               f == [e EXCEPT !.toAsk = download[x].toAsk \ {s}]
    <3>1. e \in Downloads
      BY DownloadFields DEF Downloads
    <3>2. download[x].toAsk \ {s} \in SUBSET Clients
      BY DownloadFields
    <3>3. f \in Downloads
      BY <3>1, <3>2 DEF Downloads
    <3>4. [f EXCEPT !.chunkStatusOfOthers = held] \in Downloads
      BY <2>2, <3>3 DEF Downloads
    <3>5. d = [f EXCEPT !.chunkStatusOfOthers = held]
      BY DownloadFields DEF Downloads
    <3>6. QED
      BY <3>4, <3>5
  <2>4. download' = [download EXCEPT ![x] = d]
    BY DownloadFields DEF TypeOK
  <2>5. download' \in [Clients -> Downloads]
    BY <2>3, <2>4 DEF TypeOK
  <2>6. damaged' \in SUBSET Chunks
    BY <1>3 DEF Answer, TypeOK
  <2>7. UNCHANGED <<indexVars, userVars, fileVars, chunkVars, entered, again>>
    BY <1>3 DEF Answer
  <2>8. QED
    BY <2>5, <2>6, <2>7 DEF TypeOK, indexVars, userVars, fileVars, chunkVars
<1>4. CASE CutOff(x)
  BY <1>4, AbortTypes, DiesTypes DEF CutOff
<1>5. CASE ChunkIsMissing(x)
  BY <1>5, AbortTypes DEF ChunkIsMissing
<1>6. CASE CreateFile(x)
  <2>1. [download[x] EXCEPT !.phase = "create"] \in Downloads
    BY DownloadFields DEF Downloads
  <2>2. download' \in [Clients -> Downloads]
    BY <1>6, <2>1 DEF CreateFile, TypeOK
  <2>3. disk' \in [Clients -> [Destinations -> [Chunks -> Groups \cup NotAContent]]]
    BY <1>6 DEF CreateFile, TypeOK, NotAContent
  <2>4. QED
    BY <1>6, <2>2, <2>3 DEF CreateFile, TypeOK, indexVars, userVars, chunkVars, history
<1>7. CASE StartThreads(x)
  <2> DEFINE d == [download[x] EXCEPT !.phase = "fetch",
                     !.chunkStatusOfOthers = NoDownload.chunkStatusOfOthers]
  <2>1. d \in Downloads
    BY DownloadFields, Constructors DEF Downloads
  <2>2. download' = [download EXCEPT ![x] = d]
    BY <1>7 DEF StartThreads, TypeOK
  <2>3. download' \in [Clients -> Downloads]
    BY <2>1, <2>2 DEF TypeOK
  <2>4. disk' \in [Clients -> [Destinations -> [Chunks -> Groups \cup NotAContent]]]
    BY <1>7, WriteZerosTypes DEF StartThreads
  <2>5. thread' \in [Clients -> [Chunks -> {"none", "ask", "write", "load", "store"} \cup Ended]]
    BY <1>7 DEF StartThreads, TypeOK
  <2>6. seeder' \in [Clients -> [Chunks -> Clients \cup {None}]]
    <3>1. PICK chosen \in [Chunks -> Clients] : seeder' = [seeder EXCEPT ![x] = chosen]
      BY <1>7 DEF StartThreads
    <3>2. chosen \in [Chunks -> Clients \cup {None}]
      OBVIOUS
    <3>3. QED
      BY <3>1, <3>2 DEF TypeOK
  <2>7. QED
    BY <1>7, <2>3, <2>4, <2>5, <2>6
    DEF StartThreads, TypeOK, indexVars, userVars, history
<1>8. CASE VerifySHA(x)
  <2> DEFINE d == [NoDownload EXCEPT !.SHA = download[x].SHA, !.filePath = download[x].filePath,
                     !.phase = IF Matches(x) THEN "verified" ELSE "mismatched"]
  <2>1. (IF Matches(x) THEN "verified" ELSE "mismatched") \in Over
    BY DEF Over
  <2>2. d \in Downloads
    BY <2>1, DownloadFields, Constructors DEF Downloads
  <2>3. QED
    BY <1>8, <2>2, DownloadOnlyTypes DEF VerifySHA
<1>9. CASE CannotCreateFile(x)
  BY <1>9, AbortTypes DEF CannotCreateFile
<1>10. CASE CannotWriteZeros(x)
  BY <1>10, GivesUpTypes, WriteZerosTypes DEF CannotWriteZeros
<1>11. QED
  BY <1>1, <1>2, <1>3, <1>4, <1>5, <1>6, <1>7, <1>8, <1>9, <1>10 DEF DownloadThread

LEMMA AnswerTypes ==
  ASSUME TypeOK, NEW s \in Clients, NEW c \in Chunks
  PROVE  Answers(s, c) \subseteq Groups \cup {"garbage", None}
<1>1. CASE files[s] = None
  BY <1>1 DEF Answers
<1>2. CASE files[s] # None
  <2> DEFINE p == files[s].filePath
             content == Content(s, p, c)
  <2>1. files[s] \in Entries
    BY <1>2 DEF TypeOK
  <2>2. p \in Groups \cup Destinations
    BY <2>1 DEF Entries, Paths
  <2>3. content \in Groups \cup NotAContent
    BY <2>2 DEF Content, TypeOK
  <2>4. CASE content \in {"absent", "zeros"}
    BY <1>2, <2>4 DEF Answers
  <2>5. CASE content \in {"empty", "garbage"}
    BY <1>2, <2>5 DEF Answers
  <2>6. CASE content \notin NotAContent
    BY <1>2, <2>3, <2>6 DEF Answers, NotAContent
  <2>7. QED
    BY <2>4, <2>5, <2>6 DEF NotAContent
<1>3. QED
  BY <1>1, <1>2

\* The entry of a download whose thread stores a word.
LEMMA StoredEntry ==
  ASSUME TypeOK, Fits, NEW x \in Clients, NEW c \in Chunks, StoreWord(x, c)
  PROVE  /\ files' \in [Clients -> Entries \cup {None}]
         /\ \A y \in Clients \ {x} : files'[y] = files[y]
         /\ files[x] \in Entries /\ files'[x] \in Entries /\ files'[x] # None
         /\ files'[x].SHA = files[x].SHA /\ files'[x].filePath = files[x].filePath
         /\ c \in files'[x].isChunkAvailable
         /\ files'[x].isChunkAvailable \subseteq files[x].isChunkAvailable \cup {c}
<1>1. files[x] \in Entries
  BY DEF StoreWord, TypeOK, Fits, FitsAt, InProgress, AtWork
<1>2. PICK lost \in SUBSET (files[x].isChunkAvailable \ word[x][c]) :
        files' = [files EXCEPT ![x].isChunkAvailable = (@ \ lost) \cup {c}]
  BY DEF StoreWord
<1> DEFINE flags == (files[x].isChunkAvailable \ lost) \cup {c}
           entry == [files[x] EXCEPT !.isChunkAvailable = flags]
<1>3. files' = [files EXCEPT ![x] = entry]
  BY <1>2 DEF TypeOK
<1>4. /\ entry \in Entries /\ entry.isChunkAvailable = flags
      /\ entry.SHA = files[x].SHA /\ entry.filePath = files[x].filePath
  BY <1>1 DEF Entries
<1> HIDE DEF entry
<1>5. QED
  BY <1>1, <1>3, <1>4, SwarmAssumption DEF TypeOK

LEMMA ChunkThreadTypes ==
  ASSUME SInv, NEW x \in Clients, NEW c \in Chunks, ChunkThread(x, c)
  PROVE  TypeOK'
<1> USE DEF SInv
<1>1. ASSUME NEW content, Receive(x, c, content)
      PROVE  TypeOK'
  <2>1. seeder[x][c] \in Clients
    BY <1>1 DEF Receive, TypeOK
  <2>2. content \in Groups \cup {"garbage", None}
    BY <1>1, <2>1, AnswerTypes DEF Receive
  <2>3. outputBuffer' \in [Clients -> [Chunks -> Groups \cup {"garbage", None}]]
    BY <1>1, <2>2 DEF Receive, TypeOK
  <2>4. /\ thread' \in [Clients -> [Chunks -> {"none", "ask", "write", "load", "store"} \cup Ended]]
        /\ seeder' \in [Clients -> [Chunks -> Clients \cup {None}]]
        /\ damaged' \in SUBSET Chunks
    BY <1>1 DEF Receive, TypeOK
  <2>5. QED
    BY <1>1, <2>3, <2>4 DEF Receive, TypeOK, indexVars, userVars, fileVars
<1>2. CASE ChunkFails(x, c)
  <2>1. /\ thread' \in [Clients -> [Chunks -> {"none", "ask", "write", "load", "store"} \cup Ended]]
        /\ seeder' \in [Clients -> [Chunks -> Clients \cup {None}]]
        /\ outputBuffer' \in [Clients -> [Chunks -> Groups \cup {"garbage", None}]]
    BY <1>2 DEF ChunkFails, TypeOK, Ended
  <2>2. QED
    BY <1>2, <2>1 DEF ChunkFails, TypeOK, indexVars, userVars, fileVars, history
<1>3. ASSUME NEW content \in Groups \cup NotAContent, WriteChunk(x, c, content)
      PROVE  TypeOK'
  <2>1. disk' \in [Clients -> [Destinations -> [Chunks -> Groups \cup NotAContent]]]
    <3> DEFINE p == download[x].filePath
               file == [disk[x][p] EXCEPT ![c] = content]
    <3>1. p \in Destinations
      BY <1>3 DEF WriteChunk, Fits, FitsAt, InProgress, AtWork
    <3>2. file \in [Chunks -> Groups \cup NotAContent]
      BY <3>1 DEF TypeOK
    <3>3. [disk[x] EXCEPT ![p] = file] \in [Destinations -> [Chunks -> Groups \cup NotAContent]]
      BY <3>1, <3>2 DEF TypeOK
    <3>4. disk' = [disk EXCEPT ![x] = [disk[x] EXCEPT ![p] = file]]
      BY <1>3, <3>1 DEF WriteChunk, TypeOK
    <3>5. QED
      BY <3>3, <3>4 DEF TypeOK
  <2>2. /\ thread' \in [Clients -> [Chunks -> {"none", "ask", "write", "load", "store"} \cup Ended]]
        /\ outputBuffer' \in [Clients -> [Chunks -> Groups \cup {"garbage", None}]]
        /\ damaged' \in SUBSET Chunks
    BY <1>3 DEF WriteChunk, TypeOK
  <2>3. QED
    BY <1>3, <2>1, <2>2 DEF WriteChunk, TypeOK, indexVars, userVars
<1>4. CASE LoadWord(x, c)
  <2>1. files[x].isChunkAvailable \in SUBSET Chunks
    BY <1>4 DEF LoadWord, TypeOK, Fits, FitsAt, InProgress, AtWork, Entries
  <2>2. word' \in [Clients -> [Chunks -> SUBSET Chunks]]
    BY <1>4, <2>1 DEF LoadWord, TypeOK
  <2>3. thread' \in [Clients -> [Chunks -> {"none", "ask", "write", "load", "store"} \cup Ended]]
    BY <1>4 DEF LoadWord, TypeOK
  <2>4. QED
    BY <1>4, <2>2, <2>3 DEF LoadWord, TypeOK, indexVars, userVars, fileVars, history
<1>5. CASE StoreWord(x, c)
  <2>1. files' \in [Clients -> Entries \cup {None}]
    BY <1>5, StoredEntry DEF TypeOK, StoreWord
  <2>2. word' \in [Clients -> [Chunks -> SUBSET Chunks]]
    BY <1>5 DEF StoreWord, TypeOK
  <2>3. thread' \in [Clients -> [Chunks -> {"none", "ask", "write", "load", "store"} \cup Ended]]
    BY <1>5 DEF StoreWord, TypeOK, Ended
  <2>4. QED
    BY <1>5, <2>1, <2>2, <2>3 DEF StoreWord, TypeOK, indexVars, userVars, history
<1>6. QED
  BY <1>1, <1>2, <1>3, <1>4, <1>5 DEF ChunkThread

----------------------------------------------------------------------------
\* A step of x leaves the others as they are, except that it may cut them off.
LEMMA OthersFit ==
  ASSUME TypeOK, NEW y \in Clients, FitsAt(y),
         y \in running <=> y \in running',
         files'[y] = files[y], command'[y] = command[y],
         \/ group'[y] = group[y]
         \/ group'[y] = None,
         \/ download'[y] = download[y]
         \/ /\ download[y].asking # None
            /\ download'[y] = [download[y] EXCEPT !.asking = "cut"],
         thread'[y] = thread[y]
  PROVE  FitsAt(y)'
<1>1. /\ download'[y].phase = download[y].phase
      /\ download'[y].SHA = download[y].SHA
      /\ download'[y].filePath = download[y].filePath
      /\ download'[y].asking # None => download[y].asking # None
  BY DownloadFields DEF Downloads
<1>2. QED
  BY <1>1 DEF FitsAt

\* The process of x ends.
LEMMA ProcessEndsFits ==
  ASSUME TypeOK, Fits, NEW x \in Clients, ProcessEnds(x),
         group'[x] = None,
         \A y \in Clients \ {x} : group'[y] \in {group[y], None}
  PROVE  Fits'
<1> SUFFICES ASSUME NEW y \in Clients PROVE FitsAt(y)'
  BY DEF Fits
<1>1. CASE y = x
  <2>1. /\ x \notin running' /\ files'[x] = None /\ command'[x] = Idle
        /\ download'[x] = NoDownload
        /\ thread'[x] = NoThreads
    BY DEF ProcessEnds, TypeOK
  <2>2. QED
    BY <1>1, <2>1, Constructors DEF FitsAt, NoThreads, InProgress, Idle, AtWork
<1>2. CASE y # x
  <2>1. /\ y \in running <=> y \in running'
        /\ files'[y] = files[y] /\ command'[y] = command[y]
        /\ thread'[y] = thread[y]
    BY <1>2 DEF ProcessEnds, TypeOK
  <2>2. \/ download'[y] = download[y]
        \/ /\ download[y].asking # None
           /\ download'[y] = [download[y] EXCEPT !.asking = "cut"]
    BY <1>2, SwarmAssumption DEF ProcessEnds, ConnectionOf
  <2>3. QED
    BY <1>2, <2>1, <2>2, OthersFit DEF Fits
<1>3. QED
  BY <1>1, <1>2

LEMMA DiesFits ==
  ASSUME SInv, NEW x \in Clients, Dies(x)
  PROVE  Fits'
<1>1. \A y \in Clients : group'[y] = None
  BY DEF Dies, TrackerLosesClient, IndexIsLost
<1>2. QED
  BY <1>1, ProcessEndsFits DEF Dies, SInv

LEMMA DisconnectedFits ==
  ASSUME SInv, NEW x \in Clients, Disconnected(x)
  PROVE  Fits'
<1> SUFFICES ASSUME NEW y \in Clients PROVE FitsAt(y)'
  BY DEF Fits
<1>1. /\ group'[y] = None
      /\ UNCHANGED <<running, files, command, download, thread>>
  BY DEF Disconnected, IndexIsLost, fileVars, chunkVars
<1>2. QED
  BY <1>1, OthersFit DEF SInv, Fits

LEMMA CommandThreadFits ==
  ASSUME SInv, NEW x \in Clients, CommandThread(x)
  PROVE  Fits'
<1> USE DEF SInv
<1>1. CASE Exit(x)
  BY <1>1, ProcessEndsFits DEF Exit, TypeOK
<1> SUFFICES ASSUME ~Exit(x), NEW y \in Clients PROVE FitsAt(y)'
  BY <1>1 DEF Fits
<1>2. CASE y # x
  <2>1. /\ y \in running <=> y \in running'
        /\ files'[y] = files[y] /\ command'[y] = command[y]
        /\ group'[y] = group[y]
        /\ download'[y] = download[y]
        /\ thread'[y] = thread[y]
    BY <1>2 DEF CommandThread, Enter, UploadStarts, Insert, Leave, UploadEnds, DownloadStarts,
                Replies, ReplyLost, HandleDownload, TypeOK, fileVars, chunkVars
  <2>2. QED
    BY <2>1, OthersFit DEF Fits
<1>3. CASE y = x
  <2> SUFFICES FitsAt(x)'
    BY <1>3
  <2>0. FitsAt(x)
    BY DEF Fits
  <2>1. ASSUME NEW g \in Groups, Enter(x, g)
        PROVE  FitsAt(x)'
    BY <2>0, <2>1 DEF Enter, Ready, FitsAt, fileVars, chunkVars
  <2>2. ASSUME NEW g \in Groups, NEW p \in Paths, UploadStarts(x, g, p)
        PROVE  FitsAt(x)'
    <3>1. files'[x] # None
      <4>1. [SHA |-> g, filePath |-> p, isChunkAvailable |-> Chunks] # None
        BY SwarmAssumption DEF Entries
      <4>2. QED
        BY <2>2, <4>1 DEF UploadStarts, Insert, TypeOK
    <3>2. QED
      BY <2>0, <2>2, <3>1 DEF UploadStarts, Ready, FitsAt, chunkVars
  <2>3. CASE Leave(x)
    <3>1. UNCHANGED <<running, command, files, download, thread>> /\ x \in running
      BY <2>3 DEF Leave, Ready, fileVars, chunkVars
    <3>2. QED
      BY <2>0, <3>1 DEF FitsAt
  <2>4. CASE UploadEnds(x) \/ ReplyLost(x)
    <3>1. /\ UNCHANGED <<running, group, files, download, thread>>
          /\ command'[x] = Idle
      BY <2>4 DEF UploadEnds, ReplyLost, fileVars, chunkVars, TypeOK
    <3>2. QED
      BY <2>0, <3>1 DEF FitsAt, Idle
  <2>5. ASSUME NEW g \in Groups, NEW p \in Destinations, DownloadStarts(x, g, p)
        PROVE  FitsAt(x)'
    <3>1. /\ UNCHANGED <<running, group, files, download, thread>> /\ x \in running
          /\ command'[x].at = "download"
      BY <2>5 DEF DownloadStarts, Replies, Ready, fileVars, chunkVars, TypeOK
    <3>2. QED
      BY <2>0, <3>1 DEF FitsAt
  <2>6. CASE HandleDownload(x)
    <3>1. x \in running /\ running' = running
      BY <2>0, <2>6 DEF HandleDownload, FitsAt, Idle
    <3>2. /\ command[x].SHA \in Groups /\ command[x].filePath \in Destinations
      BY <2>6, CommandTypes DEF HandleDownload
    <3>3. files'[x] # None
      <4>1. [SHA |-> command[x].SHA, filePath |-> command[x].filePath,
             isChunkAvailable |-> NothingAvailable] # None
        BY <3>2, SwarmAssumption DEF Entries, Paths, NothingAvailable
      <4>2. QED
        BY <2>6, <4>1 DEF HandleDownload, Insert, TypeOK
    <3>4. /\ download'[x].SHA = command[x].SHA
          /\ download'[x].filePath = command[x].filePath
          /\ download'[x].phase = "survey"
      BY <2>6, Constructors DEF HandleDownload, TypeOK, Downloads
    <3>5. command'[x] = Idle /\ thread'[x] = NoThreads
      BY <2>6 DEF HandleDownload, TypeOK
    <3>6. QED
      BY <3>1, <3>2, <3>3, <3>4, <3>5 DEF FitsAt, Idle, NoThreads, AtWork
  <2>7. QED
    BY <2>1, <2>2, <2>3, <2>4, <2>5, <2>6 DEF CommandThread
<1>4. QED
  BY <1>2, <1>3

LEMMA GivesUpFits ==
  ASSUME SInv, NEW x \in Clients, GivesUp(x),
         download[x].phase \in {"survey", "create"}
  PROVE  Fits'
<1> USE DEF SInv
<1> SUFFICES ASSUME NEW y \in Clients PROVE FitsAt(y)'
  BY DEF Fits
<1> USE DEF GivesUp, EntryAfterAbort, userVars, chunkVars
<1>1. CASE y = x
  <2>1. download'[x].asking = None /\ download'[x].phase = "aborted"
    BY Constructors DEF TypeOK, Downloads
  <2>2. FitsAt(x)
    BY DEF Fits
  <2>3. QED
    BY <1>1, <2>1, <2>2 DEF FitsAt, InProgress
<1>2. CASE y # x
  BY <1>2, OthersFit DEF Fits, TypeOK
<1>3. QED
  BY <1>1, <1>2

\* A step of the download that stays on what it fetches.
LEMMA DownloadFits ==
  ASSUME SInv, NEW x \in Clients,
         \A y \in Clients \ {x} : download'[y] = download[y],
         download'[x].phase \in InProgress <=> download[x].phase \in InProgress,
         download'[x].SHA = download[x].SHA,
         download'[x].filePath = download[x].filePath,
         download'[x].asking # None => download'[x].phase = "survey",
         \A c \in Chunks : thread'[x][c] \in AtWork => download'[x].phase = "fetch",
         \A y \in Clients \ {x} : thread'[y] = thread[y],
         UNCHANGED <<userVars, files>>
  PROVE  Fits'
<1> USE DEF SInv
<1> SUFFICES ASSUME NEW y \in Clients PROVE FitsAt(y)'
  BY DEF Fits
<1>1. CASE y = x
  BY <1>1 DEF Fits, FitsAt, userVars
<1>2. CASE y # x
  BY <1>2, OthersFit DEF Fits, userVars
<1>3. QED
  BY <1>1, <1>2

LEMMA DownloadThreadFits ==
  ASSUME SInv, NEW x \in Clients, DownloadThread(x)
  PROVE  Fits'
<1> USE DEF SInv
<1>0. FitsAt(x)
  BY DEF Fits
<1>1. ASSUME NEW s \in Clients, Connect(x, s)
      PROVE  Fits'
  <2>1. /\ download'[x].phase = download[x].phase
        /\ download'[x].SHA = download[x].SHA
        /\ download'[x].filePath = download[x].filePath
        /\ \A y \in Clients \ {x} : download'[y] = download[y]
    BY <1>1, DownloadFields DEF Connect, TypeOK, Downloads
  <2>2. download[x].phase = "survey"
    BY <1>1 DEF Connect, Surveying
  <2>3. UNCHANGED <<userVars, files, thread>>
    BY <1>1 DEF Connect, fileVars, chunkVars
  <2>4. QED
    BY <1>0, <2>1, <2>2, <2>3, DownloadFits DEF FitsAt
<1>2. ASSUME NEW s \in Clients, Unreachable(x, s)
      PROVE  Fits'
  BY <1>2, GivesUpFits DEF Abort, Unreachable, Surveying
<1>3. CASE Answer(x)
  <2>1. /\ download'[x].phase = download[x].phase
        /\ download'[x].SHA = download[x].SHA
        /\ download'[x].filePath = download[x].filePath
        /\ \A y \in Clients \ {x} : download'[y] = download[y]
    BY <1>3, DownloadFields DEF Answer, TypeOK, Downloads
  <2>2. download[x].phase = "survey"
    BY <1>0, <1>3, SwarmAssumption DEF Answer, FitsAt, TypeOK
  <2>3. UNCHANGED <<userVars, files, thread>>
    BY <1>3 DEF Answer, fileVars, chunkVars
  <2>4. QED
    BY <1>0, <2>1, <2>2, <2>3, DownloadFits DEF FitsAt
<1>4. CASE CutOff(x)
  <2>1. download[x].phase = "survey"
    BY <1>0, <1>4, SwarmAssumption DEF CutOff, FitsAt, TypeOK
  <2>2. QED
    BY <1>4, <2>1, GivesUpFits, DiesFits DEF CutOff, Abort
<1>5. CASE ChunkIsMissing(x)
  BY <1>5, GivesUpFits DEF Abort, ChunkIsMissing, Surveyed, Surveying
<1>6. CASE CreateFile(x)
  <2>1. /\ download'[x].phase = "create"
        /\ download'[x].SHA = download[x].SHA
        /\ download'[x].filePath = download[x].filePath
        /\ download'[x].asking = None
        /\ \A y \in Clients \ {x} : download'[y] = download[y]
    BY <1>6, DownloadFields DEF CreateFile, Surveyed, Surveying, TypeOK, Downloads
  <2>2. download[x].phase = "survey"
    BY <1>6 DEF CreateFile, Surveyed, Surveying
  <2>3. UNCHANGED <<userVars, files, thread>>
    BY <1>6 DEF CreateFile, chunkVars
  <2>4. QED
    BY <1>0, <2>1, <2>2, <2>3, DownloadFits DEF FitsAt, InProgress
<1>7. CASE StartThreads(x)
  <2>1. /\ download'[x].phase = "fetch"
        /\ download'[x].SHA = download[x].SHA
        /\ download'[x].filePath = download[x].filePath
        /\ download'[x].asking = download[x].asking
        /\ \A y \in Clients \ {x} : download'[y] = download[y]
    BY <1>7, DownloadFields DEF StartThreads, TypeOK, Downloads
  <2>2. download[x].phase = "create"
    BY <1>7 DEF StartThreads, WriteZeros
  <2>3. /\ UNCHANGED <<userVars, files>>
        /\ thread'[x] = [c \in Chunks |-> "ask"]
        /\ \A y \in Clients \ {x} : thread'[y] = thread[y]
    BY <1>7 DEF StartThreads, TypeOK
  <2>4. QED
    BY <1>0, <2>1, <2>2, <2>3, DownloadFits DEF FitsAt, InProgress
<1>8. CASE VerifySHA(x)
  <2>1. /\ download'[x].phase \in {"verified", "mismatched"}
        /\ download'[x].SHA = download[x].SHA
        /\ download'[x].filePath = download[x].filePath
        /\ download'[x].asking = None
        /\ \A y \in Clients \ {x} : download'[y] = download[y]
    BY <1>8, Constructors DEF VerifySHA, TypeOK, Downloads
  <2>2. download[x].phase = "fetch" /\ \A c \in Chunks : thread[x][c] \notin AtWork
    BY <1>8 DEF VerifySHA, Joined, Ended, AtWork
  <2>3. UNCHANGED <<userVars, files, thread>>
    BY <1>8 DEF VerifySHA, fileVars, chunkVars
  <2>4. QED
    BY <1>0, <2>1, <2>2, <2>3, DownloadFits DEF FitsAt, InProgress
<1>9. CASE CannotCreateFile(x)
  BY <1>9, GivesUpFits DEF Abort, CannotCreateFile, Surveyed, Surveying
<1>10. CASE CannotWriteZeros(x)
  BY <1>10, GivesUpFits DEF CannotWriteZeros, WriteZeros
<1>11. QED
  BY <1>1, <1>2, <1>3, <1>4, <1>5, <1>6, <1>7, <1>8, <1>9, <1>10 DEF DownloadThread

LEMMA ChunkThreadFits ==
  ASSUME SInv, NEW x \in Clients, NEW c \in Chunks, ChunkThread(x, c)
  PROVE  Fits'
<1> USE DEF SInv
<1>1. /\ UNCHANGED <<userVars, download>>
      /\ thread[x][c] \in AtWork
      /\ \A y \in Clients : \A e \in Chunks : thread'[y][e] # thread[y][e] => y = x /\ e = c
  <2>1. /\ UNCHANGED <<userVars, download>>
        /\ thread[x][c] \in AtWork
        /\ \E where : thread' = [thread EXCEPT ![x][c] = where]
    BY DEF ChunkThread, Receive, ChunkFails, WriteChunk, LoadWord, StoreWord, AtWork
  <2>2. QED
    BY <2>1 DEF TypeOK
<1>2. ASSUME NEW y \in Clients
      PROVE  (files'[y] = files[y]) \/ (y = x /\ files'[y] # None)
  <2>1. CASE StoreWord(x, c)
    BY <2>1, StoredEntry
  <2>2. CASE ~StoreWord(x, c)
    BY <2>2 DEF ChunkThread, Receive, ChunkFails, WriteChunk, LoadWord, fileVars
  <2>3. QED
    BY <2>1, <2>2
<1>3. x \in running
  BY <1>1 DEF Fits, FitsAt, InProgress
<1>4. SUFFICES ASSUME NEW y \in Clients PROVE FitsAt(y)'
  BY DEF Fits
<1>5. FitsAt(y)
  BY DEF Fits
<1>6. \A e \in Chunks : thread'[y][e] \in AtWork => download[y].phase = "fetch"
  BY <1>1, <1>5, FitsAt(x) DEF FitsAt, Fits
<1>7. QED
  BY <1>1, <1>2, <1>3, <1>5, <1>6 DEF FitsAt, userVars

----------------------------------------------------------------------------
\* The seeders of a group, when users, entries and commands stay.
LEMMA ListedStay ==
  ASSUME SInv,
         \A g \in Groups : seeders'[g][Name] \subseteq seeders[g][Name],
         group' = group,
         \A x \in Clients : files[x] # None => files'[x] # None,
         \A x \in Clients : command[x].at = "download" =>
           files'[x] # None \/ command'[x].at = "download"
  PROVE  ListedAreMembers'
<1> SUFFICES ASSUME NEW g \in Groups, NEW x \in seeders'[g][Name]
             PROVE  group'[x] = g /\ (files'[x] # None \/ command'[x].at = "download")
  BY DEF ListedAreMembers
<1>1. x \in seeders[g][Name] /\ x \in Clients
  BY DEF SInv, TypeOK
<1>2. QED
  BY <1>1 DEF SInv, ListedAreMembers

\* The seeders of the group of x go, and x with them.
LEMMA ListedLeave ==
  ASSUME SInv, NEW x \in Clients, WithdrawAll(x),
         \A y \in Clients \ {x} :
           group'[y] = group[y] /\ files'[y] = files[y] /\ command'[y] = command[y]
  PROVE  ListedAreMembers'
<1> SUFFICES ASSUME NEW g \in Groups, NEW y \in seeders'[g][Name]
             PROVE  group'[y] = g /\ (files'[y] # None \/ command'[y].at = "download")
  BY DEF ListedAreMembers
<1>1. y \in seeders[g][Name] /\ y # x
  <2>1. CASE group[x] = None
    <3>1. y \in seeders[g][Name]
      BY <2>1 DEF WithdrawAll, indexVars
    <3>2. y # x
      BY <2>1, <3>1, SwarmAssumption DEF SInv, ListedAreMembers
    <3>3. QED
      BY <3>1, <3>2
  <2>2. CASE group[x] # None
    <3>1. group[x] \in Groups /\ Index!Withdraw(group[x], x)
      BY <2>2 DEF WithdrawAll, SInv, TypeOK
    <3>2. y \in seeders[g][Name] /\ (g = group[x] => y # x)
      BY <3>1, Removals DEF SInv
    <3>3. y = x => group[x] = g
      BY <3>2 DEF SInv, ListedAreMembers
    <3>4. QED
      BY <3>2, <3>3
  <2>3. QED
    BY <2>1, <2>2
<1>2. y \in Clients
  BY <1>1 DEF SInv, TypeOK
<1>3. QED
  BY <1>1, <1>2 DEF SInv, ListedAreMembers

\* x joins the seeders of its group.
LEMMA ListedJoin ==
  ASSUME SInv, NEW x \in Clients, NEW g \in Groups,
         Index!Join(g, Name, x) \/ Index!Offer(g, Name, x, g),
         group[x] = g,
         files[x] # None \/ command'[x].at = "download",
         \A y \in Clients \ {x} : command'[y] = command[y],
         UNCHANGED <<group, files>>
  PROVE  ListedAreMembers'
<1> SUFFICES ASSUME NEW h \in Groups, NEW y \in seeders'[h][Name]
             PROVE  group'[y] = h /\ (files'[y] # None \/ command'[y].at = "download")
  BY DEF ListedAreMembers
<1>1. y \in seeders[h][Name] \/ (h = g /\ y = x)
  BY Additions DEF SInv
<1>2. y \in seeders[h][Name] => y \in Clients
  BY DEF SInv, TypeOK
<1>3. QED
  BY <1>1, <1>2 DEF SInv, ListedAreMembers

LEMMA CommandThreadListed ==
  ASSUME SInv, NEW x \in Clients, CommandThread(x)
  PROVE  ListedAreMembers'
<1>1. CASE Exit(x)
  BY <1>1, ListedLeave DEF Exit, ProcessEnds, SInv, TypeOK
<1>2. ASSUME NEW g \in Groups, Enter(x, g)
      PROVE  ListedAreMembers'
  <2>1. \A h \in Groups : x \notin seeders[h][Name]
    BY <1>2, SwarmAssumption DEF Enter, SInv, ListedAreMembers
  <2>2. /\ \A y \in Clients \ {x} : group'[y] = group[y]
        /\ UNCHANGED <<seeders, files, command>>
    BY <1>2 DEF Enter, indexVars, fileVars, SInv, TypeOK
  <2>3. \A h \in Groups : seeders[h][Name] \subseteq Clients
    BY DEF SInv, TypeOK
  <2>4. QED
    BY <2>1, <2>2, <2>3 DEF SInv, ListedAreMembers
<1>3. CASE Leave(x)
  BY <1>3, ListedLeave DEF Leave, fileVars, SInv, TypeOK
<1>4. ASSUME NEW g \in Groups, NEW p \in Paths, UploadStarts(x, g, p)
      PROVE  ListedAreMembers'
  <2>1. UNCHANGED <<seeders, group>> /\ command[x] = Idle
    BY <1>4 DEF UploadStarts, Ready, indexVars
  <2>2. \A y \in Clients \ {x} : files'[y] = files[y] /\ command'[y] = command[y]
    BY <1>4 DEF UploadStarts, Insert, SInv, TypeOK
  <2>3. files[x] # None => files'[x] # None
    BY <1>4 DEF UploadStarts, Insert
  <2>4. QED
    BY <2>1, <2>2, <2>3, ListedStay DEF Idle
<1>5. CASE UploadEnds(x)
  <2>1. /\ command[x].at = "upload" /\ files[x] # None
        /\ command[x].group \in Groups
        /\ \A y \in Clients \ {x} : command'[y] = command[y]
        /\ UNCHANGED <<group, files>>
    BY <1>5, CommandTypes DEF UploadEnds, SInv, TypeOK, Fits, FitsAt, fileVars
  <2>2. CASE UNCHANGED indexVars
    BY <2>1, <2>2, ListedStay DEF indexVars
  <2>3. CASE ~UNCHANGED indexVars
    BY <1>5, <2>1, <2>3, ListedJoin DEF UploadEnds
  <2>4. QED
    BY <2>2, <2>3
<1>6. ASSUME NEW g \in Groups, NEW p \in Destinations, DownloadStarts(x, g, p)
      PROVE  ListedAreMembers'
  <2>1. /\ UNCHANGED <<group, files>>
        /\ command'[x].at = "download"
        /\ \A y \in Clients \ {x} : command'[y] = command[y]
    BY <1>6 DEF DownloadStarts, Replies, SInv, TypeOK, fileVars
  <2>2. CASE UNCHANGED indexVars
    BY <2>1, <2>2, ListedStay DEF indexVars
  <2>3. CASE group[x] = g /\ Index!Join(g, Name, x)
    BY <2>1, <2>3, ListedJoin
  <2>4. QED
    BY <1>6, <2>2, <2>3 DEF DownloadStarts
<1>7. CASE HandleDownload(x)
  <2>1. /\ command[x].SHA \in Groups /\ command[x].filePath \in Destinations
    BY <1>7, CommandTypes DEF HandleDownload, SInv
  <2>2. files'[x] # None
    <3>1. [SHA |-> command[x].SHA, filePath |-> command[x].filePath,
           isChunkAvailable |-> NothingAvailable] # None
      BY <2>1, SwarmAssumption DEF Entries, Paths, NothingAvailable
    <3>2. QED
      BY <1>7, <3>1 DEF HandleDownload, Insert, SInv, TypeOK
  <2>3. UNCHANGED <<seeders, group>>
    BY <1>7 DEF HandleDownload, indexVars
  <2>4. \A y \in Clients \ {x} : files'[y] = files[y] /\ command'[y] = command[y]
    BY <1>7 DEF HandleDownload, Insert, SInv, TypeOK
  <2>5. QED
    BY <2>2, <2>3, <2>4, ListedStay
<1>8. CASE ReplyLost(x)
  <2>1. /\ tracker # "up" /\ UNCHANGED <<seeders, group, files>>
    BY <1>8 DEF ReplyLost, indexVars, fileVars
  <2>2. \A g \in Groups : seeders[g][Name] = {}
    BY <2>1, SwarmAssumption DEF SInv, TypeOK, Offline, ListedAreMembers
  <2>3. QED
    BY <2>1, <2>2 DEF ListedAreMembers
<1>9. QED
  BY <1>1, <1>2, <1>3, <1>4, <1>5, <1>6, <1>7, <1>8 DEF CommandThread

LEMMA LostListed ==
  ASSUME NEW status, IndexIsLost(status)
  PROVE  ListedAreMembers'
  BY DEF IndexIsLost, Index!Forget, ListedAreMembers

LEMMA DiesListed ==
  ASSUME NEW x \in Clients, Dies(x)
  PROVE  ListedAreMembers'
  BY LostListed DEF Dies, TrackerLosesClient

LEMMA DownloadThreadListed ==
  ASSUME SInv, NEW x \in Clients, DownloadThread(x)
  PROVE  ListedAreMembers'
<1>1. CASE CutOff(x) /\ Dies(x)
  BY <1>1, DiesListed
<1>2. CASE ~(CutOff(x) /\ Dies(x))
  <2>1. UNCHANGED <<seeders, group, files, command>>
    BY <1>2 DEF DownloadThread, Connect, Unreachable, Answer, CutOff, ChunkIsMissing, CreateFile,
                CannotCreateFile, StartThreads, CannotWriteZeros, VerifySHA, Abort, GivesUp,
                EntryAfterAbort, indexVars, userVars, fileVars
  <2>2. QED
    BY <2>1, ListedStay
<1>3. QED
  BY <1>1, <1>2

LEMMA ChunkThreadListed ==
  ASSUME SInv, NEW x \in Clients, NEW c \in Chunks, ChunkThread(x, c)
  PROVE  ListedAreMembers'
<1>1. UNCHANGED <<seeders, group, command>>
  BY DEF ChunkThread, Receive, ChunkFails, WriteChunk, LoadWord, StoreWord, indexVars, userVars
<1>2. \A y \in Clients : files[y] # None => files'[y] # None
  <2>1. CASE StoreWord(x, c)
    BY <2>1, StoredEntry DEF SInv
  <2>2. CASE ~StoreWord(x, c)
    BY <2>2 DEF ChunkThread, Receive, ChunkFails, WriteChunk, LoadWord, fileVars
  <2>3. QED
    BY <2>1, <2>2
<1>3. QED
  BY <1>1, <1>2, ListedStay

----------------------------------------------------------------------------
LEMMA StepOffline ==
  ASSUME SInv, Next
  PROVE  Offline'
<1>1. PICK x \in Clients :
        \/ Start(x)
        \/ Killed(x)
        \/ Disconnected(x)
        \/ CommandThread(x)
        \/ DownloadThread(x)
        \/ \E c \in Chunks : ChunkThread(x, c)
  BY DEF Next
<1>2. CASE UNCHANGED <<tracker, group>>
  BY <1>2 DEF SInv, Offline
<1>3. CASE Dies(x) \/ Disconnected(x)
  BY <1>3 DEF Dies, TrackerLosesClient, Disconnected, IndexIsLost, Offline
<1>4. CASE CommandThread(x)
  <2>1. CASE \E g \in Groups : Enter(x, g)
    BY <2>1 DEF Enter, Offline
  <2>2. CASE Leave(x) \/ Exit(x)
    <3>1. tracker' = tracker /\ group' = [group EXCEPT ![x] = None]
      BY <2>2 DEF Leave, Exit
    <3>2. QED
      BY <3>1 DEF SInv, TypeOK, Offline
  <2>3. QED
    BY <1>2, <1>4, <2>1, <2>2
    DEF CommandThread, UploadStarts, UploadEnds, DownloadStarts, ReplyLost, HandleDownload
<1>5. CASE DownloadThread(x)
  BY <1>2, <1>3, <1>5
  DEF DownloadThread, Connect, Unreachable, Answer, CutOff, ChunkIsMissing, CreateFile,
      CannotCreateFile, StartThreads, CannotWriteZeros, VerifySHA, Abort, GivesUp, userVars
<1>6. CASE \E c \in Chunks : ChunkThread(x, c)
  BY <1>2, <1>6
  DEF ChunkThread, Receive, ChunkFails, WriteChunk, LoadWord, StoreWord, userVars
<1>7. CASE Start(x)
  BY <1>2, <1>7 DEF Start
<1>8. QED
  BY <1>1, <1>3, <1>4, <1>5, <1>6, <1>7 DEF Killed

LEMMA StutterSInv == SInv /\ UNCHANGED vars => SInv'
<1> SUFFICES ASSUME SInv, UNCHANGED vars PROVE SInv'
  OBVIOUS
<1> USE DEF vars, indexVars, userVars, fileVars, chunkVars, history
<1>1. TypeOK'
  BY DEF SInv, TypeOK
<1>2. Fits'
  BY DEF SInv, Fits, FitsAt
<1>3. ListedAreMembers' /\ Offline'
  BY DEF SInv, ListedAreMembers, Offline
<1>4. QED
  BY <1>1, <1>2, <1>3 DEF SInv

LEMMA StepSInv == SInv /\ [Next]_vars => SInv'
<1> SUFFICES ASSUME SInv, Next PROVE SInv'
  BY StutterSInv
<1>1. PICK x \in Clients :
        \/ Start(x)
        \/ Killed(x)
        \/ Disconnected(x)
        \/ CommandThread(x)
        \/ DownloadThread(x)
        \/ \E c \in Chunks : ChunkThread(x, c)
  BY DEF Next
<1> USE StepOffline
<1>2. CASE Start(x)
  <2>1. TypeOK'
    BY <1>2 DEF Start, SInv, TypeOK, indexVars, fileVars, chunkVars, history
  <2>2. Fits'
    BY <1>2 DEF Start, SInv, Fits, FitsAt, fileVars, chunkVars
  <2>3. ListedAreMembers'
    BY <1>2 DEF Start, SInv, ListedAreMembers, indexVars, fileVars
  <2>4. QED
    BY <2>1, <2>2, <2>3 DEF SInv
<1>3. CASE Killed(x)
  BY <1>3, DiesTypes, DiesFits, DiesListed DEF Killed, SInv
<1>4. CASE CommandThread(x)
  BY <1>4, CommandThreadTypes, CommandThreadFits, CommandThreadListed DEF SInv
<1>5. CASE DownloadThread(x)
  BY <1>5, DownloadThreadTypes, DownloadThreadFits, DownloadThreadListed DEF SInv
<1>6. ASSUME NEW c \in Chunks, ChunkThread(x, c)
      PROVE  SInv'
  BY <1>6, ChunkThreadTypes, ChunkThreadFits, ChunkThreadListed DEF SInv
<1>7. CASE Disconnected(x)
  BY <1>7, DisconnectedTypes, DisconnectedFits, LostListed DEF Disconnected, SInv
<1>8. QED
  BY <1>1, <1>2, <1>3, <1>4, <1>5, <1>6, <1>7

LEMMA SpecSInv == Spec => []SInv
<1>1. Init => SInv
  BY InitSInv
<1>2. SInv /\ [Next]_vars => SInv'
  BY StepSInv
<1>3. QED
  BY <1>1, <1>2, PTL DEF Spec

\* TypeOK.
THEOREM SwarmTypeOK == Spec => []TypeOK
<1>1. SInv => TypeOK
  BY DEF SInv
<1>2. QED
  BY <1>1, SpecSInv, PTL

\* ListedHaveEntries: as long as no connection to the tracker has been reset,
\* whoever it names runs, and has an entry of the name or inserts it next.
\* Afterwards nothing is known of what it lists, and nothing is claimed.
THEOREM SwarmListedHaveEntries == Spec => []ListedHaveEntries
<1>1. ASSUME SInv, NEW g \in Groups, NEW x \in seeders[g][Name]
      PROVE  x \in running /\ (files[x] # None \/ command[x].at = "download")
  <2>1. x \in Clients
    BY <1>1 DEF SInv, TypeOK
  <2>2. group[x] = g /\ (files[x] # None \/ command[x].at = "download")
    BY <1>1 DEF SInv, ListedAreMembers
  <2>3. x \in running
    BY <1>1, <2>1, <2>2, SwarmAssumption DEF SInv, Fits, FitsAt
  <2>4. QED
    BY <2>2, <2>3
<1>2. SInv => ListedHaveEntries
  BY <1>1 DEF ListedHaveEntries
<1>3. QED
  BY <1>2, SpecSInv, PTL
=============================================================================
