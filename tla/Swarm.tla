------------------------------- MODULE Swarm -------------------------------
(***************************************************************************)
(* Several clients of MiniTorrent (src/client) and the tracker's index of  *)
(* shares.  Each client has a thread for the commands of its user, a       *)
(* detached thread per download with one per chunk, and a thread for each  *)
(* other client that asks for something; all of them use one map, files,   *)
(* and the disk.                                                           *)
(*                                                                         *)
(* Everything is about one name of a file, since files is keyed by name    *)
(* and entries of different names have nothing in common.  Within a group  *)
(* the name stands for one content (README, assumption 1), so that a group *)
(* is also the name of its content and of the digest; another group may    *)
(* use the name for something else, in as many chunks.                     *)
(*                                                                         *)
(* A download has one window of threads (module Download has several), and *)
(* a client has one download of the name at a time.  Commands to the       *)
(* tracker and its replies arrive whole, or their connection is reset.     *)
(*                                                                         *)
(* Once a connection to the tracker has been reset, which leaves a session *)
(* behind that nobody ends, and that the next client may get (PeerReset in *)
(* module Tracker), the tracker is not followed any more: it is "astray",  *)
(* may list anybody anywhere, and runs or has crashed.                     *)
(*                                                                         *)
(* An operator that Next does not reach, right before one that it does and *)
(* with the same parameters, is that operator with a fault: the README     *)
(* says which property notices it.                                         *)
(***************************************************************************)
EXTENDS Naturals

CONSTANTS
  Clients,
  Groups,
  Destinations,  \* paths that users give to download_file
  Chunks,
  Owned,         \* <<x, g>>: x has the file of g from the beginning, at path g
  MaxCommands,   \* bound: how many uploads and downloads there are
  None

Paths == Groups \cup Destinations
Entries == [SHA : Groups, filePath : Paths, isChunkAvailable : SUBSET Chunks]
NotAContent == {"absent", "empty", "zeros", "garbage"}

ASSUME SwarmAssumption ==
  /\ Owned \subseteq Clients \X Groups
  /\ Chunks # {}
  /\ MaxCommands \in Nat
  /\ Groups \cap Destinations = {}
  /\ None \notin Clients \cup Groups \cup NotAContent
  /\ None \notin Entries
  /\ Groups \cap NotAContent = {}
  /\ "cut" \notin Clients \cup {None}

VARIABLES
  tracker,          \* "up", "astray" or "down"
  digest, seeders,  \* its index while it is up, see module ShareIndex
  running,          \* the clients whose process runs
  group,            \* group[x]: where the user who is logged in at x is a member
  command,          \* command[x]: what the command thread is waiting for
  files,            \* files[x]: the entry of the name, or None
  disk,             \* disk[x][p][c]: chunk c of the file at path p
  download,         \* download[x]: where handleDownloadThread is, and its locals
  thread,           \* thread[x][c]: where the thread of chunk c is
  seeder,           \* seeder[x][c]: whom it is asking
  outputBuffer,     \* outputBuffer[x][c]: what it got and has still to write
  word,             \* word[x][c]: the flags it has loaded to set its own
  commands,         \* how many uploads and downloads there were, for the bound
  entered, again,   \* history: the group of the first of them at each client, and
                    \* whether there was a second one at any
  damaged           \* history: the chunks of which some read() or write() at some
                    \* client took only a part, or nothing, or of whose numbers
                    \* one was cut off

indexVars == <<digest, seeders>>
userVars == <<tracker, running, group, command, commands>>
fileVars == <<files, disk>>
chunkVars == <<thread, seeder, outputBuffer, word>>
history == <<entered, again, damaged>>
vars == <<indexVars, userVars, fileVars, download, chunkVars, history>>

Name == "file"

Index == INSTANCE ShareIndex WITH Names <- {Name}, Digests <- Groups

Idle == [at |-> "idle"]
Commands ==
  {Idle}
  \cup [at : {"upload"}, group : Groups]
  \cup [at : {"download"}, SHA : Groups, filePath : Destinations, seeders : SUBSET Clients]

NoDownload ==
  [phase |-> "none", SHA |-> None, filePath |-> None, toAsk |-> {}, asking |-> None,
   chunkStatusOfOthers |-> [c \in Chunks |-> {}]]

\* Where a chunk thread is when it has returned.
Ended == {"over", "failed"}

Over == {"none", "aborted", "verified", "mismatched"}
Downloads ==
  [phase : {"survey", "create", "fetch"} \cup Over,
   SHA : Groups \cup {None},
   filePath : Destinations \cup {None},
   toAsk : SUBSET Clients,
   asking : Clients \cup {None, "cut"},
   chunkStatusOfOthers : [Chunks -> SUBSET Clients]]

TypeOK ==
  /\ tracker \in {"up", "astray", "down"}
  /\ digest \in [Groups -> [{Name} -> Groups \cup {None}]]
  /\ seeders \in [Groups -> [{Name} -> SUBSET Clients]]
  /\ running \in SUBSET Clients
  /\ group \in [Clients -> Groups \cup {None}]
  /\ command \in [Clients -> Commands]
  /\ files \in [Clients -> Entries \cup {None}]
  /\ disk \in [Clients -> [Destinations -> [Chunks -> Groups \cup NotAContent]]]
  /\ download \in [Clients -> Downloads]
  /\ thread \in [Clients -> [Chunks -> {"none", "ask", "write", "load", "store"} \cup Ended]]
  /\ seeder \in [Clients -> [Chunks -> Clients \cup {None}]]
  /\ outputBuffer \in [Clients -> [Chunks -> Groups \cup {"garbage", None}]]
  /\ word \in [Clients -> [Chunks -> SUBSET Chunks]]
  /\ entered \in [Clients -> Groups \cup {None}]
  /\ again \in BOOLEAN
  /\ damaged \in SUBSET Chunks
  /\ commands \in Nat

NoThreads == [c \in Chunks |-> "none"]
NoBuffers == [c \in Chunks |-> None]
NoWords == [c \in Chunks |-> {}]

Init ==
  /\ tracker = "up"
  /\ Index!Init
  /\ running = {}
  /\ group = [x \in Clients |-> None]
  /\ command = [x \in Clients |-> Idle]
  /\ files = [x \in Clients |-> None]
  /\ disk = [x \in Clients |-> [p \in Destinations |-> [c \in Chunks |-> "absent"]]]
  /\ download = [x \in Clients |-> NoDownload]
  /\ thread = [x \in Clients |-> NoThreads]
  /\ seeder = [x \in Clients |-> NoBuffers]
  /\ outputBuffer = [x \in Clients |-> NoBuffers]
  /\ word = [x \in Clients |-> NoWords]
  /\ entered = [x \in Clients |-> None]
  /\ again = FALSE
  /\ damaged = {}
  /\ commands = 0

----------------------------------------------------------------------------
(* Processes.                                                              *)

\* main: listen, connect to the tracker.
Start(x) ==
  /\ tracker # "down"
  /\ x \notin running
  /\ running' = running \cup {x}
  /\ UNCHANGED <<indexVars, tracker, group, command, commands, fileVars, download, chunkVars,
                 history>>

\* The kernel closes the connections of x: who waits for an answer of x gets
\* an empty one.
ConnectionStays(x, y) == download[y]

ConnectionOf(x, y) ==
  IF download[y].asking = x THEN [download[y] EXCEPT !.asking = "cut"] ELSE download[y]

\* The map and the threads are gone, the disk stays.
ProcessEnds(x) ==
  /\ running' = running \ {x}
  /\ command' = [command EXCEPT ![x] = Idle]
  /\ files' = [files EXCEPT ![x] = None]
  /\ download' = [y \in Clients |-> IF y = x THEN NoDownload ELSE ConnectionOf(x, y)]
  /\ thread' = [thread EXCEPT ![x] = NoThreads]
  /\ seeder' = [seeder EXCEPT ![x] = NoBuffers]
  /\ outputBuffer' = [outputBuffer EXCEPT ![x] = NoBuffers]
  /\ word' = [word EXCEPT ![x] = NoWords]
  /\ UNCHANGED <<commands, disk, history>>

WithdrawAll(x) ==
  IF group[x] = None THEN UNCHANGED indexVars ELSE Index!Withdraw(group[x], x)

\* exitClient: the tracker logs the user out, then the process exits, whatever
\* its other threads are doing.
Exit(x) ==
  /\ x \in running
  /\ command[x] = Idle
  /\ WithdrawAll(x)
  /\ group' = [group EXCEPT ![x] = None]
  /\ ProcessEnds(x)
  /\ UNCHANGED tracker

IndexIsLost(status) ==
  /\ tracker' = status
  /\ Index!Forget
  /\ group' = [y \in Clients |-> None]

\* Reading on the connection of x, the tracker finds its end and is taken
\* along (PeerClosed of module Tracker), or finds it reset, because of a reply
\* that x had not read, say, and goes on with the session of x (PeerReset).
TrackerLosesClient ==
  \/ tracker # "astray" /\ IndexIsLost("down")
  \/ tracker # "down" /\ IndexIsLost("astray")

\* The process ends without exit.
Dies(x) ==
  /\ ProcessEnds(x)
  /\ TrackerLosesClient

\* Its user kills it; or two of its threads use the map files at a time, one
\* of them to insert, and it crashes; or the tracker is gone and the reply
\* empty, which handleDownload takes for one with tokens.
Killed(x) == x \in running /\ Dies(x)

\* A connection is reset while its client goes on.
Disconnected(x) ==
  /\ x \in running
  /\ tracker = "up"
  /\ IndexIsLost("astray")
  /\ UNCHANGED <<running, command, commands, fileVars, download, chunkVars, history>>

----------------------------------------------------------------------------
(* Commands: otherCommands, uploadFilesToGroup and downloadFile.  While the *)
(* thread waits for a reply there is no other command.                     *)

Ready(x) == x \in running /\ command[x] = Idle

\* login and join_group, as far as the index is concerned.
Enter(x, g) ==
  /\ Ready(x) /\ tracker = "up"
  /\ group[x] = None
  /\ group' = [group EXCEPT ![x] = g]
  /\ UNCHANGED <<indexVars, tracker, running, command, commands, fileVars, download, chunkVars,
                 history>>

\* leave_group or logout.
Leave(x) ==
  /\ Ready(x) /\ tracker = "up"
  /\ group[x] # None
  /\ WithdrawAll(x)
  /\ group' = [group EXCEPT ![x] = None]
  /\ UNCHANGED <<tracker, running, command, commands, fileVars, download, chunkVars, history>>

\* A command that puts the name, as it is used in g, into the map of x.
CountCommand(x, g) ==
  /\ commands < MaxCommands
  /\ commands' = commands + 1
  /\ entered' = IF entered[x] = None THEN [entered EXCEPT ![x] = g] ELSE entered
  /\ again' = (again \/ entered[x] # None)
  /\ UNCHANGED damaged

Content(x, p, c) == IF p \in Destinations THEN disk[x][p][c] ELSE p

\* The file at p is the one of g: README, assumptions 3 and 6.
HasFile(x, p, g) ==
  /\ p \in Destinations \/ <<x, p>> \in Owned
  /\ \A c \in Chunks : Content(x, p, c) = g

\* files.insert leaves an older entry alone.
Insert(x, entry) ==
  files' = IF files[x] = None THEN [files EXCEPT ![x] = entry] ELSE files

\* uploadFilesToGroup up to its write.  g need not be the group of the user.
UploadStarts(x, g, p) ==
  /\ Ready(x)
  /\ HasFile(x, p, g)
  /\ Insert(x, [SHA |-> g, filePath |-> p, isChunkAvailable |-> Chunks])
  /\ command' = [command EXCEPT ![x] = [at |-> "upload", group |-> g]]
  /\ CountCommand(x, g)
  /\ UNCHANGED <<indexVars, tracker, running, group, disk, download, chunkVars>>

\* What the tracker does with it, and its reply.
UploadEnds(x) ==
  /\ command[x].at = "upload"
  /\ LET g == command[x].group
     IN  IF tracker = "up" /\ group[x] = g
         THEN IF Name \in Index!Listed(g) THEN Index!Join(g, Name, x)
                                          ELSE Index!Offer(g, Name, x, g)
         ELSE UNCHANGED indexVars
  /\ command' = [command EXCEPT ![x] = Idle]
  /\ UNCHANGED <<tracker, running, group, commands, fileVars, download, chunkVars, history>>

Replies(x, sha, p, listed) ==
  command' = [command EXCEPT ![x] = [at |-> "download", SHA |-> sha, filePath |-> p,
                                     seeders |-> listed]]

\* downloadFile up to its read: the tracker makes the reply and enters x.  If
\* it is astray, it may take x for a member of any group, and list anybody.
DownloadStarts(x, g, p) ==
  /\ Ready(x)
  /\ download[x].phase \in Over
  /\ \/ /\ tracker = "up"
        /\ group[x] = g
        /\ Index!Join(g, Name, x)
        /\ Replies(x, digest[g][Name], p, seeders[g][Name])
     \/ /\ tracker = "astray"
        /\ UNCHANGED indexVars
        /\ \E listed \in SUBSET Clients : Replies(x, g, p, listed)
  /\ CountCommand(x, g)
  /\ UNCHANGED <<tracker, running, group, fileVars, download, chunkVars>>

\* Its connection is reset before it has read the reply.
ReplyLost(x) ==
  /\ command[x].at = "download"
  /\ tracker # "up"
  /\ command' = [command EXCEPT ![x] = Idle]
  /\ UNCHANGED <<indexVars, tracker, running, group, commands, fileVars, download, chunkVars,
                 history>>

EveryChunkAvailable == Chunks

\* vector <bool> v(totalChunks, false)
NothingAvailable == {}

\* handleDownload: the entry, and a thread for the download.
HandleDownload(x) ==
  LET reply == command[x]
  IN  /\ reply.at = "download"
      /\ Insert(x, [SHA |-> reply.SHA, filePath |-> reply.filePath,
                    isChunkAvailable |-> NothingAvailable])
      /\ download' = [download EXCEPT ![x] =
                        [NoDownload EXCEPT !.phase = "survey", !.SHA = reply.SHA,
                           !.filePath = reply.filePath, !.toAsk = reply.seeders]]
      /\ thread' = [thread EXCEPT ![x] = NoThreads]
      /\ seeder' = [seeder EXCEPT ![x] = NoBuffers]
      /\ outputBuffer' = [outputBuffer EXCEPT ![x] = NoBuffers]
      /\ word' = [word EXCEPT ![x] = NoWords]
      /\ command' = [command EXCEPT ![x] = Idle]
      /\ UNCHANGED <<indexVars, tracker, running, group, commands, disk, history>>

----------------------------------------------------------------------------
(* The survey of a download.                                               *)

ForgottenEntry(x) == [files EXCEPT ![x] = None]

\* The thread returns; nothing is taken back.
EntryAfterAbort(x) == files

GivesUp(x) ==
  /\ download' = [download EXCEPT ![x] = [NoDownload EXCEPT !.phase = "aborted"]]
  /\ files' = EntryAfterAbort(x)
  /\ UNCHANGED <<indexVars, userVars, chunkVars, history>>

Abort(x) == GivesUp(x) /\ UNCHANGED disk

Surveying(x) == download[x].phase = "survey" /\ download[x].asking = None

Connect(x, s) ==
  /\ Surveying(x)
  /\ s \in download[x].toAsk \cap running
  /\ download' = [download EXCEPT ![x].asking = s]
  /\ UNCHANGED <<indexVars, userVars, fileVars, chunkVars, history>>

\* The seeder does not run, or socket(), connect() or write() fails anyway.
Unreachable(x, s) ==
  /\ Surveying(x)
  /\ s \in download[x].toAsk
  /\ Abort(x)

\* get_chunk_info of the seeder: without an entry the answer has no chunks.
ChunkInfo(s) == IF files[s] = None THEN {} ELSE files[s].isChunkAvailable

\* One read() may return only a part of it, and a number that is cut off names
\* another chunk.
Answer(x) ==
  LET s == download[x].asking
  IN  /\ s \in running
      /\ \E told \in SUBSET Chunks :
           /\ told # {} => ChunkInfo(s) # {}
           /\ download' = [download EXCEPT
                ![x].asking = None,
                ![x].toAsk = @ \ {s},
                ![x].chunkStatusOfOthers =
                  [c \in Chunks |-> IF c \in told THEN @[c] \cup {s} ELSE @[c]]]
           /\ damaged' = damaged \cup (told \ ChunkInfo(s))
      /\ UNCHANGED <<indexVars, userVars, fileVars, chunkVars, entered, again>>

\* The seeder has ended before it answered, or its read() of the request has
\* failed.  read() fails, or returns 0: then there is no token, and
\* resTokens[0] is no string.
CutOff(x) ==
  /\ download[x].asking \in running \cup {"cut"}
  /\ Abort(x) \/ Dies(x)

Surveyed(x) == Surveying(x) /\ download[x].toAsk = {}

HeldByOthers(x) == \A c \in Chunks : download[x].chunkStatusOfOthers[c] # {}

ChunkIsMissing(x) ==
  /\ Surveyed(x)
  /\ ~HeldByOthers(x)
  /\ Abort(x)

----------------------------------------------------------------------------
(* The transfer.                                                           *)

\* open() with O_TRUNC.
CreateFile(x) ==
  /\ Surveyed(x)
  /\ HeldByOthers(x)
  /\ disk' = [disk EXCEPT ![x][download[x].filePath] = [c \in Chunks |-> "empty"]]
  /\ download' = [download EXCEPT ![x].phase = "create"]
  /\ UNCHANGED <<indexVars, userVars, files, chunkVars, history>>

CannotCreateFile(x) ==
  /\ Surveyed(x)
  /\ HeldByOthers(x)
  /\ Abort(x)

\* The zeros.  The last chunk of a file whose size is a multiple of CHUNK_SIZE
\* gets none, and write() may write less than it is asked to.
WriteZeros(x, written) ==
  /\ download[x].phase = "create"
  /\ disk' = [disk EXCEPT ![x][download[x].filePath] =
                [c \in Chunks |-> IF c \in written THEN "zeros" ELSE "empty"]]

CannotWriteZeros(x) ==
  /\ \E written \in SUBSET Chunks : WriteZeros(x, written)
  /\ GivesUp(x)

\* The zeros, then pieceSelection and a thread for each chunk.
StartThreads(x) ==
  /\ \E written \in SUBSET Chunks : WriteZeros(x, written)
  /\ download' = [download EXCEPT ![x].phase = "fetch",
                                  ![x].chunkStatusOfOthers = NoDownload.chunkStatusOfOthers]
  /\ thread' = [thread EXCEPT ![x] = [c \in Chunks |-> "ask"]]
  /\ \E chosen \in [Chunks -> Clients] :
       /\ \A c \in Chunks : chosen[c] \in download[x].chunkStatusOfOthers[c]
       /\ seeder' = [seeder EXCEPT ![x] = chosen]
  /\ UNCHANGED <<indexVars, userVars, files, outputBuffer, word, history>>

ErrorsAreAnswers(s, c) ==
  {IF files[s] = None THEN None ELSE Content(s, files[s].filePath, c)}

\* give_chunk of the seeder, who does not look at isChunkAvailable: None is
\* an answer with nothing in it, which zeros are as a string, or an error.
\* Behind the end of the file nothing is read, and the answer is whatever the
\* buffer held.
Answers(s, c) ==
  IF files[s] = None THEN {None}
  ELSE LET content == Content(s, files[s].filePath, c)
       IN  CASE content \in {"absent", "zeros"} -> {None}
             [] content \in {"empty", "garbage"} -> {None, "garbage"}
             [] OTHER -> {content}

\* One read(): the answer, or a part of it.
Receive(x, c, content) ==
  /\ thread[x][c] = "ask"
  /\ seeder[x][c] \in running
  /\ LET answers == Answers(seeder[x][c], c) \ {None}
     IN  \/ content \in answers /\ UNCHANGED damaged
         \/ content = "garbage" /\ answers # {} /\ damaged' = damaged \cup {c}
  /\ outputBuffer' = [outputBuffer EXCEPT ![x][c] = content]
  /\ thread' = [thread EXCEPT ![x][c] = "write"]
  /\ seeder' = [seeder EXCEPT ![x][c] = None]
  /\ UNCHANGED <<indexVars, userVars, fileVars, download, word, entered, again>>

\* The seeder does not run, refuses or breaks off, or some call fails, up to
\* the write().  Nobody asks another seeder.
ChunkFails(x, c) ==
  /\ thread[x][c] \in {"ask", "write"}
  /\ thread' = [thread EXCEPT ![x][c] = "failed"]
  /\ seeder' = [seeder EXCEPT ![x][c] = None]
  /\ outputBuffer' = [outputBuffer EXCEPT ![x][c] = None]
  /\ UNCHANGED <<indexVars, userVars, fileVars, download, word, history>>

\* The path is the one of the command.  Less than all may be written, and
\* nothing of the last chunk of a file whose size is a multiple of CHUNK_SIZE.
WriteChunk(x, c, content) ==
  LET p == download[x].filePath
  IN  /\ thread[x][c] = "write"
      /\ \/ content = outputBuffer[x][c] /\ UNCHANGED damaged
         \/ content \in {"garbage", disk[x][p][c]} /\ damaged' = damaged \cup {c}
      /\ disk' = [disk EXCEPT ![x][p][c] = content]
      /\ thread' = [thread EXCEPT ![x][c] = "load"]
      /\ outputBuffer' = [outputBuffer EXCEPT ![x][c] = None]
      /\ UNCHANGED <<indexVars, userVars, files, download, seeder, word, entered, again>>

\* The element is the one of the entry, a bit in a word: load, or, and store.
LoadWord(x, c) ==
  /\ thread[x][c] = "load"
  /\ word' = [word EXCEPT ![x][c] = files[x].isChunkAvailable]
  /\ thread' = [thread EXCEPT ![x][c] = "store"]
  /\ UNCHANGED <<indexVars, userVars, fileVars, download, seeder, outputBuffer, history>>

\* What other threads have set since the load is lost, if it is in that word.
StoreWord(x, c) ==
  /\ thread[x][c] = "store"
  /\ \E lost \in SUBSET (files[x].isChunkAvailable \ word[x][c]) :
       files' = [files EXCEPT ![x].isChunkAvailable = (@ \ lost) \cup {c}]
  /\ word' = [word EXCEPT ![x][c] = {}]
  /\ thread' = [thread EXCEPT ![x][c] = "over"]
  /\ UNCHANGED <<indexVars, userVars, disk, download, seeder, outputBuffer, history>>

NotJoined(x) == TRUE

Joined(x) == \A c \in Chunks : thread[x][c] \in Ended

NoThreadHasFailed(x) == \A c \in Chunks : thread[x][c] = "over"

\* newSHA = files.at(fileName).SHA, newSHA of the file at the path of the
\* command.
Matches(x) ==
  \A c \in Chunks : disk[x][download[x].filePath][c] = files[x].SHA

VerifySHA(x) ==
  /\ download[x].phase = "fetch"
  /\ Joined(x)
  /\ download' = [download EXCEPT ![x] =
                    [NoDownload EXCEPT !.SHA = download[x].SHA,
                       !.filePath = download[x].filePath,
                       !.phase = IF Matches(x) THEN "verified" ELSE "mismatched"]]
  /\ UNCHANGED <<indexVars, userVars, fileVars, chunkVars, history>>

----------------------------------------------------------------------------
CommandThread(x) ==
  \/ \E g \in Groups : Enter(x, g) \/ \E p \in Paths : UploadStarts(x, g, p)
  \/ Leave(x)
  \/ UploadEnds(x)
  \/ \E g \in Groups, p \in Destinations : DownloadStarts(x, g, p)
  \/ ReplyLost(x)
  \/ HandleDownload(x)
  \/ Exit(x)

DownloadThread(x) ==
  \/ \E s \in Clients : Connect(x, s) \/ Unreachable(x, s)
  \/ Answer(x)
  \/ CutOff(x)
  \/ ChunkIsMissing(x)
  \/ CreateFile(x)
  \/ CannotCreateFile(x)
  \/ StartThreads(x)
  \/ CannotWriteZeros(x)
  \/ VerifySHA(x)

ChunkThread(x, c) ==
  \/ \E content \in Groups \cup NotAContent : Receive(x, c, content) \/ WriteChunk(x, c, content)
  \/ ChunkFails(x, c)
  \/ LoadWord(x, c)
  \/ StoreWord(x, c)

Next ==
  \E x \in Clients :
    \/ Start(x)
    \/ Killed(x)
    \/ Disconnected(x)
    \/ CommandThread(x)
    \/ DownloadThread(x)
    \/ \E c \in Chunks : ChunkThread(x, c)

Spec == Init /\ [][Next]_vars

\* The threads of a client's download are scheduled, and a seeder's thread
\* writes one answer.
Fairness ==
  \A x \in Clients :
    WF_vars(DownloadThread(x) \/ \E c \in Chunks : ChunkThread(x, c))

FairSpec == Spec /\ Fairness

----------------------------------------------------------------------------
(* What holds whatever the users do.                                       *)

\* As long as no connection to the tracker has been reset, a client that the
\* tracker names as a seeder can be asked: it has an entry of the name, or is
\* just about to insert it.  The entry comes before the share in an upload,
\* after it in a download, and goes with the process only.
ListedHaveEntries ==
  tracker = "up" =>
    \A g \in Groups : \A x \in seeders[g][Name] :
      x \in running /\ (files[x] # None \/ command[x].at = "download")

\* Whoever else ends, leaves, downloads or is lost to the tracker, and whomever
\* that lists, a download ends; clients that ask each other, or themselves, do
\* not wait for ever.
EveryDownloadEnds ==
  \A x \in Clients : download[x].phase \notin Over ~> download[x].phase \in Over

----------------------------------------------------------------------------
(* What holds as long as each client puts the name into its map once, and   *)
(* no connection to the tracker has been reset.                            *)

Undisturbed == ~again /\ tracker # "astray"

\* A chunk that a client says it has can be read at the path of its entry and
\* is the one that the tracker listed, however many clients it went through
\* and whichever of them have ended, unless one of them read or wrote only a
\* part of that very chunk, or took a number that was cut off for its.
OffersAreGenuine ==
  Undisturbed =>
    \A x \in Clients : files[x] # None =>
      \A c \in files[x].isChunkAvailable \ damaged :
        Content(x, files[x].filePath, c) = files[x].SHA

\* A verified file is the one that the tracker listed, whatever was lost or
\* damaged on its way, and is offered to others, if not always all of it.
VerifiedIsShared ==
  Undisturbed =>
    \A x \in Clients : download[x].phase = "verified" =>
      /\ HasFile(x, download[x].filePath, download[x].SHA)
      /\ files[x].SHA = download[x].SHA
      /\ files[x].isChunkAvailable # {}

\* "SHA mismatched, downloaded file is corrupted" has a cause: a chunk whose
\* thread has failed, or one of which somebody read or wrote only a part, or
\* whose number came of one that was cut off.  The order of threads, the ends
\* of clients and what the tracker lists are none.
MismatchHasCause ==
  Undisturbed =>
    \A x \in Clients : download[x].phase = "mismatched" =>
      \E c \in Chunks : thread[x][c] = "failed" \/ c \in damaged

----------------------------------------------------------------------------
(* What the documentation says and the code does not do.                   *)

=============================================================================
