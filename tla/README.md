# MiniTorrent in TLA+

A verification project for MiniTorrent: models of the tracker and of the
client, checked with TLC, and theorems about them proved with TLAPS.

## The system

MiniTorrent shares files between the members of groups. A *tracker* process
keeps accounts, groups and, per group, which client addresses share which
file. A *client* process takes commands from its terminal, sends most of them
to the tracker as they are, listens for other clients ("leechers") that want
chunks of its files, and downloads files chunk by chunk from others
("seeders").

    terminal --> client ---- commands, one reply each ----> tracker
                 | ^                                        (registeredUsers,
     chunks to   | |  chunks from                            socketToUser,
     leechers    v |  seeders                                groups)
                 other clients

### Inventory

| component (source) | state | operations | what is hard | what makes it correct |
|---|---|---|---|---|
| tracker: accounts and sessions (`tracker/commands.cpp`, `tracker/headers.h`) | `registeredUsers`, `socketToUser` | create_user, login, logout, exit | two maps for one fact; sessions that outlive connections | the login flag and `socketToUser` agree; one socket per user |
| tracker: groups | `groups` (admin, pending, participants), `User.groupId` | create_group, join_group, leave_group, accept_request, list_requests, list_groups | a pending request is old by the time it is accepted | one group per user; entry by the admin's consent |
| tracker: shares | `Group.filesOfGroup` (SHA, `ipAndPorts`), `User.files` | upload_file, download_file, list_files, `removeFilesOfUserFromGroup` | the same relation is kept twice and one copy is used to clean the other, unchecked | the two copies are one relation; nothing stale is listed; one user's leaving does not take another's share |
| tracker: connections (`tracker/handlers.cpp`, `tracker/tracker.cpp`) | descriptors, the process | accept, read, write, close, quit | a client that dies, a connection that is reset, a descriptor that is used again | sessions end with connections |
| tracker: threads | all maps, no lock | every command, concurrently | check-then-act in every command | as above, under every interleaving |
| client: a download (`client/handlers.cpp`, `client/utils.cpp`) | `chunkStatusOfOthers`, `countOfClientForEachChunk`, chunk threads, the file, `isChunkAvailable` | survey, `pieceSelection`, windows of threads, write, flag, verify | up to five threads on one `vector<bool>`; partial reads; seeders that vanish; full windows and a remainder | every chunk once, rarest first, never too many threads, verification last, flags that tell the truth, an end in any case |
| client: serving (`client/client.cpp`, `client/handlers.cpp`) | `files`, disk | get_chunk_info, give_chunk | reads entries and files that a download writes; a C string for a chunk | what is offered can be given, and is what the tracker listed |
| client: commands (`client/handlers.cpp`) | `files` | upload_file, download_file, login, exit, everything else passed on | `files` is keyed by name and never overwritten; entered before the tracker agrees | entries match what the tracker lists |
| client: SHA and size (`client/sha.cpp`) | - | `findSHA`, `giveFileSize` | int for a file size | every byte at its place |
| both: arguments, log, tokens, printing (`*/utils.cpp`) | a log file | - | - | - |

The hazards themselves, each at its line and with the properties that are
aimed at it, are in `PROJECT.json`.

## Modules

    GroupMembership   what the tracker promises about groups (abstract)
    ShareIndex        what the tracker promises about shares (abstract)
      ^ both implemented by
    Tracker           the tracker, one step per command
      ^ MCTracker     instances for TLC
      ^ TrackerProofs theorems
      ^ TrackerThreads           the tracker, one step per access to a map
          ^ MCTrackerThreads     instances for TLC
          ^ TrackerThreadsProofs theorems
              ^ TrackerSerialProofs    theorems: its threads implement Tracker
                                       as long as commands do not overlap

    Transfer          what a download promises (abstract)
      ^ implemented by
    Download          one download, one step per access to shared state
      ^ MCDownload    instances for TLC
      ^ DownloadProofs theorems

    ShareIndex        the tracker, as clients see it
      ^ used by
    Swarm             clients that upload, download, serve and end
      ^ MCSwarm       an instance for TLC
      ^ SwarmProofs   theorems about who has entries
          ^ SwarmContentProofs   theorems about contents
              ^ SwarmProgressProofs   theorems about the index and about progress

    FileBytes         the bytes of one file on their way
      ^ MCFileBytes   instances for TLC
      ^ FileBytesProofs theorems

The three modules about the client look at the same code at three distances:
`Swarm` has many clients and chunks that are right or wrong, `Download` one
client and its windows of threads, `FileBytes` one file and its bytes.

### Tracker

`Tracker` holds the three maps as functions over all keys, one variable per
field; `None` is an absent key or an empty string. `peer[s]` is the client at
the other end of descriptor `s`, `status` says whether the process runs or how
it ended. A command is one action. Each early return of the code ("You are not
logged in!!", "Group not exists", ...) is a conjunct of the guard: a refused
command changes nothing and is a stuttering step.

| code | action |
|---|---|
| `main`: accept loop | `Accept` - any closed descriptor; no two client processes listen on one ip:port |
| `createUser`, `login`, `logout` | `CreateUser`, `Login`, `Logout` |
| `exit` in `executeCommand`, then `close` in `handleClientRequest` | `Exit` - logs out if anybody is logged in |
| `createGroup`, `joinGroup`, `leaveGroup`, `acceptRequest` | `CreateGroup`, `JoinGroup` (admin or applicant), `LeaveGroup`, `AcceptRequest` |
| `uploadFilesToGroup`, `downloadFile` | `UploadFile`, `DownloadFile` |
| `removeFilesOfUserFromGroup` | `RemoveFilesOfUserFromGroup`, part of `LeaveGroup` and `EndSession`; `RemovalOfMissingEntry` if a `find()` finds nothing |
| `listRequests`, `listGroups`, `listFiles`, the reply of `downloadFile` | operators `ListRequests`, `ListGroups`, `ListFiles`, `DownloadReply`; the properties speak about them |
| `read() < 0` or `write() < 0`: close and return | `PeerReset` |
| the client died: `read()` returns 0, and 0 is not `< 0` | `PeerClosed` - the thread answers the empty command until the write raises SIGPIPE and the tracker ends |
| `quit`, and starting the program again | `Quit`, `Restart` |

Two specifications differ in one action. `Spec` has no `PeerReset`: every
connection ends with `exit`, or takes the whole process along. In
`SpecWithResets` a connection may be reset, its thread closes the socket, and
the session stays in `socketToUser` under a descriptor that the next client
may get. The properties that survive this are stated under `SpecWithResets`,
the others under `Spec`, and one run shows what goes wrong between them.

`Accept` has a guard that is not in the code: no two client processes that are
connected have the same ip and port. This is an assumption about how clients
are run. The code does not see to it: the client listens with `SO_REUSEPORT`
(client.cpp:31-35), the port in an address is what the client sends with its
login (commands.cpp:165), and `main` of the tracker accepts anybody
(tracker.cpp:59-81). `IndexesAgree`, `NeverSegfaults`, `SharesOutliveOthers`,
`ListedFilesHaveSeeders` and `ShareIndexSpec` rest on it; so do the theorems
about them. Two clients with one address, whose users are in one group, would do
what the session left by a reset does in `tracker_segv`.

### TrackerThreads

`Tracker` executes a command in one step. The code does not enforce that: every
connection has a thread of its own, the three maps are global and there is no
lock. `TrackerThreads` extends `Tracker` with the variable `task`, which holds
for each socket where its thread is (`at`) and the values of its locals, and
splits each command at its accesses to what other threads may change. A
command is a first step that makes the early checks (`LoginStarts`,
`AcceptStarts`, ...) and then one step per access, in the order of the code:

| command | steps after the first |
|---|---|
| create_user, create_group | `InsertUser`; `InsertGroup` - `insert` leaves an existing key alone |
| login | `SetLoggedIn`, `InsertSession` |
| join_group | `SetGroup`, `InsertParticipant` for the admin; `InsertRequest` for others |
| accept_request | `FindRequest`, `CheckFree`, `SetGroup`, `EraseRequest`, `InsertParticipant` |
| upload_file | `CopyAddress`, `FindFile`, then `InsertFile` or `AddAddress`, `AddFile` |
| download_file | `CopyFile` (the reply), `CopyAddress`, `FindAgain`, `AddAddress`, `AddFile` |
| `removeFilesOfUserFromGroup` | `CopyUser`; per file `FindEntry`, `EraseAddress`, `CheckSize`, `DropEntry`; `ClearFiles` |
| logout, exit | the removal if in a group, `SetLoggedOut`, `EraseSession`; then `Close` |
| leave_group | `EraseParticipant`, the removal, `ClearGroup` |

Steps are merged only where nobody can come in between: `socketToUser[s]` is
accessed by the thread of `s` alone, and users and groups are never erased and
their passwords and admins never change, so that a successful `find` on those
two maps stays successful. Files are erased, so each use of an iterator to one is
a step: `valid` says whether the entry is still there. If it is not, or the
address the iterator points to is gone, the process ends (`HoldsErased`) or the
access has no effect (`UseOfErased`). Two commands in progress may touch one
container at the same time, which is undefined as well: the process may end
(`DataRace`), or the accesses take effect one after the other. `Dies` collects
the other ways a thread takes the process along: `groups.at("")` throws, a
missing entry is dereferenced or erased, a write raises SIGPIPE.

### Download

`Download` is `handleDownloadThread` with its chunk threads. `pc` is where the
download thread is, `thread[c]` where the thread of chunk `c` is. The windows
are `iteration` and `window` (`availableThreadWindow`);
`countOfClientForEachChunk` is `toFetch`, since the count that goes with a
chunk number is the size of `chunkStatusOfOthers[c]` and does not change after
the survey. Sizes are kept (`Bytes`, `ChunkSize`), content is not: a part of
the file is absent, zeros, intact or damaged.

| code | action |
|---|---|
| `get_chunk_info` to each seeder | `ChunkInfo`; `SeederUnreachable` aborts; `SeederCutsOff` is the empty answer whose first token is read |
| counts, "Entire file is not available" | `ChunkIsMissing` |
| creating the file | `CreateFile`, `FileCannotBeCreated` (nothing, or the zeros of some chunks, are left) |
| `pieceSelection` and starting a thread | `StartThread` - least (count, chunk number), any holder |
| the loops over windows, `join` | `WindowIsOut`, `JoinWindow` |
| SHA comparison | `VerifySHA` |
| one `read()` of a chunk; any call that fails on the way to the `write` | `Receive` (intact or damaged); `ChunkFails` |
| `write` at the chunk's offset | `WriteChunk` - writes `BytesWritten(c)` bytes, which may be none |
| `isChunkAvailable[c] = true` | `LoadWord`, `StoreWord` - a `vector<bool>` element is a bit in a word that other threads also load and store |

The assignment to an element of the `vector<bool>` is a data race when two
threads share a word: undefined behaviour, modelled by the outcomes that the
build produces, a load, an or and a store.

### Swarm

`Swarm` is about one name of a file, because `files` is keyed by name. Each
client has the thread for its user's commands (`command[x]`), a download with
its chunk threads (`download[x]`, `thread[x]`), its entry of the name
(`files[x]`), and a disk. A chunk on disk is the group whose content it
is, or one of `NotAContent`: `garbage` is anything else, such as half a chunk. The
tracker is `ShareIndex` with the addresses of
clients, which are assumed to differ as in `Tracker`: `WithdrawAll` is what `Tracker` does at logout, leave and exit. A
seeder's thread answers in one step, since it only reads.

The tracker is followed until a connection to it is reset, with its client
(`Dies`) or without (`Disconnected`). Then a session stays that nobody ends, its
client may be gone or come back as another user, and the descriptor goes to the
next client: what follows is in `Tracker`, and here the tracker is `astray`. It goes on and
replies to a download with any list of clients. It may not reply at all
(`ReplyLost`), and each later death may take it along.

| code | action |
|---|---|
| `main`, `exitClient`; a process that is killed or crashes | `Start`, `Exit`, `Killed` - connections to it end (`ConnectionOf`), the map is gone and the disk stays |
| the tracker's end of a connection: `read()` returns 0 until SIGPIPE, or is `< 0` | `TrackerLosesClient` - down (`PeerClosed` of `Tracker`), or astray (`PeerReset`); `Disconnected` |
| login and join_group, leave_group and logout, as far as sharing goes | `Enter`, `Leave` |
| upload_file: the entry, then the tracker | `UploadStarts`, `UploadEnds` |
| download_file: the tracker enters the client and replies, then `handleDownload` | `DownloadStarts`, `ReplyLost`, `HandleDownload` - `insert` leaves an older entry alone |
| `get_chunk_info` | `Connect`, `Unreachable`, `Answer` (all, or what one `read()` returns, with a last number that may be cut off), `CutOff` (no answer) |
| "Entire file is not available" and the other early returns | `ChunkIsMissing`, `CannotCreateFile`, `CannotWriteZeros`; `GivesUp` takes neither entry nor share back |
| creating the file, threads | `CreateFile` (truncates), `StartThreads` (`WriteZeros`, which may leave chunks empty; one window) |
| `give_chunk` and the `read()` of a chunk thread | `Receive` - any of `Answers`, or a part of it, which is garbage |
| any call of a chunk thread that fails, before or after the `read()` | `ChunkFails` |
| `write` at the chunk's offset, in the file at the path of the command | `WriteChunk` - all, a part, or nothing, as for the last chunk of a multiple of `CHUNK_SIZE` |
| `isChunkAvailable[c] = true`, in the entry | `LoadWord`, `StoreWord` - flags that other threads have set in between may be lost |
| SHA comparison | `VerifySHA` - the file at the path of the command, the SHA of the entry |

Three history variables say when the properties about contents hold. `again`:
some client has put the name into its map a second time since the beginning.
`files.insert` keeps the first entry, so that then paths, digests and
flags of different files may be combined; `swarm_integrity` shows it.
`Undisturbed` is the case without that and without a reset. `damaged`
holds the chunks of which some `read()` or `write()`, at any client, did only a
part, or whose number was what was left of one that was cut off. `entered` is
the group for which a client used the name first. An upload that the tracker
refuses, a download that is given up, a chunk whose thread fails and a client
that starts again with an empty map are within.

### FileBytes

`FileBytes` follows one file from `upload_file` to the end of a download. A
byte is one of a text, NUL, or `Error`, which stands for the word
`SeederSideError:` with spaces around it. Sizes are ints of any width.

| code | definition |
|---|---|
| `giveFileSize`: an `off_t` returned as `int` | `giveFileSize`, with `AsInt` |
| `upload_file`: "Error in bytes function" at -1; a vector of negative size throws | `Upload`: phases `refused` and `crashed` |
| the loop that writes zeros | `CreateChunk` - appends `BytesWritten(c)` zeros, none for a last chunk of size 0 |
| `give_chunk`: `lseek`, one `read` into `chunkBuff`, `return chunkBuff` | `ChunkBuff` (what `read` leaves alone is any garbage), `InString` (up to the first NUL) |
| a chunk thread: one `read` into zeros, the refusals, `lseek`, `write` | `Receive`, `Received` (any number of bytes that have arrived), `Refuse`, `ChunkFails`, `WriteChunk` |
| SHA comparison | `VerifySHA`, by the contents |

### Operators with a fault

`Tracker`, `TrackerThreads`, `Download`, `Swarm` and `FileBytes` contain operators that `Next` does not reach, each
right before one that it does reach and with the same parameters. Put in place
of that one it is a mistake somebody could make, and breaks the property that
is there to notice it:

| instead of | take | noticed by |
|---|---|---|
| `LoggedInElsewhere` | `LoggedInElsewhereUnchecked` (no check at login) | `SessionsAgree` |
| `AddressAtLogin` | `AddressNotStored` | `ListedFilesHaveSeeders` and others; `TypeOK` |
| `Exit` | `ExitWithoutLogout` | `SessionsAreOpen` |
| `LeaveGroup` | `LeaveGroupWithFiles` (shares not removed) | `IndexesAgree` |
| `FileLosesLastSeeder` | `FileOutlivesSeeders`, `FileDiesWithFirstSeeder` | `ListedFilesHaveSeeders`, `SharesOutliveOthers` |
| `AddSeeder` | `AddFileWithoutSeeder` (one index of two) | `NeverSegfaults` |
| `FreeToJoin` | `FreeToJoinUnchecked` (stale request) | `GroupsAgree`, `RequestsOutstanding` |
| `MayAccept` | `AnyMemberMayAccept` | `MembershipSpec` |
| `DigestAfterUpload` | `LatestDigest` | `DigestIsStable` |
| `UserFound` | `UserOfSocket` (who is not there yet) | `ThreadsTypeOK` |
| `Unmarked` | `StillMarked` (`isLoggedIn` not reset) | `NobodyIsLockedOut` |
| `EraseRequest` | `EraseRequestOnly` (no participant inserted) | `MembersAreParticipants` |
| `NobodyIsLeft` | `OneIsLeft` (off by one) | `UnsharedFilesAreDropped` |
| `Inserted` | `Assigned` (`map[key] = value` for `insert`) | `FirstCreatorStays`, `DigestIsStable` |
| `Receive` | `ReceiveNothing` | `TypeOK` |
| `ReachesDisk` | `NothingReachesDisk` | `AdvertisedIsWritten` |
| `WindowSize` | `OnlyFullWindows` (no remainder) | `SelectionFindsPiece` |
| `First` | `InFileOrder` | `RarestGoFirst` |
| `Joined` | `NotJoined`, `EveryChunkJoined` | `TransferSpec`, `Terminates` |
| `FetchedLater` | `StillToFetch` (no erase) | `EveryChunkArrives` |
| `FreeToJoin` | `FreeToJoinUnchecked` | `ShareIndexSpec`: who changes groups keeps his shares |
| `Answers` | `ErrorsAreAnswers` (an error is written as content) | `TypeOK` of `Swarm` |
| `EntryAfterAbort` | `ForgottenEntry` (entry dropped, share kept) | `ListedHaveEntries` |
| `NothingAvailable` | `EveryChunkAvailable` (flags set at the start) | `OffersAreGenuine` |
| `Matches` | `NoThreadHasFailed` (the SHA is not compared) | `VerifiedIsShared` |
| `Joined` of `Swarm` | `NotJoined` | `MismatchHasCause` |
| `ConnectionOf` | `ConnectionStays` (a survey that waits for a dead seeder) | `EveryDownloadEnds` |
| `giveFileSize` | `SizeAsOffT` | `TypeOK` of `FileBytes` |
| `BytesWritten` | `SizeOfBuffer` (the whole buffer for the last chunk) | `StaysInPlace` |
| `giveFirstByteNoFromChunkNo` | `NextByteNo` (off by one) | `WhatArrives` |
| `giveTotalChunksOfFile` | `RoundedDown` (no `ceil`) | `TextIsVerified` |

## Runs

| run | specification and bounds | question and answer |
|---|---|---|
| `tracker_shares` | `Spec`; 3 users, 2 groups, 2 files, 3 sockets, 3 clients, 1 password, 1 digest | Is the index of the shares by user (`User.files`, `groupId`) the same relation as the one by group (`ipAndPorts`), is nothing listed that nobody has, does a share outlive what others do, do the shares implement `ShareIndex`? Yes, as long as no connection is reset. |
| `tracker_resets` | `SpecWithResets`; 3 users, 2 groups, 1 file, 2 digests, 2 sockets, 2 clients | Do sessions, memberships, pending requests and digests stay consistent however connections end, and do the groups implement `GroupMembership`? Yes. |
| `tracker_segv` | `SpecWithResets` | Does `removeFilesOfUserFromGroup` continue when an entry is missing, as its comment says? No: it dereferences `end()`. A reset leaves a session with its old address, a client at the same address logs in as another member of the group, both share a file, the first of the two removals takes the only entry, the second finds none. |
| `threads_survive` | `ThreadsSpec`; 2 users, 1 group, 1 file, 2 digests, 2 sockets, 2 clients | What do the commands keep without locks? Nobody is locked out, members are participants, files without a seeder are dropped, accounts, groups and digests belong to whoever came first. |
| `threads_one_group` | `ThreadsSpec`; 2 users, 2 groups, 1 file | Is a user in one group only (README.md:169)? No: two commands that enter him into two groups both see him in none. |
| `threads_lost_share` | `ThreadsSpec`; 2 users, 1 group, 1 file | Does the tracker keep the shares of its clients (README.md:136)? No: of two first uploads of one file that overlap, the second address is lost. |
| `download_faults` | `FairSpec`; 3 chunks, all full so that nothing is written of the last one, windows of 2, words of 2, 2 seeders, every fault | Do the windows keep the promise of `Transfer`, go rarest first, never select from nothing? Is what is offered written, but for a last chunk of size 0? Does every download end, and has then each chunk, if the group holds all of them, a thread that failed, or arrived as it was received? Yes. |
| `download_shareable` | `ReliableSpec` | Is all of an intact download offered to others (README.md:154)? No: an element of the `vector<bool>` is lost between two threads. |
| `swarm` | `Spec`; 3 clients, 2 groups that use the name for different contents, 1 chunk, 1 destination, 3 uploads and downloads, 1 client that has the contents at the start | As long as no connection to the tracker is reset: does whom the tracker lists run and have an entry? As long as, besides, each client puts the name into its map once: is what clients offer, unless it was damaged, and what they verify, what the tracker listed, through two downloads in a row and whoever ends or leaves meanwhile? Does a mismatch come from a failed thread or a partial read or write only? Yes. |
| `swarm_ends` | `FairSpec`; 2 clients, 1 group, 1 chunk, 1 destination, 4 uploads and downloads | Does every download end, whoever ends, whatever fails, and if a tracker that has lost a connection lists clients that are gone, or the client itself? Yes. |
| `swarm_integrity` | `FairSpec`; 2 clients, 4 uploads and downloads | Does the comparison ensure integrity (README.md:154)? No: a client that has the name in its map from another group compares with that SHA, and takes the old file for the listed one. |
| `file_bytes` | `Spec`; every content of up to 6 bytes (text, NUL, `Error`) and texts of up to 32, chunks of 3, ints from -12 to 11 | Where does each byte end up, and which files can arrive whole? Bytes stay in place; a chunk arrives up to its first NUL; a text arrives if nothing is lost, its size fits an int and is no multiple of `CHUNK_SIZE`. |

### Why the bounds are enough

Tracker: two users are needed for any disagreement between two sessions or
memberships, a third to be the admin or a bystander; two groups for being in
two of them; two files for one of them to be dropped while the other stays;
three sockets and clients so that three users are logged in together, two
where one must be reused. One password is enough because a wrong one only
refuses. Two digests where the property is about a digest that changes.
Users, groups, files, sockets and clients are interchangeable, so the runs use
symmetry; they check no liveness.

Threads: two overlapping commands show each race of the code, since each of
them is a check of one thread and a write of another; with two clients a
third command may follow on either connection. One password and one group are
enough for what `threads_survive` asks; the theorems hold for any number of
threads, users, groups and files. The two runs that look for a race between
groups and between uploads use the constraint `OneSessionEach`, which cuts off
the states in which one user has two sessions, so that the counterexample does
not need the race between two logins. `threads_survive` has no constraint.

Download: three chunks make one full window of two and a remainder of one, and
words of two put two chunks of one window in one word and one chunk in
another. Two seeders give
chunks with different numbers of holders. `ChunkSize` is 2; `download_faults` has 6
bytes, so that the last chunk is full, has size 0 for the code and is never
written; `download_shareable` has 5, and a partial last chunk, since with 6
no download would be intact. The constants of the code are 32768, 5 and 64;
the theorems hold for all sizes. `Next` in `Download` has no counter without a bound:
`iteration` stops at the number of windows. Deadlock is not checked there,
because a download ends.

Swarm: three clients make a chain, in which one downloads from one that is
itself downloading, while the first ends; two groups, for two contents of one
name. Three commands are one upload and two downloads, which is what such a
chain takes. `MaxCommands` bounds nothing else: processes start and end and
users enter and leave without a bound. The clients that do not have the
contents at the start are interchangeable, and so are the groups: `swarm` uses
that symmetry, and checks no liveness. One chunk and one destination keep it
within a minute. What is lost is a client that has
some chunks of a file, and the flag of one chunk that another thread's store
takes back: seeders that hold different chunks and the loss in words are in
`Download`, and the theorems about `Swarm` cover both for the five safety
properties, for any number of chunks. Only `EveryDownloadEnds` rests on the single chunk.
It has a run of its own, without symmetry: two clients can ask each other, themselves,
and one that ends; in four commands each of them uploads and downloads, or
downloads twice. Deadlock is not checked, because processes may all have ended with
the tracker. In `swarm_integrity` four
commands are an upload and a download in each of two groups.

FileBytes: chunks of three with up to six bytes give every place of a NUL or an
`Error` in a first, a last and an only chunk, full, partial and empty; texts of
up to 32 bytes with 24 ints pass through positive, negative and -1 sizes and
back to positive ones that are too small. Threads interleave freely. Deadlock
is not checked because a download, or an upload that is refused, ends.

### Fairness

Safety is checked under `Init /\ [][Next]_vars`. `Fairness` of `Download` and of `Swarm` is
weak fairness of the download thread and of its chunk threads (in `Swarm`, of
a client's together): these are
threads of the operating system, no lock is held over a blocking call, and
what they wait for is a `connect`, a `read` from a seeder or a `join`. A
seeder's thread writes exactly one answer and closes the connection, whatever
it read (`handleLeecherRequest`), and if its process ends, the kernel closes
it. What is assumed is that a host does not vanish without closing its
connections: the client sets no timeout. In `Swarm` nothing is assumed about the
commands of users, about processes that end, or about the tracker. The tracker promises nothing that
must eventually happen, each command is a reaction to a client.

## Proofs

`tlapm` checks all of them. The assumptions are those the modules declare:
`NoneIsAbsent` (the value `None` is none of the others) and
`ConstantsAreSound` (sizes are natural numbers, chunks, windows and words are
not empty, there are finitely many seeders), `SwarmAssumption` (kinds of
values are told apart, there is a chunk) and `FileBytesAssumption` (a chunk is
not empty and its size is an int).

**TrackerProofs, part 1** (under `SpecWithResets`). The inductive invariant
`GroupInv` adds two facts to the properties: who is logged in has an account
and an address (`LoggedInAreKnown`; without it an applicant might be no user,
and an upload might register no address) and only an existing group has
requests (`RequestsNeedGroup`; without it, create_group could make a user the
admin of a group he is waiting for). From it: `TypeOK`, `SessionsAgree`,
`GroupsAgree`, `RequestsOutstanding`, `DigestIsStable`, and
`SpecWithResets => MembershipSpec`. The refinement needs `GroupsAgree`: the
code's guard reads `User.groupId`, the abstract one the members of all groups.

**TrackerProofs, part 2** (under `Spec`). `ShareInv` says where the addresses
in the index come from: a session's address is that of the client at the other
end of its open socket (`AddressOfSession`), no two clients have the same
(`PeersDiffer`), only members who are logged in have files (`SharersAreIn`),
each listed address belongs to somebody logged in (`SeedersAreLoggedIn`), and a
file is listed exactly while it has an address (`RecordsHaveSeeders`). Then
users who are logged in are told apart by their addresses (`AddressesDiffer`),
so a removal takes out exactly one user (`RemoveFilesOfOneUser`) and always
finds his entries (`EntriesAreFound`). From it: `SessionsAreOpen`,
`IndexesAgree`, `NeverSegfaults`, `ListedFilesHaveSeeders`,
`SharesOutliveOthers`, and `Spec => ShareIndexSpec`. The refinement needs all of
it: that an upload or download finds no share of that address elsewhere
(`SharesInOneGroup`), and that a removal, which walks over `User.files`, is a
withdrawal of exactly that address from one group (`RemovalWithdraws`).

**TrackerThreadsProofs** (under `ThreadsSpec`: any number of threads, every
interleaving). The inductive invariant `TInv` adds to `ThreadsTypeOK` what the
locals of a thread hold at each of its steps (`Fits`): a login in progress is
on a socket without a session, a command in progress is on one with a session,
`then` is a step that the caller of `removeFilesOfUserFromGroup` or of the
shared steps goes on with, and an iterator is invalid only while it may be
used. On top of it each of `NobodyIsLockedOut`, `MembersAreParticipants` and
`UnsharedFilesAreDropped` is inductive: each names the step of the one thread
that may hold the exception. Its proof takes the steps of the thread that moves
one by one (`LockStep`, `MembersStep`, `DropStep`); a frame lemma
(`SessionsFrame`, `MembersFrame`, `DropFrame`, `DropEntryFrame`) covers those
that do not touch the maps in question and says that the other threads stay
where they are. `FirstCreatorStays` and `DigestIsStable` follow from which steps
write to accounts, admins and digests at all (`WritersOfKeys`).

**TrackerSerialProofs** connects the two modules about the tracker: whenever
commands do not overlap, the threads implement `Tracker`. `SerialSpec` is
`ThreadsSpec` with `[]OneAtATime` and a history variable, `before`, which holds
the maps as they were when the command in progress began; it observes the
threads and restricts nothing. `Atomic` is `Tracker`, with its theorems,
over the fields of `before`, so that a command takes effect at its last step, and
connections, which come and go beside a command, at once. `SerialInv` says for
each step of each command what the thread has read and written so far
(`LoginSoFar`, `GroupSoFar`, `ShareSoFar`, `RemovalSoFar`), in terms of `before`;
in the loop of a removal, for any number of files, which of the user's files
have lost his address and which of those their entry (`Removed`, `LoopGoesOn`). It
is inductive together with `TInv` and the invariant of `Tracker`: that the loop
finds every entry (`EntriesAreThere`) is `EntriesAreFound` of the state before.
From it: `SerialSpec => Atomic!Spec`, a refinement of many steps by one
(`LoopIsRemoval`: the loop has done what `RemoveFilesOfUserFromGroup` does), and then
`SharesAreMaintained`, `OnlyOneGroup` and that nothing crashes but for a client
that has gone. `threads_one_group` and `threads_lost_share` find the first two
violated under `ThreadsSpec`: the overlaps are what does it, and for these two a
lock around each command would be enough. `SerialSpec` has no run: TLC would need
a next-state relation of its own for it, and shows less than the theorems.

**DownloadProofs**. `WindowInv` counts: what is left to fetch is what this
window still starts plus what the later ones take, and the running threads and
the unstarted ones of a window fit into it (`Counting`). It rests on
arithmetic of `\div` and `%` (`LaterNumbers`). From it: `TypeOK`,
`SelectionFindsPiece` and `Spec => TransferSpec`. `RarestGoFirst` needs that the
numbers of holders are fixed after the survey. `AdvertisedIsWritten` is proved
for every size, with the invariant that the
words loaded by threads contain only elements set before (`FlagsFollow`). It says
nothing of the last chunk of a file whose size is a multiple of the chunk size, of which
nothing is ever written although it is flagged.

Five more results say how a download goes on and how it ends.
`DownloadStepsRunOut`: `StepsLeft` counts the steps that are left in the windows, the
survey and the threads (at first `2 * TotalIterations + 4 +` seeders `+ 5 *`
chunks) and every step, faults included, leaves fewer. `DownloadSelectionIsDetermined`:
whenever a thread is to be started there is exactly one chunk that
`pieceSelection` may take, and somebody to ask for it; it needs that every chunk had
a holder when the file was created (`HeldOnceCreated`). `DownloadReliableOutcome`, under
`ReliableSpec`: `NothingFails` is the invariant that no thread has ended without
its chunk, so that a download ends either with a chunk missing among the seeders or
with every chunk delivered; `DownloadCompleteUnlessMultiple` reads off that the
file is then whole exactly if `Bytes % ChunkSize # 0`, for files that are not
empty. `DownloadEveryChunkHasArrived`, under `Spec` with every fault: when a
download is over, each chunk has a thread that failed on it or is in its place as
received (`ChunksInPlace`), because the windows take every chunk once and the last
`join` waits for the last thread.

Two are about the loss that `download_shareable` shows. `DownloadLostToNeighbours`:
whatever happens, of the chunks of one word that were written and whose threads
have ended one is offered (`FlagsOfWords`), so a lost element is lost to a neighbour.
`DownloadShareableWithoutSharing`: with `WordSize = 1 \/ MaxThreads = 1`, which is
not the code but the two ways to mend it, `DownloadsAreShareable` holds
(`FlagsKept`): the race on words is the only cause of the loss.

**SwarmProofs** (any number of clients, groups, chunks and destinations). The
inductive invariant `SInv` adds two facts to `TypeOK`: what a download holds at
each of its phases (`Fits`: it has a destination and an entry, a chunk thread
that asks has a seeder, and one that writes has something to write), and that
the index lists members of the group only (`ListedAreMembers`, which is why
one `Withdraw` takes out all a client shares). From it: `TypeOK` and, as long
as no connection to the tracker has been reset, `ListedHaveEntries`.

**SwarmContentProofs**. While no client has put the name into its map twice and no
connection to the tracker has been reset (`Undisturbed`),
`ContentsAreTrue` says of every place where a content or a digest is kept, that
it is the one of the group that the client entered the name for first, or is of
a chunk that is `damaged`: the
index, the entry, the reply that a command waits for, what `give_chunk` would answer, the
download, each of its threads and its outcome. It is one invariant because each place is filled from
another, possibly of another client. A flag that is lost takes nothing away from it: who
has said once that he has a chunk can be relied on for it (`Serves`), also when
the flag is gone or he has ended. From it: `OffersAreGenuine`,
`VerifiedIsShared`, which needs no exception for damaged chunks because the SHA has
been compared, and `MismatchHasCause`.

**SwarmProgressProofs**. `Swarm` uses `ShareIndex` for the tracker, and an action
of an abstract module has guards. `SwarmCommandsAreNotRefused` shows that the one
which the code does not test is true whenever a command comes, so no
behaviour of the clients is lost by it; `SwarmUsesShareIndex` that all
they do, deaths that take the tracker along included, is a behaviour of `ShareIndex`. Both
hold until a connection to the tracker is reset, after which the index is not followed.
`SwarmNobodyWaitsForTheDead`: a survey waits only for a client that runs, because
whoever ends takes its connections along (`WhoEnds`, `OthersWait`). From it
`SwarmStepsRunOut`, for finitely many clients and chunks (`FiniteSwarm`; a process has
finitely many peers): `StepsLeft(x)` counts what is left of the survey and of
the chunk threads of `x`, each step of that download or of a thread of its leaves fewer, and
no step of others or of the user's commands leaves more. A new download
of `x` begins only when the last one is over.

**FileBytesProofs** (every file, `CHUNK_SIZE` and width of an int). It starts with
arithmetic: a size as an `int` is never larger than the size (`AsIntIs`),
chunks are within it, at offsets that do not overflow (`ChunkPlaces`), do not
overlap (`ChunksApart`) and leave no gap (`Covered`). The inductive
invariant `FInv` says how far the file of zeros has grown (`FileGrows`) and, per
chunk, what is in the buffer and on disk at each step of its thread
(`ChunkIsTrue`). From it: `TypeOK`, `StaysInPlace`, `WhatArrives`,
`TextIsVerified`.

Only model-checked: the liveness properties `Terminates`, `EveryChunkArrives` and
`EveryDownloadEnds`. They rest on fairness and on `ENABLED`, which the prover does
not handle. Their safety halves are proved: what there is to do only gets less
(`DownloadStepsRunOut`, `SwarmStepsRunOut`), what ends has ended as it should
(`DownloadEveryChunkHasArrived`, `DownloadReliableOutcome`), and what a step waits for is there
(`DownloadSelectionIsDetermined`, `SwarmNobodyWaitsForTheDead`). What is left to
TLC is that a download which is not over has a step that can be taken.

## Disagreements between code and documentation

The five runs marked `violation` in `PROJECT.json` each show one. Others can be
read off the models without a run:

- Logout "stops sharing all files and remove user entry from group"
  (README.md:159): `Logout` leaves `groupId` and `participants` alone.
- After a mismatch the thread prints "Removing the file", but the `unlink` is
  commented out (handlers.cpp:283-287): `VerifySHA` changes no file and no flag, and the
  client goes on to offer the file.
- "Create file with all null chars of totalSize" (comment, handlers.cpp:213): by
  `WhatArrives` a file whose size is a multiple of `CHUNK_SIZE` stays one chunk
  short, so that it never matches.
- By `WhatArrives`, what follows a NUL in a chunk does not arrive: a file that
  is not a text is hardly ever verified.
- The README speaks of SHA1 while `findSHA` computes SHA-256, which no property
  here depends on.

## What is not modelled

- In `TrackerThreads`: connections that are reset (they are in `Tracker`), and
  what a data race may do to memory beyond ending the process. The process may
  end at any moment at which two commands are in progress.
- In `Download` a seeder is an environment: it answers any set of chunks and
  intact or damaged content. What clients really answer each other is in
  `Swarm`, which in turn has one window for all chunks of a file and one word for all flags.
- In `Swarm`: the index after a connection to the tracker has been reset (that is
  `Tracker`'s `SpecWithResets`), two downloads of the name by one client at the same time, and
  what a data race on `files` may do beyond ending the process. The same name for
  files with different numbers of chunks.
- In `FileBytes`: a seeder that has only a part of the file (that is `Swarm`'s), a part of the
  word `SeederSideError:` in one read, and sizes from -1 to -63
  chunks, for which libstdc++ may construct a vector that breaks a little later.
- A seeder whose file of the same name has more chunks than the tracker's size
  says. README, assumption 1, excludes it; the code would write behind
  `chunkStatusOfOthers`.
- The wire format: tokens, buffers of 1024 bytes for replies, a command to the
  tracker or a reply of it that arrives in two reads.
- The digests themselves (`findSHA`): they are equal exactly if the files are.
- Arguments, log files, output.

## Plan

Done: `Tracker` with `GroupMembership` and `ShareIndex`, `TrackerThreads`,
`Download` with `Transfer`, `Swarm`, `FileBytes`, and the theorems above. What
would come next:

1. For `Swarm`, the weaker index that `TrackerThreads` keeps when uploads overlap,
   now that `TrackerSerialProofs` has the case in which they do not.
2. `Download` as the detailed download of `Swarm`: a refinement in which
   windows and words of the `vector<bool>` disappear.
3. Entries of different names in one map, for what a crash in the middle of an
   `insert` does to the other downloads.
