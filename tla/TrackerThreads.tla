--------------------------- MODULE TrackerThreads ---------------------------
(***************************************************************************)
(* The tracker of module Tracker with its threads: one per connection, no  *)
(* lock around any of the three maps.  A command is a sequence of steps,   *)
(* each of them one access to something another thread may change, and     *)
(* the steps of different threads interleave.                              *)
(*                                                                         *)
(* A step takes along the accesses next to it that commute with those of   *)
(* the other threads: socketToUser[s] is accessed by the thread of s only; *)
(* users and groups are never erased and their passwords and admins never  *)
(* change, so that what find() found stays true.  A refused command goes   *)
(* back to "idle"; if it is refused at its first access it is no step.     *)
(*                                                                         *)
(* Two commands in progress may touch one container at once, which is      *)
(* undefined: the process may end (DataRace), or each access takes effect  *)
(* at one moment.  An iterator to an erased entry may end the process, or  *)
(* the access has no effect (UseOfErased).                                 *)
(***************************************************************************)
EXTENDS Tracker

\* Where the thread of each socket is, and the values of its locals:
\*   at, then     the access that comes next; the one after it, where commands
\*                share steps
\*   user         whom the command is about, if that is not the caller
\*   group, file, arg   the arguments, and groupId in a removal
\*   names, addr  User.files and "ip:port" as copied from the caller's User
\*   valid        whether the file entry its iterators point to is still there
VARIABLE task

threadVars == <<vars, task>>

NoTask == [at |-> "idle", then |-> "idle", user |-> None, group |-> None,
           file |-> None, arg |-> None, names |-> {}, addr |-> None, valid |-> TRUE]

ThreadsInit ==
  /\ Init
  /\ task = [s \in Sockets |-> NoTask]

At(s, step) == task[s].at = step
Idle(s) == At(s, "idle")

\* The thread of s goes on with t.
Go(s, t) == task' = [task EXCEPT ![s] = t]
GoTo(s, step) == Go(s, [task[s] EXCEPT !.at = step])
Return(s) == Go(s, NoTask)

\* The thread of s has read something and found nothing against it.
ReadAndGo(s, t) == Go(s, t) /\ UNCHANGED vars

\* map[key] = value, which replaces an older value.
Assigned(map, key, value) == [map EXCEPT ![key] = value]

\* unordered_map::insert leaves the value of an existing key alone.
Inserted(map, key, value) ==
  IF map[key] = None THEN [map EXCEPT ![key] = value] ELSE map

----------------------------------------------------------------------------
(* create_user and login.                                                  *)

CreateUserStarts(s, u, p) ==
  /\ Idle(s) /\ peer[s] # None
  /\ password[u] = None
  /\ ReadAndGo(s, [NoTask EXCEPT !.at = "insert_user", !.user = u, !.arg = p])

InsertUser(s) ==
  /\ At(s, "insert_user")
  /\ password' = Inserted(password, task[s].user, task[s].arg)
  /\ Return(s)
  /\ UNCHANGED <<sessionVars, memberVars, shareVars, peer, status>>

LoginStarts(s, u, p) ==
  /\ Idle(s) /\ peer[s] # None
  /\ socketToUser[s] = None
  /\ password[u] = p
  /\ ~LoggedInElsewhere(u)
  /\ ReadAndGo(s, [NoTask EXCEPT !.at = "set_logged_in", !.user = u])

UserOfSocket(s) == User(s)

\* The user whom login() has found, and not yet entered into socketToUser.
UserFound(s) == task[s].user

SetLoggedIn(s) ==
  /\ At(s, "set_logged_in")
  /\ isLoggedIn' = isLoggedIn \cup {UserFound(s)}
  /\ GoTo(s, "insert_session")
  /\ UNCHANGED <<accountVars, ipAndPort, socketToUser, memberVars, shareVars, peer, status>>

InsertSession(s) ==
  /\ At(s, "insert_session")
  /\ ipAndPort' = [ipAndPort EXCEPT ![task[s].user] = AddressAtLogin(s)]
  /\ socketToUser' = [socketToUser EXCEPT ![s] = task[s].user]
  /\ Return(s)
  /\ UNCHANGED <<accountVars, isLoggedIn, memberVars, shareVars, peer, status>>

----------------------------------------------------------------------------
(* removeFilesOfUserFromGroup.  The caller goes on with task[s].then.      *)

\* User tempUser = registeredUsers.at(userId).
CopyUser(s) ==
  /\ At(s, "copy_user")
  /\ ReadAndGo(s, [task[s] EXCEPT !.at = "find_entry", !.names = files[User(s)],
                                  !.addr = ipAndPort[User(s)],
                                  !.group = groupId[User(s)]])

\* groups.at(""), with "" no group, throws, and nobody catches.
NoGroupToClean(s) ==
  /\ At(s, "find_entry") /\ task[s].names # {}
  /\ task[s].group = None

\* The entry of f with the copied address in it.
HasEntry(s, f) ==
  /\ SHA[task[s].group][f] # None
  /\ task[s].addr \in ipAndPorts[task[s].group][f]

FindEntry(s, f) ==
  /\ At(s, "find_entry") /\ f \in task[s].names
  /\ task[s].group # None
  /\ HasEntry(s, f)
  /\ ReadAndGo(s, [task[s] EXCEPT !.at = "erase_address", !.file = f])

\* find() returns end(), which is dereferenced or erased.
EntryIsMissing(s) ==
  /\ At(s, "find_entry")
  /\ task[s].group # None
  /\ \E f \in task[s].names : ~HasEntry(s, f)

\* ipPortIt still points to something.  (An address that was erased and entered
\* again counts as the one that was found.)
AddressIsThere(s) == task[s].addr \in ipAndPorts[task[s].group][task[s].file]

EraseAddress(s) ==
  LET t == task[s]
  IN  /\ At(s, "erase_address") /\ t.valid
      /\ AddressIsThere(s)
      /\ ipAndPorts' = [ipAndPorts EXCEPT ![t.group][t.file] = @ \ {t.addr}]
      /\ GoTo(s, "check_size")
      /\ UNCHANGED <<accountVars, sessionVars, memberVars, files, SHA, peer, status>>

NextFile(t) == [t EXCEPT !.at = "find_entry", !.names = @ \ {t.file},
                         !.file = None, !.valid = TRUE]

OneIsLeft(s) == \E a \in Addrs : ipAndPorts[task[s].group][task[s].file] = {a}

\* ipAndPorts.size() == 0.
NobodyIsLeft(s) == ipAndPorts[task[s].group][task[s].file] = {}

CheckSize(s) ==
  /\ At(s, "check_size") /\ task[s].valid
  /\ ReadAndGo(s, IF NobodyIsLeft(s) THEN [task[s] EXCEPT !.at = "drop_entry"]
                                     ELSE NextFile(task[s]))

\* The threads with an iterator to the entry that the one of s points to.
PointTo(s) ==
  {r \in Sockets \ {s} :
     /\ task[r].at \in {"erase_address", "check_size", "drop_entry", "add_address"}
     /\ task[r].group = task[s].group /\ task[r].file = task[s].file}

\* The entry goes, with whoever was added to it since.
DropEntry(s) ==
  LET t == task[s]
  IN  /\ At(s, "drop_entry") /\ t.valid
      /\ SHA' = [SHA EXCEPT ![t.group][t.file] = None]
      /\ ipAndPorts' = [ipAndPorts EXCEPT ![t.group][t.file] = {}]
      /\ task' = [r \in Sockets |->
                    IF r = s THEN NextFile(t)
                    ELSE IF r \in PointTo(s) THEN [task[r] EXCEPT !.valid = FALSE]
                    ELSE task[r]]
      /\ UNCHANGED <<accountVars, sessionVars, memberVars, files, peer, status>>

ClearFiles(s) ==
  /\ At(s, "find_entry") /\ task[s].names = {}
  /\ files' = [files EXCEPT ![User(s)] = {}]
  /\ Go(s, [NoTask EXCEPT !.at = task[s].then])
  /\ UNCHANGED <<accountVars, sessionVars, memberVars, SHA, ipAndPorts, peer, status>>

----------------------------------------------------------------------------
(* logout, and exit: logout, then close.                                   *)

LogoutStarts(s) ==
  /\ Idle(s) /\ HasSession(s)
  /\ ReadAndGo(s, IF groupId[User(s)] # None
                  THEN [NoTask EXCEPT !.at = "copy_user", !.then = "set_logged_out"]
                  ELSE [NoTask EXCEPT !.at = "set_logged_out"])

StillMarked(s) == isLoggedIn

Unmarked(s) == isLoggedIn \ {User(s)}

SetLoggedOut(s) ==
  /\ At(s, "set_logged_out")
  /\ isLoggedIn' = Unmarked(s)
  /\ GoTo(s, "erase_session")
  /\ UNCHANGED <<accountVars, ipAndPort, socketToUser, memberVars, shareVars, peer, status>>

EraseSession(s) ==
  /\ At(s, "erase_session")
  /\ ipAndPort' = [ipAndPort EXCEPT ![User(s)] = None]
  /\ socketToUser' = [socketToUser EXCEPT ![s] = None]
  /\ Return(s)
  /\ UNCHANGED <<accountVars, isLoggedIn, memberVars, shareVars, peer, status>>

Close(s) ==
  /\ Idle(s) /\ peer[s] # None
  /\ User(s) = None
  /\ peer' = [peer EXCEPT ![s] = None]
  /\ UNCHANGED <<accountVars, sessionVars, memberVars, shareVars, status, task>>

----------------------------------------------------------------------------
(* Groups.                                                                 *)

CreateGroupStarts(s, g) ==
  /\ Idle(s) /\ HasSession(s)
  /\ adminId[g] = None
  /\ ReadAndGo(s, [NoTask EXCEPT !.at = "insert_group", !.group = g])

InsertGroup(s) ==
  /\ At(s, "insert_group")
  /\ adminId' = Inserted(adminId, task[s].group, User(s))
  /\ Return(s)
  /\ UNCHANGED <<accountVars, sessionVars, groupId, pendingRequests, participants,
                 shareVars, peer, status>>

JoinStarts(s, g) ==
  /\ Idle(s) /\ HasSession(s)
  /\ FreeToJoin(User(s))
  /\ adminId[g] # None
  /\ ReadAndGo(s, IF adminId[g] = User(s)
                  THEN [NoTask EXCEPT !.at = "set_group", !.then = "insert_participant",
                                      !.user = User(s), !.group = g]
                  ELSE [NoTask EXCEPT !.at = "insert_request", !.group = g])

InsertRequest(s) ==
  /\ At(s, "insert_request")
  /\ pendingRequests' = [pendingRequests EXCEPT ![task[s].group] = @ \cup {User(s)}]
  /\ Return(s)
  /\ UNCHANGED <<accountVars, sessionVars, groupId, adminId, participants,
                 shareVars, peer, status>>

\* accept_request reads the caller's group, then the requests, then the group
\* of the applicant.
AcceptStarts(s, g, v) ==
  /\ Idle(s) /\ MayAccept(s, g)
  /\ ReadAndGo(s, [NoTask EXCEPT !.at = "find_request", !.then = "erase_request",
                                 !.user = v, !.group = g])

FindRequest(s) ==
  /\ At(s, "find_request")
  /\ ReadAndGo(s, IF task[s].user \in pendingRequests[task[s].group]
                  THEN [task[s] EXCEPT !.at = "check_free"] ELSE NoTask)

CheckFree(s) ==
  /\ At(s, "check_free")
  /\ ReadAndGo(s, IF FreeToJoin(task[s].user)
                  THEN [task[s] EXCEPT !.at = "set_group"] ELSE NoTask)

SetGroup(s) ==
  /\ At(s, "set_group")
  /\ groupId' = [groupId EXCEPT ![task[s].user] = task[s].group]
  /\ GoTo(s, task[s].then)
  /\ UNCHANGED <<accountVars, sessionVars, adminId, pendingRequests, participants,
                 shareVars, peer, status>>

EraseRequestOnly(s) ==
  /\ At(s, "erase_request")
  /\ pendingRequests' = [pendingRequests EXCEPT ![task[s].group] = @ \ {task[s].user}]
  /\ Return(s)
  /\ UNCHANGED <<accountVars, sessionVars, groupId, adminId, participants,
                 shareVars, peer, status>>

EraseRequest(s) ==
  /\ At(s, "erase_request")
  /\ pendingRequests' = [pendingRequests EXCEPT ![task[s].group] = @ \ {task[s].user}]
  /\ GoTo(s, "insert_participant")
  /\ UNCHANGED <<accountVars, sessionVars, groupId, adminId, participants,
                 shareVars, peer, status>>

InsertParticipant(s) ==
  /\ At(s, "insert_participant")
  /\ participants' = [participants EXCEPT ![task[s].group] = @ \cup {task[s].user}]
  /\ Return(s)
  /\ UNCHANGED <<accountVars, sessionVars, groupId, adminId, pendingRequests,
                 shareVars, peer, status>>

LeaveStarts(s, g) ==
  /\ Idle(s) /\ InGroup(s, g)
  /\ ReadAndGo(s, [NoTask EXCEPT !.at = "erase_participant", !.group = g])

EraseParticipant(s) ==
  /\ At(s, "erase_participant")
  /\ participants' = [participants EXCEPT ![task[s].group] = @ \ {User(s)}]
  /\ Go(s, [NoTask EXCEPT !.at = "copy_user", !.then = "clear_group"])
  /\ UNCHANGED <<accountVars, sessionVars, groupId, adminId, pendingRequests,
                 shareVars, peer, status>>

ClearGroup(s) ==
  /\ At(s, "clear_group")
  /\ groupId' = [groupId EXCEPT ![User(s)] = None]
  /\ Return(s)
  /\ UNCHANGED <<accountVars, sessionVars, adminId, pendingRequests, participants,
                 shareVars, peer, status>>

----------------------------------------------------------------------------
(* upload_file and download_file.                                          *)

UploadStarts(s, g, f, d) ==
  /\ Idle(s) /\ InGroup(s, g)
  /\ ReadAndGo(s, [NoTask EXCEPT !.at = "copy_address", !.then = "find_file",
                                 !.group = g, !.file = f, !.arg = d])

DownloadStarts(s, g, f) ==
  /\ Idle(s) /\ InGroup(s, g)
  /\ ReadAndGo(s, [NoTask EXCEPT !.at = "copy_file", !.group = g, !.file = f])

\* The reply, or "File not exist".
CopyFile(s) ==
  /\ At(s, "copy_file")
  /\ ReadAndGo(s, IF SHA[task[s].group][task[s].file] # None
                  THEN [task[s] EXCEPT !.at = "copy_address", !.then = "find_again"]
                  ELSE NoTask)

CopyAddress(s) ==
  /\ At(s, "copy_address")
  /\ ReadAndGo(s, [task[s] EXCEPT !.at = task[s].then, !.addr = ipAndPort[User(s)]])

FindFile(s) ==
  /\ At(s, "find_file")
  /\ ReadAndGo(s, [task[s] EXCEPT !.at =
       IF SHA[task[s].group][task[s].file] = None THEN "insert_file" ELSE "add_address"])

\* A new File with one address; neither counts if the key is there by now.
InsertFile(s) ==
  LET t == task[s]
  IN  /\ At(s, "insert_file")
      /\ SHA' = [SHA EXCEPT ![t.group] = Inserted(@, t.file, t.arg)]
      /\ ipAndPorts' = IF SHA[t.group][t.file] = None
                       THEN [ipAndPorts EXCEPT ![t.group][t.file] = {t.addr}]
                       ELSE ipAndPorts
      /\ GoTo(s, "add_file")
      /\ UNCHANGED <<accountVars, sessionVars, memberVars, files, peer, status>>

\* download_file looks the file up again and does not compare with end().
FindAgain(s) ==
  /\ At(s, "find_again")
  /\ SHA[task[s].group][task[s].file] # None
  /\ ReadAndGo(s, [task[s] EXCEPT !.at = "add_address"])

FileIsGone(s) ==
  /\ At(s, "find_again")
  /\ SHA[task[s].group][task[s].file] = None

AddAddress(s) ==
  LET t == task[s]
  IN  /\ At(s, "add_address") /\ t.valid
      /\ ipAndPorts' = [ipAndPorts EXCEPT ![t.group][t.file] = @ \cup {t.addr}]
      /\ GoTo(s, "add_file")
      /\ UNCHANGED <<accountVars, sessionVars, memberVars, files, SHA, peer, status>>

AddFile(s) ==
  /\ At(s, "add_file")
  /\ files' = [files EXCEPT ![User(s)] = @ \cup {task[s].file}]
  /\ Return(s)
  /\ UNCHANGED <<accountVars, sessionVars, memberVars, SHA, ipAndPorts, peer, status>>

----------------------------------------------------------------------------
(* The end of the process, and what is undefined.                          *)

AllThreadsEnd(how) ==
  /\ ProcessEnds(how)
  /\ task' = [s \in Sockets |-> NoTask]

HoldsErased(s) ==
  \/ ~task[s].valid
  \/ At(s, "erase_address") /\ ~AddressIsThere(s)

\* An access through an iterator to something erased, and how the thread goes on
\* if nothing happens.
UseOfErased(s) ==
  LET t == task[s]
  IN  \/ /\ ~t.valid /\ At(s, "add_address")
         /\ ReadAndGo(s, [t EXCEPT !.at = "add_file", !.valid = TRUE])
      \/ /\ ~t.valid /\ ~At(s, "add_address")
         /\ ReadAndGo(s, NextFile(t))
      \/ /\ t.valid /\ At(s, "erase_address") /\ ~AddressIsThere(s)
         /\ ReadAndGo(s, [t EXCEPT !.at = "check_size"])

\* Each command writes to a map, or iterates over all of them to print them,
\* which the other one may be doing at the same time.
DataRace(s, t) ==
  /\ s # t /\ ~Idle(s) /\ ~Idle(t)
  /\ AllThreadsEnd("segv")

Dies(s) ==
  \/ NoGroupToClean(s) /\ AllThreadsEnd("abort")
  \/ EntryIsMissing(s) /\ AllThreadsEnd("segv")
  \/ FileIsGone(s) /\ AllThreadsEnd("segv")
  \/ HoldsErased(s) /\ AllThreadsEnd("segv")
  \/ Idle(s) /\ peer[s] # None /\ AllThreadsEnd("sigpipe")

----------------------------------------------------------------------------
CommandStarts(s) ==
  \/ \E u \in Users, p \in Passwords : CreateUserStarts(s, u, p) \/ LoginStarts(s, u, p)
  \/ LogoutStarts(s)
  \/ \E g \in GroupIds :
       \/ CreateGroupStarts(s, g)
       \/ JoinStarts(s, g)
       \/ LeaveStarts(s, g)
       \/ \E v \in Users : AcceptStarts(s, g, v)
       \/ \E f \in FileNames, d \in Digests : UploadStarts(s, g, f, d)
       \/ \E f \in FileNames : DownloadStarts(s, g, f)

AccountStep(s) == InsertUser(s) \/ SetLoggedIn(s) \/ InsertSession(s)
                  \/ SetLoggedOut(s) \/ EraseSession(s)
GroupStep(s) == InsertGroup(s) \/ InsertRequest(s) \/ FindRequest(s) \/ CheckFree(s)
                \/ SetGroup(s) \/ EraseRequest(s) \/ InsertParticipant(s)
                \/ EraseParticipant(s) \/ ClearGroup(s)
RemovalStep(s) == CopyUser(s) \/ (\E f \in FileNames : FindEntry(s, f)) \/ EraseAddress(s)
                  \/ CheckSize(s) \/ DropEntry(s) \/ ClearFiles(s)
ShareStep(s) == CopyFile(s) \/ CopyAddress(s) \/ FindFile(s) \/ InsertFile(s)
                \/ FindAgain(s) \/ AddAddress(s) \/ AddFile(s)

Thread(s) ==
  \/ CommandStarts(s) \/ Close(s)
  \/ AccountStep(s) \/ GroupStep(s) \/ RemovalStep(s) \/ ShareStep(s)
  \/ UseOfErased(s) \/ Dies(s)

MainThread ==
  \/ \E s \in Sockets, a \in Addrs : Accept(s, a) /\ UNCHANGED task
  \/ AllThreadsEnd("quit")

ThreadsNext ==
  \/ /\ status = "running"
     /\ MainThread \/ (\E s \in Sockets : Thread(s)) \/ (\E s, t \in Sockets : DataRace(s, t))
  \/ Restart /\ UNCHANGED task

ThreadsSpec == ThreadsInit /\ [][ThreadsNext]_threadVars

----------------------------------------------------------------------------
(* What survives the interleaving.                                         *)

RemovalSteps == {"copy_user", "find_entry", "erase_address", "check_size", "drop_entry"}
AddSteps == {"copy_file", "copy_address", "find_file", "insert_file", "find_again",
             "add_address", "add_file"}
AdmitSteps == {"find_request", "check_free", "set_group", "erase_request", "insert_participant"}
SessionSteps == {"set_logged_out", "erase_session"}
UserSteps == {"insert_user", "set_logged_in", "insert_session"}
GroupSteps == {"insert_group", "insert_request", "erase_participant"}
Steps == {"idle", "clear_group"} \cup RemovalSteps \cup AddSteps \cup AdmitSteps
         \cup SessionSteps \cup UserSteps \cup GroupSteps

Tasks == [at : Steps,
          then : {"idle", "set_logged_out", "clear_group", "erase_request",
                  "insert_participant", "find_file", "find_again"},
          user : Optional(Users), group : Optional(GroupIds), file : Optional(FileNames),
          arg : Optional(Passwords \cup Digests), names : SUBSET FileNames,
          addr : Optional(Addrs), valid : BOOLEAN]

\* An address may be the empty one, of a user whose other session has ended.
ThreadsTypeOK ==
  /\ password \in [Users -> Optional(Passwords)]
  /\ isLoggedIn \in SUBSET Users
  /\ ipAndPort \in [Users -> Optional(Addrs)]
  /\ groupId \in [Users -> Optional(GroupIds)]
  /\ files \in [Users -> SUBSET FileNames]
  /\ socketToUser \in [Sockets -> Optional(Users)]
  /\ adminId \in [GroupIds -> Optional(Users)]
  /\ pendingRequests \in [GroupIds -> SUBSET Users]
  /\ participants \in [GroupIds -> SUBSET Users]
  /\ SHA \in [GroupIds -> [FileNames -> Optional(Digests)]]
  /\ ipAndPorts \in [GroupIds -> [FileNames -> SUBSET Optional(Addrs)]]
  /\ peer \in [Sockets -> Optional(Addrs)]
  /\ status \in {"running", "quit", "sigpipe", "segv", "abort"}
  /\ task \in [Sockets -> Tasks]

\* A login is about to be entered into socketToUser.
IsLoggingIn(s, u) == At(s, "insert_session") /\ task[s].user = u

\* Whoever is marked as logged in, and refused everywhere else, has a session
\* in which he can log out, or is just getting one.
NobodyIsLockedOut ==
  \A u \in isLoggedIn : \E s \in Sockets :
    IsLoggingIn(s, u) \/ (User(s) = u /\ ~At(s, "erase_session"))

IsEntering(s, u, g) ==
  /\ task[s].at \in {"erase_request", "insert_participant"}
  /\ task[s].user = u /\ task[s].group = g

IsLeaving(s, u) == User(s) = u /\ "clear_group" \in {task[s].at, task[s].then}

\* Who is in a group is among its participants, except while he is being
\* entered or is leaving, however the commands of members and admins overlap.
\* (The other direction does not survive.)
MembersAreParticipants ==
  \A u \in Users, g \in GroupIds :
    groupId[u] = g =>
      \/ u \in participants[g]
      \/ \E s \in Sockets : IsEntering(s, u, g) \/ IsLeaving(s, u)

\* The thread of s has taken an address out of f and not yet gone on.
IsDropping(s, g, f) ==
  /\ task[s].at \in {"check_size", "drop_entry"} /\ task[s].valid
  /\ task[s].group = g /\ task[s].file = f

\* A file that nobody shares is not listed, except while the thread that took
\* the last address out is at it: removals that overlap do not both leave the
\* file to the other.
UnsharedFilesAreDropped ==
  \A g \in GroupIds : \A f \in ListFiles(g) :
    ipAndPorts[g][f] = {} => \E s \in Sockets : IsDropping(s, g, f)

\* Of two who create one group, or one account, at the same time, the second
\* does not take it over from the first.
FirstCreatorStays ==
  [][status' = "running" =>
       /\ \A g \in GroupIds : adminId[g] # None => adminId'[g] = adminId[g]
       /\ \A u \in Users : password[u] # None => password'[u] = password[u]]_threadVars

----------------------------------------------------------------------------
(* What the documentation says and the interleaving breaks.                *)

\* README, assumption 4: "User can be part of only one group."
OnlyOneGroup ==
  \A u \in Users, g, h \in GroupIds :
    u \in participants[g] /\ u \in participants[h] => g = h

\* README, working, 3: "Tracker maintains information of clients with their
\* files": when no command is in progress, the shares of who is logged in are
\* in both indexes.
SharesAreMaintained == (\A s \in Sockets : Idle(s)) => IndexesAgree
=============================================================================
