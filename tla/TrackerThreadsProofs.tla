------------------------ MODULE TrackerThreadsProofs ------------------------
(***************************************************************************)
(* What TrackerThreads keeps under every interleaving, proved.             *)
(***************************************************************************)
EXTENDS TrackerThreads, TLAPS

LoginSteps == {"insert_user", "set_logged_in", "insert_session"}
EntrySteps == {"erase_address", "check_size", "drop_entry"}

\* What the locals t of a thread hold at each step, w being the user of its
\* socket.
Fits(t, w) ==
  /\ t.at \in LoginSteps => t.user \in Users
  /\ t.at = "insert_user" => t.arg \in Passwords
  /\ t.at \in {"set_logged_in", "insert_session"} => w = None
  /\ t.at \notin LoginSteps \cup {"idle"} => w \in Users
  /\ t.at \in GroupSteps \cup AdmitSteps \cup AddSteps \cup EntrySteps => t.group \in GroupIds
  /\ t.at \in AdmitSteps => t.user \in Users
  /\ t.at \in AddSteps \cup EntrySteps => t.file \in FileNames
  /\ "find_file" \in {t.at, t.then} \/ t.at = "insert_file" => t.arg \in Digests
  /\ t.at = "copy_address" => t.then \in {"find_file", "find_again"}
  /\ t.at \in {"find_request", "check_free"} => t.then = "erase_request"
  /\ t.at = "set_group" => t.then \in {"erase_request", "insert_participant"}
  /\ t.at \in RemovalSteps => t.then \in {"set_logged_out", "clear_group"}
  /\ t.then = "clear_group" => t.at \in RemovalSteps
  /\ ~t.valid => t.at \in EntrySteps \cup {"add_address"}

TasksFit == \A s \in Sockets : Fits(task[s], User(s))

TInv == ThreadsTypeOK /\ TasksFit

LEMMA ThreadsInitInv == ThreadsInit => TInv
<1> SUFFICES ASSUME ThreadsInit PROVE TInv
  OBVIOUS
<1> USE DEF ThreadsInit, Init, NoTask, Optional
<1>1. NoTask \in Tasks
  BY DEF Tasks, Steps
<1>2. ThreadsTypeOK
  BY <1>1 DEF ThreadsTypeOK
<1>3. TasksFit
  BY DEF TasksFit, Fits, LoginSteps, EntrySteps, GroupSteps, AdmitSteps, AddSteps, RemovalSteps
<1>4. QED
  BY <1>2, <1>3 DEF TInv

\* A thread that only reads keeps the types of the maps, and of the other
\* threads.
LEMMA ReadKeeps ==
  ASSUME TInv, NEW s \in Sockets, NEW t \in Tasks, ReadAndGo(s, t), Fits(t, User(s))
  PROVE  TInv'
BY DEF ReadAndGo, Go, TInv, ThreadsTypeOK, TasksFit, User, vars, accountVars, sessionVars,
       memberVars, shareVars

LEMMA StartKeeps ==
  ASSUME TInv, NEW s \in Sockets, CommandStarts(s)
  PROVE  TInv'
<1> USE DEF Fits, LoginSteps, EntrySteps, GroupSteps, AdmitSteps, AddSteps, RemovalSteps
<1> USE DEF Tasks, Steps, UserSteps, SessionSteps, NoTask, Optional
<1>1. HasSession(s) => User(s) \in Users
  BY DEF HasSession, User, TInv, ThreadsTypeOK
<1>2. ASSUME NEW u \in Users, NEW p \in Passwords, CreateUserStarts(s, u, p)
      PROVE  TInv'
  BY <1>2, ReadKeeps DEF CreateUserStarts
<1>3. ASSUME NEW u \in Users, NEW p \in Passwords, LoginStarts(s, u, p)
      PROVE  TInv'
  BY <1>3, ReadKeeps DEF LoginStarts, User
<1>4. CASE LogoutStarts(s)
  <2>1. CASE groupId[User(s)] # None
    BY <1>1, <1>4, <2>1, ReadKeeps DEF LogoutStarts
  <2>2. CASE groupId[User(s)] = None
    BY <1>1, <1>4, <2>2, ReadKeeps DEF LogoutStarts
  <2>3. QED
    BY <2>1, <2>2
<1>5. ASSUME NEW g \in GroupIds, CreateGroupStarts(s, g)
      PROVE  TInv'
  BY <1>1, <1>5, ReadKeeps DEF CreateGroupStarts
<1>6. ASSUME NEW g \in GroupIds, JoinStarts(s, g)
      PROVE  TInv'
  <2>1. CASE adminId[g] = User(s)
    BY <1>1, <1>6, <2>1, ReadKeeps DEF JoinStarts
  <2>2. CASE adminId[g] # User(s)
    BY <1>1, <1>6, <2>2, ReadKeeps DEF JoinStarts
  <2>3. QED
    BY <2>1, <2>2
<1>7. ASSUME NEW g \in GroupIds, LeaveStarts(s, g)
      PROVE  TInv'
  BY <1>1, <1>7, ReadKeeps DEF LeaveStarts, InGroup
<1>8. ASSUME NEW g \in GroupIds, NEW v \in Users, AcceptStarts(s, g, v)
      PROVE  TInv'
  BY <1>1, <1>8, ReadKeeps DEF AcceptStarts, MayAccept, InGroup
<1>9. ASSUME NEW g \in GroupIds, NEW f \in FileNames, NEW d \in Digests,
             UploadStarts(s, g, f, d)
      PROVE  TInv'
  BY <1>1, <1>9, ReadKeeps DEF UploadStarts, InGroup
<1>10. ASSUME NEW g \in GroupIds, NEW f \in FileNames, DownloadStarts(s, g, f)
       PROVE  TInv'
  BY <1>1, <1>10, ReadKeeps DEF DownloadStarts, InGroup
<1>11. QED
  BY <1>2, <1>3, <1>4, <1>5, <1>6, <1>7, <1>8, <1>9, <1>10 DEF CommandStarts

\* A thread that writes: the maps keep their types by the step itself, the
\* tasks of the others stay, and so do their users.
LEMMA TaskKeeps ==
  ASSUME TInv, NEW s \in Sockets, NEW t \in Tasks, Go(s, t),
         UNCHANGED socketToUser, Fits(t, User(s))
  PROVE  task' \in [Sockets -> Tasks] /\ TasksFit'
BY DEF Go, TInv, ThreadsTypeOK, TasksFit, User

LEMMA AccountKeeps ==
  ASSUME TInv, NEW s \in Sockets, AccountStep(s)
  PROVE  TInv'
<1> USE DEF Fits, LoginSteps, EntrySteps, GroupSteps, AdmitSteps, AddSteps, RemovalSteps
<1> USE DEF Tasks, Steps, UserSteps, SessionSteps, NoTask, Optional
<1> DEFINE t == task[s]
<1>1. t \in Tasks /\ Fits(t, User(s))
  BY DEF TInv, ThreadsTypeOK, TasksFit
<1>2. CASE InsertUser(s)
  <2>1. password' \in [Users -> Optional(Passwords)]
    BY <1>1, <1>2 DEF InsertUser, Inserted, At, TInv, ThreadsTypeOK
  <2>2. task' \in [Sockets -> Tasks] /\ TasksFit'
    BY <1>2, TaskKeeps DEF InsertUser, Return, sessionVars
  <2>3. QED
    BY <1>2, <2>1, <2>2 DEF InsertUser, TInv, ThreadsTypeOK, sessionVars, memberVars, shareVars
<1>3. CASE SetLoggedIn(s)
  <2>1. isLoggedIn' \in SUBSET Users
    BY <1>1, <1>3 DEF SetLoggedIn, UserFound, At, TInv, ThreadsTypeOK
  <2>2. task' \in [Sockets -> Tasks] /\ TasksFit'
    BY <1>1, <1>3, TaskKeeps DEF SetLoggedIn, GoTo, At
  <2>3. QED
    BY <1>3, <2>1, <2>2 DEF SetLoggedIn, TInv, ThreadsTypeOK, accountVars, memberVars, shareVars
<1>4. CASE InsertSession(s)
  <2>1. /\ ipAndPort' \in [Users -> Optional(Addrs)]
        /\ socketToUser' \in [Sockets -> Optional(Users)]
    BY <1>1, <1>4 DEF InsertSession, AddressAtLogin, At, TInv, ThreadsTypeOK
  <2>2. task' \in [Sockets -> Tasks] /\ TasksFit'
    BY <1>4 DEF InsertSession, Return, Go, User, TInv, ThreadsTypeOK, TasksFit
  <2>3. QED
    BY <1>4, <2>1, <2>2 DEF InsertSession, TInv, ThreadsTypeOK, accountVars, memberVars, shareVars
<1>5. CASE SetLoggedOut(s)
  <2>1. isLoggedIn' \in SUBSET Users
    BY <1>5 DEF SetLoggedOut, Unmarked, TInv, ThreadsTypeOK
  <2>2. task' \in [Sockets -> Tasks] /\ TasksFit'
    BY <1>1, <1>5, TaskKeeps DEF SetLoggedOut, GoTo, At
  <2>3. QED
    BY <1>5, <2>1, <2>2 DEF SetLoggedOut, TInv, ThreadsTypeOK, accountVars, memberVars, shareVars
<1>6. CASE EraseSession(s)
  <2>1. /\ ipAndPort' \in [Users -> Optional(Addrs)]
        /\ socketToUser' \in [Sockets -> Optional(Users)]
    BY <1>6 DEF EraseSession, TInv, ThreadsTypeOK
  <2>2. task' \in [Sockets -> Tasks] /\ TasksFit'
    BY <1>6 DEF EraseSession, Return, Go, User, TInv, ThreadsTypeOK, TasksFit
  <2>3. QED
    BY <1>6, <2>1, <2>2 DEF EraseSession, TInv, ThreadsTypeOK, accountVars, memberVars, shareVars
<1>7. QED
  BY <1>2, <1>3, <1>4, <1>5, <1>6 DEF AccountStep

LEMMA GroupKeeps ==
  ASSUME TInv, NEW s \in Sockets, GroupStep(s)
  PROVE  TInv'
<1> USE DEF Fits, LoginSteps, EntrySteps, GroupSteps, AdmitSteps, AddSteps, RemovalSteps
<1> USE DEF Tasks, Steps, UserSteps, SessionSteps, NoTask, Optional
<1> DEFINE t == task[s]
<1>1. t \in Tasks /\ Fits(t, User(s))
  BY DEF TInv, ThreadsTypeOK, TasksFit
<1>2. CASE InsertGroup(s)
  <2>1. adminId' \in [GroupIds -> Optional(Users)]
    BY <1>1, <1>2 DEF InsertGroup, Inserted, At, TInv, ThreadsTypeOK
  <2>2. task' \in [Sockets -> Tasks] /\ TasksFit'
    BY <1>2, TaskKeeps DEF InsertGroup, Return, sessionVars
  <2>3. QED
    BY <1>2, <2>1, <2>2 DEF InsertGroup, TInv, ThreadsTypeOK, accountVars, sessionVars, shareVars
<1>3. CASE InsertRequest(s)
  <2>1. pendingRequests' \in [GroupIds -> SUBSET Users]
    BY <1>1, <1>3 DEF InsertRequest, At, TInv, ThreadsTypeOK
  <2>2. task' \in [Sockets -> Tasks] /\ TasksFit'
    BY <1>3, TaskKeeps DEF InsertRequest, Return, sessionVars
  <2>3. QED
    BY <1>3, <2>1, <2>2 DEF InsertRequest, TInv, ThreadsTypeOK, accountVars, sessionVars, shareVars
<1>4. CASE FindRequest(s)
  <2>1. CASE task[s].user \in pendingRequests[task[s].group]
    BY <1>1, <1>4, <2>1, ReadKeeps DEF FindRequest, At
  <2>2. CASE task[s].user \notin pendingRequests[task[s].group]
    BY <1>4, <2>2, ReadKeeps DEF FindRequest
  <2>3. QED
    BY <2>1, <2>2
<1>5. CASE CheckFree(s)
  <2>1. CASE FreeToJoin(task[s].user)
    BY <1>1, <1>5, <2>1, ReadKeeps DEF CheckFree, At
  <2>2. CASE ~FreeToJoin(task[s].user)
    BY <1>5, <2>2, ReadKeeps DEF CheckFree
  <2>3. QED
    BY <2>1, <2>2
<1>6. CASE SetGroup(s)
  <2>1. groupId' \in [Users -> Optional(GroupIds)]
    BY <1>1, <1>6 DEF SetGroup, At, TInv, ThreadsTypeOK
  <2>2. task' \in [Sockets -> Tasks] /\ TasksFit'
    BY <1>1, <1>6, TaskKeeps DEF SetGroup, GoTo, At, sessionVars
  <2>3. QED
    BY <1>6, <2>1, <2>2 DEF SetGroup, TInv, ThreadsTypeOK, accountVars, sessionVars, shareVars
<1>7. CASE EraseRequest(s)
  <2>1. pendingRequests' \in [GroupIds -> SUBSET Users]
    BY <1>1, <1>7 DEF EraseRequest, At, TInv, ThreadsTypeOK
  <2>2. task' \in [Sockets -> Tasks] /\ TasksFit'
    BY <1>1, <1>7, TaskKeeps DEF EraseRequest, GoTo, At, sessionVars
  <2>3. QED
    BY <1>7, <2>1, <2>2 DEF EraseRequest, TInv, ThreadsTypeOK, accountVars, sessionVars, shareVars
<1>8. CASE InsertParticipant(s)
  <2>1. participants' \in [GroupIds -> SUBSET Users]
    BY <1>1, <1>8 DEF InsertParticipant, At, TInv, ThreadsTypeOK
  <2>2. task' \in [Sockets -> Tasks] /\ TasksFit'
    BY <1>8, TaskKeeps DEF InsertParticipant, Return, sessionVars
  <2>3. QED
    BY <1>8, <2>1, <2>2 DEF InsertParticipant, TInv, ThreadsTypeOK, accountVars, sessionVars, shareVars
<1>9. CASE EraseParticipant(s)
  <2>1. participants' \in [GroupIds -> SUBSET Users]
    BY <1>1, <1>9 DEF EraseParticipant, At, TInv, ThreadsTypeOK
  <2>2. task' \in [Sockets -> Tasks] /\ TasksFit'
    <3> DEFINE n == [NoTask EXCEPT !.at = "copy_user", !.then = "clear_group"]
    <3>1. User(s) \in Users
      BY <1>1, <1>9 DEF EraseParticipant, At
    <3>2. n \in Tasks /\ Fits(n, User(s))
      BY <3>1
    <3>3. Go(s, n) /\ UNCHANGED socketToUser
      BY <1>9 DEF EraseParticipant, sessionVars
    <3>4. QED
      BY <3>2, <3>3, TaskKeeps
  <2>3. QED
    BY <1>9, <2>1, <2>2 DEF EraseParticipant, TInv, ThreadsTypeOK, accountVars, sessionVars, shareVars
<1>10. CASE ClearGroup(s)
  <2>1. groupId' \in [Users -> Optional(GroupIds)]
    BY <1>1, <1>10 DEF ClearGroup, At, TInv, ThreadsTypeOK
  <2>2. task' \in [Sockets -> Tasks] /\ TasksFit'
    BY <1>10, TaskKeeps DEF ClearGroup, Return, sessionVars
  <2>3. QED
    BY <1>10, <2>1, <2>2 DEF ClearGroup, TInv, ThreadsTypeOK, accountVars, sessionVars, shareVars
<1>11. QED
  BY <1>2, <1>3, <1>4, <1>5, <1>6, <1>7, <1>8, <1>9, <1>10 DEF GroupStep

\* The loop over the files goes on.
LEMMA NextFileFits ==
  ASSUME NEW t \in Tasks, NEW w, Fits(t, w), t.at \in EntrySteps
  PROVE  NextFile(t) \in Tasks /\ Fits(NextFile(t), w)
<1> USE DEF Fits, LoginSteps, EntrySteps, GroupSteps, AdmitSteps, AddSteps, RemovalSteps
<1> USE DEF Tasks, Steps, UserSteps, SessionSteps, Optional
<1> DEFINE n == NextFile(t)
<1>1. /\ n.at = "find_entry" /\ n.then = t.then /\ n.user = t.user /\ n.group = t.group
      /\ n.file = None /\ n.arg = t.arg /\ n.names = t.names \ {t.file}
      /\ n.addr = t.addr /\ n.valid = TRUE
  BY DEF NextFile
<1>2. n \in Tasks
  BY DEF NextFile
<1>3. QED
  BY <1>1, <1>2

LEMMA CopyIsTask ==
  ASSUME NEW t \in Tasks, NEW names \in SUBSET FileNames, NEW addr \in Optional(Addrs),
         NEW group \in Optional(GroupIds)
  PROVE  [t EXCEPT !.at = "find_entry", !.names = names, !.addr = addr, !.group = group] \in Tasks
BY DEF Tasks, Steps, RemovalSteps

LEMMA RemovalKeeps ==
  ASSUME TInv, NEW s \in Sockets, RemovalStep(s)
  PROVE  TInv'
<1> USE DEF Fits, LoginSteps, EntrySteps, GroupSteps, AdmitSteps, AddSteps, RemovalSteps
<1> USE DEF Tasks, Steps, UserSteps, SessionSteps, NoTask, Optional
<1> DEFINE t == task[s]
<1>0. t \in Tasks
  BY DEF TInv, ThreadsTypeOK
<1>1. t \in Tasks /\ Fits(t, User(s))
  BY DEF TInv, ThreadsTypeOK, TasksFit
<1>2. CASE CopyUser(s)
  <2> DEFINE n == [t EXCEPT !.at = "find_entry", !.names = files[User(s)],
                            !.addr = ipAndPort[User(s)], !.group = groupId[User(s)]]
  <2>1. User(s) \in Users /\ t.at = "copy_user"
    BY <1>1, <1>2 DEF CopyUser, At
  <2>2. /\ files[User(s)] \in SUBSET FileNames
        /\ ipAndPort[User(s)] \in Optional(Addrs)
        /\ groupId[User(s)] \in Optional(GroupIds)
    BY <2>1 DEF TInv, ThreadsTypeOK
  <2>3. /\ n.at = "find_entry" /\ n.then = t.then /\ n.user = t.user /\ n.arg = t.arg
        /\ n.valid = t.valid /\ t.then \in {"set_logged_out", "clear_group"}
    BY <1>1, <2>1
  <2>4. n \in Tasks
    <3> HIDE DEF Tasks, Optional
    <3>1. QED
      BY <1>0, <2>2, CopyIsTask
  <2>5. Fits(n, User(s))
    BY <1>1, <2>1, <2>3
  <2>6. QED
    BY <1>2, <2>4, <2>5, ReadKeeps DEF CopyUser
<1>3. ASSUME NEW f \in FileNames, FindEntry(s, f)
      PROVE  TInv'
  <2> DEFINE n == [t EXCEPT !.at = "erase_address", !.file = f]
  <2>1. t.at = "find_entry" /\ t.group # None
    BY <1>3 DEF FindEntry, At
  <2>2. t.then \in {"set_logged_out", "clear_group"} /\ t.group \in GroupIds /\ User(s) \in Users
    BY <1>1, <2>1
  <2>3. /\ n.at = "erase_address" /\ n.then = t.then /\ n.user = t.user /\ n.group = t.group
        /\ n.file = f /\ n.arg = t.arg /\ n.valid = t.valid
    BY <1>1
  <2>4. n \in Tasks
    BY <1>0
  <2>5. Fits(n, User(s))
    BY <2>2, <2>3
  <2>6. QED
    BY <1>3, <2>4, <2>5, ReadKeeps DEF FindEntry
<1>4. CASE EraseAddress(s)
  <2>1. ipAndPorts' \in [GroupIds -> [FileNames -> SUBSET Optional(Addrs)]]
    BY <1>1, <1>4 DEF EraseAddress, At, TInv, ThreadsTypeOK
  <2>2. task' \in [Sockets -> Tasks] /\ TasksFit'
    BY <1>1, <1>4, TaskKeeps DEF EraseAddress, GoTo, At, sessionVars
  <2>3. QED
    BY <1>4, <2>1, <2>2 DEF EraseAddress, TInv, ThreadsTypeOK, accountVars, sessionVars, memberVars
<1>5. CASE CheckSize(s)
  <2>1. CASE NobodyIsLeft(s)
    BY <1>1, <1>5, <2>1, ReadKeeps DEF CheckSize, At
  <2>2. CASE ~NobodyIsLeft(s)
    BY <1>1, <1>5, <2>2, ReadKeeps, NextFileFits DEF CheckSize, At
  <2>3. QED
    BY <2>1, <2>2
<1>6. CASE DropEntry(s)
  <2>1. ipAndPorts' \in [GroupIds -> [FileNames -> SUBSET Optional(Addrs)]]
    BY <1>1, <1>6 DEF DropEntry, At, TInv, ThreadsTypeOK
  <2>2. SHA' \in [GroupIds -> [FileNames -> Optional(Digests)]]
    BY <1>1, <1>6 DEF DropEntry, At, TInv, ThreadsTypeOK
  <2>3. ASSUME NEW r \in Sockets
        PROVE  task'[r] \in Tasks /\ Fits(task'[r], User(r))
    <3>1. task[r] \in Tasks /\ Fits(task[r], User(r))
      BY DEF TInv, ThreadsTypeOK, TasksFit
    <3>2. CASE r = s
      <4>1. task'[r] = NextFile(t)
        BY <1>6, <3>2 DEF DropEntry
      <4>2. QED
        BY <1>1, <1>6, <3>2, <4>1, NextFileFits DEF DropEntry, At
    <3>3. CASE r # s
      <4>1. \/ task'[r] = task[r]
            \/ r \in PointTo(s) /\ task'[r] = [task[r] EXCEPT !.valid = FALSE]
        BY <1>6, <3>3 DEF DropEntry
      <4>2. CASE r \in PointTo(s) /\ task'[r] = [task[r] EXCEPT !.valid = FALSE]
        <5> DEFINE n == [task[r] EXCEPT !.valid = FALSE]
        <5>1. /\ n.at = task[r].at /\ n.then = task[r].then /\ n.user = task[r].user
              /\ n.group = task[r].group /\ n.file = task[r].file /\ n.arg = task[r].arg
              /\ (r \in PointTo(s) => n.at \in EntrySteps \cup {"add_address"})
          BY <3>1 DEF PointTo
        <5>2. n \in Tasks
          BY <3>1
        <5>3. Fits(n, User(r))
          BY <3>1, <4>2, <5>1
        <5>4. QED
          BY <4>2, <5>2, <5>3
      <4>3. QED
        BY <3>1, <4>1, <4>2
    <3>4. QED
      BY <3>2, <3>3
  <2>4. task' \in [Sockets -> Tasks] /\ TasksFit'
    <3>1. task' = [r \in Sockets |-> task'[r]]
      BY <1>6 DEF DropEntry
    <3>2. UNCHANGED socketToUser
      BY <1>6 DEF DropEntry, sessionVars
    <3>3. \A r \in Sockets : task'[r] \in Tasks /\ Fits(task'[r], socketToUser[r])
      BY <2>3 DEF User
    <3>4. task' \in [Sockets -> Tasks]
      BY <3>1, <3>3
    <3>5. QED
      BY <3>2, <3>3, <3>4, Zenon DEF TasksFit, User
  <2>5. QED
    BY <1>6, <2>1, <2>2, <2>4 DEF DropEntry, TInv, ThreadsTypeOK, accountVars, sessionVars, memberVars
<1>7. CASE ClearFiles(s)
  <2> DEFINE n == [NoTask EXCEPT !.at = t.then]
  <2>1. User(s) \in Users /\ t.then \in {"set_logged_out", "clear_group"}
    BY <1>1, <1>7 DEF ClearFiles, At
  <2>2. n \in Tasks /\ Fits(n, User(s))
    BY <2>1
  <2>3. Go(s, n) /\ UNCHANGED socketToUser
    BY <1>7 DEF ClearFiles, sessionVars
  <2>4. task' \in [Sockets -> Tasks] /\ TasksFit'
    BY <2>2, <2>3, TaskKeeps
  <2>5. files' \in [Users -> SUBSET FileNames]
    BY <1>7, <2>1 DEF ClearFiles, TInv, ThreadsTypeOK
  <2>6. QED
    BY <1>7, <2>4, <2>5 DEF ClearFiles, TInv, ThreadsTypeOK, accountVars, sessionVars, memberVars
<1>8. QED
  BY <1>2, <1>3, <1>4, <1>5, <1>6, <1>7 DEF RemovalStep

LEMMA ShareKeeps ==
  ASSUME TInv, NEW s \in Sockets, ShareStep(s)
  PROVE  TInv'
<1> USE DEF Fits, LoginSteps, EntrySteps, GroupSteps, AdmitSteps, AddSteps, RemovalSteps
<1> USE DEF Tasks, Steps, UserSteps, SessionSteps, NoTask, Optional
<1> DEFINE t == task[s]
<1>0. t \in Tasks
  BY DEF TInv, ThreadsTypeOK
<1>1. t \in Tasks /\ Fits(t, User(s))
  BY DEF TInv, ThreadsTypeOK, TasksFit
<1>2. CASE CopyFile(s)
  <2>1. CASE SHA[t.group][t.file] # None
    <3> DEFINE n == [t EXCEPT !.at = "copy_address", !.then = "find_again"]
    <3>1. t.at = "copy_file"
      BY <1>2 DEF CopyFile, At
    <3>2. t.group \in GroupIds /\ t.file \in FileNames /\ User(s) \in Users
      BY <1>1, <3>1
    <3>3. /\ n.at = "copy_address" /\ n.then = "find_again" /\ n.user = t.user
          /\ n.group = t.group /\ n.file = t.file /\ n.arg = t.arg /\ n.valid = t.valid
      BY <1>1
    <3>4. n \in Tasks
      BY <1>0
    <3>5. Fits(n, User(s))
      BY <1>1, <3>1, <3>2, <3>3
    <3>6. QED
      BY <1>2, <2>1, <3>4, <3>5, ReadKeeps DEF CopyFile
  <2>2. CASE SHA[t.group][t.file] = None
    <3>1. ReadAndGo(s, NoTask)
      BY <1>2, <2>2 DEF CopyFile
    <3>2. NoTask \in Tasks /\ Fits(NoTask, User(s))
      OBVIOUS
    <3>3. QED
      BY <3>1, <3>2, ReadKeeps
  <2>3. QED
    BY <2>1, <2>2
<1>3. CASE CopyAddress(s)
  <2> DEFINE n == [t EXCEPT !.at = t.then, !.addr = ipAndPort[User(s)]]
  <2>1. User(s) \in Users /\ t.at = "copy_address"
    BY <1>1, <1>3 DEF CopyAddress, At
  <2>2. ipAndPort[User(s)] \in Optional(Addrs)
    BY <2>1 DEF TInv, ThreadsTypeOK
  <2>3. t.then \in {"find_file", "find_again"}
    BY <1>1, <2>1
  <2>4. /\ n.at = t.then /\ n.then = t.then /\ n.user = t.user /\ n.group = t.group
        /\ n.file = t.file /\ n.arg = t.arg /\ n.valid = t.valid
    BY <1>0, <2>3
  <2>5. n \in Tasks
    BY <1>0, <2>2, <2>3
  <2>6. Fits(n, User(s))
    BY <1>1, <2>1, <2>3, <2>4
  <2>7. QED
    BY <1>3, <2>5, <2>6, ReadKeeps DEF CopyAddress
<1>4. CASE FindFile(s)
  <2>1. CASE SHA[t.group][t.file] # None
    BY <1>1, <1>4, <2>1, ReadKeeps DEF FindFile, At
  <2>2. CASE SHA[t.group][t.file] = None
    BY <1>1, <1>4, <2>2, ReadKeeps DEF FindFile, At
  <2>3. QED
    BY <2>1, <2>2
<1>5. CASE InsertFile(s)
  <2>1. t.group \in GroupIds /\ t.file \in FileNames /\ t.arg \in Digests
    BY <1>1, <1>5 DEF InsertFile, At
  <2>2. SHA' \in [GroupIds -> [FileNames -> Optional(Digests)]]
    BY <1>5, <2>1 DEF InsertFile, Inserted, TInv, ThreadsTypeOK
  <2>3. ipAndPorts' \in [GroupIds -> [FileNames -> SUBSET Optional(Addrs)]]
    BY <1>1, <1>5, <2>1 DEF InsertFile, TInv, ThreadsTypeOK
  <2>4. task' \in [Sockets -> Tasks] /\ TasksFit'
    BY <1>1, <1>5, TaskKeeps DEF InsertFile, GoTo, At, sessionVars
  <2>5. QED
    BY <1>5, <2>2, <2>3, <2>4 DEF InsertFile, TInv, ThreadsTypeOK, accountVars, sessionVars, memberVars
<1>6. CASE FindAgain(s)
  BY <1>1, <1>6, ReadKeeps DEF FindAgain, At
<1>7. CASE AddAddress(s)
  <2>1. ipAndPorts' \in [GroupIds -> [FileNames -> SUBSET Optional(Addrs)]]
    BY <1>1, <1>7 DEF AddAddress, At, TInv, ThreadsTypeOK
  <2>2. task' \in [Sockets -> Tasks] /\ TasksFit'
    BY <1>1, <1>7, TaskKeeps DEF AddAddress, GoTo, At, sessionVars
  <2>3. QED
    BY <1>7, <2>1, <2>2 DEF AddAddress, TInv, ThreadsTypeOK, accountVars, sessionVars, memberVars
<1>8. CASE AddFile(s)
  <2>1. files' \in [Users -> SUBSET FileNames]
    BY <1>1, <1>8 DEF AddFile, At, TInv, ThreadsTypeOK
  <2>2. task' \in [Sockets -> Tasks] /\ TasksFit'
    BY <1>8, TaskKeeps DEF AddFile, Return, sessionVars
  <2>3. QED
    BY <1>8, <2>1, <2>2 DEF AddFile, TInv, ThreadsTypeOK, accountVars, sessionVars, memberVars
<1>9. QED
  BY <1>2, <1>3, <1>4, <1>5, <1>6, <1>7, <1>8 DEF ShareStep

LEMMA UseOfErasedKeeps ==
  ASSUME TInv, NEW s \in Sockets, UseOfErased(s)
  PROVE  TInv'
<1> USE DEF Fits, LoginSteps, EntrySteps, GroupSteps, AdmitSteps, AddSteps, RemovalSteps
<1> USE DEF Tasks, Steps, UserSteps, SessionSteps, Optional
<1> DEFINE t == task[s]
<1>1. t \in Tasks /\ Fits(t, User(s))
  BY DEF TInv, ThreadsTypeOK, TasksFit
<1>2. CASE At(s, "add_address") /\ ReadAndGo(s, [t EXCEPT !.at = "add_file", !.valid = TRUE])
  <2> DEFINE n == [t EXCEPT !.at = "add_file", !.valid = TRUE]
  <2>1. t.group \in GroupIds /\ t.file \in FileNames /\ User(s) \in Users
    BY <1>1, <1>2 DEF At
  <2>2. /\ n.at = "add_file" /\ n.then = t.then /\ n.user = t.user /\ n.group = t.group
        /\ n.file = t.file /\ n.arg = t.arg /\ n.valid = TRUE
    BY <1>1
  <2>3. n \in Tasks
    BY <1>1
  <2>4. Fits(n, User(s))
    BY <1>1, <1>2, <2>1, <2>2 DEF At
  <2>5. QED
    BY <1>2, <2>3, <2>4, ReadKeeps
<1>3. CASE ~t.valid /\ ~At(s, "add_address") /\ ReadAndGo(s, NextFile(t))
  <2>1. t.at \in EntrySteps
    BY <1>1, <1>3 DEF At
  <2>2. QED
    BY <1>1, <1>3, <2>1, NextFileFits, ReadKeeps
<1>4. CASE At(s, "erase_address") /\ ReadAndGo(s, [t EXCEPT !.at = "check_size"])
  BY <1>1, <1>4, ReadKeeps DEF At
<1>5. QED
  BY <1>2, <1>3, <1>4 DEF UseOfErased

LEMMA EndKeeps ==
  ASSUME NEW how \in {"quit", "sigpipe", "segv", "abort"}, AllThreadsEnd(how)
  PROVE  TInv'
<1> USE DEF AllThreadsEnd, ProcessEnds, NoTask, Optional
<1>1. NoTask \in Tasks
  BY DEF Tasks, Steps
<1>2. ThreadsTypeOK'
  BY <1>1 DEF ThreadsTypeOK
<1>3. TasksFit'
  BY DEF TasksFit, Fits, LoginSteps, EntrySteps, GroupSteps, AdmitSteps, AddSteps, RemovalSteps
<1>4. QED
  BY <1>2, <1>3 DEF TInv

\* A step of ThreadsNext is the end of the process, or one of the others.
ThreadContinues(s) ==
  \/ CommandStarts(s) \/ Close(s)
  \/ AccountStep(s) \/ GroupStep(s) \/ RemovalStep(s) \/ ShareStep(s)
  \/ UseOfErased(s)

LEMMA StepIsOne ==
  ASSUME [ThreadsNext]_threadVars
  PROVE  \/ \E how \in {"quit", "sigpipe", "segv", "abort"} : AllThreadsEnd(how)
         \/ \E s \in Sockets : ThreadContinues(s)
         \/ \E s \in Sockets, a \in Addrs : Accept(s, a) /\ UNCHANGED task
         \/ Restart /\ UNCHANGED task
         \/ UNCHANGED threadVars
BY DEF ThreadsNext, MainThread, Thread, ThreadContinues, Dies, DataRace

LEMMA ThreadsNextInv == TInv /\ [ThreadsNext]_threadVars => TInv'
<1> SUFFICES ASSUME TInv, [ThreadsNext]_threadVars PROVE TInv'
  OBVIOUS
<1> USE DEF accountVars, sessionVars, memberVars, shareVars
<1>1. ASSUME NEW how \in {"quit", "sigpipe", "segv", "abort"}, AllThreadsEnd(how)
      PROVE  TInv'
  BY <1>1, EndKeeps
<1>2. ASSUME NEW s \in Sockets, ThreadContinues(s)
      PROVE  TInv'
  <2>1. CASE Close(s)
    BY <2>1 DEF Close, TInv, ThreadsTypeOK, Optional, TasksFit, User
  <2>2. QED
    BY <1>2, <2>1, StartKeeps, AccountKeeps, GroupKeeps, RemovalKeeps, ShareKeeps,
       UseOfErasedKeeps DEF ThreadContinues
<1>3. ASSUME NEW s \in Sockets, NEW a \in Addrs, Accept(s, a), UNCHANGED task
      PROVE  TInv'
  BY <1>3 DEF Accept, TInv, ThreadsTypeOK, Optional, TasksFit, User
<1>4. CASE Restart /\ UNCHANGED task
  BY <1>4 DEF Restart, TInv, ThreadsTypeOK, TasksFit, User
<1>5. CASE UNCHANGED threadVars
  BY <1>5 DEF threadVars, vars, TInv, ThreadsTypeOK, TasksFit, User
<1>6. QED
  BY <1>1, <1>2, <1>3, <1>4, <1>5, StepIsOne

\* Every map, and every local of every thread, holds what it should, however
\* the commands of different connections interleave.
THEOREM ThreadsTyped == ThreadsSpec => []ThreadsTypeOK
<1>1. ThreadsSpec => []TInv
  BY ThreadsInitInv, ThreadsNextInv, PTL DEF ThreadsSpec
<1>2. TInv => ThreadsTypeOK
  BY DEF TInv
<1>3. QED
  BY <1>1, <1>2, PTL

----------------------------------------------------------------------------
(* Nobody is locked out.                                                   *)

\* Only a login and a logout have to do with sessions.
LEMMA SessionsFrame ==
  ASSUME NobodyIsLockedOut, NEW s \in Sockets, UNCHANGED <<isLoggedIn, socketToUser>>,
         \A r \in Sockets \ {s} : task'[r].at = task[r].at /\ task'[r].user = task[r].user,
         task[s].at # "insert_session", task'[s].at # "erase_session"
  PROVE  NobodyIsLockedOut'
<1> SUFFICES ASSUME NEW u \in isLoggedIn
             PROVE  (\E r \in Sockets : IsLoggingIn(r, u) \/ (User(r) = u /\ ~At(r, "erase_session")))'
  BY DEF NobodyIsLockedOut
<1>1. PICK r \in Sockets : IsLoggingIn(r, u) \/ (User(r) = u /\ ~At(r, "erase_session"))
  BY DEF NobodyIsLockedOut
<1>2. (IsLoggingIn(r, u) \/ (User(r) = u /\ ~At(r, "erase_session")))'
  BY <1>1 DEF IsLoggingIn, User, At
<1>3. QED
  BY <1>2

LEMMA LockStep ==
  ASSUME TInv, NobodyIsLockedOut, NEW s \in Sockets, ThreadContinues(s)
  PROVE  NobodyIsLockedOut'
<1> USE NoneIsAbsent
<1> USE DEF accountVars, sessionVars, memberVars, shareVars, vars, NoTask
<1>1. /\ task \in [Sockets -> Tasks] /\ task[s] \in Tasks /\ Fits(task[s], User(s))
      /\ isLoggedIn \in SUBSET Users /\ socketToUser \in [Sockets -> Optional(Users)]
  BY DEF TInv, ThreadsTypeOK, TasksFit
<1>2. CASE CommandStarts(s)
  <2>1. PICK t : t.at # "erase_session" /\ ReadAndGo(s, t) /\ Idle(s)
    <3>1. CASE LogoutStarts(s)
      BY <3>1 DEF LogoutStarts
    <3>2. ASSUME NEW g \in GroupIds, JoinStarts(s, g)
          PROVE  \E t : t.at # "erase_session" /\ ReadAndGo(s, t) /\ Idle(s)
      BY <3>2 DEF JoinStarts
    <3>3. QED
      BY <1>2, <3>1, <3>2
      DEF CommandStarts, CreateUserStarts, LoginStarts, CreateGroupStarts, LeaveStarts,
          AcceptStarts, UploadStarts, DownloadStarts
  <2>2. QED
    BY <1>1, <2>1, SessionsFrame DEF ReadAndGo, Go, Idle, At
<1>3. CASE Close(s)
  BY <1>3 DEF Close, NobodyIsLockedOut, IsLoggingIn, User, At
<1>4. CASE InsertUser(s)
  BY <1>1, <1>4, SessionsFrame DEF InsertUser, Return, Go, At
<1>5. CASE SetLoggedIn(s)
  BY <1>1, <1>5 DEF SetLoggedIn, UserFound, GoTo, Go, At, NobodyIsLockedOut, IsLoggingIn, User, Tasks
<1>6. CASE InsertSession(s)
  BY <1>1, <1>6 DEF InsertSession, Return, Go, At, NobodyIsLockedOut, IsLoggingIn, User, Fits
<1>7. CASE SetLoggedOut(s)
  BY <1>1, <1>7 DEF SetLoggedOut, Unmarked, GoTo, Go, At, NobodyIsLockedOut, IsLoggingIn, User, Tasks
<1>8. CASE EraseSession(s)
  BY <1>1, <1>8 DEF EraseSession, Return, Go, At, NobodyIsLockedOut, IsLoggingIn, User
<1>9. CASE GroupStep(s)
  <2>1. CASE InsertGroup(s)
    BY <1>1, <2>1, SessionsFrame DEF InsertGroup, Return, Go, At
  <2>2. CASE InsertRequest(s)
    BY <1>1, <2>2, SessionsFrame DEF InsertRequest, Return, Go, At
  <2>3. CASE FindRequest(s)
    BY <1>1, <2>3, SessionsFrame DEF FindRequest, ReadAndGo, Go, At, Tasks
  <2>4. CASE CheckFree(s)
    BY <1>1, <2>4, SessionsFrame DEF CheckFree, ReadAndGo, Go, At, Tasks
  <2>5. CASE SetGroup(s)
    BY <1>1, <2>5, SessionsFrame DEF SetGroup, GoTo, Go, At, Tasks, Fits
  <2>6. CASE EraseRequest(s)
    BY <1>1, <2>6, SessionsFrame DEF EraseRequest, GoTo, Go, At, Tasks
  <2>7. CASE InsertParticipant(s)
    BY <1>1, <2>7, SessionsFrame DEF InsertParticipant, Return, Go, At
  <2>8. CASE EraseParticipant(s)
    BY <1>1, <2>8, SessionsFrame DEF EraseParticipant, Go, At
  <2>9. CASE ClearGroup(s)
    BY <1>1, <2>9, SessionsFrame DEF ClearGroup, Return, Go, At
  <2>10. QED
    BY <1>9, <2>1, <2>2, <2>3, <2>4, <2>5, <2>6, <2>7, <2>8, <2>9 DEF GroupStep
<1>10. CASE RemovalStep(s)
  <2>1. CASE CopyUser(s)
    BY <1>1, <2>1, SessionsFrame DEF CopyUser, ReadAndGo, Go, At, Tasks
  <2>2. CASE EraseAddress(s)
    BY <1>1, <2>2, SessionsFrame DEF EraseAddress, GoTo, Go, At, Tasks
  <2>3. CASE CheckSize(s)
    BY <1>1, <2>3, SessionsFrame DEF CheckSize, ReadAndGo, Go, At, Tasks, NextFile
  <2>4. CASE DropEntry(s)
    BY <1>1, <2>4, SessionsFrame DEF DropEntry, NextFile, At, Tasks
  <2>5. CASE ClearFiles(s)
    BY <1>1, <2>5, SessionsFrame DEF ClearFiles, Go, At, Fits, RemovalSteps
  <2>6. ASSUME NEW f \in FileNames, FindEntry(s, f)
        PROVE  NobodyIsLockedOut'
    BY <1>1, <2>6, SessionsFrame DEF FindEntry, ReadAndGo, Go, At, Tasks
  <2>7. QED
    BY <1>10, <2>1, <2>2, <2>3, <2>4, <2>5, <2>6 DEF RemovalStep
<1>11. CASE ShareStep(s)
  <2>1. CASE CopyFile(s)
    BY <1>1, <2>1, SessionsFrame DEF CopyFile, ReadAndGo, Go, At, Tasks
  <2>2. CASE CopyAddress(s)
    BY <1>1, <2>2, SessionsFrame DEF CopyAddress, ReadAndGo, Go, At, Tasks, Fits
  <2>3. CASE FindFile(s)
    BY <1>1, <2>3, SessionsFrame DEF FindFile, ReadAndGo, Go, At, Tasks
  <2>4. CASE InsertFile(s)
    BY <1>1, <2>4, SessionsFrame DEF InsertFile, GoTo, Go, At, Tasks
  <2>5. CASE FindAgain(s)
    BY <1>1, <2>5, SessionsFrame DEF FindAgain, ReadAndGo, Go, At, Tasks
  <2>6. CASE AddAddress(s)
    BY <1>1, <2>6, SessionsFrame DEF AddAddress, GoTo, Go, At, Tasks
  <2>7. CASE AddFile(s)
    BY <1>1, <2>7, SessionsFrame DEF AddFile, Return, Go, At
  <2>8. QED
    BY <1>11, <2>1, <2>2, <2>3, <2>4, <2>5, <2>6, <2>7 DEF ShareStep
<1>12. CASE UseOfErased(s)
  <2>1. task[s].at \in EntrySteps \cup {"add_address"}
    BY <1>1, <1>12 DEF UseOfErased, At, Fits, EntrySteps
  <2>2. PICK t : t.at # "erase_session" /\ ReadAndGo(s, t)
    BY <1>1, <1>12 DEF UseOfErased, NextFile, Tasks
  <2>3. QED
    BY <1>1, <2>1, <2>2, SessionsFrame DEF ReadAndGo, Go, EntrySteps
<1>13. QED
  BY <1>2, <1>3, <1>4, <1>5, <1>6, <1>7, <1>8, <1>9, <1>10, <1>11, <1>12
  DEF ThreadContinues, AccountStep

\* A user is never marked as logged in, and therefore refused at every login,
\* without a session that he can log out of, however logins and logouts of one
\* user on different connections overlap.
THEOREM ThreadsLockNobodyOut == ThreadsSpec => []NobodyIsLockedOut
<1>1. ThreadsInit => NobodyIsLockedOut
  BY DEF ThreadsInit, Init, NobodyIsLockedOut
<1>2. TInv /\ NobodyIsLockedOut /\ [ThreadsNext]_threadVars => NobodyIsLockedOut'
  <2> SUFFICES ASSUME TInv, NobodyIsLockedOut, [ThreadsNext]_threadVars
               PROVE  NobodyIsLockedOut'
    OBVIOUS
  <2>1. ASSUME NEW how \in {"quit", "sigpipe", "segv", "abort"}, AllThreadsEnd(how)
        PROVE  NobodyIsLockedOut'
    BY <2>1 DEF AllThreadsEnd, ProcessEnds, NobodyIsLockedOut
  <2>2. ASSUME UNCHANGED <<isLoggedIn, socketToUser, task>>
        PROVE  NobodyIsLockedOut'
    BY <2>2 DEF NobodyIsLockedOut, IsLoggingIn, User, At
  <2>3. QED
    BY <2>1, <2>2, LockStep, StepIsOne
    DEF Accept, Restart, threadVars, vars, accountVars, sessionVars, memberVars, shareVars
<1>3. QED
  BY <1>1, <1>2, ThreadsInitInv, ThreadsNextInv, PTL DEF ThreadsSpec

----------------------------------------------------------------------------
(* Members stay participants.                                              *)

\* Commands that neither enter a user nor let one leave.
LEMMA MembersFrame ==
  ASSUME MembersAreParticipants, NEW s \in Sockets, UNCHANGED <<groupId, participants>>,
         \A r \in Sockets \ {s} :
           /\ task'[r].at = task[r].at /\ task'[r].then = task[r].then
           /\ task'[r].user = task[r].user /\ task'[r].group = task[r].group
           /\ User(r)' = User(r),
         task[s].at \notin {"erase_request", "insert_participant"},
         \A u \in Users : IsLeaving(s, u) => IsLeaving(s, u)'
  PROVE  MembersAreParticipants'
<1> SUFFICES ASSUME NEW u \in Users, NEW g \in GroupIds, groupId[u] = g, u \notin participants[g]
             PROVE  \E r \in Sockets : IsEntering(r, u, g)' \/ IsLeaving(r, u)'
  BY DEF MembersAreParticipants
<1>1. PICK r \in Sockets : IsEntering(r, u, g) \/ IsLeaving(r, u)
  BY DEF MembersAreParticipants
<1>2. IsEntering(r, u, g)' \/ IsLeaving(r, u)'
  <2>1. CASE r = s
    BY <1>1, <2>1 DEF IsEntering
  <2>2. CASE r # s
    BY <1>1, <2>2 DEF IsEntering, IsLeaving
  <2>3. QED
    BY <2>1, <2>2
<1>3. QED
  BY <1>2

LEMMA MembersStep ==
  ASSUME TInv, MembersAreParticipants, NEW s \in Sockets, ThreadContinues(s)
  PROVE  MembersAreParticipants'
<1> USE NoneIsAbsent
<1> USE DEF accountVars, sessionVars, memberVars, shareVars, vars, NoTask, RemovalSteps
<1>1. /\ task \in [Sockets -> Tasks] /\ task[s] \in Tasks /\ Fits(task[s], User(s))
      /\ groupId \in [Users -> Optional(GroupIds)]
      /\ participants \in [GroupIds -> SUBSET Users]
  BY DEF TInv, ThreadsTypeOK, TasksFit
<1>2. CASE CommandStarts(s)
  <2>1. PICK t : ReadAndGo(s, t) /\ Idle(s)
    BY <1>2
    DEF CommandStarts, CreateUserStarts, LoginStarts, LogoutStarts, CreateGroupStarts,
        JoinStarts, LeaveStarts, AcceptStarts, UploadStarts, DownloadStarts
  <2>2. \A u \in Users : ~IsLeaving(s, u)
    BY <1>1, <2>1 DEF IsLeaving, Idle, At, Fits
  <2>3. QED
    BY <1>1, <2>1, <2>2, MembersFrame DEF ReadAndGo, Go, Idle, At, User
<1>3. CASE Close(s)
  BY <1>3 DEF Close, MembersAreParticipants, IsEntering, IsLeaving, User
<1>4. CASE AccountStep(s)
  <2>1. \A u \in Users : ~IsLeaving(s, u)
    BY <1>1, <1>4
    DEF AccountStep, InsertUser, SetLoggedIn, InsertSession, SetLoggedOut, EraseSession,
        IsLeaving, Fits, At
  <2>2. CASE InsertUser(s)
    BY <1>1, <2>1, <2>2, MembersFrame DEF InsertUser, Return, Go, At, User
  <2>3. CASE SetLoggedIn(s)
    BY <1>1, <2>1, <2>3, MembersFrame DEF SetLoggedIn, GoTo, Go, At, User
  <2>4. CASE InsertSession(s)
    BY <1>1, <2>1, <2>4, MembersFrame DEF InsertSession, Return, Go, At, User
  <2>5. CASE SetLoggedOut(s)
    BY <1>1, <2>1, <2>5, MembersFrame DEF SetLoggedOut, GoTo, Go, At, User
  <2>6. CASE EraseSession(s)
    BY <1>1, <2>1, <2>6, MembersFrame DEF EraseSession, Return, Go, At, User
  <2>7. QED
    BY <1>4, <2>2, <2>3, <2>4, <2>5, <2>6 DEF AccountStep
<1>5. CASE GroupStep(s)
  <2>1. CASE InsertGroup(s)
    BY <1>1, <2>1, MembersFrame DEF InsertGroup, Return, Go, At, IsLeaving, User, Fits
  <2>2. CASE InsertRequest(s)
    BY <1>1, <2>2, MembersFrame DEF InsertRequest, Return, Go, At, IsLeaving, User, Fits
  <2>3. CASE FindRequest(s)
    BY <1>1, <2>3, MembersFrame DEF FindRequest, ReadAndGo, Go, At, IsLeaving, User, Tasks, Fits
  <2>4. CASE CheckFree(s)
    BY <1>1, <2>4, MembersFrame DEF CheckFree, ReadAndGo, Go, At, IsLeaving, User, Tasks, Fits
  <2>5. CASE SetGroup(s)
    BY <1>1, <2>5 DEF MembersAreParticipants, IsEntering, IsLeaving, User, SetGroup, GoTo, Fits, At, Go, Tasks
  <2>6. CASE EraseRequest(s)
    BY <1>1, <2>6 DEF MembersAreParticipants, IsEntering, IsLeaving, User, EraseRequest, GoTo, Fits, At, Go, Tasks
  <2>7. CASE InsertParticipant(s)
    BY <1>1, <2>7 DEF MembersAreParticipants, IsEntering, IsLeaving, User, InsertParticipant, Return, Fits, At, Go, Tasks
  <2>8. CASE EraseParticipant(s)
    BY <1>1, <2>8 DEF MembersAreParticipants, IsEntering, IsLeaving, User, EraseParticipant, Fits, At, Go, Tasks
  <2>9. CASE ClearGroup(s)
    BY <1>1, <2>9 DEF MembersAreParticipants, IsEntering, IsLeaving, User, ClearGroup, Return, Fits, At, Go, Tasks
  <2>10. QED
    BY <1>5, <2>1, <2>2, <2>3, <2>4, <2>5, <2>6, <2>7, <2>8, <2>9 DEF GroupStep
<1>6. CASE RemovalStep(s)
  <2>1. CASE CopyUser(s)
    BY <1>1, <2>1, MembersFrame DEF CopyUser, ReadAndGo, Go, At, IsLeaving, User, Tasks
  <2>2. CASE EraseAddress(s)
    BY <1>1, <2>2, MembersFrame DEF EraseAddress, GoTo, Go, At, IsLeaving, User, Tasks
  <2>3. CASE CheckSize(s)
    BY <1>1, <2>3, MembersFrame DEF CheckSize, ReadAndGo, Go, At, IsLeaving, User, Tasks, NextFile
  <2>4. CASE DropEntry(s)
    BY <1>1, <2>4, MembersFrame DEF DropEntry, NextFile, At, IsLeaving, User, Tasks
  <2>5. CASE ClearFiles(s)
    BY <1>1, <2>5, MembersFrame DEF ClearFiles, Go, At, IsLeaving, User, Fits
  <2>6. ASSUME NEW f \in FileNames, FindEntry(s, f)
        PROVE  MembersAreParticipants'
    BY <1>1, <2>6, MembersFrame DEF FindEntry, ReadAndGo, Go, At, IsLeaving, User, Tasks
  <2>7. QED
    BY <1>6, <2>1, <2>2, <2>3, <2>4, <2>5, <2>6 DEF RemovalStep
<1>7. CASE ShareStep(s)
  <2>1. CASE CopyFile(s)
    BY <1>1, <2>1, MembersFrame DEF CopyFile, ReadAndGo, Go, At, IsLeaving, User, Tasks, Fits
  <2>2. CASE CopyAddress(s)
    BY <1>1, <2>2, MembersFrame DEF CopyAddress, ReadAndGo, Go, At, IsLeaving, User, Tasks, Fits
  <2>3. CASE FindFile(s)
    BY <1>1, <2>3, MembersFrame DEF FindFile, ReadAndGo, Go, At, IsLeaving, User, Tasks, Fits
  <2>4. CASE InsertFile(s)
    BY <1>1, <2>4, MembersFrame DEF InsertFile, GoTo, Go, At, IsLeaving, User, Tasks, Fits
  <2>5. CASE FindAgain(s)
    BY <1>1, <2>5, MembersFrame DEF FindAgain, ReadAndGo, Go, At, IsLeaving, User, Tasks, Fits
  <2>6. CASE AddAddress(s)
    BY <1>1, <2>6, MembersFrame DEF AddAddress, GoTo, Go, At, IsLeaving, User, Tasks, Fits
  <2>7. CASE AddFile(s)
    BY <1>1, <2>7, MembersFrame DEF AddFile, Return, Go, At, IsLeaving, User, Fits
  <2>8. QED
    BY <1>7, <2>1, <2>2, <2>3, <2>4, <2>5, <2>6, <2>7 DEF ShareStep
<1>8. CASE UseOfErased(s)
  <2>1. task[s].at \in EntrySteps \cup {"add_address"}
    BY <1>1, <1>8 DEF UseOfErased, At, Fits, EntrySteps
  <2>2. PICK t : /\ ReadAndGo(s, t) /\ t.then = task[s].then
                 /\ task[s].at # "clear_group"
    BY <1>1, <1>8, <2>1 DEF UseOfErased, NextFile, Tasks, EntrySteps
  <2>3. QED
    BY <1>1, <2>1, <2>2, MembersFrame DEF ReadAndGo, Go, EntrySteps, IsLeaving, User
<1>9. QED
  BY <1>2, <1>3, <1>4, <1>5, <1>6, <1>7, <1>8 DEF ThreadContinues

\* Whoever has a group is among its participants, or is just being entered or
\* leaving, however joins, accepts and leaves on different connections overlap.
THEOREM ThreadsKeepMembers == ThreadsSpec => []MembersAreParticipants
<1>1. ThreadsInit => MembersAreParticipants
  BY NoneIsAbsent DEF ThreadsInit, Init, MembersAreParticipants
<1>2. TInv /\ MembersAreParticipants /\ [ThreadsNext]_threadVars => MembersAreParticipants'
  <2> SUFFICES ASSUME TInv, MembersAreParticipants, [ThreadsNext]_threadVars
               PROVE  MembersAreParticipants'
    OBVIOUS
  <2>1. ASSUME NEW how \in {"quit", "sigpipe", "segv", "abort"}, AllThreadsEnd(how)
        PROVE  MembersAreParticipants'
    BY <2>1, NoneIsAbsent DEF AllThreadsEnd, ProcessEnds, MembersAreParticipants
  <2>2. ASSUME UNCHANGED <<groupId, participants, socketToUser, task>>
        PROVE  MembersAreParticipants'
    BY <2>2 DEF MembersAreParticipants, IsEntering, IsLeaving, User
  <2>3. QED
    BY <2>1, <2>2, MembersStep, StepIsOne
    DEF Accept, Restart, threadVars, vars, accountVars, sessionVars, memberVars, shareVars
<1>3. QED
  BY <1>1, <1>2, ThreadsInitInv, ThreadsNextInv, PTL DEF ThreadsSpec

----------------------------------------------------------------------------
(* Files that nobody shares are dropped.                                   *)

\* Steps that leave the index by group alone.
LEMMA DropFrame ==
  ASSUME UnsharedFilesAreDropped, NEW s \in Sockets, UNCHANGED <<SHA, ipAndPorts>>,
         \A r \in Sockets \ {s} : task'[r] = task[r],
         \A g \in GroupIds, f \in FileNames : IsDropping(s, g, f) => IsDropping(s, g, f)'
  PROVE  UnsharedFilesAreDropped'
<1> SUFFICES ASSUME NEW g \in GroupIds, NEW f \in FileNames, SHA[g][f] # None,
                    ipAndPorts[g][f] = {}
             PROVE  \E r \in Sockets : IsDropping(r, g, f)'
  BY DEF UnsharedFilesAreDropped, ListFiles
<1>1. PICK r \in Sockets : IsDropping(r, g, f)
  BY DEF UnsharedFilesAreDropped, ListFiles
<1>2. IsDropping(r, g, f)'
  <2>1. CASE r = s
    BY <1>1, <2>1
  <2>2. CASE r # s
    BY <1>1, <2>2 DEF IsDropping
  <2>3. QED
    BY <2>1, <2>2
<1>3. QED
  BY <1>2

\* A step at the file h of group k that leaves it unlisted, shared, or to s.
LEMMA DropEntryFrame ==
  ASSUME UnsharedFilesAreDropped, NEW s \in Sockets, NEW k, NEW h,
         \A g \in GroupIds, f \in FileNames :
           \/ g = k /\ f = h
           \/ SHA'[g][f] = SHA[g][f] /\ ipAndPorts'[g][f] = ipAndPorts[g][f],
         \A r \in Sockets \ {s} :
           task'[r] = task[r] \/ (task[r].group = k /\ task[r].file = h),
         \A g \in GroupIds, f \in FileNames : IsDropping(s, g, f) => g = k /\ f = h,
         SHA'[k][h] = None \/ ipAndPorts'[k][h] # {} \/ IsDropping(s, k, h)'
  PROVE  UnsharedFilesAreDropped'
<1> SUFFICES ASSUME NEW g \in GroupIds, NEW f \in FileNames, SHA'[g][f] # None,
                    ipAndPorts'[g][f] = {}
             PROVE  \E r \in Sockets : IsDropping(r, g, f)'
  BY DEF UnsharedFilesAreDropped, ListFiles
<1>1. CASE g = k /\ f = h
  BY <1>1
<1>2. CASE ~(g = k /\ f = h)
  <2>1. PICK r \in Sockets : IsDropping(r, g, f)
    BY <1>2 DEF UnsharedFilesAreDropped, ListFiles
  <2>2. r # s /\ task'[r] = task[r]
    BY <1>2, <2>1 DEF IsDropping
  <2>3. IsDropping(r, g, f)'
    BY <2>1, <2>2 DEF IsDropping
  <2>4. QED
    BY <2>3
<1>3. QED
  BY <1>1, <1>2

LEMMA DropStep ==
  ASSUME TInv, UnsharedFilesAreDropped, NEW s \in Sockets, ThreadContinues(s)
  PROVE  UnsharedFilesAreDropped'
<1> USE NoneIsAbsent
<1> USE DEF accountVars, sessionVars, memberVars, shareVars, vars, NoTask
<1>1. /\ task \in [Sockets -> Tasks] /\ task[s] \in Tasks /\ Fits(task[s], User(s))
      /\ SHA \in [GroupIds -> [FileNames -> Optional(Digests)]]
      /\ ipAndPorts \in [GroupIds -> [FileNames -> SUBSET Optional(Addrs)]]
  BY DEF TInv, ThreadsTypeOK, TasksFit
<1>2. CASE CommandStarts(s)
  <2>1. PICK t : ReadAndGo(s, t) /\ Idle(s)
    BY <1>2
    DEF CommandStarts, CreateUserStarts, LoginStarts, LogoutStarts, CreateGroupStarts,
        JoinStarts, LeaveStarts, AcceptStarts, UploadStarts, DownloadStarts
  <2>2. QED
    BY <1>1, <2>1, DropFrame DEF ReadAndGo, Go, Idle, At, IsDropping
<1>3. CASE Close(s)
  BY <1>3 DEF Close, UnsharedFilesAreDropped, ListFiles, IsDropping
<1>4. CASE AccountStep(s)
  <2>1. CASE InsertUser(s)
    BY <1>1, <2>1, DropFrame DEF InsertUser, Return, Go, At, IsDropping
  <2>2. CASE SetLoggedIn(s)
    BY <1>1, <2>2, DropFrame DEF SetLoggedIn, GoTo, Go, At, IsDropping, Tasks
  <2>3. CASE InsertSession(s)
    BY <1>1, <2>3, DropFrame DEF InsertSession, Return, Go, At, IsDropping
  <2>4. CASE SetLoggedOut(s)
    BY <1>1, <2>4, DropFrame DEF SetLoggedOut, GoTo, Go, At, IsDropping, Tasks
  <2>5. CASE EraseSession(s)
    BY <1>1, <2>5, DropFrame DEF EraseSession, Return, Go, At, IsDropping
  <2>6. QED
    BY <1>4, <2>1, <2>2, <2>3, <2>4, <2>5 DEF AccountStep
<1>5. CASE GroupStep(s)
  <2>1. CASE InsertGroup(s)
    BY <1>1, <2>1, DropFrame DEF InsertGroup, Return, Go, At, IsDropping
  <2>2. CASE InsertRequest(s)
    BY <1>1, <2>2, DropFrame DEF InsertRequest, Return, Go, At, IsDropping
  <2>3. CASE FindRequest(s)
    BY <1>1, <2>3, DropFrame DEF FindRequest, ReadAndGo, Go, At, IsDropping, Tasks
  <2>4. CASE CheckFree(s)
    BY <1>1, <2>4, DropFrame DEF CheckFree, ReadAndGo, Go, At, IsDropping, Tasks
  <2>5. CASE SetGroup(s)
    BY <1>1, <2>5, DropFrame DEF SetGroup, GoTo, Go, At, IsDropping, Tasks
  <2>6. CASE EraseRequest(s)
    BY <1>1, <2>6, DropFrame DEF EraseRequest, GoTo, Go, At, IsDropping, Tasks
  <2>7. CASE InsertParticipant(s)
    BY <1>1, <2>7, DropFrame DEF InsertParticipant, Return, Go, At, IsDropping
  <2>8. CASE EraseParticipant(s)
    BY <1>1, <2>8, DropFrame DEF EraseParticipant, Go, At, IsDropping
  <2>9. CASE ClearGroup(s)
    BY <1>1, <2>9, DropFrame DEF ClearGroup, Return, Go, At, IsDropping
  <2>10. QED
    BY <1>5, <2>1, <2>2, <2>3, <2>4, <2>5, <2>6, <2>7, <2>8, <2>9 DEF GroupStep
<1>6. CASE RemovalStep(s)
  <2>1. CASE CopyUser(s)
    BY <1>1, <2>1, DropFrame DEF CopyUser, ReadAndGo, Go, At, IsDropping, Tasks
  <2>2. CASE EraseAddress(s)
    <3> PICK k, h : k = task[s].group /\ h = task[s].file
      OBVIOUS
    <3>1. \A g \in GroupIds, f \in FileNames :
            \/ g = k /\ f = h
            \/ SHA'[g][f] = SHA[g][f] /\ ipAndPorts'[g][f] = ipAndPorts[g][f]
      BY <1>1, <2>2 DEF EraseAddress
    <3>2. IsDropping(s, k, h)'
      BY <1>1, <2>2 DEF EraseAddress, GoTo, Go, At, IsDropping, Tasks
    <3>3. /\ \A r \in Sockets \ {s} : task'[r] = task[r]
          /\ \A g \in GroupIds, f \in FileNames : ~IsDropping(s, g, f)
      BY <1>1, <2>2 DEF EraseAddress, GoTo, Go, At, IsDropping
    <3>4. QED
      BY <3>1, <3>2, <3>3, DropEntryFrame
  <2>3. CASE CheckSize(s)
    <3>1. CASE NobodyIsLeft(s)
      BY <1>1, <2>3, <3>1, DropFrame DEF CheckSize, ReadAndGo, Go, At, IsDropping, Tasks
    <3>2. CASE ~NobodyIsLeft(s)
      <4>1. /\ UNCHANGED <<SHA, ipAndPorts>>
            /\ \A r \in Sockets \ {s} : task'[r] = task[r]
        BY <1>1, <2>3, <3>2 DEF CheckSize, ReadAndGo, Go
      <4>2. ipAndPorts[task[s].group][task[s].file] # {}
        BY <3>2 DEF NobodyIsLeft
      <4>3. QED
        BY <4>1, <4>2 DEF UnsharedFilesAreDropped, ListFiles, IsDropping
    <3>3. QED
      BY <3>1, <3>2
  <2>4. CASE DropEntry(s)
    <3>1. /\ SHA'[task[s].group][task[s].file] = None
          /\ \A g \in GroupIds, f \in FileNames :
               \/ task[s].group = g /\ task[s].file = f
               \/ ipAndPorts'[g][f] = ipAndPorts[g][f] /\ SHA'[g][f] = SHA[g][f]
      BY <1>1, <2>4 DEF DropEntry, Fits, EntrySteps, At
    <3>2. \A r \in Sockets \ {s} :
            \/ task'[r] = task[r]
            \/ task[r].group = task[s].group /\ task[r].file = task[s].file
      BY <2>4 DEF DropEntry, PointTo
    <3>3. \A g \in GroupIds, f \in FileNames :
            IsDropping(s, g, f) => g = task[s].group /\ f = task[s].file
      BY DEF IsDropping
    <3>4. QED
      BY <3>1, <3>2, <3>3, DropEntryFrame
  <2>5. CASE ClearFiles(s)
    BY <1>1, <2>5, DropFrame DEF ClearFiles, Go, At, IsDropping
  <2>6. ASSUME NEW f \in FileNames, FindEntry(s, f)
        PROVE  UnsharedFilesAreDropped'
    BY <1>1, <2>6, DropFrame DEF FindEntry, ReadAndGo, Go, At, IsDropping, Tasks
  <2>7. QED
    BY <1>6, <2>1, <2>2, <2>3, <2>4, <2>5, <2>6 DEF RemovalStep
<1>7. CASE ShareStep(s)
  <2>1. CASE CopyFile(s)
    BY <1>1, <2>1, DropFrame DEF CopyFile, ReadAndGo, Go, At, IsDropping, Tasks
  <2>2. CASE CopyAddress(s)
    BY <1>1, <2>2, DropFrame DEF CopyAddress, ReadAndGo, Go, At, IsDropping, Tasks
  <2>3. CASE FindFile(s)
    BY <1>1, <2>3, DropFrame DEF FindFile, ReadAndGo, Go, At, IsDropping, Tasks
  <2>4. CASE InsertFile(s)
    <3>1. CASE SHA[task[s].group][task[s].file] # None
      <4>1. UNCHANGED <<SHA, ipAndPorts>>
        BY <1>1, <2>4, <3>1 DEF InsertFile, Inserted
      <4>2. QED
        BY <1>1, <2>4, <4>1, DropFrame DEF InsertFile, GoTo, Go, At, IsDropping, Tasks
    <3>2. CASE SHA[task[s].group][task[s].file] = None
      <4>1. /\ ipAndPorts'[task[s].group][task[s].file] # {}
            /\ \A g \in GroupIds, f \in FileNames :
                 \/ task[s].group = g /\ task[s].file = f
                 \/ ipAndPorts'[g][f] = ipAndPorts[g][f] /\ SHA'[g][f] = SHA[g][f]
        BY <1>1, <2>4, <3>2 DEF InsertFile, Inserted, Fits, AddSteps, At
      <4>2. /\ \A r \in Sockets \ {s} : task'[r] = task[r]
            /\ \A g \in GroupIds, f \in FileNames : ~IsDropping(s, g, f)
        BY <1>1, <2>4 DEF InsertFile, GoTo, Go, At, IsDropping, Tasks
      <4>3. QED
        BY <4>1, <4>2, DropEntryFrame
    <3>3. QED
      BY <3>1, <3>2
  <2>5. CASE FindAgain(s)
    BY <1>1, <2>5, DropFrame DEF FindAgain, ReadAndGo, Go, At, IsDropping, Tasks
  <2>6. CASE AddAddress(s)
    <3>1. /\ ipAndPorts'[task[s].group][task[s].file] # {}
          /\ \A g \in GroupIds, f \in FileNames :
               \/ task[s].group = g /\ task[s].file = f
               \/ ipAndPorts'[g][f] = ipAndPorts[g][f] /\ SHA'[g][f] = SHA[g][f]
      BY <1>1, <2>6 DEF AddAddress, Fits, AddSteps, At
    <3>2. /\ \A r \in Sockets \ {s} : task'[r] = task[r]
          /\ \A g \in GroupIds, f \in FileNames : ~IsDropping(s, g, f)
      BY <1>1, <2>6 DEF AddAddress, GoTo, Go, At, IsDropping, Tasks
    <3>3. QED
      BY <3>1, <3>2, DropEntryFrame
  <2>7. CASE AddFile(s)
    BY <1>1, <2>7, DropFrame DEF AddFile, Return, Go, At, IsDropping
  <2>8. QED
    BY <1>7, <2>1, <2>2, <2>3, <2>4, <2>5, <2>6, <2>7 DEF ShareStep
<1>8. CASE UseOfErased(s)
  <2>1. \A g \in GroupIds, f \in FileNames : ~IsDropping(s, g, f)
    BY <1>8 DEF UseOfErased, At, IsDropping
  <2>2. PICK t : ReadAndGo(s, t)
    BY <1>8 DEF UseOfErased
  <2>3. QED
    BY <1>1, <2>1, <2>2, DropFrame DEF ReadAndGo, Go
<1>9. QED
  BY <1>2, <1>3, <1>4, <1>5, <1>6, <1>7, <1>8 DEF ThreadContinues

\* No file stays listed without a seeder: of several removals, and uploads,
\* that overlap, the last to take an address out also takes the file out.
THEOREM ThreadsDropUnshared == ThreadsSpec => []UnsharedFilesAreDropped
<1>1. ThreadsInit => UnsharedFilesAreDropped
  BY DEF ThreadsInit, Init, UnsharedFilesAreDropped, ListFiles
<1>2. TInv /\ UnsharedFilesAreDropped /\ [ThreadsNext]_threadVars => UnsharedFilesAreDropped'
  <2> SUFFICES ASSUME TInv, UnsharedFilesAreDropped, [ThreadsNext]_threadVars
               PROVE  UnsharedFilesAreDropped'
    OBVIOUS
  <2>1. ASSUME NEW how \in {"quit", "sigpipe", "segv", "abort"}, AllThreadsEnd(how)
        PROVE  UnsharedFilesAreDropped'
    BY <2>1 DEF AllThreadsEnd, ProcessEnds, UnsharedFilesAreDropped, ListFiles
  <2>2. ASSUME UNCHANGED <<SHA, ipAndPorts, task>>
        PROVE  UnsharedFilesAreDropped'
    BY <2>2 DEF UnsharedFilesAreDropped, ListFiles, IsDropping
  <2>3. QED
    BY <2>1, <2>2, DropStep, StepIsOne
    DEF Accept, Restart, threadVars, vars, accountVars, sessionVars, memberVars, shareVars
<1>3. QED
  BY <1>1, <1>2, ThreadsInitInv, ThreadsNextInv, PTL DEF ThreadsSpec

----------------------------------------------------------------------------
(* What is entered once and not replaced.                                  *)

\* The steps that change the accounts, the admins or the digests.
LEMMA WritersOfKeys ==
  ASSUME NEW s \in Sockets, ThreadContinues(s)
  PROVE  /\ InsertUser(s) \/ UNCHANGED password
         /\ InsertGroup(s) \/ UNCHANGED adminId
         /\ InsertFile(s) \/ DropEntry(s) \/ UNCHANGED SHA
<1> USE DEF accountVars, sessionVars, memberVars, shareVars, vars
<1>1. CASE CommandStarts(s)
  <2>1. PICK t : ReadAndGo(s, t)
    BY <1>1
    DEF CommandStarts, CreateUserStarts, LoginStarts, LogoutStarts, CreateGroupStarts,
        JoinStarts, LeaveStarts, AcceptStarts, UploadStarts, DownloadStarts
  <2>2. QED
    BY <2>1 DEF ReadAndGo
<1>2. CASE Close(s)
  BY <1>2 DEF Close
<1>3. CASE AccountStep(s)
  BY <1>3 DEF AccountStep, InsertUser, SetLoggedIn, InsertSession, SetLoggedOut, EraseSession
<1>4. CASE GroupStep(s)
  BY <1>4
  DEF GroupStep, InsertGroup, InsertRequest, FindRequest, CheckFree, SetGroup, EraseRequest,
      InsertParticipant, EraseParticipant, ClearGroup, ReadAndGo
<1>5. CASE RemovalStep(s)
  BY <1>5
  DEF RemovalStep, CopyUser, FindEntry, EraseAddress, CheckSize, DropEntry, ClearFiles, ReadAndGo
<1>6. CASE ShareStep(s)
  BY <1>6
  DEF ShareStep, CopyFile, CopyAddress, FindFile, InsertFile, FindAgain, AddAddress, AddFile,
      ReadAndGo
<1>7. CASE UseOfErased(s)
  BY <1>7 DEF UseOfErased, ReadAndGo
<1>8. QED
  BY <1>1, <1>2, <1>3, <1>4, <1>5, <1>6, <1>7 DEF ThreadContinues

\* An account and a group, once they exist, stay with whoever created them
\* first, also when a second thread has found the name free as well.
THEOREM ThreadsKeepFirstCreator == ThreadsSpec => FirstCreatorStays
<1> DEFINE Kept == status' = "running" =>
                     /\ \A g \in GroupIds : adminId[g] # None => adminId'[g] = adminId[g]
                     /\ \A u \in Users : password[u] # None => password'[u] = password[u]
<1>1. ASSUME TInv, [ThreadsNext]_threadVars
      PROVE  [Kept]_threadVars
  <2> SUFFICES Kept
    OBVIOUS
  <2>1. ASSUME NEW how \in {"quit", "sigpipe", "segv", "abort"}, AllThreadsEnd(how)
        PROVE  Kept
    BY <2>1 DEF AllThreadsEnd, ProcessEnds
  <2>2. ASSUME UNCHANGED <<adminId, password>>
        PROVE  Kept
    BY <2>2
  <2>3. ASSUME NEW s \in Sockets, ThreadContinues(s)
        PROVE  Kept
    <3>1. /\ password \in [Users -> Optional(Passwords)]
          /\ adminId \in [GroupIds -> Optional(Users)]
      BY <1>1 DEF TInv, ThreadsTypeOK
    <3>2. InsertUser(s) => \A u \in Users : password[u] # None => password'[u] = password[u]
      BY <3>1 DEF InsertUser, Inserted
    <3>3. InsertGroup(s) => \A g \in GroupIds : adminId[g] # None => adminId'[g] = adminId[g]
      BY <3>1 DEF InsertGroup, Inserted
    <3>4. QED
      BY <2>3, <3>2, <3>3, WritersOfKeys
  <2>4. QED
    BY <1>1, <2>1, <2>2, <2>3, StepIsOne
    DEF Accept, Restart, threadVars, vars, accountVars, sessionVars, memberVars, shareVars
<1>2. QED
  BY <1>1, ThreadsInitInv, ThreadsNextInv, PTL DEF ThreadsSpec, FirstCreatorStays

\* The digest that downloads are checked against does not change under a file
\* that stays listed, also when a second upload has found the name free.
THEOREM ThreadsDigestIsStable == ThreadsSpec => DigestIsStable
<1> DEFINE Stable == \A g \in GroupIds, f \in FileNames :
                       SHA[g][f] # None /\ SHA'[g][f] # None => SHA'[g][f] = SHA[g][f]
<1>1. ASSUME TInv, [ThreadsNext]_threadVars
      PROVE  [Stable]_vars
  <2> SUFFICES Stable
    OBVIOUS
  <2>1. ASSUME NEW how \in {"quit", "sigpipe", "segv", "abort"}, AllThreadsEnd(how)
        PROVE  Stable
    BY <2>1 DEF AllThreadsEnd, ProcessEnds
  <2>2. ASSUME UNCHANGED SHA
        PROVE  Stable
    BY <2>2
  <2>3. ASSUME NEW s \in Sockets, ThreadContinues(s)
        PROVE  Stable
    <3>1. SHA \in [GroupIds -> [FileNames -> Optional(Digests)]]
      BY <1>1 DEF TInv, ThreadsTypeOK
    <3>2. InsertFile(s) => Stable
      BY <3>1 DEF InsertFile, Inserted
    <3>3. DropEntry(s) => Stable
      BY <3>1 DEF DropEntry
    <3>4. QED
      BY <2>3, <3>2, <3>3, WritersOfKeys
  <2>4. QED
    BY <1>1, <2>1, <2>2, <2>3, StepIsOne
    DEF Accept, Restart, threadVars, vars, accountVars, sessionVars, memberVars, shareVars
<1>2. QED
  BY <1>1, ThreadsInitInv, ThreadsNextInv, PTL DEF ThreadsSpec, DigestIsStable
=============================================================================
