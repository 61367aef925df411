------------------------ MODULE TrackerSerialProofs ------------------------
(***************************************************************************)
(* Module Tracker executes a command in one step, TrackerThreads access by *)
(* access.  As long as commands do not overlap the two are one tracker,    *)
(* so that what is proved of Tracker holds of its threads, and what the    *)
(* threads break is due to the overlaps and to nothing else.               *)
(***************************************************************************)
EXTENDS TrackerThreadsProofs

\* The maps as they were when the command in progress began, and as they are
\* when there is none: a history variable, which observes the threads.
VARIABLE before

Maps ==
  [password |-> password, isLoggedIn |-> isLoggedIn, ipAndPort |-> ipAndPort,
   groupId |-> groupId, files |-> files, socketToUser |-> socketToUser,
   adminId |-> adminId, pendingRequests |-> pendingRequests,
   participants |-> participants, SHA |-> SHA, ipAndPorts |-> ipAndPorts]

AllIdle == \A s \in Sockets : Idle(s)

\* At most one command is in progress.
OneAtATime == \A s, t \in Sockets : ~Idle(s) /\ ~Idle(t) => s = t

RemembersMaps == before' = IF AllIdle' THEN Maps' ELSE before

\* The threads of TrackerThreads, whenever their commands do not overlap.
SerialSpec ==
  /\ ThreadsSpec
  /\ []OneAtATime
  /\ before = Maps /\ [][RemembersMaps]_<<threadVars, before>>

\* A command takes effect when it is done.
Atomic == INSTANCE TrackerProofs WITH
  password <- before.password, isLoggedIn <- before.isLoggedIn,
  ipAndPort <- before.ipAndPort, groupId <- before.groupId, files <- before.files,
  socketToUser <- before.socketToUser, adminId <- before.adminId,
  pendingRequests <- before.pendingRequests, participants <- before.participants,
  SHA <- before.SHA, ipAndPorts <- before.ipAndPorts

----------------------------------------------------------------------------
(* What a command in progress has read and written so far.                 *)

SameAccounts == password = before.password
SameSockets == ipAndPort = before.ipAndPort /\ socketToUser = before.socketToUser
SameSessions == isLoggedIn = before.isLoggedIn /\ SameSockets
SameAdmins == adminId = before.adminId
SameMembers ==
  /\ groupId = before.groupId /\ SameAdmins
  /\ pendingRequests = before.pendingRequests /\ participants = before.participants
SameIndex == SHA = before.SHA /\ ipAndPorts = before.ipAndPorts
SameShares == files = before.files /\ SameIndex
Same == SameAccounts /\ SameSessions /\ SameMembers /\ SameShares

\* What LoginStarts has seen.
MayLogin(s, u) ==
  before.socketToUser[s] = None /\ before.password[u] # None /\ u \notin before.isLoggedIn

LoginSoFar(s) ==
  LET u == task[s].user
  IN  /\ At(s, "insert_user") => Same /\ before.password[u] = None
      /\ At(s, "set_logged_in") => Same /\ MayLogin(s, u)
      /\ At(s, "insert_session") =>
           /\ SameAccounts /\ SameSockets /\ SameMembers /\ SameShares
           /\ MayLogin(s, u) /\ isLoggedIn = before.isLoggedIn \cup {u}

\* What JoinStarts has seen, of an admin, or AcceptStarts and FindRequest.
MayBeAdmitted(s) ==
  LET t == task[s]
  IN  \/ t.then = "insert_participant" /\ t.user = User(s) /\ before.adminId[t.group] = User(s)
      \/ /\ t.then = "erase_request"
         /\ Atomic!MayAccept(s, t.group) /\ t.user \in before.pendingRequests[t.group]

Admitted(s) ==
  LET t == task[s]
  IN  /\ MayBeAdmitted(s) /\ before.groupId[t.user] = None
      /\ groupId = [before.groupId EXCEPT ![t.user] = t.group]
      /\ SameAccounts /\ SameSessions /\ SameAdmins /\ SameShares
      /\ participants = before.participants

GroupSoFar(s) ==
  LET t == task[s]
      u == User(s)
      g == task[s].group
  IN  /\ At(s, "insert_group") => Same /\ before.adminId[g] = None
      /\ At(s, "insert_request") =>
           Same /\ before.groupId[u] = None /\ before.adminId[g] \notin {None, u}
      /\ At(s, "find_request") => Same /\ Atomic!MayAccept(s, g)
      /\ At(s, "check_free") => Same /\ MayBeAdmitted(s)
      /\ At(s, "set_group") => Same /\ MayBeAdmitted(s) /\ before.groupId[t.user] = None
      /\ At(s, "erase_request") =>
           /\ Admitted(s) /\ t.then = "erase_request"
           /\ pendingRequests = before.pendingRequests
      /\ At(s, "insert_participant") =>
           /\ Admitted(s)
           /\ pendingRequests = IF t.then = "insert_participant" THEN before.pendingRequests
                                ELSE [before.pendingRequests EXCEPT ![g] = @ \ {t.user}]

ShareSoFar(s) ==
  LET t == task[s]
      g == task[s].group
      f == task[s].file
      a == before.ipAndPort[User(s)]
  IN  /\ task[s].at \in AddSteps => Atomic!InGroup(s, g) /\ SameAccounts /\ SameSessions /\ SameMembers
      /\ task[s].at \in AddSteps \ {"copy_file"} =>
           /\ t.then \in {"find_file", "find_again"}
           /\ t.then = "find_again" => before.SHA[g][f] # None
      /\ task[s].at \in AddSteps \ {"add_file"} => SameShares
      /\ task[s].at \in {"find_file", "insert_file", "find_again", "add_address"} => t.addr = a
      /\ At(s, "insert_file") => before.SHA[g][f] = None /\ t.then = "find_file"
      /\ task[s].at \in {"find_again", "add_address"} => before.SHA[g][f] # None
      /\ At(s, "add_file") =>
           /\ files = before.files
           /\ ipAndPorts = [before.ipAndPorts EXCEPT ![g][f] = @ \cup {a}]
           /\ SHA = IF before.SHA[g][f] = None THEN [before.SHA EXCEPT ![g][f] = t.arg]
                                               ELSE before.SHA

\* leave_group has taken u out of the participants.
HasLeft(u) ==
  LET g == before.groupId[u]
  IN  before.adminId[g] # None /\ participants = [before.participants EXCEPT ![g] = @ \ {u}]

\* Who is being removed, in logout or in leave_group, and what else the
\* command has changed.
RemovalOf(s, then) ==
  LET u == User(s)
  IN  /\ before.groupId[u] # None
      /\ SameAccounts /\ SameSockets /\ SameAdmins
      /\ groupId = before.groupId /\ pendingRequests = before.pendingRequests
      /\ then = "set_logged_out" => participants = before.participants
      /\ then = "clear_group" => HasLeft(u)

\* The removal has erased the addresses of u from these files, and dropped
\* those of the settled ones that nobody else shares.
Removed(u, erased, settled) ==
  \A g \in GroupIds, f \in FileNames :
    /\ ipAndPorts[g][f] = IF g = before.groupId[u] /\ f \in erased
                          THEN Atomic!SeedersWithout(u, f) ELSE before.ipAndPorts[g][f]
    /\ SHA[g][f] = IF g = before.groupId[u] /\ f \in settled /\ Atomic!SeedersWithout(u, f) = {}
                   THEN None ELSE before.SHA[g][f]

Emptied(u) ==
  /\ Removed(u, before.files[u], before.files[u])
  /\ files = [before.files EXCEPT ![u] = {}]

LoopSoFar(s) ==
  LET t == task[s]
      u == User(s)
      done == before.files[User(s)] \ task[s].names
  IN  /\ RemovalOf(s, t.then) /\ isLoggedIn = before.isLoggedIn /\ files = before.files
      /\ t.group = before.groupId[u] /\ t.addr = before.ipAndPort[u]
      /\ t.names \subseteq before.files[u]
      /\ t.at \in EntrySteps => t.file \in t.names
      /\ t.at \in {"find_entry", "erase_address"} => Removed(u, done, done)
      /\ t.at \in {"check_size", "drop_entry"} => Removed(u, done \cup {t.file}, done)
      /\ t.at = "drop_entry" => ipAndPorts[t.group][t.file] = {}

RemovalSoFar(s) ==
  LET t == task[s]
      u == User(s)
  IN  /\ At(s, "erase_participant") => Same /\ Atomic!InGroup(s, t.group)
      /\ At(s, "copy_user") =>
           RemovalOf(s, t.then) /\ isLoggedIn = before.isLoggedIn /\ SameShares
      /\ t.at \in {"find_entry", "erase_address", "check_size", "drop_entry"} => LoopSoFar(s)
      /\ At(s, "clear_group") =>
           RemovalOf(s, "clear_group") /\ isLoggedIn = before.isLoggedIn /\ Emptied(u)
      /\ t.at \in SessionSteps =>
           /\ \/ before.groupId[u] = None /\ SameAccounts /\ SameSockets /\ SameMembers /\ SameShares
              \/ RemovalOf(s, "set_logged_out") /\ Emptied(u)
           /\ isLoggedIn = IF At(s, "erase_session") THEN before.isLoggedIn \ {u}
                                                     ELSE before.isLoggedIn

SoFar(s) == LoginSoFar(s) /\ GroupSoFar(s) /\ ShareSoFar(s) /\ RemovalSoFar(s)

Busy(s) == peer[s] # None /\ status = "running" /\ task[s].valid /\ SoFar(s)

SerialInv ==
  /\ AllIdle => before = Maps
  /\ \A s \in Sockets : ~Idle(s) => Busy(s)

----------------------------------------------------------------------------
(* Frames.                                                                 *)

LEMMA MapsAreFields ==
  ASSUME before = Maps
  PROVE  Same
BY DEF Maps, Same, SameAccounts, SameSockets, SameSessions, SameAdmins, SameMembers,
       SameIndex, SameShares

\* A command is on its way: the abstract tracker has not moved.
LEMMA StaysBusy ==
  ASSUME OneAtATime', RemembersMaps, NEW s \in Sockets, ~Idle(s)', Busy(s)'
  PROVE  SerialInv' /\ before' = before
<1>1. ~AllIdle'
  BY DEF AllIdle
<1>2. \A r \in Sockets : ~Idle(r)' => r = s
  BY DEF OneAtATime
<1>3. QED
  BY <1>1, <1>2 DEF SerialInv, RemembersMaps

\* What the abstract tracker looks like after a command.
LEMMA ComesToRest ==
  ASSUME AllIdle', RemembersMaps
  PROVE  /\ SerialInv'
         /\ before'.password = password' /\ before'.isLoggedIn = isLoggedIn'
         /\ before'.ipAndPort = ipAndPort' /\ before'.groupId = groupId'
         /\ before'.files = files' /\ before'.socketToUser = socketToUser'
         /\ before'.adminId = adminId' /\ before'.pendingRequests = pendingRequests'
         /\ before'.participants = participants'
         /\ before'.SHA = SHA' /\ before'.ipAndPorts = ipAndPorts'
<1>1. before' = Maps'
  BY DEF RemembersMaps
<1>2. SerialInv'
  BY <1>1 DEF SerialInv, AllIdle
<1>3. QED
  BY <1>1, <1>2 DEF Maps

\* The thread of s has the turn.
LEMMA OthersAreIdle ==
  ASSUME task \in [Sockets -> Tasks], OneAtATime, OneAtATime', NEW s \in Sockets, NEW t,
         Go(s, t), ~Idle(s) \/ t.at # "idle"
  PROVE  /\ \A r \in Sockets \ {s} : Idle(r) /\ Idle(r)'
         /\ task'[s] = t
         /\ t.at = "idle" => AllIdle'
<1>1. task'[s] = t /\ \A r \in Sockets \ {s} : task'[r] = task[r]
  BY DEF Go
<1>2. \A r \in Sockets \ {s} : Idle(r) /\ Idle(r)'
  BY <1>1 DEF OneAtATime, Idle, At
<1>3. t.at = "idle" => AllIdle'
  BY <1>1, <1>2 DEF AllIdle, Idle, At
<1>4. QED
  BY <1>1, <1>2, <1>3

\* A step that does not reach the maps, nor any thread.
LEMMA SoFarStays ==
  ASSUME UNCHANGED <<password, isLoggedIn, ipAndPort, groupId, files, socketToUser, adminId,
                     pendingRequests, participants, SHA, ipAndPorts, task, before>>,
         NEW s \in Sockets, SoFar(s), peer'[s] = peer[s]
  PROVE  SoFar(s)'
<1>1. LoginSoFar(s)'
  BY DEF SoFar, LoginSoFar, MayLogin, At, Same, SameAccounts, SameSockets, SameSessions,
         SameAdmins, SameMembers, SameIndex, SameShares
<1>2. GroupSoFar(s)'
  BY DEF SoFar, GroupSoFar, MayBeAdmitted, Admitted, At, User, Same, SameAccounts,
         SameSockets, SameSessions, SameAdmins, SameMembers, SameIndex, SameShares,
         Atomic!MayAccept, Atomic!InGroup, Atomic!HasSession, Atomic!User
<1>3. ShareSoFar(s)'
  BY DEF SoFar, ShareSoFar, At, User, Same, SameAccounts,
         SameSockets, SameSessions, SameAdmins, SameMembers, SameIndex, SameShares,
         Atomic!InGroup, Atomic!HasSession, Atomic!User
<1>4. RemovalSoFar(s)'
  <2> USE DEF User, SameAccounts, SameSockets, SameSessions, SameAdmins, SameMembers,
              SameIndex, SameShares
  <2>1. \A then \in STRING : RemovalOf(s, then)' = RemovalOf(s, then)
    BY DEF RemovalOf, HasLeft
  <2>2. Emptied(User(s))' = Emptied(User(s))
    BY DEF Emptied, Removed, Atomic!SeedersWithout
  <2>3. LoopSoFar(s)' = LoopSoFar(s)
    BY DEF LoopSoFar, RemovalOf, HasLeft, Removed, Atomic!SeedersWithout
  <2>4. (Same /\ Atomic!InGroup(s, task[s].group))' = (Same /\ Atomic!InGroup(s, task[s].group))
    BY DEF Same, Atomic!InGroup, Atomic!HasSession, Atomic!User
  <2>5. QED
    BY <2>1, <2>2, <2>3, <2>4 DEF SoFar, RemovalSoFar, RemovalOf, HasLeft, At
<1>5. QED
  BY <1>1, <1>2, <1>3, <1>4 DEF SoFar

LEMMA StaysInCommand ==
  ASSUME task \in [Sockets -> Tasks], OneAtATime', RemembersMaps, NEW s \in Sockets, NEW t,
         task'[s] = t, t.at # "idle"
  PROVE  ~Idle(s)' /\ before' = before
<1>1. ~Idle(s)'
  BY DEF Idle, At
<1>2. QED
  BY <1>1 DEF AllIdle, RemembersMaps

\* The abstract tracker does not move while a command is in progress.
LEMMA CommandGoesOn ==
  ASSUME task \in [Sockets -> Tasks], OneAtATime', RemembersMaps, NEW s \in Sockets,
         task'[s].at # "idle", task'[s].valid, SoFar(s)',
         status = "running", peer[s] # None, UNCHANGED <<peer, status>>
  PROVE  SerialInv' /\ UNCHANGED Atomic!vars
<1>1. ~Idle(s)' /\ before' = before
  BY StaysInCommand
<1>2. Busy(s)'
  BY DEF Busy
<1>3. SerialInv'
  BY <1>1, <1>2, StaysBusy
<1>4. QED
  BY <1>1, <1>3
  DEF Atomic!vars, Atomic!accountVars, Atomic!sessionVars, Atomic!memberVars, Atomic!shareVars

\* A command has been refused.
LEMMA CommandIsRefused ==
  ASSUME AllIdle', RemembersMaps, UNCHANGED vars, Same
  PROVE  SerialInv' /\ UNCHANGED Atomic!vars
<1>1. QED
  BY ComesToRest
  DEF Same, SameAccounts, SameSockets, SameSessions, SameAdmins, SameMembers, SameIndex, SameShares,
      vars, accountVars, sessionVars, memberVars, shareVars,
      Atomic!vars, Atomic!accountVars, Atomic!sessionVars, Atomic!memberVars, Atomic!shareVars

----------------------------------------------------------------------------
(* The steps of a command.                                                 *)

LEMMA StartIsSerial ==
  ASSUME TInv, SerialInv, OneAtATime, OneAtATime', RemembersMaps, status = "running",
         NEW s \in Sockets, CommandStarts(s)
  PROVE  SerialInv' /\ UNCHANGED Atomic!vars
<1> DEFINE Starts(t) == t.at # "idle" /\ t.valid /\ ReadAndGo(s, t)
<1> USE DEF NoTask
<1>1. ASSUME NEW t, Starts(t), Idle(s), peer[s] # None,
             Same /\ before' = before /\ UNCHANGED vars /\ task'[s] = t /\ Same' => SoFar(s)'
      PROVE  SerialInv' /\ UNCHANGED Atomic!vars
  <2>1. task \in [Sockets -> Tasks]
    BY DEF TInv, ThreadsTypeOK
  <2>2. task'[s] = t
    BY <1>1, <2>1, OthersAreIdle DEF ReadAndGo
  <2>3. \A r \in Sockets \ {s} : Idle(r)
    BY <1>1, <2>1, OthersAreIdle DEF ReadAndGo
  <2>4. Same
    BY <1>1, <2>3, MapsAreFields DEF SerialInv, AllIdle
  <2>5. before' = before
    BY <1>1, <2>1, <2>2, StaysInCommand
  <2>6. UNCHANGED vars
    BY <1>1 DEF ReadAndGo
  <2>7. Same'
    BY <2>4, <2>5, <2>6
    DEF Same, SameAccounts, SameSockets, SameSessions, SameAdmins, SameMembers, SameIndex, SameShares,
        vars, accountVars, sessionVars, memberVars, shareVars
  <2>8. SoFar(s)'
    BY <1>1, <2>2, <2>4, <2>5, <2>6, <2>7
  <2>9. UNCHANGED <<peer, status>>
    BY <2>6 DEF vars
  <2>10. QED
    BY <1>1, <2>1, <2>2, <2>8, <2>9, CommandGoesOn
<1> USE DEF SoFar, LoginSoFar, GroupSoFar, ShareSoFar, RemovalSoFar, At
<1> USE DEF AddSteps, SessionSteps
<1>0. ASSUME NEW g \in GroupIds, InGroup(s, g), Same, before' = before, UNCHANGED vars
      PROVE  Atomic!InGroup(s, g)'
  BY <1>0 DEF InGroup, HasSession, User, Atomic!InGroup, Atomic!HasSession, Atomic!User,
     Same, SameMembers, SameAdmins, SameSessions, SameSockets, vars
<1>2. ASSUME NEW u \in Users, NEW p \in Passwords, CreateUserStarts(s, u, p)
      PROVE  SerialInv' /\ UNCHANGED Atomic!vars
  <2> DEFINE t == [NoTask EXCEPT !.at = "insert_user", !.user = u, !.arg = p]
  <2>1. Idle(s) /\ peer[s] # None /\ Starts(t) /\ password[u] = None
    BY <1>2 DEF CreateUserStarts
  <2>2. ASSUME Same, before' = before, task'[s] = t, Same'
        PROVE  SoFar(s)'
    <3>1. task'[s].at = "insert_user" /\ task'[s].user = u
      BY <2>2
    <3>2. before'.password[u] = None
      BY <2>1, <2>2 DEF Same, SameAccounts
    <3>3. QED
      BY <2>2, <3>1, <3>2
  <2>3. QED
    BY <1>1, <2>1, <2>2
<1>3. ASSUME NEW u \in Users, NEW p \in Passwords, LoginStarts(s, u, p)
      PROVE  SerialInv' /\ UNCHANGED Atomic!vars
  <2> DEFINE t == [NoTask EXCEPT !.at = "set_logged_in", !.user = u]
  <2>1. /\ Idle(s) /\ peer[s] # None /\ Starts(t)
        /\ socketToUser[s] = None /\ password[u] = p /\ u \notin isLoggedIn
    BY <1>3 DEF LoginStarts, LoggedInElsewhere
  <2>2. p # None
    BY NoneIsAbsent
  <2>3. ASSUME Same, before' = before, task'[s] = t, Same'
        PROVE  SoFar(s)'
    <3>1. MayLogin(s, u)'
      BY <2>1, <2>2, <2>3 DEF MayLogin, Same, SameAccounts, SameSessions, SameSockets
    <3>2. QED
      BY <2>3, <3>1
  <2>4. QED
    BY <1>1, <2>1, <2>3
<1>4. CASE LogoutStarts(s)
  <2>0. Idle(s) /\ peer[s] # None
    BY <1>4 DEF LogoutStarts, HasSession
  <2>1. CASE groupId[User(s)] # None
    <3> DEFINE t == [NoTask EXCEPT !.at = "copy_user", !.then = "set_logged_out"]
    <3>1. Starts(t)
      BY <1>4, <2>1 DEF LogoutStarts
    <3>2. ASSUME Same, before' = before, UNCHANGED vars, task'[s] = t, Same'
          PROVE  SoFar(s)'
      <4>1. task'[s].at = "copy_user" /\ task'[s].then = "set_logged_out"
        BY <3>2
      <4>2. before'.groupId[User(s)] # None /\ User(s)' = User(s)
        BY <2>1, <3>2 DEF Same, SameMembers, User, vars, sessionVars
      <4>3. RemovalOf(s, "set_logged_out")'
        BY <3>2, <4>2 DEF RemovalOf, Same, SameSessions, SameMembers
      <4>4. QED
        BY <3>2, <4>1, <4>3 DEF Same, SameSessions
    <3>3. QED
      BY <1>1, <2>0, <3>1, <3>2
  <2>2. CASE groupId[User(s)] = None
    <3> DEFINE t == [NoTask EXCEPT !.at = "set_logged_out"]
    <3>1. Starts(t)
      BY <1>4, <2>2 DEF LogoutStarts
    <3>2. ASSUME Same, before' = before, UNCHANGED vars, task'[s] = t, Same'
          PROVE  SoFar(s)'
      <4>1. task'[s].at = "set_logged_out"
        BY <3>2
      <4>2. before'.groupId[User(s)] = None /\ User(s)' = User(s)
        BY <2>2, <3>2 DEF Same, SameMembers, User, vars, sessionVars
      <4>3. QED
        BY <3>2, <4>1, <4>2 DEF Same, SameSessions
    <3>3. QED
      BY <1>1, <2>0, <3>1, <3>2
  <2>3. QED
    BY <2>1, <2>2
<1>5. ASSUME NEW g \in GroupIds, CreateGroupStarts(s, g)
      PROVE  SerialInv' /\ UNCHANGED Atomic!vars
  <2> DEFINE t == [NoTask EXCEPT !.at = "insert_group", !.group = g]
  <2>1. Idle(s) /\ peer[s] # None /\ Starts(t) /\ adminId[g] = None
    BY <1>5 DEF CreateGroupStarts, HasSession
  <2>2. ASSUME Same, before' = before, task'[s] = t, Same'
        PROVE  SoFar(s)'
    <3>1. task'[s].at = "insert_group" /\ task'[s].group = g
      BY <2>2
    <3>2. before'.adminId[g] = None
      BY <2>1, <2>2 DEF Same, SameMembers, SameAdmins
    <3>3. QED
      BY <2>2, <3>1, <3>2
  <2>3. QED
    BY <1>1, <2>1, <2>2
<1>6. ASSUME NEW g \in GroupIds, JoinStarts(s, g)
      PROVE  SerialInv' /\ UNCHANGED Atomic!vars
  <2>1. /\ Idle(s) /\ peer[s] # None /\ groupId[User(s)] = None /\ adminId[g] # None
    BY <1>6 DEF JoinStarts, HasSession, FreeToJoin
  <2>2. CASE adminId[g] = User(s)
    <3> DEFINE t == [NoTask EXCEPT !.at = "set_group", !.then = "insert_participant",
                                   !.user = User(s), !.group = g]
    <3>1. Starts(t)
      BY <1>6, <2>2 DEF JoinStarts
    <3>2. ASSUME Same, before' = before, UNCHANGED vars, task'[s] = t, Same'
          PROVE  SoFar(s)'
      <4>1. t.then = "insert_participant" /\ t.user = User(s) /\ t.group = g /\ t.at = "set_group"
        OBVIOUS
      <4>2. before'.adminId[g] = User(s)' /\ User(s)' = User(s) /\ before'.groupId[User(s)] = None
        BY <2>1, <2>2, <3>2 DEF Same, SameMembers, SameAdmins, User, vars, sessionVars
      <4>3. MayBeAdmitted(s)' /\ (before.groupId[task[s].user] = None)'
        BY <3>2, <4>1, <4>2 DEF MayBeAdmitted
      <4>4. QED
        BY <3>2, <4>3
    <3>3. QED
      BY <1>1, <2>1, <3>1, <3>2
  <2>3. CASE adminId[g] # User(s)
    <3> DEFINE t == [NoTask EXCEPT !.at = "insert_request", !.group = g]
    <3>1. Starts(t)
      BY <1>6, <2>3 DEF JoinStarts
    <3>2. ASSUME Same, before' = before, UNCHANGED vars, task'[s] = t, Same'
          PROVE  SoFar(s)'
      <4>1. /\ before'.adminId[g] # User(s)' /\ User(s)' = User(s)
            /\ before'.groupId[User(s)] = None /\ before'.adminId[g] # None
        BY <2>1, <2>3, <3>2 DEF Same, SameMembers, SameAdmins, User, vars, sessionVars
      <4>2. QED
        BY <3>2, <4>1
    <3>3. QED
      BY <1>1, <2>1, <3>1, <3>2
  <2>4. QED
    BY <2>2, <2>3
<1>7. ASSUME NEW g \in GroupIds, LeaveStarts(s, g)
      PROVE  SerialInv' /\ UNCHANGED Atomic!vars
  <2> DEFINE t == [NoTask EXCEPT !.at = "erase_participant", !.group = g]
  <2>1. Idle(s) /\ peer[s] # None /\ InGroup(s, g) /\ Starts(t)
    BY <1>7 DEF LeaveStarts, InGroup, HasSession
  <2>2. ASSUME Same, before' = before, UNCHANGED vars, task'[s] = t, Same'
        PROVE  SoFar(s)'
    <3>1. Atomic!InGroup(s, g)'
      BY <1>0, <2>1, <2>2
    <3>2. QED
      BY <2>2, <3>1
  <2>3. QED
    BY <1>1, <2>1, <2>2
<1>8. ASSUME NEW g \in GroupIds, NEW v \in Users, AcceptStarts(s, g, v)
      PROVE  SerialInv' /\ UNCHANGED Atomic!vars
  <2> DEFINE t == [NoTask EXCEPT !.at = "find_request", !.then = "erase_request",
                                 !.user = v, !.group = g]
  <2>1. Idle(s) /\ peer[s] # None /\ InGroup(s, g) /\ adminId[g] = User(s) /\ Starts(t)
    BY <1>8 DEF AcceptStarts, MayAccept, InGroup, HasSession
  <2>2. ASSUME Same, before' = before, UNCHANGED vars, task'[s] = t, Same'
        PROVE  SoFar(s)'
    <3>1. Atomic!InGroup(s, g)'
      BY <1>0, <2>1, <2>2
    <3>2. Atomic!MayAccept(s, g)'
      BY <2>1, <2>2, <3>1 DEF Atomic!MayAccept, Atomic!User, User,
         Same, SameMembers, SameAdmins, SameSessions, SameSockets
    <3>3. QED
      BY <2>2, <3>2
  <2>3. QED
    BY <1>1, <2>1, <2>2
<1>9. ASSUME NEW g \in GroupIds, NEW f \in FileNames, NEW d \in Digests,
              UploadStarts(s, g, f, d)
       PROVE  SerialInv' /\ UNCHANGED Atomic!vars
  <2> DEFINE t == [NoTask EXCEPT !.at = "copy_address", !.then = "find_file",
                                 !.group = g, !.file = f, !.arg = d]
  <2>1. Idle(s) /\ peer[s] # None /\ InGroup(s, g) /\ Starts(t)
    BY <1>9 DEF UploadStarts, InGroup, HasSession
  <2>2. ASSUME Same, before' = before, UNCHANGED vars, task'[s] = t, Same'
        PROVE  SoFar(s)'
    <3>1. Atomic!InGroup(s, g)'
      BY <1>0, <2>1, <2>2
    <3>2. QED
      BY <2>2, <3>1 DEF Same
  <2>3. QED
    BY <1>1, <2>1, <2>2
<1>10. ASSUME NEW g \in GroupIds, NEW f \in FileNames, DownloadStarts(s, g, f)
       PROVE  SerialInv' /\ UNCHANGED Atomic!vars
  <2> DEFINE t == [NoTask EXCEPT !.at = "copy_file", !.group = g, !.file = f]
  <2>1. Idle(s) /\ peer[s] # None /\ InGroup(s, g) /\ Starts(t)
    BY <1>10 DEF DownloadStarts, InGroup, HasSession
  <2>2. ASSUME Same, before' = before, UNCHANGED vars, task'[s] = t, Same'
        PROVE  SoFar(s)'
    <3>1. Atomic!InGroup(s, g)'
      BY <1>0, <2>1, <2>2
    <3>2. QED
      BY <2>2, <3>1 DEF Same
  <2>3. QED
    BY <1>1, <2>1, <2>2
<1>11. QED
  BY <1>2, <1>3, <1>4, <1>5, <1>6, <1>7, <1>8, <1>9, <1>10 DEF CommandStarts

\* The last step of a command: the abstract tracker takes it now.
LEMMA CommandEnds ==
  ASSUME TInv, OneAtATime, OneAtATime', RemembersMaps, NEW s \in Sockets, ~Idle(s), Return(s)
  PROVE  /\ SerialInv'
         /\ before'.password = password' /\ before'.isLoggedIn = isLoggedIn'
         /\ before'.ipAndPort = ipAndPort' /\ before'.groupId = groupId'
         /\ before'.files = files' /\ before'.socketToUser = socketToUser'
         /\ before'.adminId = adminId' /\ before'.pendingRequests = pendingRequests'
         /\ before'.participants = participants'
         /\ before'.SHA = SHA' /\ before'.ipAndPorts = ipAndPorts'
<1>1. task \in [Sockets -> Tasks]
  BY DEF TInv, ThreadsTypeOK
<1>2. AllIdle'
  BY <1>1, OthersAreIdle DEF Return, NoTask
<1>3. QED
  BY <1>2, ComesToRest

LEMMA AtomicCommand ==
  ASSUME NEW s \in Sockets, status = "running", Atomic!Command(s)
  PROVE  Atomic!Next
BY DEF Atomic!Next

\* The loop over the files has done what removeFilesOfUserFromGroup does.
LEMMA LoopIsRemoval ==
  ASSUME TInv, Atomic!TypeOK, NEW u \in Users, before.groupId[u] # None, Emptied(u),
         before'.SHA = SHA, before'.ipAndPorts = ipAndPorts, before'.files = files
  PROVE  Atomic!RemoveFilesOfUserFromGroup(u)
<1> DEFINE g == before.groupId[u]
<1>1. g \in GroupIds
  BY DEF Atomic!TypeOK, Atomic!Optional
<1>2. /\ ipAndPorts \in [GroupIds -> [FileNames -> SUBSET Optional(Addrs)]]
      /\ SHA \in [GroupIds -> [FileNames -> Optional(Digests)]]
  BY DEF TInv, ThreadsTypeOK
<1>3. /\ before.ipAndPorts \in [GroupIds -> [FileNames -> SUBSET Addrs]]
      /\ before.SHA \in [GroupIds -> [FileNames -> Atomic!Optional(Digests)]]
  BY DEF Atomic!TypeOK
<1>4. ASSUME NEW h \in GroupIds, NEW f \in FileNames
      PROVE  /\ ipAndPorts[h][f] = IF h = g THEN Atomic!SeedersWithout(u, f)
                                           ELSE before.ipAndPorts[h][f]
             /\ SHA[h][f] = IF h = g /\ Atomic!FileLosesLastSeeder(u, f) THEN None
                            ELSE before.SHA[h][f]
  <2>1. f \notin before.files[u] => Atomic!SeedersWithout(u, f) = before.ipAndPorts[g][f]
    BY DEF Atomic!SeedersWithout
  <2>2. QED
    BY <2>1 DEF Emptied, Removed, Atomic!FileLosesLastSeeder
<1>5. ipAndPorts = [before.ipAndPorts EXCEPT ![g] = [f \in FileNames |-> Atomic!SeedersWithout(u, f)]]
  <2> DEFINE F == [before.ipAndPorts EXCEPT ![g] = [f \in FileNames |-> Atomic!SeedersWithout(u, f)]]
  <2>1. F = [h \in GroupIds |-> IF h = g THEN [f \in FileNames |-> Atomic!SeedersWithout(u, f)]
                                       ELSE before.ipAndPorts[h]]
    BY <1>3
  <2>2. ASSUME NEW h \in GroupIds
        PROVE  ipAndPorts[h] = F[h]
    <3>1. ipAndPorts[h] = [f \in FileNames |-> ipAndPorts[h][f]]
      BY <1>2
    <3>2. before.ipAndPorts[h] = [f \in FileNames |-> before.ipAndPorts[h][f]]
      BY <1>3
    <3>3. QED
      BY <1>4, <2>1, <3>1, <3>2
  <2>3. QED
    BY <1>2, <2>1, <2>2
<1>6. SHA = [before.SHA EXCEPT ![g] =
               [f \in FileNames |-> IF Atomic!FileLosesLastSeeder(u, f) THEN None ELSE before.SHA[g][f]]]
  <2> DEFINE F == [before.SHA EXCEPT ![g] =
               [f \in FileNames |-> IF Atomic!FileLosesLastSeeder(u, f) THEN None ELSE before.SHA[g][f]]]
  <2>1. F = [h \in GroupIds |->
               IF h = g
               THEN [f \in FileNames |-> IF Atomic!FileLosesLastSeeder(u, f) THEN None ELSE before.SHA[g][f]]
               ELSE before.SHA[h]]
    BY <1>3
  <2>2. ASSUME NEW h \in GroupIds
        PROVE  SHA[h] = F[h]
    <3>1. SHA[h] = [f \in FileNames |-> SHA[h][f]]
      BY <1>2
    <3>2. before.SHA[h] = [f \in FileNames |-> before.SHA[h][f]]
      BY <1>3
    <3>3. QED
      BY <1>4, <2>1, <3>1, <3>2
  <2>3. QED
    BY <1>2, <2>1, <2>2
<1>7. QED
  BY <1>5, <1>6 DEF Emptied, Atomic!RemoveFilesOfUserFromGroup

LEMMA FilesAreFound ==
  ASSUME Atomic!Inv, NEW u \in Users, before.groupId[u] # None
  PROVE  Atomic!EntriesFound(u)
BY NoneIsAbsent, Atomic!EntriesAreFound

LEMMA AccountIsSerial ==
  ASSUME TInv, Atomic!Inv, SerialInv, OneAtATime, OneAtATime', RemembersMaps,
         NEW s \in Sockets, AccountStep(s)
  PROVE  SerialInv' /\ (Atomic!Next \/ UNCHANGED Atomic!vars)
<1> DEFINE t == task[s]
<1> USE DEF SameAccounts, SameSockets, SameSessions, SameAdmins, SameMembers, SameIndex, SameShares
<1>0. task \in [Sockets -> Tasks] /\ t \in Tasks /\ Fits(t, User(s))
  BY DEF TInv, ThreadsTypeOK, TasksFit
<1>1. ~Idle(s) /\ peer[s] # None /\ status = "running" /\ t.valid /\ SoFar(s)
  BY DEF AccountStep, InsertUser, SetLoggedIn, InsertSession, SetLoggedOut, EraseSession,
         Idle, At, SerialInv, Busy
<1>2. CASE InsertUser(s)
  <2>1. /\ t.user \in Users /\ t.arg \in Passwords
        /\ Same /\ before.password[t.user] = None
    BY <1>0, <1>1, <1>2 DEF InsertUser, At, Fits, LoginSteps, SoFar, LoginSoFar
  <2>2. /\ password' = [password EXCEPT ![t.user] = t.arg] /\ Return(s)
        /\ UNCHANGED <<sessionVars, memberVars, shareVars, peer, status>>
    BY <1>2, <2>1 DEF InsertUser, Inserted, Same
  <2>3. SerialInv' /\ Atomic!CreateUser(s, t.user, t.arg)
    BY <1>1, <2>1, <2>2, CommandEnds
    DEF Same, sessionVars, memberVars, shareVars,
        Atomic!CreateUser, Atomic!sessionVars, Atomic!memberVars, Atomic!shareVars
  <2>4. QED
    BY <1>1, <2>1, <2>3, AtomicCommand DEF Atomic!Command
<1>3. CASE SetLoggedIn(s)
  <2>1. t.user \in Users /\ Same /\ MayLogin(s, t.user)
    BY <1>0, <1>1, <1>3 DEF SetLoggedIn, At, Fits, LoginSteps, SoFar, LoginSoFar
  <2>2. /\ isLoggedIn' = isLoggedIn \cup {t.user} /\ GoTo(s, "insert_session")
        /\ UNCHANGED <<accountVars, ipAndPort, socketToUser, memberVars, shareVars, peer, status>>
    BY <1>3 DEF SetLoggedIn, UserFound
  <2>3. task'[s] = [t EXCEPT !.at = "insert_session"]
    BY <1>0, <2>2 DEF GoTo, Go
  <2>4. task'[s].at = "insert_session" /\ task'[s].user = t.user /\ task'[s].valid
    BY <1>0, <1>1, <2>3 DEF Tasks
  <2>5. before' = before
    BY <1>0, <2>4, StaysInCommand
  <2>6. SoFar(s)'
    BY <2>1, <2>2, <2>4, <2>5
    DEF SoFar, LoginSoFar, GroupSoFar, ShareSoFar, RemovalSoFar, At, AddSteps, SessionSteps,
        Same, MayLogin, accountVars, memberVars, shareVars
  <2>7. QED
    BY <1>0, <1>1, <2>2, <2>4, <2>6, CommandGoesOn
<1>4. CASE InsertSession(s)
  <2>1. /\ t.user \in Users
        /\ SameAccounts /\ SameSockets /\ SameMembers /\ SameShares
        /\ MayLogin(s, t.user) /\ isLoggedIn = before.isLoggedIn \cup {t.user}
    BY <1>0, <1>1, <1>4 DEF InsertSession, At, Fits, LoginSteps, SoFar, LoginSoFar
  <2>2. password[t.user] \in Passwords
    BY <2>1 DEF MayLogin, TInv, ThreadsTypeOK, Optional
  <2>3. SerialInv' /\ Atomic!Login(s, t.user, password[t.user])
    BY <1>1, <1>4, <2>1, CommandEnds
    DEF InsertSession, AddressAtLogin, MayLogin, accountVars, memberVars, shareVars,
        Atomic!Login, Atomic!LoggedInElsewhere, Atomic!AddressAtLogin,
        Atomic!accountVars, Atomic!memberVars, Atomic!shareVars
  <2>4. QED
    BY <1>1, <2>1, <2>2, <2>3, AtomicCommand DEF Atomic!Command
<1>5. CASE SetLoggedOut(s)
  <2>1. /\ \/ before.groupId[User(s)] = None /\ SameAccounts /\ SameSockets /\ SameMembers /\ SameShares
           \/ RemovalOf(s, "set_logged_out") /\ Emptied(User(s))
        /\ isLoggedIn = before.isLoggedIn
    BY <1>0, <1>1, <1>5 DEF SetLoggedOut, At, SessionSteps, SoFar, RemovalSoFar
  <2>2. /\ isLoggedIn' = isLoggedIn \ {User(s)} /\ GoTo(s, "erase_session")
        /\ UNCHANGED <<accountVars, ipAndPort, socketToUser, memberVars, shareVars, peer, status>>
    BY <1>5 DEF SetLoggedOut, Unmarked
  <2>3. task'[s] = [t EXCEPT !.at = "erase_session"]
    BY <1>0, <2>2 DEF GoTo, Go
  <2>4. task'[s].at = "erase_session" /\ task'[s].valid
    BY <1>0, <1>1, <2>3 DEF Tasks
  <2>5. before' = before /\ User(s)' = User(s)
    BY <1>0, <2>2, <2>4, StaysInCommand DEF User
  <2>6. Emptied(User(s)) => Emptied(User(s))'
    BY <2>2, <2>5 DEF Emptied, Removed, Atomic!SeedersWithout, shareVars
  <2>7. RemovalOf(s, "set_logged_out") => RemovalOf(s, "set_logged_out")'
    BY <2>2, <2>5 DEF RemovalOf, HasLeft, accountVars, memberVars
  <2>8. (SameAccounts /\ SameSockets /\ SameMembers /\ SameShares) =>
          (SameAccounts /\ SameSockets /\ SameMembers /\ SameShares)'
    BY <2>2, <2>5 DEF accountVars, memberVars, shareVars
  <2>9. /\ (\/ before.groupId[User(s)] = None /\ SameAccounts /\ SameSockets /\ SameMembers /\ SameShares
            \/ RemovalOf(s, "set_logged_out") /\ Emptied(User(s)))'
        /\ isLoggedIn' = before'.isLoggedIn \ {User(s)'}
    BY ONLY <2>1, <2>2, <2>5, <2>6, <2>7, <2>8
  <2>10. RemovalSoFar(s)'
    BY <2>4, <2>9 DEF RemovalSoFar, At, SessionSteps
  <2>11. SoFar(s)'
    BY <2>4, <2>10 DEF SoFar, LoginSoFar, GroupSoFar, ShareSoFar, At, AddSteps
  <2>12. QED
    BY <1>0, <1>1, <2>2, <2>4, <2>11, CommandGoesOn
<1>6. CASE EraseSession(s)
  <2> DEFINE u == User(s)
  <2>1. /\ \/ before.groupId[u] = None /\ SameAccounts /\ SameSockets /\ SameMembers /\ SameShares
           \/ RemovalOf(s, "set_logged_out") /\ Emptied(u)
        /\ isLoggedIn = before.isLoggedIn \ {u}
        /\ u \in Users
    BY <1>0, <1>1, <1>6 DEF EraseSession, At, SessionSteps, SoFar, RemovalSoFar, Fits, LoginSteps
  <2>2. /\ SerialInv'
        /\ before'.files = files /\ before'.SHA = SHA /\ before'.ipAndPorts = ipAndPorts
        /\ before'.password = password
        /\ before'.groupId = groupId /\ before'.adminId = adminId
        /\ before'.pendingRequests = pendingRequests /\ before'.participants = participants
        /\ before'.isLoggedIn = isLoggedIn
        /\ before'.ipAndPort = [ipAndPort EXCEPT ![u] = None]
        /\ before'.socketToUser = [socketToUser EXCEPT ![s] = None]
        /\ UNCHANGED <<peer, status>>
    BY <1>1, <1>6, CommandEnds DEF EraseSession, accountVars, memberVars, shareVars
  <2>3. SameAccounts /\ SameSockets /\ SameMembers
    BY <2>1 DEF RemovalOf
  <2>4. CASE before.groupId[u] = None
    <3>1. SameShares
      BY <2>1, <2>4 DEF RemovalOf
    <3>2. Atomic!Logout(s)
      BY <1>1, <2>1, <2>2, <2>3, <2>4, <3>1, NoneIsAbsent
      DEF Atomic!Logout, Atomic!HasSession, Atomic!EndSession, Atomic!User, User,
          Atomic!accountVars, Atomic!memberVars, Atomic!shareVars
    <3>3. QED
      BY <1>1, <2>2, <3>2, AtomicCommand DEF Atomic!Command
  <2>5. CASE before.groupId[u] # None
    <3>1. Atomic!TypeOK
      BY DEF Atomic!Inv, Atomic!GroupInv
    <3>2. Atomic!RemoveFilesOfUserFromGroup(u) /\ Atomic!EntriesFound(u)
      BY <2>1, <2>2, <2>5, <3>1, LoopIsRemoval, FilesAreFound
    <3>3. Atomic!Logout(s)
      BY <1>1, <2>1, <2>2, <2>3, <2>5, <3>2, NoneIsAbsent
      DEF Atomic!Logout, Atomic!HasSession, Atomic!EndSession, Atomic!User, User,
          Atomic!accountVars, Atomic!memberVars
    <3>4. QED
      BY <1>1, <2>2, <3>3, AtomicCommand DEF Atomic!Command
  <2>6. QED
    BY <2>4, <2>5
<1>7. QED
  BY <1>2, <1>3, <1>4, <1>5, <1>6 DEF AccountStep

LEMMA MayAcceptStays ==
  ASSUME NEW s \in Sockets, NEW g, Atomic!MayAccept(s, g), before' = before, UNCHANGED peer
  PROVE  Atomic!MayAccept(s, g)'
BY DEF Atomic!MayAccept, Atomic!InGroup, Atomic!HasSession, Atomic!User

LEMMA MayBeAdmittedStays ==
  ASSUME NEW s \in Sockets, MayBeAdmitted(s), before' = before,
         UNCHANGED <<peer, socketToUser>>,
         task'[s].then = task[s].then, task'[s].user = task[s].user, task'[s].group = task[s].group
  PROVE  MayBeAdmitted(s)'
BY DEF MayBeAdmitted, Atomic!MayAccept, Atomic!InGroup, Atomic!HasSession, Atomic!User, User

LEMMA GroupIsSerial ==
  ASSUME TInv, Atomic!Inv, SerialInv, OneAtATime, OneAtATime', RemembersMaps,
         NEW s \in Sockets, GroupStep(s)
  PROVE  SerialInv' /\ (Atomic!Next \/ UNCHANGED Atomic!vars)
<1> DEFINE t == task[s]
           u == User(s)
           g == task[s].group
<1> USE DEF SameAccounts, SameSockets, SameSessions, SameAdmins, SameMembers, SameIndex, SameShares
<1>0. task \in [Sockets -> Tasks] /\ t \in Tasks /\ Fits(t, u) /\ Atomic!User(s) = before.socketToUser[s]
  BY DEF TInv, ThreadsTypeOK, TasksFit, Atomic!User
<1>1. ~Idle(s) /\ peer[s] # None /\ status = "running" /\ t.valid /\ SoFar(s)
  BY DEF GroupStep, InsertGroup, InsertRequest, FindRequest, CheckFree, SetGroup, EraseRequest,
         InsertParticipant, EraseParticipant, ClearGroup, Idle, At, SerialInv, Busy
<1>2. /\ u \in Users /\ u # None
      /\ ~At(s, "clear_group") => g \in GroupIds
      /\ t.at \in AdmitSteps => t.user \in Users
      /\ t.at \in {"find_request", "check_free"} => t.then = "erase_request"
      /\ t.at = "set_group" => t.then \in {"erase_request", "insert_participant"}
  <2>1. t.at \in GroupSteps \cup AdmitSteps \cup {"clear_group"}
    BY DEF GroupStep, InsertGroup, InsertRequest, FindRequest, CheckFree, SetGroup, EraseRequest,
           InsertParticipant, EraseParticipant, ClearGroup, At, GroupSteps, AdmitSteps
  <2>2. QED
    BY <1>0, <2>1, NoneIsAbsent DEF Fits, LoginSteps, GroupSteps, AdmitSteps, At
\* Steps after which the command goes on.
<1>3. ASSUME NEW n, task'[s] = n, n.at # "idle", n.valid, UNCHANGED <<peer, status>>,
             before' = before => SoFar(s)'
      PROVE  SerialInv' /\ (Atomic!Next \/ UNCHANGED Atomic!vars)
  BY <1>0, <1>1, <1>3, StaysInCommand, CommandGoesOn
<1>4. CASE InsertGroup(s)
  <2>1. Same /\ before.adminId[g] = None /\ g \in GroupIds
    BY <1>1, <1>2, <1>4 DEF InsertGroup, At, SoFar, GroupSoFar
  <2>2. /\ adminId' = [adminId EXCEPT ![g] = u] /\ Return(s)
        /\ UNCHANGED <<accountVars, sessionVars, groupId, pendingRequests, participants,
                       shareVars, peer, status>>
    BY <1>4, <2>1 DEF InsertGroup, Inserted, Same
  <2>3. SerialInv' /\ Atomic!CreateGroup(s, g)
    BY <1>1, <1>2, <2>1, <2>2, CommandEnds
    DEF Same, User, accountVars, sessionVars, shareVars,
        Atomic!CreateGroup, Atomic!HasSession, Atomic!User, Atomic!accountVars, Atomic!sessionVars,
        Atomic!shareVars
  <2>4. QED
    BY <1>1, <2>1, <2>3, AtomicCommand DEF Atomic!Command
<1>5. CASE InsertRequest(s)
  <2>1. /\ Same /\ before.groupId[u] = None /\ before.adminId[g] \notin {None, u} /\ g \in GroupIds
    BY <1>1, <1>2, <1>5 DEF InsertRequest, At, SoFar, GroupSoFar
  <2>2. SerialInv' /\ Atomic!JoinGroup(s, g)
    BY <1>1, <1>2, <1>5, <2>1, CommandEnds
    DEF InsertRequest, Same, User, accountVars, sessionVars, shareVars,
        Atomic!JoinGroup, Atomic!HasSession, Atomic!User, Atomic!FreeToJoin, Atomic!accountVars,
        Atomic!sessionVars, Atomic!shareVars
  <2>3. QED
    BY <1>1, <2>1, <2>2, AtomicCommand DEF Atomic!Command
<1>6. CASE FindRequest(s)
  <2>1. Same /\ Atomic!MayAccept(s, g) /\ UNCHANGED vars
    BY <1>1, <1>6 DEF FindRequest, At, SoFar, GroupSoFar, ReadAndGo
  <2>2. CASE t.user \in pendingRequests[g]
    <3> DEFINE n == [t EXCEPT !.at = "check_free"]
    <3>1. task'[s] = n /\ n.at = "check_free" /\ n.valid = t.valid /\ n.then = t.then
          /\ n.user = t.user /\ n.group = t.group
      BY <1>0, <1>6, <2>2 DEF FindRequest, ReadAndGo, Go, Tasks
    <3>2. MayBeAdmitted(s)
      BY <1>2, <1>6, <2>1, <2>2 DEF FindRequest, At, MayBeAdmitted, Same
    <3>3. ASSUME before' = before
          PROVE  SoFar(s)'
      <4>1. Same' /\ MayBeAdmitted(s)'
        BY <2>1, <3>1, <3>2, <3>3, MayBeAdmittedStays
        DEF Same, vars, accountVars, sessionVars, memberVars, shareVars
      <4>2. QED
        BY <3>1, <4>1
        DEF SoFar, LoginSoFar, GroupSoFar, ShareSoFar, RemovalSoFar, At, AddSteps, SessionSteps
    <3>4. UNCHANGED <<peer, status>>
      BY <2>1 DEF vars
    <3> HIDE DEF n
    <3>5. QED
      BY <1>1, <1>3, <3>1, <3>3, <3>4
  <2>3. CASE t.user \notin pendingRequests[g]
    <3>1. AllIdle'
      BY <1>0, <1>1, <1>6, <2>3, OthersAreIdle DEF FindRequest, ReadAndGo, NoTask
    <3>2. QED
      BY <2>1, <3>1, CommandIsRefused
  <2>4. QED
    BY <2>2, <2>3
<1>7. CASE CheckFree(s)
  <2>1. Same /\ MayBeAdmitted(s) /\ UNCHANGED vars
    BY <1>1, <1>7 DEF CheckFree, At, SoFar, GroupSoFar, ReadAndGo
  <2>2. CASE groupId[t.user] = None
    <3> DEFINE n == [t EXCEPT !.at = "set_group"]
    <3>1. task'[s] = n /\ n.at = "set_group" /\ n.valid = t.valid /\ n.then = t.then
          /\ n.user = t.user /\ n.group = t.group
      BY <1>0, <1>7, <2>2 DEF CheckFree, FreeToJoin, ReadAndGo, Go, Tasks
    <3>2. ASSUME before' = before
          PROVE  SoFar(s)'
      <4>1. Same' /\ MayBeAdmitted(s)' /\ before'.groupId[t.user] = None
        BY <2>1, <2>2, <3>1, <3>2, MayBeAdmittedStays
        DEF Same, vars, accountVars, sessionVars, memberVars, shareVars
      <4>2. QED
        BY <3>1, <4>1
        DEF SoFar, LoginSoFar, GroupSoFar, ShareSoFar, RemovalSoFar, At, AddSteps, SessionSteps
    <3>3. UNCHANGED <<peer, status>>
      BY <2>1 DEF vars
    <3> HIDE DEF n
    <3>4. QED
      BY <1>1, <1>3, <3>1, <3>2, <3>3
  <2>3. CASE groupId[t.user] # None
    <3>1. AllIdle'
      BY <1>0, <1>1, <1>7, <2>3, OthersAreIdle DEF CheckFree, FreeToJoin, ReadAndGo, NoTask
    <3>2. QED
      BY <2>1, <3>1, CommandIsRefused
  <2>4. QED
    BY <2>2, <2>3
<1>8. CASE SetGroup(s)
  <2> DEFINE n == [t EXCEPT !.at = t.then]
  <2>1. Same /\ MayBeAdmitted(s) /\ before.groupId[t.user] = None
        /\ t.then \in {"erase_request", "insert_participant"}
    BY <1>1, <1>2, <1>8 DEF SetGroup, At, SoFar, GroupSoFar
  <2>2. task'[s] = n /\ n.at = t.then /\ n.valid = t.valid /\ n.then = t.then
        /\ n.user = t.user /\ n.group = t.group
    BY <1>0, <1>8 DEF SetGroup, GoTo, Go, Tasks
  <2>3. /\ groupId' = [groupId EXCEPT ![t.user] = g]
        /\ UNCHANGED <<accountVars, sessionVars, adminId, pendingRequests, participants,
                       shareVars, peer, status>>
    BY <1>8 DEF SetGroup
  <2>4. ASSUME before' = before
        PROVE  SoFar(s)'
    <3>1. MayBeAdmitted(s)'
      BY <2>1, <2>2, <2>3, <2>4, MayBeAdmittedStays DEF sessionVars
    <3>2. Admitted(s)' /\ pendingRequests' = before'.pendingRequests
      BY <2>1, <2>2, <2>3, <2>4, <3>1 DEF Admitted, Same, accountVars, sessionVars, shareVars
    <3>3. QED
      BY <2>1, <2>2, <3>2
      DEF SoFar, LoginSoFar, GroupSoFar, ShareSoFar, RemovalSoFar, At, AddSteps, SessionSteps
  <2> HIDE DEF n
  <2>5. QED
    BY <1>1, <1>3, <2>1, <2>2, <2>3, <2>4
<1>9. CASE EraseRequest(s)
  <2> DEFINE n == [t EXCEPT !.at = "insert_participant"]
  <2>1. Admitted(s) /\ t.then = "erase_request" /\ pendingRequests = before.pendingRequests
    BY <1>1, <1>9 DEF EraseRequest, At, SoFar, GroupSoFar
  <2>2. task'[s] = n /\ n.at = "insert_participant" /\ n.valid = t.valid /\ n.then = t.then
        /\ n.user = t.user /\ n.group = t.group
    BY <1>0, <1>9 DEF EraseRequest, GoTo, Go, Tasks
  <2>3. /\ pendingRequests' = [pendingRequests EXCEPT ![g] = @ \ {t.user}]
        /\ UNCHANGED <<accountVars, sessionVars, groupId, adminId, participants,
                       shareVars, peer, status>>
    BY <1>9 DEF EraseRequest
  <2>4. ASSUME before' = before
        PROVE  SoFar(s)'
    <3>1. MayBeAdmitted(s)'
      BY <2>1, <2>2, <2>3, <2>4, MayBeAdmittedStays DEF sessionVars, Admitted
    <3>2. Admitted(s)'
      BY <2>1, <2>2, <2>3, <2>4, <3>1 DEF Admitted, accountVars, sessionVars, shareVars
    <3>3. QED
      BY <2>1, <2>2, <2>3, <2>4, <3>2
      DEF SoFar, LoginSoFar, GroupSoFar, ShareSoFar, RemovalSoFar, At, AddSteps, SessionSteps
  <2> HIDE DEF n
  <2>5. QED
    BY <1>1, <1>3, <2>2, <2>3, <2>4
<1>10. CASE InsertParticipant(s)
  <2>1. /\ Admitted(s)
        /\ pendingRequests = IF t.then = "insert_participant" THEN before.pendingRequests
                             ELSE [before.pendingRequests EXCEPT ![g] = @ \ {t.user}]
        /\ g \in GroupIds /\ t.user \in Users
    BY <1>1, <1>2, <1>10 DEF InsertParticipant, At, SoFar, GroupSoFar, AdmitSteps
  <2>2. /\ SerialInv'
        /\ before'.participants = [before.participants EXCEPT ![g] = @ \cup {t.user}]
        /\ before'.groupId = [before.groupId EXCEPT ![t.user] = g]
        /\ before'.pendingRequests = pendingRequests /\ before'.adminId = before.adminId
        /\ before'.password = before.password
        /\ before'.isLoggedIn = before.isLoggedIn /\ before'.ipAndPort = before.ipAndPort
        /\ before'.socketToUser = before.socketToUser
        /\ before'.files = before.files /\ before'.SHA = before.SHA
        /\ before'.ipAndPorts = before.ipAndPorts
        /\ UNCHANGED <<peer, status>>
    BY <1>1, <1>10, <2>1, CommandEnds
    DEF InsertParticipant, Admitted, accountVars, sessionVars, shareVars
  <2>3. CASE t.then = "insert_participant"
    <3>1. t.user = u /\ before.adminId[g] = u /\ before.groupId[u] = None /\ u = before.socketToUser[s]
      BY <2>1, <2>3 DEF Admitted, MayBeAdmitted, User
    <3>2. Atomic!JoinGroup(s, g)
      BY <1>1, <1>2, <2>1, <2>2, <2>3, <3>1
      DEF Atomic!JoinGroup, Atomic!HasSession, Atomic!User, Atomic!FreeToJoin, Atomic!accountVars,
          Atomic!sessionVars, Atomic!shareVars
    <3>3. QED
      BY <1>1, <2>1, <2>2, <3>2, AtomicCommand DEF Atomic!Command
  <2>4. CASE t.then # "insert_participant"
    <3>1. /\ Atomic!MayAccept(s, g) /\ t.user \in before.pendingRequests[g]
          /\ before.groupId[t.user] = None
      BY <2>1, <2>4 DEF Admitted, MayBeAdmitted
    <3>2. Atomic!AcceptRequest(s, g, t.user)
      BY <2>1, <2>2, <2>4, <3>1
      DEF Atomic!AcceptRequest, Atomic!FreeToJoin, Atomic!accountVars, Atomic!sessionVars, Atomic!shareVars
    <3>3. QED
      BY <1>1, <2>1, <2>2, <3>2, AtomicCommand DEF Atomic!Command
  <2>5. QED
    BY <2>3, <2>4
<1>11. CASE EraseParticipant(s)
  <2> DEFINE n == [NoTask EXCEPT !.at = "copy_user", !.then = "clear_group"]
  <2>1. Same /\ Atomic!InGroup(s, g) /\ g \in GroupIds
    BY <1>1, <1>2, <1>11 DEF EraseParticipant, At, SoFar, RemovalSoFar
  <2>2. task'[s] = n /\ n.at = "copy_user" /\ n.then = "clear_group" /\ n.valid
    BY <1>0, <1>11 DEF EraseParticipant, Go, NoTask
  <2>3. /\ participants' = [participants EXCEPT ![g] = @ \ {u}]
        /\ UNCHANGED <<accountVars, sessionVars, groupId, adminId, pendingRequests,
                       shareVars, peer, status>>
    BY <1>11 DEF EraseParticipant
  <2>4. before.groupId[u] = g /\ g # None /\ before.adminId[g] # None
    BY <2>1, NoneIsAbsent DEF Atomic!InGroup, Atomic!User, Same, User
  <2>5. ASSUME before' = before
        PROVE  SoFar(s)'
    <3>1. User(s)' = u
      BY <2>3 DEF User, sessionVars
    <3>2. RemovalOf(s, "clear_group")' /\ (isLoggedIn = before.isLoggedIn /\ SameShares)'
      BY <2>1, <2>3, <2>4, <2>5, <3>1
      DEF RemovalOf, HasLeft, Same, accountVars, sessionVars, shareVars
    <3>3. QED
      BY <2>2, <3>2
      DEF SoFar, LoginSoFar, GroupSoFar, ShareSoFar, RemovalSoFar, At, AddSteps, SessionSteps
  <2> HIDE DEF n
  <2>6. QED
    BY <1>3, <2>2, <2>3, <2>5
<1>12. CASE ClearGroup(s)
  <2>1. /\ RemovalOf(s, "clear_group") /\ isLoggedIn = before.isLoggedIn /\ Emptied(u)
    BY <1>1, <1>12 DEF ClearGroup, At, SoFar, RemovalSoFar
  <2> DEFINE h == before.groupId[u]
  <2>2. /\ SerialInv'
        /\ before'.files = files /\ before'.SHA = SHA /\ before'.ipAndPorts = ipAndPorts
        /\ before'.password = before.password /\ before'.adminId = before.adminId
        /\ before'.isLoggedIn = before.isLoggedIn /\ before'.ipAndPort = before.ipAndPort
        /\ before'.socketToUser = before.socketToUser
        /\ before'.pendingRequests = before.pendingRequests
        /\ before'.participants = [before.participants EXCEPT ![h] = @ \ {u}]
        /\ before'.groupId = [before.groupId EXCEPT ![u] = None]
        /\ UNCHANGED <<peer, status>>
    BY <1>1, <1>12, <2>1, CommandEnds
    DEF ClearGroup, RemovalOf, HasLeft, accountVars, sessionVars, shareVars
  <2>3. Atomic!TypeOK
    BY DEF Atomic!Inv, Atomic!GroupInv
  <2>4. h \in GroupIds /\ h # None /\ before.adminId[h] # None
    BY <1>2, <2>1, <2>3 DEF RemovalOf, HasLeft, Atomic!TypeOK, Atomic!Optional
  <2>5. Atomic!RemoveFilesOfUserFromGroup(u) /\ Atomic!EntriesFound(u)
    BY <1>2, <2>1, <2>2, <2>3, <2>4, LoopIsRemoval, FilesAreFound
  <2>6. u = before.socketToUser[s]
    BY <2>1 DEF RemovalOf, User
  <2>7. Atomic!LeaveGroup(s, h)
    BY <1>1, <1>2, <2>2, <2>4, <2>5, <2>6
    DEF Atomic!LeaveGroup, Atomic!InGroup, Atomic!HasSession, Atomic!User, Atomic!accountVars,
        Atomic!sessionVars
  <2>8. QED
    BY <1>1, <2>2, <2>4, <2>7, AtomicCommand DEF Atomic!Command
<1>13. QED
  BY <1>4, <1>5, <1>6, <1>7, <1>8, <1>9, <1>10, <1>11, <1>12 DEF GroupStep

LEMMA ShareIsSerial ==
  ASSUME TInv, Atomic!Inv, SerialInv, OneAtATime, OneAtATime', RemembersMaps,
         NEW s \in Sockets, ShareStep(s)
  PROVE  /\ SerialInv' /\ (Atomic!Next \/ UNCHANGED Atomic!vars)
<1> DEFINE t == task[s]
           u == User(s)
           g == task[s].group
           f == task[s].file
           a == before.ipAndPort[User(s)]
<1> USE DEF SameAccounts, SameSockets, SameSessions, SameAdmins, SameMembers, SameIndex, SameShares
<1>0. task \in [Sockets -> Tasks] /\ t \in Tasks /\ Fits(t, u) /\ Atomic!User(s) = before.socketToUser[s]
  BY DEF TInv, ThreadsTypeOK, TasksFit, Atomic!User
<1>1. t.at \in AddSteps /\ ~Idle(s) /\ peer[s] # None /\ status = "running" /\ t.valid /\ SoFar(s)
  BY DEF ShareStep, CopyFile, CopyAddress, FindFile, InsertFile, FindAgain, AddAddress, AddFile,
         Idle, At, AddSteps, SerialInv, Busy
<1>2. /\ u \in Users /\ g \in GroupIds /\ f \in FileNames
      /\ "find_file" \in {t.at, t.then} => t.arg \in Digests
  BY <1>0, <1>1 DEF Fits, LoginSteps, AddSteps
<1>3. /\ Atomic!InGroup(s, g) /\ SameAccounts /\ SameSessions /\ SameMembers
      /\ t.at # "add_file" => SameShares
      /\ t.at # "copy_file" => /\ t.then \in {"find_file", "find_again"}
                               /\ t.then = "find_again" => before.SHA[g][f] # None
      /\ t.at \in {"find_file", "insert_file", "find_again", "add_address"} => t.addr = a
  BY <1>1 DEF SoFar, ShareSoFar
\* Steps after which the command goes on.
<1>4. ASSUME NEW n, task'[s] = n, n.at \in AddSteps, n.valid, n.group = g, n.file = f,
             UNCHANGED <<accountVars, sessionVars, memberVars, peer, status>>,
             before' = before => ShareSoFar(s)'
      PROVE  SerialInv' /\ (Atomic!Next \/ UNCHANGED Atomic!vars)
  <2>1. n.at # "idle"
    BY <1>4 DEF AddSteps
  <2>2. before' = before
    BY <1>0, <1>4, <2>1, StaysInCommand
  <2>3. SoFar(s)'
    BY <1>4, <2>2
    DEF SoFar, LoginSoFar, GroupSoFar, RemovalSoFar, At, AddSteps, SessionSteps
  <2>4. QED
    BY <1>0, <1>1, <1>4, <2>1, <2>3, CommandGoesOn
\* Steps that only read.
<1>5. ASSUME NEW n, task'[s] = n, n.at \in AddSteps \ {"copy_file", "add_file"}, n.valid,
             n.group = g, n.file = f, UNCHANGED vars, SameShares,
             n.then \in {"find_file", "find_again"},
             n.then = "find_again" => before.SHA[g][f] # None,
             n.at # "copy_address" => n.addr = a,
             n.at = "insert_file" => before.SHA[g][f] = None /\ n.then = "find_file",
             n.at \in {"find_again", "add_address"} => before.SHA[g][f] # None
      PROVE  SerialInv' /\ (Atomic!Next \/ UNCHANGED Atomic!vars)
  <2>1. UNCHANGED <<accountVars, sessionVars, memberVars, peer, status>> /\ User(s)' = u
    BY <1>5 DEF vars, User, sessionVars
  <2>2. ASSUME before' = before
        PROVE  ShareSoFar(s)'
    <3>1. Atomic!InGroup(s, g)' /\ a' = a
      BY <1>3, <1>5, <2>1, <2>2 DEF Atomic!InGroup, Atomic!HasSession, Atomic!User
    <3>2. (SameAccounts /\ SameSessions /\ SameMembers /\ SameShares)'
      BY <1>3, <1>5, <2>2 DEF vars, accountVars, sessionVars, memberVars, shareVars
    <3>3. QED
      BY <1>5, <2>2, <3>1, <3>2 DEF ShareSoFar, At, AddSteps
  <2>3. QED
    BY <1>4, <1>5, <2>1, <2>2
<1>6. CASE CopyFile(s)
  <2>1. Same /\ t.at = "copy_file" /\ UNCHANGED vars
    BY <1>3, <1>6 DEF CopyFile, At, Same, ReadAndGo
  <2>2. CASE SHA[g][f] # None
    <3> DEFINE n == [t EXCEPT !.at = "copy_address", !.then = "find_again"]
    <3>1. task'[s] = n /\ n.at = "copy_address" /\ n.valid = t.valid /\ n.then = "find_again"
          /\ n.group = g /\ n.file = f
      BY <1>0, <1>6, <2>2 DEF CopyFile, ReadAndGo, Go, Tasks
    <3>2. before.SHA[g][f] # None
      BY <2>1, <2>2 DEF Same
    <3> HIDE DEF n
    <3>3. QED
      BY <1>1, <1>5, <2>1, <3>1, <3>2 DEF AddSteps, Same
  <2>3. CASE SHA[g][f] = None
    <3>1. AllIdle'
      BY <1>0, <1>1, <1>6, <2>3, OthersAreIdle DEF CopyFile, ReadAndGo, NoTask
    <3>2. QED
      BY <2>1, <3>1, CommandIsRefused
  <2>4. QED
    BY <2>2, <2>3
<1>7. CASE CopyAddress(s)
  <2> DEFINE n == [t EXCEPT !.at = t.then, !.addr = ipAndPort[u]]
  <2>1. t.at = "copy_address" /\ UNCHANGED vars /\ SameShares
    BY <1>3, <1>7 DEF CopyAddress, At, ReadAndGo
  <2>2. task'[s] = n /\ n.at = t.then /\ n.valid = t.valid /\ n.then = t.then
        /\ n.group = g /\ n.file = f /\ n.addr = ipAndPort[u]
    BY <1>0, <1>7 DEF CopyAddress, ReadAndGo, Go, Tasks
  <2>3. ipAndPort[u] = a
    BY <1>3
  <2>4. t.then \in {"find_file", "find_again"} /\ (t.then = "find_again" => before.SHA[g][f] # None)
    BY <1>3, <2>1
  <2> HIDE DEF n
  <2>5. QED
    BY <1>1, <1>5, <2>1, <2>2, <2>3, <2>4 DEF AddSteps
<1>8. CASE FindFile(s)
  <2> DEFINE n == [t EXCEPT !.at = IF SHA[g][f] = None THEN "insert_file" ELSE "add_address"]
  <2>1. t.at = "find_file" /\ UNCHANGED vars /\ SameShares
    BY <1>3, <1>8 DEF FindFile, At, ReadAndGo
  <2>2. task'[s] = n /\ n.valid = t.valid /\ n.then = t.then
        /\ n.at = (IF SHA[g][f] = None THEN "insert_file" ELSE "add_address")
        /\ n.group = g /\ n.file = f /\ n.addr = t.addr
    BY <1>0, <1>8 DEF FindFile, ReadAndGo, Go, Tasks
  <2>3. t.then \in {"find_file", "find_again"} /\ (t.then = "find_again" => before.SHA[g][f] # None)
        /\ t.addr = a /\ SHA = before.SHA
    BY <1>3, <2>1
  <2> HIDE DEF n
  <2>4. CASE SHA[g][f] = None
    BY <1>1, <1>5, <2>1, <2>2, <2>3, <2>4 DEF AddSteps
  <2>5. CASE SHA[g][f] # None
    BY <1>1, <1>5, <2>1, <2>2, <2>3, <2>5 DEF AddSteps
  <2>6. QED
    BY <2>4, <2>5
<1>9. CASE FindAgain(s)
  <2> DEFINE n == [t EXCEPT !.at = "add_address"]
  <2>1. t.at = "find_again" /\ UNCHANGED vars /\ SameShares /\ SHA[g][f] # None
    BY <1>3, <1>9 DEF FindAgain, At, ReadAndGo
  <2>2. task'[s] = n /\ n.at = "add_address" /\ n.valid = t.valid /\ n.then = t.then
        /\ n.group = g /\ n.file = f /\ n.addr = t.addr
    BY <1>0, <1>9 DEF FindAgain, ReadAndGo, Go, Tasks
  <2>3. t.then \in {"find_file", "find_again"} /\ t.addr = a /\ before.SHA[g][f] # None
    BY <1>3, <2>1
  <2> HIDE DEF n
  <2>4. QED
    BY <1>1, <1>5, <2>1, <2>2, <2>3 DEF AddSteps
\* The index has changed: add_file is left.
<1>10. ASSUME task'[s] = [t EXCEPT !.at = "add_file"], t.at # "copy_file",
              UNCHANGED <<accountVars, sessionVars, memberVars, peer, status>>,
              files' = before.files,
              ipAndPorts' = [before.ipAndPorts EXCEPT ![g][f] = @ \cup {a}],
              SHA' = IF before.SHA[g][f] = None THEN [before.SHA EXCEPT ![g][f] = t.arg] ELSE before.SHA
       PROVE  SerialInv' /\ (Atomic!Next \/ UNCHANGED Atomic!vars)
  <2> DEFINE n == [t EXCEPT !.at = "add_file"]
  <2>1. task'[s] = n /\ n.at = "add_file" /\ n.valid = t.valid /\ n.then = t.then
        /\ n.group = g /\ n.file = f /\ n.arg = t.arg
    BY <1>0, <1>10 DEF Tasks
  <2> HIDE DEF n
  <2>2. User(s)' = u
    BY <1>10 DEF User, sessionVars
  <2>3. ASSUME before' = before
        PROVE  ShareSoFar(s)'
    <3>1. Atomic!InGroup(s, g)' /\ a' = a
      BY <1>3, <1>10, <2>2, <2>3 DEF Atomic!InGroup, Atomic!HasSession, Atomic!User
    <3>2. (SameAccounts /\ SameSessions /\ SameMembers)'
      BY <1>3, <1>10, <2>3 DEF accountVars, sessionVars, memberVars
    <3>3. t.then \in {"find_file", "find_again"} /\ (t.then = "find_again" => before'.SHA[g][f] # None)
      BY <1>3, <1>10, <2>3
    <3>4. /\ files' = before'.files
          /\ ipAndPorts' = [before'.ipAndPorts EXCEPT ![g][f] = @ \cup {a}]
          /\ SHA' = IF before'.SHA[g][f] = None THEN [before'.SHA EXCEPT ![g][f] = t.arg] ELSE before'.SHA
      BY <1>10, <2>3
    <3>5. QED
      BY <2>1, <3>1, <3>2, <3>3, <3>4 DEF ShareSoFar, At, AddSteps
  <2>4. QED
    BY <1>1, <1>4, <1>10, <2>1, <2>3 DEF AddSteps
<1>11. CASE InsertFile(s)
  <2>1. t.at = "insert_file" /\ before.SHA[g][f] = None /\ SameShares /\ t.addr = a
    BY <1>1, <1>3, <1>11 DEF InsertFile, At, SoFar, ShareSoFar
  <2>2. before.ipAndPorts[g][f] = {}
    BY <1>2, <2>1 DEF Atomic!Inv, Atomic!ShareInv, Atomic!RecordsHaveSeeders
  <2>3. before.ipAndPorts \in [GroupIds -> [FileNames -> SUBSET Addrs]]
        /\ before.SHA \in [GroupIds -> [FileNames -> Atomic!Optional(Digests)]]
    BY DEF Atomic!Inv, Atomic!GroupInv, Atomic!TypeOK
  <2>4. ipAndPorts' = [before.ipAndPorts EXCEPT ![g][f] = {a}]
    BY <1>11, <2>1 DEF InsertFile
  <2>5. ipAndPorts' = [before.ipAndPorts EXCEPT ![g][f] = @ \cup {a}]
    BY <2>2, <2>4
  <2>6. SHA' = [before.SHA EXCEPT ![g][f] = t.arg]
    BY <1>11, <2>1 DEF InsertFile, Inserted
  <2>7. QED
    BY <1>0, <1>10, <1>11, <2>1, <2>5, <2>6 DEF InsertFile, GoTo, Go
<1>12. CASE AddAddress(s)
  <2>1. t.at = "add_address" /\ before.SHA[g][f] # None /\ SameShares /\ t.addr = a
    BY <1>1, <1>3, <1>12 DEF AddAddress, At, SoFar, ShareSoFar
  <2>2. QED
    BY <1>0, <1>10, <1>12, <2>1 DEF AddAddress, GoTo, Go
<1>13. CASE AddFile(s)
  <2>1. /\ files = before.files
        /\ ipAndPorts = [before.ipAndPorts EXCEPT ![g][f] = @ \cup {a}]
        /\ SHA = IF before.SHA[g][f] = None THEN [before.SHA EXCEPT ![g][f] = t.arg] ELSE before.SHA
        /\ t.then \in {"find_file", "find_again"}
        /\ t.then = "find_again" => before.SHA[g][f] # None
    BY <1>1, <1>3, <1>13 DEF AddFile, At, SoFar, ShareSoFar
  <2>2. /\ SerialInv'
        /\ before'.files = [before.files EXCEPT ![u] = @ \cup {f}]
        /\ before'.SHA = SHA /\ before'.ipAndPorts = ipAndPorts
        /\ before'.password = before.password /\ before'.adminId = before.adminId
        /\ before'.isLoggedIn = before.isLoggedIn /\ before'.ipAndPort = before.ipAndPort
        /\ before'.socketToUser = before.socketToUser
        /\ before'.pendingRequests = before.pendingRequests
        /\ before'.participants = before.participants
        /\ before'.groupId = before.groupId
        /\ UNCHANGED <<peer, status>>
    BY <1>1, <1>3, <1>13, <2>1, CommandEnds
    DEF AddFile, accountVars, sessionVars, memberVars
  <2>3. u = Atomic!User(s)
    BY <1>3 DEF User, Atomic!User
  <2>4. Atomic!AddSeeder(s, g, f)
    BY <2>1, <2>2, <2>3 DEF Atomic!AddSeeder
  <2>5. UNCHANGED <<Atomic!accountVars, Atomic!sessionVars, Atomic!memberVars, peer, status>>
    BY <2>2 DEF Atomic!accountVars, Atomic!sessionVars, Atomic!memberVars
  <2>6. CASE t.then = "find_again"
    <3>1. Atomic!DownloadFile(s, g, f)
      BY <1>3, <2>1, <2>2, <2>4, <2>5, <2>6 DEF Atomic!DownloadFile
    <3>2. QED
      BY <1>1, <1>2, <2>2, <3>1, AtomicCommand DEF Atomic!Command
  <2>7. CASE t.then = "find_file"
    <3>1. Atomic!UploadFile(s, g, f, t.arg)
      <4>1. before.SHA \in [GroupIds -> [FileNames -> Atomic!Optional(Digests)]]
        BY DEF Atomic!Inv, Atomic!GroupInv, Atomic!TypeOK
      <4>2. before'.SHA = [before.SHA EXCEPT ![g][f] = Atomic!DigestAfterUpload(g, f, t.arg)]
        BY <2>1, <2>2, <4>1 DEF Atomic!DigestAfterUpload
      <4>3. QED
        BY <1>3, <2>4, <2>5, <4>2 DEF Atomic!UploadFile
    <3>2. t.arg \in Digests
      BY <1>2, <2>7
    <3>3. QED
      BY <1>1, <1>2, <2>2, <3>1, <3>2, AtomicCommand DEF Atomic!Command
  <2>8. QED
    BY <2>1, <2>6, <2>7
<1>14. QED
  BY <1>6, <1>7, <1>8, <1>9, <1>11, <1>12, <1>13 DEF ShareStep

\* The address of u is out of f, in the loop of a thread with the locals n; and
\* the entry of f has been dropped if nobody else shares it.
Erased(u, n, f) ==
  /\ f \in before.files[u]
  /\ f \notin n.names \/ (n.at \in {"check_size", "drop_entry"} /\ f = n.file)

Settled(u, n, f) == f \in before.files[u] /\ f \notin n.names

IndexIs(u, n, index, digests) ==
  \A g \in GroupIds, f \in FileNames :
    /\ index[g][f] = IF g = before.groupId[u] /\ Erased(u, n, f)
                     THEN Atomic!SeedersWithout(u, f) ELSE before.ipAndPorts[g][f]
    /\ digests[g][f] = IF g = before.groupId[u] /\ Settled(u, n, f)
                          /\ Atomic!SeedersWithout(u, f) = {}
                       THEN None ELSE before.SHA[g][f]

LEMMA LoopGoesOn ==
  ASSUME NEW s \in Sockets, NEW u, User(s) = u, RemovalOf(s, task[s].then),
         isLoggedIn = before.isLoggedIn, files = before.files, before' = before,
         UNCHANGED <<accountVars, sessionVars, memberVars, files>>,
         NEW n, task'[s] = n, n.then = task[s].then,
         n.group = before.groupId[u], n.addr = before.ipAndPort[u],
         n.names \subseteq before.files[u],
         n.at \in {"find_entry", "erase_address", "check_size", "drop_entry"},
         n.at \in EntrySteps => n.file \in n.names,
         IndexIs(u, n, ipAndPorts', SHA'),
         n.at = "drop_entry" => ipAndPorts'[n.group][n.file] = {}
  PROVE  SoFar(s)' /\ n.at # "idle"
<1>1. User(s)' = u
  BY DEF User, sessionVars
<1>2. RemovalOf(s, n.then)'
  BY <1>1 DEF RemovalOf, HasLeft, SameAccounts, SameSockets, SameAdmins, accountVars, sessionVars,
              memberVars
<1>3. LoopSoFar(s)'
  <2> DEFINE d == before.files[u] \ n.names
  <2>1. n.at \in {"find_entry", "erase_address"} => Removed(u, d, d)'
    BY DEF Removed, IndexIs, Erased, Settled, Atomic!SeedersWithout
  <2>2. n.at \in {"check_size", "drop_entry"} /\ n.file \in n.names => Removed(u, d \cup {n.file}, d)'
    BY DEF Removed, IndexIs, Erased, Settled, Atomic!SeedersWithout
  <2>3. (before.files[User(s)] \ task[s].names)' = d
    BY <1>1
  <2>4. (isLoggedIn = before.isLoggedIn /\ files = before.files)'
    BY DEF sessionVars
  <2>5. QED
    BY <1>1, <1>2, <2>1, <2>2, <2>3, <2>4 DEF LoopSoFar, EntrySteps
<1>4. QED
  BY <1>3 DEF SoFar, LoginSoFar, GroupSoFar, ShareSoFar, RemovalSoFar, At, AddSteps, SessionSteps

LEMMA RemovalIsSerial ==
  ASSUME TInv, Atomic!Inv, SerialInv, OneAtATime, OneAtATime', RemembersMaps,
         NEW s \in Sockets, RemovalStep(s)
  PROVE  SerialInv' /\ (Atomic!Next \/ UNCHANGED Atomic!vars)
<1> DEFINE t == task[s]
           u == User(s)
           g == before.groupId[u]
           done == before.files[u] \ task[s].names
           Without(f) == Atomic!SeedersWithout(u, f)
<1>0. /\ task \in [Sockets -> Tasks] /\ t \in Tasks /\ Fits(t, u)
      /\ ipAndPorts \in [GroupIds -> [FileNames -> SUBSET Optional(Addrs)]]
      /\ SHA \in [GroupIds -> [FileNames -> Optional(Digests)]]
      /\ files \in [Users -> SUBSET FileNames]
  BY DEF TInv, ThreadsTypeOK, TasksFit
<1>1. t.at \in RemovalSteps /\ ~Idle(s) /\ peer[s] # None /\ status = "running" /\ t.valid /\ SoFar(s)
  BY DEF RemovalStep, CopyUser, FindEntry, EraseAddress, CheckSize, DropEntry, ClearFiles,
         Idle, At, RemovalSteps, SerialInv, Busy
<1>2. u \in Users /\ t.then \in {"set_logged_out", "clear_group"}
      /\ (t.at \in EntrySteps => t.group \in GroupIds /\ t.file \in FileNames)
  BY <1>0, <1>1 DEF Fits, RemovalSteps, LoginSteps, EntrySteps
<1>3. RemovalOf(s, t.then) /\ isLoggedIn = before.isLoggedIn /\ files = before.files
  BY <1>1 DEF SoFar, RemovalSoFar, LoopSoFar, RemovalSteps, At, SameShares
<1>4. t.at # "copy_user" => LoopSoFar(s)
  BY <1>1 DEF SoFar, RemovalSoFar, RemovalSteps
<1>5. ASSUME NEW n, task'[s] = n, n.at # "idle", n.valid, UNCHANGED <<peer, status>>,
             before' = before => SoFar(s)'
      PROVE  SerialInv' /\ (Atomic!Next \/ UNCHANGED Atomic!vars)
  BY <1>0, <1>1, <1>5, StaysInCommand, CommandGoesOn
<1>6. CASE CopyUser(s)
  <2> DEFINE n == [t EXCEPT !.at = "find_entry", !.names = files[u], !.addr = ipAndPort[u],
                            !.group = groupId[u]]
  <2>1. SameShares /\ UNCHANGED vars
    BY <1>1, <1>6 DEF CopyUser, At, SoFar, RemovalSoFar, ReadAndGo
  <2>2. task'[s] = n /\ n.at = "find_entry" /\ n.then = t.then /\ n.valid = t.valid
        /\ n.names = files[u] /\ n.addr = ipAndPort[u] /\ n.group = groupId[u]
    BY <1>0, <1>6 DEF CopyUser, ReadAndGo, Go, Tasks
  <2>3. n.addr = before.ipAndPort[u] /\ n.group = g /\ n.names = before.files[u]
    BY <1>3, <2>2 DEF RemovalOf, SameSockets
  <2> HIDE DEF n
  <2>4. ASSUME before' = before
        PROVE  SoFar(s)'
    <3>1. UNCHANGED <<accountVars, sessionVars, memberVars, files>> /\ UNCHANGED <<SHA, ipAndPorts>>
      BY <2>1 DEF vars, shareVars
    <3>2. SHA' = before.SHA /\ ipAndPorts' = before.ipAndPorts
      BY <2>1, <3>1 DEF SameShares, SameIndex
    <3>3. IndexIs(u, n, ipAndPorts', SHA')
      BY <2>2, <2>3, <3>2 DEF IndexIs, Erased, Settled
    <3>4. n.at \notin EntrySteps /\ n.at # "drop_entry"
      BY <2>2 DEF EntrySteps
    <3>5. QED
      BY <1>3, <2>2, <2>3, <2>4, <3>1, <3>3, <3>4, LoopGoesOn
  <2>5. UNCHANGED <<peer, status>>
    BY <2>1 DEF vars
  <2>6. QED
    BY <1>1, <1>5, <2>2, <2>4, <2>5
<1>7. ASSUME t.at # "copy_user"
      PROVE  /\ t.group = g /\ t.addr = before.ipAndPort[u] /\ t.names \subseteq before.files[u]
             /\ t.at \in EntrySteps => t.file \in t.names
             /\ t.at = "drop_entry" => ipAndPorts[t.group][t.file] = {}
             /\ IndexIs(u, t, ipAndPorts, SHA)
  <2>1. /\ t.group = g /\ t.addr = before.ipAndPort[u] /\ t.names \subseteq before.files[u]
        /\ t.at \in EntrySteps => t.file \in t.names
        /\ t.at \in {"find_entry", "erase_address"} => Removed(u, done, done)
        /\ t.at \in {"check_size", "drop_entry"} => Removed(u, done \cup {t.file}, done)
        /\ t.at = "drop_entry" => ipAndPorts[t.group][t.file] = {}
    BY <1>4, <1>7 DEF LoopSoFar
  <2>2. CASE t.at \in {"find_entry", "erase_address"}
    BY <2>1, <2>2 DEF IndexIs, Erased, Settled, Removed
  <2>3. CASE t.at \in {"check_size", "drop_entry"}
    BY <2>1, <2>3 DEF IndexIs, Erased, Settled, Removed, EntrySteps
  <2>4. QED
    BY <1>1, <1>7, <2>1, <2>2, <2>3 DEF RemovalSteps
<1>8. ASSUME NEW f \in FileNames, FindEntry(s, f)
      PROVE  SerialInv' /\ (Atomic!Next \/ UNCHANGED Atomic!vars)
  <2> DEFINE n == [t EXCEPT !.at = "erase_address", !.file = f]
  <2>1. t.at = "find_entry" /\ f \in t.names /\ UNCHANGED vars
    BY <1>8 DEF FindEntry, At, ReadAndGo
  <2>2. task'[s] = n /\ n.at = "erase_address" /\ n.then = t.then /\ n.valid = t.valid
        /\ n.names = t.names /\ n.addr = t.addr /\ n.group = t.group /\ n.file = f
    BY <1>0, <1>8 DEF FindEntry, ReadAndGo, Go, Tasks
  <2> HIDE DEF n
  <2>3. ASSUME before' = before
        PROVE  SoFar(s)'
    <3>1. UNCHANGED <<accountVars, sessionVars, memberVars, files>> /\ UNCHANGED <<SHA, ipAndPorts>>
      BY <2>1 DEF vars, shareVars
    <3>2. IndexIs(u, n, ipAndPorts', SHA')
      BY <1>7, <2>1, <2>2, <3>1 DEF IndexIs, Erased, Settled
    <3>3. QED
      BY <1>3, <1>7, <2>1, <2>2, <2>3, <3>1, <3>2, LoopGoesOn
  <2>4. UNCHANGED <<peer, status>>
    BY <2>1 DEF vars
  <2>5. QED
    BY <1>1, <1>5, <2>2, <2>3, <2>4
<1>9. CASE EraseAddress(s)
  <2> DEFINE n == [t EXCEPT !.at = "check_size"]
  <2>1. t.at = "erase_address" /\ t.at \in EntrySteps
    BY <1>9 DEF EraseAddress, At, EntrySteps
  <2>2. task'[s] = n /\ n.at = "check_size" /\ n.then = t.then /\ n.valid = t.valid
        /\ n.names = t.names /\ n.addr = t.addr /\ n.group = t.group /\ n.file = t.file
    BY <1>0, <1>9 DEF EraseAddress, GoTo, Go, Tasks
  <2> HIDE DEF n
  <2>3. /\ t.group = g /\ g \in GroupIds /\ t.file \in FileNames /\ t.file \in t.names
        /\ t.addr = before.ipAndPort[u] /\ t.names \subseteq before.files[u]
        /\ IndexIs(u, t, ipAndPorts, SHA)
    BY <1>2, <1>7, <2>1
  <2>4. /\ ipAndPorts' = [ipAndPorts EXCEPT ![g][t.file] = @ \ {before.ipAndPort[u]}]
        /\ UNCHANGED <<accountVars, sessionVars, memberVars, files, SHA, peer, status>>
    BY <1>9, <2>3 DEF EraseAddress
  <2>5. ASSUME NEW h \in GroupIds, NEW f \in FileNames
        PROVE  /\ ipAndPorts'[h][f] = IF h = g /\ Erased(u, n, f) THEN Without(f) ELSE before.ipAndPorts[h][f]
               /\ SHA'[h][f] = IF h = g /\ Settled(u, n, f) /\ Without(f) = {} THEN None ELSE before.SHA[h][f]
    <3>1. Settled(u, n, f) = Settled(u, t, f) /\ SHA' = SHA
      BY <2>2, <2>4 DEF Settled
    <3>2. SHA'[h][f] = IF h = g /\ Settled(u, n, f) /\ Without(f) = {} THEN None ELSE before.SHA[h][f]
      BY <2>3, <3>1 DEF IndexIs
    <3>3. CASE h = g /\ f = t.file
      <4>1. ipAndPorts'[h][f] = ipAndPorts[h][f] \ {before.ipAndPort[u]}
        BY <1>0, <2>3, <2>4, <3>3
      <4>2. Erased(u, n, f) /\ ~Erased(u, t, f)
        BY <2>1, <2>2, <2>3, <3>3 DEF Erased
      <4>3. ipAndPorts[h][f] = before.ipAndPorts[h][f]
        BY <2>3, <4>2 DEF IndexIs
      <4>4. Without(f) = before.ipAndPorts[h][f] \ {before.ipAndPort[u]}
        BY <2>3, <3>3 DEF Atomic!SeedersWithout
      <4>5. QED
        BY <3>2, <3>3, <4>1, <4>2, <4>3, <4>4
    <3>4. CASE ~(h = g /\ f = t.file)
      <4>1. ipAndPorts'[h][f] = ipAndPorts[h][f]
        BY <1>0, <2>3, <2>4, <3>4
      <4>2. h = g => Erased(u, n, f) = Erased(u, t, f)
        BY <2>1, <2>2, <3>4 DEF Erased
      <4>3. QED
        BY <2>3, <3>2, <4>1, <4>2 DEF IndexIs
    <3>5. QED
      BY <3>3, <3>4
  <2>6. IndexIs(u, n, ipAndPorts', SHA')
    BY <2>5 DEF IndexIs
  <2>7. ASSUME before' = before
        PROVE  SoFar(s)'
    BY <1>3, <2>2, <2>3, <2>4, <2>6, <2>7, LoopGoesOn
  <2>8. QED
    BY <1>1, <1>5, <2>2, <2>4, <2>7
<1>10. CASE CheckSize(s)
  <2>1. t.at = "check_size" /\ t.at \in EntrySteps /\ UNCHANGED vars
    BY <1>10 DEF CheckSize, At, EntrySteps, ReadAndGo
  <2>2. /\ t.group = g /\ g \in GroupIds /\ t.file \in FileNames /\ t.file \in t.names
        /\ t.addr = before.ipAndPort[u] /\ t.names \subseteq before.files[u]
        /\ IndexIs(u, t, ipAndPorts, SHA)
    BY <1>2, <1>7, <2>1
  <2>3. UNCHANGED <<accountVars, sessionVars, memberVars, files>> /\ UNCHANGED <<SHA, ipAndPorts>>
        /\ UNCHANGED <<peer, status>>
    BY <2>1 DEF vars, shareVars
  <2>4. CASE NobodyIsLeft(s)
    <3> DEFINE n == [t EXCEPT !.at = "drop_entry"]
    <3>1. task'[s] = n /\ n.at = "drop_entry" /\ n.then = t.then /\ n.valid = t.valid
          /\ n.names = t.names /\ n.addr = t.addr /\ n.group = t.group /\ n.file = t.file
      BY <1>0, <1>10, <2>4 DEF CheckSize, ReadAndGo, Go, Tasks
    <3> HIDE DEF n
    <3>2. IndexIs(u, n, ipAndPorts', SHA')
      BY <2>1, <2>2, <2>3, <3>1 DEF IndexIs, Erased, Settled
    <3>3. ipAndPorts'[n.group][n.file] = {}
      BY <2>3, <2>4, <3>1 DEF NobodyIsLeft
    <3>4. ASSUME before' = before
          PROVE  SoFar(s)'
      BY <1>3, <2>2, <2>3, <3>1, <3>2, <3>3, <3>4, LoopGoesOn
    <3>5. QED
      BY <1>1, <1>5, <2>3, <3>1, <3>4
  <2>5. CASE ~NobodyIsLeft(s)
    <3> DEFINE n == NextFile(t)
    <3>1. task'[s] = n /\ n.at = "find_entry" /\ n.then = t.then /\ n.valid
          /\ n.names = t.names \ {t.file} /\ n.addr = t.addr /\ n.group = t.group
      BY <1>0, <1>10, <2>5 DEF CheckSize, ReadAndGo, Go, Tasks, NextFile
    <3> HIDE DEF n
    <3>2. Without(t.file) # {}
      <4>1. Erased(u, t, t.file)
        BY <2>1, <2>2 DEF Erased
      <4>2. QED
        BY <2>2, <2>5, <4>1 DEF IndexIs, NobodyIsLeft
    <3>3. ASSUME NEW h \in GroupIds, NEW f \in FileNames
          PROVE  /\ ipAndPorts'[h][f] = IF h = g /\ Erased(u, n, f) THEN Without(f) ELSE before.ipAndPorts[h][f]
                 /\ SHA'[h][f] = IF h = g /\ Settled(u, n, f) /\ Without(f) = {} THEN None ELSE before.SHA[h][f]
      <4>1. Erased(u, n, f) = Erased(u, t, f)
        BY <2>1, <2>2, <3>1 DEF Erased
      <4>2. f # t.file => Settled(u, n, f) = Settled(u, t, f)
        BY <3>1 DEF Settled
      <4>3. ~Settled(u, t, t.file)
        BY <2>2 DEF Settled
      <4>4. QED
        BY <2>2, <2>3, <3>2, <4>1, <4>2, <4>3 DEF IndexIs
    <3>4. IndexIs(u, n, ipAndPorts', SHA')
      BY <3>3 DEF IndexIs
    <3>5. n.at \notin EntrySteps
      BY <3>1 DEF EntrySteps
    <3>6. ASSUME before' = before
          PROVE  SoFar(s)'
      BY <1>3, <2>2, <2>3, <3>1, <3>4, <3>5, <3>6, LoopGoesOn
    <3>7. QED
      BY <1>1, <1>5, <2>3, <3>1, <3>6
  <2>6. QED
    BY <2>4, <2>5
<1>11. CASE DropEntry(s)
  <2> DEFINE n == NextFile(t)
  <2>1. t.at = "drop_entry" /\ t.at \in EntrySteps
    BY <1>11 DEF DropEntry, At, EntrySteps
  <2>2. /\ t.group = g /\ g \in GroupIds /\ t.file \in FileNames /\ t.file \in t.names
        /\ t.addr = before.ipAndPort[u] /\ t.names \subseteq before.files[u]
        /\ IndexIs(u, t, ipAndPorts, SHA) /\ ipAndPorts[g][t.file] = {}
    BY <1>2, <1>7, <2>1
  <2>3. task'[s] = n /\ n.at = "find_entry" /\ n.then = t.then /\ n.valid
        /\ n.names = t.names \ {t.file} /\ n.addr = t.addr /\ n.group = t.group
    BY <1>0, <1>11 DEF DropEntry, Tasks, NextFile
  <2> HIDE DEF n
  <2>4. /\ SHA' = [SHA EXCEPT ![g][t.file] = None]
        /\ ipAndPorts' = [ipAndPorts EXCEPT ![g][t.file] = {}]
        /\ UNCHANGED <<accountVars, sessionVars, memberVars, files, peer, status>>
    BY <1>11, <2>2 DEF DropEntry
  <2>5. Erased(u, t, t.file) /\ Without(t.file) = {}
    BY <2>1, <2>2 DEF Erased, IndexIs
  <2>6. ASSUME NEW h \in GroupIds, NEW f \in FileNames
        PROVE  /\ ipAndPorts'[h][f] = IF h = g /\ Erased(u, n, f) THEN Without(f) ELSE before.ipAndPorts[h][f]
               /\ SHA'[h][f] = IF h = g /\ Settled(u, n, f) /\ Without(f) = {} THEN None ELSE before.SHA[h][f]
    <3>1. Erased(u, n, f) = Erased(u, t, f)
      BY <2>1, <2>2, <2>3 DEF Erased
    <3>2. CASE h = g /\ f = t.file
      <4>1. ipAndPorts'[h][f] = {} /\ SHA'[h][f] = None
        BY <1>0, <2>2, <2>4, <3>2
      <4>2. Settled(u, n, f)
        BY <2>2, <2>3, <3>2 DEF Settled
      <4>3. QED
        BY <2>5, <3>1, <3>2, <4>1, <4>2
    <3>3. CASE ~(h = g /\ f = t.file)
      <4>1. ipAndPorts'[h][f] = ipAndPorts[h][f] /\ SHA'[h][f] = SHA[h][f]
        BY <1>0, <2>2, <2>4, <3>3
      <4>2. h = g => Settled(u, n, f) = Settled(u, t, f)
        BY <2>3, <3>3 DEF Settled
      <4>3. QED
        BY <2>2, <3>1, <4>1, <4>2 DEF IndexIs
    <3>4. QED
      BY <3>2, <3>3
  <2>7. IndexIs(u, n, ipAndPorts', SHA')
    BY <2>6 DEF IndexIs
  <2>8. n.at \notin EntrySteps
    BY <2>3 DEF EntrySteps
  <2>9. ASSUME before' = before
        PROVE  SoFar(s)'
    BY <1>3, <2>2, <2>3, <2>4, <2>7, <2>8, <2>9, LoopGoesOn
  <2>10. QED
    BY <1>5, <2>3, <2>4, <2>9
<1>12. CASE ClearFiles(s)
  <2> DEFINE n == [NoTask EXCEPT !.at = t.then]
  <2>1. t.at = "find_entry" /\ t.names = {}
    BY <1>12 DEF ClearFiles, At
  <2>2. task'[s] = n /\ n.at = t.then /\ n.valid
    BY <1>0, <1>12 DEF ClearFiles, Go, NoTask
  <2> HIDE DEF n
  <2>3. /\ files' = [files EXCEPT ![u] = {}]
        /\ UNCHANGED <<accountVars, sessionVars, memberVars, SHA, ipAndPorts, peer, status>>
    BY <1>12 DEF ClearFiles
  <2>4. Removed(u, before.files[u], before.files[u])
    BY <1>7, <2>1 DEF IndexIs, Erased, Settled, Removed
  <2>5. ASSUME before' = before
        PROVE  SoFar(s)'
    <3>1. User(s)' = u
      BY <2>3 DEF User, sessionVars
    <3>2. Emptied(u)'
      BY <1>3, <2>3, <2>4, <2>5, <3>1 DEF Emptied, Removed, Atomic!SeedersWithout, sessionVars
    <3>3. /\ t.then = "set_logged_out" => RemovalOf(s, "set_logged_out")'
          /\ t.then = "clear_group" => RemovalOf(s, "clear_group")'
          /\ (isLoggedIn = before.isLoggedIn)'
      BY <1>3, <2>3, <2>5, <3>1 DEF RemovalOf, HasLeft, SameAccounts, SameSockets, SameAdmins,
         accountVars, sessionVars, memberVars
    <3>4. CASE t.then = "set_logged_out"
      <4>1. RemovalSoFar(s)'
        BY <2>2, <3>1, <3>2, <3>3, <3>4 DEF RemovalSoFar, At, SessionSteps
      <4>2. QED
        BY <2>2, <3>4, <4>1 DEF SoFar, LoginSoFar, GroupSoFar, ShareSoFar, At, AddSteps
    <3>5. CASE t.then = "clear_group"
      <4>1. RemovalSoFar(s)'
        BY <2>2, <3>1, <3>2, <3>3, <3>5 DEF RemovalSoFar, At, SessionSteps
      <4>2. QED
        BY <2>2, <3>5, <4>1 DEF SoFar, LoginSoFar, GroupSoFar, ShareSoFar, At, AddSteps
    <3>6. QED
      BY <1>2, <3>4, <3>5
  <2>6. QED
    BY <1>2, <1>5, <2>2, <2>3, <2>5
<1>13. QED
  BY <1>6, <1>8, <1>9, <1>10, <1>11, <1>12 DEF RemovalStep

----------------------------------------------------------------------------
(* The other steps, and what cannot happen to a command that is alone.     *)

LEMMA EntriesAreThere ==
  ASSUME TInv, Atomic!Inv, SerialInv, NEW s \in Sockets
  PROVE  /\ ~NoGroupToClean(s) /\ ~EntryIsMissing(s) /\ ~FileIsGone(s)
         /\ ~HoldsErased(s) /\ ~UseOfErased(s)
<1> DEFINE t == task[s]
           u == User(s)
<1>0. t \in Tasks /\ Fits(t, u) /\ (u \in Users => files[u] \in SUBSET FileNames)
  BY DEF TInv, ThreadsTypeOK, TasksFit
<1>1. t.valid
  <2>1. CASE Idle(s)
    BY <1>0, <2>1 DEF Fits, Idle, At, EntrySteps, Tasks
  <2>2. CASE ~Idle(s)
    BY <2>2 DEF SerialInv, Busy
  <2>3. QED
    BY <2>1, <2>2
<1>2. ~FileIsGone(s)
  <2> SUFFICES ASSUME t.at = "find_again"
               PROVE  SHA[t.group][t.file] # None
    BY DEF FileIsGone, At
  <2>1. SoFar(s)
    BY DEF SerialInv, Busy, Idle, At
  <2>2. QED
    BY <2>1 DEF SoFar, ShareSoFar, SameShares, SameIndex, AddSteps
<1>3. ASSUME t.at \in {"find_entry", "erase_address"}
      PROVE  /\ t.group = before.groupId[u] /\ t.group # None
             /\ t.at = "erase_address" => t.file \in t.names
             /\ \A f \in t.names : SHA[t.group][f] # None /\ t.addr \in ipAndPorts[t.group][f]
  <2>1. LoopSoFar(s)
    BY <1>3 DEF SerialInv, Busy, Idle, At, SoFar, RemovalSoFar
  <2>2. /\ before.groupId[u] # None /\ t.group = before.groupId[u] /\ t.addr = before.ipAndPort[u]
        /\ t.names \subseteq before.files[u] /\ files = before.files
        /\ Removed(u, before.files[u] \ t.names, before.files[u] \ t.names)
        /\ t.at = "erase_address" => t.file \in t.names
    BY <1>3, <2>1 DEF LoopSoFar, RemovalOf, EntrySteps
  <2>3. u \in Users
    BY <1>0, <1>3 DEF Fits, LoginSteps
  <2>4. /\ Atomic!EntriesFound(u) /\ before.groupId[u] \in GroupIds
    BY <2>2, <2>3, FilesAreFound DEF Atomic!Inv, Atomic!GroupInv, Atomic!TypeOK, Atomic!Optional
  <2>5. ASSUME NEW f \in t.names
        PROVE  SHA[t.group][f] # None /\ t.addr \in ipAndPorts[t.group][f]
    <3>1. f \in before.files[u] /\ f \in FileNames
      BY <1>0, <2>2, <2>3
    <3>2. before.SHA[t.group][f] # None /\ t.addr \in before.ipAndPorts[t.group][f]
      BY <2>2, <2>4, <3>1 DEF Atomic!EntriesFound
    <3>3. QED
      BY <2>2, <2>4, <3>1, <3>2 DEF Removed
  <2>6. QED
    BY <1>3, <2>2, <2>5
<1>4. ~NoGroupToClean(s) /\ ~EntryIsMissing(s)
  BY <1>3 DEF NoGroupToClean, EntryIsMissing, HasEntry, At
<1>5. At(s, "erase_address") => AddressIsThere(s)
  BY <1>3 DEF AddressIsThere, At
<1>6. QED
  BY <1>1, <1>2, <1>4, <1>5 DEF HoldsErased, UseOfErased

\* Users have, or do not have, a session throughout the other's command.
LEMMA SocketsAreSame ==
  ASSUME TInv, SerialInv
  PROVE  SameSockets
<1>1. CASE AllIdle
  BY <1>1, MapsAreFields DEF SerialInv, Same, SameSessions
<1>2. CASE ~AllIdle
  <2>1. PICK s \in Sockets : ~Idle(s)
    BY <1>2 DEF AllIdle
  <2>2. SoFar(s) /\ task[s].at \in Steps \ {"idle"}
    BY <2>1 DEF SerialInv, Busy, TInv, ThreadsTypeOK, Tasks, Idle, At
  <2>3. CASE task[s].at \in UserSteps
    BY <2>2, <2>3 DEF UserSteps, SoFar, LoginSoFar, At, Same, SameSessions
  <2>4. CASE task[s].at \in {"insert_group", "insert_request"} \cup AdmitSteps
    BY <2>2, <2>4 DEF AdmitSteps, SoFar, GroupSoFar, Admitted, At, Same, SameSessions
  <2>5. CASE task[s].at \in AddSteps
    BY <2>2, <2>5 DEF SoFar, ShareSoFar, SameSessions
  <2>6. CASE task[s].at \in {"erase_participant", "clear_group"} \cup RemovalSteps \cup SessionSteps
    <3>1. RemovalSoFar(s)
      BY <2>2 DEF SoFar
    <3>2. QED
      BY <2>6, <3>1
      DEF RemovalSteps, SessionSteps, RemovalSoFar, LoopSoFar, RemovalOf, At, Same, SameSessions
  <2>7. QED
    BY <2>2, <2>3, <2>4, <2>5, <2>6 DEF Steps, GroupSteps
<1>3. QED
  BY <1>1, <1>2

\* Connections come and go beside a command in progress.
LEMMA CommandIsLeftAlone ==
  ASSUME SerialInv, RemembersMaps \/ UNCHANGED before,
         UNCHANGED <<accountVars, sessionVars, memberVars, shareVars, task>>,
         \A s \in Sockets : ~Idle(s) => peer'[s] = peer[s] /\ status' = status
  PROVE  SerialInv' /\ UNCHANGED before
<1>1. UNCHANGED <<password, isLoggedIn, ipAndPort, groupId, files, socketToUser, adminId,
                  pendingRequests, participants, SHA, ipAndPorts, task>> /\ Maps' = Maps
  BY DEF accountVars, sessionVars, memberVars, shareVars, Maps
<1>2. AllIdle' = AllIdle /\ \A s \in Sockets : Idle(s)' = Idle(s)
  BY <1>1 DEF AllIdle, Idle, At
<1>3. before' = before
  BY <1>1, <1>2 DEF RemembersMaps, SerialInv
<1>4. ASSUME NEW s \in Sockets, ~Idle(s)
      PROVE  Busy(s)'
  <2>1. SoFar(s)'
    BY <1>1, <1>3, <1>4, SoFarStays DEF SerialInv, Busy
  <2>2. QED
    BY <1>1, <1>4, <2>1 DEF SerialInv, Busy
<1>5. QED
  BY <1>1, <1>2, <1>3, <1>4 DEF SerialInv

\* The process ends, and with it the abstract tracker.
LEMMA EndIsSerial ==
  ASSUME NEW how, AllThreadsEnd(how), RemembersMaps
  PROVE  SerialInv' /\ Atomic!ProcessEnds(how)
<1>1. AllIdle'
  BY DEF AllThreadsEnd, AllIdle, Idle, At, NoTask
<1>2. QED
  BY <1>1, ComesToRest DEF AllThreadsEnd, ProcessEnds, Atomic!ProcessEnds

\* A step of the threads is a step of the tracker, or none that it sees.
LEMMA SerialStep ==
  ASSUME TInv, Atomic!Inv, SerialInv, OneAtATime, OneAtATime',
         [ThreadsNext]_threadVars, [RemembersMaps]_<<threadVars, before>>
  PROVE  SerialInv' /\ (Atomic!Next \/ UNCHANGED Atomic!vars)
<1> DEFINE Goal == SerialInv' /\ (Atomic!Next \/ UNCHANGED Atomic!vars)
<1> USE DEF vars
<1>1. RemembersMaps \/ UNCHANGED before
  OBVIOUS
<1>2. CASE UNCHANGED threadVars
  <2>1. SerialInv' /\ UNCHANGED before
    BY <1>1, <1>2, CommandIsLeftAlone DEF threadVars
  <2>2. QED
    BY <1>2, <2>1 DEF threadVars, Atomic!vars, Atomic!accountVars, Atomic!sessionVars,
       Atomic!memberVars, Atomic!shareVars
<1>3. CASE UNCHANGED before /\ ~RemembersMaps
  BY <1>2, <1>3
<1> SUFFICES ASSUME ThreadsNext, RemembersMaps
             PROVE  Goal
  BY <1>1, <1>2, <1>3
<1> HIDE DEF Goal
<1>4. ASSUME NEW s \in Sockets, NEW a \in Addrs, status = "running", Accept(s, a), UNCHANGED task
      PROVE  Goal
  <2>1. \A r \in Sockets : ~Idle(r) => peer'[r] = peer[r] /\ status' = status
    BY <1>4 DEF Accept, SerialInv, Busy
  <2>2. SerialInv' /\ UNCHANGED before
    BY <1>1, <1>4, <2>1, CommandIsLeftAlone DEF Accept
  <2>3. Atomic!Accept(s, a)
    BY <1>4, <2>2 DEF Accept, Atomic!Accept, Atomic!accountVars, Atomic!sessionVars,
       Atomic!memberVars, Atomic!shareVars
  <2>4. QED
    BY <1>4, <2>2, <2>3 DEF Goal, Atomic!Next
<1>5. ASSUME NEW s \in Sockets, status = "running", Close(s)
      PROVE  Goal
  <2>1. \A r \in Sockets : ~Idle(r) => peer'[r] = peer[r] /\ status' = status
    BY <1>5 DEF Close
  <2>2. SerialInv' /\ UNCHANGED before
    BY <1>1, <1>5, <2>1, CommandIsLeftAlone DEF Close
  <2>3. Atomic!User(s) = None
    BY <1>5, SocketsAreSame DEF Close, User, Atomic!User, SameSockets
  <2>4. Atomic!Exit(s)
    BY <1>5, <2>2, <2>3 DEF Close, Atomic!Exit, Atomic!accountVars, Atomic!sessionVars,
       Atomic!memberVars, Atomic!shareVars
  <2>5. QED
    BY <1>5, <2>2, <2>4, AtomicCommand DEF Goal, Atomic!Command
<1>6. CASE Restart /\ UNCHANGED task
  <2>1. \A r \in Sockets : ~Idle(r) => peer'[r] = peer[r] /\ status' = status
    BY <1>6 DEF Restart, SerialInv, Busy
  <2>2. SerialInv' /\ UNCHANGED before
    BY <1>1, <1>6, <2>1, CommandIsLeftAlone DEF Restart
  <2>3. Atomic!Restart
    BY <1>6, <2>2 DEF Restart, Atomic!Restart, Atomic!accountVars, Atomic!sessionVars,
       Atomic!memberVars, Atomic!shareVars
  <2>4. QED
    BY <2>2, <2>3 DEF Goal, Atomic!Next
<1>7. CASE status = "running" /\ AllThreadsEnd("quit")
  <2>1. SerialInv' /\ Atomic!Quit
    BY <1>7, EndIsSerial DEF Atomic!Quit
  <2>2. QED
    BY <1>7, <2>1 DEF Goal, Atomic!Next
<1>8. ASSUME NEW s \in Sockets, status = "running", Dies(s)
      PROVE  Goal
  <2>1. peer[s] # None /\ AllThreadsEnd("sigpipe")
    BY <1>8, EntriesAreThere DEF Dies
  <2>2. SerialInv' /\ Atomic!PeerClosed(s)
    BY <2>1, EndIsSerial DEF Atomic!PeerClosed
  <2>3. QED
    BY <1>8, <2>2 DEF Goal, Atomic!Next
<1>9. ASSUME NEW s \in Sockets, status = "running", Thread(s)
      PROVE  Goal
  <2>1. CASE CommandStarts(s)
    BY <1>9, <2>1, StartIsSerial DEF Goal
  <2>2. CASE AccountStep(s)
    BY <2>2, AccountIsSerial DEF Goal
  <2>3. CASE GroupStep(s)
    BY <2>3, GroupIsSerial DEF Goal
  <2>4. CASE RemovalStep(s)
    BY <2>4, RemovalIsSerial DEF Goal
  <2>5. CASE ShareStep(s)
    BY <2>5, ShareIsSerial DEF Goal
  <2>6. ~UseOfErased(s)
    BY EntriesAreThere
  <2>7. QED
    BY <1>5, <1>8, <1>9, <2>1, <2>2, <2>3, <2>4, <2>5, <2>6 DEF Thread
<1>10. \A s, t \in Sockets : ~DataRace(s, t)
  BY DEF DataRace, OneAtATime
<1>11. QED
  BY <1>4, <1>6, <1>7, <1>9, <1>10 DEF ThreadsNext, MainThread

----------------------------------------------------------------------------
(* What the threads are, then.                                             *)

LEMMA SerialInitInv ==
  ThreadsInit /\ before = Maps => TInv /\ Atomic!Inv /\ SerialInv /\ Atomic!Init
<1> SUFFICES ASSUME ThreadsInit, before = Maps
             PROVE  TInv /\ Atomic!Inv /\ SerialInv /\ Atomic!Init
  OBVIOUS
<1>1. TInv
  BY ThreadsInitInv
<1>2. Atomic!Init
  BY DEF ThreadsInit, Init, Atomic!Init, Maps
<1>3. Atomic!Inv
  BY <1>2, NoneIsAbsent, Atomic!InitGroupInv, Atomic!InitShareInv DEF Atomic!Inv
<1>4. SerialInv
  BY DEF ThreadsInit, SerialInv, Idle, At, NoTask
<1>5. QED
  BY <1>1, <1>2, <1>3, <1>4

LEMMA SerialNextInv ==
  /\ TInv /\ Atomic!Inv /\ SerialInv /\ OneAtATime /\ OneAtATime'
  /\ [ThreadsNext]_threadVars /\ [RemembersMaps]_<<threadVars, before>>
  => (TInv /\ Atomic!Inv /\ SerialInv)' /\ [Atomic!Next]_(Atomic!vars)
<1> SUFFICES ASSUME TInv, Atomic!Inv, SerialInv, OneAtATime, OneAtATime',
                    [ThreadsNext]_threadVars, [RemembersMaps]_<<threadVars, before>>
             PROVE  (TInv /\ Atomic!Inv /\ SerialInv)' /\ [Atomic!Next]_(Atomic!vars)
  OBVIOUS
<1>1. TInv'
  BY ThreadsNextInv
<1>2. SerialInv' /\ [Atomic!Next]_(Atomic!vars)
  BY SerialStep
<1>3. Atomic!ShareInv'
  BY <1>2, NoneIsAbsent, Atomic!ShareInvStep
<1>4. Atomic!GroupInv'
  BY <1>2, NoneIsAbsent, Atomic!GroupInvStep DEF Atomic!Inv, Atomic!NextWithResets
<1>5. QED
  BY <1>1, <1>2, <1>3, <1>4 DEF Atomic!Inv

LEMMA SerialSpecInv == SerialSpec => [](TInv /\ Atomic!Inv /\ SerialInv)
  BY SerialInitInv, SerialNextInv, PTL DEF SerialSpec, ThreadsSpec

\* A command whose steps no other command's steps come between has the effect
\* that module Tracker gives it in one step, whichever of its steps find what
\* they look for: a refused command has none.
THEOREM SerialThreadsImplementTracker == SerialSpec => Atomic!Spec
  BY SerialInitInv, SerialNextInv, SerialSpecInv, PTL DEF SerialSpec, ThreadsSpec, Atomic!Spec

\* Without overlaps the two indexes agree whenever no command is in progress:
\* the lost share of SharesAreMaintained takes two commands at a time.
THEOREM SerialThreadsMaintainShares == SerialSpec => []SharesAreMaintained
<1>1. Atomic!Inv /\ SerialInv => SharesAreMaintained
  <2> SUFFICES ASSUME Atomic!Inv, SerialInv, AllIdle
               PROVE  IndexesAgree
    BY DEF SharesAreMaintained, AllIdle
  <2>1. Same
    BY MapsAreFields DEF SerialInv
  <2>2. QED
    BY <2>1 DEF Same, SameSessions, SameSockets, SameMembers, SameShares, SameIndex,
       IndexesAgree, Atomic!Inv, Atomic!ShareInv, Atomic!IndexesAgree
<1>2. QED
  BY <1>1, SerialSpecInv, PTL

\* Nobody is entered into a group but by the last step of a command.
LEMMA ParticipantsAreOld ==
  ASSUME TInv, SerialInv, Atomic!TypeOK
  PROVE  \A g \in GroupIds : participants[g] \subseteq before.participants[g]
<1>1. CASE AllIdle
  BY <1>1, MapsAreFields DEF SerialInv, Same, SameMembers
<1>2. CASE ~AllIdle
  <2>1. PICK s \in Sockets : ~Idle(s)
    BY <1>2 DEF AllIdle
  <2>2. SoFar(s) /\ task[s].at \in Steps \ {"idle"} /\ Fits(task[s], User(s))
    BY <2>1 DEF SerialInv, Busy, TInv, ThreadsTypeOK, Tasks, TasksFit, Idle, At
  <2>3. participants = before.participants \/ \E u \in Users : HasLeft(u)
    <3>1. CASE task[s].at \in UserSteps
      BY <2>2, <3>1 DEF UserSteps, SoFar, LoginSoFar, At, Same, SameMembers
    <3>2. CASE task[s].at \in {"insert_group", "insert_request"} \cup AdmitSteps
      BY <2>2, <3>2 DEF AdmitSteps, SoFar, GroupSoFar, Admitted, At, Same, SameMembers
    <3>3. CASE task[s].at \in AddSteps
      BY <2>2, <3>3 DEF SoFar, ShareSoFar, SameMembers
    <3>4. CASE task[s].at \in {"erase_participant", "clear_group"} \cup RemovalSteps \cup SessionSteps
      <4>1. RemovalSoFar(s) /\ User(s) \in Users
        BY <2>2, <3>4 DEF SoFar, Fits, LoginSteps, RemovalSteps, SessionSteps
      <4>2. task[s].at \in RemovalSteps => task[s].then \in {"set_logged_out", "clear_group"}
        BY <2>2 DEF Fits
      <4>3. QED
        BY <3>4, <4>1, <4>2
        DEF RemovalSteps, SessionSteps, RemovalSoFar, LoopSoFar, RemovalOf, At, Same, SameMembers
    <3>5. QED
      BY <2>2, <3>1, <3>2, <3>3, <3>4 DEF Steps, GroupSteps
  <2>4. QED
    BY <2>3 DEF HasLeft, Atomic!TypeOK
<1>3. QED
  BY <1>1, <1>2

\* Without overlaps a user is a participant of one group only, also in the
\* middle of a command: to get into two takes two commands at a time.
THEOREM SerialThreadsKeepOneGroup == SerialSpec => []OnlyOneGroup
<1>1. TInv /\ Atomic!Inv /\ SerialInv => OnlyOneGroup
  <2> SUFFICES ASSUME TInv, Atomic!Inv, SerialInv, NEW u \in Users,
                      NEW g \in GroupIds, NEW h \in GroupIds,
                      u \in participants[g], u \in participants[h]
               PROVE  g = h
    BY DEF OnlyOneGroup
  <2>1. u \in before.participants[g] /\ u \in before.participants[h]
    BY ParticipantsAreOld DEF Atomic!Inv, Atomic!GroupInv
  <2>2. QED
    BY <2>1 DEF Atomic!Inv, Atomic!GroupInv, Atomic!GroupsAgree
<1>2. QED
  BY <1>1, SerialSpecInv, PTL

\* Without overlaps no thread dereferences end(), uses an iterator to what was
\* erased, or looks for the group "": the tracker ends with "quit", or because
\* a client has gone.
THEOREM SerialThreadsDoNotCrash == SerialSpec => [](status \notin {"segv", "abort"})
<1>1. Atomic!Inv => status \notin {"segv", "abort"}
  BY DEF Atomic!Inv, Atomic!GroupInv, Atomic!ShareInv, Atomic!TypeOK, Atomic!NeverSegfaults
<1>2. QED
  BY <1>1, SerialSpecInv, PTL
=============================================================================
