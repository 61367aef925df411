------------------------------ MODULE Tracker ------------------------------
(***************************************************************************)
(* The tracker of MiniTorrent (src/tracker): three maps in the memory of   *)
(* one process, and one detached thread per client connection that reads a *)
(* command, executes it on the maps and writes the answer.                 *)
(*                                                                         *)
(* Here a command is one step: commands do not overlap.  A command that    *)
(* ends in an early return changes nothing and is a stuttering step; its   *)
(* conditions are the conjuncts of the action.                             *)
(*                                                                         *)
(* The maps are held as functions over all keys, one per field:            *)
(*   registeredUsers  password[u] (None: u is no key), isLoggedIn,         *)
(*                    ipAndPort[u], groupId[u], files[u]                   *)
(*   socketToUser     socketToUser[s] (None: s is no key)                  *)
(*   groups           adminId[g] (None: g is no key), pendingRequests[g],  *)
(*                    participants[g], and filesOfGroup as SHA[g][f]       *)
(*                    (None: f is no key) and ipAndPorts[g][f]             *)
(*                                                                         *)
(* An operator that Next does not reach, right before one that it does and *)
(* with the same parameters, is that operator with a fault: the README     *)
(* says which property notices it.                                         *)
(***************************************************************************)
CONSTANTS
  Users,      \* user ids
  Passwords,
  GroupIds,
  FileNames,
  Digests,    \* what stands for the SHA and the size given at an upload
  Sockets,    \* descriptors that accept() can return
  Addrs,      \* "ip:port" of the client processes, one each
  None        \* an absent key, an empty string

ASSUME NoneIsAbsent ==
  None \notin Users \cup Passwords \cup GroupIds \cup Digests \cup Addrs

VARIABLES
  password, isLoggedIn, ipAndPort, groupId, files,           \* registeredUsers
  socketToUser,
  adminId, pendingRequests, participants, SHA, ipAndPorts,   \* groups
  peer,       \* peer[s]: the client at the other end of s, None if s is closed
  status      \* "running", or how the tracker process ended

accountVars == <<password>>
sessionVars == <<isLoggedIn, ipAndPort, socketToUser>>
memberVars == <<groupId, adminId, pendingRequests, participants>>
shareVars == <<files, SHA, ipAndPorts>>
vars == <<accountVars, sessionVars, memberVars, shareVars, peer, status>>

Optional(S) == S \cup {None}

TypeOK ==
  /\ password \in [Users -> Optional(Passwords)]
  /\ isLoggedIn \in SUBSET Users
  /\ ipAndPort \in [Users -> Optional(Addrs)]
  /\ groupId \in [Users -> Optional(GroupIds)]
  /\ files \in [Users -> SUBSET FileNames]
  /\ socketToUser \in [Sockets -> Optional(Users)]
  /\ adminId \in [GroupIds -> Optional(Users)]
  /\ pendingRequests \in [GroupIds -> SUBSET Users]
  /\ participants \in [GroupIds -> SUBSET Users]
  /\ SHA \in [GroupIds -> [FileNames -> Optional(Digests)]]
  /\ ipAndPorts \in [GroupIds -> [FileNames -> SUBSET Addrs]]
  /\ peer \in [Sockets -> Optional(Addrs)]
  /\ status \in {"running", "quit", "sigpipe", "segv"}

Init ==
  /\ password = [u \in Users |-> None]
  /\ isLoggedIn = {}
  /\ ipAndPort = [u \in Users |-> None]
  /\ groupId = [u \in Users |-> None]
  /\ files = [u \in Users |-> {}]
  /\ socketToUser = [s \in Sockets |-> None]
  /\ adminId = [g \in GroupIds |-> None]
  /\ pendingRequests = [g \in GroupIds |-> {}]
  /\ participants = [g \in GroupIds |-> {}]
  /\ SHA = [g \in GroupIds |-> [f \in FileNames |-> None]]
  /\ ipAndPorts = [g \in GroupIds |-> [f \in FileNames |-> {}]]
  /\ peer = [s \in Sockets |-> None]
  /\ status = "running"

\* The process ends: nothing is on disk, so every map is lost with it and
\* the kernel closes every connection.
ProcessEnds(how) ==
  /\ password' = [u \in Users |-> None]
  /\ isLoggedIn' = {}
  /\ ipAndPort' = [u \in Users |-> None]
  /\ groupId' = [u \in Users |-> None]
  /\ files' = [u \in Users |-> {}]
  /\ socketToUser' = [s \in Sockets |-> None]
  /\ adminId' = [g \in GroupIds |-> None]
  /\ pendingRequests' = [g \in GroupIds |-> {}]
  /\ participants' = [g \in GroupIds |-> {}]
  /\ SHA' = [g \in GroupIds |-> [f \in FileNames |-> None]]
  /\ ipAndPorts' = [g \in GroupIds |-> [f \in FileNames |-> {}]]
  /\ peer' = [s \in Sockets |-> None]
  /\ status' = how

----------------------------------------------------------------------------
(* Connections: the accept loop of main, and the ways a connection ends.   *)

\* The kernel hands out a descriptor that is not open.  The second guard is not
\* the code's: it is assumed of whoever runs clients that no two of them have
\* the same "ip:port" at a time (README, Tracker).
Accept(s, a) ==
  /\ peer[s] = None
  /\ \A t \in Sockets : peer[t] # a
  /\ peer' = [peer EXCEPT ![s] = a]
  /\ UNCHANGED <<accountVars, sessionVars, memberVars, shareVars, status>>

\* read() or write() fails because the peer reset the connection: the thread
\* closes the socket and returns, and does nothing else.
PeerReset(s) ==
  /\ peer[s] # None
  /\ peer' = [peer EXCEPT ![s] = None]
  /\ UNCHANGED <<accountVars, sessionVars, memberVars, shareVars, status>>

\* The client process ends without "exit".  read() returns 0, which is not
\* < 0: the thread answers the empty command, and again, until write() to the
\* closed connection raises SIGPIPE, which nobody handles.
PeerClosed(s) ==
  /\ peer[s] # None
  /\ ProcessEnds("sigpipe")

\* "quit" on the tracker's own terminal: exit(0).
Quit == ProcessEnds("quit")

\* Somebody starts the program again.
Restart ==
  /\ status # "running"
  /\ status' = "running"
  /\ UNCHANGED <<accountVars, sessionVars, memberVars, shareVars, peer>>

----------------------------------------------------------------------------
(* Accounts and sessions.                                                  *)

CreateUser(s, u, p) ==
  /\ peer[s] # None
  /\ password[u] = None
  /\ password' = [password EXCEPT ![u] = p]
  /\ UNCHANGED <<sessionVars, memberVars, shareVars, peer, status>>

LoggedInElsewhereUnchecked(u) == FALSE

\* "You already logged in from other system!!"
LoggedInElsewhere(u) == u \in isLoggedIn

AddressNotStored(s) == None

\* "ip" is the one accept() saw, the port is the one the client listens on.
AddressAtLogin(s) == peer[s]

Login(s, u, p) ==
  /\ peer[s] # None
  /\ socketToUser[s] = None
  /\ password[u] = p
  /\ ~LoggedInElsewhere(u)
  /\ isLoggedIn' = isLoggedIn \cup {u}
  /\ ipAndPort' = [ipAndPort EXCEPT ![u] = AddressAtLogin(s)]
  /\ socketToUser' = [socketToUser EXCEPT ![s] = u]
  /\ UNCHANGED <<accountVars, memberVars, shareVars, peer, status>>

\* The user whom the thread of socket s serves.
User(s) == socketToUser[s]

HasSession(s) == peer[s] # None /\ User(s) # None

\* What removeFilesOfUserFromGroup(u) takes for granted: each name in
\* User.files is in Group.filesOfGroup, with the user's address in it.  The
\* code uses what find() returns without comparing it with end().
EntriesFound(u) ==
  \A f \in files[u] :
    /\ SHA[groupId[u]][f] # None
    /\ ipAndPort[u] \in ipAndPorts[groupId[u]][f]

\* The addresses that remain for f in the group of u.
SeedersWithout(u, f) ==
  LET seeders == ipAndPorts[groupId[u]][f]
  IN  IF f \in files[u] THEN seeders \ {ipAndPort[u]} ELSE seeders

FileOutlivesSeeders(u, f) == FALSE

FileDiesWithFirstSeeder(u, f) == f \in files[u]

\* ipAndPorts.size() == 0 after the removal.
FileLosesLastSeeder(u, f) == f \in files[u] /\ SeedersWithout(u, f) = {}

\* removeFilesOfUserFromGroup: take the user's address out of each file he
\* shares, drop the files nobody shares any more, forget what he shared.
RemoveFilesOfUserFromGroup(u) ==
  LET g == groupId[u]
  IN  /\ ipAndPorts' = [ipAndPorts EXCEPT ![g] =
                          [f \in FileNames |-> SeedersWithout(u, f)]]
      /\ SHA' = [SHA EXCEPT ![g] =
                   [f \in FileNames |->
                      IF FileLosesLastSeeder(u, f) THEN None ELSE SHA[g][f]]]
      /\ files' = [files EXCEPT ![u] = {}]

\* The map updates of logout() for a user who is logged in.
EndSession(s) ==
  LET u == User(s)
  IN  /\ IF groupId[u] # None
         THEN EntriesFound(u) /\ RemoveFilesOfUserFromGroup(u)
         ELSE UNCHANGED shareVars
      /\ isLoggedIn' = isLoggedIn \ {u}
      /\ ipAndPort' = [ipAndPort EXCEPT ![u] = None]
      /\ socketToUser' = [socketToUser EXCEPT ![s] = None]
      /\ UNCHANGED <<accountVars, memberVars, status>>

Logout(s) ==
  /\ HasSession(s)
  /\ EndSession(s)
  /\ UNCHANGED peer

ExitWithoutLogout(s) ==
  /\ peer[s] # None
  /\ peer' = [peer EXCEPT ![s] = None]
  /\ UNCHANGED <<accountVars, sessionVars, memberVars, shareVars, status>>

\* "exit" logs out, whether or not anybody was logged in, and closes.
Exit(s) ==
  /\ peer[s] # None
  /\ \/ User(s) # None /\ EndSession(s)
     \/ User(s) = None /\ UNCHANGED <<accountVars, sessionVars, memberVars, shareVars, status>>
  /\ peer' = [peer EXCEPT ![s] = None]

----------------------------------------------------------------------------
(* Groups.                                                                 *)

CreateGroup(s, g) ==
  /\ HasSession(s)
  /\ adminId[g] = None
  /\ adminId' = [adminId EXCEPT ![g] = User(s)]
  /\ UNCHANGED <<accountVars, sessionVars, groupId, pendingRequests, participants,
                 shareVars, peer, status>>

FreeToJoinUnchecked(u) == TRUE

\* "Leave that group first to join in another group"
FreeToJoin(u) == groupId[u] = None

JoinGroup(s, g) ==
  /\ HasSession(s)
  /\ FreeToJoin(User(s))
  /\ adminId[g] # None
  /\ \/ /\ adminId[g] = User(s)
        /\ groupId' = [groupId EXCEPT ![User(s)] = g]
        /\ participants' = [participants EXCEPT ![g] = @ \cup {User(s)}]
        /\ UNCHANGED pendingRequests
     \/ /\ adminId[g] # User(s)
        /\ pendingRequests' = [pendingRequests EXCEPT ![g] = @ \cup {User(s)}]
        /\ UNCHANGED <<groupId, participants>>
  /\ UNCHANGED <<accountVars, sessionVars, adminId, shareVars, peer, status>>

\* The checks that leave, list_requests, accept, list_files, upload and
\* download have in common: the caller is in g, and g exists.
InGroup(s, g) ==
  /\ HasSession(s)
  /\ groupId[User(s)] = g
  /\ adminId[g] # None

LeaveGroupWithFiles(s, g) ==
  /\ InGroup(s, g)
  /\ participants' = [participants EXCEPT ![g] = @ \ {User(s)}]
  /\ groupId' = [groupId EXCEPT ![User(s)] = None]
  /\ UNCHANGED <<accountVars, sessionVars, adminId, pendingRequests, shareVars, peer, status>>

LeaveGroup(s, g) ==
  /\ InGroup(s, g)
  /\ participants' = [participants EXCEPT ![g] = @ \ {User(s)}]
  /\ EntriesFound(User(s))
  /\ RemoveFilesOfUserFromGroup(User(s))
  /\ groupId' = [groupId EXCEPT ![User(s)] = None]
  /\ UNCHANGED <<accountVars, sessionVars, adminId, pendingRequests, peer, status>>

AnyMemberMayAccept(s, g) == InGroup(s, g)

MayAccept(s, g) == InGroup(s, g) /\ adminId[g] = User(s)

AcceptRequest(s, g, v) ==
  /\ MayAccept(s, g)
  /\ v \in pendingRequests[g]
  /\ FreeToJoin(v)
  /\ groupId' = [groupId EXCEPT ![v] = g]
  /\ pendingRequests' = [pendingRequests EXCEPT ![g] = @ \ {v}]
  /\ participants' = [participants EXCEPT ![g] = @ \cup {v}]
  /\ UNCHANGED <<accountVars, sessionVars, adminId, shareVars, peer, status>>

\* logout(), or leave_group, of a user with a file that find() does not find:
\* end() is dereferenced.  With libstdc++ that is a null node, and SIGSEGV.
RemovalOfMissingEntry(s) ==
  /\ HasSession(s)
  /\ groupId[User(s)] # None
  /\ ~EntriesFound(User(s))
  /\ ProcessEnds("segv")

----------------------------------------------------------------------------
(* Files.                                                                  *)

AddFileWithoutSeeder(s, g, f) ==
  /\ files' = [files EXCEPT ![User(s)] = @ \cup {f}]
  /\ UNCHANGED ipAndPorts

\* The caller's address joins the seeders of f, and f the caller's files.
AddSeeder(s, g, f) ==
  /\ ipAndPorts' = [ipAndPorts EXCEPT ![g][f] = @ \cup {ipAndPort[User(s)]}]
  /\ files' = [files EXCEPT ![User(s)] = @ \cup {f}]

LatestDigest(g, f, d) == d

\* The digest of the first upload stays; later ones are not compared with it.
DigestAfterUpload(g, f, d) == IF SHA[g][f] = None THEN d ELSE SHA[g][f]

UploadFile(s, g, f, d) ==
  /\ InGroup(s, g)
  /\ SHA' = [SHA EXCEPT ![g][f] = DigestAfterUpload(g, f, d)]
  /\ AddSeeder(s, g, f)
  /\ UNCHANGED <<accountVars, sessionVars, memberVars, peer, status>>

\* The answer is DownloadReply; the caller is a seeder from here on.
DownloadFile(s, g, f) ==
  /\ InGroup(s, g)
  /\ SHA[g][f] # None
  /\ AddSeeder(s, g, f)
  /\ UNCHANGED <<SHA, accountVars, sessionVars, memberVars, peer, status>>

\* What the commands that only read answer to a caller who may ask.
ListRequests(g) == pendingRequests[g]
ListGroups == {g \in GroupIds : adminId[g] # None}
ListFiles(g) == {f \in FileNames : SHA[g][f] # None}
DownloadReply(g, f) == [SHA |-> SHA[g][f], seeders |-> ipAndPorts[g][f]]

----------------------------------------------------------------------------
Command(s) ==
  \/ \E u \in Users, p \in Passwords : CreateUser(s, u, p) \/ Login(s, u, p)
  \/ Logout(s)
  \/ Exit(s)
  \/ RemovalOfMissingEntry(s)
  \/ \E g \in GroupIds :
       \/ CreateGroup(s, g)
       \/ JoinGroup(s, g)
       \/ LeaveGroup(s, g)
       \/ \E v \in Users : AcceptRequest(s, g, v)
       \/ \E f \in FileNames, d \in Digests : UploadFile(s, g, f, d)
       \/ \E f \in FileNames : DownloadFile(s, g, f)

\* Every connection ends with "exit", or takes the tracker with it.
Next ==
  \/ /\ status = "running"
     /\ \/ \E s \in Sockets, a \in Addrs : Accept(s, a)
        \/ \E s \in Sockets : Command(s) \/ PeerClosed(s)
        \/ Quit
  \/ Restart

\* A connection may also be reset.
NextWithResets ==
  \/ Next
  \/ status = "running" /\ \E s \in Sockets : PeerReset(s)

Spec == Init /\ [][Next]_vars
SpecWithResets == Init /\ [][NextWithResets]_vars

----------------------------------------------------------------------------
(* What holds whatever happens to the connections (SpecWithResets).        *)

\* The login flag and socketToUser tell the same story: a user is marked
\* logged in exactly if one socket, and only one, is his.  login() and
\* logout() write the two maps one after the other.
SessionsAgree ==
  /\ \A u \in Users : u \in isLoggedIn <=> \E s \in Sockets : User(s) = u
  /\ \A s, t \in Sockets : User(s) # None /\ User(s) = User(t) => s = t

\* User.groupId and Group.participants tell the same story, so that a user is
\* in at most one group (README, assumption 4); join, leave and accept write
\* both.
GroupsAgree ==
  \A u \in Users, g \in GroupIds : u \in participants[g] <=> groupId[u] = g

\* What list_requests shows can still be accepted or is still worth showing:
\* the users exist, none of them is the admin, none is a member already.
RequestsOutstanding ==
  \A g \in GroupIds : \A v \in ListRequests(g) :
    password[v] # None /\ v # adminId[g] /\ v \notin participants[g]

\* The digest that downloads are verified against is never replaced under the
\* seeders of a file: it stays until the file is dropped, a later upload of
\* the same name does not change it.
DigestIsStable ==
  [][\A g \in GroupIds, f \in FileNames :
       SHA[g][f] # None /\ SHA'[g][f] # None => SHA'[g][f] = SHA[g][f]]_vars

\* The two maps of groups implement the abstract group service, the admin's
\* consent included.
Membership == INSTANCE GroupMembership WITH
  owner <- adminId, roster <- participants, requests <- pendingRequests
MembershipSpec == Membership!Spec

----------------------------------------------------------------------------
(* What holds as long as no connection is reset (Spec).                    *)

\* Sessions end with their connections, so that the next client to get the
\* descriptor from accept() starts logged out.
SessionsAreOpen == \A s \in Sockets : User(s) # None => peer[s] # None

\* The index by user and the index by group are one relation: the address of
\* a logged-in user is among the seeders of f in g exactly if he is in g and
\* f is in his files.  Upload and download write both; leave and logout use
\* the one to clean the other.
IndexesAgree ==
  \A u \in isLoggedIn, g \in GroupIds, f \in FileNames :
    ipAndPort[u] \in ipAndPorts[g][f] <=> groupId[u] = g /\ f \in files[u]

\* Whatever list_files shows can be asked for: download_file gets at least
\* one seeder, and each seeder is the address of a member who is logged in.
ListedFilesHaveSeeders ==
  \A g \in GroupIds : \A f \in ListFiles(g) :
    LET seeders == DownloadReply(g, f).seeders
    IN  /\ seeders # {}
        /\ \A a \in seeders : \E u \in isLoggedIn :
             ipAndPort[u] = a /\ u \in participants[g]

\* removeFilesOfUserFromGroup never dereferences end().
NeverSegfaults == status # "segv"

\* A share outlives what other users do: while a user stays logged in and in
\* his group, nobody else's logout, leave or exit takes his address out of
\* the seeders of a file.
SharesOutliveOthers ==
  [][\A u \in Users, g \in GroupIds, f \in FileNames :
       (/\ status' = "running"
        /\ u \in isLoggedIn \cap isLoggedIn'
        /\ groupId[u] = g /\ groupId'[u] = g
        /\ f \in files[u])
       => ipAndPort[u] \in ipAndPorts'[g][f] /\ SHA'[g][f] # None]_vars

\* The two indexes implement the abstract one: an upload or a download adds one
\* share of a client that shares in no other group, a leave, logout or exit
\* takes out all that the client shares and nothing else.
Shares == INSTANCE ShareIndex WITH
  Groups <- GroupIds, Names <- FileNames, Clients <- Addrs,
  digest <- SHA, seeders <- ipAndPorts
ShareIndexSpec == Shares!Spec
=============================================================================
