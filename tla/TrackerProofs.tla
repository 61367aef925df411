--------------------------- MODULE TrackerProofs ---------------------------
(***************************************************************************)
(* Proofs about the tracker, for every set of users, groups, files,        *)
(* sockets and addresses.                                                  *)
(*                                                                         *)
(* Part 1 holds whatever happens to the connections.  Part 2 adds that no  *)
(* connection is reset, which is what the index of the shares rests on.    *)
(***************************************************************************)
EXTENDS Tracker, TLAPS

----------------------------------------------------------------------------
(* Part 1: types, sessions and groups, under SpecWithResets.               *)

\* A user who is logged in has an account and an address, and only a group
\* that exists has been asked for admission.
LoggedInAreKnown ==
  \A u \in isLoggedIn : password[u] # None /\ ipAndPort[u] # None

RequestsNeedGroup ==
  \A g \in GroupIds : adminId[g] = None => pendingRequests[g] = {}

GroupInv ==
  /\ TypeOK
  /\ SessionsAgree
  /\ GroupsAgree
  /\ LoggedInAreKnown
  /\ RequestsNeedGroup
  /\ RequestsOutstanding

\* In the initial state, and after the process ended, every map is empty.
LEMMA InitGroupInv == Init => GroupInv
  BY NoneIsAbsent
  DEF Init, GroupInv, TypeOK, Optional, SessionsAgree, GroupsAgree, User,
      LoggedInAreKnown, RequestsNeedGroup, RequestsOutstanding, ListRequests

LEMMA EndGroupInv ==
  ASSUME NEW how \in {"quit", "sigpipe", "segv"}, ProcessEnds(how)
  PROVE  GroupInv'
  BY NoneIsAbsent
  DEF ProcessEnds, GroupInv, TypeOK, Optional, SessionsAgree, GroupsAgree, User,
      LoggedInAreKnown, RequestsNeedGroup, RequestsOutstanding, ListRequests

\* What removeFilesOfUserFromGroup and the two commands that register a
\* seeder leave in the shares has the type of the shares.
LEMMA RemoveFilesTyped ==
  ASSUME TypeOK, NEW u \in Users, groupId[u] # None, RemoveFilesOfUserFromGroup(u)
  PROVE  /\ SHA' \in [GroupIds -> [FileNames -> Optional(Digests)]]
         /\ ipAndPorts' \in [GroupIds -> [FileNames -> SUBSET Addrs]]
         /\ files' \in [Users -> SUBSET FileNames]
<1> USE DEF RemoveFilesOfUserFromGroup, TypeOK, Optional
<1>1. \A f \in FileNames : SeedersWithout(u, f) \in SUBSET Addrs
  BY DEF SeedersWithout
<1>2. ipAndPorts' \in [GroupIds -> [FileNames -> SUBSET Addrs]]
  BY <1>1
<1>3. SHA' \in [GroupIds -> [FileNames -> Optional(Digests)]]
  OBVIOUS
<1>4. QED
  BY <1>2, <1>3

LEMMA AddSeederTyped ==
  ASSUME TypeOK, NEW s \in Sockets, User(s) # None, ipAndPort[User(s)] # None,
         NEW g \in GroupIds, NEW f \in FileNames, AddSeeder(s, g, f)
  PROVE  /\ ipAndPorts' \in [GroupIds -> [FileNames -> SUBSET Addrs]]
         /\ files' \in [Users -> SUBSET FileNames]
  BY DEF AddSeeder, TypeOK, Optional, User

\* A command leaves the accounts, the sessions and the groups either as they
\* are or changed in a way that keeps GroupInv.
LEMMA GroupInvStep ==
  GroupInv /\ [NextWithResets]_vars => GroupInv'
<1> SUFFICES ASSUME GroupInv, [NextWithResets]_vars
             PROVE  GroupInv'
  OBVIOUS
<1> USE NoneIsAbsent
<1> USE DEF GroupInv, TypeOK, Optional, accountVars, sessionVars, memberVars, shareVars
<1>1. ASSUME NEW s \in Sockets, NEW a \in Addrs, Accept(s, a)
      PROVE  GroupInv'
  BY <1>1 DEF Accept, SessionsAgree, GroupsAgree, User, LoggedInAreKnown,
              RequestsNeedGroup, RequestsOutstanding, ListRequests
<1>2. ASSUME NEW s \in Sockets, PeerReset(s)
      PROVE  GroupInv'
  BY <1>2 DEF PeerReset, SessionsAgree, GroupsAgree, User, LoggedInAreKnown,
              RequestsNeedGroup, RequestsOutstanding, ListRequests
<1>3. CASE Restart
  BY <1>3 DEF Restart, SessionsAgree, GroupsAgree, User, LoggedInAreKnown,
              RequestsNeedGroup, RequestsOutstanding, ListRequests
<1>4. ASSUME NEW s \in Sockets, NEW u \in Users, NEW p \in Passwords, CreateUser(s, u, p)
      PROVE  GroupInv'
  BY <1>4 DEF CreateUser, SessionsAgree, GroupsAgree, User, LoggedInAreKnown,
              RequestsNeedGroup, RequestsOutstanding, ListRequests
<1>5. ASSUME NEW s \in Sockets, NEW u \in Users, NEW p \in Passwords, Login(s, u, p)
      PROVE  GroupInv'
  BY <1>5 DEF Login, AddressAtLogin, LoggedInElsewhere,
              SessionsAgree, GroupsAgree, User, LoggedInAreKnown,
              RequestsNeedGroup, RequestsOutstanding, ListRequests
<1>6. ASSUME NEW s \in Sockets, User(s) # None, EndSession(s), peer' \in [Sockets -> Optional(Addrs)]
      PROVE  GroupInv'
  <2>1. User(s) \in Users
    BY <1>6 DEF User
  <2>2. TypeOK'
    <3>1. CASE groupId[User(s)] # None
      BY <1>6, <2>1, <3>1, RemoveFilesTyped DEF EndSession
    <3>2. CASE groupId[User(s)] = None
      BY <1>6, <2>1, <3>2 DEF EndSession
    <3>3. QED
      BY <3>1, <3>2
  <2>3. SessionsAgree' /\ LoggedInAreKnown'
    BY <1>6, <2>1 DEF EndSession, SessionsAgree, User, LoggedInAreKnown
  <2>4. GroupsAgree' /\ RequestsNeedGroup' /\ RequestsOutstanding'
    BY <1>6 DEF EndSession, GroupsAgree, RequestsNeedGroup, RequestsOutstanding, ListRequests
  <2>5. QED
    BY <2>2, <2>3, <2>4
<1>7. ASSUME NEW s \in Sockets, NEW g \in GroupIds, CreateGroup(s, g)
      PROVE  GroupInv'
  BY <1>7 DEF CreateGroup, HasSession,
              SessionsAgree, GroupsAgree, User, LoggedInAreKnown,
              RequestsNeedGroup, RequestsOutstanding, ListRequests
<1>8. ASSUME NEW s \in Sockets, NEW g \in GroupIds, JoinGroup(s, g)
      PROVE  GroupInv'
  <2> DEFINE u == User(s)
  <2>1. u \in Users /\ password[u] # None
    BY <1>8 DEF JoinGroup, HasSession, User, SessionsAgree, LoggedInAreKnown
  <2>2. TypeOK'
    <3>1. groupId' \in [Users -> Optional(GroupIds)]
      BY <1>8, <2>1 DEF JoinGroup
    <3>2. participants' \in [GroupIds -> SUBSET Users]
      BY <1>8, <2>1 DEF JoinGroup
    <3>3. pendingRequests' \in [GroupIds -> SUBSET Users]
      <4>1. \/ UNCHANGED pendingRequests
            \/ pendingRequests' = [pendingRequests EXCEPT ![g] = @ \cup {u}]
        BY <1>8 DEF JoinGroup
      <4>2. QED
        BY <2>1, <4>1
    <3>4. QED
      BY <1>8, <3>1, <3>2, <3>3 DEF JoinGroup
  <2>3. SessionsAgree' /\ LoggedInAreKnown'
    BY <1>8 DEF JoinGroup, SessionsAgree, User, LoggedInAreKnown
  <2>4. GroupsAgree'
    <3>1. CASE groupId' = [groupId EXCEPT ![u] = g]
               /\ participants' = [participants EXCEPT ![g] = @ \cup {u}]
      <4>1. groupId[u] = None
        BY <1>8 DEF JoinGroup, FreeToJoin
      <4>2. QED
        BY <2>1, <3>1, <4>1 DEF GroupsAgree
    <3>2. CASE UNCHANGED <<groupId, participants>>
      BY <3>2 DEF GroupsAgree
    <3>3. QED
      BY <1>8, <3>1, <3>2 DEF JoinGroup
  <2>5. RequestsNeedGroup'
    BY <1>8, <2>1 DEF JoinGroup, RequestsNeedGroup
  <2>6. RequestsOutstanding'
    <3>1. CASE adminId[g] = u
      <4>1. /\ UNCHANGED <<password, adminId, pendingRequests>>
            /\ participants' = [participants EXCEPT ![g] = @ \cup {u}]
        BY <1>8, <3>1 DEF JoinGroup
      <4>2. ASSUME NEW h \in GroupIds, NEW v \in pendingRequests[h]
            PROVE  password[v] # None /\ v # adminId[h] /\ v \notin participants'[h]
        <5>1. password[v] # None /\ v # adminId[h] /\ v \notin participants[h]
          BY <4>2 DEF RequestsOutstanding, ListRequests
        <5>2. CASE h = g
          BY <3>1, <4>1, <5>1, <5>2
        <5>3. CASE h # g
          BY <4>1, <5>1, <5>3
        <5>4. QED
          BY <5>2, <5>3
      <4>3. QED
        BY <4>1, <4>2 DEF RequestsOutstanding, ListRequests
    <3>2. CASE adminId[g] # u
      BY <1>8, <2>1, <3>2 DEF JoinGroup, FreeToJoin, GroupsAgree, RequestsOutstanding, ListRequests
    <3>3. QED
      BY <3>1, <3>2
  <2>7. QED
    BY <2>2, <2>3, <2>4, <2>5, <2>6
<1>9. ASSUME NEW s \in Sockets, NEW g \in GroupIds, LeaveGroup(s, g)
      PROVE  GroupInv'
  BY <1>9 DEF LeaveGroup, InGroup, HasSession, RemoveFilesOfUserFromGroup, SeedersWithout,
              FileLosesLastSeeder,
              SessionsAgree, GroupsAgree, User, LoggedInAreKnown,
              RequestsNeedGroup, RequestsOutstanding, ListRequests
<1>10. ASSUME NEW s \in Sockets, NEW g \in GroupIds, NEW v \in Users, AcceptRequest(s, g, v)
       PROVE  GroupInv'
  BY <1>10 DEF AcceptRequest, MayAccept, InGroup, HasSession, FreeToJoin,
               SessionsAgree, GroupsAgree, User, LoggedInAreKnown,
               RequestsNeedGroup, RequestsOutstanding, ListRequests
<1>11. ASSUME NEW s \in Sockets, NEW g \in GroupIds, NEW f \in FileNames, NEW d \in Digests,
              UploadFile(s, g, f, d)
       PROVE  GroupInv'
  <2>1. User(s) # None /\ ipAndPort[User(s)] # None /\ AddSeeder(s, g, f)
    BY <1>11 DEF UploadFile, InGroup, HasSession, User, SessionsAgree, LoggedInAreKnown
  <2>2. TypeOK'
    BY <1>11, <2>1, AddSeederTyped DEF UploadFile, DigestAfterUpload
  <2>3. QED
    BY <1>11, <2>2 DEF UploadFile, SessionsAgree, GroupsAgree, User, LoggedInAreKnown,
                       RequestsNeedGroup, RequestsOutstanding, ListRequests
<1>12. ASSUME NEW s \in Sockets, NEW g \in GroupIds, NEW f \in FileNames, DownloadFile(s, g, f)
       PROVE  GroupInv'
  <2>1. User(s) # None /\ ipAndPort[User(s)] # None /\ AddSeeder(s, g, f)
    BY <1>12 DEF DownloadFile, InGroup, HasSession, User, SessionsAgree, LoggedInAreKnown
  <2>2. TypeOK'
    BY <1>12, <2>1, AddSeederTyped DEF DownloadFile
  <2>3. QED
    BY <1>12, <2>2 DEF DownloadFile, SessionsAgree, GroupsAgree, User, LoggedInAreKnown,
                       RequestsNeedGroup, RequestsOutstanding, ListRequests
<1>13. CASE UNCHANGED vars
  BY <1>13 DEF vars, SessionsAgree, GroupsAgree, User, LoggedInAreKnown,
               RequestsNeedGroup, RequestsOutstanding, ListRequests
<1>14. ASSUME NEW how \in {"quit", "sigpipe", "segv"}, ProcessEnds(how)
       PROVE  GroupInv'
  BY <1>14, EndGroupInv
<1>15. ASSUME NEW s \in Sockets, Command(s)
       PROVE  GroupInv'
  <2>1. CASE Logout(s)
    BY <1>6, <2>1 DEF Logout, HasSession
  <2>2. CASE Exit(s)
    <3>1. peer' \in [Sockets -> Optional(Addrs)]
      BY <2>2 DEF Exit
    <3>2. CASE User(s) # None
      BY <1>6, <2>2, <3>1, <3>2 DEF Exit
    <3>3. CASE User(s) = None
      BY <2>2, <3>1, <3>3
      DEF Exit, SessionsAgree, GroupsAgree, User, LoggedInAreKnown, RequestsNeedGroup,
          RequestsOutstanding, ListRequests
    <3>4. QED
      BY <3>2, <3>3
  <2>3. CASE RemovalOfMissingEntry(s)
    BY <1>14, <2>3 DEF RemovalOfMissingEntry
  <2>4. QED
    BY <1>4, <1>5, <1>7, <1>8, <1>9, <1>10, <1>11, <1>12, <1>15, <2>1, <2>2, <2>3 DEF Command
<1>16. QED
  BY <1>1, <1>2, <1>3, <1>13, <1>14, <1>15 DEF NextWithResets, Next, PeerClosed, Quit

\* Every map of the tracker holds what it should, whatever the clients do
\* and however their connections end.
THEOREM TrackerTypeOK == SpecWithResets => []TypeOK
  BY InitGroupInv, GroupInvStep, PTL DEF SpecWithResets, GroupInv

\* The login flag and socketToUser never disagree.
THEOREM TrackerSessionsAgree == SpecWithResets => []SessionsAgree
  BY InitGroupInv, GroupInvStep, PTL DEF SpecWithResets, GroupInv

\* User.groupId and Group.participants never disagree: one group per user.
THEOREM TrackerGroupsAgree == SpecWithResets => []GroupsAgree
  BY InitGroupInv, GroupInvStep, PTL DEF SpecWithResets, GroupInv

\* A pending request is one an admin can still decide on.
THEOREM TrackerRequestsOutstanding == SpecWithResets => []RequestsOutstanding
  BY InitGroupInv, GroupInvStep, PTL DEF SpecWithResets, GroupInv

\* Only an upload of a file that has no digest yet sets one.
LEMMA DigestStep ==
  GroupInv /\ [NextWithResets]_vars =>
    \A g \in GroupIds, f \in FileNames :
      SHA[g][f] # None /\ SHA'[g][f] # None => SHA'[g][f] = SHA[g][f]
<1> SUFFICES ASSUME GroupInv, [NextWithResets]_vars,
                    NEW g \in GroupIds, NEW f \in FileNames,
                    SHA[g][f] # None, SHA'[g][f] # None
             PROVE  SHA'[g][f] = SHA[g][f]
  OBVIOUS
<1> USE DEF GroupInv, TypeOK, accountVars, sessionVars, memberVars, shareVars
<1>1. CASE UNCHANGED SHA
  BY <1>1
<1>2. ASSUME NEW u \in Users, groupId[u] # None, RemoveFilesOfUserFromGroup(u)
      PROVE  SHA'[g][f] = SHA[g][f]
  BY <1>2 DEF RemoveFilesOfUserFromGroup, Optional
<1>3. ASSUME NEW how, ProcessEnds(how)
      PROVE  FALSE
  BY <1>3 DEF ProcessEnds
<1>4. ASSUME NEW s \in Sockets, User(s) # None, EndSession(s)
      PROVE  SHA'[g][f] = SHA[g][f]
  BY <1>1, <1>2, <1>4 DEF EndSession, User, Optional
<1>5. ASSUME NEW s \in Sockets, NEW h \in GroupIds, LeaveGroup(s, h)
      PROVE  SHA'[g][f] = SHA[g][f]
  BY <1>2, <1>5, NoneIsAbsent DEF LeaveGroup, InGroup, HasSession, User, Optional
<1>6. ASSUME NEW s \in Sockets, NEW h \in GroupIds, NEW e \in FileNames, NEW d \in Digests,
             UploadFile(s, h, e, d)
      PROVE  SHA'[g][f] = SHA[g][f]
  BY <1>6 DEF UploadFile, DigestAfterUpload
<1>7. ASSUME NEW s \in Sockets, Command(s)
      PROVE  SHA'[g][f] = SHA[g][f]
  <2>1. CASE Logout(s) \/ Exit(s)
    BY <1>1, <1>4, <2>1 DEF Logout, HasSession, Exit
  <2>2. CASE RemovalOfMissingEntry(s)
    BY <1>3, <2>2 DEF RemovalOfMissingEntry
  <2>3. CASE \E u \in Users, p \in Passwords : CreateUser(s, u, p) \/ Login(s, u, p)
    BY <1>1, <2>3 DEF CreateUser, Login
  <2>4. ASSUME NEW h \in GroupIds, CreateGroup(s, h) \/ JoinGroup(s, h)
        PROVE  UNCHANGED SHA
    BY <2>4 DEF CreateGroup, JoinGroup
  <2>5. ASSUME NEW h \in GroupIds, NEW v \in Users, AcceptRequest(s, h, v)
        PROVE  UNCHANGED SHA
    BY <2>5 DEF AcceptRequest
  <2>6. ASSUME NEW h \in GroupIds, NEW e \in FileNames, DownloadFile(s, h, e)
        PROVE  UNCHANGED SHA
    BY <2>6 DEF DownloadFile
  <2>7. QED
    BY <1>1, <1>5, <1>6, <1>7, <2>1, <2>2, <2>3, <2>4, <2>5, <2>6 DEF Command
<1>8. QED
  BY <1>1, <1>3, <1>7
  DEF NextWithResets, Next, Accept, PeerClosed, PeerReset, Quit, Restart, vars

\* The digest that a download is verified against stays while the file does.
THEOREM TrackerDigestIsStable == SpecWithResets => DigestIsStable
  BY InitGroupInv, GroupInvStep, DigestStep, PTL DEF SpecWithResets, DigestIsStable

----------------------------------------------------------------------------
(* The tracker implements GroupMembership.                                 *)

\* Because User.groupId and Group.participants agree, the guard of join_group
\* and of accept_request on the former is the abstract one on the latter.
LEMMA FreeIsInNoGroup ==
  ASSUME GroupInv, NEW u \in Users, FreeToJoin(u)
  PROVE  Membership!InNoGroup(u)
  BY NoneIsAbsent DEF GroupInv, GroupsAgree, FreeToJoin, Membership!InNoGroup

LEMMA MembershipStep ==
  GroupInv /\ [NextWithResets]_vars => [Membership!Next]_Membership!vars
<1> SUFFICES ASSUME GroupInv, [NextWithResets]_vars
             PROVE  Membership!Next \/ UNCHANGED Membership!vars
  OBVIOUS
<1> USE NoneIsAbsent
<1> USE DEF GroupInv, TypeOK, Optional, accountVars, sessionVars, memberVars, shareVars
<1>1. CASE UNCHANGED memberVars
  BY <1>1 DEF Membership!vars
<1>2. ASSUME NEW how, ProcessEnds(how)
      PROVE  Membership!Next
  BY <1>2 DEF ProcessEnds, Membership!Next, Membership!ForgetAll
<1>3. ASSUME NEW s \in Sockets, NEW g \in GroupIds, CreateGroup(s, g)
      PROVE  Membership!Next
  <2>1. User(s) \in Users /\ Membership!Found(User(s), g)
    BY <1>3 DEF CreateGroup, HasSession, User, Membership!Found
  <2>2. QED
    BY <2>1 DEF Membership!Next
<1>4. ASSUME NEW s \in Sockets, NEW g \in GroupIds, JoinGroup(s, g)
      PROVE  Membership!Next
  <2>1. User(s) \in Users /\ Membership!InNoGroup(User(s))
    BY <1>4, FreeIsInNoGroup DEF JoinGroup, HasSession, User
  <2>2. Membership!EnterAsOwner(User(s), g) \/ Membership!Apply(User(s), g)
    BY <1>4, <2>1 DEF JoinGroup, Membership!EnterAsOwner, Membership!Apply
  <2>3. QED
    BY <2>1, <2>2 DEF Membership!Next
<1>5. ASSUME NEW s \in Sockets, NEW g \in GroupIds, LeaveGroup(s, g)
      PROVE  Membership!Next
  <2>1. User(s) \in Users /\ Membership!Depart(User(s), g)
    BY <1>5 DEF LeaveGroup, InGroup, HasSession, User, GroupsAgree, Membership!Depart
  <2>2. QED
    BY <2>1 DEF Membership!Next
<1>6. ASSUME NEW s \in Sockets, NEW g \in GroupIds, NEW v \in Users, AcceptRequest(s, g, v)
      PROVE  Membership!Next
  <2>1. adminId[g] \in participants[g]
    BY <1>6 DEF AcceptRequest, MayAccept, InGroup, HasSession, User, GroupsAgree
  <2>2. Membership!InNoGroup(v)
    BY <1>6, FreeIsInNoGroup DEF AcceptRequest
  <2>3. Membership!Admit(v, g)
    BY <1>6, <2>1, <2>2 DEF AcceptRequest, Membership!Admit
  <2>4. QED
    BY <2>3 DEF Membership!Next
<1>7. ASSUME NEW s \in Sockets, Command(s)
      PROVE  Membership!Next \/ UNCHANGED memberVars
  <2>1. CASE Logout(s) \/ Exit(s)
    BY <2>1 DEF Logout, Exit, EndSession
  <2>2. CASE RemovalOfMissingEntry(s)
    BY <1>2, <2>2 DEF RemovalOfMissingEntry
  <2>3. CASE \E u \in Users, p \in Passwords : CreateUser(s, u, p) \/ Login(s, u, p)
    BY <2>3 DEF CreateUser, Login
  <2>4. ASSUME NEW g \in GroupIds, NEW f \in FileNames, NEW d \in Digests, UploadFile(s, g, f, d)
        PROVE  UNCHANGED memberVars
    BY <2>4 DEF UploadFile
  <2>5. ASSUME NEW g \in GroupIds, NEW f \in FileNames, DownloadFile(s, g, f)
        PROVE  UNCHANGED memberVars
    BY <2>5 DEF DownloadFile
  <2>6. QED
    BY <1>3, <1>4, <1>5, <1>6, <1>7, <2>1, <2>2, <2>3, <2>4, <2>5 DEF Command
<1>8. QED
  BY <1>1, <1>2, <1>7
  DEF NextWithResets, Next, Accept, PeerClosed, PeerReset, Quit, Restart, vars

\* Groups keep the promises of GroupMembership: who is admitted has asked,
\* and was let in by an admin who was a member.
THEOREM TrackerImplementsMembership == SpecWithResets => MembershipSpec
<1>1. Init => Membership!Init
  BY DEF Init, Membership!Init
<1>2. QED
  BY <1>1, InitGroupInv, GroupInvStep, MembershipStep, PTL
  DEF SpecWithResets, MembershipSpec, Membership!Spec

----------------------------------------------------------------------------
(* Part 2: the shares, under Spec.                                         *)

\* A session's address is the one of the client at the other end, and no two
\* clients have the same.
AddressOfSession ==
  \A s \in Sockets : User(s) # None => ipAndPort[User(s)] = peer[s]

PeersDiffer ==
  \A s, t \in Sockets : peer[s] # None /\ peer[s] = peer[t] => s = t

\* Only who is logged in and in a group shares files.
SharersAreIn ==
  \A u \in Users : files[u] # {} => u \in isLoggedIn /\ groupId[u] # None

\* No stale address: each one belongs to somebody who is logged in.
SeedersAreLoggedIn ==
  \A g \in GroupIds, f \in FileNames : \A a \in ipAndPorts[g][f] :
    \E u \in isLoggedIn : ipAndPort[u] = a

RecordsHaveSeeders ==
  \A g \in GroupIds, f \in FileNames : SHA[g][f] # None <=> ipAndPorts[g][f] # {}

ShareInv ==
  /\ SessionsAreOpen
  /\ AddressOfSession
  /\ PeersDiffer
  /\ SharersAreIn
  /\ IndexesAgree
  /\ SeedersAreLoggedIn
  /\ RecordsHaveSeeders
  /\ NeverSegfaults

\* The invariant of Spec.
Inv == GroupInv /\ ShareInv

LEMMA InitShareInv == Init => ShareInv
  BY NoneIsAbsent
  DEF Init, ShareInv, SessionsAreOpen, AddressOfSession, PeersDiffer, SharersAreIn,
      IndexesAgree, SeedersAreLoggedIn, RecordsHaveSeeders, NeverSegfaults, User

LEMMA EndShareInv ==
  ASSUME NEW how \in {"quit", "sigpipe"}, ProcessEnds(how)
  PROVE  ShareInv'
  BY NoneIsAbsent
  DEF ProcessEnds, ShareInv, SessionsAreOpen, AddressOfSession, PeersDiffer, SharersAreIn,
      IndexesAgree, SeedersAreLoggedIn, RecordsHaveSeeders, NeverSegfaults, User

\* Users who are logged in are told apart by their addresses.
LEMMA AddressesDiffer ==
  ASSUME Inv, NEW u \in isLoggedIn, NEW v \in isLoggedIn, ipAndPort[u] = ipAndPort[v]
  PROVE  u = v
<1>1. u \in Users /\ v \in Users
  BY DEF Inv, GroupInv, TypeOK
<1>2. PICK s \in Sockets : User(s) = u
  BY <1>1 DEF Inv, GroupInv, SessionsAgree
<1>3. PICK t \in Sockets : User(t) = v
  BY <1>1 DEF Inv, GroupInv, SessionsAgree
<1>4. u # None /\ v # None
  BY <1>1, NoneIsAbsent
<1>5. peer[s] = peer[t] /\ peer[s] # None
  BY <1>2, <1>3, <1>4 DEF Inv, ShareInv, AddressOfSession, SessionsAreOpen
<1>6. QED
  BY <1>2, <1>3, <1>5 DEF Inv, ShareInv, PeersDiffer

\* find() never returns end(): the code needs no comparison.
LEMMA EntriesAreFound ==
  ASSUME Inv, NEW u \in Users, groupId[u] # None
  PROVE  EntriesFound(u)
<1> SUFFICES ASSUME NEW f \in files[u]
             PROVE  SHA[groupId[u]][f] # None /\ ipAndPort[u] \in ipAndPorts[groupId[u]][f]
  BY DEF EntriesFound
<1>1. groupId[u] \in GroupIds /\ f \in FileNames
  BY DEF Inv, GroupInv, TypeOK, Optional
<1>2. u \in isLoggedIn
  BY DEF Inv, ShareInv, SharersAreIn
<1>3. ipAndPort[u] \in ipAndPorts[groupId[u]][f]
  BY <1>1, <1>2 DEF Inv, ShareInv, IndexesAgree
<1>4. QED
  BY <1>1, <1>3 DEF Inv, ShareInv, RecordsHaveSeeders

\* removeFilesOfUserFromGroup takes exactly one user's address out of the
\* index, and with it the files he was the last to share.
LEMMA RemoveFilesOfOneUser ==
  ASSUME Inv, NEW u \in isLoggedIn, groupId[u] # None, RemoveFilesOfUserFromGroup(u)
  PROVE  /\ files' = [files EXCEPT ![u] = {}]
         /\ \A g \in GroupIds, f \in FileNames :
              /\ ipAndPorts'[g][f] = ipAndPorts[g][f] \ {ipAndPort[u]}
              /\ SHA'[g][f] # None <=> ipAndPorts'[g][f] # {}
<1>1. u \in Users /\ groupId[u] \in GroupIds
  BY DEF Inv, GroupInv, TypeOK, Optional
<1>2. files' = [files EXCEPT ![u] = {}]
  BY DEF RemoveFilesOfUserFromGroup
<1>3. ASSUME NEW g \in GroupIds, NEW f \in FileNames
      PROVE  /\ ipAndPorts'[g][f] = ipAndPorts[g][f] \ {ipAndPort[u]}
             /\ SHA'[g][f] # None <=> ipAndPorts'[g][f] # {}
  <2>1. ipAndPort[u] \in ipAndPorts[g][f] <=> groupId[u] = g /\ f \in files[u]
    BY DEF Inv, ShareInv, IndexesAgree
  <2>2. SHA[g][f] # None <=> ipAndPorts[g][f] # {}
    BY DEF Inv, ShareInv, RecordsHaveSeeders
  <2>3. CASE g = groupId[u]
    <3>1. /\ ipAndPorts'[g][f] = SeedersWithout(u, f)
          /\ SHA'[g][f] = IF FileLosesLastSeeder(u, f) THEN None ELSE SHA[g][f]
      BY <1>1, <2>3 DEF RemoveFilesOfUserFromGroup, Inv, GroupInv, TypeOK
    <3>2. SeedersWithout(u, f) = ipAndPorts[g][f] \ {ipAndPort[u]}
      BY <2>1, <2>3 DEF SeedersWithout
    <3>3. FileLosesLastSeeder(u, f) <=> f \in files[u] /\ SeedersWithout(u, f) = {}
      BY DEF FileLosesLastSeeder
    <3>4. QED
      BY <2>1, <2>2, <2>3, <3>1, <3>2, <3>3
  <2>4. CASE g # groupId[u]
    BY <1>1, <2>1, <2>2, <2>4 DEF RemoveFilesOfUserFromGroup, Inv, GroupInv, TypeOK
  <2>5. QED
    BY <2>3, <2>4
<1>4. QED
  BY <1>2, <1>3

LEMMA EndSessionKeepsShares ==
  ASSUME Inv, NEW s \in Sockets, User(s) # None, EndSession(s),
         \/ UNCHANGED peer
         \/ peer' = [peer EXCEPT ![s] = None]
  PROVE  ShareInv'
<1> DEFINE u == User(s)
<1> USE NoneIsAbsent
<1> USE DEF Inv, GroupInv, ShareInv, TypeOK, Optional
<1>1. u \in Users /\ u \in isLoggedIn
  BY DEF User, SessionsAgree
<1>2. /\ isLoggedIn' = isLoggedIn \ {u}
      /\ ipAndPort' = [ipAndPort EXCEPT ![u] = None]
      /\ socketToUser' = [socketToUser EXCEPT ![s] = None]
      /\ UNCHANGED <<groupId, status>>
  BY DEF EndSession, memberVars
<1>3. /\ files' = [files EXCEPT ![u] = {}]
      /\ \A g \in GroupIds, f \in FileNames :
           /\ ipAndPorts'[g][f] = ipAndPorts[g][f] \ {ipAndPort[u]}
           /\ SHA'[g][f] # None <=> ipAndPorts'[g][f] # {}
  <2>1. CASE groupId[u] # None
    BY <1>1, <2>1, RemoveFilesOfOneUser DEF EndSession
  <2>2. CASE groupId[u] = None
    <3>1. files[u] = {}
      BY <1>1, <2>2 DEF SharersAreIn
    <3>2. \A g \in GroupIds, f \in FileNames : ipAndPort[u] \notin ipAndPorts[g][f]
      BY <1>1, <2>2 DEF IndexesAgree
    <3>3. UNCHANGED <<files, SHA, ipAndPorts>>
      BY <2>2 DEF EndSession, shareVars
    <3>4. QED
      BY <3>1, <3>2, <3>3 DEF RecordsHaveSeeders
  <2>3. QED
    BY <2>1, <2>2
<1>4. \A t \in Sockets : User(t)' # None => t # s /\ User(t)' = User(t) /\ User(t) # u
  BY <1>2 DEF User, SessionsAgree
<1>5. SessionsAreOpen' /\ AddressOfSession' /\ PeersDiffer'
  BY <1>1, <1>2, <1>4 DEF SessionsAreOpen, AddressOfSession, PeersDiffer, User
<1>6. SharersAreIn'
  BY <1>1, <1>2, <1>3 DEF SharersAreIn
<1>7. \A v \in isLoggedIn' : v \in isLoggedIn /\ v # u /\ ipAndPort'[v] = ipAndPort[v] /\ ipAndPort[v] # ipAndPort[u]
  BY <1>1, <1>2, AddressesDiffer
<1>8. IndexesAgree'
  BY <1>1, <1>2, <1>3, <1>7 DEF IndexesAgree
<1>9. SeedersAreLoggedIn'
  <2> SUFFICES ASSUME NEW g \in GroupIds, NEW f \in FileNames, NEW a \in ipAndPorts'[g][f]
               PROVE  \E v \in isLoggedIn' : ipAndPort'[v] = a
    BY DEF SeedersAreLoggedIn
  <2>1. a \in ipAndPorts[g][f] /\ a # ipAndPort[u]
    BY <1>3
  <2>2. PICK v \in isLoggedIn : ipAndPort[v] = a
    BY <2>1 DEF SeedersAreLoggedIn
  <2>3. QED
    BY <1>2, <2>1, <2>2
<1>10. QED
  BY <1>2, <1>3, <1>5, <1>6, <1>8, <1>9 DEF RecordsHaveSeeders, NeverSegfaults

LEMMA LoginKeepsShares ==
  ASSUME Inv, NEW s \in Sockets, NEW u \in Users, NEW p \in Passwords, Login(s, u, p)
  PROVE  ShareInv'
<1> USE NoneIsAbsent
<1> USE DEF Inv, GroupInv, ShareInv, TypeOK, Optional
<1>1. /\ isLoggedIn' = isLoggedIn \cup {u}
      /\ ipAndPort' = [ipAndPort EXCEPT ![u] = peer[s]]
      /\ socketToUser' = [socketToUser EXCEPT ![s] = u]
      /\ UNCHANGED <<groupId, files, SHA, ipAndPorts, peer, status>>
      /\ peer[s] # None /\ socketToUser[s] = None /\ u \notin isLoggedIn
  BY DEF Login, AddressAtLogin, LoggedInElsewhere, memberVars, shareVars
\* Nobody who is logged in has the address of the new session.
<1>2. \A v \in isLoggedIn : ipAndPort[v] # peer[s]
  <2> SUFFICES ASSUME NEW v \in isLoggedIn, ipAndPort[v] = peer[s]
               PROVE  FALSE
    OBVIOUS
  <2>1. PICK t \in Sockets : User(t) = v
    BY DEF SessionsAgree
  <2>2. peer[t] = peer[s]
    BY <2>1 DEF AddressOfSession
  <2>3. QED
    BY <1>1, <2>1, <2>2 DEF PeersDiffer, User
<1>3. \A g \in GroupIds, f \in FileNames : peer[s] \notin ipAndPorts[g][f]
  BY <1>2 DEF SeedersAreLoggedIn
<1>4. files[u] = {}
  BY <1>1 DEF SharersAreIn
<1>5. SessionsAreOpen' /\ PeersDiffer'
  BY <1>1 DEF SessionsAreOpen, PeersDiffer, User
<1>6. AddressOfSession'
  BY <1>1 DEF AddressOfSession, User, SessionsAgree
<1>7. SharersAreIn' /\ RecordsHaveSeeders' /\ NeverSegfaults'
  BY <1>1 DEF SharersAreIn, RecordsHaveSeeders, NeverSegfaults
<1>8. IndexesAgree'
  BY <1>1, <1>3, <1>4 DEF IndexesAgree
<1>9. SeedersAreLoggedIn'
  <2> SUFFICES ASSUME NEW g \in GroupIds, NEW f \in FileNames, NEW a \in ipAndPorts'[g][f]
               PROVE  \E v \in isLoggedIn' : ipAndPort'[v] = a
    BY DEF SeedersAreLoggedIn
  <2>1. PICK v \in isLoggedIn : ipAndPort[v] = a
    BY <1>1 DEF SeedersAreLoggedIn
  <2>2. QED
    BY <1>1, <2>1
<1>10. QED
  BY <1>5, <1>6, <1>7, <1>8, <1>9

\* Upload and download: the caller becomes a seeder of a file with a digest.
LEMMA AddSeederKeepsShares ==
  ASSUME Inv, NEW s \in Sockets, NEW g \in GroupIds, NEW f \in FileNames,
         InGroup(s, g), AddSeeder(s, g, f),
         UNCHANGED <<sessionVars, memberVars, peer, status>>,
         SHA'[g][f] # None,
         \A h \in GroupIds, e \in FileNames : h # g \/ e # f => SHA'[h][e] = SHA[h][e]
  PROVE  ShareInv'
<1> DEFINE u == User(s)
           a == ipAndPort[u]
<1> USE NoneIsAbsent
<1> USE DEF Inv, GroupInv, ShareInv, TypeOK, Optional, sessionVars, memberVars
<1>1. u \in Users /\ u \in isLoggedIn /\ groupId[u] = g /\ g # None
  BY DEF InGroup, HasSession, User, SessionsAgree
<1>2. files' = [files EXCEPT ![u] = @ \cup {f}]
  BY DEF AddSeeder
<1>3. /\ ipAndPorts'[g][f] = ipAndPorts[g][f] \cup {a}
      /\ \A h \in GroupIds, e \in FileNames :
           h # g \/ e # f => ipAndPorts'[h][e] = ipAndPorts[h][e]
  BY DEF AddSeeder
<1>4. SessionsAreOpen' /\ AddressOfSession' /\ PeersDiffer' /\ NeverSegfaults'
  BY DEF SessionsAreOpen, AddressOfSession, PeersDiffer, NeverSegfaults, User
<1>5. SharersAreIn'
  BY <1>1, <1>2 DEF SharersAreIn
<1>6. IndexesAgree'
  <2> SUFFICES ASSUME NEW v \in isLoggedIn, NEW h \in GroupIds, NEW e \in FileNames
               PROVE  ipAndPort[v] \in ipAndPorts'[h][e] <=> groupId[v] = h /\ e \in files'[v]
    BY DEF IndexesAgree
  <2>1. ipAndPort[v] \in ipAndPorts[h][e] <=> groupId[v] = h /\ e \in files[v]
    BY DEF IndexesAgree
  <2>2. CASE v = u
    BY <1>1, <1>2, <1>3, <2>1, <2>2
  <2>3. CASE v # u
    <3>1. ipAndPort[v] # a
      BY <1>1, <2>3, AddressesDiffer
    <3>2. files'[v] = files[v]
      BY <1>2, <2>3
    <3>3. ipAndPort[v] \in ipAndPorts'[h][e] <=> ipAndPort[v] \in ipAndPorts[h][e]
      <4>1. CASE h = g /\ e = f
        BY <1>3, <3>1, <4>1
      <4>2. CASE h # g \/ e # f
        BY <1>3, <4>2
      <4>3. QED
        BY <4>1, <4>2
    <3>4. UNCHANGED groupId
      OBVIOUS
    <3>5. QED
      BY <2>1, <3>2, <3>3, <3>4
  <2>4. QED
    BY <2>2, <2>3
<1>7. SeedersAreLoggedIn'
  <2>1. ASSUME NEW h \in GroupIds, NEW e \in FileNames, NEW b \in ipAndPorts'[h][e]
        PROVE  \E v \in isLoggedIn : ipAndPort[v] = b
    <3>1. b \in ipAndPorts[h][e] \/ b = a
      <4>1. CASE h = g /\ e = f
        BY <1>3, <2>1, <4>1
      <4>2. CASE h # g \/ e # f
        BY <1>3, <2>1, <4>2
      <4>3. QED
        BY <4>1, <4>2
    <3>2. CASE b \in ipAndPorts[h][e]
      BY <3>2 DEF SeedersAreLoggedIn
    <3>3. CASE b = a
      BY <1>1, <3>3
    <3>4. QED
      BY <3>1, <3>2, <3>3
  <2>2. UNCHANGED <<isLoggedIn, ipAndPort>>
    OBVIOUS
  <2>3. QED
    BY <2>1, <2>2 DEF SeedersAreLoggedIn
<1>8. RecordsHaveSeeders'
  <2> SUFFICES ASSUME NEW h \in GroupIds, NEW e \in FileNames
               PROVE  SHA'[h][e] # None <=> ipAndPorts'[h][e] # {}
    BY DEF RecordsHaveSeeders
  <2>1. CASE h = g /\ e = f
    BY <1>3, <2>1
  <2>2. CASE h # g \/ e # f
    BY <1>3, <2>2 DEF RecordsHaveSeeders
  <2>3. QED
    BY <2>1, <2>2
<1>9. QED
  BY <1>4, <1>5, <1>6, <1>7, <1>8

LEMMA LeaveGroupKeepsShares ==
  ASSUME Inv, NEW s \in Sockets, NEW g \in GroupIds, LeaveGroup(s, g)
  PROVE  ShareInv'
<1> DEFINE u == User(s)
<1> USE NoneIsAbsent
<1> USE DEF Inv, GroupInv, ShareInv, TypeOK, Optional
<1>1. u \in Users /\ u \in isLoggedIn /\ groupId[u] = g /\ g # None
  BY DEF LeaveGroup, InGroup, HasSession, User, SessionsAgree
<1>2. /\ groupId' = [groupId EXCEPT ![u] = None]
      /\ UNCHANGED <<isLoggedIn, ipAndPort, socketToUser, peer, status>>
  BY DEF LeaveGroup, sessionVars
<1>3. /\ files' = [files EXCEPT ![u] = {}]
      /\ \A h \in GroupIds, f \in FileNames :
           /\ ipAndPorts'[h][f] = ipAndPorts[h][f] \ {ipAndPort[u]}
           /\ SHA'[h][f] # None <=> ipAndPorts'[h][f] # {}
  BY <1>1, RemoveFilesOfOneUser DEF LeaveGroup
<1>4. SessionsAreOpen' /\ AddressOfSession' /\ PeersDiffer' /\ NeverSegfaults'
  BY <1>2 DEF SessionsAreOpen, AddressOfSession, PeersDiffer, NeverSegfaults, User
<1>5. SharersAreIn'
  BY <1>1, <1>2, <1>3 DEF SharersAreIn
<1>6. IndexesAgree'
  <2> SUFFICES ASSUME NEW v \in isLoggedIn, NEW h \in GroupIds, NEW f \in FileNames
               PROVE  ipAndPort[v] \in ipAndPorts'[h][f] <=> groupId'[v] = h /\ f \in files'[v]
    BY <1>2 DEF IndexesAgree
  <2>1. CASE v = u
    BY <1>1, <1>2, <1>3, <2>1
  <2>2. CASE v # u
    <3>1. ipAndPort[v] # ipAndPort[u]
      BY <1>1, <2>2, AddressesDiffer
    <3>2. QED
      BY <1>2, <1>3, <2>2, <3>1 DEF IndexesAgree
  <2>3. QED
    BY <2>1, <2>2
<1>7. SeedersAreLoggedIn' /\ RecordsHaveSeeders'
  BY <1>2, <1>3 DEF SeedersAreLoggedIn, RecordsHaveSeeders
<1>8. QED
  BY <1>4, <1>5, <1>6, <1>7

\* join_group and accept_request move a user who is in no group, and so
\* shares nothing.
LEMMA EntryKeepsShares ==
  ASSUME Inv, NEW u \in Users, NEW g \in GroupIds, FreeToJoin(u),
         groupId' = [groupId EXCEPT ![u] = g],
         UNCHANGED <<sessionVars, shareVars, peer, status>>
  PROVE  ShareInv'
<1> USE NoneIsAbsent
<1> USE DEF Inv, GroupInv, ShareInv, TypeOK, Optional, sessionVars, shareVars
<1>1. groupId[u] = None /\ files[u] = {}
  BY DEF FreeToJoin, SharersAreIn
<1>2. SessionsAreOpen' /\ AddressOfSession' /\ PeersDiffer' /\ NeverSegfaults'
  BY DEF SessionsAreOpen, AddressOfSession, PeersDiffer, NeverSegfaults, User
<1>3. SharersAreIn' /\ SeedersAreLoggedIn' /\ RecordsHaveSeeders'
  BY <1>1 DEF SharersAreIn, SeedersAreLoggedIn, RecordsHaveSeeders
<1>4. IndexesAgree'
  BY <1>1 DEF IndexesAgree
<1>5. QED
  BY <1>2, <1>3, <1>4

\* What leaves sessions, memberships and shares alone.
LEMMA OtherStepKeepsShares ==
  ASSUME ShareInv, UNCHANGED <<sessionVars, groupId, shareVars>>,
         UNCHANGED <<peer, status>>
  PROVE  ShareInv'
  BY DEF sessionVars, shareVars, ShareInv, SessionsAreOpen, AddressOfSession, PeersDiffer,
         SharersAreIn, IndexesAgree, SeedersAreLoggedIn, RecordsHaveSeeders, NeverSegfaults, User

LEMMA ShareInvStep ==
  Inv /\ [Next]_vars => ShareInv'
<1> SUFFICES ASSUME Inv, [Next]_vars
             PROVE  ShareInv'
  OBVIOUS
<1>1. ASSUME NEW s \in Sockets, NEW a \in Addrs, Accept(s, a)
      PROVE  ShareInv'
  <2>1. User(s) = None
    BY <1>1 DEF Accept, Inv, ShareInv, SessionsAreOpen
  <2>2. SessionsAreOpen' /\ AddressOfSession' /\ PeersDiffer'
    BY <1>1, <2>1, NoneIsAbsent
    DEF Accept, Inv, GroupInv, TypeOK, ShareInv, SessionsAreOpen, AddressOfSession, PeersDiffer,
        User, sessionVars
  <2>3. QED
    BY <1>1, <2>2
    DEF Accept, Inv, ShareInv, sessionVars, memberVars, shareVars, SharersAreIn, IndexesAgree,
        SeedersAreLoggedIn, RecordsHaveSeeders, NeverSegfaults
<1>2. CASE Restart
  BY <1>2
  DEF Restart, Inv, ShareInv, sessionVars, memberVars, shareVars, SessionsAreOpen,
      AddressOfSession, PeersDiffer, SharersAreIn, IndexesAgree, SeedersAreLoggedIn,
      RecordsHaveSeeders, NeverSegfaults, User
<1>3. ASSUME NEW s \in Sockets, Logout(s) \/ Exit(s)
      PROVE  ShareInv'
  <2>1. CASE User(s) # None
    BY <1>3, <2>1, EndSessionKeepsShares DEF Logout, HasSession, Exit
  <2>2. CASE User(s) = None
    <3>1. /\ peer' = [peer EXCEPT ![s] = None]
          /\ UNCHANGED <<sessionVars, memberVars, shareVars, status>>
      BY <1>3, <2>2 DEF Logout, HasSession, Exit
    <3>2. QED
      BY <2>2, <3>1, NoneIsAbsent
      DEF Inv, GroupInv, TypeOK, ShareInv, sessionVars, memberVars, shareVars, SessionsAreOpen,
          AddressOfSession, PeersDiffer, SharersAreIn, IndexesAgree, SeedersAreLoggedIn,
          RecordsHaveSeeders, NeverSegfaults, User
  <2>3. QED
    BY <2>1, <2>2
\* Nobody loses an entry that he relies on.
<1>4. ASSUME NEW s \in Sockets, RemovalOfMissingEntry(s)
      PROVE  FALSE
  <2>1. User(s) \in Users
    BY <1>4 DEF RemovalOfMissingEntry, HasSession, User, Inv, GroupInv, TypeOK, Optional
  <2>2. QED
    BY <1>4, <2>1, EntriesAreFound DEF RemovalOfMissingEntry
<1>5. ASSUME NEW s \in Sockets, NEW g \in GroupIds, JoinGroup(s, g)
      PROVE  ShareInv'
  <2>1. User(s) \in Users
    BY <1>5 DEF JoinGroup, HasSession, User, Inv, GroupInv, TypeOK, Optional
  <2>2. CASE groupId' = [groupId EXCEPT ![User(s)] = g]
    BY <1>5, <2>1, <2>2, EntryKeepsShares DEF JoinGroup
  <2>3. CASE UNCHANGED groupId
    BY <1>5, <2>3, OtherStepKeepsShares DEF JoinGroup, Inv
  <2>4. QED
    BY <1>5, <2>2, <2>3 DEF JoinGroup
<1>6. ASSUME NEW s \in Sockets, NEW g \in GroupIds, NEW v \in Users, AcceptRequest(s, g, v)
      PROVE  ShareInv'
  BY <1>6, EntryKeepsShares DEF AcceptRequest
<1>7. ASSUME NEW s \in Sockets, NEW g \in GroupIds, NEW f \in FileNames, NEW d \in Digests,
             UploadFile(s, g, f, d)
      PROVE  ShareInv'
  <2>1. /\ SHA'[g][f] # None
        /\ \A h \in GroupIds, e \in FileNames : h # g \/ e # f => SHA'[h][e] = SHA[h][e]
    BY <1>7, NoneIsAbsent DEF UploadFile, DigestAfterUpload, Inv, GroupInv, TypeOK
  <2>2. QED
    BY <1>7, <2>1, AddSeederKeepsShares DEF UploadFile
<1>8. ASSUME NEW s \in Sockets, NEW g \in GroupIds, NEW f \in FileNames, DownloadFile(s, g, f)
      PROVE  ShareInv'
  BY <1>8, AddSeederKeepsShares DEF DownloadFile
<1>9. ASSUME NEW s \in Sockets, NEW g \in GroupIds, CreateGroup(s, g)
      PROVE  ShareInv'
  BY <1>9, OtherStepKeepsShares DEF CreateGroup, Inv
<1>10. ASSUME NEW s \in Sockets, NEW u \in Users, NEW p \in Passwords, CreateUser(s, u, p)
       PROVE  ShareInv'
  BY <1>10, OtherStepKeepsShares DEF CreateUser, Inv, memberVars
<1>11. ASSUME NEW s \in Sockets, Command(s)
       PROVE  ShareInv'
  BY <1>3, <1>4, <1>5, <1>6, <1>7, <1>8, <1>9, <1>10, <1>11, LoginKeepsShares,
     LeaveGroupKeepsShares
  DEF Command
<1>12. CASE UNCHANGED vars
  BY <1>12, OtherStepKeepsShares DEF vars, Inv, memberVars
<1>13. QED
  BY <1>1, <1>2, <1>11, <1>12, EndShareInv DEF Next, PeerClosed, Quit

LEMMA SpecInv == Spec => []Inv
<1>1. Init => Inv
  BY InitGroupInv, InitShareInv DEF Inv
<1>2. Inv /\ [Next]_vars => Inv'
  BY GroupInvStep, ShareInvStep DEF NextWithResets, Inv
<1>3. QED
  BY <1>1, <1>2, PTL DEF Spec

\* A session never outlives its connection.
THEOREM TrackerSessionsAreOpen == Spec => []SessionsAreOpen
  BY SpecInv, PTL DEF Inv, ShareInv

\* The index by user and the index by group are one relation.
THEOREM TrackerIndexesAgree == Spec => []IndexesAgree
  BY SpecInv, PTL DEF Inv, ShareInv

\* removeFilesOfUserFromGroup never dereferences end().
THEOREM TrackerNeverSegfaults == Spec => []NeverSegfaults
  BY SpecInv, PTL DEF Inv, ShareInv

\* Every file that list_files shows has a seeder, and its seeders are
\* members who are logged in.
THEOREM TrackerListedFilesHaveSeeders == Spec => []ListedFilesHaveSeeders
<1>1. Inv => ListedFilesHaveSeeders
  <2> SUFFICES ASSUME Inv, NEW g \in GroupIds, NEW f \in FileNames, SHA[g][f] # None
               PROVE  /\ ipAndPorts[g][f] # {}
                      /\ \A a \in ipAndPorts[g][f] : \E u \in isLoggedIn :
                           ipAndPort[u] = a /\ u \in participants[g]
    BY DEF ListedFilesHaveSeeders, ListFiles, DownloadReply
  <2>1. ipAndPorts[g][f] # {}
    BY DEF Inv, ShareInv, RecordsHaveSeeders
  <2>2. ASSUME NEW a \in ipAndPorts[g][f]
        PROVE  \E u \in isLoggedIn : ipAndPort[u] = a /\ u \in participants[g]
    <3>1. PICK u \in isLoggedIn : ipAndPort[u] = a
      BY DEF Inv, ShareInv, SeedersAreLoggedIn
    <3>2. u \in Users /\ groupId[u] = g
      BY <3>1 DEF Inv, GroupInv, TypeOK, ShareInv, IndexesAgree
    <3>3. QED
      BY <3>1, <3>2 DEF Inv, GroupInv, GroupsAgree
  <2>3. QED
    BY <2>1, <2>2
<1>2. QED
  BY <1>1, SpecInv, PTL

\* Only his own logout, leave or exit takes a file from a user's files.
LEMMA FilesStay ==
  ASSUME Inv, [Next]_vars, NEW u \in isLoggedIn, u \in isLoggedIn', groupId[u] # None,
         groupId'[u] = groupId[u]
  PROVE  ipAndPort'[u] = ipAndPort[u] /\ files[u] \subseteq files'[u]
<1> USE NoneIsAbsent
<1> USE DEF Inv, GroupInv, TypeOK, Optional, sessionVars, memberVars, shareVars
<1>1. u \in Users
  OBVIOUS
<1>2. ASSUME NEW s \in Sockets, User(s) # None, EndSession(s)
      PROVE  ipAndPort'[u] = ipAndPort[u] /\ files[u] \subseteq files'[u]
  <2>1. User(s) \in Users /\ User(s) # u
    BY <1>2 DEF EndSession, User
  <2>2. ipAndPort'[u] = ipAndPort[u]
    BY <1>1, <1>2, <2>1 DEF EndSession
  <2>3. UNCHANGED files \/ files' = [files EXCEPT ![User(s)] = {}]
    BY <1>2 DEF EndSession, RemoveFilesOfUserFromGroup
  <2>4. QED
    BY <1>1, <2>1, <2>2, <2>3
<1>3. ASSUME NEW s \in Sockets, NEW g \in GroupIds, LeaveGroup(s, g)
      PROVE  ipAndPort'[u] = ipAndPort[u] /\ files[u] \subseteq files'[u]
  <2>1. User(s) \in Users /\ User(s) # u
    BY <1>3 DEF LeaveGroup, InGroup, HasSession, User
  <2>2. QED
    BY <1>1, <1>3, <2>1 DEF LeaveGroup, RemoveFilesOfUserFromGroup
<1>4. ASSUME NEW s \in Sockets, NEW v \in Users, NEW p \in Passwords, Login(s, v, p)
      PROVE  ipAndPort'[u] = ipAndPort[u] /\ files[u] \subseteq files'[u]
  BY <1>1, <1>4 DEF Login, LoggedInElsewhere
<1>5. ASSUME NEW s \in Sockets, NEW g \in GroupIds, NEW f \in FileNames, AddSeeder(s, g, f),
             UNCHANGED ipAndPort
      PROVE  ipAndPort'[u] = ipAndPort[u] /\ files[u] \subseteq files'[u]
  BY <1>1, <1>5 DEF AddSeeder
<1>6. ASSUME NEW how, ProcessEnds(how)
      PROVE  FALSE
  BY <1>6 DEF ProcessEnds
<1>7. ASSUME NEW s \in Sockets, Command(s)
      PROVE  ipAndPort'[u] = ipAndPort[u] /\ files[u] \subseteq files'[u]
  <2>1. CASE Logout(s) \/ Exit(s)
    BY <1>2, <2>1 DEF Logout, HasSession, Exit
  <2>2. CASE RemovalOfMissingEntry(s)
    BY <1>6, <2>2 DEF RemovalOfMissingEntry
  <2>3. ASSUME NEW v \in Users, NEW p \in Passwords, CreateUser(s, v, p)
        PROVE  UNCHANGED <<ipAndPort, files>>
    BY <2>3 DEF CreateUser
  <2>4. ASSUME NEW g \in GroupIds, CreateGroup(s, g) \/ JoinGroup(s, g)
        PROVE  UNCHANGED <<ipAndPort, files>>
    BY <2>4 DEF CreateGroup, JoinGroup
  <2>5. ASSUME NEW g \in GroupIds, NEW v \in Users, AcceptRequest(s, g, v)
        PROVE  UNCHANGED <<ipAndPort, files>>
    BY <2>5 DEF AcceptRequest
  <2>6. ASSUME NEW g \in GroupIds, NEW f \in FileNames, NEW d \in Digests, UploadFile(s, g, f, d)
        PROVE  ipAndPort'[u] = ipAndPort[u] /\ files[u] \subseteq files'[u]
    BY <1>5, <2>6 DEF UploadFile
  <2>7. ASSUME NEW g \in GroupIds, NEW f \in FileNames, DownloadFile(s, g, f)
        PROVE  ipAndPort'[u] = ipAndPort[u] /\ files[u] \subseteq files'[u]
    BY <1>5, <2>7 DEF DownloadFile
  <2>8. QED
    BY <1>3, <1>4, <1>7, <2>1, <2>2, <2>3, <2>4, <2>5, <2>6, <2>7 DEF Command
<1>8. CASE UNCHANGED <<ipAndPort, files>>
  BY <1>8
<1>9. QED
  BY <1>6, <1>7, <1>8 DEF Next, Accept, PeerClosed, Quit, Restart, vars

\* While a user stays logged in and in his group, whatever the others do, he
\* stays a seeder of what he shares.
THEOREM TrackerSharesOutliveOthers == Spec => SharesOutliveOthers
<1>1. ASSUME Inv, Inv', [Next]_vars
      PROVE  \A u \in Users, g \in GroupIds, f \in FileNames :
               (/\ status' = "running"
                /\ u \in isLoggedIn \cap isLoggedIn'
                /\ groupId[u] = g /\ groupId'[u] = g
                /\ f \in files[u])
               => ipAndPort[u] \in ipAndPorts'[g][f] /\ SHA'[g][f] # None
  <2> SUFFICES ASSUME NEW u \in Users, NEW g \in GroupIds, NEW f \in FileNames,
                      u \in isLoggedIn, u \in isLoggedIn',
                      groupId[u] = g, groupId'[u] = g, f \in files[u]
               PROVE  ipAndPort[u] \in ipAndPorts'[g][f] /\ SHA'[g][f] # None
    OBVIOUS
  <2>1. ipAndPort'[u] = ipAndPort[u] /\ f \in files'[u]
    BY <1>1, NoneIsAbsent, FilesStay
  <2>2. ipAndPort[u] \in ipAndPorts'[g][f]
    BY <1>1, <2>1 DEF Inv, ShareInv, IndexesAgree
  <2>3. QED
    BY <1>1, <2>2 DEF Inv, ShareInv, RecordsHaveSeeders
<1>2. QED
  BY <1>1, SpecInv, PTL DEF Spec, SharesOutliveOthers

----------------------------------------------------------------------------
(* The tracker implements the abstract index of shares.                    *)

\* A member's address is listed in no other group.
LEMMA SharesInOneGroup ==
  ASSUME Inv, NEW s \in Sockets, NEW g \in GroupIds, InGroup(s, g)
  PROVE  ~Shares!SharesOutside(g, ipAndPort[User(s)])
<1>1. User(s) \in isLoggedIn /\ groupId[User(s)] = g
  BY NoneIsAbsent DEF InGroup, HasSession, User, Inv, GroupInv, TypeOK, Optional, SessionsAgree
<1>2. QED
  BY <1>1 DEF Inv, ShareInv, IndexesAgree, Shares!SharesOutside

\* What a user's removal takes out of the index is what he shares.
LEMMA RemovalWithdraws ==
  ASSUME Inv, NEW u \in isLoggedIn, groupId[u] # None, RemoveFilesOfUserFromGroup(u)
  PROVE  Shares!Withdraw(groupId[u], ipAndPort[u])
<1> DEFINE g == groupId[u]
           a == ipAndPort[u]
<1>1. u \in Users /\ g \in GroupIds
  BY DEF Inv, GroupInv, TypeOK, Optional
<1>2. ASSUME NEW f \in FileNames
      PROVE  /\ SeedersWithout(u, f) = ipAndPorts[g][f] \ {a}
             /\ (IF FileLosesLastSeeder(u, f) THEN None ELSE SHA[g][f])
                  = (IF ipAndPorts[g][f] \subseteq {a} THEN None ELSE SHA[g][f])
  <2>1. a \in ipAndPorts[g][f] <=> f \in files[u]
    BY <1>1, <1>2 DEF Inv, ShareInv, IndexesAgree
  <2>2. SHA[g][f] # None <=> ipAndPorts[g][f] # {}
    BY <1>1, <1>2 DEF Inv, ShareInv, RecordsHaveSeeders
  <2>3. SeedersWithout(u, f) = ipAndPorts[g][f] \ {a}
    BY <2>1 DEF SeedersWithout
  <2>4. CASE f \in files[u]
    BY <2>3, <2>4 DEF FileLosesLastSeeder
  <2>5. CASE f \notin files[u]
    BY <2>1, <2>2, <2>3, <2>5 DEF FileLosesLastSeeder
  <2>6. QED
    BY <2>3, <2>4, <2>5
<1>3. /\ [f \in FileNames |-> SeedersWithout(u, f)] = [f \in FileNames |-> ipAndPorts[g][f] \ {a}]
      /\ [f \in FileNames |-> IF FileLosesLastSeeder(u, f) THEN None ELSE SHA[g][f]]
           = [f \in FileNames |-> IF ipAndPorts[g][f] \subseteq {a} THEN None ELSE SHA[g][f]]
  BY <1>2
<1>4. QED
  BY <1>3 DEF RemoveFilesOfUserFromGroup, Shares!Withdraw

LEMMA EndSessionWithdraws ==
  ASSUME Inv, NEW s \in Sockets, User(s) # None, EndSession(s)
  PROVE  UNCHANGED Shares!vars \/ \E g \in GroupIds, a \in Addrs : Shares!Withdraw(g, a)
<1> DEFINE u == User(s)
<1>1. u \in isLoggedIn /\ u \in Users
  BY DEF User, Inv, GroupInv, TypeOK, Optional, SessionsAgree
<1>2. CASE groupId[u] # None
  <2>1. Shares!Withdraw(groupId[u], ipAndPort[u])
    BY <1>1, <1>2, RemovalWithdraws DEF EndSession
  <2>2. groupId[u] \in GroupIds /\ ipAndPort[u] \in Addrs
    BY <1>1, <1>2 DEF Inv, GroupInv, TypeOK, Optional, LoggedInAreKnown
  <2>3. QED
    BY <2>1, <2>2
<1>3. CASE groupId[u] = None
  BY <1>3 DEF EndSession, shareVars, Shares!vars
<1>4. QED
  BY <1>2, <1>3

LEMMA StepRefinesShareIndex ==
  Inv /\ [Next]_vars => [Shares!Next]_(Shares!vars)
<1> SUFFICES ASSUME Inv, [Next]_vars
             PROVE  Shares!Next \/ UNCHANGED Shares!vars
  OBVIOUS
<1>1. ASSUME NEW how, ProcessEnds(how)
      PROVE  Shares!Next
  BY <1>1 DEF ProcessEnds, Shares!Next, Shares!Forget
<1>2. ASSUME NEW s \in Sockets, NEW g \in GroupIds, InGroup(s, g)
      PROVE  ipAndPort[User(s)] \in Addrs
  BY <1>2, NoneIsAbsent
  DEF InGroup, HasSession, User, Inv, GroupInv, TypeOK, Optional, SessionsAgree, LoggedInAreKnown
<1>3. ASSUME NEW s \in Sockets, Logout(s) \/ Exit(s)
      PROVE  Shares!Next \/ UNCHANGED Shares!vars
  <2>1. CASE User(s) # None
    BY <1>3, <2>1, EndSessionWithdraws DEF Logout, Exit, Shares!Next
  <2>2. CASE User(s) = None
    BY <1>3, <2>2 DEF Logout, HasSession, Exit, shareVars, Shares!vars
  <2>3. QED
    BY <2>1, <2>2
<1>4. ASSUME NEW s \in Sockets, NEW g \in GroupIds, LeaveGroup(s, g)
      PROVE  Shares!Next
  <2>1. User(s) \in isLoggedIn /\ groupId[User(s)] = g /\ g # None
    BY <1>4, NoneIsAbsent
    DEF LeaveGroup, InGroup, HasSession, User, Inv, GroupInv, TypeOK, Optional, SessionsAgree
  <2>2. Shares!Withdraw(g, ipAndPort[User(s)])
    BY <1>4, <2>1, RemovalWithdraws DEF LeaveGroup
  <2>3. QED
    BY <1>2, <1>4, <2>2 DEF LeaveGroup, Shares!Next
<1>5. ASSUME NEW s \in Sockets, NEW g \in GroupIds, NEW f \in FileNames, NEW d \in Digests,
             UploadFile(s, g, f, d)
      PROVE  Shares!Next \/ UNCHANGED Shares!vars
  <2> DEFINE a == ipAndPort[User(s)]
  <2>1. InGroup(s, g)
    BY <1>5 DEF UploadFile
  <2>2. ~Shares!SharesOutside(g, a) /\ a \in Addrs
    BY <1>2, <2>1, SharesInOneGroup
  <2>3. ipAndPorts' = [ipAndPorts EXCEPT ![g][f] = @ \cup {a}]
    BY <1>5 DEF UploadFile, AddSeeder
  <2>4. SHA' = [SHA EXCEPT ![g][f] = DigestAfterUpload(g, f, d)]
    BY <1>5 DEF UploadFile
  <2>5. CASE SHA[g][f] = None
    <3>1. ipAndPorts[g][f] = {}
      BY <2>5 DEF Inv, ShareInv, RecordsHaveSeeders
    <3>2. SHA' = [SHA EXCEPT ![g][f] = d]
      BY <2>4, <2>5 DEF DigestAfterUpload
    <3>3. ipAndPorts' = [ipAndPorts EXCEPT ![g][f] = {a}]
      BY <2>3, <3>1
    <3>4. Shares!Offer(g, f, a, d)
      BY <2>2, <2>5, <3>2, <3>3 DEF Shares!Offer, Shares!Listed
    <3>5. QED
      BY <2>2, <3>4 DEF Shares!Next
  <2>6. CASE SHA[g][f] # None
    <3>1. SHA' = SHA
      BY <2>4, <2>6 DEF DigestAfterUpload, Inv, GroupInv, TypeOK
    <3>2. Shares!Join(g, f, a)
      BY <2>2, <2>3, <2>6, <3>1 DEF Shares!Join, Shares!Listed
    <3>3. QED
      BY <2>2, <3>2 DEF Shares!Next
  <2>7. QED
    BY <2>5, <2>6
<1>6. ASSUME NEW s \in Sockets, NEW g \in GroupIds, NEW f \in FileNames, DownloadFile(s, g, f)
      PROVE  Shares!Next
  <2>1. InGroup(s, g)
    BY <1>6 DEF DownloadFile
  <2>2. ~Shares!SharesOutside(g, ipAndPort[User(s)]) /\ ipAndPort[User(s)] \in Addrs
    BY <1>2, <2>1, SharesInOneGroup
  <2>3. Shares!Join(g, f, ipAndPort[User(s)])
    BY <1>6, <2>2 DEF DownloadFile, AddSeeder, Shares!Join, Shares!Listed
  <2>4. QED
    BY <2>2, <2>3 DEF Shares!Next
<1>7. ASSUME NEW s \in Sockets, Command(s)
      PROVE  Shares!Next \/ UNCHANGED Shares!vars
  <2>1. CASE RemovalOfMissingEntry(s)
    BY <1>1, <2>1 DEF RemovalOfMissingEntry
  <2>2. ASSUME NEW v \in Users, NEW p \in Passwords, CreateUser(s, v, p) \/ Login(s, v, p)
        PROVE  UNCHANGED Shares!vars
    BY <2>2 DEF CreateUser, Login, shareVars, Shares!vars
  <2>3. ASSUME NEW g \in GroupIds, CreateGroup(s, g) \/ JoinGroup(s, g)
        PROVE  UNCHANGED Shares!vars
    BY <2>3 DEF CreateGroup, JoinGroup, shareVars, Shares!vars
  <2>4. ASSUME NEW g \in GroupIds, NEW v \in Users, AcceptRequest(s, g, v)
        PROVE  UNCHANGED Shares!vars
    BY <2>4 DEF AcceptRequest, shareVars, Shares!vars
  <2>5. QED
    BY <1>3, <1>4, <1>5, <1>6, <1>7, <2>1, <2>2, <2>3, <2>4 DEF Command
<1>8. CASE UNCHANGED shareVars
  BY <1>8 DEF shareVars, Shares!vars
<1>9. QED
  BY <1>1, <1>7, <1>8 DEF Next, Accept, PeerClosed, Quit, Restart, vars

\* Whatever commands come, the maps of shares are an index in which a client
\* shares in one group at a time and withdraws everything at once.
THEOREM TrackerImplementsShareIndex == Spec => ShareIndexSpec
<1>1. Init => Shares!Init
  BY DEF Init, Shares!Init
<1>2. Inv /\ [Next]_vars => [Shares!Next]_(Shares!vars)
  BY StepRefinesShareIndex
<1>3. QED
  BY <1>1, <1>2, SpecInv, PTL DEF Spec, ShareIndexSpec, Shares!Spec
=============================================================================
