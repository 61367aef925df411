-------------------------- MODULE MCTrackerThreads --------------------------
(* Instances of the tracker with its threads for TLC.                      *)
EXTENDS TrackerThreads, TLC

Symmetry ==
  Permutations(Users) \cup Permutations(GroupIds) \cup Permutations(FileNames)
    \cup Permutations(Sockets) \cup Permutations(Addrs) \cup Permutations(Digests)

\* The user of the session of s, or of the login in progress on s.
SessionOf(s) ==
  IF task[s].at \in {"set_logged_in", "insert_session"} THEN task[s].user ELSE User(s)

\* Nobody uses the race between two logins of one user.
OneSessionEach ==
  \A s, t \in Sockets : SessionOf(s) # None /\ SessionOf(s) = SessionOf(t) => s = t
=============================================================================
