----------------------------- MODULE MCTracker -----------------------------
(* Instances of the tracker for TLC: its users are interchangeable, and so *)
(* are its groups, files, sockets and clients.                             *)
EXTENDS Tracker, TLC

Symmetry ==
  Permutations(Users) \cup Permutations(GroupIds) \cup Permutations(FileNames)
    \cup Permutations(Sockets) \cup Permutations(Addrs)
=============================================================================
