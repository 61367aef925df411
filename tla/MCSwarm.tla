------------------------------ MODULE MCSwarm ------------------------------
(* Instances of a swarm for TLC.                                           *)
EXTENDS Swarm, TLC

CONSTANT x1

\* One client has the files of all groups; the others are interchangeable, and
\* so are the groups.
OneOwner == {x1} \X Groups
Symmetry == Permutations(Clients \ {x1}) \cup Permutations(Groups)
=============================================================================
