---------------------------- MODULE MCFileBytes ----------------------------
(* Instances of the bytes of a file for TLC.                               *)
EXTENDS FileBytes, TLC

CONSTANTS Small, Large, x

\* Every content up to the size Small, then texts up to the size Large.
SmallFilesLargeTexts ==
  UNION {[1 .. n -> {x, Nul, Error}] : n \in 0 .. Small}
  \cup {[i \in 1 .. n |-> x] : n \in 0 .. Large}
=============================================================================
