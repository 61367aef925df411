----------------------------- MODULE MCDownload -----------------------------
(* Instances of a download for TLC: its seeders are interchangeable.       *)
EXTENDS Download, TLC

Symmetry == Permutations(Seeders)
=============================================================================
