----------------------------- MODULE ShareIndex -----------------------------
(***************************************************************************)
(* What the tracker promises about shares: per group and name of a file, a *)
(* digest and the clients that share it.  Whoever comes first decides the  *)
(* digest, a client shares in one group at a time, withdraws everything at *)
(* once, and the last one to withdraw takes the file along.  Module        *)
(* Tracker implements this specification; module Swarm uses it.            *)
(***************************************************************************)
CONSTANTS
  Groups,
  Names,
  Digests,
  Clients,   \* who shares: the address of a client process
  None       \* the digest of a file that nobody shares

VARIABLES
  digest,    \* digest[g][f]
  seeders    \* seeders[g][f]

vars == <<digest, seeders>>

Init ==
  /\ digest = [g \in Groups |-> [f \in Names |-> None]]
  /\ seeders = [g \in Groups |-> [f \in Names |-> {}]]

Listed(g) == {f \in Names : digest[g][f] # None}

SharesOutside(g, a) ==
  \E h \in Groups \ {g} : \E f \in Names : a \in seeders[h][f]

\* a has f, whose digest is d, and offers it to g.
Offer(g, f, a, d) ==
  /\ f \notin Listed(g)
  /\ ~SharesOutside(g, a)
  /\ digest' = [digest EXCEPT ![g][f] = d]
  /\ seeders' = [seeders EXCEPT ![g][f] = {a}]

\* a has f, or is about to download it.
Join(g, f, a) ==
  /\ f \in Listed(g)
  /\ ~SharesOutside(g, a)
  /\ seeders' = [seeders EXCEPT ![g][f] = @ \cup {a}]
  /\ UNCHANGED digest

Withdraw(g, a) ==
  /\ seeders' = [seeders EXCEPT ![g] = [f \in Names |-> seeders[g][f] \ {a}]]
  /\ digest' = [digest EXCEPT ![g] =
                  [f \in Names |-> IF seeders[g][f] \subseteq {a} THEN None
                                   ELSE digest[g][f]]]

\* The index is nowhere but in memory.
Forget ==
  /\ digest' = [g \in Groups |-> [f \in Names |-> None]]
  /\ seeders' = [g \in Groups |-> [f \in Names |-> {}]]

Next ==
  \/ \E g \in Groups, a \in Clients :
       \/ \E f \in Names : Join(g, f, a) \/ \E d \in Digests : Offer(g, f, a, d)
       \/ Withdraw(g, a)
  \/ Forget

Spec == Init /\ [][Next]_vars
=============================================================================
