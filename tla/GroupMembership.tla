-------------------------- MODULE GroupMembership --------------------------
(***************************************************************************)
(* What the tracker promises about groups, without sessions, addresses or  *)
(* files: a group has one owner for as long as it exists, a user who is    *)
(* not the owner enters a group only by a request that the owner, being a  *)
(* member himself, admits, and nobody is in two groups.  Module Tracker    *)
(* implements this specification with its own maps.                        *)
(***************************************************************************)
CONSTANTS
  Users,     \* user ids
  GroupIds,  \* group ids
  None       \* no user: the owner of a group that does not exist

VARIABLES
  owner,     \* owner[g]: the user who created g, or None
  roster,    \* roster[g]: the members of g
  requests   \* requests[g]: the users who asked to enter g and still wait

vars == <<owner, roster, requests>>

InNoGroup(u) == \A g \in GroupIds : u \notin roster[g]

Init ==
  /\ owner = [g \in GroupIds |-> None]
  /\ roster = [g \in GroupIds |-> {}]
  /\ requests = [g \in GroupIds |-> {}]

Found(u, g) ==
  /\ owner[g] = None
  /\ owner' = [owner EXCEPT ![g] = u]
  /\ UNCHANGED <<roster, requests>>

\* The owner walks in without asking.
EnterAsOwner(u, g) ==
  /\ owner[g] = u
  /\ InNoGroup(u)
  /\ roster' = [roster EXCEPT ![g] = @ \cup {u}]
  /\ UNCHANGED <<owner, requests>>

Apply(u, g) ==
  /\ owner[g] \notin {None, u}
  /\ InNoGroup(u)
  /\ requests' = [requests EXCEPT ![g] = @ \cup {u}]
  /\ UNCHANGED <<owner, roster>>

Admit(u, g) ==
  /\ owner[g] \in roster[g]
  /\ u \in requests[g]
  /\ InNoGroup(u)
  /\ roster' = [roster EXCEPT ![g] = @ \cup {u}]
  /\ requests' = [requests EXCEPT ![g] = @ \ {u}]
  /\ UNCHANGED owner

Depart(u, g) ==
  /\ u \in roster[g]
  /\ roster' = [roster EXCEPT ![g] = @ \ {u}]
  /\ UNCHANGED <<owner, requests>>

\* Groups live in the memory of one process and die with it.
ForgetAll ==
  /\ owner' = [g \in GroupIds |-> None]
  /\ roster' = [g \in GroupIds |-> {}]
  /\ requests' = [g \in GroupIds |-> {}]

Next ==
  \/ \E u \in Users, g \in GroupIds :
       \/ Found(u, g)
       \/ EnterAsOwner(u, g)
       \/ Apply(u, g)
       \/ Admit(u, g)
       \/ Depart(u, g)
  \/ ForgetAll

Spec == Init /\ [][Next]_vars
=============================================================================
