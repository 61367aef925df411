------------------------------ MODULE Transfer ------------------------------
(***************************************************************************)
(* What a download promises: every chunk of the file is asked for once,    *)
(* never more than Width at a time, and the outcome is settled after the   *)
(* last one is over - or the download is given up before the first.        *)
(* Module Download implements this specification with its windows of       *)
(* threads.                                                                *)
(***************************************************************************)
EXTENDS Naturals, FiniteSets

CONSTANTS
  Parts,    \* the chunks of the file
  Width     \* how many may be under way together

VARIABLES
  waiting,  \* the parts that nobody has asked for
  moving,   \* the parts that are under way
  outcome   \* "open", "settled" or "given up"

vars == <<waiting, moving, outcome>>

Init == waiting = Parts /\ moving = {} /\ outcome = "open"

GiveUp ==
  /\ outcome = "open"
  /\ waiting = Parts
  /\ outcome' = "given up"
  /\ UNCHANGED <<waiting, moving>>

Start(p) ==
  /\ outcome = "open"
  /\ p \in waiting
  /\ Cardinality(moving) < Width
  /\ waiting' = waiting \ {p}
  /\ moving' = moving \cup {p}
  /\ UNCHANGED outcome

\* The part has arrived, or never will.
Finish(p) ==
  /\ p \in moving
  /\ moving' = moving \ {p}
  /\ UNCHANGED <<waiting, outcome>>

Settle ==
  /\ outcome = "open"
  /\ waiting = {} /\ moving = {}
  /\ outcome' = "settled"
  /\ UNCHANGED <<waiting, moving>>

Next ==
  \/ GiveUp
  \/ Settle
  \/ \E p \in Parts : Start(p) \/ Finish(p)

Spec == Init /\ [][Next]_vars
=============================================================================
