--------------------------- MODULE BuildLifecycle ---------------------------
(***************************************************************************)
(* What one attempt at a build promises whoever reads its Build record:    *)
(* the states are walked through in order, a success is only announced     *)
(* from "uploading", a cancelled build is a failed one, and a final state  *)
(* is final.  The runner is shown to implement this (Runner, property      *)
(* ImplementsLifecycle).                                                   *)
(***************************************************************************)
EXTENDS Naturals

VARIABLES state, outcome

lifecycleVars == <<state, outcome>>

(* builder/constants.py; only an uploaded build skips "installing" *)
Rank == [triggered |-> 0, cloning |-> 1, installing |-> 2,
         building |-> 3, uploading |-> 4]

Ongoing == DOMAIN Rank

Init == state = "triggered" /\ outcome = "pending"

Advance(s) ==
  /\ state \in Ongoing
  /\ \/ Rank[s] = Rank[state] + 1
     \/ state = "cloning" /\ s = "building"
  /\ state' = s
  /\ UNCHANGED outcome

Announce(s, o) ==
  /\ state \in Ongoing
  /\ o = "success" => state = "uploading" /\ s = "finished"
  /\ state' = s
  /\ outcome' = o

Next ==
  \/ \E s \in Ongoing : Advance(s)
  \/ \E s \in {"finished", "cancelled"}, o \in {"success", "failure"} :
       Announce(s, o)

Spec == Init /\ [][Next]_lifecycleVars
=============================================================================
