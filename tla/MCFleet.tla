------------------------------ MODULE MCFleet ------------------------------
(***************************************************************************)
(* One build with any two troubles, and two builds with one of those that  *)
(* leave every message delivered once, on two instances: while one is at   *)
(* work, the message it has, or the next one, comes to the other.          *)
(***************************************************************************)
EXTENDS Fleet

MCBuilds == {"b1", "b2"}
MCNames  == <<"i1", "i2">>

OneBuild  == [waiting |-> {"b1"}, troubles |-> Troubles, bound |-> 2]
TwoBuilds == [waiting |-> MCBuilds, troubles |-> Troubles \ {"drop", "visibility"}, bound |-> 1]
OneDrop   == [waiting |-> {"b1"}, troubles |-> {"drop"}, bound |-> 1]

MCStarts   == {OneBuild, TwoBuilds}
DropStarts == {OneDrop}
=============================================================================
