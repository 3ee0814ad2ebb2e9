------------------------------ MODULE MCWorker ------------------------------
(***************************************************************************)
(* Constants for TLC: an undeletable type and a deletable one are enough   *)
(* here, Runner's own model has one of each sort.                          *)
(***************************************************************************)
EXTENDS Worker

MCArtifactTypes == <<"html", "pdf">>
MCUndeletable   == {"html"}
MCUnadvertised  == {}

(* How a task ends does not depend on how often the loops go round *)
EndingArtifactTypes == <<"html">>

WorkerDisturbances ==
  AllDisturbances \ {"rejected", "deferred", "recancel", "hard", "gone", "failure"}
EndingDisturbances == {"api", "poweroff", "cancel", "alarm", "soft", "hard"}
=============================================================================
