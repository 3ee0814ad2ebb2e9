------------------------------ MODULE MCRunner ------------------------------
(***************************************************************************)
(* Constants for TLC: one type of each sort -- html and json are never     *)
(* deleted and json has no flag on the Version, pdf and epub are both      *)
(* deleted and advertised.                                                 *)
(***************************************************************************)
EXTENDS Runner

MCArtifactTypes == <<"html", "json", "pdf", "epub">>
MCUndeletable   == {"html", "json"}
MCUnadvertised  == {"json"}
RunnerDisturbances ==
  AllDisturbances \ {"docker", "broker", "poweroff", "queued", "hard", "gone", "failure"}
=============================================================================
