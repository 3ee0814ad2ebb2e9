-------------------------- MODULE DirectorContract --------------------------
(***************************************************************************)
(* What the runner assumes of the steps of BuildDirector (director.py)     *)
(* that it calls: which exceptions of their own they raise, and what an    *)
(* exception raised in the middle of one by a signal handler leaves it as. *)
(* Module Runner uses the steps as black boxes with this contract; module  *)
(* Director models what is in them and is checked against it.              *)
(***************************************************************************)
EXTENDS Faults

DirectorSteps == {"create_vcs_environment", "setup_vcs",
                  "create_build_environment", "setup_environment",
                  "install_build_tools", "run_build_commands", "build",
                  "download_artifacts", "extract_artifacts",
                  "check_old_output"}

(* What a director step raises of its own: a failing command or a bad      *)
(* configuration is a user error, exit code 183 a cancellation -- which    *)
(* git commands report as the user's, see vcs.Backend.run.                 *)
Raises(s) ==
  CASE s \in {"create_vcs_environment", "create_build_environment"} -> {}
    [] s = "setup_vcs" -> {"UserError", "CancelledByUser", "ExitCode183"}
    [] s \in {"setup_environment", "install_build_tools",
              "run_build_commands", "build"} -> {"UserError", "ExitCode183"}
    [] OTHER -> {"UserError"}

(* What exception e, raised inside step s, leaves it as: git commands make *)
(* a repository error of a user error, and a finally that runs one more    *)
(* may end in an exception of its own; get_storage makes an application    *)
(* error of everything, and a readthedocs-build.yaml that cannot be stored *)
(* is skipped ("none": the exception is swallowed and the step goes on).   *)
StepBecomes(s, e) ==
  CASE s = "setup_vcs" -> {e, "Unexpected"} \cup (IF e = "TimeOut" THEN {"UserError"} ELSE {})
    [] s \in {"download_artifacts", "setup_environment",
              "install_build_tools"} -> {e, "AppError"}
    [] s \in {"build", "run_build_commands"} -> {e, "none"}
    [] OTHER -> {e}
=============================================================================
