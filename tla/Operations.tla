----------------------------- MODULE Operations -----------------------------
(***************************************************************************)
(* environments.py: the commands of a build, run one after the other in    *)
(* the build container and shown to the user through the API, with what    *)
(* vcs.Backend.run and the other operations of a director's step add.      *)
(*                                                                         *)
(* "rest" is the sequence of operations a step has left; the first is the  *)
(* one under way.  A command goes through the phases of                    *)
(* run_command_class: "posted" (its record created), "ran", "saved" (the   *)
(* record updated), and is then judged.                                    *)
(***************************************************************************)
EXTENDS Faults, Sequences

VARIABLES rest,   \* the operations of the step still to do
          phase,  \* where the first of them is
          exit,   \* the exit code of the first: "lost" is -1, the code
                  \* DockerBuildCommand gives it for an error of the daemon's
          exc,    \* the exception that leaves the step, or "none"
          shown,  \* the status of the first one's record, "none" if it has none
          log,    \* the records of the commands before it, as a set
          most    \* bound: no more kinds of disturbance than this in the build

opVars == <<rest, phase, exit, exc, shown, log, struck, most>>

Phases   == {"ready", "posted", "ran", "saved"}
Exits    == {"ok", "failure", "exit183", "lost"}
Statuses == {"open", "orphan"} \cup Exits

-----------------------------------------------------------------------------
(* Operations.  record and warn are the arguments of run_command_class;    *)
(* git is for a command of vcs.Backend.run; of is the tool or the format   *)
(* it is about; venv tells that it runs from the language environment;     *)
(* refuses are the exits the caller takes for a user error; skip is how    *)
(* many operations a failure makes pointless; guarded is for the           *)
(* operations in the try of has_ssh_key_with_write_access.                 *)

Operation(kind, name) ==
  [is |-> kind, name |-> name, of |-> "none", record |-> TRUE, warn |-> "default",
   git |-> FALSE, venv |-> FALSE, refuses |-> {}, skip |-> 0, guarded |-> FALSE]

Recorded(name)   == Operation("command", name)
Unrecorded(name) == [Recorded(name) EXCEPT !.record = FALSE]
Required(name)   == [Unrecorded(name) EXCEPT !.warn = "no"]
Lenient(name)    == [Recorded(name) EXCEPT !.warn = "yes"]

Git(op)     == [op EXCEPT !.git = TRUE]
About(x, op) == [op EXCEPT !.of = x]
InVenv(op)  == [op EXCEPT !.venv = TRUE]
Skips(n, op) == [op EXCEPT !.skip = n]

(* The finally of that try *)
RemoveRemote == Git(Unrecorded("remote remove"))

Current == Head(rest)
At(kind) == rest # <<>> /\ Current.is = kind

(* Mutant: warn_only does not follow record.                               *)
WarnOnlyAsAsked(op) == op.warn = "yes"

(* An unrecorded command only warns unless the caller says otherwise *)
WarnOnly(op) == op.warn = "yes" \/ (op.warn = "default" /\ ~op.record)

-----------------------------------------------------------------------------
(* The end of an operation *)

Hit(d) == Cardinality(struck) < most /\ Strike(d) /\ UNCHANGED most
Calm   == UNCHANGED <<struck, most>>

Drop(n) == SubSeq(rest, n + 1, Len(rest))

Records(statuses) == [status : statuses, warn : {WarnOnly(Current)}]

(* The operation is over: what the API shows of it stays *)
Leave ==
  /\ log' = log \cup Records({shown} \ {"none"})
  /\ shown' = "none" /\ phase' = "ready" /\ exit' = "ok"

(* On to the next operation, past those the current one makes pointless *)
Pass(skipped) ==
  /\ rest' = Drop(1 + skipped)
  /\ Leave /\ UNCHANGED exc

(* The exception leaves the step, the finally of a try it is in included *)
Raise(e) ==
  /\ exc' = e
  /\ rest' = IF Current.guarded THEN <<RemoveRemote>> ELSE <<>>
  /\ Leave

-----------------------------------------------------------------------------
(* run_command_class *)

(* A POST whose answer is lost is sent again by the HTTP adapter, and the  *)
(* first record stays as an orphan; one that keeps failing may still have  *)
(* created the record.                                                     *)
PostCommand ==
  /\ At("command") /\ phase = "ready" /\ Current.record
  /\ \/ /\ phase' = "posted" /\ shown' = "open"
        /\ \/ UNCHANGED log /\ Calm
           \/ log' = log \cup Records({"orphan"}) /\ Hit("api")
        /\ UNCHANGED <<rest, exit, exc>>
     \/ /\ Hit("api")
        /\ \E created \in SUBSET {"open"} :
             /\ log' = log \cup Records(created)
             /\ exc' = "Unexpected" /\ rest' = <<>>
        /\ UNCHANGED <<phase, exit, shown>>

(* The commands whose exit code is the user's to choose *)
UsersCommands == {"job", "command", "checkout command", "doctool"}

Started == At("command") /\ phase = IF Current.record THEN "posted" ELSE "ready"

(* DockerBuildCommand.run gets an answer from the daemon: the exit code of *)
(* the command, or an error.  natural are the exits that need no           *)
(* disturbance.                                                            *)
Exec(x, natural) ==
  /\ Started
  /\ \/ x \in natural /\ Calm
     \/ x = "failure" /\ Hit("failure")
     \/ x = "exit183" /\ Current.name \in UsersCommands /\ Hit("exit183")
     \/ x = "lost"    /\ Hit("docker")
  /\ exit' = x
  /\ phase' = "ran"
  /\ UNCHANGED <<rest, exc, shown, log>>

(* It gets none: the daemon cannot be reached or does not answer in time,  *)
(* which is no APIError.  Nothing catches it here, so the command is not   *)
(* judged and its record stays as it was posted.                           *)
LoseDaemon == Started /\ Raise("Unexpected") /\ Hit("docker")

(* Mutant: the record of a command that failed is not updated.             *)
SaveCommandIfOk ==
  /\ At("command") /\ phase = "ran"
  /\ phase' = "saved"
  /\ shown' = IF Current.record /\ exit = "ok" THEN exit ELSE shown
  /\ UNCHANGED <<rest, exit, exc, log>> /\ Calm

(* The PATCH of the record, or a POST of a new one when it is gone *)
SaveCommand ==
  /\ At("command") /\ phase = "ran"
  /\ \/ /\ phase' = "saved"
        /\ shown' = IF Current.record THEN exit ELSE "none"
        /\ Calm \/ (Current.record /\ Hit("gone"))
        /\ UNCHANGED <<rest, exit, exc, log>>
     \/ /\ Current.record /\ Hit("api")
        /\ \E status \in {shown, exit} : log' = log \cup Records({status})
        /\ exc' = "Unexpected" /\ rest' = <<>>
        /\ phase' = "ready" /\ exit' = "ok" /\ shown' = "none"

(* Mutant: user errors are caught before the cancellations among them.     *)
TranslatedUserErrorsFirst(op, e) ==
  IF op.git /\ e \in UserErrors THEN "UserError" ELSE e

(* Mutant: the error of the git backend is not made one of the build's.    *)
TranslatedRaw(op, e) ==
  IF op.git /\ e = "UserError" THEN "RepositoryError" ELSE e

(* vcs.Backend.run; BuildCancelled is a BuildUserError, but caught first *)
Translated(op, e) ==
  IF ~op.git THEN e
  ELSE CASE e \in Cancellations -> "CancelledByUser"
         [] e \in UserErrors \ Cancellations -> "UserError"
         [] OTHER -> e

(* The verdict on the command that ran: what run_command_class raises, or  *)
(* else what its caller makes of the exit code and of the output.  The     *)
(* output of git push that is searched does not exist if Docker failed.    *)
Judge ==
  /\ At("command") /\ phase = "saved"
  /\ IF exit # "ok" /\ ~WarnOnly(Current)
     THEN Raise(Translated(Current, IF exit = "exit183" THEN "ExitCode183" ELSE "UserError"))
     ELSE IF exit \in Current.refuses
     THEN Raise(IF Current.name = "push" THEN "Unexpected" ELSE "UserError")
     ELSE Pass(IF exit = "ok" THEN 0 ELSE Current.skip)
  /\ Calm
=============================================================================
