------------------------------- MODULE Faults -------------------------------
(***************************************************************************)
(* What can go wrong with a build, shared by every module: the exceptions  *)
(* the code tells apart, and what its environment can do to it.            *)
(*                                                                         *)
(* "struck" is a history variable: the things the environment has done to  *)
(* this build so far (a signal that landed, a request that failed, ...).   *)
(* An environment step that is not in Disturbances cannot happen, so a     *)
(* model chooses its environment with that constant, and a property can    *)
(* say "unless this or that happened".                                     *)
(***************************************************************************)
EXTENDS Naturals, FiniteSets

CONSTANT Disturbances

(* What the environment can do to a build:                                 *)
(*   api        a request fails after its retries, or its answer is lost   *)
(*   rejected   the PATCH of the Version is answered with a 4xx            *)
(*   gone       the PATCH of a command is answered with a 404              *)
(*   storage    rclone or S3 fails                                         *)
(*   unexpected a step of the build raises an exception of neither family  *)
(*              of builder.exceptions, or an application error             *)
(*   docker     a request to the Docker daemon fails                       *)
(*   broker     a task cannot be sent to the Celery broker                 *)
(*   poweroff   the host refuses to power off                              *)
(*   failure    a command exits with a code that is neither 0 nor 183      *)
(*   exit183    a command exits 183                                        *)
(*   cancel     SIGINT or SIGTERM raises BuildCancelled                    *)
(*   recancel   a second one does                                          *)
(*   deferred   SIGINT or SIGTERM arrives during the upload                *)
(*   queued     the build is cancelled in the database before a worker has *)
(*              fetched it                                                 *)
(*   alarm      the build's own wall clock (SIGALRM) runs out              *)
(*   soft, hard Celery's task time limits run out                          *)
AllDisturbances == {"api", "rejected", "gone", "storage", "unexpected",
                    "docker", "broker", "poweroff", "failure", "exit183",
                    "cancel", "recancel", "deferred", "queued",
                    "alarm", "soft", "hard"}

ASSUME DisturbancesAssumption == Disturbances \subseteq AllDisturbances

VARIABLE struck  \* history: the disturbances so far

Strike(d) == /\ d \in Disturbances
             /\ struck' = struck \cup {d}

(* The classes of exceptions the code tells apart.  TimeOut is the         *)
(* BuildUserError BUILD_TIME_OUT; the two cancellations are the message    *)
(* ids of BuildCancelled, a BuildUserError too; Unexpected is any other    *)
(* Exception, SoftTimeLimit Celery's SoftTimeLimitExceeded.                *)
Cancellations == {"CancelledByUser", "ExitCode183"}
UserErrors    == Cancellations \cup {"UserError", "TimeOut"}
AppErrors     == {"AppError"}
Exceptions    == UserErrors \cup AppErrors \cup {"Unexpected", "SoftTimeLimit"}
=============================================================================
