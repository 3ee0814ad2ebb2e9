------------------------------- MODULE Worker -------------------------------
(***************************************************************************)
(* worker/tasks.py: the Celery task run_build around the runner, from the  *)
(* message in the queue to the instance's release.  The task fetches the   *)
(* Build, prepares it, starts its container, runs it (module Runner) and   *)
(* cleans up; outside the runner it reports failures itself.               *)
(*                                                                         *)
(* "wpc" names the step of the task about to execute and "wexc" the        *)
(* exception leaving it.  While wpc = "runner" the steps are Runner's.     *)
(***************************************************************************)
EXTENDS Runner

CONSTANT SelfTerminates  \* FALSE if the message says no_self_terminate, or in
                         \* the docker-compose development environment

ASSUME SelfTerminatesAssumption == SelfTerminates \in BOOLEAN

VARIABLES wpc, wexc,
          report,     \* the message id the task is reporting, or "none"
          container,  \* the build container, "no_client" before get_client()
          instance    \* the EC2 instance the worker runs on

taskVars   == <<wpc, wexc, report, container, instance>>
runnerVars == <<job, pc, localVars, storage, version>>
allVars    == <<vars, taskVars>>

Contract == INSTANCE TaskContract

Bootstrap == {"setup", "protect", "fetch", "sync", "clone", "client", "container"}
Serving   == {"healthcheck", "arm", "entry", "runner", "disarm"}
Posting   == {"post", "post_inner"}
Patching  == {"patch", "patch_inner"}
Inner     == {"post_inner", "patch_inner", "return_inner"}
Hook      == {"postrun", "poweroff"}
Cleanup   == Posting \cup Patching \cup Inner \cup {"stop", "restore"} \cup Hook
Ended     == {"gone", "cut", "killed"}
TaskSteps == {"queued"} \cup Bootstrap \cup Serving \cup Cleanup \cup Ended

-----------------------------------------------------------------------------
(* Control flow of the task *)

Proceed(s)       == wpc' = s /\ UNCHANGED <<wexc, report>>
Propagate(e, to) == wpc' = to /\ wexc' = e /\ UNCHANGED report
ReportAt(s, m)   == wpc' = s /\ wexc' = "none" /\ report' = m
Report(m)        == ReportAt("post", m)

Elsewhere == UNCHANGED <<runnerVars, container, instance>>
NoRequest == UNCHANGED <<build, notes>>

(* The except clauses of the outer try: a cancellation and the soft limit  *)
(* are reported, anything else leaves the task through its finally.  A     *)
(* container that does not come up is reported inside that try             *)
(* (ReportInner), so that what interrupts its report meets them too.       *)
ReportInner(m) == ReportAt("post_inner", m)

Outer(e) ==
  CASE e \in Cancellations  -> Report("CancelledByUser")
    [] e = "SoftTimeLimit"  -> Report("TimeOut")
    [] OTHER                -> Propagate(e, "stop")

(* Mutant: a task that reported leaves at once, without the finally.       *)
AfterReportLeave == "restore"

AfterReport ==
  IF wpc \in Inner THEN "return_inner"
  ELSE IF container = "no_client" THEN "restore" ELSE "stop"

(* Mutant: the message id is taken for the final state.                    *)
FinalOfMessage(m) == m

FinalOf(m) == IF m = "CancelledByUser" THEN "cancelled" ELSE "finished"

-----------------------------------------------------------------------------
(* From the queue to the container *)

Receive == wpc = "queued" /\ Proceed("setup") /\ UNCHANGED apiVars /\ Elsewhere

Setup == wpc = "setup" /\ Proceed("protect") /\ UNCHANGED apiVars /\ Elsewhere

(* The build is claimed for the instance, or the error logged *)
Protect ==
  /\ wpc = "protect"
  /\ Proceed("fetch")
  /\ \/ instance' = "protected" /\ PatchBuilder /\ UNCHANGED struck
     \/ Fails(PatchBuilder) /\ instance' \in {instance, "protected"}
  /\ UNCHANGED <<runnerVars, container>>

AfterFetch == IF job.kind = "uploaded" THEN "client" ELSE "sync"

(* Mutant: a redelivered build that finished is built again.               *)
FetchAgain ==
  /\ wpc = "fetch"
  /\ \/ /\ build.state = "cancelled"
        /\ Report("CancelledByUser") /\ UNCHANGED struck
     \/ /\ build.state # "cancelled"
        /\ Proceed(AfterFetch) /\ UNCHANGED struck
     \/ Strike("api") /\ Report("AppError")
  /\ NoRequest /\ Elsewhere

(* A build cancelled while it was queued is reported as such, one that     *)
(* finished was delivered twice and is left alone.                         *)
FetchBuild ==
  /\ wpc = "fetch"
  /\ \/ /\ build.state = "cancelled"
        /\ Report("CancelledByUser") /\ UNCHANGED struck
     \/ /\ build.state = "finished"
        /\ Proceed("restore") /\ UNCHANGED struck
     \/ /\ build.state \in InFlight
        /\ Proceed(AfterFetch) /\ UNCHANGED struck
     \/ Strike("api") /\ Report("AppError")
  /\ NoRequest /\ Elsewhere

(* _sync_versions: skipped for pull requests, and a failing ls-remote is   *)
(* ignored; a duplicated reserved version fails the build, and so does a   *)
(* broker that does not take the task.                                     *)
SyncVersions ==
  /\ wpc = "sync"
  /\ \/ Proceed("clone") /\ UNCHANGED struck
     \/ Report("UserError") /\ UNCHANGED struck
     \/ Strike("broker") /\ Report("AppError")
  /\ NoRequest /\ Elsewhere

(* The sparse clone and build.os: the user's error is in the               *)
(* configuration, a failing git is an application error.                   *)
PrepareBuild ==
  /\ wpc = "clone"
  /\ \/ Proceed("client") /\ UNCHANGED struck
     \/ Report("UserError") /\ UNCHANGED struck
     \/ Strike("unexpected") /\ Report("AppError")
  /\ NoRequest /\ Elsewhere

(* Outside every try: the client asks the daemon for its API version       *)
GetClient ==
  /\ wpc = "client"
  /\ \/ Proceed("container") /\ container' = "absent" /\ UNCHANGED struck
     \/ Strike("docker") /\ Propagate("Unexpected", "restore")
        /\ UNCHANGED container
  /\ NoRequest /\ UNCHANGED <<runnerVars, instance>>

(* Created, then started: a container that does not start exists           *)
StartContainer ==
  /\ wpc = "container"
  /\ \/ Proceed("healthcheck") /\ container' = "present" /\ UNCHANGED struck
     \/ /\ Strike("docker") /\ ReportInner("AppError")
        /\ container' \in {"absent", "present"}
  /\ NoRequest /\ UNCHANGED <<runnerVars, instance>>

StartHealthcheck ==
  /\ wpc = "healthcheck"
  /\ \/ Proceed("arm") /\ UNCHANGED struck
     \/ Strike("docker") /\ Outer("Unexpected")
  /\ NoRequest /\ Elsewhere

-----------------------------------------------------------------------------
(* Running the build *)

ArmTimeLimit == wpc = "arm" /\ Proceed("entry") /\ UNCHANGED apiVars /\ Elsewhere

(* builder/entrypoint.py: the API's payload is parsed and the project's    *)
(* directory wiped before there is a runner                                *)
EnterRunner ==
  /\ wpc = "entry"
  /\ \/ Proceed("runner") /\ UNCHANGED struck
     \/ Strike("unexpected") /\ Propagate("Unexpected", "disarm")
  /\ NoRequest /\ Elsewhere

RunnerStep == wpc = "runner" /\ Run /\ UNCHANGED taskVars

LeaveRunner ==
  /\ wpc = "runner"
  /\ pc \in Over
  /\ Propagate(IF pc = "raised" THEN exc ELSE "none", "disarm")
  /\ UNCHANGED apiVars /\ Elsewhere

(* The alarm is cancelled, then the exception meets the except clauses     *)
DisarmTimeLimit ==
  /\ wpc = "disarm"
  /\ Outer(wexc)
  /\ UNCHANGED apiVars /\ Elsewhere

-----------------------------------------------------------------------------
(* Reporting, cleaning up, and letting the instance go *)

(* Mutant: the report is the notification alone.                           *)
PostReportOnly ==
  /\ wpc \in Posting
  /\ Proceed(AfterReport)
  /\ \/ PostNotification(report) /\ UNCHANGED struck
     \/ Fails(PostNotification(report))
  /\ Elsewhere

PatchOfPost == IF wpc = "post" THEN "patch" ELSE "patch_inner"

PostReport ==
  /\ wpc \in Posting
  /\ Proceed(PatchOfPost)
  /\ \/ PostNotification(report) /\ UNCHANGED struck
     \/ Fails(PostNotification(report))
  /\ Elsewhere

PatchReport ==
  /\ wpc \in Patching
  /\ Proceed(AfterReport)
  /\ \/ PatchFinal(FinalOf(report), "failure") /\ UNCHANGED struck
     \/ Fails(PatchFinal(FinalOf(report), "failure"))
  /\ Elsewhere

ReturnInner ==
  wpc = "return_inner" /\ Proceed("stop") /\ UNCHANGED apiVars /\ Elsewhere

StopContainer ==
  /\ wpc = "stop"
  /\ \/ Proceed("restore") /\ container' = "absent" /\ UNCHANGED struck
     \/ /\ Strike("docker") /\ Propagate("Unexpected", "restore")
        /\ UNCHANGED container
  /\ NoRequest /\ UNCHANGED <<runnerVars, instance>>

RestoreHandlers ==
  wpc = "restore" /\ Proceed("postrun") /\ UNCHANGED apiVars /\ Elsewhere

(* Mutant: a failed release is not followed by a power off.                *)
ReleaseTrusted ==
  /\ wpc = "postrun"
  /\ Proceed("gone")
  /\ \/ instance' \in {"terminated", "kept"} /\ UNCHANGED struck
     \/ Strike("api") /\ UNCHANGED instance
  /\ NoRequest /\ UNCHANGED <<runnerVars, container>>

Release ==
  /\ wpc = "postrun"
  /\ \/ /\ instance' \in {"terminated", "kept"}
        /\ Proceed("gone") /\ UNCHANGED struck
     \/ Strike("api") /\ Proceed("poweroff") /\ UNCHANGED instance
  /\ NoRequest /\ UNCHANGED <<runnerVars, container>>

PowerOff ==
  /\ wpc = "poweroff"
  /\ Proceed("gone")
  /\ \/ instance' = (IF SelfTerminates THEN "off" ELSE instance) /\ UNCHANGED struck
     \/ SelfTerminates /\ Strike("poweroff") /\ UNCHANGED instance
  /\ NoRequest /\ UNCHANGED <<runnerVars, container>>

-----------------------------------------------------------------------------
(* Signals outside the runner *)

(* Between the task's handlers and the runner's, and between the runner's  *)
(* return and the end of the task, an exception raised by a handler meets  *)
(* the except clauses of run_build.                                        *)
AroundRunner ==
  \/ wpc \in Serving \ {"runner"}
  \/ (wpc = "runner" /\ pc \in {"install"} \cup Over)

(* The exception e comes out of the step at wpc.  _post_notification and   *)
(* _finalize_build swallow what is raised in their try, protect too.       *)
TaskInterrupted(e) ==
  /\ \/ /\ wpc \in {"fetch", "sync", "clone"}
        /\ Report(IF e \in Cancellations THEN e ELSE "AppError")
     \/ /\ wpc = "container"
        /\ ReportInner(IF e \in Cancellations THEN e ELSE "AppError")
     \/ AroundRunner /\ Outer(e)
     \/ wpc = "setup"                 /\ Propagate(e, "postrun")
     \/ wpc = "protect"               /\ Proceed("fetch")
     \/ wpc = "client"                /\ Propagate(e, "restore")
     \/ wpc \in Posting               /\ Proceed(PatchOfPost)
     \/ wpc \in Patching              /\ Proceed(AfterReport)
     \/ wpc \in {"post", "patch"}     /\ Propagate(e, AfterReport)
     \/ wpc \in Inner                 /\ Outer(e)
     \/ wpc = "stop"                  /\ Propagate(e, "restore")
     \/ wpc = "restore"               /\ Propagate(e, "postrun")
  /\ container' \in IF wpc = "container" THEN {"absent", "present"} ELSE {container}
  /\ NoRequest /\ UNCHANGED <<runnerVars, instance>>

(* The hook of task_postrun is cut short: the release may have reached the *)
(* API and the power off the host, or not.                                 *)
CutHook(s) ==
  /\ Proceed(s)
  /\ instance' \in {instance} \cup
        (IF wpc = "postrun" THEN {"terminated", "kept"}
         ELSE IF SelfTerminates THEN {"off"} ELSE {})
  /\ NoRequest /\ UNCHANGED <<runnerVars, container>>

(* SIGINT, while the handlers of _cancellation_handlers are the installed  *)
(* ones -- or the runner's, once it has run: they are not put back until   *)
(* the task's own are removed.                                             *)
CancelTask ==
  /\ wpc \notin {"setup", "protect"}
  /\ Strike(IF "cancel" \in struck THEN "recancel" ELSE "cancel")
  /\ TaskInterrupted("CancelledByUser")

(* Python's own handler: KeyboardInterrupt, which no except clause takes   *)
CancelUnhandled ==
  /\ Strike("cancel")
  /\ \/ /\ wpc \in {"setup", "protect"}
        /\ Propagate("Unexpected", "postrun")
        /\ NoRequest /\ Elsewhere
     \/ wpc \in Hook /\ CutHook("cut")

SoftLimitTask ==
  /\ "soft" \notin struck
  /\ Strike("soft")
  /\ TaskInterrupted("SoftTimeLimit")

(* In the hook the soft limit is taken for a failed release or a failed    *)
(* power off, or leaves the hook.                                          *)
SoftLimitInHook ==
  /\ wpc \in Hook
  /\ "soft" \notin struck
  /\ Strike("soft")
  /\ \/ CutHook("cut")
     \/ wpc = "postrun" /\ CutHook("poweroff")

(* SIGALRM without the runner's handler, and SIGKILL: the process dies.    *)
Killed ==
  /\ wpc' = "killed"
  /\ UNCHANGED <<wexc, report>>
  /\ NoRequest /\ Elsewhere

AlarmBeforeHandler ==
  /\ wpc \in {"entry", "runner", "disarm"}
  /\ pc = "install"
  /\ Strike("alarm")
  /\ Killed

HardTimeLimit ==
  /\ wpc \notin Ended
  /\ "soft" \in struck
  /\ Strike("hard")
  /\ Killed

(* The alarm after the runner's last statement: its handler is still there *)
AlarmAfterRunner ==
  /\ wpc \in {"runner", "disarm"} /\ pc \in Over
  /\ "alarm" \notin struck
  /\ Strike("alarm")
  /\ Propagate("TimeOut", "stop")
  /\ NoRequest /\ Elsewhere

RunnerSignal == wpc = "runner" /\ Signal /\ UNCHANGED taskVars

TaskSignal ==
  \/ CancelTask \/ CancelUnhandled \/ SoftLimitTask \/ SoftLimitInHook
  \/ AlarmBeforeHandler \/ AlarmAfterRunner \/ HardTimeLimit

(* The build is cancelled in the database while its message waits          *)
CancelledInQueue ==
  /\ wpc = "queued"
  /\ build.state = "triggered"
  /\ Strike("queued")
  /\ build' = [build EXCEPT !.state = "cancelled", !.outcome = "failure"]
  /\ UNCHANGED <<notes, runnerVars, taskVars>>

-----------------------------------------------------------------------------
(* What the message may find: a new build, one an earlier delivery left in *)
(* flight, and one that finished -- claimed by nobody that matters here.   *)
DeliveredBuilds ==
  {<<NewBuild, {}>>,
   <<[state |-> "building", outcome |-> "pending", builder |-> "nobody"], {}>>,
   <<[state |-> "finished", outcome |-> "success", builder |-> "nobody"], {}>>,
   <<[state |-> "finished", outcome |-> "failure", builder |-> "nobody"], {"UserError"}>>}

WorkerInit ==
  /\ RunnerInit
  /\ \E d \in DeliveredBuilds : build = d[1] /\ notes = d[2]
  /\ struck = {}
  /\ wpc = "queued"
  /\ wexc = "none"
  /\ report = "none"
  /\ container = "no_client"
  /\ instance = "up"

Task ==
  \/ Receive \/ Setup \/ Protect \/ FetchBuild \/ SyncVersions \/ PrepareBuild
  \/ GetClient \/ StartContainer \/ StartHealthcheck \/ ArmTimeLimit
  \/ EnterRunner \/ LeaveRunner \/ DisarmTimeLimit
  \/ PostReport \/ PatchReport \/ ReturnInner \/ StopContainer \/ RestoreHandlers
  \/ Release \/ PowerOff

WorkerNext == Task \/ RunnerStep \/ RunnerSignal \/ TaskSignal \/ CancelledInQueue

WorkerSpec == WorkerInit /\ [][WorkerNext]_allVars

(* The user's commands and rclone have no timeout of their own; every      *)
(* other step returns, and the three clocks run out.                       *)
PromptStep ==
  Task \/ (RunnerStep /\ pc \notin DirectorSteps \cup {"syncing", "deleting"})

Fairness ==
  /\ WF_allVars(PromptStep)
  /\ WF_allVars(RunnerSignal /\ OnTimeout)
  /\ WF_allVars(SoftLimitTask \/ SoftLimitInHook \/ (RunnerSignal /\ OnSoftTimeLimit))
  /\ WF_allVars(HardTimeLimit)

FairWorkerSpec == WorkerSpec /\ Fairness

-----------------------------------------------------------------------------
(* Properties *)

(* Every variable of the task and of the Build record has its type.        *)
TaskTypeOK ==
  /\ TypeOK
  /\ wpc \in TaskSteps
  /\ wexc \in Exceptions \cup {"none"}
  /\ report \in {"none", "CancelledByUser", "TimeOut", "UserError", "AppError"}
  /\ container \in {"no_client", "absent", "present"}
  /\ instance \in {"up", "protected", "terminated", "kept", "off"}

(* The task and the Build record as the fleet sees them *)
Verdict(r) ==
  CASE r.state = "finished"                  -> r.outcome
    [] r.state \in {"triggered", "cancelled"} -> r.state
    [] OTHER                                 -> "underway"

RecordSeen == [state |-> Verdict(build), builder |-> build.builder]

(* An exception that leaves the runner on its way to run_build's clauses *)
Leaving(e) ==
  CASE e \in Cancellations -> Contract!Reporting("cancelled")
    [] e = "SoftTimeLimit" -> Contract!Reporting("failure")
    [] OTHER               -> Contract!At("leaving")

Succeeding == pc = "succeed" \/ (success /\ pc = "finalize")
Stopping   == final = "cancelled" \/ (pc = "except" /\ exc \in Cancellations)

RunnerSeen ==
  CASE pc \in {"install", "armed", "check", "reset"} -> Contract!At("fetched")
    [] inUpload                       -> Contract!At("uploading")
    [] Succeeding                     -> Contract!Reporting("success")
    [] pc \in Handler \cup {"finalize"} /\ ~Succeeding ->
         Contract!Reporting(IF Stopping THEN "cancelled" ELSE "failure")
    [] pc = "return"                  -> Contract!At("leaving")
    [] pc \in Over                    -> Leaving(exc)
    [] OTHER                          -> Contract!At("reset")

TaskSeen ==
  CASE wpc \in {"queued", "setup", "protect"} -> Contract!At("taken")
    [] wpc = "fetch"             -> Contract!At("protected")
    [] wpc = "runner"            -> RunnerSeen
    [] wpc = "disarm"            -> Leaving(wexc)
    [] wpc \in Posting \cup Patching ->
         Contract!Reporting(IF report = "CancelledByUser" THEN "cancelled" ELSE "failure")
    [] wpc \in Cleanup \ (Posting \cup Patching) -> Contract!At("leaving")
    [] wpc \in Ended             -> Contract!At("over")
    [] OTHER                     -> Contract!At("fetched")

(* The task does to its record what module Fleet takes it to do: every     *)
(* step of the worker and of the runner is a move of TaskContract, a       *)
(* failure or an interruption only where the environment caused one, and   *)
(* the task is over after its clean-up or with its process only.           *)
ImplementsTask ==
  [][wpc # "queued" =>
       LET after == <<TaskSeen', RecordSeen'>>
       IN  \/ after = <<TaskSeen, RecordSeen>>
           \/ /\ TaskSeen.phase = "leaving" \/ struck' \cap {"alarm", "hard"} # {}
              /\ after = <<Contract!At("over"), RecordSeen>>
           \/ after \in Contract!Moves("me", TaskSeen, RecordSeen)
           \/ /\ struck' \cap {"api", "docker", "broker", "unexpected", "alarm", "soft"} # {}
              /\ after \in Contract!Failures("me", TaskSeen, RecordSeen)
           \/ /\ struck' \cap {"cancel", "alarm", "soft"} # {}
              /\ TaskSeen' \in Contract!Signalled(TaskSeen)
              /\ RecordSeen' = RecordSeen]_allVars

(* A verdict stands: neither a second delivery of the message nor the      *)
(* worker's own reporting changes the final state or takes back a success, *)
(* unless a signal raised late in the task -- or the API did not say that  *)
(* the build had finished: a fetch that fails is reported on any build.    *)
FinalStateKept ==
  [][build.state \in FinalStates /\ struck' \cap {"cancel", "soft", "api"} = {} =>
       /\ build'.state = build.state
       /\ build.outcome = "success" => build'.outcome = "success"]_allVars

(* While the API answers, no clock runs out and nobody cancels the running *)
(* task, a task ends with its Build in a final state, a success without a  *)
(* reason and a failure with one.  There are two exceptions, and both come *)
(* from an exception that no except clause takes: raised before the runner *)
(* has started (by get_client, the healthcheck or builder/entrypoint.py)   *)
(* it leaves the Build in flight, raised in the runner it gives no reason. *)
SettledAtEnd ==
  /\ wpc = "gone"
  /\ struck \cap {"api", "cancel", "alarm", "soft", "hard"} = {}
  => /\ build.state \in FinalStates \/ (pc = "install" /\ wexc = "Unexpected")
     /\ build.state \in FinalStates =>
          IF build.outcome = "success" THEN Reasons = {}
                                       ELSE Reasons # {} \/ exc = "Unexpected"

(* The container is only left behind by a task that failed, or was         *)
(* interrupted, while removing it -- or whose process was killed.          *)
ContainerNotLeft ==
  wpc \in {"restore", "gone", "cut"} \cup Hook /\ container = "present" =>
    wexc # "none" /\ struck \cap {"docker", "cancel", "soft"} # {}

(* Every task the worker takes ends, by itself or by a clock, and lets the *)
(* instance go: released by the API, powered off, or kept on purpose.  It  *)
(* stays up in four cases only: the host refuses to power off or is not to *)
(* (no_self_terminate, docker-compose); the soft limit or SIGINT cuts the  *)
(* release itself short; the hard limit kills the process; so does the     *)
(* alarm of the build, before there is a handler for it.                   *)
InstanceLetGo ==
  wpc = "setup" ~>
    \/ wpc = "gone" /\ instance \notin {"up", "protected"}
    \/ wpc = "gone" /\ ("poweroff" \in struck \/ ~SelfTerminates)
    \/ wpc = "cut" /\ struck \cap {"soft", "cancel"} # {}
    \/ wpc = "killed" /\ "hard" \in struck
    \/ wpc = "killed" /\ "alarm" \in struck /\ pc = "install"

-----------------------------------------------------------------------------
(* Claims of the source, checked against the code *)

(* "Only called when the signal lands outside the runner: once the runner  *)
(* is driving the build it catches BuildCancelled itself and reports it"   *)
(* (worker/tasks.py, _cancel_build).  A build whose runner got as far as   *)
(* its success is certainly not the worker's to report as cancelled.       *)
RunnerReportsItsOwnCancellation ==
  success => report # "CancelledByUser"

(* "Any failure before the runner starts ...: we do it here -- PATCH the   *)
(* build to finished/success=False" (worker/tasks.py, run_build).          *)
PreContainerFailureReported ==
  wpc = "gone" /\ pc = "install" => build.state \in FinalStates
=============================================================================
