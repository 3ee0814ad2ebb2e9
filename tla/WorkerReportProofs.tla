------------------------- MODULE WorkerReportProofs -------------------------
(***************************************************************************)
(* Proofs about what a task leaves behind, for every sequence of artifact  *)
(* types and every environment: its container, the verdict in its record,  *)
(* and the reason the record gives.                                        *)
(***************************************************************************)
EXTENDS WorkerProofs, RunnerReportProofs

-----------------------------------------------------------------------------
(* The container *)

BeforeClient == {"queued", "setup", "protect", "fetch", "sync", "clone", "client"}

(* There is no container before there is a client to make it with.         *)
ContainerInv ==
  /\ TaskTypeInv
  /\ wpc \in BeforeClient => container = "no_client"
  /\ ContainerNotLeft

(* A task that is not past its clean-up has left nothing behind.           *)
LEMMA NothingLeftYet ==
  ASSUME wpc' \notin {"restore", "postrun", "poweroff", "gone", "cut"} \/ container' # "present",
         wpc' \in BeforeClient => container' = "no_client"
  PROVE  (ContainerNotLeft /\ (wpc \in BeforeClient => container = "no_client"))'
BY DEF ContainerNotLeft, Hook

LEMMA TaskInterruptedLeaves ==
  ASSUME ContainerInv, NEW e \in {"CancelledByUser", "SoftTimeLimit"}, TaskInterrupted(e),
         struck' \cap {"cancel", "soft"} # {}
  PROVE  (ContainerNotLeft /\ (wpc \in BeforeClient => container = "no_client"))'
<1>1. ASSUME NEW x, Outer(x) PROVE wpc' \in {"post", "stop"}
  BY <1>1, ZenonT(30) DEF Outer, Report, ReportInner, ReportAt, Propagate
<1>2. wpc # "container" => container' = container
  BY DEF TaskInterrupted
<1>3. CASE \/ \E m \in {e, "AppError"} : Report(m) \/ ReportInner(m)
           \/ Outer(e)
           \/ Proceed(PatchOfPost)
  <2>1. wpc' \in {"post", "post_inner", "stop", "patch", "patch_inner"}
    BY <1>1, <1>3, AfterSteps DEF Report, ReportInner, ReportAt, Proceed
  <2> QED BY <2>1, NothingLeftYet DEF BeforeClient
<1>4. CASE \/ wpc = "setup" /\ Propagate(e, "postrun")
           \/ wpc = "protect" /\ Proceed("fetch")
           \/ wpc = "client" /\ Propagate(e, "restore")
  BY <1>2, <1>4, NothingLeftYet DEF ContainerInv, BeforeClient, Propagate, Proceed
<1>5. CASE wpc \in ReportSteps /\ (Propagate(e, AfterReport) \/ Proceed(AfterReport))
  <2>1. wpc' = AfterReport /\ container' = container
    BY <1>2, <1>5, StepSets DEF Propagate, Proceed
  <2> QED BY <2>1, NothingLeftYet DEF AfterReport, BeforeClient
<1>6. CASE \/ wpc = "stop" /\ Propagate(e, "restore")
           \/ wpc = "restore" /\ Propagate(e, "postrun")
  BY <1>6 DEF Propagate, ContainerNotLeft, BeforeClient
<1> QED BY <1>3, <1>4, <1>5, <1>6 DEF TaskInterrupted, ReportSteps, Posting, Patching

LEMMA NextKeepsContainer ==
  ASSUME ContainerInv, [WorkerNext]_allVars PROVE ContainerInv'
<1> DEFINE Goal == ContainerNotLeft /\ (wpc \in BeforeClient => container = "no_client")
<1>0. TaskTypeInv'
  BY TaskTyped DEF ContainerInv
<1>1. CASE Receive \/ Setup \/ Protect \/ FetchBuild \/ SyncVersions \/ PrepareBuild
  <2>1. container' = "no_client"
    BY <1>1
    DEF ContainerInv, BeforeClient, Receive, Setup, Protect, FetchBuild, SyncVersions, PrepareBuild,
        Elsewhere
  <2> QED BY <1>0, <2>1, NothingLeftYet DEF ContainerInv
<1>2. CASE GetClient
  <2>1. wpc' \in {"container", "restore"} /\ container' \in {"absent", "no_client"}
    BY <1>2 DEF GetClient, Proceed, Propagate, ContainerInv, BeforeClient
  <2> QED BY <1>0, <2>1, NothingLeftYet DEF ContainerInv, BeforeClient
<1>3. CASE \/ StartContainer \/ StartHealthcheck \/ ArmTimeLimit \/ EnterRunner \/ LeaveRunner
           \/ DisarmTimeLimit \/ PostReport \/ ReturnInner
           \/ AlarmAfterRunner \/ AlarmBeforeHandler \/ HardTimeLimit
  <2>1. ASSUME NEW x, Outer(x) PROVE wpc' \in {"post", "stop"}
    BY <2>1, ZenonT(30) DEF Outer, Report, ReportInner, ReportAt, Propagate
  <2>2. wpc' \in {"healthcheck", "arm", "entry", "runner", "disarm", "post", "post_inner",
                  "patch", "patch_inner", "stop", "killed"}
    BY <1>3, <2>1, AfterSteps
    DEF StartContainer, StartHealthcheck, ArmTimeLimit, EnterRunner, LeaveRunner, DisarmTimeLimit,
        PostReport, ReturnInner, AlarmAfterRunner, AlarmBeforeHandler, HardTimeLimit, Killed,
        Proceed, Propagate, Report, ReportInner, ReportAt
  <2> QED BY <1>0, <2>2, NothingLeftYet DEF ContainerInv, BeforeClient
<1>4. CASE PatchReport
  <2>1. wpc' = AfterReport /\ container' = container
    BY <1>4 DEF PatchReport, Proceed, Elsewhere
  <2> QED BY <1>0, <2>1, NothingLeftYet DEF AfterReport, ContainerInv, BeforeClient
<1>5. CASE StopContainer
  BY <1>0, <1>5
  DEF StopContainer, Proceed, Propagate, Strike, ContainerInv, ContainerNotLeft, BeforeClient
<1>6. CASE RestoreHandlers \/ Release \/ PowerOff
  <2>1. /\ wpc \in {"restore", "postrun", "poweroff"} /\ wpc' \in {"postrun", "poweroff", "gone"}
        /\ UNCHANGED <<wexc, container>> /\ struck \subseteq struck'
    BY <1>6 DEF RestoreHandlers, Release, PowerOff, Proceed, Strike, Elsewhere, apiVars
  <2> QED BY <1>0, <2>1 DEF ContainerInv, ContainerNotLeft, BeforeClient, Hook
<1>7. CASE CancelTask \/ SoftLimitTask
  <2>1. PICK e \in {"CancelledByUser", "SoftTimeLimit"} :
          TaskInterrupted(e) /\ struck' \cap {"cancel", "soft"} # {}
    BY <1>7 DEF CancelTask, SoftLimitTask, Strike
  <2> QED BY <1>0, <2>1, TaskInterruptedLeaves DEF ContainerInv
<1>8. CASE CancelUnhandled \/ SoftLimitInHook
  <2>1. CASE wpc \in {"setup", "protect"}
    <3>1. container' = "no_client"
      BY <1>8, <2>1
      DEF CancelUnhandled, SoftLimitInHook, Hook, Elsewhere, ContainerInv, BeforeClient
    <3> QED BY <1>0, <3>1, NothingLeftYet DEF ContainerInv
  <2>2. CASE wpc \notin {"setup", "protect"}
    <3>1. /\ wpc \in Hook /\ wpc' \in {"cut", "poweroff"}
          /\ UNCHANGED <<wexc, container>> /\ struck \subseteq struck'
      BY <1>8, <2>2 DEF CancelUnhandled, SoftLimitInHook, CutHook, Proceed, Strike
    <3> QED BY <1>0, <3>1 DEF ContainerInv, ContainerNotLeft, BeforeClient, Hook
  <2> QED BY <2>1, <2>2
<1>9. CASE RunnerStep \/ RunnerSignal \/ CancelledInQueue \/ UNCHANGED allVars
  <2>1. /\ UNCHANGED <<wpc, wexc, container>>
        /\ wpc \in {"queued", "runner"} \/ UNCHANGED struck
    BY <1>9 DEF RunnerStep, RunnerSignal, CancelledInQueue, allVars, taskVars, vars, apiVars
  <2> QED BY <1>0, <2>1 DEF ContainerInv, ContainerNotLeft, BeforeClient, Hook
<1> QED
  BY <1>1, <1>2, <1>3, <1>4, <1>5, <1>6, <1>7, <1>8, <1>9 DEF WorkerNext, Task, TaskSignal

(* A container only outlives its task if removing it failed or was         *)
(* interrupted, and then the task says so.                                 *)
THEOREM ContainerIsRemoved == WorkerSpec => []ContainerNotLeft
<1>1. WorkerInit => ContainerInv
  BY WorkerInitTyped DEF WorkerInit, ContainerInv, ContainerNotLeft
<1>2. ContainerInv => ContainerNotLeft
  BY DEF ContainerInv
<1> QED BY <1>1, <1>2, NextKeepsContainer, PTL DEF WorkerSpec

-----------------------------------------------------------------------------
(* The verdict *)

Unasked == struck \cap {"cancel", "soft", "api"} = {}

(* Unless a signal raised or the API failed, the task that is past its     *)
(* fetch works on a build under way, or reports one cancelled in the       *)
(* queue, until run() or the task has given its verdict.                   *)
VerdictInv ==
  /\ TaskControl
  /\ build.state = "cancelled" => build.outcome # "success"
  /\ Unasked =>
       /\ wpc \in Preparing => build.state \in InFlight
       /\ wpc = "runner" /\ pc \notin {"return"} \cup Over => build.state \in InFlight
       /\ wpc \in ReportSteps =>
            build.state \in InFlight \/ (build.state = "cancelled" /\ report = "CancelledByUser")
       /\ wpc = "disarm" => wexc \notin Cancellations \cup {"SoftTimeLimit"}

Stands ==
  build.state \in FinalStates =>
    /\ build'.state = build.state
    /\ build.outcome = "success" => build'.outcome = "success"

CancelledFailed == build.state = "cancelled" => build.outcome # "success"

LEMMA CancelledIsNoSuccess ==
  ASSUME VerdictInv, WorkerNext PROVE CancelledFailed'
<1>0. build \in BuildRecord /\ CancelledFailed
  BY DEF VerdictInv, TaskControl, TaskTypeInv, TypeInv, TypeOK, CancelledFailed
<1>1. CASE Protect \/ (RunnerStep /\ ClaimBuild)
  BY <1>0, <1>1
  DEF Protect, ClaimBuild, Request, Fails, PatchBuilder, BuildRecord, CancelledFailed, apiVars
<1>2. CASE PatchReport
  BY <1>0, <1>2 DEF PatchReport, Fails, PatchFinal, BuildRecord, CancelledFailed
<1>3. CASE CancelledInQueue
  BY <1>0, <1>3 DEF CancelledInQueue, BuildRecord, CancelledFailed
<1>4. CASE RunnerStep /\ ResetBuild
  BY <1>0, <1>4 DEF ResetBuild, Request, Fails, PostReset, NewBuild, CancelledFailed
<1>5. CASE RunnerStep /\ SetBuildState
  BY <1>0, <1>5
  DEF SetBuildState, Request, Fails, PatchState, BuildRecord, CancelledFailed, StateSteps
<1>6. CASE RunnerStep /\ Finalize
  <2>1. success => final = "none"
    BY DEF VerdictInv, TaskControl, RunControl
  <2> QED BY <1>0, <1>6, <2>1
        DEF Finalize, Fails, PatchFinal, BuildRecord, CancelledFailed, FinalState, FinalStates,
            Outcome
<1>7. CASE RunnerStep /\ ~(ResetBuild \/ ClaimBuild \/ SetBuildState \/ Finalize)
  BY <1>0, <1>7, OnlyFourWriteTheBuild DEF RunnerStep, CancelledFailed
<1>8. CASE RunnerSignal
  BY <1>0, <1>8
  DEF RunnerSignal, Signal, OnCancel, OnTimeout, OnSoftTimeLimit, Interrupt, Quiet, CancelledFailed
<1>9. CASE PostReport
  BY <1>0, <1>9 DEF PostReport, Fails, PostNotification, CancelledFailed
<1>10. CASE (Task \/ TaskSignal) /\ ~(Protect \/ PostReport \/ PatchReport \/ CancelledInQueue)
  BY <1>0, <1>10, WriterOfTask DEF NoRequest, CancelledFailed
<1> QED
  BY <1>1, <1>2, <1>3, <1>4, <1>5, <1>6, <1>7, <1>8, <1>9, <1>10 DEF WorkerNext

(* The runner gives its verdict last.                                      *)
LEMMA RunnerVerdictLast ==
  ASSUME TypeInv, RunControl, Run \/ Signal, Unasked',
         pc \notin {"return"} \cup Over => build.state \in InFlight
  PROVE  /\ pc' \notin {"return"} \cup Over => build'.state \in InFlight
         /\ Stands
<1>0. build \in BuildRecord
  BY DEF TypeInv, TypeOK
<1>1. CASE ResetBuild \/ ClaimBuild \/ SetBuildState
  <2>1. pc \notin {"return"} \cup Over /\ build.state \in InFlight
    BY <1>1 DEF ResetBuild, ClaimBuild, SetBuildState, Over, StateSteps
  <2>2. build'.state \in InFlight
    BY <1>0, <1>1, <2>1
    DEF ResetBuild, ClaimBuild, SetBuildState, Request, Fails, PostReset, PatchBuilder, PatchState,
        NewBuild, BuildRecord, InFlight, StateSteps, apiVars
  <2> QED BY <2>1, <2>2 DEF Stands, InFlight, FinalStates
<1>2. CASE Finalize
  <2>1. pc = "finalize" /\ build.state \in InFlight
    BY <1>2 DEF Finalize, Over
  <2>2. pc' \in {"return"} \cup Over
    BY <1>2 DEF Finalize, Goto, Escape, Over
  <2> QED BY <2>1, <2>2 DEF Stands, InFlight, FinalStates
<1>3. CASE (Run /\ ~(ResetBuild \/ ClaimBuild \/ SetBuildState \/ Finalize)) \/ Signal
  <2>1. UNCHANGED build
    BY <1>3, OnlyFourWriteTheBuild
    DEF Signal, OnCancel, OnTimeout, OnSoftTimeLimit, Interrupt, Quiet
  <2>2. pc \in {"return"} \cup Over => pc' \in {"return"} \cup Over
    <3>1. CASE Signal
      BY <3>1
      DEF Signal, OnCancel, OnTimeout, OnSoftTimeLimit, Interrupt, Goto, Escape, Over, Body,
          Handler, StateSteps, DirectorSteps, UploadSteps
    <3>2. CASE Run
      BY <3>2
      DEF Run, InstallHandlers, EnterTry, CheckProjectDisabled, ResetBuild, ClaimBuild,
          SetBuildState, PostCheckout, DirectorStep, ValidateArtifacts, EnterUpload, GetStorage,
          CheckMediaSize, BeginSync, EndSync, CopiesDone, BeginDelete, EndDelete, DeletesDone,
          UpdateVersion, LeaveUpload, Succeed, HandleException, AttachFailureNotification, Reraise,
          Finalize, Return, Goto, Over, StateSteps, DirectorSteps
    <3> QED BY <3>1, <3>2
  <2> QED BY <2>1, <2>2 DEF Stands
<1> QED BY <1>1, <1>2, <1>3

LEMMA TaskInterruptedAsked ==
  ASSUME CancelTask \/ CancelUnhandled \/ SoftLimitTask \/ SoftLimitInHook PROVE ~Unasked'
BY DEF CancelTask, CancelUnhandled, SoftLimitTask, SoftLimitInHook, Strike, Unasked

LEMMA NextKeepsVerdict ==
  ASSUME VerdictInv, WorkerNext
  PROVE  VerdictInv' /\ (Unasked' => Stands)
<1>0. TaskControl' /\ CancelledFailed'
  BY NextKeepsTaskControl, CancelledIsNoSuccess DEF VerdictInv
<1>a. build \in BuildRecord /\ TaskControl /\ CancelledFailed
  BY DEF VerdictInv, TaskControl, TaskTypeInv, TypeInv, TypeOK, CancelledFailed
<1> DEFINE Going ==
      /\ wpc \in Preparing => build.state \in InFlight
      /\ wpc = "runner" /\ pc \notin {"return"} \cup Over => build.state \in InFlight
      /\ wpc \in ReportSteps =>
           build.state \in InFlight \/ (build.state = "cancelled" /\ report = "CancelledByUser")
      /\ wpc = "disarm" => wexc \notin Cancellations \cup {"SoftTimeLimit"}
<1> USE StepSets, AfterSteps
<1> SUFFICES ASSUME Unasked' PROVE Going' /\ Stands
  BY <1>0 DEF VerdictInv, CancelledFailed
<1>b. Unasked /\ Going
  <2>1. struck \subseteq struck'
    BY TaskStrikes, RunStrikes DEF WorkerNext, RunnerStep, RunnerSignal
  <2> QED BY <2>1 DEF Unasked, VerdictInv
<1>c. ASSUME UNCHANGED build PROVE Stands
  BY <1>c DEF Stands
<1>1. CASE RunnerStep \/ RunnerSignal
  <2>1. wpc = "runner" /\ wpc' = "runner" /\ (Run \/ Signal)
    BY <1>1 DEF RunnerStep, RunnerSignal, taskVars
  <2>2. (pc' \notin {"return"} \cup Over => build'.state \in InFlight) /\ Stands
    BY <1>a, <1>b, <2>1, RunnerVerdictLast DEF TaskControl, TaskTypeInv
  <2> QED BY <2>1, <2>2 DEF Preparing
<1>2. CASE Receive \/ Setup \/ RestoreHandlers \/ Release \/ PowerOff
  <2>1. wpc' \in {"setup", "protect", "postrun", "poweroff", "gone"} /\ UNCHANGED build
    BY <1>2 DEF Receive, Setup, RestoreHandlers, Release, PowerOff, Proceed, NoRequest, apiVars
  <2> QED BY <1>c, <2>1 DEF Preparing
<1>3. CASE Protect
  <2>1. wpc' = "fetch" /\ build'.state = build.state /\ build'.outcome = build.outcome
    BY <1>a, <1>3 DEF Protect, Proceed, Fails, PatchBuilder, BuildRecord
  <2> QED BY <2>1 DEF Preparing, Stands
<1>4. CASE FetchBuild
  <2>1. UNCHANGED build /\ "api" \notin struck'
    BY <1>4 DEF FetchBuild, NoRequest, Unasked
  <2>2. \/ build.state = "cancelled" /\ wpc' = "post" /\ report' = "CancelledByUser"
        \/ wpc' = "restore"
        \/ build.state \in InFlight /\ wpc' \in Preparing
    BY <1>4, <2>1
    DEF FetchBuild, Report, ReportInner, ReportAt, Proceed, Strike, AfterFetch, Preparing
  <2> QED BY <1>c, <2>1, <2>2 DEF Preparing
<1>5. CASE SyncVersions \/ PrepareBuild \/ GetClient \/ StartContainer \/ StartHealthcheck \/ ArmTimeLimit
  <2>1. wpc \in Preparing /\ build.state \in InFlight /\ UNCHANGED build
    BY <1>5, <1>b
    DEF SyncVersions, PrepareBuild, GetClient, StartContainer, StartHealthcheck, ArmTimeLimit,
        NoRequest, Preparing, apiVars
  <2>2. ASSUME NEW x, Outer(x) PROVE wpc' \in {"post", "stop"}
    BY <2>2, ZenonT(30) DEF Outer, Report, ReportInner, ReportAt, Propagate
  <2>3. wpc' \in Preparing \cup {"post", "post_inner", "restore", "stop"}
    BY <1>5, <2>2
    DEF SyncVersions, PrepareBuild, GetClient, StartContainer, StartHealthcheck, ArmTimeLimit,
        Proceed, Propagate, Report, ReportInner, ReportAt, Preparing
  <2> QED BY <1>c, <2>1, <2>3 DEF Preparing
<1>6. CASE EnterRunner
  <2>1. wpc \in Preparing /\ build.state \in InFlight /\ UNCHANGED build
    BY <1>6, <1>b DEF EnterRunner, NoRequest, Preparing
  <2>2. wpc' = "runner" \/ (wpc' = "disarm" /\ wexc' = "Unexpected")
    BY <1>6 DEF EnterRunner, Proceed, Propagate
  <2> QED BY <1>c, <2>1, <2>2 DEF Preparing, Cancellations
<1>7. CASE LeaveRunner
  <2>1. /\ wpc' = "disarm" /\ pc \in Over /\ wexc' \in {exc, "none"}
        /\ UNCHANGED build
    BY <1>7 DEF LeaveRunner, Propagate, apiVars
  <2>2. exc \notin Cancellations \cup {"SoftTimeLimit"}
    BY <1>a, <1>b, <2>1 DEF TaskControl, RunControl, Unasked, Over, Handler
  <2> QED BY <1>c, <2>1, <2>2 DEF Preparing, Cancellations
<1>8. CASE DisarmTimeLimit
  <2>1. wexc \notin Cancellations \cup {"SoftTimeLimit"} /\ Outer(wexc) /\ UNCHANGED build
    BY <1>8, <1>b DEF DisarmTimeLimit, apiVars
  <2>2. wpc' = "stop"
    BY <2>1 DEF Outer, Propagate
  <2> QED BY <1>c, <2>1, <2>2 DEF Preparing
<1>9. CASE PostReport
  <2>1. /\ wpc \in {"post", "post_inner"} /\ wpc' \in {"patch", "patch_inner"}
        /\ UNCHANGED <<build, report>>
    BY <1>9 DEF PostReport, Posting, Proceed, Fails, PostNotification
  <2> QED BY <1>b, <1>c, <2>1 DEF Preparing
<1>10. CASE PatchReport
  <2>1. /\ wpc \in {"patch", "patch_inner"} /\ wpc' \in {"stop", "restore", "return_inner"}
        /\ PatchFinal(FinalOf(report), "failure")
    BY <1>10 DEF PatchReport, Patching, Proceed, Fails, Strike, Unasked
  <2>2. build'.state = FinalOf(report)
    BY <1>a, <2>1 DEF PatchFinal, BuildRecord
  <2> QED BY <1>a, <1>b, <2>1, <2>2
        DEF Preparing, Stands, FinalOf, FinalStates, InFlight, CancelledFailed
<1>11. CASE StopContainer \/ ReturnInner \/ TaskSignal
  <2>1. ~(CancelTask \/ CancelUnhandled \/ SoftLimitTask \/ SoftLimitInHook)
    BY TaskInterruptedAsked
  <2>2. wpc' \in {"restore", "killed", "stop"} /\ UNCHANGED build
    BY <1>11, <2>1
    DEF StopContainer, ReturnInner, TaskSignal, AlarmBeforeHandler, AlarmAfterRunner, HardTimeLimit,
        Killed, Proceed, Propagate, NoRequest, apiVars
  <2> QED BY <1>c, <2>2 DEF Preparing
<1>12. CASE CancelledInQueue
  <2>1. wpc' = "queued" /\ build.state = "triggered"
    BY <1>12 DEF CancelledInQueue, taskVars
  <2> QED BY <2>1 DEF Preparing, Stands, FinalStates
<1> QED
  BY <1>1, <1>2, <1>3, <1>4, <1>5, <1>6, <1>7, <1>8, <1>9, <1>10, <1>11, <1>12
  DEF WorkerNext, Task

LEMMA VerdictAlways == WorkerSpec => []VerdictInv
<1>1. WorkerInit => VerdictInv
  BY WorkerInitControl, StepSets
  DEF WorkerInit, DeliveredBuilds, NewBuild, VerdictInv, Preparing
<1>2. ASSUME VerdictInv, UNCHANGED allVars PROVE VerdictInv'
  <2>1. TaskControl'
    BY <1>2, NextKeepsTaskControl DEF VerdictInv
  <2> QED BY <1>2, <2>1 DEF VerdictInv, Unasked, allVars, vars, apiVars, localVars, taskVars
<1> QED BY <1>1, <1>2, NextKeepsVerdict, PTL DEF WorkerSpec

(* A verdict stands, whoever delivers the message again.                   *)
THEOREM VerdictsStand == WorkerSpec => FinalStateKept
<1>1. ASSUME VerdictInv, [WorkerNext]_allVars
      PROVE  [build.state \in FinalStates /\ struck' \cap {"cancel", "soft", "api"} = {} =>
                /\ build'.state = build.state
                /\ build.outcome = "success" => build'.outcome = "success"]_allVars
  BY <1>1, NextKeepsVerdict DEF Unasked, Stands
<1> QED BY <1>1, VerdictAlways, PTL DEF FinalStateKept, WorkerSpec

-----------------------------------------------------------------------------
(* The reason the record gives *)

(* The record shows how the build ended, and why unless it succeeded -- or *)
(* an exception that no except clause takes came out of the runner.        *)
Settled ==
  /\ build.state \in FinalStates
  /\ IF build.outcome = "success" THEN Reasons = {}
                                  ELSE Reasons # {} \/ exc = "Unexpected"

(* Such an exception leaves the task before there is a runner to report it. *)
LeftInFlight == build.state \in InFlight /\ pc = "install" /\ wexc = "Unexpected"

(* What is left undisturbed by an earlier delivery, by the runner, and by  *)
(* the task's own report, in the order they write to the record.           *)
ReportInv ==
  Undisturbed =>
    /\ wpc \in {"queued", "setup", "protect", "fetch"} =>
         IF build.state = "finished" THEN Settled ELSE Reasons = {}
    /\ wpc \in Preparing => Reasons = {} /\ build.state \in InFlight
    /\ wpc = "runner" => ReasonInv
    /\ wpc \in Patching => Reasons # {}
    /\ wpc = "return_inner" => Settled
    /\ wpc \in {"disarm", "stop", "restore", "postrun", "poweroff", "gone"} =>
         Settled \/ LeftInFlight

LEMMA NextKeepsReport ==
  ASSUME TaskControl, ReportInv, WorkerNext PROVE ReportInv'
<1> DEFINE Reported ==
      /\ wpc \in {"queued", "setup", "protect", "fetch"} =>
           IF build.state = "finished" THEN Settled ELSE Reasons = {}
      /\ wpc \in Preparing => Reasons = {} /\ build.state \in InFlight
      /\ wpc = "runner" => ReasonInv
      /\ wpc \in Patching => Reasons # {}
      /\ wpc = "return_inner" => Settled
      /\ wpc \in {"disarm", "stop", "restore", "postrun", "poweroff", "gone"} =>
           Settled \/ LeftInFlight
<1> SUFFICES ASSUME Undisturbed' PROVE Reported'
  BY DEF ReportInv
<1>0. Undisturbed /\ Reported
  <2>1. struck \subseteq struck'
    BY TaskStrikes, RunStrikes DEF WorkerNext, RunnerStep, RunnerSignal
  <2> QED BY <2>1 DEF Undisturbed, ReportInv
<1>a. build \in BuildRecord /\ TaskTypeInv /\ RunControl
  BY DEF TaskControl, TaskTypeInv, TypeInv, TypeOK
<1>b. ASSUME NEW d \in {"api", "cancel", "alarm", "soft"}, Strike(d) PROVE FALSE
  BY <1>b DEF Strike, Undisturbed
<1>c. UNCHANGED <<build, notes, exc>> => UNCHANGED Settled /\ UNCHANGED Reasons
  BY DEF Settled, Reasons
<1>d. /\ AfterReport \in {"stop", "restore", "return_inner"}
      /\ PatchOfPost \in {"patch", "patch_inner"}
  BY AfterSteps
<1>e. Task \/ TaskSignal => UNCHANGED <<exc, pc>>
  BY <1>a, RecordOfTaskTyped DEF runnerVars, localVars
<1> HIDE DEF Reported
<1>1. CASE RunnerStep \/ RunnerSignal
  <2>1. wpc = "runner" /\ wpc' = "runner" /\ (Run \/ Signal)
    BY <1>1 DEF RunnerStep, RunnerSignal, taskVars
  <2>2. Handling
    BY <1>a
    DEF Handling, RunControl, TaskTypeInv, Over, Body, StateSteps, DirectorSteps, UploadSteps
  <2>3. ReasonInv'
    BY <1>0, <2>1, <2>2, RunKeepsReason, SignalKeepsReason DEF Reported
  <2> QED BY <2>1, <2>3 DEF Reported, Preparing, Patching
<1>2. CASE Receive \/ Setup
  <2>1. /\ wpc \in {"queued", "setup"} /\ wpc' \in {"setup", "protect"}
        /\ UNCHANGED <<build, notes>>
    BY <1>2 DEF Receive, Setup, Proceed, apiVars
  <2> QED BY <1>0, <1>2, <1>c, <1>e, <2>1 DEF Task, Reported, Preparing, Patching
<1>3. CASE Protect
  <2>1. wpc = "protect" /\ wpc' = "fetch" /\ PatchBuilder
    BY <1>3, <1>b DEF Protect, Proceed, Fails
  <2>2. UNCHANGED <<build.state, build.outcome, notes, exc>>
    BY <1>a, <1>3, <1>e, <2>1 DEF Task, PatchBuilder, BuildRecord
  <2> QED BY <1>0, <2>1, <2>2 DEF Reported, Preparing, Patching, Settled, Reasons
<1>4. CASE FetchBuild
  <2>1. wpc = "fetch" /\ UNCHANGED <<build, notes, exc>>
    BY <1>4, <1>e DEF Task, FetchBuild, NoRequest
  <2>2. \/ wpc' = "post"
        \/ wpc' = "restore" /\ build.state = "finished"
        \/ wpc' \in Preparing /\ build.state \in InFlight
    BY <1>4, <1>b DEF FetchBuild, Report, ReportAt, Proceed, AfterFetch, Preparing, InFlight
  <2> QED BY <1>0, <1>c, <2>1, <2>2 DEF Reported, Preparing, Patching, InFlight
<1>5. CASE \/ SyncVersions \/ PrepareBuild \/ StartContainer \/ ArmTimeLimit
  <2>1. wpc \in Preparing /\ UNCHANGED <<build, notes>>
    BY <1>5
    DEF SyncVersions, PrepareBuild, StartContainer, ArmTimeLimit, NoRequest, Preparing, apiVars
  <2>2. wpc' \in Preparing \cup Posting
    BY <1>5
    DEF SyncVersions, PrepareBuild, StartContainer, ArmTimeLimit, Proceed, Report, ReportInner,
        ReportAt, Preparing, Posting
  <2> QED BY <1>0, <1>c, <2>1, <2>2 DEF Reported, Preparing, Posting, Patching, Reasons
<1>6. CASE GetClient \/ StartHealthcheck
  <2>1. /\ wpc \in Preparing /\ pc = "install" /\ pc' = "install" /\ UNCHANGED <<build, notes>>
    BY <1>6, <1>e
    DEF Task, TaskControl, BeforeRunner, Bootstrap, GetClient, StartHealthcheck, NoRequest,
        Preparing
  <2>2. wpc' \in Preparing \/ (wpc' \in {"restore", "stop"} /\ wexc' = "Unexpected")
    BY <1>6
    DEF GetClient, StartHealthcheck, Proceed, Outer, Propagate, Cancellations, Preparing
  <2> QED BY <1>0, <2>1, <2>2 DEF Reported, Preparing, Patching, Reasons, LeftInFlight
<1>7. CASE EnterRunner
  <2>1. /\ pc = "install" /\ Reasons = {} /\ build.state \in InFlight
        /\ UNCHANGED <<build, notes, pc>>
    BY <1>0, <1>7
    DEF EnterRunner, NoRequest, Elsewhere, runnerVars, Reported, Preparing, TaskControl, BeforeRunner
  <2>2. wpc' = "runner" \/ (wpc' = "disarm" /\ wexc' = "Unexpected")
    BY <1>7 DEF EnterRunner, Proceed, Propagate
  <2>3. pc' = "install" /\ Reasons' = {} /\ build'.state \in InFlight
    BY <2>1 DEF Reasons
  <2>4. ReasonInv'
    BY <2>3 DEF ReasonInv, Over
  <2> QED BY <2>2, <2>3, <2>4 DEF Reported, Preparing, Patching, LeftInFlight
<1>8. CASE LeaveRunner
  <2>1. wpc = "runner" /\ pc \in Over /\ wpc' = "disarm" /\ UNCHANGED <<build, notes, exc>>
    BY <1>8, <1>e DEF Task, LeaveRunner, Propagate, apiVars
  <2>2. Settled
    BY <1>0, <2>1 DEF Reported, ReasonInv, Explained, OneReason, Settled
  <2> QED BY <1>c, <2>1, <2>2 DEF Reported, Preparing, Patching
<1>9. CASE DisarmTimeLimit
  <2>1. wpc = "disarm" /\ UNCHANGED <<build, notes, exc, pc>> /\ Outer(wexc)
    BY <1>9, <1>e DEF Task, DisarmTimeLimit, apiVars
  <2>2. wpc' = "post" \/ (wpc' = "stop" /\ wexc' = wexc)
    BY <2>1, ZenonT(30) DEF Outer, Report, ReportAt, Propagate
  <2> QED BY <1>0, <1>c, <2>1, <2>2 DEF Reported, Preparing, Patching, LeftInFlight
<1>10. CASE PostReport
  <2>1. wpc \in Posting /\ wpc' \in Patching /\ PostNotification(report)
    BY <1>10, <1>b, <1>d DEF PostReport, Proceed, Fails, Patching
  <2>2. report \in Reasons'
    BY <1>a, <2>1
    DEF PostNotification, Reasons, MediaSize, TaskTypeInv, ReportsSomething, ReportSteps, Reports
  <2> QED BY <2>1, <2>2 DEF Reported, Preparing, Patching
<1>11. CASE PatchReport
  <2>1. /\ wpc \in Patching /\ wpc' \in {"stop", "restore", "return_inner"}
        /\ PatchFinal(FinalOf(report), "failure")
    BY <1>11, <1>b, <1>d DEF PatchReport, Proceed, Fails
  <2>2. build'.state \in FinalStates /\ build'.outcome = "failure" /\ Reasons' # {}
    BY <1>a, <1>0, <2>1 DEF PatchFinal, FinalOf, FinalStates, BuildRecord, Reported, Reasons
  <2> QED BY <2>1, <2>2 DEF Reported, Preparing, Patching, Settled
<1>12. CASE StopContainer \/ ReturnInner \/ RestoreHandlers \/ Release \/ PowerOff
  <2>1. /\ wpc \in {"return_inner", "stop", "restore", "postrun", "poweroff"}
        /\ wpc' \in {"stop", "restore", "postrun", "poweroff", "gone"}
        /\ wexc' \in {wexc, "Unexpected"}
        /\ UNCHANGED <<build, notes>>
    BY <1>12
    DEF ReturnInner, StopContainer, RestoreHandlers, Release, PowerOff, Proceed, Propagate,
        NoRequest, apiVars
  <2>2. UNCHANGED <<exc, pc>>
    BY <1>12, <1>e DEF Task
  <2> QED BY <1>0, <1>c, <2>1, <2>2 DEF Reported, Preparing, Patching, LeftInFlight
<1>13. CASE TaskSignal
  <2>1. HardTimeLimit
    BY <1>0, <1>13, <1>b
    DEF TaskSignal, CancelTask, CancelUnhandled, SoftLimitTask, SoftLimitInHook,
        AlarmBeforeHandler, AlarmAfterRunner, Undisturbed
  <2> QED BY <1>0, <2>1 DEF HardTimeLimit, Undisturbed
<1>14. CASE CancelledInQueue
  <2>1. wpc = "queued" /\ wpc' = "queued" /\ build.state = "triggered" /\ UNCHANGED notes
    BY <1>14 DEF CancelledInQueue, taskVars
  <2>2. build'.state = "cancelled"
    BY <1>a, <1>14 DEF CancelledInQueue, BuildRecord
  <2> QED BY <1>0, <2>1, <2>2 DEF Reported, Preparing, Patching, Reasons
<1> QED
  BY <1>1, <1>2, <1>3, <1>4, <1>5, <1>6, <1>7, <1>8, <1>9, <1>10, <1>11, <1>12, <1>13, <1>14
  DEF WorkerNext, Task

(* When the API answers, no clock runs out and nobody cancels the task, it *)
(* ends with its record final and a reason given exactly if the build did  *)
(* not succeed, whatever fails in Docker, the broker or git -- but for an  *)
(* exception that no except clause takes, whose two effects it states.     *)
THEOREM TasksEndSettled == WorkerSpec => []SettledAtEnd
<1>1. WorkerInit => ReportInv
  <2> SUFFICES ASSUME WorkerInit PROVE ReportInv
    OBVIOUS
  <2>1. wpc = "queued"
    BY DEF WorkerInit
  <2>2. IF build.state = "finished" THEN Settled ELSE Reasons = {}
    BY DEF WorkerInit, DeliveredBuilds, NewBuild, Settled, Reasons, FinalStates, MediaSize
  <2> QED BY <2>1, <2>2 DEF ReportInv, Preparing, Patching
<1>2. ASSUME TaskControl, ReportInv, [WorkerNext]_allVars PROVE ReportInv'
  <2>1. CASE UNCHANGED allVars
    <3>1. UNCHANGED <<build, notes, exc, pc, wpc, wexc, struck, final, success>>
      BY <2>1 DEF allVars, vars, apiVars, localVars, taskVars
    <3>2. ReasonInv => ReasonInv'
      BY <3>1 DEF ReasonInv, Undisturbed, Explained, OneReason, Reasons
    <3> QED BY <1>2, <3>1, <3>2 DEF ReportInv, Undisturbed, Settled, LeftInFlight, Reasons
  <2> QED BY <1>2, <2>1, NextKeepsReport
<1>3. ReportInv => SettledAtEnd
  BY DEF ReportInv, SettledAtEnd, Settled, LeftInFlight, Undisturbed, InFlight, FinalStates
<1> QED BY <1>1, <1>2, <1>3, TaskControlAlways, PTL DEF WorkerSpec
=============================================================================
