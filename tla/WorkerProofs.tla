---------------------------- MODULE WorkerProofs ----------------------------
(***************************************************************************)
(* Proofs about module Worker, for every sequence of artifact types and    *)
(* every environment: the task keeps the contract by which module Fleet    *)
(* moves its tasks, so that what is proved of the fleet holds of tasks     *)
(* that are made of these steps.                                           *)
(***************************************************************************)
EXTENDS Worker, RunnerProofs

Reports == {"CancelledByUser", "TimeOut", "UserError", "AppError"}

(* A task that reports has something to report.                            *)
ReportSteps == Posting \cup Patching

ReportsSomething == wpc \in ReportSteps => report \in Reports

TaskTypeInv == TypeInv /\ TaskTypeOK /\ ReportsSomething

-----------------------------------------------------------------------------
(* Type correctness *)

LEMMA StepSets ==
  /\ TaskSteps = {"queued", "setup", "protect", "fetch", "sync", "clone", "client", "container",
                  "healthcheck", "arm", "entry", "runner", "disarm", "post", "patch",
                  "post_inner", "patch_inner", "return_inner", "stop", "restore", "postrun",
                  "poweroff", "gone", "cut", "killed"}
  /\ ReportSteps = {"post", "patch", "post_inner", "patch_inner"}
BY DEF TaskSteps, Bootstrap, Serving, Cleanup, Posting, Patching, Inner, Hook, Ended, ReportSteps

LEMMA AfterSteps ==
  /\ AfterReport \in {"stop", "restore", "return_inner"}
  /\ PatchOfPost \in {"patch", "patch_inner"}
  /\ AfterFetch \in {"client", "sync"}
BY DEF AfterReport, PatchOfPost, AfterFetch

ControlTyped ==
  /\ wpc \in TaskSteps
  /\ wexc \in Exceptions \cup {"none"}
  /\ report \in Reports \cup {"none"}
  /\ ReportsSomething

LEMMA ProceedTyped ==
  ASSUME ControlTyped, NEW s \in TaskSteps, s \in ReportSteps => wpc \in ReportSteps,
         Proceed(s)
  PROVE  ControlTyped'
BY DEF ControlTyped, Proceed, ReportsSomething

LEMMA PropagateTyped ==
  ASSUME ControlTyped, NEW e \in Exceptions \cup {"none"}, NEW s \in TaskSteps \ ReportSteps,
         Propagate(e, s)
  PROVE  ControlTyped'
BY DEF ControlTyped, Propagate, ReportsSomething

LEMMA ReportTyped ==
  ASSUME ControlTyped, NEW m \in Reports, Report(m) \/ ReportInner(m)
  PROVE  ControlTyped'
BY StepSets DEF ControlTyped, Report, ReportInner, ReportAt, ReportsSomething

LEMMA OuterTyped ==
  ASSUME ControlTyped, NEW e \in Exceptions \cup {"none"}, Outer(e)
  PROVE  ControlTyped'
<1>1. CASE e \in Cancellations
  BY <1>1, ReportTyped DEF Outer, Reports, Cancellations
<1>2. CASE e = "SoftTimeLimit"
  BY <1>2, ReportTyped DEF Outer, Reports, Cancellations
<1>3. CASE e \notin Cancellations \cup {"SoftTimeLimit"}
  BY <1>3, PropagateTyped, StepSets DEF Outer
<1> QED BY <1>1, <1>2, <1>3

LEMMA TaskInterruptedTyped ==
  ASSUME ControlTyped, NEW e \in {"CancelledByUser", "SoftTimeLimit"}, TaskInterrupted(e)
  PROVE  ControlTyped'
<1>0. e \in Exceptions /\ {"postrun", "restore", "stop"} \subseteq TaskSteps \ ReportSteps
      /\ {"fetch", PatchOfPost} \subseteq TaskSteps /\ "fetch" \notin ReportSteps
      /\ AfterReport \in TaskSteps \ ReportSteps
  BY StepSets, AfterSteps DEF Exceptions, UserErrors, Cancellations
<1>1. CASE \E m \in {"CancelledByUser", "AppError"} : Report(m) \/ ReportInner(m)
  BY <1>1, ReportTyped DEF Reports, Cancellations
<1>2. CASE Outer(e)
  BY <1>0, <1>2, OuterTyped
<1>3. CASE \E s \in {"postrun", "restore", "stop", AfterReport} : Propagate(e, s)
  BY <1>0, <1>3, PropagateTyped
<1>4. CASE Proceed("fetch") \/ (wpc \in Posting /\ Proceed(PatchOfPost)) \/ Proceed(AfterReport)
  BY <1>0, <1>4, ProceedTyped DEF ReportSteps
<1>5. (IF e \in Cancellations THEN e ELSE "AppError") \in {"CancelledByUser", "AppError"}
  BY DEF Cancellations
<1> QED BY <1>1, <1>2, <1>3, <1>4, <1>5 DEF TaskInterrupted

(* A step of the task leaves the runner alone, and the record typed.       *)
LEMMA RecordOfTaskTyped ==
  ASSUME TaskTypeInv, Task \/ TaskSignal \/ CancelledInQueue
  PROVE  RecordsOK' /\ struck' \subseteq Disturbances /\ UNCHANGED runnerVars
<1>0. RecordsOK /\ struck \subseteq Disturbances
  BY DEF TaskTypeInv, TypeInv, TypeOK, RecordsOK
<1>1. UNCHANGED runnerVars
  BY DEF Task, Receive, Setup, Protect, FetchBuild, SyncVersions, PrepareBuild, GetClient,
      StartContainer, StartHealthcheck, ArmTimeLimit, EnterRunner, LeaveRunner, DisarmTimeLimit,
      PostReport, PatchReport, Posting, Patching, ReturnInner, StopContainer, RestoreHandlers,
      Release, PowerOff, TaskSignal, CancelTask, CancelUnhandled, SoftLimitTask, SoftLimitInHook,
      CutHook, Hook, AlarmBeforeHandler, AlarmAfterRunner, HardTimeLimit, Killed, TaskInterrupted,
      CancelledInQueue, Elsewhere
<1>2. struck' \subseteq Disturbances
  BY <1>0
  DEF Task, Receive, Setup, Protect, FetchBuild, SyncVersions, PrepareBuild, GetClient,
      StartContainer, StartHealthcheck, ArmTimeLimit, EnterRunner, LeaveRunner, DisarmTimeLimit,
      PostReport, PatchReport, Posting, Patching, ReturnInner, StopContainer, RestoreHandlers,
      Release, PowerOff, TaskSignal, CancelTask, CancelUnhandled, SoftLimitTask, SoftLimitInHook,
      CutHook, Hook, AlarmBeforeHandler, AlarmAfterRunner, HardTimeLimit, CancelledInQueue, Fails,
      Strike, apiVars
<1>3. RecordsOK'
  <2>1. CASE Protect
    BY <1>0, <2>1, PatchBuilderTyped DEF Protect, Fails, RecordsOK
  <2>2. CASE PostReport
    BY <1>0, <2>2, PostNotificationTyped
    DEF PostReport, Fails, RecordsOK, TaskTypeInv, ReportsSomething, ReportSteps, Reports, Messages,
        Exceptions, UserErrors, Cancellations, AppErrors
  <2>3. CASE PatchReport
    BY <1>0, <2>3
    DEF PatchReport, Fails, PatchFinal, FinalOf, FinalStates, RecordsOK, BuildRecord, Outcomes
  <2>4. CASE CancelledInQueue
    BY <1>0, <2>4 DEF CancelledInQueue, RecordsOK, BuildRecord, FinalStates, Outcomes
  <2>5. CASE ~(Protect \/ PostReport \/ PatchReport \/ CancelledInQueue)
    <3>1. NoRequest
      BY <2>5
      DEF Task, Receive, Setup, FetchBuild, SyncVersions, PrepareBuild, GetClient, StartContainer,
          StartHealthcheck, ArmTimeLimit, EnterRunner, LeaveRunner, DisarmTimeLimit, ReturnInner,
          StopContainer, RestoreHandlers, Release, PowerOff, TaskSignal, CancelTask,
          CancelUnhandled, SoftLimitTask, SoftLimitInHook, CutHook, Hook, AlarmBeforeHandler,
          AlarmAfterRunner, HardTimeLimit, Killed, TaskInterrupted, NoRequest, apiVars
    <3> QED BY <1>0, <3>1 DEF NoRequest, RecordsOK
  <2> QED BY <2>1, <2>2, <2>3, <2>4, <2>5
<1> QED BY <1>1, <1>2, <1>3

LEMMA ControlOfTaskTyped ==
  ASSUME TaskTypeInv, Task \/ TaskSignal \/ CancelledInQueue
  PROVE  ControlTyped'
<1>0. ControlTyped /\ exc \in Exceptions \cup {"none"} /\ "Unexpected" \in Exceptions
  BY DEF TaskTypeInv, TypeInv, TypeOK, TaskTypeOK, ControlTyped, Reports, Exceptions
<1> USE StepSets, AfterSteps
<1>1. CASE Receive \/ Setup \/ Protect \/ SyncVersions \/ PrepareBuild \/ StartContainer \/ FetchBuild
  <2>1. \/ \E s \in TaskSteps \ ReportSteps : Proceed(s)
        \/ \E m \in Reports : Report(m) \/ ReportInner(m)
    BY <1>1
    DEF Receive, Setup, Protect, SyncVersions, PrepareBuild, StartContainer, FetchBuild, Reports
  <2> QED BY <1>0, <2>1, ProceedTyped, ReportTyped
<1>2. CASE \/ GetClient \/ ArmTimeLimit \/ EnterRunner \/ LeaveRunner \/ ReturnInner
           \/ StopContainer \/ RestoreHandlers \/ Release \/ PowerOff
  <2>1. \/ \E s \in TaskSteps \ ReportSteps : Proceed(s)
        \/ \E s \in TaskSteps \ ReportSteps, e \in Exceptions \cup {"none"} : Propagate(e, s)
    BY <1>0, <1>2
    DEF GetClient, ArmTimeLimit, EnterRunner, LeaveRunner, ReturnInner, StopContainer,
        RestoreHandlers, Release, PowerOff
  <2> QED BY <1>0, <2>1, ProceedTyped, PropagateTyped
<1>3. CASE StartHealthcheck \/ DisarmTimeLimit
  <2>1. Proceed("arm") \/ \E e \in Exceptions \cup {"none"} : Outer(e)
    BY <1>0, <1>3 DEF StartHealthcheck, DisarmTimeLimit, ControlTyped
  <2> QED BY <1>0, <2>1, ProceedTyped, OuterTyped
<1>4. CASE PostReport \/ PatchReport
  <2>1. wpc \in ReportSteps /\ (Proceed(PatchOfPost) \/ Proceed(AfterReport))
    BY <1>4 DEF PostReport, PatchReport, ReportSteps
  <2> QED BY <1>0, <2>1, ProceedTyped
<1>5. CASE CancelTask \/ SoftLimitTask
  BY <1>0, <1>5, TaskInterruptedTyped DEF CancelTask, SoftLimitTask, SoftLimitInHook, CutHook, Hook
<1>6. CASE CancelUnhandled \/ AlarmAfterRunner \/ SoftLimitInHook
  <2>1. \/ \E s \in {"postrun", "stop"}, e \in Exceptions : Propagate(e, s)
        \/ \E s \in {"cut", "poweroff"} : Proceed(s)
    BY <1>0, <1>6
    DEF CancelUnhandled, AlarmAfterRunner, SoftLimitInHook, CutHook, Exceptions, UserErrors
  <2> QED BY <1>0, <2>1, PropagateTyped, ProceedTyped
<1>7. CASE AlarmBeforeHandler \/ HardTimeLimit \/ CancelledInQueue
  <2>1. UNCHANGED <<wexc, report>> /\ wpc' \in {wpc, "killed"}
    BY <1>7 DEF AlarmBeforeHandler, HardTimeLimit, Killed, CancelledInQueue, taskVars
  <2> QED BY <1>0, <2>1 DEF ControlTyped, ReportsSomething
<1> QED
  BY <1>1, <1>2, <1>3, <1>4, <1>5, <1>6, <1>7 DEF Task, TaskSignal

LEMMA HostOfTaskTyped ==
  ASSUME TaskTypeInv, Task \/ TaskSignal \/ CancelledInQueue
  PROVE  /\ container' \in {"no_client", "absent", "present"}
         /\ instance' \in {"up", "protected", "terminated", "kept", "off"}
BY DEF TaskTypeInv, TaskTypeOK, Task, Receive, Setup, Protect, FetchBuild, SyncVersions, PrepareBuild,
    GetClient, StartContainer, StartHealthcheck, ArmTimeLimit, EnterRunner, LeaveRunner,
    DisarmTimeLimit, PostReport, PatchReport, Posting, Patching, ReturnInner, StopContainer,
    RestoreHandlers, Release, PowerOff, TaskSignal, CancelTask, CancelUnhandled, SoftLimitTask,
    SoftLimitInHook, CutHook, Hook, AlarmBeforeHandler, AlarmAfterRunner, HardTimeLimit, Killed,
    TaskInterrupted, CancelledInQueue, Elsewhere, taskVars

LEMMA TaskTyped ==
  ASSUME TaskTypeInv, [WorkerNext]_allVars PROVE TaskTypeInv'
<1>1. CASE Task \/ TaskSignal \/ CancelledInQueue
  BY <1>1, RecordOfTaskTyped, ControlOfTaskTyped, HostOfTaskTyped
  DEF TaskTypeInv, TaskTypeOK, TypeInv, TypeOK, HandlingAnException, RecordsOK, ControlTyped,
      Reports, runnerVars, localVars
<1>2. CASE RunnerStep \/ RunnerSignal
  <2>1. TypeInv' /\ UNCHANGED taskVars
    BY <1>2, RunTyped, SignalTyped DEF RunnerStep, RunnerSignal, TaskTypeInv
  <2> QED BY <2>1 DEF TaskTypeInv, TypeInv, TaskTypeOK, ReportsSomething, taskVars
<1>3. CASE UNCHANGED allVars
  BY <1>3
  DEF TaskTypeInv, TaskTypeOK, TypeInv, TypeOK, HandlingAnException, ReportsSomething, allVars,
      vars, apiVars, localVars, taskVars
<1> QED BY <1>1, <1>2, <1>3 DEF WorkerNext

LEMMA WorkerInitTyped == WorkerInit => TaskTypeInv
<1> SUFFICES ASSUME WorkerInit PROVE TaskTypeInv
  OBVIOUS
<1>1. RecordsOK
  BY DEF WorkerInit, DeliveredBuilds, NewBuild, RecordsOK, BuildRecord, InFlight, FinalStates,
      Outcomes, Messages, Exceptions, UserErrors
<1>2. storage \in [Types -> Places] /\ version \subseteq Types
  <2>1. storage \in [Types -> Places] /\ {t \in Types : storage[t] = "old"} \subseteq Types
    BY DEF WorkerInit, RunnerInit, Places
  <2> QED BY <2>1, AdvertisedAreTypes DEF WorkerInit, RunnerInit
<1>3. TypeInv
  BY <1>1, <1>2
  DEF WorkerInit, RunnerInit, TypeInv, TypeOK, HandlingAnException, RecordsOK, Steps, Handler
<1> QED
  BY <1>3, StepSets DEF WorkerInit, TaskTypeInv, TaskTypeOK, TypeInv, ReportsSomething

(* Every variable of the task keeps its type, whatever strikes it.         *)
THEOREM TaskTypeCorrect == WorkerSpec => []TaskTypeOK
<1>1. TaskTypeInv => TaskTypeOK
  BY DEF TaskTypeInv
<1> QED BY <1>1, WorkerInitTyped, TaskTyped, PTL DEF WorkerSpec

-----------------------------------------------------------------------------
(* The runner's control flow, on whichever record it was started *)

(* Nothing is decided before the handler or the end of the try, _in_upload *)
(* is set exactly in the upload, and what leaves run() other than through  *)
(* its except clause was raised by a signal, or is no signal's exception.  *)
RunControl ==
  /\ pc \in {"install", "armed", "except"} \cup Body => final = "none"
  /\ pc \notin {"finalize", "return"} \cup Over => ~success
  /\ success => final = "none"
  /\ inUpload = TRUE <=> pc \in UploadSteps
  /\ exc = "SoftTimeLimit" => "soft" \in struck
  /\ exc \in Cancellations /\ pc \notin Handler => "cancel" \in struck
  /\ pc = "returned" => exc = "none"

LEMMA RaiseKeepsControl ==
  ASSUME RunControl, pc \in Body, struck \subseteq struck', NEW e \in Exceptions, Raise(e),
         e = "SoftTimeLimit" => "soft" \in struck'
  PROVE  RunControl'
<1>1. /\ exc' = e /\ inUpload' = FALSE /\ UNCHANGED <<success, final>>
      /\ pc' = IF e \in UserErrors \cup AppErrors THEN "except" ELSE "finalize"
  BY DEF Raise
<1>2. final = "none" /\ ~success
  BY DEF RunControl, Body, Over, StateSteps, DirectorSteps, UploadSteps
<1> QED BY <1>1, <1>2 DEF RunControl, UserErrors, Handler, Over, UploadSteps

LEMMA GoingOnKeepsControl ==
  ASSUME RunControl, pc \in {"install", "armed"} \cup Body, pc' \in {"armed"} \cup Body,
         struck \subseteq struck', UNCHANGED <<exc, success, final>>,
         inUpload' = TRUE <=> pc' \in UploadSteps
  PROVE  RunControl'
BY DEF RunControl, Body, Handler, Over, StateSteps, DirectorSteps, UploadSteps

LEMMA RunStrikes == ASSUME Run \/ Signal PROVE struck \subseteq struck'
BY StruckGrows DEF Next

(* A statement of the body goes on or raises.                              *)
LEMMA RunKeepsControl ==
  ASSUME TypeInv, RunControl, Run PROVE RunControl'
<1>0. struck \subseteq struck'
  BY RunStrikes
<1>a. ASSUME pc \in Body \ UploadSteps, NEW s, pc' = Following(s),
             UNCHANGED <<exc, inUpload, success, final>>
      PROVE  RunControl'
  BY <1>0, <1>a, FollowingInBody, GoingOnKeepsControl DEF RunControl
<1>b. ASSUME pc \in Body, NEW e \in Exceptions \ {"SoftTimeLimit"}, Raise(e)
      PROVE  RunControl'
  BY <1>0, <1>b, RaiseKeepsControl
<1>1. CASE InstallHandlers \/ EnterTry
  BY <1>0, <1>1, GoingOnKeepsControl
  DEF InstallHandlers, EnterTry, Goto, localVars, RunControl, Body, UploadSteps
<1>2. CASE CheckProjectDisabled \/ ResetBuild \/ ClaimBuild \/ SetBuildState \/ PostCheckout
           \/ ValidateArtifacts
  <2>1. pc \in Body \ UploadSteps
    BY <1>2
    DEF CheckProjectDisabled, ResetBuild, ClaimBuild, SetBuildState, PostCheckout,
        ValidateArtifacts, Body, StateSteps, UploadSteps
  <2>2. \/ (\E s : pc' = Following(s)) /\ UNCHANGED <<exc, inUpload, success, final>>
        \/ \E e \in {"AppError", "UserError", "Unexpected"} : Raise(e)
    BY <1>2
    DEF CheckProjectDisabled, ResetBuild, ClaimBuild, SetBuildState, PostCheckout,
        ValidateArtifacts, Request, Goto, localVars
  <2> QED BY <1>a, <1>b, <2>1, <2>2 DEF Exceptions, UserErrors, AppErrors
<1>3. CASE DirectorStep
  <2>1. pc \in Body \ UploadSteps
    BY <1>3 DEF DirectorStep, Body, DirectorSteps, UploadSteps
  <2>2. Raises(pc) \subseteq Exceptions \ {"SoftTimeLimit"}
    BY DEF Raises, Exceptions, UserErrors, Cancellations
  <2>3. \/ pc' = Following(pc) /\ UNCHANGED <<exc, inUpload, success, final>>
        \/ \E e \in Raises(pc) \cup {"AppError", "Unexpected"} : Raise(e)
    BY <1>3 DEF DirectorStep, Goto, localVars
  <2> QED BY <1>a, <1>b, <2>1, <2>2, <2>3 DEF Exceptions, AppErrors
<1>4. CASE \/ EnterUpload \/ GetStorage \/ CheckMediaSize \/ BeginSync \/ EndSync \/ CopiesDone
           \/ BeginDelete \/ EndDelete \/ DeletesDone \/ UpdateVersion
  <2>1. pc \in {"enter_upload"} \cup UploadSteps /\ pc \in Body
    BY <1>4
    DEF EnterUpload, GetStorage, CheckMediaSize, BeginSync, EndSync, CopiesDone, BeginDelete,
        EndDelete, DeletesDone, UpdateVersion, Body, UploadSteps
  <2>2. \/ /\ pc' \in UploadSteps /\ UNCHANGED <<exc, success, final>>
           /\ inUpload' = IF pc = "enter_upload" THEN TRUE ELSE inUpload
        \/ \E e \in {"AppError", "Unexpected"} : Raise(e)
    BY <1>4
    DEF EnterUpload, GetStorage, CheckMediaSize, BeginSync, EndSync, CopiesDone, BeginDelete,
        EndDelete, DeletesDone, UpdateVersion, DeleteSkipped, Goto, localVars, UploadSteps
  <2>3. CASE \E e \in {"AppError", "Unexpected"} : Raise(e)
    BY <1>b, <2>1, <2>3 DEF Exceptions, AppErrors
  <2>4. CASE /\ pc' \in UploadSteps /\ UNCHANGED <<exc, success, final>>
             /\ inUpload' = IF pc = "enter_upload" THEN TRUE ELSE inUpload
    <3>1. inUpload' = TRUE
      BY <2>1, <2>4 DEF RunControl
    <3> QED BY <1>0, <2>1, <2>4, <3>1, GoingOnKeepsControl DEF Body
  <2> QED BY <2>2, <2>3, <2>4
<1>5. CASE LeaveUpload
  BY <1>0, <1>5, GoingOnKeepsControl DEF LeaveUpload, Body, UploadSteps
<1>6. CASE Succeed \/ HandleException \/ AttachFailureNotification \/ Reraise
  BY <1>0, <1>6
  DEF Succeed, HandleException, AttachFailureNotification, Reraise, Goto, Escape, localVars,
      RunControl, Body, Handler, Over, StateSteps, DirectorSteps, UploadSteps, AppErrors,
      Cancellations
<1>7. CASE Finalize \/ Return
  BY <1>0, <1>7
  DEF Finalize, Return, Goto, Escape, localVars, RunControl, Body, Handler, Over, StateSteps,
      DirectorSteps, UploadSteps, AppErrors, Cancellations
<1> QED BY <1>1, <1>2, <1>3, <1>4, <1>5, <1>6, <1>7 DEF Run

LEMMA BecomesSoft ==
  ASSUME NEW e, NEW x \in Becomes(e), x = "SoftTimeLimit" PROVE e = "SoftTimeLimit"
BY DEF Becomes, StepBecomes, DirectorSteps, UserErrors, Cancellations, AppErrors

LEMMA InterruptKeepsControl ==
  ASSUME TypeInv, RunControl, NEW e \in {"CancelledByUser", "TimeOut", "SoftTimeLimit"},
         Interrupt(e), struck \subseteq struck',
         e = "SoftTimeLimit" => "soft" \in struck',
         e = "CancelledByUser" => "cancel" \in struck'
  PROVE  RunControl'
<1>0. e \in Exceptions /\ (e \in Cancellations => e = "CancelledByUser")
  BY DEF Exceptions, UserErrors, Cancellations
<1>1. CASE pc \in Body /\ \E x \in Becomes(e) : x # "none" /\ Raise(x)
  BY <1>0, <1>1, BecomesAnException, BecomesSoft, RaiseKeepsControl
<1>2. CASE pc \in Body /\ "none" \in Becomes(e) /\ Swallowed
  <2>1. pc \in {"build", "run_build_commands", "deleting"} \/ (pc = "copy" /\ todo # {})
    BY <1>0, <1>2
    DEF Becomes, StepBecomes, DirectorSteps, Exceptions, UserErrors, Cancellations, AppErrors
  <2>2. CASE pc \in {"build", "run_build_commands"}
    <3>1. pc' = Following(pc) /\ UNCHANGED <<exc, inUpload, success, final>>
      BY <1>2, <2>2 DEF Swallowed, Goto, localVars
    <3>2. pc \notin UploadSteps /\ pc' \in Body \ UploadSteps
      BY <2>2, <3>1, FollowingInBody DEF UploadSteps
    <3> QED BY <1>2, <3>1, <3>2, GoingOnKeepsControl DEF RunControl
  <2>3. CASE pc \notin {"build", "run_build_commands"}
    <3>1. pc \in UploadSteps /\ pc' \in UploadSteps /\ UNCHANGED <<exc, inUpload, success, final>>
      BY <1>2, <2>1, <2>3 DEF Swallowed, Goto, localVars, DeleteSkipped, UploadSteps
    <3> QED BY <1>2, <3>1, GoingOnKeepsControl DEF RunControl, Body
  <2> QED BY <2>2, <2>3
<1>3. CASE pc \in Handler /\ Escape(e, "finalize")
  BY <1>0, <1>3 DEF Escape, RunControl, Body, Handler, Over, StateSteps, DirectorSteps, UploadSteps
<1>4. CASE pc = "notify" /\ Goto("handled")
  BY <1>4
  DEF Goto, localVars, RunControl, Body, Handler, Over, StateSteps, DirectorSteps, UploadSteps
<1>5. CASE pc \in {"armed", "finalize", "return"} /\ Escape(e, "raised")
  BY <1>0, <1>5 DEF Escape, RunControl, Body, Handler, Over, StateSteps, DirectorSteps, UploadSteps
<1> QED BY <1>1, <1>2, <1>3, <1>4, <1>5 DEF Interrupt

LEMMA SignalKeepsControl ==
  ASSUME TypeInv, RunControl, Signal PROVE RunControl'
<1>0. struck \subseteq struck'
  BY RunStrikes
<1>1. CASE OnCancel
  <2>1. CASE inUpload
    BY <1>0, <1>1, <2>1 DEF OnCancel, Goto, localVars, RunControl
  <2>2. CASE ~inUpload
    BY <1>0, <1>1, <2>2, InterruptKeepsControl DEF OnCancel, Strike
  <2> QED BY <2>1, <2>2
<1>2. CASE OnTimeout
  BY <1>0, <1>2, InterruptKeepsControl DEF OnTimeout
<1>3. CASE OnSoftTimeLimit
  <2>1. CASE pc # "install"
    BY <1>0, <1>3, <2>1, InterruptKeepsControl DEF OnSoftTimeLimit, Strike
  <2>2. CASE pc = "install"
    BY <1>0, <1>3, <2>2
    DEF OnSoftTimeLimit, Strike, Escape, RunControl, Body, Handler, Over, StateSteps, DirectorSteps,
        UploadSteps, Cancellations
  <2> QED BY <2>1, <2>2
<1> QED BY <1>1, <1>2, <1>3 DEF Signal

(* The runner has not begun while the task prepares it, and a build that   *)
(* is shown as finished has an outcome.                                    *)
BeforeRunner == {"queued", "healthcheck", "arm", "entry"} \cup Bootstrap

Concluded == build.state = "finished" => build.outcome \in {"success", "failure"}

TaskControl ==
  /\ TaskTypeInv
  /\ RunControl
  /\ wpc \in BeforeRunner => pc = "install"
  /\ Concluded

LEMMA RunnerConcludes ==
  ASSUME TypeInv, Concluded, Run \/ Signal PROVE Concluded'
<1>0. build \in BuildRecord
  BY DEF TypeInv, TypeOK
<1>1. CASE ResetBuild
  BY <1>0, <1>1 DEF ResetBuild, Request, Fails, PostReset, NewBuild, Concluded
<1>2. CASE ClaimBuild
  BY <1>0, <1>2 DEF ClaimBuild, Request, Fails, PatchBuilder, BuildRecord, Concluded, apiVars
<1>3. CASE SetBuildState
  BY <1>0, <1>3 DEF SetBuildState, Request, Fails, PatchState, BuildRecord, Concluded, StateSteps
<1>4. CASE Finalize
  BY <1>0, <1>4 DEF Finalize, Fails, PatchFinal, BuildRecord, Concluded, Outcome
<1>5. CASE Run /\ ~(ResetBuild \/ ClaimBuild \/ SetBuildState \/ Finalize)
  BY <1>5, OnlyFourWriteTheBuild DEF Concluded
<1>6. CASE Signal
  <2>1. UNCHANGED build
    BY <1>6 DEF Signal, OnCancel, OnTimeout, OnSoftTimeLimit, Interrupt, Quiet
  <2> QED BY <2>1 DEF Concluded
<1> QED BY <1>1, <1>2, <1>3, <1>4, <1>5, <1>6

LEMMA TaskStrikes ==
  ASSUME Task \/ TaskSignal \/ CancelledInQueue PROVE struck \subseteq struck'
BY DEF Task, Receive, Setup, Protect, FetchBuild, SyncVersions, PrepareBuild, GetClient,
    StartContainer, StartHealthcheck, ArmTimeLimit, EnterRunner, LeaveRunner, DisarmTimeLimit,
    PostReport, PatchReport, Posting, Patching, ReturnInner, StopContainer, RestoreHandlers,
    Release, PowerOff, TaskSignal, CancelTask, CancelUnhandled, SoftLimitTask, SoftLimitInHook,
    CutHook, Hook, AlarmBeforeHandler, AlarmAfterRunner, HardTimeLimit, CancelledInQueue, Fails,
    Strike, apiVars

LEMMA WriterOfTask ==
  ASSUME Task \/ TaskSignal \/ CancelledInQueue,
         ~(Protect \/ PostReport \/ PatchReport \/ CancelledInQueue)
  PROVE  NoRequest
BY DEF Task, Receive, Setup, FetchBuild, SyncVersions, PrepareBuild, GetClient, StartContainer,
    StartHealthcheck, ArmTimeLimit, EnterRunner, LeaveRunner, DisarmTimeLimit, ReturnInner,
    StopContainer, RestoreHandlers, Release, PowerOff, TaskSignal, CancelTask, CancelUnhandled,
    SoftLimitTask, SoftLimitInHook, CutHook, Hook, AlarmBeforeHandler, AlarmAfterRunner,
    HardTimeLimit, Killed, TaskInterrupted, NoRequest, apiVars

LEMMA TaskConcludes ==
  ASSUME TaskTypeInv, Concluded, Task \/ TaskSignal \/ CancelledInQueue PROVE Concluded'
<1>0. build \in BuildRecord
  BY DEF TaskTypeInv, TypeInv, TypeOK
<1>1. CASE Protect
  BY <1>0, <1>1 DEF Protect, Fails, PatchBuilder, BuildRecord, Concluded
<1>2. CASE PostReport
  BY <1>2 DEF PostReport, Fails, PostNotification, Concluded
<1>3. CASE PatchReport
  BY <1>0, <1>3 DEF PatchReport, Fails, PatchFinal, BuildRecord, Concluded
<1>4. CASE CancelledInQueue
  BY <1>0, <1>4 DEF CancelledInQueue, BuildRecord, Concluded
<1> QED BY <1>1, <1>2, <1>3, <1>4, WriterOfTask DEF NoRequest, Concluded

(* Nothing leads from the runner, or the report, back to what precedes it. *)
LEMMA TaskForward ==
  ASSUME TaskTypeInv, Task \/ TaskSignal \/ CancelledInQueue
  PROVE  wpc' \in BeforeRunner => wpc \in BeforeRunner
<1>1. /\ AfterReport \in {"stop", "restore", "return_inner"}
      /\ PatchOfPost \in {"patch", "patch_inner"}
  BY AfterSteps
<1>2. ASSUME NEW e, Outer(e) PROVE wpc' \in {"post", "stop"}
  BY <1>2, ZenonT(30) DEF Outer, Report, ReportInner, ReportAt, Propagate
<1>3. ASSUME NEW e, TaskInterrupted(e) PROVE wpc' \in BeforeRunner => wpc \in BeforeRunner
  BY <1>1, <1>2, <1>3
  DEF TaskInterrupted, Report, ReportInner, ReportAt, Propagate, Proceed, BeforeRunner, Bootstrap
<1>4. CASE CancelTask \/ SoftLimitTask
  BY <1>3, <1>4 DEF CancelTask, SoftLimitTask, SoftLimitInHook, CutHook, Hook
<1>5. CASE StartHealthcheck \/ DisarmTimeLimit
  BY <1>2, <1>5 DEF StartHealthcheck, DisarmTimeLimit, Proceed, BeforeRunner, Bootstrap
<1>6. CASE CancelUnhandled \/ SoftLimitInHook
  BY <1>6 DEF CancelUnhandled, SoftLimitInHook, CutHook, Propagate, Proceed, BeforeRunner, Bootstrap
<1> QED
  BY <1>1, <1>4, <1>5, <1>6
  DEF Task, Receive, Setup, Protect, FetchBuild, SyncVersions, PrepareBuild, GetClient,
      StartContainer, ArmTimeLimit, EnterRunner, LeaveRunner, PostReport, PatchReport, Posting,
      Patching, ReturnInner, StopContainer, RestoreHandlers, Release, PowerOff, TaskSignal,
      AlarmBeforeHandler, AlarmAfterRunner, HardTimeLimit, Killed, CancelledInQueue, taskVars,
      Report, ReportInner, ReportAt, Propagate, Proceed, BeforeRunner, Bootstrap

LEMMA NextKeepsTaskControl ==
  ASSUME TaskControl, [WorkerNext]_allVars PROVE TaskControl'
<1>0. TaskTypeInv'
  BY TaskTyped DEF TaskControl
<1>1. CASE Task \/ TaskSignal \/ CancelledInQueue
  <2>1. UNCHANGED runnerVars /\ struck \subseteq struck'
    BY <1>1, RecordOfTaskTyped, TaskStrikes DEF TaskControl
  <2>2. RunControl'
    BY <2>1 DEF TaskControl, RunControl, runnerVars, localVars
  <2>3. wpc' \in BeforeRunner => pc' = "install"
    BY <1>1, <2>1, TaskForward DEF TaskControl, runnerVars
  <2> QED BY <1>0, <1>1, <2>2, <2>3, TaskConcludes DEF TaskControl
<1>2. CASE RunnerStep \/ RunnerSignal
  <2>1. wpc = "runner" /\ wpc' = "runner" /\ (Run \/ Signal)
    BY <1>2 DEF RunnerStep, RunnerSignal, taskVars
  <2>2. RunControl' /\ Concluded'
    BY <2>1, RunKeepsControl, SignalKeepsControl, RunnerConcludes DEF TaskControl, TaskTypeInv
  <2> QED BY <1>0, <2>1, <2>2 DEF TaskControl, BeforeRunner, Bootstrap
<1>3. CASE UNCHANGED allVars
  BY <1>0, <1>3 DEF TaskControl, RunControl, Concluded, allVars, vars, apiVars, localVars, taskVars
<1> QED BY <1>1, <1>2, <1>3 DEF WorkerNext

LEMMA WorkerInitControl == WorkerInit => TaskControl
<1> SUFFICES ASSUME WorkerInit PROVE TaskControl
  OBVIOUS
<1>1. Concluded
  BY DEF WorkerInit, DeliveredBuilds, NewBuild, Concluded
<1>2. RunControl
  BY DEF WorkerInit, RunnerInit, RunControl, Body, Handler, Over, StateSteps, DirectorSteps,
      UploadSteps, Cancellations
<1> QED BY <1>1, <1>2, WorkerInitTyped DEF TaskControl, WorkerInit, RunnerInit

LEMMA TaskControlAlways == WorkerSpec => []TaskControl
BY WorkerInitControl, NextKeepsTaskControl, PTL DEF WorkerSpec

-----------------------------------------------------------------------------
(* What the fleet sees of a task *)

Contracts(t) == Contract!Moves("me", t, RecordSeen)

(* What ImplementsTask allows a task seen as t to become, with its record. *)
Allowed(t, u) ==
  \/ u = t /\ RecordSeen' = RecordSeen
  \/ /\ t.phase = "leaving" \/ struck' \cap {"alarm", "hard"} # {}
     /\ u = Contract!At("over") /\ RecordSeen' = RecordSeen
  \/ <<u, RecordSeen'>> \in Contracts(t)
  \/ /\ struck' \cap {"api", "docker", "broker", "unexpected", "alarm", "soft"} # {}
     /\ <<u, RecordSeen'>> \in Contract!Failures("me", t, RecordSeen)
  \/ /\ struck' \cap {"cancel", "alarm", "soft"} # {}
     /\ u \in Contract!Signalled(t)
     /\ RecordSeen' = RecordSeen

Fetched   == Contract!At("fetched")
Resetting == Contract!At("reset")
Uploading == Contract!At("uploading")
Leaves    == Contract!At("leaving")
Succeeds  == Contract!Reporting("success")
Failing    == Contract!Reporting("failure")
Cancels   == Contract!Reporting("cancelled")

RunnerTable ==
  /\ pc \in {"install", "armed", "check", "reset"} => RunnerSeen = Fetched
  /\ pc \in Body \ ({"check", "reset", "succeed"} \cup UploadSteps) => RunnerSeen = Resetting
  /\ pc \in UploadSteps => RunnerSeen = Uploading
  /\ Succeeding => RunnerSeen = Succeeds
  /\ pc \in Handler \cup {"finalize"} /\ ~success =>
       RunnerSeen = IF Stopping THEN Cancels ELSE Failing
  /\ pc = "return" => RunnerSeen = Leaves
  /\ pc \in Over => RunnerSeen = Leaving(exc)

LEMMA RunnerSeenTable == TypeInv /\ RunControl => RunnerTable
<1> SUFFICES ASSUME TypeInv, RunControl PROVE RunnerTable
  OBVIOUS
<1> USE DEF Fetched, Resetting, Uploading, Leaves, Succeeds, Failing, Cancels
<1>0. inUpload \in BOOLEAN /\ (inUpload = TRUE <=> pc \in UploadSteps) /\ pc \in Steps
  BY DEF TypeInv, TypeOK, RunControl
<1>1. pc \in {"install", "armed", "check", "reset"} => RunnerSeen = Fetched
  BY <1>0 DEF RunnerSeen, UploadSteps, Succeeding, Handler, Over
<1>2. pc \in Body \ ({"check", "reset", "succeed"} \cup UploadSteps) => RunnerSeen = Resetting
  BY <1>0 DEF RunnerSeen, UploadSteps, Succeeding, Handler, Over, Body, StateSteps, DirectorSteps
<1>3. pc \in UploadSteps => RunnerSeen = Uploading
  BY <1>0 DEF RunnerSeen, UploadSteps, Succeeding, Handler, Over
<1>4. Succeeding => RunnerSeen = Succeeds
  BY <1>0 DEF RunnerSeen, UploadSteps, Succeeding, Handler, Over
<1>5. pc \in Handler \cup {"finalize"} /\ ~success =>
        RunnerSeen = IF Stopping THEN Cancels ELSE Failing
  BY <1>0 DEF RunnerSeen, UploadSteps, Succeeding, Handler, Over
<1>6. pc = "return" => RunnerSeen = Leaves
  BY <1>0 DEF RunnerSeen, UploadSteps, Succeeding, Handler, Over
<1>7. pc \in Over => RunnerSeen = Leaving(exc)
  BY <1>0 DEF RunnerSeen, UploadSteps, Succeeding, Handler, Over
<1> QED BY <1>1, <1>2, <1>3, <1>4, <1>5, <1>6, <1>7 DEF RunnerTable

LEMMA RunnerSeenNext == (TypeInv /\ RunControl => RunnerTable)'
BY RunnerSeenTable, PTL

LEMMA LeavingTable ==
  /\ Leaving("CancelledByUser") = Cancels /\ Leaving("ExitCode183") = Cancels
  /\ Leaving("SoftTimeLimit") = Failing
  /\ \A e \in Exceptions \cup {"none"} :
       /\ e \notin Cancellations \cup {"SoftTimeLimit"} => Leaving(e) = Leaves
       /\ Leaving(e) \in {Cancels, Failing, Leaves}
<1> USE DEF Leaving, Cancels, Failing, Leaves
<1>1. \A e \in Cancellations : Leaving(e) = Cancels
  BY DEF Cancellations
<1>2. Leaving("SoftTimeLimit") = Failing
  BY DEF Cancellations
<1>3. \A e \in Exceptions \cup {"none"} :
        e \notin Cancellations \cup {"SoftTimeLimit"} => Leaving(e) = Leaves
  OBVIOUS
<1> HIDE DEF Leaving
<1> QED BY <1>1, <1>2, <1>3 DEF Cancellations

(* What each request does to the record that the fleet sees.               *)
LEMMA RequestsSeen ==
  ASSUME build \in BuildRecord
  PROVE  /\ UNCHANGED build => RecordSeen' = RecordSeen
         /\ PostReset => RecordSeen' = Contract!Cleared
         /\ PatchBuilder => RecordSeen' = Contract!Claimed("me", RecordSeen)
         /\ \A s \in StateSteps :
              PatchState(s) => RecordSeen' = Contract!To("underway", RecordSeen)
         /\ \A o \in {"success", "failure"} :
              PatchFinal("finished", o) => RecordSeen' = Contract!To(o, RecordSeen)
         /\ \A o : PatchFinal("cancelled", o) => RecordSeen' = Contract!To("cancelled", RecordSeen)
<1> USE DEF RecordSeen, Verdict, BuildRecord
<1>1. UNCHANGED build => RecordSeen' = RecordSeen
  OBVIOUS
<1>2. PostReset => RecordSeen' = Contract!Cleared
  BY DEF PostReset, NewBuild, Contract!Cleared
<1>3. PatchBuilder => RecordSeen' = Contract!Claimed("me", RecordSeen)
  <2>1. PatchBuilder => /\ build'.state = build.state /\ build'.outcome = build.outcome
                        /\ build'.builder = "me"
    BY DEF PatchBuilder
  <2> QED BY <2>1 DEF Contract!Claimed
<1>4. ASSUME NEW s \in StateSteps, PatchState(s)
      PROVE  RecordSeen' = Contract!To("underway", RecordSeen)
  <2>1. build'.state = s /\ build'.builder = build.builder
    BY <1>4 DEF PatchState
  <2>2. s \notin {"finished", "triggered", "cancelled"}
    BY DEF StateSteps
  <2> QED BY <2>1, <2>2 DEF Contract!To
<1>5. ASSUME NEW o \in {"success", "failure"}, PatchFinal("finished", o)
      PROVE  RecordSeen' = Contract!To(o, RecordSeen)
  <2>1. build'.state = "finished" /\ build'.outcome = o /\ build'.builder = build.builder
    BY <1>5 DEF PatchFinal
  <2> QED BY <2>1 DEF Contract!To
<1>6. ASSUME NEW o, PatchFinal("cancelled", o)
      PROVE  RecordSeen' = Contract!To("cancelled", RecordSeen)
  <2>1. build'.state = "cancelled" /\ build'.builder = build.builder
    BY <1>6 DEF PatchFinal
  <2> QED BY <2>1 DEF Contract!To
<1> QED BY <1>1, <1>2, <1>3, <1>4, <1>5, <1>6

(* The contract, phase by phase.                                           *)
LEMMA ContractTable ==
  /\ Contracts(Fetched) = {<<Resetting, Contract!Cleared>>, <<Failing, RecordSeen>>}
  /\ Contracts(Resetting) = {<<Resetting, Contract!Claimed("me", RecordSeen)>>,
                             <<Resetting, Contract!To("underway", RecordSeen)>>,
                             <<Uploading, RecordSeen>>,
                             <<Failing, RecordSeen>>, <<Cancels, RecordSeen>>}
  /\ Contracts(Uploading) = {<<Succeeds, RecordSeen>>, <<Failing, RecordSeen>>}
  /\ \A v : Contracts(Contract!Reporting(v)) = {<<Leaves, Contract!To(v, RecordSeen)>>}
  /\ Contracts(Contract!At("taken")) =
       {<<Contract!At("protected"), Contract!Claimed("me", RecordSeen)>>}
  /\ Contracts(Contract!At("protected")) = Contract!Fetch(RecordSeen)
BY DEF Contracts, Contract!Moves, Fetched, Resetting, Uploading, Leaves, Succeeds, Failing, Cancels,
    Contract!At, Contract!Reporting

LEMMA SignalledTable ==
  /\ Contract!Signalled(Fetched) = {Cancels, Leaves}
  /\ Contract!Signalled(Resetting) = {Resetting, Cancels, Failing}
  /\ \A v : Contract!Signalled(Contract!Reporting(v)) =
              {Contract!Reporting(v), Cancels, Failing, Leaves}
  /\ Contract!Signalled(Leaves) = {Leaves, Cancels}
  /\ Contract!Signalled(Contract!At("taken")) = {Leaves}
  /\ Contract!Signalled(Contract!At("protected")) = {Cancels}
BY DEF Contract!Signalled, Fetched, Resetting, Leaves, Failing, Cancels, Contract!At,
    Contract!Reporting

(* A failure of the environment may end the task, or have it report, with  *)
(* its record as it was or as the step would have left it.                 *)
LEMMA FailureAllowed ==
  ASSUME NEW t, NEW u \in {Leaves, Failing, Cancels},
         struck' \cap {"api", "docker", "broker", "unexpected", "alarm", "soft"} # {},
         RecordSeen' = RecordSeen \/ \E m \in Contracts(t) : RecordSeen' = m[2]
  PROVE  Allowed(t, u)
BY DEF Allowed, Contract!Failures, Contracts, Leaves, Failing, Cancels

LEMMA StaysAllowed == ASSUME NEW t, UNCHANGED RecordSeen PROVE Allowed(t, t)
BY DEF Allowed

(* What run() reports of an exception it raises.                           *)
LEMMA RaiseSeen ==
  ASSUME TypeInv, TypeInv', RunControl, RunControl', pc \in Body, NEW e \in Exceptions, Raise(e)
  PROVE  RunnerSeen' = IF e \in Cancellations THEN Cancels ELSE Failing
<1>1. /\ exc' = e /\ final' = "none" /\ ~success'
      /\ pc' = IF e \in UserErrors \cup AppErrors THEN "except" ELSE "finalize"
  BY DEF Raise, RunControl, Body, Over, StateSteps, DirectorSteps, UploadSteps
<1>2. Stopping' <=> e \in Cancellations
  BY <1>1 DEF Stopping, UserErrors
<1>3. RunnerTable'
  BY RunnerSeenNext
<1> QED BY <1>1, <1>2, <1>3 DEF RunnerTable, Handler

LEMMA FollowingAfterReset ==
  ASSUME NEW s \in Body \ {"check"}
  PROVE  Following(s) \in Body \ ({"check", "reset", "succeed"} \cup UploadSteps)
BY SMTT(30) DEF Following, Opening, Body, StateSteps, DirectorSteps, UploadSteps

(* Every statement of run() is a step of the contract.                     *)
LEMMA RunAllowed ==
  ASSUME TypeInv, TypeInv', RunControl, RunControl', Run
  PROVE  Allowed(RunnerSeen, RunnerSeen')
<1>0. RunnerTable /\ RunnerTable' /\ build \in BuildRecord
  BY RunnerSeenTable, RunnerSeenNext DEF TypeInv, TypeOK
<1>a. UNCHANGED build => UNCHANGED RecordSeen
  BY <1>0, RequestsSeen
<1>b. ASSUME NEW e \in {"AppError", "UserError", "Unexpected"}, pc \in Body, Raise(e)
      PROVE  RunnerSeen' = Failing
  BY <1>b, RaiseSeen DEF Exceptions, UserErrors, AppErrors, Cancellations
<1>1. CASE InstallHandlers \/ EnterTry
  <2>1. RunnerSeen = Fetched /\ RunnerSeen' = Fetched /\ UNCHANGED RecordSeen
    BY <1>0, <1>1, <1>a DEF InstallHandlers, EnterTry, Goto, apiVars, RunnerTable
  <2> QED BY <2>1, StaysAllowed
<1>2. CASE CheckProjectDisabled
  <2>1. RunnerSeen = Fetched /\ UNCHANGED RecordSeen /\ pc \in Body
    BY <1>0, <1>2, <1>a DEF CheckProjectDisabled, apiVars, RunnerTable, Body
  <2>2. RunnerSeen' \in {Fetched, Failing}
    BY <1>0, <1>2, <1>b, <2>1, FollowingTable DEF CheckProjectDisabled, Goto, RunnerTable
  <2> QED BY <2>1, <2>2, StaysAllowed, ContractTable DEF Allowed
<1>3. CASE ResetBuild
  <2>1. RunnerSeen = Fetched /\ pc = "reset" /\ pc \in Body
    BY <1>0, <1>3 DEF ResetBuild, RunnerTable, Body
  <2>2. CASE PostReset /\ Goto(Following(pc))
    <3>1. RunnerSeen' = Resetting
      BY <1>0, <2>1, <2>2, FollowingAfterReset DEF Goto, RunnerTable
    <3> QED BY <1>0, <2>1, <2>2, <3>1, RequestsSeen, ContractTable DEF Allowed
  <2>3. CASE Fails(PostReset) /\ Raise("Unexpected")
    <3>1. RunnerSeen' = Failing /\ "api" \in struck'
      BY <1>b, <2>1, <2>3 DEF Fails, Strike
    <3>2. RecordSeen' \in {RecordSeen, Contract!Cleared}
      BY <1>0, <2>3, RequestsSeen DEF Fails
    <3>3. RecordSeen' = RecordSeen \/ \E m \in Contracts(Fetched) : RecordSeen' = m[2]
      BY <3>2, ContractTable
    <3> QED BY <2>1, <3>1, <3>3, FailureAllowed
  <2> QED BY <1>3, <2>2, <2>3 DEF ResetBuild, Request
<1>4. CASE ClaimBuild \/ SetBuildState \/ PostCheckout \/ DirectorStep \/ ValidateArtifacts
  <2>1. pc \in Body \ ({"check", "reset", "succeed"} \cup UploadSteps) /\ RunnerSeen = Resetting
    <3>1. pc \in Body \ ({"check", "reset", "succeed"} \cup UploadSteps)
      BY <1>4
      DEF ClaimBuild, SetBuildState, PostCheckout, DirectorStep, ValidateArtifacts, Body,
          StateSteps, DirectorSteps, UploadSteps
    <3> QED BY <1>0, <3>1 DEF RunnerTable
  <2>2. RecordSeen' = RecordSeen \/ \E m \in Contracts(Resetting) : RecordSeen' = m[2]
    <3>1. RecordSeen' \in {RecordSeen, Contract!Claimed("me", RecordSeen),
                           Contract!To("underway", RecordSeen)}
      BY <1>0, <1>4, RequestsSeen
      DEF ClaimBuild, SetBuildState, PostCheckout, DirectorStep, ValidateArtifacts, Request, Fails,
          Quiet, apiVars
    <3> QED BY <3>1, ContractTable
  <2>3. CASE pc' = Following(pc)
    <3>1. RunnerSeen' = Resetting
      BY <1>0, <2>1, <2>3, FollowingAfterReset DEF RunnerTable
    <3>2. RecordSeen' \in {RecordSeen, Contract!Claimed("me", RecordSeen),
                           Contract!To("underway", RecordSeen)}
      BY <1>0, <1>4, RequestsSeen
      DEF ClaimBuild, SetBuildState, PostCheckout, DirectorStep, ValidateArtifacts, Request, Fails,
          Quiet, apiVars
    <3> QED BY <2>1, <3>1, <3>2, ContractTable DEF Allowed
  <2>4. CASE "api" \in struck' /\ Raise("Unexpected")
    BY <1>b, <2>1, <2>2, <2>4, FailureAllowed
  <2>5. ASSUME UNCHANGED build, NEW e \in Exceptions \ {"SoftTimeLimit"}, Raise(e)
        PROVE  Allowed(RunnerSeen, RunnerSeen')
    <3>1. RunnerSeen' \in {Cancels, Failing}
      BY <2>1, <2>5, RaiseSeen
    <3> QED BY <1>a, <2>1, <2>5, <3>1, ContractTable DEF Allowed
  <2>6. \/ pc' = Following(pc)
        \/ "api" \in struck' /\ Raise("Unexpected")
        \/ UNCHANGED build /\ \E e \in Raises(pc) \cup {"Unexpected", "AppError", "UserError"} : Raise(e)
    BY <1>4
    DEF ClaimBuild, SetBuildState, PostCheckout, DirectorStep, ValidateArtifacts, Request, Fails,
        Strike, Quiet, Goto
  <2>7. Raises(pc) \cup {"Unexpected", "AppError", "UserError"} \subseteq Exceptions \ {"SoftTimeLimit"}
    BY DEF Raises, Exceptions, UserErrors, Cancellations, AppErrors
  <2> QED BY <2>3, <2>4, <2>5, <2>6, <2>7
<1>5. CASE EnterUpload
  <2>1. RunnerSeen = Resetting /\ RunnerSeen' = Uploading /\ UNCHANGED RecordSeen
    BY <1>0, <1>5, <1>a DEF EnterUpload, RunnerTable, Body, UploadSteps, apiVars
  <2> QED BY <2>1, ContractTable DEF Allowed
<1>6. CASE \/ GetStorage \/ CheckMediaSize \/ BeginSync \/ EndSync \/ CopiesDone \/ BeginDelete
           \/ EndDelete \/ DeletesDone \/ UpdateVersion
  <2>1. pc \in UploadSteps /\ pc \in Body /\ UNCHANGED build
    BY <1>6
    DEF GetStorage, CheckMediaSize, BeginSync, EndSync, CopiesDone, BeginDelete, EndDelete,
        DeletesDone, UpdateVersion, UploadSteps, Body, Fails, PostNotification, Quiet, apiVars
  <2>2. pc' \in UploadSteps \/ \E e \in {"AppError", "Unexpected"} : Raise(e)
    BY <1>6
    DEF GetStorage, CheckMediaSize, BeginSync, EndSync, CopiesDone, BeginDelete, EndDelete,
        DeletesDone, UpdateVersion, DeleteSkipped, Goto, UploadSteps
  <2>3. RunnerSeen = Uploading /\ RunnerSeen' \in {Uploading, Failing}
    BY <1>0, <1>b, <2>1, <2>2 DEF RunnerTable
  <2> QED BY <1>a, <2>1, <2>3, StaysAllowed, ContractTable DEF Allowed
<1>7. CASE LeaveUpload
  <2>1. RunnerSeen = Uploading /\ RunnerSeen' = Succeeds /\ UNCHANGED RecordSeen
    BY <1>0, <1>7, <1>a DEF LeaveUpload, RunnerTable, UploadSteps, Succeeding, apiVars
  <2> QED BY <2>1, ContractTable DEF Allowed
<1>8. CASE Succeed
  <2>1. RunnerSeen = Succeeds /\ RunnerSeen' = Succeeds /\ UNCHANGED RecordSeen
    BY <1>0, <1>8, <1>a DEF Succeed, RunnerTable, Succeeding, apiVars
  <2> QED BY <2>1, StaysAllowed
<1>9. CASE HandleException \/ AttachFailureNotification \/ Reraise
  <2>1. /\ pc \in Handler /\ pc' \in Handler \cup {"finalize"} /\ ~success /\ ~success'
        /\ UNCHANGED build
    BY <1>9
    DEF HandleException, AttachFailureNotification, Reraise, Goto, Escape, localVars, Handler, Over,
        RunControl, Fails, PostNotification, apiVars
  <2>2. Stopping' <=> Stopping
    BY <1>9
    DEF HandleException, AttachFailureNotification, Reraise, Goto, Escape, localVars, Stopping,
        RunControl
  <2>3. RunnerSeen' = RunnerSeen
    BY <1>0, <2>1, <2>2 DEF RunnerTable
  <2> QED BY <1>a, <2>1, <2>3, StaysAllowed
<1>10. CASE Finalize
  <2>1. pc = "finalize" /\ final \in {"none", "cancelled"} /\ exc \in Exceptions \cup {"none"}
    BY <1>10 DEF Finalize, TypeInv, TypeOK
  <2> DEFINE v == IF success THEN "success" ELSE IF Stopping THEN "cancelled" ELSE "failure"
  <2>2. RunnerSeen = Contract!Reporting(v)
    BY <1>0, <2>1 DEF RunnerTable, Succeeding, Succeeds, Failing, Cancels
  <2>3. PatchFinal(FinalState, Outcome) => RecordSeen' = Contract!To(v, RecordSeen)
    <3>1. Stopping <=> final = "cancelled"
      BY <2>1 DEF Stopping
    <3>2. success => final = "none"
      BY DEF RunControl
    <3> QED BY <1>0, <2>1, <3>1, <3>2, RequestsSeen DEF FinalState, FinalStates, Outcome
  <2>4. <<Leaves, Contract!To(v, RecordSeen)>> \in Contracts(RunnerSeen)
    BY <2>2, ContractTable
  <2>5. CASE PatchFinal(FinalState, Outcome) /\ Goto("return")
    <3>1. RunnerSeen' = Leaves
      BY <1>0, <2>5 DEF Goto, RunnerTable
    <3> QED BY <2>3, <2>4, <2>5, <3>1 DEF Allowed
  <2>6. CASE Fails(PatchFinal(FinalState, Outcome)) /\ Escape("Unexpected", "raised")
    <3>1. RunnerSeen' = Leaves
      BY <1>0, <2>6, LeavingTable DEF Escape, Over, RunnerTable, Exceptions, Cancellations
    <3>2. RecordSeen' = RecordSeen \/ \E m \in Contracts(RunnerSeen) : RecordSeen' = m[2]
      BY <1>a, <2>3, <2>4, <2>6 DEF Fails
    <3> QED BY <2>6, <3>1, <3>2, FailureAllowed DEF Fails, Strike
  <2> QED BY <1>10, <2>5, <2>6 DEF Finalize
<1>11. CASE Return
  <2>1. RunnerSeen = Leaves /\ pc' \in Over /\ UNCHANGED <<exc, struck>> /\ UNCHANGED RecordSeen
    BY <1>0, <1>11, <1>a DEF Return, Goto, localVars, RunnerTable, Over, apiVars
  <2>2. RunnerSeen' = Leaving(exc)
    <3>1. Leaving(exc)' = Leaving(exc)
      BY <2>1 DEF Leaving
    <3> QED BY <1>0, <2>1, <3>1 DEF RunnerTable
  <2>3. /\ exc \in Exceptions \cup {"none"}
        /\ exc = "SoftTimeLimit" => "soft" \in struck
        /\ exc \in Cancellations => "cancel" \in struck
    BY <1>11 DEF Return, TypeInv, TypeOK, RunControl, Handler
  <2>4. CASE exc = "SoftTimeLimit"
    BY <2>1, <2>2, <2>3, <2>4, LeavingTable, FailureAllowed
  <2>5. CASE exc \in Cancellations
    BY <2>1, <2>2, <2>3, <2>5, LeavingTable, SignalledTable DEF Allowed, Cancellations
  <2>6. CASE exc \notin Cancellations \cup {"SoftTimeLimit"}
    BY <2>1, <2>2, <2>3, <2>6, LeavingTable, StaysAllowed
  <2> QED BY <2>4, <2>5, <2>6
<1> QED
  BY <1>1, <1>2, <1>3, <1>4, <1>5, <1>6, <1>7, <1>8, <1>9, <1>10, <1>11 DEF Run

(* What an exception raised by a signal makes of the runner, as seen.      *)
LEMMA InterruptSeen ==
  ASSUME TypeInv, TypeInv', RunControl, RunControl',
         NEW e \in {"CancelledByUser", "TimeOut", "SoftTimeLimit"}, Interrupt(e)
  PROVE  \/ RunnerSeen' = RunnerSeen
         \/ RunnerSeen' \in {Cancels, Failing} /\ pc \in Body \cup Handler
         \/ RunnerSeen' = Leaving(e) /\ pc \in {"armed", "finalize", "return"}
<1>0. RunnerTable /\ RunnerTable' /\ e \in Exceptions
  BY RunnerSeenTable, RunnerSeenNext DEF Exceptions, UserErrors, Cancellations
<1>1. CASE pc \in Body /\ \E x \in Becomes(e) : x # "none" /\ Raise(x)
  <2>1. PICK x \in Exceptions : Raise(x)
    BY <1>0, <1>1, BecomesAnException
  <2> QED BY <1>1, <2>1, RaiseSeen
<1>2. CASE pc \in Body /\ "none" \in Becomes(e) /\ Swallowed
  <2>1. pc \in {"build", "run_build_commands", "deleting"} \/ (pc = "copy" /\ todo # {})
    BY <1>0, <1>2
    DEF Becomes, StepBecomes, DirectorSteps, Exceptions, UserErrors, Cancellations, AppErrors
  <2>2. CASE pc \in {"build", "run_build_commands"}
    <3>1. pc' = Following(pc)
      BY <1>2, <2>2 DEF Swallowed, Goto
    <3> QED BY <1>0, <1>2, <2>2, <3>1, FollowingAfterReset DEF RunnerTable, UploadSteps
  <2>3. CASE pc \notin {"build", "run_build_commands"}
    <3>1. pc \in UploadSteps /\ pc' \in UploadSteps
      BY <1>2, <2>1, <2>3 DEF Swallowed, Goto, DeleteSkipped, UploadSteps
    <3> QED BY <1>0, <3>1 DEF RunnerTable
  <2> QED BY <2>2, <2>3
<1>3. CASE pc \in Handler /\ (Escape(e, "finalize") \/ (pc = "notify" /\ Goto("handled")))
  <2>1. pc' \in Handler \cup {"finalize"} /\ ~success'
    BY <1>3 DEF Escape, Goto, localVars, RunControl, Handler, Over
  <2> QED BY <1>0, <1>3, <2>1 DEF RunnerTable
<1>4. CASE pc \in {"armed", "finalize", "return"} /\ Escape(e, "raised")
  BY <1>0, <1>4 DEF Escape, RunnerTable, Over
<1> QED BY <1>1, <1>2, <1>3, <1>4 DEF Interrupt, Handler

LEMMA SignalAllowed ==
  ASSUME TypeInv, TypeInv', RunControl, RunControl', Signal
  PROVE  Allowed(RunnerSeen, RunnerSeen')
<1>0. RunnerTable /\ RunnerTable' /\ UNCHANGED RecordSeen
  <2>1. UNCHANGED build
    BY DEF Signal, OnCancel, OnTimeout, OnSoftTimeLimit, Interrupt, Quiet
  <2> QED BY <2>1, RunnerSeenTable, RunnerSeenNext DEF RecordSeen, Verdict
<1>1. CASE OnCancel
  <2>1. CASE inUpload
    <3>1. RunnerSeen = Uploading /\ RunnerSeen' = Uploading
      BY <1>0, <1>1, <2>1 DEF OnCancel, Goto, RunControl, TypeInv, TypeOK, RunnerTable
    <3> QED BY <1>0, <3>1, StaysAllowed
  <2>2. CASE ~inUpload
    <3>1. Interrupt("CancelledByUser") /\ "cancel" \in struck' /\ pc \notin UploadSteps
      BY <1>1, <2>2 DEF OnCancel, Strike, RunControl
    <3>2. CASE RunnerSeen' \in {Cancels, Failing} /\ pc \in Body \cup Handler
      <4>1. CASE pc \in {"check", "reset"}
        <5>1. Raise("CancelledByUser")
          BY <3>1, <4>1 DEF Interrupt, Becomes, DirectorSteps, Handler
        <5>2. RunnerSeen' = Cancels /\ RunnerSeen = Fetched
          BY <1>0, <4>1, <5>1, RaiseSeen
          DEF Body, RunnerTable, Exceptions, UserErrors, Cancellations
        <5> QED BY <1>0, <3>1, <5>2, SignalledTable DEF Allowed
      <4>2. CASE pc \notin {"check", "reset"}
        <5>1. RunnerSeen \in {Resetting, Succeeds, Cancels, Failing}
          BY <1>0, <3>1, <3>2, <4>2
          DEF RunnerTable, RunControl, Succeeding, Body, Handler, Over, StateSteps, DirectorSteps,
              UploadSteps
        <5>2. RunnerSeen' \in Contract!Signalled(RunnerSeen)
          BY <3>2, <5>1, SignalledTable DEF Succeeds, Cancels, Failing
        <5> QED BY <1>0, <3>1, <5>2 DEF Allowed
      <4> QED BY <4>1, <4>2
    <3>3. CASE RunnerSeen' = Leaving("CancelledByUser") /\ pc \in {"armed", "finalize", "return"}
      <4>1. RunnerSeen \in {Fetched, Succeeds, Cancels, Failing, Leaves}
        BY <1>0, <3>3 DEF RunnerTable, Succeeding
      <4>2. Cancels \in Contract!Signalled(RunnerSeen)
        BY <4>1, SignalledTable DEF Succeeds, Cancels, Failing
      <4> QED BY <1>0, <3>1, <3>3, <4>2, LeavingTable DEF Allowed
    <3> QED BY <1>0, <3>1, <3>2, <3>3, InterruptSeen, StaysAllowed
  <2> QED BY <2>1, <2>2
<1>2. ASSUME NEW e \in {"TimeOut", "SoftTimeLimit"}, Interrupt(e),
             struck' \cap {"alarm", "soft"} # {}
      PROVE  Allowed(RunnerSeen, RunnerSeen')
  <2>1. e \in Exceptions \cup {"none"}
    BY <1>2 DEF Exceptions, UserErrors
  <2>2. RunnerSeen' \in {RunnerSeen, Cancels, Failing, Leaves}
    BY <1>2, <2>1, InterruptSeen, LeavingTable
  <2> QED BY <1>0, <1>2, <2>2, StaysAllowed, FailureAllowed
<1>3. CASE OnTimeout
  BY <1>2, <1>3 DEF OnTimeout, Strike
<1>4. CASE OnSoftTimeLimit
  <2>1. CASE pc # "install"
    BY <1>2, <1>4, <2>1 DEF OnSoftTimeLimit, Strike
  <2>2. CASE pc = "install"
    <3>1. RunnerSeen' = Failing /\ "soft" \in struck'
      BY <1>0, <1>4, <2>2, LeavingTable
      DEF OnSoftTimeLimit, Strike, Escape, Over, RunnerTable
    <3> QED BY <1>0, <3>1, FailureAllowed
  <2> QED BY <2>1, <2>2
<1> QED BY <1>1, <1>3, <1>4 DEF Signal
-----------------------------------------------------------------------------
(* The task keeps the contract of module Fleet *)

Preparing == {"sync", "clone", "client", "container", "healthcheck", "arm", "entry"}
Taken     == Contract!At("taken")
Protected == Contract!At("protected")
Ends      == Contract!At("over")

Leavings == {"return_inner", "stop", "restore", "postrun", "poweroff"}

TaskTable ==
  /\ wpc \in {"setup", "protect"} => TaskSeen = Taken
  /\ wpc = "fetch" => TaskSeen = Protected
  /\ wpc \in Preparing => TaskSeen = Fetched
  /\ wpc = "runner" => TaskSeen = RunnerSeen
  /\ wpc = "disarm" => TaskSeen = Leaving(wexc)
  /\ wpc \in ReportSteps =>
       TaskSeen = IF report = "CancelledByUser" THEN Cancels ELSE Failing
  /\ wpc \in Leavings => TaskSeen = Leaves
  /\ wpc \in {"gone", "cut", "killed"} => TaskSeen = Ends

LEMMA TaskSeenTable == TaskTable
<1> USE DEF TaskSeen, Cleanup, Posting, Patching, Inner, Hook, Ended
<1>1. wpc \in {"setup", "protect"} => TaskSeen = Taken
  BY DEF Taken
<1>2. wpc = "fetch" => TaskSeen = Protected
  BY DEF Protected
<1>3. wpc \in Preparing => TaskSeen = Fetched
  BY DEF Preparing, Fetched
<1>4. wpc = "runner" => TaskSeen = RunnerSeen
  OBVIOUS
<1>5. wpc = "disarm" => TaskSeen = Leaving(wexc)
  OBVIOUS
<1>6. wpc \in ReportSteps =>
        TaskSeen = IF report = "CancelledByUser" THEN Cancels ELSE Failing
  BY DEF Cancels, Failing, ReportSteps
<1>7. wpc \in Leavings => TaskSeen = Leaves
  BY DEF Leaves, Leavings
<1>8. wpc \in {"gone", "cut", "killed"} => TaskSeen = Ends
  BY DEF Ends
<1> QED BY <1>1, <1>2, <1>3, <1>4, <1>5, <1>6, <1>7, <1>8 DEF TaskTable

LEMMA TaskSeenNext == TaskTable'
BY TaskSeenTable, PTL

(* A report and a propagated exception, as seen once the step is taken.    *)
LEMMA ReportSeen ==
  ASSUME NEW m, Report(m) \/ ReportInner(m)
  PROVE  TaskSeen' = IF m = "CancelledByUser" THEN Cancels ELSE Failing
BY TaskSeenNext, StepSets DEF Report, ReportInner, ReportAt, TaskTable

LEMMA CleaningSeen ==
  ASSUME wpc' \in Leavings PROVE TaskSeen' = Leaves
BY TaskSeenNext DEF TaskTable, Leavings

LEMMA OuterSeen ==
  ASSUME NEW e \in Exceptions \cup {"none"}, Outer(e) PROVE TaskSeen' = Leaving(e)
<1>1. CASE e \in Cancellations
  <2>1. Report("CancelledByUser")
    BY <1>1 DEF Outer, Cancellations
  <2> QED BY <1>1, <2>1, ReportSeen, LeavingTable DEF Cancellations
<1>2. CASE e = "SoftTimeLimit"
  <2>1. Report("TimeOut")
    BY <1>2 DEF Outer, Cancellations
  <2> QED BY <1>2, <2>1, ReportSeen, LeavingTable
<1>3. CASE e \notin Cancellations \cup {"SoftTimeLimit"}
  <2>1. Propagate(e, "stop")
    BY <1>3 DEF Outer
  <2> QED BY <1>3, <2>1, CleaningSeen, LeavingTable DEF Propagate, Leavings
<1> QED BY <1>1, <1>2, <1>3

(* Every step of the task is one of the contract's.                        *)
LEMMA TaskAllowed ==
  ASSUME TaskControl, TaskControl', Task, wpc # "queued"
  PROVE  Allowed(TaskSeen, TaskSeen')
<1>0. TaskTable /\ TaskTable' /\ build \in BuildRecord
  BY TaskSeenTable, TaskSeenNext DEF TaskControl, TaskTypeInv, TypeInv, TypeOK
<1>a. UNCHANGED build => UNCHANGED RecordSeen
  BY <1>0, RequestsSeen
<1>b. AfterReport \in Leavings /\ AfterFetch \in {"client", "sync"}
  BY AfterSteps DEF Leavings
<1>1. CASE Setup
  <2>1. TaskSeen = Taken /\ TaskSeen' = Taken /\ UNCHANGED RecordSeen
    BY <1>0, <1>1, <1>a DEF Setup, Proceed, TaskTable, apiVars
  <2> QED BY <2>1, StaysAllowed
<1>2. CASE Protect
  <2>1. TaskSeen = Taken /\ TaskSeen' = Protected
    BY <1>0, <1>2 DEF Protect, Proceed, TaskTable
  <2>2. \/ RecordSeen' = Contract!Claimed("me", RecordSeen)
        \/ "api" \in struck' /\ RecordSeen' \in {RecordSeen, Contract!Claimed("me", RecordSeen)}
    BY <1>0, <1>2, RequestsSeen DEF Protect, Fails, Strike
  <2>3. Contracts(Taken) = {<<Protected, Contract!Claimed("me", RecordSeen)>>}
    BY ContractTable DEF Taken, Protected
  <2>4. Taken.phase = "taken"
    BY DEF Taken, Contract!At
  <2> QED BY <2>1, <2>2, <2>3, <2>4
        DEF Allowed, Contract!Failures, Contracts, Protected
<1>3. CASE FetchBuild
  <2>1. TaskSeen = Protected /\ UNCHANGED RecordSeen
    BY <1>0, <1>3, <1>a DEF FetchBuild, TaskTable, NoRequest
  <2>2. Contracts(Protected) = Contract!Fetch(RecordSeen)
    BY ContractTable DEF Protected
  <2>3. CASE build.state = "cancelled" /\ Report("CancelledByUser")
    <3>1. TaskSeen' = Cancels
      BY <2>3, ReportSeen
    <3>2. RecordSeen.state = "cancelled"
      BY <2>3 DEF RecordSeen, Verdict
    <3> QED BY <2>1, <2>2, <3>1, <3>2 DEF Allowed, Contract!Fetch, Cancels
  <2>4. CASE build.state = "finished" /\ Proceed("restore")
    <3>1. TaskSeen' = Leaves
      BY <2>4, CleaningSeen DEF Proceed, Leavings
    <3>2. RecordSeen.state \in {"success", "failure"}
      BY <2>4 DEF RecordSeen, Verdict, TaskControl, Concluded
    <3> QED BY <2>1, <2>2, <3>1, <3>2 DEF Allowed, Contract!Fetch, Leaves
  <2>5. CASE build.state \in InFlight /\ Proceed(AfterFetch)
    <3>1. TaskSeen' = Fetched
      BY <1>0, <1>b, <2>5 DEF Proceed, TaskTable, Preparing
    <3>2. RecordSeen.state \in {"triggered", "underway"}
      BY <2>5 DEF RecordSeen, Verdict, InFlight
    <3> QED BY <2>1, <2>2, <3>1, <3>2 DEF Allowed, Contract!Fetch, Fetched
  <2>6. CASE Strike("api") /\ Report("AppError")
    <3>1. TaskSeen' = Failing
      BY <2>6, ReportSeen
    <3> QED BY <2>1, <2>6, <3>1, FailureAllowed DEF Strike
  <2> QED BY <1>3, <2>3, <2>4, <2>5, <2>6 DEF FetchBuild
<1>4. CASE SyncVersions \/ PrepareBuild \/ StartContainer \/ ArmTimeLimit
  <2>1. TaskSeen = Fetched /\ UNCHANGED RecordSeen
    BY <1>0, <1>4, <1>a
    DEF SyncVersions, PrepareBuild, StartContainer, ArmTimeLimit, TaskTable, Preparing, NoRequest,
        apiVars
  <2>2. wpc' \in Preparing \/ Report("UserError") \/ Report("AppError") \/ ReportInner("AppError")
    BY <1>4 DEF SyncVersions, PrepareBuild, StartContainer, ArmTimeLimit, Proceed, Preparing
  <2>3. TaskSeen' \in {Fetched, Failing}
    BY <1>0, <2>2, ReportSeen DEF TaskTable
  <2> QED BY <2>1, <2>3, StaysAllowed, ContractTable DEF Allowed
<1>5. CASE GetClient \/ StartHealthcheck \/ EnterRunner
  <2>1. TaskSeen = Fetched /\ UNCHANGED RecordSeen
    BY <1>0, <1>5, <1>a
    DEF GetClient, StartHealthcheck, EnterRunner, TaskTable, Preparing, NoRequest
  <2>2. \/ wpc' \in Preparing
        \/ EnterRunner /\ wpc' = "runner"
        \/ /\ struck' \cap {"docker", "unexpected"} # {}
           /\ \/ \E s \in {"restore", "disarm"} : Propagate("Unexpected", s)
              \/ Outer("Unexpected")
    BY <1>5 DEF GetClient, StartHealthcheck, EnterRunner, Proceed, Preparing, Strike
  <2>3. CASE wpc' \in Preparing
    BY <1>0, <2>1, <2>3, StaysAllowed DEF TaskTable
  <2>4. CASE EnterRunner /\ wpc' = "runner"
    <3>1. pc' = "install"
      BY <2>4
      DEF EnterRunner, Elsewhere, runnerVars, TaskControl, BeforeRunner
    <3>2. RunnerSeen' = Fetched
      BY <3>1, RunnerSeenNext DEF TaskControl, TaskTypeInv, RunnerTable
    <3> QED BY <1>0, <2>1, <2>4, <3>2, StaysAllowed DEF TaskTable
  <2>5. CASE /\ struck' \cap {"docker", "unexpected"} # {}
             /\ \/ \E s \in {"restore", "disarm"} : Propagate("Unexpected", s)
                \/ Outer("Unexpected")
    <3>1. Leaving("Unexpected") = Leaves /\ "Unexpected" \in Exceptions
      BY LeavingTable DEF Exceptions, Cancellations
    <3>2. CASE Propagate("Unexpected", "disarm")
      <4>1. TaskSeen' = Leaving(wexc)' /\ wexc' = "Unexpected"
        BY <1>0, <3>2 DEF Propagate, TaskTable
      <4>2. Leaving(wexc)' = Leaving("Unexpected")
        BY <4>1 DEF Leaving
      <4> QED BY <2>1, <2>5, <3>1, <4>1, <4>2, FailureAllowed
    <3>3. CASE Propagate("Unexpected", "restore") \/ Outer("Unexpected")
      <4>1. TaskSeen' = Leaves
        BY <3>1, <3>3, CleaningSeen, OuterSeen DEF Propagate, Leavings
      <4> QED BY <2>1, <2>5, <4>1, FailureAllowed
    <3> QED BY <2>5, <3>2, <3>3
  <2> QED BY <2>2, <2>3, <2>4, <2>5
<1>6. CASE LeaveRunner
  <2>1. /\ TaskSeen = Leaving(exc) /\ UNCHANGED RecordSeen
        /\ pc \in Over /\ wpc' = "disarm" /\ wexc' = IF pc = "raised" THEN exc ELSE "none"
    BY <1>0, <1>6, <1>a, RunnerSeenTable
    DEF LeaveRunner, Propagate, TaskTable, apiVars, TaskControl, TaskTypeInv, RunnerTable
  <2>2. wexc' = exc
    BY <2>1 DEF Over, TaskControl, RunControl
  <2>3. Leaving(wexc)' = Leaving(exc)
    BY <2>2 DEF Leaving
  <2>4. TaskSeen' = TaskSeen
    BY <1>0, <2>1, <2>3 DEF TaskTable
  <2> QED BY <2>1, <2>4, StaysAllowed
<1>7. CASE DisarmTimeLimit
  <2>1. TaskSeen = Leaving(wexc) /\ UNCHANGED RecordSeen /\ Outer(wexc)
    BY <1>0, <1>7, <1>a DEF DisarmTimeLimit, TaskTable, apiVars
  <2>2. TaskSeen' = TaskSeen
    BY <2>1, OuterSeen DEF TaskControl, TaskTypeInv, TaskTypeOK
  <2> QED BY <2>1, <2>2, StaysAllowed
<1>8. CASE PostReport
  <2>1. /\ wpc \in ReportSteps /\ wpc' \in ReportSteps
        /\ UNCHANGED report /\ UNCHANGED RecordSeen
    BY <1>8, <1>a, StepSets, AfterSteps DEF PostReport, Posting, Proceed, Fails, PostNotification
  <2>2. TaskSeen' = TaskSeen
    BY <1>0, <2>1 DEF TaskTable
  <2> QED BY <2>1, <2>2, StaysAllowed
<1>9. CASE PatchReport
  <2> DEFINE v == IF report = "CancelledByUser" THEN "cancelled" ELSE "failure"
  <2>1. TaskSeen = Contract!Reporting(v) /\ TaskSeen' = Leaves
    BY <1>0, <1>9, <1>b, CleaningSeen, StepSets
    DEF PatchReport, Patching, Proceed, TaskTable, Cancels, Failing
  <2>2. PatchFinal(FinalOf(report), "failure") => RecordSeen' = Contract!To(v, RecordSeen)
    BY <1>0, RequestsSeen DEF FinalOf
  <2>3. <<Leaves, Contract!To(v, RecordSeen)>> \in Contracts(TaskSeen)
    BY <2>1, ContractTable
  <2>4. CASE PatchFinal(FinalOf(report), "failure")
    BY <2>1, <2>2, <2>3, <2>4 DEF Allowed
  <2>5. CASE Fails(PatchFinal(FinalOf(report), "failure"))
    <3>1. RecordSeen' = RecordSeen \/ \E m \in Contracts(TaskSeen) : RecordSeen' = m[2]
      BY <1>a, <2>2, <2>3, <2>5 DEF Fails
    <3> QED BY <2>1, <2>5, <3>1, FailureAllowed DEF Fails, Strike
  <2> QED BY <1>9, <2>4, <2>5 DEF PatchReport
<1>10. CASE ReturnInner \/ StopContainer \/ RestoreHandlers \/ Release \/ PowerOff
  <2>1. TaskSeen = Leaves /\ UNCHANGED RecordSeen
    BY <1>0, <1>10, <1>a
    DEF ReturnInner, StopContainer, RestoreHandlers, Release, PowerOff, TaskTable, Leavings,
        NoRequest, apiVars
  <2>2. wpc' \in Leavings \cup {"gone"}
    BY <1>10
    DEF ReturnInner, StopContainer, RestoreHandlers, Release, PowerOff, Proceed, Propagate, Leavings
  <2>3. TaskSeen' \in {Leaves, Ends}
    BY <1>0, <2>2 DEF TaskTable
  <2> QED BY <2>1, <2>3 DEF Allowed, Ends, Leaves, Contract!At
<1> QED
  BY <1>1, <1>2, <1>3, <1>4, <1>5, <1>6, <1>7, <1>8, <1>9, <1>10 DEF Task, Receive

(* A signal that lands around the runner moves the task as the contract    *)
(* says a signal does, the soft limit as a failure.                        *)
LEMMA TaskInterruptedSeen ==
  ASSUME TaskControl, TaskControl', NEW e \in {"CancelledByUser", "SoftTimeLimit"},
         TaskInterrupted(e)
  PROVE  \/ TaskSeen' = TaskSeen
         \/ wpc = "protect" /\ TaskSeen = Taken /\ TaskSeen' = Protected
         \/ wpc = "setup" /\ TaskSeen' = Leaves
         \/ /\ wpc \notin {"setup", "protect"} /\ TaskSeen' \in {Cancels, Failing, Leaves}
            /\ e = "CancelledByUser" => TaskSeen' \in Contract!Signalled(TaskSeen)
<1>0. TaskTable /\ TaskTable' /\ e \in Exceptions
  BY TaskSeenTable, TaskSeenNext DEF Exceptions, UserErrors, Cancellations
<1>b. AfterReport \in Leavings
  BY AfterSteps DEF Leavings
<1>1. CASE \/ /\ wpc \in {"fetch", "sync", "clone"}
              /\ Report(IF e \in Cancellations THEN e ELSE "AppError")
           \/ /\ wpc = "container"
              /\ ReportInner(IF e \in Cancellations THEN e ELSE "AppError")
  <2>1. TaskSeen' = IF e = "CancelledByUser" THEN Cancels ELSE Failing
    BY <1>1, ReportSeen DEF Cancellations
  <2>2. TaskSeen \in {Protected, Fetched}
    BY <1>0, <1>1 DEF TaskTable, Preparing
  <2> QED BY <1>1, <2>1, <2>2, SignalledTable DEF Protected
<1>2. CASE AroundRunner /\ Outer(e)
  <2>1. TaskSeen' = IF e = "CancelledByUser" THEN Cancels ELSE Failing
    BY <1>0, <1>2, OuterSeen, LeavingTable
  <2>2. wpc \in {"healthcheck", "arm", "entry", "disarm", "runner"}
    BY <1>2 DEF AroundRunner, Serving
  <2>3. TaskSeen \in {Fetched, Cancels, Failing, Leaves}
    <3>1. CASE wpc \in {"healthcheck", "arm", "entry"}
      BY <1>0, <3>1 DEF TaskTable, Preparing
    <3>2. CASE wpc = "disarm"
      BY <1>0, <3>2, LeavingTable DEF TaskTable, TaskControl, TaskTypeInv, TaskTypeOK
    <3>3. CASE wpc = "runner"
      <4>1. pc \in {"install"} \cup Over /\ TaskSeen = RunnerSeen
        BY <1>0, <1>2, <3>3 DEF AroundRunner, Serving, TaskTable
      <4>2. RunnerTable /\ exc \in Exceptions \cup {"none"}
        BY RunnerSeenTable DEF TaskControl, TaskTypeInv, TypeInv, TypeOK
      <4> QED BY <4>1, <4>2, LeavingTable DEF RunnerTable
    <3> QED BY <2>2, <3>1, <3>2, <3>3
  <2>4. Cancels \in Contract!Signalled(TaskSeen)
    BY <2>3, SignalledTable DEF Cancels, Failing
  <2> QED BY <2>1, <2>2, <2>4
<1>3. CASE wpc = "setup" /\ Propagate(e, "postrun")
  BY <1>3, CleaningSeen DEF Propagate, Leavings
<1>4. CASE wpc = "protect" /\ Proceed("fetch")
  BY <1>0, <1>4 DEF Proceed, TaskTable
<1>5. CASE wpc = "client" /\ Propagate(e, "restore")
  <2>1. TaskSeen = Fetched /\ TaskSeen' = Leaves
    BY <1>0, <1>5, CleaningSeen DEF Propagate, Leavings, TaskTable, Preparing
  <2> QED BY <1>5, <2>1, SignalledTable
<1>6. CASE wpc \in Posting /\ Proceed(PatchOfPost)
  BY <1>0, <1>6, StepSets, AfterSteps DEF Proceed, TaskTable, Posting
<1>7. CASE \/ wpc \in Patching /\ Proceed(AfterReport)
           \/ wpc \in {"post", "patch"} /\ Propagate(e, AfterReport)
  <2>1. TaskSeen \in {Cancels, Failing} /\ TaskSeen' = Leaves
    BY <1>0, <1>7, <1>b, CleaningSeen, StepSets DEF Propagate, Proceed, TaskTable, Patching
  <2>2. Leaves \in Contract!Signalled(TaskSeen)
    BY <2>1, SignalledTable DEF Cancels, Failing
  <2> QED BY <1>7, <2>1, <2>2 DEF Patching
<1>8. CASE wpc \in Inner /\ Outer(e)
  <2>1. TaskSeen' = IF e = "CancelledByUser" THEN Cancels ELSE Failing
    BY <1>8, OuterSeen, LeavingTable, <1>0
  <2>2. TaskSeen \in {Cancels, Failing, Leaves}
    BY <1>0, <1>8, StepSets DEF TaskTable, Inner, Leavings
  <2>3. Cancels \in Contract!Signalled(TaskSeen)
    BY <2>2, SignalledTable DEF Cancels, Failing
  <2> QED BY <1>8, <2>1, <2>3 DEF Inner
<1>9. CASE \/ wpc = "stop" /\ Propagate(e, "restore")
           \/ wpc = "restore" /\ Propagate(e, "postrun")
  BY <1>0, <1>9, CleaningSeen DEF Propagate, Leavings, TaskTable
<1> QED BY <1>1, <1>2, <1>3, <1>4, <1>5, <1>6, <1>7, <1>8, <1>9 DEF TaskInterrupted

LEMMA TaskSignalAllowed ==
  ASSUME TaskControl, TaskControl', TaskSignal, wpc # "queued"
  PROVE  Allowed(TaskSeen, TaskSeen')
<1>0. TaskTable /\ TaskTable' /\ struck \subseteq struck'
  BY TaskSeenTable, TaskSeenNext, TaskStrikes
<1>a. UNCHANGED RecordSeen
  <2>1. UNCHANGED build
    BY WriterOfTask
    DEF TaskSignal, NoRequest, CancelTask, CancelUnhandled, SoftLimitTask, SoftLimitInHook, CutHook,
        Hook, AlarmBeforeHandler, AlarmAfterRunner, HardTimeLimit, Killed, TaskInterrupted
  <2> QED BY <2>1 DEF RecordSeen, Verdict
<1>c. ASSUME wpc \in Hook, NEW s \in {"cut", "poweroff"}, CutHook(s)
      PROVE  Allowed(TaskSeen, TaskSeen')
  <2>1. TaskSeen = Leaves /\ TaskSeen' \in {Leaves, Ends}
    BY <1>0, <1>c DEF CutHook, Proceed, TaskTable, Hook, Leavings
  <2> QED BY <1>a, <2>1 DEF Allowed, Leaves, Ends, Contract!At
<1>1. CASE CancelTask
  <2>1. wpc \notin {"setup", "protect"} /\ "cancel" \in struck' /\ TaskInterrupted("CancelledByUser")
    BY <1>1 DEF CancelTask, Strike
  <2>2. TaskSeen' = TaskSeen \/ TaskSeen' \in Contract!Signalled(TaskSeen)
    BY <2>1, TaskInterruptedSeen
  <2> QED BY <1>a, <2>1, <2>2 DEF Allowed
<1>2. CASE CancelUnhandled
  <2>1. CASE wpc \in {"setup", "protect"} /\ Propagate("Unexpected", "postrun")
    <3>1. TaskSeen = Taken /\ TaskSeen' = Leaves /\ "cancel" \in struck'
      BY <1>0, <1>2, <2>1, CleaningSeen DEF CancelUnhandled, Propagate, Strike, TaskTable, Leavings
    <3> QED BY <1>a, <3>1, SignalledTable DEF Allowed, Taken
  <2>2. CASE wpc \in Hook /\ CutHook("cut")
    BY <1>c, <2>2
  <2> QED BY <1>2, <2>1, <2>2 DEF CancelUnhandled
<1>3. CASE SoftLimitTask
  <2>1. "soft" \in struck' /\ TaskInterrupted("SoftTimeLimit")
    BY <1>3 DEF SoftLimitTask, SoftLimitInHook, CutHook, Hook, Strike
  <2>2. \/ TaskSeen' \in {TaskSeen, Cancels, Failing, Leaves}
        \/ TaskSeen = Taken /\ TaskSeen' = Protected
    BY <2>1, TaskInterruptedSeen
  <2>3. CASE TaskSeen' \in {TaskSeen, Cancels, Failing, Leaves}
    BY <1>a, <2>1, <2>3, StaysAllowed, FailureAllowed
  <2>4. CASE TaskSeen = Taken /\ TaskSeen' = Protected
    <3>1. Taken.phase = "taken"
      BY DEF Taken, Contract!At
    <3> QED BY <1>a, <2>1, <2>4, <3>1 DEF Allowed, Contract!Failures, Protected
  <2> QED BY <2>2, <2>3, <2>4
<1>4. CASE AlarmBeforeHandler \/ HardTimeLimit
  <2>1. TaskSeen' = Ends /\ struck' \cap {"alarm", "hard"} # {}
    BY <1>0, <1>4 DEF AlarmBeforeHandler, HardTimeLimit, Killed, TaskTable, Strike
  <2> QED BY <1>a, <2>1 DEF Allowed, Ends
<1>5. CASE AlarmAfterRunner
  <2>1. TaskSeen' = Leaves /\ "alarm" \in struck'
    BY <1>5, CleaningSeen DEF AlarmAfterRunner, Propagate, Strike, Leavings
  <2> QED BY <1>a, <2>1, FailureAllowed
<1>6. CASE SoftLimitInHook
  BY <1>c, <1>6 DEF SoftLimitInHook
<1> QED BY <1>1, <1>2, <1>3, <1>4, <1>5, <1>6 DEF TaskSignal

(* The task does to its record what module Fleet takes it to do: what is   *)
(* proved of the fleet is proved of tasks made of the worker's own steps.  *)
THEOREM TaskKeepsContract == WorkerSpec => ImplementsTask
<1>1. ASSUME TaskControl, TaskControl', [WorkerNext]_allVars, wpc # "queued", ~UNCHANGED allVars
      PROVE  Allowed(TaskSeen, TaskSeen')
  <2>1. CASE Task
    BY <1>1, <2>1, TaskAllowed
  <2>2. CASE TaskSignal
    BY <1>1, <2>2, TaskSignalAllowed
  <2>3. CASE RunnerStep \/ RunnerSignal
    <3>1. wpc = "runner" /\ wpc' = "runner" /\ (Run \/ Signal)
      BY <2>3 DEF RunnerStep, RunnerSignal, taskVars
    <3>2. TaskSeen = RunnerSeen /\ TaskSeen' = RunnerSeen'
      BY <3>1, TaskSeenTable, TaskSeenNext DEF TaskTable
    <3>3. Allowed(RunnerSeen, RunnerSeen')
      BY <1>1, <3>1, RunAllowed, SignalAllowed DEF TaskControl, TaskTypeInv
    <3> QED BY <3>2, <3>3
  <2> QED BY <1>1, <2>1, <2>2, <2>3 DEF WorkerNext, CancelledInQueue
<1>2. ASSUME TaskControl, TaskControl', [WorkerNext]_allVars
      PROVE  [wpc # "queued" =>
                LET after == <<TaskSeen', RecordSeen'>>
                IN  \/ after = <<TaskSeen, RecordSeen>>
                    \/ /\ TaskSeen.phase = "leaving" \/ struck' \cap {"alarm", "hard"} # {}
                       /\ after = <<Contract!At("over"), RecordSeen>>
                    \/ after \in Contract!Moves("me", TaskSeen, RecordSeen)
                    \/ /\ struck' \cap {"api", "docker", "broker", "unexpected", "alarm", "soft"} # {}
                       /\ after \in Contract!Failures("me", TaskSeen, RecordSeen)
                    \/ /\ struck' \cap {"cancel", "alarm", "soft"} # {}
                       /\ TaskSeen' \in Contract!Signalled(TaskSeen)
                       /\ RecordSeen' = RecordSeen]_allVars
  BY <1>1, <1>2 DEF Allowed, Contracts
<1> QED BY <1>2, TaskControlAlways, PTL DEF ImplementsTask, WorkerSpec
=============================================================================
