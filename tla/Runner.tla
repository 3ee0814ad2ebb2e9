------------------------------- MODULE Runner -------------------------------
(***************************************************************************)
(* builder/runner.py: Runner.run, the lifecycle of one build attempt, with *)
(* the signals that can interrupt it between any two of its steps.  One    *)
(* action per statement of run(); "pc" names the statement about to        *)
(* execute, and "exc" is the exception on its way out.                     *)
(*                                                                         *)
(* The steps of BuildDirector are black boxes here: each returns or raises *)
(* what DirectorContract allows.                                           *)
(***************************************************************************)
EXTENDS BuildApi, DirectorContract, Sequences

CONSTANTS ArtifactTypes,  \* the sequence ARTIFACT_TYPES of builder/constants.py
          Undeletable,    \* UNDELETABLE_ARTIFACT_TYPES
          Unadvertised,   \* the types the Version has no flag for (json)
          HostnameSet     \* whether settings.RTD_BUILDER_HOSTNAME is set

Types == {ArtifactTypes[i] : i \in DOMAIN ArtifactTypes}

ASSUME TypesAssumption ==
  /\ ArtifactTypes \in Seq(STRING)
  /\ "html" \in Types
  /\ Undeletable \subseteq Types
  /\ "html" \in Undeletable
  /\ Unadvertised \subseteq Types
  /\ HostnameSet \in BOOLEAN

VARIABLES job,       \* the build's input: [kind, skip]
          pc,        \* the statement of run() about to execute
          exc,       \* the exception in flight, or "none"
          inUpload,  \* self._in_upload
          success,   \* self._success
          final,     \* self._state, or "none"
          valid,     \* valid_artifacts
          todo,      \* the artifact types the current loop has left
          storage,   \* the version's directories in the artifacts bucket
          version    \* the formats the Version record says it has

localVars == <<exc, inUpload, success, final, valid, todo>>
vars == <<apiVars, job, pc, localVars, storage, version>>

-----------------------------------------------------------------------------
(* The statements of run() *)

StateSteps    == {"cloning", "installing", "building", "uploading"}
UploadSteps   == {"storage", "copy", "rclone", "syncing", "delete", "deleting",
                  "version", "leave"}
Body    == {"check", "reset", "claim", "post_checkout", "validate",
            "enter_upload", "succeed"} \cup StateSteps \cup DirectorSteps
                                       \cup UploadSteps
Handler == {"except", "notify", "handled"}
Over    == {"returned", "raised"}
Steps   == {"install", "armed", "finalize", "return"} \cup Body \cup Handler
                                                       \cup Over
Kinds   == {"uploaded", "commands", "standard"}
Places  == {"absent", "old", "partial", "new"}

(* Mutant: the build is claimed before it is reset.                        *)
OpeningClaimFirst == [check |-> "claim", claim |-> "reset", reset |-> "cloning"]

Opening == [check |-> "reset", reset |-> "claim", claim |-> "cloning"]

(* The statement after s.  The three kinds of build share the              *)
(* environment and the state changes and differ in what is between them.   *)
Following(s) ==
  CASE s \in DOMAIN Opening           -> Opening[s]
    [] s = "cloning"                  -> IF job.kind = "uploaded"
                                         THEN "create_build_environment"
                                         ELSE "create_vcs_environment"
    [] s = "create_vcs_environment"   -> "setup_vcs"
    [] s = "setup_vcs"                -> "post_checkout"
    [] s = "post_checkout"            -> "installing"
    [] s = "installing"               -> "create_build_environment"
    [] s = "create_build_environment" ->
         (CASE job.kind = "uploaded" -> "download_artifacts"
            [] job.kind = "commands" -> "install_build_tools"
            [] OTHER                 -> "setup_environment")
    [] s = "download_artifacts"       -> "building"
    [] s = "install_build_tools"      -> "building"
    [] s = "setup_environment"        -> "building"
    [] s = "building"                 ->
         (CASE job.kind = "uploaded" -> "extract_artifacts"
            [] job.kind = "commands" -> "run_build_commands"
            [] OTHER                 -> "build")
    [] s = "extract_artifacts"        -> "check_old_output"
    [] s = "run_build_commands"       -> "check_old_output"
    [] s = "build"                    -> "check_old_output"
    [] s = "check_old_output"         -> "uploading"
    [] s = "uploading"                -> "validate"
    [] OTHER                          -> "enter_upload"

-----------------------------------------------------------------------------
(* Control flow *)

Goto(s) == pc' = s /\ UNCHANGED localVars

(* An exception leaves the statement at pc inside the try of run(): the    *)
(* inner finally clears _in_upload, and the except clause takes the three  *)
(* families of builder.exceptions only.                                    *)
Raise(e) ==
  /\ exc' = e
  /\ inUpload' = FALSE
  /\ pc' = IF e \in UserErrors \cup AppErrors THEN "except" ELSE "finalize"
  /\ UNCHANGED <<success, final, valid, todo>>

(* An exception leaves run() itself, or replaces the one in its handler. *)
Escape(e, to) ==
  /\ exc' = e
  /\ pc' = to
  /\ UNCHANGED <<inUpload, success, final, valid, todo>>

(* A request whose failure leaves the try body as an unexpected exception *)
Request(applied) ==
  \/ applied /\ UNCHANGED struck /\ Goto(Following(pc))
  \/ Fails(applied) /\ Raise("Unexpected")

Quiet == UNCHANGED <<build, notes>>       \* no request of ours is applied
Local == UNCHANGED <<job, storage, version>>

-----------------------------------------------------------------------------
(* run(), from its first statement to the end of the build *)

InstallHandlers ==
  /\ pc = "install" /\ Goto("armed")
  /\ UNCHANGED apiVars /\ Local

EnterTry ==
  /\ pc = "armed" /\ Goto("check")
  /\ UNCHANGED apiVars /\ Local

CheckProjectDisabled ==
  /\ pc = "check"
  /\ IF job.skip THEN Raise("AppError") ELSE Goto(Following("check"))
  /\ UNCHANGED apiVars /\ Local

ResetBuild == pc = "reset" /\ Request(PostReset) /\ Local

ClaimBuild ==
  /\ pc = "claim"
  /\ IF HostnameSet THEN Request(PatchBuilder)
                    ELSE Goto(Following("claim")) /\ UNCHANGED apiVars
  /\ Local

SetBuildState ==
  /\ pc \in StateSteps
  /\ Request(PatchState(pc))
  /\ Local

(* The commit, the configuration and its path: fields no property reads *)
PostCheckout == pc = "post_checkout" /\ Request(Quiet) /\ Local

DirectorStep ==
  /\ pc \in DirectorSteps
  /\ \/ Goto(Following(pc)) /\ UNCHANGED struck
     \/ \E e \in Raises(pc) :
          /\ IF e \in Cancellations THEN Strike("exit183") ELSE UNCHANGED struck
          /\ Raise(e)
     \/ /\ Strike("unexpected")
        /\ \E e \in {"Unexpected", "AppError"} : Raise(e)
  /\ Quiet /\ Local

-----------------------------------------------------------------------------
(* Validation and upload *)

(* An index.html is required, so html is always among the valid types; a   *)
(* single-file directory whose file has no extension breaks the rename     *)
(* with a ValueError.                                                      *)
ValidateArtifacts ==
  /\ pc = "validate"
  /\ \/ /\ \E v \in SUBSET Types :
             /\ "html" \in v
             /\ valid' = v
        /\ pc' = Following("validate")
        /\ UNCHANGED <<exc, inUpload, success, final, todo, struck>>
     \/ Raise("UserError") /\ UNCHANGED struck
     \/ Strike("unexpected") /\ Raise("Unexpected")
  /\ Quiet /\ Local

(* Mutant: the upload does not defer cancellations.                        *)
EnterUploadInterruptible ==
  /\ pc = "enter_upload"
  /\ pc' = "storage"
  /\ UNCHANGED <<exc, inUpload, success, final, valid, todo, apiVars>> /\ Local

EnterUpload ==
  /\ pc = "enter_upload"
  /\ inUpload' = TRUE
  /\ pc' = "storage"
  /\ UNCHANGED <<exc, success, final, valid, todo, apiVars>> /\ Local

(* Storage credentials from the API: any error of the request is an        *)
(* application error.  An answer without credentials, or one the storage   *)
(* client cannot be built from, fails outside the try.                     *)
GetStorage ==
  /\ pc = "storage"
  /\ \/ /\ pc' = "copy"
        /\ todo' = valid
        /\ UNCHANGED <<exc, inUpload, success, final, valid, struck>>
     \/ Strike("api") /\ Raise("AppError")
     \/ Strike("unexpected") /\ Raise("Unexpected")
  /\ Quiet /\ Local

Position(t) == CHOOSE i \in DOMAIN ArtifactTypes : ArtifactTypes[i] = t

(* The loops take the types in the order of ARTIFACT_TYPES *)
IsNext(t) == t \in todo /\ \A u \in todo : Position(t) <= Position(u)

(* _compute_directory_size and _check_media_size: they never raise, and    *)
(* may warn about the size.                                                *)
CheckMediaSize ==
  /\ pc = "copy"
  /\ todo # {}
  /\ Goto("rclone")
  /\ \/ Quiet /\ UNCHANGED struck
     \/ PostNotification(MediaSize) /\ UNCHANGED struck
     \/ Fails(PostNotification(MediaSize))
  /\ Local

BeginSync ==
  /\ pc = "rclone"
  /\ \E t \in todo : IsNext(t) /\ storage' = [storage EXCEPT ![t] = "partial"]
  /\ Goto("syncing")
  /\ UNCHANGED <<apiVars, job, version>>

(* Mutant: a failed copy is logged and skipped, like a failed delete.      *)
EndSyncBestEffort ==
  /\ pc = "syncing"
  /\ \E t \in todo :
       /\ IsNext(t)
       /\ todo' = todo \ {t}
       /\ \/ UNCHANGED struck /\ storage' = [storage EXCEPT ![t] = "new"]
          \/ Strike("storage") /\ UNCHANGED storage
  /\ pc' = "copy"
  /\ UNCHANGED <<exc, inUpload, success, final, valid>>
  /\ Quiet /\ UNCHANGED <<job, version>>

EndSync ==
  /\ pc = "syncing"
  /\ \/ /\ \E t \in todo : /\ IsNext(t)
                           /\ storage' = [storage EXCEPT ![t] = "new"]
                           /\ todo' = todo \ {t}
        /\ pc' = "copy"
        /\ UNCHANGED <<exc, inUpload, success, final, valid, struck>>
     \/ Strike("storage") /\ Raise("AppError") /\ UNCHANGED storage
  /\ Quiet /\ UNCHANGED <<job, version>>

(* Mutant: every type that was not produced is deleted.                    *)
TypesNotProduced == Types \ valid

TypesToDelete == (Types \ valid) \ Undeletable

CopiesDone ==
  /\ pc = "copy"
  /\ todo = {}
  /\ todo' = TypesToDelete
  /\ pc' = "delete"
  /\ UNCHANGED <<exc, inUpload, success, final, valid, apiVars>> /\ Local

BeginDelete ==
  /\ pc = "delete"
  /\ todo # {}
  /\ \E t \in todo :
       /\ IsNext(t)
       /\ storage' = [storage EXCEPT ![t] = IF @ = "absent" THEN @ ELSE "partial"]
  /\ Goto("deleting")
  /\ UNCHANGED <<apiVars, job, version>>

DeleteSkipped ==
  /\ \E t \in todo : IsNext(t) /\ todo' = todo \ {t}
  /\ pc' = "delete"
  /\ UNCHANGED <<exc, inUpload, success, final, valid>>

(* A failing delete is logged and skipped *)
EndDelete ==
  /\ pc = "deleting"
  /\ DeleteSkipped
  /\ \/ /\ UNCHANGED struck
        /\ \E t \in todo : IsNext(t) /\ storage' = [storage EXCEPT ![t] = "absent"]
     \/ Strike("storage") /\ UNCHANGED storage
  /\ Quiet /\ UNCHANGED <<job, version>>

DeletesDone ==
  /\ pc = "delete"
  /\ todo = {}
  /\ Goto("version")
  /\ UNCHANGED apiVars /\ Local

(* Version.built, has_pdf, has_epub, has_htmlzip *)
Advertised(types) == types \ Unadvertised

(* Only a 4xx is survived here *)
UpdateVersion ==
  /\ pc = "version"
  /\ \/ /\ version' = IF "html" \in valid THEN Advertised(valid) ELSE version
        /\ Goto("leave") /\ UNCHANGED struck
     \/ Strike("rejected") /\ Goto("leave") /\ UNCHANGED version
     \/ /\ Strike("api") /\ Raise("Unexpected")
        /\ version' \in {version, Advertised(valid)}
  /\ Quiet /\ UNCHANGED <<job, storage>>

LeaveUpload ==
  /\ pc = "leave"
  /\ inUpload' = FALSE
  /\ pc' = "succeed"
  /\ UNCHANGED <<exc, success, final, valid, todo, apiVars>> /\ Local

(* The try body ends with this assignment, and the interpreter looks for   *)
(* pending signals at calls and loops only: none falls between it and the  *)
(* call of _finalize.                                                      *)
Succeed ==
  /\ pc = "succeed"
  /\ success' = TRUE
  /\ pc' = "finalize"
  /\ UNCHANGED <<exc, inUpload, final, valid, todo, apiVars>> /\ Local

-----------------------------------------------------------------------------
(* The except clause, the finally clause and the return *)

(* Mutants: every user error finishes as cancelled (BuildCancelled is one  *)
(* of them); a cancellation carries no notification; the message id of the *)
(* exception is taken for the final state.                                 *)
HandleUserErrorAsCancelled ==
  /\ pc = "except"
  /\ final' = IF exc \in UserErrors THEN "cancelled" ELSE final
  /\ pc' = "notify"
  /\ UNCHANGED <<exc, inUpload, success, valid, todo, apiVars>> /\ Local

HandleCancellationSilently ==
  /\ pc = "except"
  /\ final' = IF exc \in Cancellations THEN "cancelled" ELSE final
  /\ pc' = IF exc \in Cancellations THEN "handled" ELSE "notify"
  /\ UNCHANGED <<exc, inUpload, success, valid, todo, apiVars>> /\ Local

HandleExceptionAsState ==
  /\ pc = "except"
  /\ final' = exc
  /\ pc' = "notify"
  /\ UNCHANGED <<exc, inUpload, success, valid, todo, apiVars>> /\ Local

HandleException ==
  /\ pc = "except"
  /\ final' = IF exc \in Cancellations THEN "cancelled" ELSE final
  /\ pc' = "notify"
  /\ UNCHANGED <<exc, inUpload, success, valid, todo, apiVars>> /\ Local

AttachFailureNotification ==
  /\ pc = "notify"
  /\ Goto("handled")
  /\ \/ PostNotification(exc) /\ UNCHANGED struck
     \/ Fails(PostNotification(exc))
  /\ Local

Reraise ==
  /\ pc = "handled"
  /\ Escape(IF exc \in AppErrors THEN exc ELSE "none", "finalize")
  /\ UNCHANGED apiVars /\ Local

FinalState == IF final \in FinalStates THEN final ELSE "finished"

(* Mutant: no exception in flight is taken for a success.                  *)
OutcomeOfException == IF exc = "none" THEN "success" ELSE "failure"

Outcome == IF success THEN "success" ELSE "failure"

Finalize ==
  /\ pc = "finalize"
  /\ \/ PatchFinal(FinalState, Outcome) /\ UNCHANGED struck /\ Goto("return")
     \/ /\ Fails(PatchFinal(FinalState, Outcome))
        /\ Escape("Unexpected", "raised")
  /\ Local

Return ==
  /\ pc = "return"
  /\ Goto(IF exc = "none" THEN "returned" ELSE "raised")
  /\ UNCHANGED apiVars /\ Local

-----------------------------------------------------------------------------
(* Signals.  A handler runs at the next call or loop of whatever run() is  *)
(* doing, and what it raises comes out of that statement.                  *)

(* What an exception raised inside the statement at pc leaves it as:       *)
(* get_storage turns every exception into an application error, the upload *)
(* does so with those it does not know, and "none" is an exception         *)
(* swallowed: the size of a directory and the deletes are best effort.     *)
Becomes(e) ==
  CASE pc \in DirectorSteps -> StepBecomes(pc, e)
    [] pc = "storage" -> {e, "AppError"}
    [] pc \in {"rclone", "syncing"} ->
         {IF e \in UserErrors \cup AppErrors THEN e ELSE "AppError"}
    [] pc = "deleting" -> {e, "none"}
    [] pc = "copy" /\ todo # {} -> {e, "none"}
    [] OTHER -> {e}

Swallowed ==
  CASE pc = "copy"     -> Goto("rclone")
    [] pc = "deleting" -> DeleteSkipped
    [] OTHER           -> Goto(Following(pc))

(* An exception raised from a signal handler wherever run() is.  In the    *)
(* handler of run() it replaces the exception being handled, unless it     *)
(* lands in the try of _attach_failure_notification; in the finally and    *)
(* around the try it leaves run().                                         *)
Interrupt(e) ==
  /\ \/ /\ pc \in Body
        /\ \E x \in Becomes(e) : IF x = "none" THEN Swallowed ELSE Raise(x)
     \/ pc \in Handler /\ Escape(e, "finalize")
     \/ pc = "notify" /\ Goto("handled")
     \/ pc \in {"armed", "finalize", "return"} /\ Escape(e, "raised")
  /\ Quiet /\ Local

(* SIGINT or SIGTERM: Runner._on_cancel *)
OnCancel ==
  /\ pc \notin {"install"} \cup Over
  /\ IF inUpload
     THEN Strike("deferred") /\ Goto(pc) /\ Quiet /\ Local
     ELSE /\ Strike(IF "cancel" \in struck THEN "recancel" ELSE "cancel")
          /\ Interrupt("CancelledByUser")

(* SIGALRM, once: the worker arms a one-shot alarm for the whole build *)
OnTimeout ==
  /\ pc \notin {"install"} \cup Over
  /\ "alarm" \notin struck
  /\ Strike("alarm")
  /\ Interrupt("TimeOut")

(* Celery's soft time limit, raised once inside the task *)
OnSoftTimeLimit ==
  /\ pc \notin Over
  /\ "soft" \notin struck
  /\ Strike("soft")
  /\ IF pc = "install" THEN Escape("SoftTimeLimit", "raised") /\ Quiet /\ Local
                       ELSE Interrupt("SoftTimeLimit")

-----------------------------------------------------------------------------
Jobs == [kind : Kinds, skip : BOOLEAN]

RunnerInit ==
  /\ job \in Jobs
  /\ pc = "install"
  /\ exc = "none"
  /\ inUpload = FALSE
  /\ success = FALSE
  /\ final = "none"
  /\ valid = {}
  /\ todo = {}
  /\ storage \in {[t \in Types |-> "absent"], [t \in Types |-> "old"]}
  /\ version = Advertised({t \in Types : storage[t] = "old"})

(* run() starts on a Build the worker has just fetched *)
Init ==
  /\ RunnerInit
  /\ build = NewBuild
  /\ notes = {}
  /\ struck = {}

Run ==
  \/ InstallHandlers \/ EnterTry \/ CheckProjectDisabled
  \/ ResetBuild \/ ClaimBuild \/ SetBuildState \/ PostCheckout \/ DirectorStep
  \/ ValidateArtifacts \/ EnterUpload \/ GetStorage
  \/ CheckMediaSize \/ BeginSync \/ EndSync \/ CopiesDone
  \/ BeginDelete \/ EndDelete \/ DeletesDone
  \/ UpdateVersion \/ LeaveUpload \/ Succeed
  \/ HandleException \/ AttachFailureNotification \/ Reraise
  \/ Finalize \/ Return

Signal == OnCancel \/ OnTimeout \/ OnSoftTimeLimit

Next == Run \/ Signal

Spec == Init /\ [][Next]_vars

-----------------------------------------------------------------------------
(* Properties *)

(* Every variable has its type.                                            *)
TypeOK ==
  /\ build \in BuildRecord
  /\ notes \subseteq Messages
  /\ struck \subseteq Disturbances
  /\ job \in Jobs
  /\ pc \in Steps
  /\ exc \in Exceptions \cup {"none"}
  /\ inUpload \in BOOLEAN
  /\ success \in BOOLEAN
  /\ final \in {"none", "cancelled"}
  /\ valid \subseteq Types
  /\ todo \subseteq Types
  /\ storage \in [Types -> Places]
  /\ version \subseteq Types

(* A build the API shows as successful is published: every artifact it     *)
(* produced is completely in storage, the formats it no longer produces    *)
(* are gone (unless the delete failed or was interrupted), and the Version *)
(* advertises what was produced (unless the API refused that).             *)
SuccessMeansPublished ==
  build.outcome = "success" =>
    /\ "html" \in valid
    /\ \A t \in valid : storage[t] = "new"
    /\ struck \cap {"storage", "alarm", "soft"} = {} =>
         \A t \in TypesToDelete : storage[t] = "absent"
    /\ "rejected" \notin struck => version = Advertised(valid)

(* However many cancellations arrive and whenever they do, no artifact is  *)
(* left half written: that takes a failure of the storage or a time limit. *)
CancelLeavesNoPartialUpload ==
  \A t \in Types :
    storage[t] = "partial" =>
      pc \in {"syncing", "deleting"} \/ struck \cap {"storage", "alarm", "soft"} # {}

(* A build is only reported cancelled if it was asked to stop, by a signal *)
(* or by a command that exits 183.                                         *)
CancelledOnRequest ==
  build.state = "cancelled" => struck \cap {"cancel", "exit183"} # {}

Reasons == notes \ {MediaSize}

(* Whatever fails and whichever signals arrive, run() attaches at most one *)
(* reason, a success has none, a build shown as cancelled has no other     *)
(* reason than its cancellation, and a run that leaves the Build in flight *)
(* raises, so that the worker is told.                                     *)
(* While the API answers and no signal raises, the Build is in a final     *)
(* state, a cancellation is shown as one, and there is one way to fail     *)
(* without a reason: an exception of no family of builder.exceptions       *)
(* (runner.py:433, a lost Docker daemon), which then leaves run() for the  *)
(* worker to report.                                                       *)
FailureIsExplained ==
  pc \in Over =>
    /\ \A a, b \in Reasons : a = b
    /\ build.outcome = "success" => Reasons = {}
    /\ build.state = "cancelled" => Reasons \subseteq Cancellations
    /\ build.state \notin FinalStates => pc = "raised"
    /\ struck \cap {"api", "cancel", "alarm", "soft"} = {} =>
         /\ build.state \in FinalStates
         /\ Reasons \cap Cancellations # {} => build.state = "cancelled"
         /\ build.outcome = "failure" =>
              (Reasons = {} <=> pc = "raised" /\ exc = "Unexpected")

(* The claim outlives the reset: while the build is under way the API      *)
(* knows which instance runs it, so its healthchecks count.                *)
ClaimedWhileUnderWay ==
  HostnameSet /\ build.state \in InFlight \ {"triggered"} => build.builder = "me"

(* HTML and JSON a build did not produce stay in storage as they were: the *)
(* search index reads them.                                                *)
UndeletableKept ==
  [][\A t \in Undeletable :
       /\ storage[t] # "absent" => storage'[t] # "absent"
       /\ t \notin valid => storage'[t] = storage[t]]_vars

(* The Build record goes through the abstract lifecycle. *)
Lifecycle == INSTANCE BuildLifecycle WITH state <- build.state, outcome <- build.outcome
ImplementsLifecycle == Lifecycle!Spec

-----------------------------------------------------------------------------
(* Claims of the source, checked against the code *)

(* "A cancelled build finishes as cancelled, not finished -- the user      *)
(* stopped it ..., it didn't fail" (runner.py, run): where a cancellation  *)
(* is all that can go wrong, only a disabled project is an application     *)
(* error.                                                                  *)
CancelNotReportedAsAppError == "AppError" \in notes => job.skip

(* "The runner installs a handler that converts [SIGALRM] into an          *)
(* exception -- so the build fails through the normal path"                *)
(* (worker/tasks.py, _time_limit): a build whose alarm went off before it  *)
(* was finalized is not a success.                                         *)
TimedOutBuildFails == pc = "return" /\ "alarm" \in struck => build.outcome = "failure"
=============================================================================
