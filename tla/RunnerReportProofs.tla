------------------------- MODULE RunnerReportProofs -------------------------
(***************************************************************************)
(* What a Build record says of its build, for every sequence of artifact   *)
(* types and every environment: which instance runs it, whether it was     *)
(* cancelled and why it failed.  The proofs rest on the inductive          *)
(* invariant of module RunnerProofs.                                       *)
(***************************************************************************)
EXTENDS RunnerProofs

-----------------------------------------------------------------------------
(* The instance that runs the build *)

(* From the claim on, the record names the instance -- and it leaves       *)
(* "triggered" after the claim only.                                       *)
ClaimInv ==
  HostnameSet =>
    /\ pc \in Body \ {"check", "reset", "claim"} => build.builder = "me"
    /\ build.state \in InFlight \ {"triggered"} => build.builder = "me"

LEMMA RunKeepsClaim ==
  ASSUME IInv, ClaimInv, Run PROVE ClaimInv'
<1>0. /\ build \in BuildRecord /\ build.state \in StatesAt(pc)
      /\ HostnameSet \in BOOLEAN
  BY TypesAssumption DEF IInv, TypeInv, TypeOK, LifecycleInv, OnTrack
<1>1. CASE ResetBuild
  <2>1. PostReset => build'.state = "triggered"
    BY DEF PostReset, NewBuild
  <2>2. build.state = "triggered"
    BY <1>0, <1>1, StatesTable DEF ResetBuild
  <2>3. build'.state = "triggered"
    BY <1>1, <2>1, <2>2 DEF ResetBuild, Request, Fails
  <2>4. pc' \in {"claim", "finalize"}
    BY <1>1, FollowingTable DEF ResetBuild, Request, Goto, Raise, UserErrors, Cancellations, AppErrors
  <2> QED BY <2>3, <2>4 DEF ClaimInv, Body, StateSteps, DirectorSteps, UploadSteps
<1>2. CASE ClaimBuild
  <2>1. build.state = "triggered"
    BY <1>0, <1>2, StatesTable DEF ClaimBuild
  <2>2. PatchBuilder => build'.builder = "me" /\ build'.state = build.state
    BY <1>0 DEF PatchBuilder, BuildRecord
  <2>3. HostnameSet => \/ build'.builder = "me"
                       \/ build'.state = "triggered" /\ pc' = "finalize"
    BY <1>2, <2>1, <2>2 DEF ClaimBuild, Request, Fails, Raise, UserErrors, Cancellations, AppErrors
  <2> QED BY <2>3 DEF ClaimInv, Body, StateSteps, DirectorSteps, UploadSteps
<1>3. CASE SetBuildState
  <2>1. HostnameSet => build.builder = "me"
    BY <1>3 DEF SetBuildState, ClaimInv, Body, StateSteps
  <2>2. build'.builder = build.builder
    BY <1>0, <1>3 DEF SetBuildState, Request, Fails, PatchState, BuildRecord
  <2> QED BY <2>1, <2>2 DEF ClaimInv
<1>4. CASE Finalize
  <2>1. PatchFinal(FinalState, Outcome) => build'.state \in FinalStates
    BY <1>0 DEF PatchFinal, BuildRecord, FinalState, FinalStates
  <2>2. pc' \notin Body
    BY <1>4 DEF Finalize, Goto, Escape, Body, StateSteps, DirectorSteps, UploadSteps
  <2> QED BY <1>4, <2>1, <2>2 DEF Finalize, Fails, ClaimInv, InFlight, FinalStates
<1>5. CASE ~(ResetBuild \/ ClaimBuild \/ SetBuildState \/ Finalize)
  <2>1. UNCHANGED build
    BY <1>5, OnlyFourWriteTheBuild
  <2>2. pc' \in Body \ {"check", "reset", "claim"} => pc \in Body \ {"check", "reset", "claim"}
    <3>1. CASE CheckProjectDisabled
      BY <3>1, FollowingTable DEF CheckProjectDisabled, Goto, Raise, AppErrors, Body, StateSteps,
         DirectorSteps, UploadSteps
    <3>2. CASE InstallHandlers \/ EnterTry \/ HandleException \/ AttachFailureNotification
               \/ Reraise \/ Return
      BY <3>2 DEF InstallHandlers, EnterTry, HandleException, AttachFailureNotification, Reraise,
         Return, Goto, Escape, Body, StateSteps, DirectorSteps, UploadSteps
    <3>3. CASE ~(InstallHandlers \/ EnterTry \/ HandleException \/ AttachFailureNotification
                 \/ Reraise \/ Return \/ CheckProjectDisabled)
      <4>1. pc \in {"post_checkout", "validate", "enter_upload", "succeed"}
                   \cup DirectorSteps \cup UploadSteps
        BY <1>5, <3>3
        DEF Run, PostCheckout, DirectorStep, ValidateArtifacts, EnterUpload, GetStorage,
            CheckMediaSize, BeginSync, EndSync, CopiesDone, BeginDelete, EndDelete, DeletesDone,
            UpdateVersion, LeaveUpload, Succeed, UploadSteps
      <4> QED BY <4>1 DEF Body, DirectorSteps, UploadSteps
    <3> QED BY <3>1, <3>2, <3>3
  <2> QED BY <2>1, <2>2 DEF ClaimInv
<1> QED BY <1>1, <1>2, <1>3, <1>4, <1>5

(* A signal does not write the record, and run() does not get further into *)
(* its body by one than the next statement.                                *)
LEMMA SignalKeepsClaim ==
  ASSUME IInv, ClaimInv, Signal PROVE ClaimInv'
<1>1. UNCHANGED build
  BY SignalKeepsLifecycle DEF IInv
<1>2. ASSUME NEW e \in Exceptions, Interrupt(e)
      PROVE  pc' \in Body => pc \in Body \ {"check", "reset", "claim"}
  <2>1. ASSUME NEW x, Raise(x) PROVE pc' \notin Body
    BY <2>1 DEF Raise, Body, StateSteps, DirectorSteps, UploadSteps
  <2>2. "none" \in Becomes(e) => pc \in {"build", "run_build_commands", "deleting", "copy"}
    BY DEF Becomes, StepBecomes, DirectorSteps, Exceptions, UserErrors, Cancellations, AppErrors
  <2>3. CASE pc \in Body /\ \E x \in Becomes(e) : IF x = "none" THEN Swallowed ELSE Raise(x)
    BY <2>1, <2>2, <2>3
  <2>4. CASE ~(pc \in Body /\ \E x \in Becomes(e) : IF x = "none" THEN Swallowed ELSE Raise(x))
    BY <1>2, <2>4 DEF Interrupt, Escape, Goto, Body, StateSteps, DirectorSteps, UploadSteps
  <2> QED BY <2>3, <2>4
<1>3. pc' \in Body => pc \in Body \ {"check", "reset", "claim"}
  <2>1. CASE OnCancel
    <3>1. CASE inUpload
      <4>1. pc \in UploadSteps /\ pc' = pc
        BY <2>1, <3>1 DEF OnCancel, Goto, IInv, PublishInv, UploadGuarded
      <4> QED BY <4>1 DEF Body, UploadSteps
    <3>2. CASE ~inUpload
      BY <2>1, <3>2, <1>2 DEF OnCancel, Exceptions, UserErrors, Cancellations
    <3> QED BY <3>1, <3>2
  <2>2. CASE OnTimeout
    BY <2>2, <1>2 DEF OnTimeout, Exceptions, UserErrors
  <2>3. CASE OnSoftTimeLimit
    BY <2>3, <1>2 DEF OnSoftTimeLimit, Exceptions, Escape, Body, StateSteps, DirectorSteps, UploadSteps
  <2> QED BY <2>1, <2>2, <2>3 DEF Signal
<1> QED BY <1>1, <1>3 DEF ClaimInv

LEMMA NextKeepsClaim ==
  ASSUME IInv, ClaimInv, [Next]_vars PROVE ClaimInv'
<1>1. CASE UNCHANGED vars
  BY <1>1 DEF vars, apiVars, ClaimInv
<1> QED BY <1>1, RunKeepsClaim, SignalKeepsClaim DEF Next

(* From the first state after "triggered" to the last before its verdict,  *)
(* the record of a build names the instance that runs it, whatever fails   *)
(* or interrupts it: the reset never outlives the claim.                   *)
THEOREM BuildsUnderWayAreClaimed == Spec => []ClaimedWhileUnderWay
<1>1. Init => ClaimInv
  BY DEF Init, RunnerInit, NewBuild, ClaimInv, Body, StateSteps, DirectorSteps, UploadSteps
<1>2. ClaimInv => ClaimedWhileUnderWay
  BY DEF ClaimInv, ClaimedWhileUnderWay
<1> QED BY <1>1, <1>2, Inductive, NextKeepsClaim, PTL DEF Spec

-----------------------------------------------------------------------------
(* Cancelled only on request *)

Asked == struck \cap {"cancel", "exit183"} # {}

(* A cancellation on its way out, the final state that follows from it and *)
(* the state of the record all come from a request.                        *)
CancelInv ==
  build.state = "cancelled" \/ final = "cancelled" \/ exc \in Cancellations => Asked

(* A statement of run() only raises a cancellation if a command exited 183. *)
LEMMA RunCancelsOnRequest ==
  ASSUME Run PROVE exc' = exc \/ exc' \notin Cancellations \/ Asked'
<1>1. CASE DirectorStep
  BY <1>1 DEF DirectorStep, Goto, localVars, Raise, Strike, Asked, Cancellations
<1>2. CASE ~DirectorStep
  BY <1>2
  DEF Run, InstallHandlers, EnterTry, CheckProjectDisabled, ResetBuild, ClaimBuild, SetBuildState,
      PostCheckout, ValidateArtifacts, EnterUpload, GetStorage, CheckMediaSize, BeginSync, EndSync,
      CopiesDone, BeginDelete, EndDelete, DeletesDone, UpdateVersion, LeaveUpload, Succeed,
      HandleException, AttachFailureNotification, Reraise, Finalize, Return, Request, Goto, Raise,
      Escape, DeleteSkipped, localVars, Cancellations
<1> QED BY <1>1, <1>2

LEMMA RunKeepsCancel ==
  ASSUME IInv, CancelInv, Run PROVE CancelInv'
<1>0. Asked => Asked'
  BY StruckGrows DEF Next, Asked
<1>1. exc' \in Cancellations => Asked'
  BY <1>0, RunCancelsOnRequest DEF CancelInv
<1>2. final' = "cancelled" => Asked'
  <2>1. CASE HandleException
    BY <1>0, <2>1 DEF HandleException, CancelInv
  <2>2. CASE ~HandleException
    <3>1. UNCHANGED final
      BY <2>2
      DEF Run, InstallHandlers, EnterTry, CheckProjectDisabled, ResetBuild, ClaimBuild,
          SetBuildState, PostCheckout, DirectorStep, ValidateArtifacts, EnterUpload, GetStorage,
          CheckMediaSize, BeginSync, EndSync, CopiesDone, BeginDelete, EndDelete, DeletesDone,
          UpdateVersion, LeaveUpload, Succeed, AttachFailureNotification, Reraise, Finalize, Return,
          Request, Goto, Raise, Escape, DeleteSkipped, localVars
    <3> QED BY <1>0, <3>1 DEF CancelInv
  <2> QED BY <2>1, <2>2
<1>3. build'.state = "cancelled" => Asked'
  <2>0. build \in BuildRecord
    BY DEF IInv, TypeInv, TypeOK
  <2>1. CASE Finalize
    <3>1. PatchFinal(FinalState, Outcome) => (build'.state = "cancelled" => final = "cancelled")
      BY <2>0 DEF PatchFinal, FinalState, BuildRecord
    <3> QED BY <1>0, <2>1, <3>1 DEF Finalize, Fails, CancelInv
  <2>2. CASE ResetBuild \/ ClaimBuild \/ SetBuildState
    <3>1. \/ build'.state = build.state
          \/ build'.state \in {"triggered"} \cup StateSteps
      BY <2>0, <2>2 DEF ResetBuild, ClaimBuild, SetBuildState, Request, Fails, PostReset, NewBuild,
         PatchBuilder, PatchState, BuildRecord, apiVars
    <3> QED BY <1>0, <3>1 DEF CancelInv, StateSteps
  <2>3. CASE ~(ResetBuild \/ ClaimBuild \/ SetBuildState \/ Finalize)
    BY <1>0, <2>3, OnlyFourWriteTheBuild DEF CancelInv
  <2> QED BY <2>1, <2>2, <2>3
<1> QED BY <1>1, <1>2, <1>3 DEF CancelInv

(* An exception that is not a cancellation does not become one.            *)
LEMMA BecomesNoCancellation ==
  ASSUME NEW e \in Exceptions \ Cancellations PROVE Becomes(e) \cap Cancellations = {}
BY DEF Becomes, StepBecomes, DirectorSteps, Exceptions, UserErrors, Cancellations, AppErrors

LEMMA SignalKeepsCancel ==
  ASSUME IInv, CancelInv, Signal PROVE CancelInv'
<1>0. (Asked => Asked') /\ UNCHANGED build
  BY StruckGrows, SignalKeepsLifecycle DEF Next, Asked, IInv
<1>1. ASSUME NEW e \in Exceptions, Interrupt(e)
      PROVE  UNCHANGED final /\ (exc' = exc \/ exc' = e \/ exc' \in Becomes(e))
  <2>1. Swallowed => UNCHANGED <<exc, final>>
    BY DEF Swallowed, Goto, localVars, DeleteSkipped
  <2> QED BY <1>1, <2>1 DEF Interrupt, Raise, Escape, Goto, localVars
<1>2. UNCHANGED final /\ (exc' = exc \/ exc' \notin Cancellations \/ Asked')
  <2>1. CASE OnCancel
    <3>1. CASE inUpload
      BY <2>1, <3>1 DEF OnCancel, Goto, localVars
    <3>2. CASE ~inUpload
      <4>1. Asked'
        BY <2>1, <3>2 DEF OnCancel, Strike, Asked
      <4> QED BY <2>1, <3>2, <4>1, <1>1 DEF OnCancel, Exceptions, UserErrors, Cancellations
    <3> QED BY <3>1, <3>2
  <2>2. CASE OnTimeout
    BY <2>2, <1>1, BecomesNoCancellation DEF OnTimeout, Exceptions, UserErrors, Cancellations
  <2>3. CASE OnSoftTimeLimit
    BY <2>3, <1>1, BecomesNoCancellation
    DEF OnSoftTimeLimit, Escape, Exceptions, UserErrors, Cancellations
  <2> QED BY <2>1, <2>2, <2>3 DEF Signal
<1> QED BY <1>0, <1>2 DEF CancelInv

LEMMA NextKeepsCancel ==
  ASSUME IInv, CancelInv, [Next]_vars PROVE CancelInv'
<1>1. CASE UNCHANGED vars
  BY <1>1 DEF vars, apiVars, localVars, CancelInv, Asked
<1> QED BY <1>1, RunKeepsCancel, SignalKeepsCancel DEF Next

(* No time limit and no failure of any kind is ever reported as a          *)
(* cancellation: that takes a signal or a command that exits 183.          *)
THEOREM CancelledOnlyOnRequest == Spec => []CancelledOnRequest
<1>1. Init => CancelInv
  BY DEF Init, RunnerInit, NewBuild, CancelInv, Cancellations
<1>2. CancelInv => CancelledOnRequest
  BY DEF CancelInv, Asked, CancelledOnRequest
<1> QED BY <1>1, <1>2, Inductive, NextKeepsCancel, PTL DEF Spec

-----------------------------------------------------------------------------
(* One reason for a failure *)

(* No request fails, and no signal raises.                                 *)
Undisturbed == struck \cap {"api", "cancel", "alarm", "soft"} = {}

(* There is one reason, and it says whether the build was cancelled.       *)
OneReason(cancelled) ==
  \E m \in Exceptions : Reasons = {m} /\ (cancelled <=> m \in Cancellations)

(* A failure has its reason, or an exception that no handler took.         *)
Explained(cancelled) ==
  IF exc = "Unexpected" THEN Reasons = {} /\ ~cancelled ELSE OneReason(cancelled)

(* A reason is attached between the exception and the verdict, once.       *)
ReasonInv ==
  Undisturbed =>
    /\ pc \in {"install", "armed", "except", "notify"} \cup Body => Reasons = {}
    /\ pc \in {"notify", "handled"} => (final = "cancelled" <=> exc \in Cancellations)
    /\ pc = "handled" => Reasons = {exc}
    /\ pc = "finalize" => IF success THEN Reasons = {} ELSE Explained(final = "cancelled")
    /\ pc \in {"return"} \cup Over =>
         /\ build.state \in FinalStates
         /\ \/ build.outcome = "success" /\ Reasons = {}
            \/ build.outcome = "failure" /\ Explained(build.state = "cancelled")
    /\ pc = "returned" => exc = "none"

(* What the reasons rest on, whichever record run() was started on.        *)
Handling ==
  /\ TypeInv
  /\ pc \in {"except"} \cup Body => final = "none"
  /\ pc \in {"handled"} \cup Body => ~success

LEMMA UndisturbedBefore == ASSUME [Next]_vars, Undisturbed' PROVE Undisturbed
BY StruckGrows DEF Undisturbed

(* A request that fails, and a signal that raises, disturbs the build.     *)
LEMMA FailsDisturbs ==
  ASSUME NEW d \in {"api", "cancel", "alarm", "soft"}, Strike(d)
  PROVE  ~Undisturbed'
BY DEF Strike, Undisturbed

(* The body of run() attaches no reason, and decides nothing.              *)
LEMMA BodyAttachesNothing ==
  ASSUME TypeInv, Run, pc \in {"install", "armed"} \cup Body
  PROVE  /\ notes' \subseteq notes \cup {MediaSize}
         /\ UNCHANGED final
         /\ pc' \in {"armed", "except", "finalize"} \cup Body
         /\ build'.state = "cancelled" => build.state = "cancelled"
         /\ build'.outcome = "success" => build.outcome = "success"
<1>0. build \in BuildRecord /\ Following(pc) \in Body
  BY FollowingInBody DEF TypeInv, TypeOK
<1>a. ASSUME NEW e, Raise(e) PROVE pc' \in {"except", "finalize"} /\ UNCHANGED final
  BY <1>a DEF Raise
<1>1. CASE ResetBuild \/ ClaimBuild \/ SetBuildState \/ PostCheckout
  <2>1. \/ pc' = Following(pc) /\ UNCHANGED final
        \/ Raise("Unexpected")
    BY <1>1 DEF ResetBuild, ClaimBuild, SetBuildState, PostCheckout, Request, Goto, Fails, localVars
  <2>2. notes' \subseteq notes
    BY <1>1 DEF ResetBuild, ClaimBuild, SetBuildState, PostCheckout, Request, Fails, PostReset,
       PatchBuilder, PatchState, Quiet, apiVars
  <2>3. /\ build'.state = "cancelled" => build.state = "cancelled"
        /\ build'.outcome = "success" => build.outcome = "success"
    BY <1>0, <1>1 DEF ResetBuild, ClaimBuild, SetBuildState, PostCheckout, Request, Fails, PostReset,
       NewBuild, PatchBuilder, PatchState, Quiet, apiVars, BuildRecord, StateSteps
  <2> QED BY <1>0, <1>a, <2>1, <2>2, <2>3
<1>2. CASE DirectorStep
  <2>1. \/ pc' = Following(pc) /\ UNCHANGED final
        \/ \E e \in Raises(pc) \cup {"Unexpected", "AppError"} : Raise(e)
    BY <1>2 DEF DirectorStep, Goto, localVars
  <2> QED BY <1>0, <1>2, <1>a, <2>1 DEF DirectorStep, Quiet
<1>3. CASE InstallHandlers \/ EnterTry \/ CheckProjectDisabled \/ ValidateArtifacts
  <2>1. Following("check") \in Body /\ Following("validate") \in Body
    BY FollowingInBody
  <2> QED
    BY <1>3, <1>a, <2>1
    DEF InstallHandlers, EnterTry, CheckProjectDisabled, ValidateArtifacts, Goto, Quiet, apiVars,
        localVars, Body
<1>4. CASE GetStorage \/ EndSync
  BY <1>4, <1>a DEF GetStorage, EndSync, Quiet, Body, UploadSteps
<1>5. CASE \/ EnterUpload \/ CheckMediaSize \/ BeginSync \/ CopiesDone \/ BeginDelete \/ EndDelete
           \/ DeletesDone \/ UpdateVersion \/ LeaveUpload \/ Succeed
  <2>1. UNCHANGED build /\ notes' \subseteq notes \cup {MediaSize}
    BY <1>5
    DEF EnterUpload, CheckMediaSize, BeginSync, CopiesDone, BeginDelete, EndDelete, DeletesDone,
        UpdateVersion, LeaveUpload, Succeed, Fails, PostNotification, Quiet, apiVars
  <2>2. UNCHANGED final /\ pc' \in {"except", "finalize"} \cup Body
    BY <1>5, <1>a
    DEF EnterUpload, CheckMediaSize, BeginSync, CopiesDone, BeginDelete, EndDelete, DeletesDone,
        UpdateVersion, LeaveUpload, Succeed, DeleteSkipped, Goto, localVars, Body, UploadSteps
  <2> QED BY <2>1, <2>2
<1>6. CASE HandleException \/ AttachFailureNotification \/ Reraise \/ Finalize \/ Return
  BY <1>6 DEF HandleException, AttachFailureNotification, Reraise, Finalize, Return, Body, StateSteps,
     DirectorSteps, UploadSteps
<1> QED BY <1>1, <1>2, <1>3, <1>4, <1>5, <1>6 DEF Run

(* Where nothing disturbs it, the body of run() goes on, raises an         *)
(* exception that its handler takes, or one that nobody takes.             *)
LEMMA BodyStep ==
  ASSUME Run, pc \in {"install", "armed"} \cup Body, Undisturbed'
  PROVE  \/ pc' \in {"armed", "except"} \cup Body
         \/ pc' = "finalize" /\ success'
         \/ pc' = "finalize" /\ exc' = "Unexpected" /\ UNCHANGED success
<1> USE FailsDisturbs
<1>a. ASSUME NEW e \in UserErrors \cup AppErrors, Raise(e) PROVE pc' = "except"
  BY <1>a DEF Raise
<1>c. ASSUME Raise("Unexpected")
      PROVE  pc' = "finalize" /\ exc' = "Unexpected" /\ UNCHANGED success
  BY <1>c DEF Raise, UserErrors, AppErrors, Cancellations
<1>b. Following(pc) \in Body
  BY FollowingInBody
<1>1. CASE ResetBuild \/ ClaimBuild \/ SetBuildState \/ PostCheckout
  <2>1. pc' = Following(pc)
    BY <1>1 DEF ResetBuild, ClaimBuild, SetBuildState, PostCheckout, Request, Goto, Fails
  <2> QED BY <1>b, <2>1
<1>2. CASE DirectorStep
  <2>1. pc' = Following(pc) \/ \E e \in Raises(pc) \cup {"AppError", "Unexpected"} : Raise(e)
    BY <1>2 DEF DirectorStep, Goto
  <2>2. Raises(pc) \cup {"AppError"} \subseteq UserErrors \cup AppErrors
    BY DEF Raises, UserErrors, Cancellations, AppErrors
  <2> QED BY <1>a, <1>b, <1>c, <2>1, <2>2
<1>3. CASE InstallHandlers \/ EnterTry \/ CheckProjectDisabled \/ ValidateArtifacts
  <2>1. Following("check") \in Body /\ Following("validate") \in Body
    BY FollowingInBody
  <2> QED
    BY <1>3, <1>a, <1>c, <2>1
    DEF InstallHandlers, EnterTry, CheckProjectDisabled, ValidateArtifacts, Goto, UserErrors,
        AppErrors, Body
<1>4. CASE GetStorage \/ EndSync
  BY <1>4, <1>a, <1>c DEF GetStorage, EndSync, AppErrors, Body, UploadSteps
<1>5. CASE \/ EnterUpload \/ CheckMediaSize \/ BeginSync \/ CopiesDone \/ BeginDelete \/ EndDelete
           \/ DeletesDone \/ UpdateVersion \/ LeaveUpload
  BY <1>5
  DEF EnterUpload, CheckMediaSize, BeginSync, CopiesDone, BeginDelete, EndDelete, DeletesDone,
      UpdateVersion, LeaveUpload, DeleteSkipped, Goto, Body, UploadSteps
<1>6. CASE Succeed
  BY <1>6 DEF Succeed
<1>7. CASE HandleException \/ AttachFailureNotification \/ Reraise \/ Finalize \/ Return
  BY <1>7 DEF HandleException, AttachFailureNotification, Reraise, Finalize, Return, Body, StateSteps,
     DirectorSteps, UploadSteps
<1> QED BY <1>1, <1>2, <1>3, <1>4, <1>5, <1>6, <1>7 DEF Run

LEMMA RunKeepsReason ==
  ASSUME Handling, ReasonInv, Run PROVE ReasonInv'
<1> SUFFICES ASSUME Undisturbed' PROVE ReasonInv'
  BY DEF ReasonInv
<1>0. Undisturbed
  BY UndisturbedBefore DEF Next
<1>1. CASE pc \in {"install", "armed"} \cup Body
  <2>1. Reasons' = {}
    BY <1>0, <1>1, BodyAttachesNothing DEF ReasonInv, Reasons, Handling
  <2>2. CASE pc' \in {"armed", "except"} \cup Body \/ (pc' = "finalize" /\ success')
    BY <2>1, <2>2 DEF ReasonInv, Body, Over, StateSteps, DirectorSteps, UploadSteps
  <2>3. CASE pc' = "finalize" /\ exc' = "Unexpected" /\ UNCHANGED success
    <3>1. pc \in Body
      <4>1. ASSUME pc \in {"install", "armed"} PROVE InstallHandlers \/ EnterTry
        BY <4>1 DEF Run, CheckProjectDisabled, ResetBuild, ClaimBuild,
           SetBuildState, PostCheckout, DirectorStep, ValidateArtifacts, EnterUpload, GetStorage,
           CheckMediaSize, BeginSync, EndSync, CopiesDone, BeginDelete, EndDelete, DeletesDone,
           UpdateVersion, LeaveUpload, Succeed, HandleException, AttachFailureNotification, Reraise,
           Finalize, Return, StateSteps, DirectorSteps
      <4> QED BY <1>1, <2>3, <4>1 DEF InstallHandlers, EnterTry, Goto
    <3>2. ~success' /\ final' = "none"
      BY <1>1, <2>3, <3>1, BodyAttachesNothing DEF Handling
    <3>3. Explained(final = "cancelled")'
      BY <2>1, <2>3, <3>2 DEF Explained
    <3> QED BY <2>1, <2>3, <3>2, <3>3
          DEF ReasonInv, Body, Over, StateSteps, DirectorSteps, UploadSteps
  <2> QED BY <1>1, <2>2, <2>3, BodyStep
<1>2. CASE HandleException
  <2>1. final = "none" /\ pc = "except" /\ pc' = "notify" /\ UNCHANGED <<notes, exc>>
        /\ final' = IF exc \in Cancellations THEN "cancelled" ELSE final
    BY <1>2 DEF HandleException, apiVars, Handling
  <2>2. Reasons' = {}
    BY <1>0, <2>1 DEF ReasonInv, Reasons
  <2> QED BY <2>1, <2>2 DEF ReasonInv, Over
<1>3. CASE AttachFailureNotification
  <2>1. pc = "notify" /\ pc' = "handled" /\ PostNotification(exc) /\ UNCHANGED <<exc, final>>
    BY <1>3, FailsDisturbs DEF AttachFailureNotification, Fails, Goto, localVars
  <2>2. exc \in Exceptions /\ MediaSize \notin Exceptions
    BY <2>1 DEF Handling, TypeInv, HandlingAnException, Handler, MediaSize, Exceptions, UserErrors,
       Cancellations, AppErrors
  <2>3. Reasons' = {exc}
    BY <1>0, <2>1, <2>2 DEF ReasonInv, Reasons, PostNotification
  <2> QED BY <1>0, <2>1, <2>3 DEF ReasonInv, Body, Over, StateSteps, DirectorSteps, UploadSteps
<1>4. CASE Reraise
  <2>1. pc = "handled" /\ pc' = "finalize" /\ UNCHANGED <<build, notes, final, success>>
        /\ exc' # "Unexpected"
    BY <1>4 DEF Reraise, Escape, apiVars, AppErrors
  <2>2. exc \in Exceptions /\ ~success
    BY <2>1 DEF Handling, TypeInv, HandlingAnException, Handler
  <2>3. Explained(final = "cancelled")'
    BY <1>0, <2>1, <2>2 DEF ReasonInv, Reasons, OneReason, Explained
  <2> QED BY <2>1, <2>2, <2>3 DEF ReasonInv, Body, Over, StateSteps, DirectorSteps, UploadSteps
<1>5. CASE Finalize
  <2>1. pc = "finalize" /\ pc' = "return" /\ PatchFinal(FinalState, Outcome)
    BY <1>5, FailsDisturbs DEF Finalize, Fails, Goto
  <2>2. /\ build' = [build EXCEPT !.state = FinalState, !.outcome = Outcome]
        /\ build \in BuildRecord /\ UNCHANGED <<notes, exc>>
        /\ final \in {"none", "cancelled"}
    BY <1>5, <2>1 DEF PatchFinal, Handling, TypeInv, TypeOK, Finalize, Goto, Escape, localVars
  <2>3. /\ build'.outcome = Outcome /\ build'.state \in FinalStates
        /\ build'.state = "cancelled" <=> final = "cancelled"
    BY <2>2 DEF BuildRecord, FinalState, FinalStates
  <2>4. CASE success
    BY <1>0, <2>1, <2>2, <2>3, <2>4
    DEF ReasonInv, Reasons, Outcome, Body, Over, StateSteps, DirectorSteps, UploadSteps
  <2>5. CASE ~success
    <3>1. Explained(build.state = "cancelled")'
      BY <1>0, <2>1, <2>2, <2>3, <2>5 DEF ReasonInv, Explained, OneReason, Reasons
    <3> QED BY <2>1, <2>3, <2>5, <3>1
            DEF ReasonInv, Outcome, Body, Over, StateSteps, DirectorSteps, UploadSteps
  <2> QED BY <2>4, <2>5
<1>6. CASE Return
  <2>1. /\ pc = "return" /\ pc' = (IF exc = "none" THEN "returned" ELSE "raised")
        /\ UNCHANGED <<build, notes, exc>>
    BY <1>6 DEF Return, Goto, localVars, apiVars
  <2>2. Explained(build.state = "cancelled") => Explained(build.state = "cancelled")'
    BY <2>1 DEF Explained, OneReason, Reasons
  <2> QED BY <1>0, <2>1, <2>2 DEF ReasonInv, Reasons, Body, Over, StateSteps, DirectorSteps,
          UploadSteps
<1>7. CASE pc \notin {"install", "armed"} \cup Body
  <2>1. HandleException \/ AttachFailureNotification \/ Reraise \/ Finalize \/ Return
    BY <1>7
    DEF Run, InstallHandlers, EnterTry, CheckProjectDisabled, ResetBuild, ClaimBuild, SetBuildState,
        PostCheckout, DirectorStep, ValidateArtifacts, EnterUpload, GetStorage, CheckMediaSize,
        BeginSync, EndSync, CopiesDone, BeginDelete, EndDelete, DeletesDone, UpdateVersion,
        LeaveUpload, Succeed, Body, UploadSteps
  <2> QED BY <2>1, <1>2, <1>3, <1>4, <1>5, <1>6
<1> QED BY <1>1, <1>7

(* The one signal that does not raise is a cancellation during the upload. *)
LEMMA SignalsDeferred ==
  ASSUME Signal, Undisturbed' PROVE OnCancel /\ inUpload
<1>1. "cancel" \notin struck
  BY UndisturbedBefore DEF Next, Undisturbed
<1>2. CASE OnTimeout \/ OnSoftTimeLimit
  BY <1>2, FailsDisturbs DEF OnTimeout, OnSoftTimeLimit
<1>3. CASE OnCancel /\ ~inUpload
  BY <1>1, <1>3, FailsDisturbs DEF OnCancel
<1> QED BY <1>2, <1>3 DEF Signal

LEMMA SignalKeepsReason ==
  ASSUME ReasonInv, Signal PROVE ReasonInv'
<1> SUFFICES ASSUME Undisturbed' PROVE ReasonInv'
  BY DEF ReasonInv
<1>1. OnCancel /\ inUpload
  BY SignalsDeferred
<1>2. UNCHANGED <<build, notes, pc, exc, final, success>>
  BY <1>1 DEF OnCancel, Goto, localVars, Quiet
<1> QED BY <1>2, UndisturbedBefore DEF Next, ReasonInv, Explained, OneReason, Reasons

LEMMA NextKeepsReason ==
  ASSUME IInv, ReasonInv, [Next]_vars PROVE ReasonInv'
<1>1. CASE UNCHANGED vars
  BY <1>1 DEF vars, apiVars, localVars, ReasonInv, Undisturbed, Explained, OneReason, Reasons
<1>2. Handling
  BY DEF Handling, IInv, LifecycleInv, Undecided, Body, Over, StateSteps, DirectorSteps, UploadSteps
<1> QED BY <1>1, <1>2, RunKeepsReason, SignalKeepsReason DEF Next

-----------------------------------------------------------------------------
(* Whatever fails and whichever signals arrive *)

NotesInv ==
  /\ pc \in {"install", "armed", "except", "notify"} \cup Body => Reasons = {}
  /\ \A a, b \in Reasons : a = b
  /\ success => Reasons = {}
  /\ final = "cancelled" => Reasons \subseteq Cancellations
  /\ final = "cancelled" /\ pc = "notify" => exc \in Cancellations
  /\ build.outcome = "success" => success
  /\ build.state = "cancelled" => final = "cancelled"
  /\ pc \in {"return", "returned"} => build.state \in FinalStates

LEMMA RunKeepsNotes ==
  ASSUME IInv, NotesInv, Run PROVE NotesInv'
<1>0. /\ build \in BuildRecord /\ TypeInv
      /\ pc \in {"install", "armed", "except"} \cup Body => final = "none"
      /\ pc \notin {"finalize", "return"} \cup Over => ~success
  BY DEF IInv, TypeInv, TypeOK, LifecycleInv, Undecided
<1>1. CASE pc \in {"install", "armed"} \cup Body
  <2>1. /\ Reasons' = {} /\ final' = "none"
        /\ pc' \in {"armed", "except", "finalize"} \cup Body
        /\ build'.state # "cancelled" /\ build'.outcome # "success"
    BY <1>0, <1>1, BodyAttachesNothing DEF NotesInv, Reasons, Body, Over, StateSteps, DirectorSteps,
       UploadSteps
  <2> QED BY <2>1 DEF NotesInv, Body, StateSteps, DirectorSteps, UploadSteps
<1>2. CASE HandleException
  BY <1>0, <1>2 DEF HandleException, NotesInv, Reasons, apiVars
<1>3. CASE AttachFailureNotification
  <2>1. /\ pc = "notify" /\ pc' = "handled" /\ UNCHANGED <<build, exc, final, success>>
        /\ notes' = notes \/ notes' = notes \cup {exc}
    BY <1>3 DEF AttachFailureNotification, Goto, Fails, PostNotification, localVars
  <2>2. Reasons' \subseteq {exc} /\ ~success
    BY <1>0, <2>1 DEF NotesInv, Reasons, Over
  <2> QED BY <2>1, <2>2 DEF NotesInv, Body, StateSteps, DirectorSteps, UploadSteps
<1>4. CASE Reraise
  BY <1>4 DEF Reraise, Escape, NotesInv, Reasons, apiVars, Body, StateSteps, DirectorSteps, UploadSteps
<1>5. CASE Finalize
  <2>1. /\ pc = "finalize" /\ UNCHANGED <<notes, final, success>>
        /\ \/ pc' = "return" /\ PatchFinal(FinalState, Outcome)
           \/ pc' = "raised" /\ (PatchFinal(FinalState, Outcome) \/ UNCHANGED build)
    BY <1>5 DEF Finalize, Goto, Escape, Fails, PatchFinal, localVars
  <2>2. PatchFinal(FinalState, Outcome) =>
          /\ build'.state \in FinalStates
          /\ build'.state = "cancelled" => final = "cancelled"
          /\ build'.outcome = "success" => success
    BY <1>0 DEF PatchFinal, BuildRecord, FinalState, FinalStates, Outcome
  <2> QED BY <2>1, <2>2 DEF NotesInv, Reasons, Body, StateSteps, DirectorSteps, UploadSteps
<1>6. CASE Return
  BY <1>6 DEF Return, Goto, localVars, apiVars, NotesInv, Reasons, Body, StateSteps, DirectorSteps,
     UploadSteps
<1>7. CASE pc \notin {"install", "armed"} \cup Body
  <2>1. HandleException \/ AttachFailureNotification \/ Reraise \/ Finalize \/ Return
    BY <1>7
    DEF Run, InstallHandlers, EnterTry, CheckProjectDisabled, ResetBuild, ClaimBuild, SetBuildState,
        PostCheckout, DirectorStep, ValidateArtifacts, EnterUpload, GetStorage, CheckMediaSize,
        BeginSync, EndSync, CopiesDone, BeginDelete, EndDelete, DeletesDone, UpdateVersion,
        LeaveUpload, Succeed, Body, UploadSteps
  <2> QED BY <2>1, <1>2, <1>3, <1>4, <1>5, <1>6
<1> QED BY <1>1, <1>7

(* A signal writes nothing, and never sends run() back into its handler.   *)
LEMMA SignalKeepsNotes ==
  ASSUME IInv, NotesInv, Signal PROVE NotesInv'
<1>1. UNCHANGED <<build, notes>>
  BY DEF Signal, OnCancel, OnTimeout, OnSoftTimeLimit, Interrupt, Quiet
<1>2. /\ UNCHANGED <<final, success>>
      /\ pc' \in {"install", "armed", "except"} \cup Body =>
           pc \in {"install", "armed", "except"} \cup Body
      /\ pc' \notin {"notify", "return", "returned"} \/ UNCHANGED <<pc, exc>>
  <2>1. ASSUME NEW e, Interrupt(e)
        PROVE  /\ UNCHANGED <<final, success>>
               /\ pc \in Body \/ pc' \notin {"install", "armed", "except", "notify", "return",
                                             "returned"} \cup Body
               /\ pc' \notin {"notify", "return", "returned"}
    <3>1. CASE pc \in Body /\ \E x \in Becomes(e) : IF x = "none" THEN Swallowed ELSE Raise(x)
      <4>1. Following(pc) \in Body
        BY FollowingInBody
      <4>2. Swallowed => UNCHANGED <<final, success>> /\ pc' \in Body
        BY <3>1, <4>1 DEF Swallowed, Goto, localVars, DeleteSkipped, Body, UploadSteps
      <4>3. ASSUME NEW x, Raise(x) PROVE UNCHANGED <<final, success>> /\ pc' \in {"except", "finalize"}
        BY <4>3 DEF Raise
      <4> QED BY <3>1, <4>2, <4>3 DEF Body, StateSteps, DirectorSteps, UploadSteps
    <3>2. CASE ~(pc \in Body /\ \E x \in Becomes(e) : IF x = "none" THEN Swallowed ELSE Raise(x))
      BY <2>1, <3>2 DEF Interrupt, Goto, Escape, localVars, Body, StateSteps, DirectorSteps,
         UploadSteps
    <3> QED BY <3>1, <3>2
  <2>2. CASE OnCancel
    BY <2>1, <2>2 DEF OnCancel, Goto, localVars
  <2>3. CASE OnTimeout
    BY <2>1, <2>3 DEF OnTimeout
  <2>4. CASE OnSoftTimeLimit
    BY <2>1, <2>4 DEF OnSoftTimeLimit, Escape, Body, StateSteps, DirectorSteps, UploadSteps
  <2> QED BY <2>2, <2>3, <2>4 DEF Signal
<1> QED BY <1>1, <1>2 DEF NotesInv, Reasons

LEMMA NextKeepsNotes ==
  ASSUME IInv, NotesInv, [Next]_vars PROVE NotesInv'
<1>1. CASE UNCHANGED vars
  BY <1>1 DEF vars, apiVars, localVars, NotesInv, Reasons
<1> QED BY <1>1, RunKeepsNotes, SignalKeepsNotes DEF Next

(* Whatever interrupts it, run() attaches at most one reason, none to a    *)
(* success, and is never silently stuck; while the API answers and no      *)
(* signal raises, a failure has no reason exactly if an exception outside  *)
(* the families of builder.exceptions caused it, which then leaves run().  *)
THEOREM FailuresAreExplained == Spec => []FailureIsExplained
<1>1. Init => ReasonInv /\ NotesInv
  BY DEF Init, RunnerInit, NewBuild, ReasonInv, NotesInv, Reasons, Over
<1>2. ReasonInv /\ NotesInv => FailureIsExplained
  <2> SUFFICES ASSUME ReasonInv, NotesInv, pc \in Over
               PROVE  /\ \A a, b \in Reasons : a = b
                      /\ build.outcome = "success" => Reasons = {}
                      /\ build.state = "cancelled" => Reasons \subseteq Cancellations
                      /\ build.state \notin FinalStates => pc = "raised"
                      /\ Undisturbed =>
                           /\ build.state \in FinalStates
                           /\ Reasons \cap Cancellations # {} => build.state = "cancelled"
                           /\ build.outcome = "failure" =>
                                (Reasons = {} <=> pc = "raised" /\ exc = "Unexpected")
    BY DEF FailureIsExplained, Undisturbed
  <2>1. /\ \A a, b \in Reasons : a = b
        /\ build.outcome = "success" => Reasons = {}
        /\ build.state = "cancelled" => Reasons \subseteq Cancellations
        /\ build.state \notin FinalStates => pc = "raised"
    BY DEF NotesInv, Over
  <2>2. ASSUME Undisturbed
        PROVE  /\ build.state \in FinalStates
               /\ Reasons \cap Cancellations # {} => build.state = "cancelled"
               /\ build.outcome = "failure" =>
                    (Reasons = {} <=> pc = "raised" /\ exc = "Unexpected")
    <3>1. /\ build.state \in FinalStates
          /\ \/ build.outcome = "success" /\ Reasons = {}
             \/ build.outcome = "failure" /\ Explained(build.state = "cancelled")
          /\ exc = "Unexpected" => pc = "raised"
      BY <2>2 DEF ReasonInv, Over
    <3>2. CASE build.outcome = "success" /\ Reasons = {}
      BY <3>1, <3>2
    <3>3. CASE build.outcome = "failure" /\ exc = "Unexpected"
      BY <3>1, <3>3 DEF Explained
    <3>4. CASE build.outcome = "failure" /\ exc # "Unexpected"
      BY <3>1, <3>4 DEF Explained, OneReason
    <3> QED BY <3>1, <3>2, <3>3, <3>4
  <2> QED BY <2>1, <2>2
<1> QED BY <1>1, <1>2, Inductive, NextKeepsReason, NextKeepsNotes, PTL DEF Spec
=============================================================================
