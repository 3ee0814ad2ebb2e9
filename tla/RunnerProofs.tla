---------------------------- MODULE RunnerProofs ----------------------------
(***************************************************************************)
(* Proofs about module Runner, for every sequence of artifact types and    *)
(* every environment.                                                      *)
(***************************************************************************)
EXTENDS Runner, TLAPS

(* An exception is being handled: it has a message id to report.           *)
HandlingAnException == pc \in Handler => exc \in Exceptions

(* The type invariant alone is not inductive: what the handler reports is  *)
(* the exception in flight, which must be one.                             *)
TypeInv == TypeOK /\ HandlingAnException

-----------------------------------------------------------------------------
(* Facts about the helpers *)

(* What follows a statement of run() is a statement of its body.           *)
LEMMA FollowingIsAStep ==
  ASSUME NEW s PROVE Following(s) \in Body
BY SMTT(30) DEF Following, Opening, Body, StateSteps, DirectorSteps, UploadSteps

(* A director step raises exceptions.                                      *)
LEMMA RaisesExceptions ==
  ASSUME NEW s PROVE Raises(s) \subseteq Exceptions
BY DEF Raises, Exceptions, UserErrors, Cancellations

(* What an asynchronous exception turns into is an exception, or nothing.  *)
LEMMA BecomesAnException ==
  ASSUME NEW e \in Exceptions PROVE Becomes(e) \subseteq Exceptions \cup {"none"}
BY DEF Becomes, StepBecomes, DirectorSteps, Exceptions, UserErrors, Cancellations, AppErrors

LEMMA BodyIsSteps == Body \subseteq Steps /\ Handler \subseteq Steps /\ Over \subseteq Steps
BY DEF Steps

LEMMA AdvertisedAreTypes ==
  ASSUME NEW S \in SUBSET Types PROVE Advertised(S) \in SUBSET Types
BY DEF Advertised

-----------------------------------------------------------------------------
(* Type correctness *)

(* The control variables keep their types whichever way a statement ends.  *)
ControlOK ==
  /\ pc \in Steps
  /\ exc \in Exceptions \cup {"none"}
  /\ inUpload \in BOOLEAN
  /\ success \in BOOLEAN
  /\ final \in {"none", "cancelled"}
  /\ valid \subseteq Types
  /\ todo \subseteq Types
  /\ HandlingAnException

LEMMA GotoTyped ==
  ASSUME ControlOK, NEW s \in Steps, s \in Handler => pc \in Handler, Goto(s)
  PROVE  ControlOK'
BY DEF ControlOK, Goto, localVars, HandlingAnException

LEMMA RaiseTyped ==
  ASSUME ControlOK, NEW e \in Exceptions, Raise(e)
  PROVE  ControlOK'
BY DEF ControlOK, Raise, HandlingAnException, Steps, Handler

LEMMA EscapeTyped ==
  ASSUME ControlOK, NEW e \in Exceptions \cup {"none"}, NEW to \in Steps \ Handler,
         Escape(e, to)
  PROVE  ControlOK'
BY DEF ControlOK, Escape, HandlingAnException

RecordsOK == build \in BuildRecord /\ notes \subseteq Messages

(* What each request leaves is a Build record and its notifications.       *)
LEMMA PostResetTyped == ASSUME RecordsOK, PostReset PROVE RecordsOK'
BY DEF RecordsOK, PostReset, NewBuild, BuildRecord, InFlight, Outcomes

LEMMA PatchBuilderTyped == ASSUME RecordsOK, PatchBuilder PROVE RecordsOK'
BY DEF RecordsOK, PatchBuilder, BuildRecord

LEMMA PatchStateTyped ==
  ASSUME RecordsOK, NEW s \in StateSteps, PatchState(s) PROVE RecordsOK'
BY DEF RecordsOK, PatchState, BuildRecord, InFlight, StateSteps

LEMMA PatchFinalTyped ==
  ASSUME RecordsOK, PatchFinal(FinalState, Outcome) PROVE RecordsOK'
<1>1. FinalState \in FinalStates /\ Outcome \in Outcomes
  BY DEF FinalState, FinalStates, Outcome, Outcomes
<1> QED BY <1>1 DEF RecordsOK, PatchFinal, BuildRecord

LEMMA PostNotificationTyped ==
  ASSUME RecordsOK, NEW m \in Messages, PostNotification(m) PROVE RecordsOK'
BY DEF RecordsOK, PostNotification

LEMMA QuietTyped == ASSUME RecordsOK, Quiet PROVE RecordsOK'
BY DEF RecordsOK, Quiet

(* A statement of run() keeps every variable typed.                        *)
LEMMA RunTyped ==
  ASSUME TypeInv, Run PROVE TypeInv'
<1> DEFINE Rest == /\ struck \subseteq Disturbances
                   /\ job \in Jobs
                   /\ storage \in [Types -> Places]
                   /\ version \subseteq Types
<1>0. ControlOK /\ RecordsOK /\ Rest
  BY DEF TypeInv, TypeOK, ControlOK, RecordsOK
<1>a. (ControlOK /\ RecordsOK /\ Rest)' => TypeInv'
  BY DEF TypeInv, TypeOK, ControlOK, RecordsOK
<1>b. Following(pc) \in Steps \ Handler
  BY FollowingIsAStep, BodyIsSteps DEF Body, Handler, StateSteps, DirectorSteps, UploadSteps
<1>1. CASE InstallHandlers
  BY <1>0, <1>1, <1>a DEF InstallHandlers, Goto, localVars, apiVars, Local, ControlOK, RecordsOK,
     HandlingAnException, Steps, Handler
<1>2. CASE EnterTry
  BY <1>0, <1>2, <1>a DEF EnterTry, Goto, localVars, apiVars, Local, ControlOK, RecordsOK,
     HandlingAnException, Steps, Handler, Body
<1>3. CASE CheckProjectDisabled
  <2>1. ControlOK'
    BY <1>0, <1>3, <1>b, GotoTyped, RaiseTyped DEF CheckProjectDisabled, Exceptions, AppErrors
  <2> QED BY <2>1, <1>0, <1>3, <1>a DEF CheckProjectDisabled, apiVars, Local, RecordsOK
<1>4. CASE ResetBuild
  <2>1. ControlOK' /\ struck' \subseteq Disturbances
    BY <1>0, <1>4, <1>b, GotoTyped, RaiseTyped DEF ResetBuild, Request, Fails, Strike, Exceptions
  <2>2. RecordsOK'
    BY <1>0, <1>4, PostResetTyped, QuietTyped DEF ResetBuild, Request, Fails, Quiet
  <2> QED BY <2>1, <2>2, <1>0, <1>4, <1>a DEF ResetBuild, Local
<1>5. CASE ClaimBuild
  <2>1. ControlOK' /\ struck' \subseteq Disturbances
    BY <1>0, <1>5, <1>b, GotoTyped, RaiseTyped
    DEF ClaimBuild, Opening, Following, apiVars, Request, Fails, Strike, Exceptions
  <2>2. RecordsOK'
    BY <1>0, <1>5, PatchBuilderTyped, QuietTyped DEF ClaimBuild, Request, Fails, Quiet, apiVars
  <2> QED BY <2>1, <2>2, <1>0, <1>5, <1>a DEF ClaimBuild, Local
<1>6. CASE SetBuildState
  <2>1. ControlOK' /\ struck' \subseteq Disturbances
    BY <1>0, <1>6, <1>b, GotoTyped, RaiseTyped DEF SetBuildState, Request, Fails, Strike, Exceptions
  <2>2. RecordsOK'
    BY <1>0, <1>6, PatchStateTyped, QuietTyped DEF SetBuildState, Request, Fails, Quiet
  <2> QED BY <2>1, <2>2, <1>0, <1>6, <1>a DEF SetBuildState, Local
<1>7. CASE PostCheckout
  <2>1. ControlOK' /\ struck' \subseteq Disturbances
    BY <1>0, <1>7, <1>b, GotoTyped, RaiseTyped DEF PostCheckout, Request, Fails, Strike, Exceptions
  <2>2. RecordsOK'
    BY <1>0, <1>7, QuietTyped DEF PostCheckout, Request, Fails, Quiet
  <2> QED BY <2>1, <2>2, <1>0, <1>7, <1>a DEF PostCheckout, Local
<1>8. CASE DirectorStep
  <2>1. ControlOK' /\ struck' \subseteq Disturbances
    <3>1. CASE Goto(Following(pc)) /\ UNCHANGED struck
      BY <3>1, <1>0, <1>b, GotoTyped
    <3>2. ASSUME NEW e \in Raises(pc), Raise(e) PROVE ControlOK'
      BY <3>2, <1>0, RaisesExceptions, RaiseTyped
    <3>3. ASSUME NEW e \in {"Unexpected", "AppError"}, Raise(e) PROVE ControlOK'
      BY <3>3, <1>0, RaiseTyped DEF Exceptions, AppErrors
    <3> QED BY <1>0, <1>8, <3>1, <3>2, <3>3 DEF DirectorStep, Strike
  <2> QED BY <2>1, <1>0, <1>8, <1>a, QuietTyped DEF DirectorStep, Local
<1>9. CASE ValidateArtifacts
  <2>1. ControlOK' /\ struck' \subseteq Disturbances
    <3>1. CASE Raise("UserError") /\ UNCHANGED struck
      BY <3>1, <1>0, RaiseTyped DEF Exceptions, UserErrors
    <3>2. CASE Strike("unexpected") /\ Raise("Unexpected")
      BY <3>2, <1>0, RaiseTyped DEF Exceptions, Strike
    <3>3. CASE /\ valid' \subseteq Types
               /\ pc' = Following("validate")
               /\ UNCHANGED <<exc, inUpload, success, final, todo, struck>>
      BY <3>3, <1>0, FollowingIsAStep DEF ControlOK, HandlingAnException, Steps, Handler, Body,
         StateSteps, DirectorSteps, UploadSteps
    <3> QED BY <1>9, <3>1, <3>2, <3>3 DEF ValidateArtifacts
  <2> QED BY <2>1, <1>0, <1>9, <1>a, QuietTyped DEF ValidateArtifacts, Local
<1>10. CASE EnterUpload
  BY <1>0, <1>10, <1>a DEF EnterUpload, apiVars, Local, ControlOK, RecordsOK, HandlingAnException,
     Steps, Handler, Body, UploadSteps
<1>11. CASE GetStorage
  <2>1. ControlOK' /\ struck' \subseteq Disturbances
    BY <1>0, <1>11, RaiseTyped DEF GetStorage, ControlOK, HandlingAnException, Steps, Handler, Body,
       UploadSteps, Strike, Exceptions, AppErrors
  <2> QED BY <2>1, <1>0, <1>11, <1>a, QuietTyped DEF GetStorage, Local
<1>12. CASE CheckMediaSize
  <2>1. ControlOK'
    BY <1>0, <1>12, GotoTyped DEF CheckMediaSize, Steps, Handler, Body, UploadSteps
  <2>2. RecordsOK' /\ struck' \subseteq Disturbances
    BY <1>0, <1>12, QuietTyped, PostNotificationTyped
    DEF CheckMediaSize, Fails, Strike, Quiet, Messages
  <2> QED BY <2>1, <2>2, <1>0, <1>12, <1>a DEF CheckMediaSize, Local
<1>13. CASE BeginSync
  <2>1. ControlOK'
    BY <1>0, <1>13, GotoTyped DEF BeginSync, Steps, Handler, Body, UploadSteps
  <2> QED BY <2>1, <1>0, <1>13, <1>a DEF BeginSync, apiVars, RecordsOK, Places, ControlOK
<1>14. CASE EndSync
  <2>1. ControlOK' /\ struck' \subseteq Disturbances
    BY <1>0, <1>14, RaiseTyped DEF EndSync, ControlOK, HandlingAnException, Steps, Handler, Body,
       UploadSteps, Strike, Exceptions, AppErrors
  <2> QED BY <2>1, <1>0, <1>14, <1>a, QuietTyped DEF EndSync, Places, ControlOK
<1>15. CASE CopiesDone
  BY <1>0, <1>15, <1>a DEF CopiesDone, TypesToDelete, apiVars, Local, ControlOK, RecordsOK,
     HandlingAnException, Steps, Handler, Body, UploadSteps
<1>16. CASE BeginDelete
  <2>1. ControlOK'
    BY <1>0, <1>16, GotoTyped DEF BeginDelete, Steps, Handler, Body, UploadSteps
  <2> QED BY <2>1, <1>0, <1>16, <1>a DEF BeginDelete, apiVars, RecordsOK, Places, ControlOK
<1>17. CASE EndDelete
  <2>1. ControlOK' /\ struck' \subseteq Disturbances
    BY <1>0, <1>17 DEF EndDelete, DeleteSkipped, ControlOK, HandlingAnException, Steps, Handler, Body,
       UploadSteps, Strike
  <2> QED BY <2>1, <1>0, <1>17, <1>a, QuietTyped DEF EndDelete, Places, ControlOK
<1>18. CASE DeletesDone
  BY <1>0, <1>18, <1>a DEF DeletesDone, Goto, localVars, apiVars, Local, ControlOK, RecordsOK,
     HandlingAnException, Steps, Handler, Body, UploadSteps
<1>19. CASE UpdateVersion
  <2>1. ControlOK' /\ struck' \subseteq Disturbances
    <3>1. "leave" \in Steps \ Handler
      BY DEF Steps, Handler, Body, UploadSteps
    <3> QED BY <3>1, <1>0, <1>19, GotoTyped, RaiseTyped DEF UpdateVersion, Strike, Exceptions
  <2>2. version' \subseteq Types
    BY <1>0, <1>19, AdvertisedAreTypes DEF UpdateVersion, ControlOK
  <2> QED BY <2>1, <2>2, <1>0, <1>19, <1>a, QuietTyped DEF UpdateVersion
<1>20. CASE LeaveUpload
  BY <1>0, <1>20, <1>a DEF LeaveUpload, apiVars, Local, ControlOK, RecordsOK, HandlingAnException,
     Steps, Handler, Body
<1>21. CASE Succeed
  BY <1>0, <1>21, <1>a DEF Succeed, apiVars, Local, ControlOK, RecordsOK, HandlingAnException,
     Steps, Handler
<1>22. CASE HandleException
  BY <1>0, <1>22, <1>a DEF HandleException, apiVars, Local, ControlOK, RecordsOK,
     HandlingAnException, Steps, Handler
<1>23. CASE AttachFailureNotification
  <2>1. ControlOK' /\ exc \in Messages
    BY <1>0, <1>23, GotoTyped DEF AttachFailureNotification, ControlOK, HandlingAnException,
       Messages, Steps, Handler
  <2>2. RecordsOK' /\ struck' \subseteq Disturbances
    BY <2>1, <1>0, <1>23, PostNotificationTyped, QuietTyped
    DEF AttachFailureNotification, Fails, Strike, Quiet
  <2> QED BY <2>1, <2>2, <1>0, <1>23, <1>a DEF AttachFailureNotification, Local
<1>24. CASE Reraise
  <2>1. ControlOK'
    BY <1>0, <1>24, EscapeTyped DEF Reraise, Exceptions, Steps, Handler
  <2> QED BY <2>1, <1>0, <1>24, <1>a DEF Reraise, apiVars, Local, RecordsOK
<1>25. CASE Finalize
  <2>1. ControlOK' /\ struck' \subseteq Disturbances
    <3>1. "return" \in Steps \ Handler /\ "raised" \in Steps \ Handler
      BY DEF Steps, Handler, Over
    <3> QED BY <3>1, <1>0, <1>25, GotoTyped, EscapeTyped DEF Finalize, Fails, Strike, Exceptions
  <2>2. RecordsOK'
    BY <1>0, <1>25, PatchFinalTyped, QuietTyped DEF Finalize, Fails, Quiet
  <2> QED BY <2>1, <2>2, <1>0, <1>25, <1>a DEF Finalize, Local
<1>26. CASE Return
  BY <1>0, <1>26, <1>a DEF Return, Goto, localVars, apiVars, Local, ControlOK, RecordsOK,
     HandlingAnException, Steps, Handler, Over
<1> QED
  BY <1>1, <1>2, <1>3, <1>4, <1>5, <1>6, <1>7, <1>8, <1>9, <1>10, <1>11, <1>12, <1>13, <1>14,
     <1>15, <1>16, <1>17, <1>18, <1>19, <1>20, <1>21, <1>22, <1>23, <1>24, <1>25, <1>26 DEF Run

(* An interrupted statement keeps every variable typed.                    *)
LEMMA InterruptTyped ==
  ASSUME TypeInv, NEW e \in Exceptions, Interrupt(e)
  PROVE  ControlOK' /\ RecordsOK' /\ UNCHANGED <<job, storage, version>>
<1>0. ControlOK /\ RecordsOK
  BY DEF TypeInv, TypeOK, ControlOK, RecordsOK
<1>1. RecordsOK' /\ UNCHANGED <<job, storage, version>>
  BY <1>0, QuietTyped DEF Interrupt, Local
<1>2. ControlOK'
  <2>1. ASSUME NEW x \in Exceptions, Raise(x) PROVE ControlOK'
    BY <2>1, <1>0, RaiseTyped
  <2>2. CASE Swallowed
    <3>1. "rclone" \in Steps \ Handler /\ "delete" \in Steps \ Handler
      BY DEF Steps, Handler, Body, UploadSteps
    <3>2. Following(pc) \in Steps \ Handler
      BY FollowingIsAStep, BodyIsSteps
      DEF Body, Handler, StateSteps, DirectorSteps, UploadSteps
    <3>3. DeleteSkipped => ControlOK'
      BY <1>0, <3>1 DEF DeleteSkipped, ControlOK, HandlingAnException
    <3> QED BY <2>2, <3>1, <3>2, <3>3, <1>0, GotoTyped DEF Swallowed
  <2>3. CASE \E x \in Becomes(e) : IF x = "none" THEN Swallowed ELSE Raise(x)
    BY <2>1, <2>2, <2>3, BecomesAnException
  <2>4. CASE pc \in Handler /\ Escape(e, "finalize")
    BY <2>4, <1>0, EscapeTyped DEF Steps, Handler
  <2>5. CASE pc = "notify" /\ Goto("handled")
    BY <2>5, <1>0, GotoTyped DEF Steps, Handler
  <2>6. CASE pc \in {"armed", "finalize", "return"} /\ Escape(e, "raised")
    BY <2>6, <1>0, EscapeTyped DEF Steps, Handler, Over
  <2> QED BY <2>3, <2>4, <2>5, <2>6 DEF Interrupt
<1> QED BY <1>1, <1>2

LEMMA SignalTyped ==
  ASSUME TypeInv, Signal PROVE TypeInv'
<1>0. ControlOK /\ RecordsOK /\ struck \subseteq Disturbances
  BY DEF TypeInv, TypeOK, ControlOK, RecordsOK
<1>1. ControlOK' /\ RecordsOK' /\ UNCHANGED <<job, storage, version>>
  <2>1. CASE OnCancel
    <3>1. CASE inUpload
      BY <2>1, <3>1, <1>0, QuietTyped DEF OnCancel, Goto, localVars, Local, ControlOK,
         HandlingAnException
    <3>2. CASE ~inUpload
      BY <2>1, <3>2, InterruptTyped DEF OnCancel, Exceptions, UserErrors, Cancellations
    <3> QED BY <3>1, <3>2
  <2>2. CASE OnTimeout
    BY <2>2, InterruptTyped DEF OnTimeout, Exceptions, UserErrors
  <2>3. CASE OnSoftTimeLimit
    BY <2>3, <1>0, InterruptTyped, EscapeTyped, QuietTyped
    DEF OnSoftTimeLimit, Exceptions, Local, Steps, Handler, Over
  <2> QED BY <2>1, <2>2, <2>3 DEF Signal
<1>2. struck' \subseteq Disturbances
  BY <1>0 DEF Signal, OnCancel, OnTimeout, OnSoftTimeLimit, Strike
<1> QED BY <1>1, <1>2, <1>0 DEF TypeInv, TypeOK, ControlOK, RecordsOK

LEMMA InitTyped == Init => TypeInv
<1> SUFFICES ASSUME Init PROVE TypeInv
  OBVIOUS
<1>1. storage \in [Types -> Places] /\ {t \in Types : storage[t] = "old"} \subseteq Types
  BY DEF Init, RunnerInit, Places
<1>2. version \subseteq Types
  BY <1>1, AdvertisedAreTypes DEF Init, RunnerInit
<1> QED
  BY <1>1, <1>2 DEF Init, RunnerInit, TypeInv, TypeOK, HandlingAnException, NewBuild,
     BuildRecord, InFlight, Outcomes, Steps, Handler

LEMMA NextTyped == ASSUME TypeInv, [Next]_vars PROVE TypeInv'
<1>1. CASE UNCHANGED vars
  BY <1>1 DEF vars, apiVars, localVars, TypeInv, TypeOK, HandlingAnException
<1> QED BY <1>1, RunTyped, SignalTyped DEF Next

(* Every variable keeps its type, whatever the environment does.           *)
THEOREM TypeCorrect == Spec => []TypeOK
<1>1. TypeInv => TypeOK
  BY DEF TypeInv
<1> QED BY InitTyped, NextTyped, <1>1, PTL DEF Spec

-----------------------------------------------------------------------------
(* The Build record follows run() *)

(* The states the record can show while run() is at each statement.        *)
StatesAt(s) ==
  CASE s \in {"install", "armed", "check", "reset", "claim", "cloning"} -> {"triggered"}
    [] s \in {"create_vcs_environment", "setup_vcs", "post_checkout", "installing"} ->
         {"cloning"}
    [] s \in {"create_build_environment", "download_artifacts", "install_build_tools",
              "setup_environment", "building"} -> {"cloning", "installing"}
    [] s \in {"build", "run_build_commands", "extract_artifacts", "check_old_output",
              "uploading"} -> {"building"}
    [] s \in {"validate", "enter_upload", "succeed"} \cup UploadSteps -> {"uploading"}
    [] s \in Handler \cup {"finalize"} -> InFlight
    [] OTHER -> InFlight \cup FinalStates

OnTrack == build.state \in StatesAt(pc)

(* The outcome is only announced by the final PATCH; run() succeeds last.  *)
Undecided ==
  /\ pc \notin {"return"} \cup Over => build.outcome = "pending"
  /\ pc \in {"install", "armed", "except"} \cup Body => final = "none"
  /\ pc \notin {"finalize", "return"} \cup Over => ~success
  /\ pc = "finalize" /\ success => build.state = "uploading" /\ final = "none"

LifecycleInv == OnTrack /\ Undecided

-----------------------------------------------------------------------------
(* The upload *)

Calm == struck \cap {"storage", "alarm", "soft"} = {}

(* _in_upload is set exactly while the upload is under way.                *)
UploadGuarded == inUpload <=> pc \in UploadSteps

HtmlValid == pc \in UploadSteps \cup {"enter_upload", "succeed"} => "html" \in valid

(* What the loops of _upload_artifacts have done so far.                   *)
Uploaded ==
  /\ pc \in {"copy", "rclone", "syncing"} =>
       todo \subseteq valid /\ \A t \in valid \ todo : storage[t] = "new"
  /\ pc \in {"delete", "deleting", "version", "leave", "succeed"} =>
       \A t \in valid : storage[t] = "new"
  /\ pc \in {"delete", "deleting"} => todo \subseteq TypesToDelete
  /\ pc \in {"delete", "deleting"} /\ Calm =>
       \A t \in TypesToDelete \ todo : storage[t] = "absent"
  /\ pc \in {"version", "leave", "succeed"} /\ Calm =>
       \A t \in TypesToDelete : storage[t] = "absent"
  /\ pc \in {"leave", "succeed"} /\ "rejected" \notin struck =>
       version = Advertised(valid)

(* What a success means.                                                   *)
Published ==
  /\ "html" \in valid
  /\ \A t \in valid : storage[t] = "new"
  /\ Calm => \A t \in TypesToDelete : storage[t] = "absent"
  /\ "rejected" \notin struck => version = Advertised(valid)

Announced ==
  /\ build.outcome = "success" => success
  /\ success => Published

(* A half written type is the one being written, unless the storage failed *)
(* or a time limit struck.                                                 *)
HalfWritten ==
  \A t \in Types :
    storage[t] = "partial" => (pc \in {"syncing", "deleting"} /\ IsNext(t)) \/ ~Calm

PublishInv == UploadGuarded /\ HtmlValid /\ Uploaded /\ Announced /\ HalfWritten

(* The inductive invariant *)
IInv == TypeInv /\ LifecycleInv /\ PublishInv

-----------------------------------------------------------------------------
(* The Build record goes through its lifecycle *)

(* StatesAt and Following, value by value.                                 *)
LEMMA StatesTable ==
  /\ \A s \in {"install", "armed", "check", "reset", "claim", "cloning"} :
       StatesAt(s) = {"triggered"}
  /\ \A s \in {"create_vcs_environment", "setup_vcs", "post_checkout", "installing"} :
       StatesAt(s) = {"cloning"}
  /\ \A s \in {"create_build_environment", "download_artifacts", "install_build_tools",
                "setup_environment", "building"} : StatesAt(s) = {"cloning", "installing"}
  /\ \A s \in {"build", "run_build_commands", "extract_artifacts", "check_old_output",
                "uploading"} : StatesAt(s) = {"building"}
  /\ \A s \in {"validate", "enter_upload", "succeed"} \cup UploadSteps :
       StatesAt(s) = {"uploading"}
  /\ \A s \in Handler \cup {"finalize"} : StatesAt(s) = InFlight
<1> USE DEF StatesAt, UploadSteps, Handler
<1>1. \A s \in {"install", "armed", "check", "reset", "claim", "cloning"} :
        StatesAt(s) = {"triggered"}
  OBVIOUS
<1>2. \A s \in {"create_vcs_environment", "setup_vcs", "post_checkout", "installing"} :
        StatesAt(s) = {"cloning"}
  OBVIOUS
<1>3. \A s \in {"create_build_environment", "download_artifacts", "install_build_tools",
                 "setup_environment", "building"} : StatesAt(s) = {"cloning", "installing"}
  OBVIOUS
<1>4. \A s \in {"build", "run_build_commands", "extract_artifacts", "check_old_output",
                 "uploading"} : StatesAt(s) = {"building"}
  OBVIOUS
<1>5. \A s \in {"validate", "enter_upload", "succeed"} \cup UploadSteps :
        StatesAt(s) = {"uploading"}
  OBVIOUS
<1>6. \A s \in Handler \cup {"finalize"} : StatesAt(s) = InFlight
  OBVIOUS
<1> QED BY <1>1, <1>2, <1>3, <1>4, <1>5, <1>6

LEMMA FollowingTable ==
  /\ Following("check") = "reset"
  /\ Following("reset") = "claim"
  /\ Following("claim") = "cloning"
  /\ Following("cloning") \in {"create_build_environment", "create_vcs_environment"}
  /\ Following("create_vcs_environment") = "setup_vcs"
  /\ Following("setup_vcs") = "post_checkout"
  /\ Following("post_checkout") = "installing"
  /\ Following("installing") = "create_build_environment"
  /\ Following("create_build_environment") \in
       {"download_artifacts", "install_build_tools", "setup_environment"}
  /\ \A s \in {"download_artifacts", "install_build_tools", "setup_environment"} :
       Following(s) = "building"
  /\ Following("building") \in {"extract_artifacts", "run_build_commands", "build"}
  /\ \A s \in {"extract_artifacts", "run_build_commands", "build"} :
       Following(s) = "check_old_output"
  /\ Following("check_old_output") = "uploading"
  /\ Following("uploading") = "validate"
  /\ Following("validate") = "enter_upload"
BY SMTT(30) DEF Following, Opening

LEMMA StatesDuringRun ==
  ASSUME NEW s \in Steps \ ({"return"} \cup Over) PROVE StatesAt(s) \subseteq InFlight
BY SMTT(30), StatesTable DEF InFlight, Steps, Body, Handler, StateSteps, DirectorSteps, UploadSteps

(* Only the states of StateSteps are entered by a statement of the body.   *)
LEMMA FollowingKeepsState ==
  ASSUME NEW s \in DirectorSteps \cup {"check", "reset", "claim", "post_checkout"}
  PROVE  StatesAt(s) \subseteq StatesAt(Following(s))
BY SMTT(30), StatesTable, FollowingTable DEF DirectorSteps

LEMMA StateStepSetsState ==
  ASSUME NEW s \in StateSteps
  PROVE  s \in StatesAt(Following(s)) /\ StatesAt(s) \subseteq InFlight /\ s \in InFlight
BY SMTT(30), StatesTable, FollowingTable DEF StateSteps, InFlight

LEMMA FollowingInBody ==
  ASSUME NEW s PROVE Following(s) \in Body \ UploadSteps
BY SMTT(30) DEF Following, Opening, Body, StateSteps, DirectorSteps, UploadSteps

(* An exception leaves the try of run() with the build still in flight and *)
(* nothing decided.                                                        *)
LEMMA RaiseKeepsLifecycle ==
  ASSUME TypeInv, LifecycleInv, pc \in Body, NEW e \in Exceptions, Raise(e),
         build'.state \in InFlight, build'.outcome = "pending"
  PROVE  LifecycleInv'
<1>1. pc' \in {"except", "finalize"} /\ ~success' /\ final' = "none"
  BY DEF Raise, LifecycleInv, Undecided, Body, Over, StateSteps, DirectorSteps, UploadSteps
<1>2. StatesAt(pc)' = InFlight
  BY <1>1 DEF StatesAt, Handler, InFlight, UploadSteps
<1> QED
  BY <1>1, <1>2 DEF LifecycleInv, OnTrack, Undecided, Over

(* A statement of the body that ends by going on to another one.           *)
LEMMA GoingOnKeepsLifecycle ==
  ASSUME LifecycleInv, pc \in Body \cup {"install", "armed"}, pc' \in Body \cup {"armed"},
         build'.state \in StatesAt(pc'), build'.outcome = "pending", UNCHANGED <<success, final>>
  PROVE  LifecycleInv'
BY DEF LifecycleInv, OnTrack, Undecided, StatesAt, Body, Over, StateSteps, DirectorSteps,
       UploadSteps, Handler

(* What the requests of the body leave of the record.                      *)
LEMMA RequestsKeepPending ==
  ASSUME TypeInv, build.outcome = "pending"
  PROVE  /\ PostReset => build'.state = "triggered" /\ build'.outcome = "pending"
         /\ PatchBuilder => build'.state = build.state /\ build'.outcome = "pending"
         /\ \A s : PatchState(s) => build'.state = s /\ build'.outcome = "pending"
BY DEF PostReset, PatchBuilder, PatchState, NewBuild, TypeInv, TypeOK, BuildRecord

LEMMA RunKeepsLifecycle ==
  ASSUME TypeInv, LifecycleInv, Run PROVE LifecycleInv'
<1> USE DEF Local
<1>a. pc \in Steps /\ build \in BuildRecord /\ build.state \in StatesAt(pc)
  BY DEF TypeInv, TypeOK, LifecycleInv, OnTrack
<1>b. pc \in Body \cup {"install", "armed"} => build.state \in InFlight /\ build.outcome = "pending"
  BY <1>a, StatesDuringRun
  DEF LifecycleInv, Undecided, Body, Steps, Over, StateSteps, DirectorSteps, UploadSteps
<1>c. Following(pc) \in Body
  BY FollowingInBody
<1>d. pc \in DirectorSteps \cup {"check", "reset", "claim", "post_checkout"} =>
        build.state \in StatesAt(Following(pc))
  BY <1>a, FollowingKeepsState
<1>1. CASE InstallHandlers
  BY <1>1, <1>a, <1>b, GoingOnKeepsLifecycle, StatesTable
  DEF InstallHandlers, Goto, localVars, apiVars
<1>2. CASE EnterTry
  BY <1>2, <1>a, <1>b, GoingOnKeepsLifecycle, StatesTable
  DEF EnterTry, Goto, localVars, apiVars, Body
<1>3. CASE CheckProjectDisabled
  <2>1. CASE Goto(Following("check"))
    BY <2>1, <1>3, <1>b, <1>c, <1>d, GoingOnKeepsLifecycle
    DEF CheckProjectDisabled, Goto, localVars, apiVars, Body
  <2>2. CASE Raise("AppError")
    BY <2>2, <1>3, <1>b, RaiseKeepsLifecycle
    DEF CheckProjectDisabled, apiVars, Body, Exceptions, AppErrors
  <2> QED BY <2>1, <2>2, <1>3 DEF CheckProjectDisabled
<1>4. CASE ResetBuild
  <2>0. pc = "reset" /\ pc \in Body /\ "triggered" \in InFlight
    BY <1>4 DEF ResetBuild, Body, InFlight
  <2>1. CASE PostReset /\ Goto(Following(pc))
    BY <2>0, <2>1, <1>b, <1>c, GoingOnKeepsLifecycle, RequestsKeepPending, StatesTable, FollowingTable
    DEF Goto, localVars
  <2>2. CASE Fails(PostReset) /\ Raise("Unexpected")
    BY <2>0, <2>2, <1>b, RaiseKeepsLifecycle, RequestsKeepPending DEF Fails, Exceptions
  <2> QED BY <2>1, <2>2, <1>4 DEF ResetBuild, Request
<1>5. CASE ClaimBuild
  <2>0. pc = "claim" /\ pc \in Body /\ Following("claim") \in Body
    BY <1>5, FollowingInBody DEF ClaimBuild, Body
  <2>1. CASE (PatchBuilder \/ UNCHANGED build) /\ Goto(Following("claim"))
    BY <2>0, <2>1, <1>b, <1>d, GoingOnKeepsLifecycle, RequestsKeepPending DEF Goto, localVars
  <2>2. CASE Fails(PatchBuilder) /\ Raise("Unexpected")
    BY <2>0, <2>2, <1>b, RaiseKeepsLifecycle, RequestsKeepPending DEF Fails, Exceptions
  <2> QED BY <2>0, <2>1, <2>2, <1>5 DEF ClaimBuild, Request, apiVars
<1>6. CASE SetBuildState
  <2>0. pc \in StateSteps /\ pc \in Body
    BY <1>6 DEF SetBuildState, Body
  <2>1. CASE PatchState(pc) /\ Goto(Following(pc))
    BY <2>0, <2>1, <1>b, <1>c, GoingOnKeepsLifecycle, RequestsKeepPending, StateStepSetsState
    DEF Goto, localVars
  <2>2. CASE Fails(PatchState(pc)) /\ Raise("Unexpected")
    BY <2>0, <2>2, <1>b, RaiseKeepsLifecycle, RequestsKeepPending, StateStepSetsState
    DEF Fails, Exceptions
  <2> QED BY <2>1, <2>2, <1>6 DEF SetBuildState, Request
<1>7. CASE PostCheckout
  <2>0. pc = "post_checkout" /\ pc \in Body /\ UNCHANGED build
    BY <1>7 DEF PostCheckout, Body, Request, Fails, Quiet
  <2>1. CASE Goto(Following(pc))
    BY <2>0, <2>1, <1>b, <1>c, <1>d, GoingOnKeepsLifecycle DEF Goto, localVars
  <2>2. CASE Raise("Unexpected")
    BY <2>0, <2>2, <1>b, RaiseKeepsLifecycle DEF Exceptions
  <2> QED BY <2>1, <2>2, <1>7 DEF PostCheckout, Request
<1>8. CASE DirectorStep
  <2>0. pc \in DirectorSteps /\ pc \in Body /\ UNCHANGED build
    BY <1>8 DEF DirectorStep, Body, Quiet
  <2>1. CASE Goto(Following(pc))
    BY <2>0, <2>1, <1>b, <1>c, <1>d, GoingOnKeepsLifecycle DEF Goto, localVars
  <2>2. ASSUME NEW e \in Exceptions, Raise(e) PROVE LifecycleInv'
    BY <2>0, <2>2, <1>b, RaiseKeepsLifecycle
  <2> QED BY <2>1, <2>2, <1>8, RaisesExceptions DEF DirectorStep, Exceptions, AppErrors
<1>9. CASE ValidateArtifacts
  <2>0. pc = "validate" /\ pc \in Body /\ UNCHANGED build
    BY <1>9 DEF ValidateArtifacts, Body, Quiet
  <2>1. CASE pc' = Following("validate") /\ UNCHANGED <<success, final>>
    BY <2>0, <2>1, <1>a, <1>b, <1>c, GoingOnKeepsLifecycle, StatesTable, FollowingTable
  <2>2. ASSUME NEW e \in Exceptions, Raise(e) PROVE LifecycleInv'
    BY <2>0, <2>2, <1>b, RaiseKeepsLifecycle
  <2> QED BY <2>1, <2>2, <1>9 DEF ValidateArtifacts, Exceptions, UserErrors
<1>10. CASE EnterUpload \/ CheckMediaSize \/ BeginSync \/ CopiesDone \/ BeginDelete \/ EndDelete
            \/ DeletesDone \/ LeaveUpload
  <2>1. /\ UNCHANGED <<build, success, final>>
        /\ pc \in {"enter_upload"} \cup UploadSteps
        /\ pc' \in {"succeed"} \cup UploadSteps
    BY <1>10 DEF EnterUpload, CheckMediaSize, BeginSync, CopiesDone, BeginDelete, EndDelete,
       DeletesDone, LeaveUpload, DeleteSkipped, Goto, localVars, apiVars, UploadSteps, Quiet,
       PostNotification, Fails
  <2> QED BY <2>1, <1>a, <1>b, GoingOnKeepsLifecycle, StatesTable DEF Body
<1>11. CASE GetStorage \/ EndSync \/ UpdateVersion
  <2>0. pc \in UploadSteps /\ UNCHANGED build
    BY <1>11 DEF GetStorage, EndSync, UpdateVersion, UploadSteps, Quiet
  <2>1. CASE pc' \in UploadSteps /\ UNCHANGED <<success, final>>
    BY <2>0, <2>1, <1>a, <1>b, GoingOnKeepsLifecycle, StatesTable DEF Body
  <2>2. ASSUME NEW e \in Exceptions, Raise(e) PROVE LifecycleInv'
    BY <2>0, <2>2, <1>b, RaiseKeepsLifecycle DEF Body
  <2> QED BY <2>1, <2>2, <1>11 DEF GetStorage, EndSync, UpdateVersion, Goto, localVars, UploadSteps,
          Exceptions, AppErrors
<1>12. CASE Succeed
  BY <1>12, <1>a, <1>b, StatesTable DEF Succeed, apiVars, LifecycleInv, OnTrack, Undecided, Body,
     Over, StateSteps, DirectorSteps, UploadSteps, InFlight
<1>13. CASE HandleException \/ AttachFailureNotification \/ Reraise
  <2>1. /\ UNCHANGED <<build, success>>
        /\ pc \in Handler
        /\ pc' \in {"notify", "handled", "finalize"}
    BY <1>13 DEF HandleException, AttachFailureNotification, Reraise, Escape, Goto, localVars,
       apiVars, Handler, PostNotification, Fails
  <2> QED BY <2>1, <1>a, StatesTable DEF LifecycleInv, OnTrack, Undecided, Handler, Body, Over,
          StateSteps, DirectorSteps, UploadSteps
<1>14. CASE Finalize
  <2>1. pc' \in {"return", "raised"} /\ (PatchFinal(FinalState, Outcome) \/ UNCHANGED build)
    BY <1>14 DEF Finalize, Goto, Escape, Fails
  <2>2. build'.state \in InFlight \cup FinalStates
    BY <2>1, <1>a DEF PatchFinal, BuildRecord, FinalState, FinalStates, InFlight
  <2>3. StatesAt(pc') = InFlight \cup FinalStates
    BY <2>1 DEF StatesAt, UploadSteps, Handler
  <2> QED BY <2>1, <2>2, <2>3 DEF LifecycleInv, OnTrack, Undecided, Body, Over, StateSteps,
          DirectorSteps, UploadSteps
<1>15. CASE Return
  <2>1. pc = "return" /\ pc' \in Over /\ UNCHANGED build
    BY <1>15 DEF Return, Goto, Over, apiVars
  <2>2. StatesAt(pc') = InFlight \cup FinalStates
    BY <2>1 DEF StatesAt, UploadSteps, Handler, Over
  <2> QED BY <2>1, <2>2, <1>a DEF LifecycleInv, OnTrack, Undecided, Body, Over, StateSteps,
          DirectorSteps, UploadSteps, BuildRecord
<1> QED
  BY <1>1, <1>2, <1>3, <1>4, <1>5, <1>6, <1>7, <1>8, <1>9, <1>10, <1>11, <1>12, <1>13, <1>14, <1>15
  DEF Run

LEMMA InterruptKeepsLifecycle ==
  ASSUME TypeInv, LifecycleInv, NEW e \in Exceptions, Interrupt(e)
  PROVE  LifecycleInv' /\ UNCHANGED build
<1>0. UNCHANGED build /\ pc \in Steps /\ build \in BuildRecord /\ build.state \in StatesAt(pc)
  BY DEF Interrupt, Quiet, TypeInv, TypeOK, LifecycleInv, OnTrack
<1>1. CASE pc \in Body /\ \E x \in Becomes(e) : IF x = "none" THEN Swallowed ELSE Raise(x)
  <2>0. build.state \in InFlight /\ build.outcome = "pending"
    BY <1>0, <1>1, StatesDuringRun
    DEF LifecycleInv, Undecided, Body, Steps, Over, StateSteps, DirectorSteps, UploadSteps
  <2>1. ASSUME NEW x \in Exceptions, Raise(x) PROVE LifecycleInv'
    BY <1>0, <1>1, <2>0, <2>1, RaiseKeepsLifecycle
  <2>2. ASSUME "none" \in Becomes(e), Swallowed PROVE LifecycleInv'
    <3>1. pc \in {"build", "run_build_commands", "deleting", "copy"}
      BY <2>2 DEF Becomes, StepBecomes, DirectorSteps, Exceptions, UserErrors, Cancellations, AppErrors
    <3>2. CASE pc \in {"build", "run_build_commands"}
      BY <3>2, <2>0, <2>2, <1>0, GoingOnKeepsLifecycle, StatesTable, FollowingTable
      DEF Swallowed, Goto, localVars, Body, DirectorSteps
    <3>3. CASE pc \notin {"build", "run_build_commands"}
      <4>1. pc \in UploadSteps /\ pc' \in UploadSteps /\ UNCHANGED <<success, final>>
        BY <3>1, <3>3, <2>2 DEF Swallowed, Goto, localVars, DeleteSkipped, UploadSteps
      <4> QED BY <4>1, <2>0, <1>0, GoingOnKeepsLifecycle, StatesTable DEF Body
    <3> QED BY <3>2, <3>3
  <2> QED BY <1>0, <1>1, <2>1, <2>2, BecomesAnException
<1>2. CASE pc \in Handler /\ (Escape(e, "finalize") \/ (pc = "notify" /\ Goto("handled")))
  BY <1>0, <1>2, StatesTable DEF Escape, Goto, localVars, LifecycleInv, OnTrack, Undecided, Handler,
     Body, Over, StateSteps, DirectorSteps, UploadSteps
<1>3. CASE pc \in {"armed", "finalize", "return"} /\ Escape(e, "raised")
  <2>1. pc' = "raised" /\ StatesAt(pc') = InFlight \cup FinalStates
    BY <1>3 DEF Escape, StatesAt, UploadSteps, Handler
  <2> QED BY <2>1, <1>0 DEF LifecycleInv, OnTrack, Undecided, Body, Over, StateSteps,
          DirectorSteps, UploadSteps, BuildRecord
<1> QED BY <1>0, <1>1, <1>2, <1>3 DEF Interrupt, Handler

LEMMA SignalKeepsLifecycle ==
  ASSUME TypeInv, LifecycleInv, Signal PROVE LifecycleInv' /\ UNCHANGED build
<1>1. CASE OnCancel
  <2>1. CASE inUpload
    BY <1>1, <2>1 DEF OnCancel, Goto, localVars, Quiet, LifecycleInv, OnTrack, Undecided
  <2>2. CASE ~inUpload
    BY <1>1, <2>2, InterruptKeepsLifecycle DEF OnCancel, Exceptions, UserErrors, Cancellations
  <2> QED BY <2>1, <2>2
<1>2. CASE OnTimeout
  BY <1>2, InterruptKeepsLifecycle DEF OnTimeout, Exceptions, UserErrors
<1>3. CASE OnSoftTimeLimit
  <2>1. CASE pc # "install"
    BY <1>3, <2>1, InterruptKeepsLifecycle DEF OnSoftTimeLimit, Exceptions
  <2>2. CASE pc = "install"
    <3>1. pc' = "raised" /\ UNCHANGED build
      BY <1>3, <2>2 DEF OnSoftTimeLimit, Escape, Quiet
    <3>2. StatesAt(pc') = InFlight \cup FinalStates
      BY <3>1 DEF StatesAt, UploadSteps, Handler
    <3>3. build.state \in InFlight \cup FinalStates
      BY DEF TypeInv, TypeOK, BuildRecord
    <3> QED BY <3>1, <3>2, <3>3 DEF LifecycleInv, OnTrack, Undecided, Body, Over, StateSteps,
            DirectorSteps, UploadSteps
  <2> QED BY <2>1, <2>2
<1> QED BY <1>1, <1>2, <1>3 DEF Signal

LEMMA NextKeepsLifecycle ==
  ASSUME TypeInv, LifecycleInv, [Next]_vars PROVE LifecycleInv'
<1>1. CASE UNCHANGED vars
  BY <1>1 DEF vars, apiVars, localVars, LifecycleInv, OnTrack, Undecided
<1> QED BY <1>1, RunKeepsLifecycle, SignalKeepsLifecycle DEF Next

LEMMA InitOnTrack == Init => LifecycleInv
BY StatesTable DEF Init, RunnerInit, NewBuild, LifecycleInv, OnTrack, Undecided

(* Only four statements write the record, and each is a lifecycle step.    *)
LEMMA OnlyFourWriteTheBuild ==
  ASSUME Run, ~(ResetBuild \/ ClaimBuild \/ SetBuildState \/ Finalize)
  PROVE  UNCHANGED build
BY DEF Run, InstallHandlers, EnterTry, CheckProjectDisabled, PostCheckout, DirectorStep,
       ValidateArtifacts, EnterUpload, GetStorage, CheckMediaSize, BeginSync, EndSync, CopiesDone,
       BeginDelete, EndDelete, DeletesDone, UpdateVersion, LeaveUpload, Succeed, HandleException,
       AttachFailureNotification, Reraise, Return, Request, Fails, Quiet, PostNotification, apiVars

LEMMA AdvanceIsALifecycleStep ==
  ASSUME build.state \in StatesAt(pc), build.outcome = "pending", pc \in StateSteps, PatchState(pc),
         build \in BuildRecord
  PROVE  Lifecycle!Advance(pc)
BY SMTT(30), StatesTable DEF Lifecycle!Advance, Lifecycle!Ongoing, Lifecycle!Rank, PatchState, StateSteps,
   BuildRecord

LEMMA NextIsALifecycleStep ==
  ASSUME TypeInv, LifecycleInv, [Next]_vars
  PROVE  [Lifecycle!Next]_<<build.state, build.outcome>>
<1>a. build \in BuildRecord /\ build.state \in StatesAt(pc)
  BY DEF TypeInv, TypeOK, LifecycleInv, OnTrack
<1>1. CASE UNCHANGED build
  BY <1>1
<1>2. CASE ResetBuild
  BY <1>2, <1>a, StatesTable DEF ResetBuild, Request, Fails, PostReset, NewBuild, LifecycleInv,
     Undecided, Over
<1>3. CASE ClaimBuild
  BY <1>3, <1>a DEF ClaimBuild, Request, Fails, PatchBuilder, BuildRecord, apiVars
<1>4. CASE SetBuildState
  <2>1. PatchState(pc) \/ UNCHANGED build
    BY <1>4 DEF SetBuildState, Request, Fails
  <2>2. pc \in StateSteps /\ build.outcome = "pending"
    BY <1>4 DEF SetBuildState, LifecycleInv, Undecided, StateSteps, Over
  <2>3. pc \in Lifecycle!Ongoing
    BY <2>2 DEF StateSteps, Lifecycle!Ongoing, Lifecycle!Rank
  <2> QED BY <2>1, <2>2, <2>3, <1>a, AdvanceIsALifecycleStep DEF Lifecycle!Next
<1>5. CASE Finalize
  <2>0. pc = "finalize" /\ build.state \in InFlight
    BY <1>5, <1>a, StatesTable DEF Finalize
  <2>1. PatchFinal(FinalState, Outcome) \/ UNCHANGED build
    BY <1>5 DEF Finalize, Fails
  <2>2. /\ FinalState \in {"finished", "cancelled"}
        /\ Outcome \in {"success", "failure"}
        /\ Outcome = "success" => build.state = "uploading" /\ FinalState = "finished"
    BY <2>0 DEF FinalState, FinalStates, Outcome, LifecycleInv, Undecided
  <2>3. build.state \in Lifecycle!Ongoing
    BY <2>0 DEF InFlight, Lifecycle!Ongoing, Lifecycle!Rank
  <2>4. PatchFinal(FinalState, Outcome) => Lifecycle!Announce(FinalState, Outcome)
    BY <2>2, <2>3, <1>a DEF PatchFinal, Lifecycle!Announce, BuildRecord
  <2> QED BY <2>1, <2>2, <2>4 DEF Lifecycle!Next
<1> QED BY <1>1, <1>2, <1>3, <1>4, <1>5, OnlyFourWriteTheBuild, SignalKeepsLifecycle
        DEF Next, vars, apiVars

(* The detailed runner implements the abstract lifecycle: every state of   *)
(* the record is reached in order, and a success is only announced by a    *)
(* build that got to its upload.                                           *)
THEOREM RunnerImplementsLifecycle == Spec => ImplementsLifecycle
<1>1. Init => Lifecycle!Init
  BY DEF Init, NewBuild, Lifecycle!Init
<1>2. TypeInv /\ LifecycleInv /\ [Next]_vars => [Lifecycle!Next]_<<build.state, build.outcome>>
  BY NextIsALifecycleStep
<1>3. TypeInv /\ LifecycleInv /\ [Next]_vars => TypeInv' /\ LifecycleInv'
  BY NextTyped, NextKeepsLifecycle
<1>4. Init => TypeInv /\ LifecycleInv
  BY InitTyped, InitOnTrack
<1> QED BY <1>1, <1>2, <1>3, <1>4, PTL
        DEF Spec, ImplementsLifecycle, Lifecycle!Spec, Lifecycle!lifecycleVars

-----------------------------------------------------------------------------
(* What is published *)

(* The order in which the loops take the types is an order: there is one   *)
(* next type.                                                              *)
LEMMA OneIsNext ==
  ASSUME todo \subseteq Types, NEW t, NEW u, IsNext(t), IsNext(u)
  PROVE  t = u
<1>1. \A v \in Types : Position(v) \in DOMAIN ArtifactTypes /\ ArtifactTypes[Position(v)] = v
  BY DEF Position, Types
<1>2. \A v \in Types : Position(v) \in Nat
  BY <1>1, TypesAssumption
<1>3. t \in Types /\ u \in Types /\ Position(t) <= Position(u) /\ Position(u) <= Position(t)
  BY DEF IsNext
<1>4. Position(t) = Position(u)
  BY <1>2, <1>3
<1> QED BY <1>1, <1>3, <1>4

LEMMA StruckGrows == ASSUME [Next]_vars PROVE struck \subseteq struck'
<1>1. CASE Run
  BY <1>1 DEF Run, InstallHandlers, EnterTry, CheckProjectDisabled, ResetBuild, ClaimBuild,
     SetBuildState, PostCheckout, DirectorStep, ValidateArtifacts, EnterUpload, GetStorage,
     CheckMediaSize, BeginSync, EndSync, CopiesDone, BeginDelete, EndDelete, DeletesDone,
     UpdateVersion, LeaveUpload, Succeed, HandleException, AttachFailureNotification, Reraise,
     Finalize, Return, Request, Fails, Strike, apiVars
<1>2. CASE Signal
  BY <1>2 DEF Signal, OnCancel, OnTimeout, OnSoftTimeLimit, Strike
<1> QED BY <1>1, <1>2 DEF Next, vars, apiVars

(* A step that moves run() outside the upload and the steps around it.     *)
LEMMA OutsideUploadKeepsPublish ==
  ASSUME TypeInv, PublishInv, struck \subseteq struck',
         pc' \notin UploadSteps \cup {"enter_upload", "succeed"},
         inUpload' = FALSE,
         build'.outcome = "success" => build.outcome = "success" \/ success,
         \/ pc \notin {"syncing", "deleting"}
         \/ struck' \cap {"storage", "alarm", "soft"} # {},
         UNCHANGED <<success, storage>>,
         success => UNCHANGED <<valid, version>>
  PROVE  PublishInv'
<1>1. UploadGuarded' /\ HtmlValid' /\ Uploaded'
  BY DEF UploadGuarded, HtmlValid, Uploaded, UploadSteps
<1>2. Announced'
  BY DEF PublishInv, Announced, Published, Calm, TypesToDelete
<1>3. HalfWritten'
  BY DEF PublishInv, HalfWritten, Calm, IsNext
<1> QED BY <1>1, <1>2, <1>3 DEF PublishInv

LEMMA RunKeepsPublish ==
  ASSUME TypeInv, LifecycleInv, PublishInv, Run PROVE PublishInv'
<1>a. struck \subseteq struck'
  BY StruckGrows DEF Next
<1>b. /\ todo \subseteq Types /\ valid \subseteq Types
      /\ storage \in [Types -> Places]
      /\ inUpload \in BOOLEAN
      /\ pc \notin UploadSteps => inUpload = FALSE
      /\ pc \in Body => ~success /\ build.outcome = "pending"
  BY DEF TypeInv, TypeOK, PublishInv, UploadGuarded, LifecycleInv, Undecided, Body, Over,
     StateSteps, DirectorSteps, UploadSteps
(* The statements that leave the storage and the Version alone *)
<1>1. CASE \/ InstallHandlers \/ EnterTry \/ CheckProjectDisabled \/ ResetBuild \/ ClaimBuild
           \/ SetBuildState \/ PostCheckout \/ DirectorStep
  <2>0. pc \in ({"install", "armed"} \cup Body) \ UploadSteps
    BY <1>1 DEF InstallHandlers, EnterTry, CheckProjectDisabled, ResetBuild, ClaimBuild,
       SetBuildState, PostCheckout, DirectorStep, Body, UploadSteps, StateSteps, DirectorSteps
  <2>1. UNCHANGED <<success, valid, storage, version>>
    BY <1>1 DEF InstallHandlers, EnterTry, CheckProjectDisabled, ResetBuild, ClaimBuild,
       SetBuildState, PostCheckout, DirectorStep, Request, Goto, Raise, Local, localVars
  <2>2. inUpload' = FALSE
    BY <1>1, <1>b, <2>0
    DEF InstallHandlers, EnterTry, CheckProjectDisabled, ResetBuild, ClaimBuild, SetBuildState,
       PostCheckout, DirectorStep, Request, Goto, Raise, localVars, UploadSteps
  <2>3. pc' \in {"armed", "check", "except", "finalize"} \/ (pc' = Following(pc) /\ pc # "validate")
    BY <1>1 DEF InstallHandlers, EnterTry, CheckProjectDisabled, ResetBuild, ClaimBuild, SetBuildState,
       PostCheckout, DirectorStep, Request, Goto, Raise, StateSteps, DirectorSteps
  <2>4. pc \in {"check", "reset", "claim", "post_checkout"} \cup StateSteps \cup DirectorSteps =>
          Following(pc) \notin UploadSteps \cup {"enter_upload", "succeed"}
    BY FollowingTable DEF StateSteps, DirectorSteps, UploadSteps
  <2>5. pc' \notin UploadSteps \cup {"enter_upload", "succeed"}
    BY <1>1, <2>3, <2>4 DEF InstallHandlers, EnterTry, CheckProjectDisabled, ResetBuild, ClaimBuild,
       SetBuildState, PostCheckout, DirectorStep, Goto, UploadSteps
  <2>6. build'.outcome = "success" => build.outcome = "success"
    <3>1. CASE ResetBuild \/ ClaimBuild \/ SetBuildState
      <4>1. build.outcome = "pending"
        BY <3>1, <1>b DEF ResetBuild, ClaimBuild, SetBuildState, Body
      <4>2. PostReset \/ PatchBuilder \/ PatchState(pc) \/ UNCHANGED build
        BY <3>1 DEF ResetBuild, ClaimBuild, SetBuildState, Request, Fails, apiVars
      <4> QED BY <4>1, <4>2, RequestsKeepPending
    <3>2. CASE ~(ResetBuild \/ ClaimBuild \/ SetBuildState)
      BY <3>2, <1>1 DEF InstallHandlers, EnterTry, CheckProjectDisabled, PostCheckout,
         DirectorStep, Request, Fails, Quiet, apiVars
    <3> QED BY <3>1, <3>2
  <2> QED BY <1>a, <2>0, <2>1, <2>2, <2>5, <2>6, OutsideUploadKeepsPublish DEF UploadSteps, Body,
          StateSteps, DirectorSteps
<1>2. CASE HandleException \/ AttachFailureNotification \/ Reraise \/ Finalize \/ Return
  <2>1. /\ pc \in Handler \cup {"finalize", "return"}
        /\ pc' \in Handler \cup Over \cup {"finalize", "return"}
        /\ UNCHANGED <<inUpload, success, valid, storage, version>>
    BY <1>2 DEF HandleException, AttachFailureNotification, Reraise, Finalize, Return, Goto, Escape,
       Local, localVars, Handler, Over
  <2>2. build'.outcome = "success" => build.outcome = "success" \/ success
    <3>1. CASE Finalize
      BY <3>1 DEF Finalize, Fails, PatchFinal, Outcome, TypeInv, TypeOK, BuildRecord
    <3>2. CASE ~Finalize
      BY <3>2, <1>2, OnlyFourWriteTheBuild
      DEF HandleException, AttachFailureNotification, Reraise, Return, apiVars, PostNotification, Fails
    <3> QED BY <3>1, <3>2
  <2>3. pc \notin UploadSteps /\ pc' \notin UploadSteps \cup {"enter_upload", "succeed"}
    BY <2>1 DEF Handler, Over, UploadSteps
  <2> QED BY <1>a, <1>b, <2>1, <2>2, <2>3, OutsideUploadKeepsPublish DEF UploadSteps
<1>3. ASSUME NEW e, Raise(e), pc \in Body, UNCHANGED <<build, storage>>,
             pc \notin {"syncing", "deleting"} \/ struck' \cap {"storage", "alarm", "soft"} # {}
      PROVE  PublishInv'
  BY <1>3, <1>a, <1>b, OutsideUploadKeepsPublish DEF Raise, UploadSteps
<1>4. CASE ValidateArtifacts
  <2>0. pc = "validate" /\ pc \in Body /\ UNCHANGED <<build, storage>>
    BY <1>4 DEF ValidateArtifacts, Body, Quiet, Local
  <2>1. CASE /\ "html" \in valid' /\ pc' = Following("validate")
             /\ UNCHANGED <<inUpload, success>>
    <3>1. pc' = "enter_upload" /\ ~success' /\ inUpload' = FALSE /\ build'.outcome = "pending"
      BY <2>0, <2>1, <1>b, FollowingTable DEF UploadSteps
    <3> QED BY <3>1, <2>0, <2>1, <1>a DEF PublishInv, UploadGuarded, HtmlValid, Uploaded, Announced,
            HalfWritten, Calm, UploadSteps, IsNext
  <2> QED BY <1>3, <1>4, <2>0, <2>1 DEF ValidateArtifacts
(* The upload *)
<1>5. ASSUME pc \in Body, pc' \in UploadSteps, inUpload' = TRUE,
             pc \in UploadSteps \cup {"enter_upload"}, UNCHANGED <<success, valid>>,
             build'.outcome = build.outcome, Uploaded', HalfWritten'
      PROVE  PublishInv'
  BY <1>5, <1>b DEF PublishInv, UploadGuarded, HtmlValid, Announced
<1>c. pc \in UploadSteps => inUpload = TRUE
  BY <1>b DEF PublishInv, UploadGuarded
<1>6. CASE EnterUpload
  <2>1. pc = "enter_upload" /\ pc' = "storage" /\ UNCHANGED <<build, storage, struck>>
    BY <1>6 DEF EnterUpload, apiVars, Local
  <2>2. Uploaded' /\ HalfWritten'
    BY <2>1 DEF Uploaded, PublishInv, HalfWritten, Calm
  <2> QED BY <1>5, <1>6, <2>1, <2>2 DEF EnterUpload, Body, UploadSteps
<1>7. CASE GetStorage
  <2>1. pc = "storage" /\ UNCHANGED <<build, storage>>
    BY <1>7 DEF GetStorage, Quiet, Local
  <2>2. CASE pc' = "copy" /\ todo' = valid /\ UNCHANGED <<exc, inUpload, success, final, valid, struck>>
    <3>1. Uploaded' /\ HalfWritten'
      BY <2>1, <2>2 DEF Uploaded, PublishInv, HalfWritten, Calm
    <3> QED BY <1>5, <1>c, <2>1, <2>2, <3>1 DEF Body, UploadSteps
  <2> QED BY <1>3, <1>7, <2>1, <2>2 DEF GetStorage, Body, UploadSteps
<1>8. CASE CheckMediaSize
  <2>1. /\ pc = "copy" /\ pc' = "rclone" /\ todo # {}
        /\ UNCHANGED <<build, inUpload, success, valid, todo, storage, version>>
    BY <1>8 DEF CheckMediaSize, Goto, localVars, Local, Quiet, PostNotification, Fails
  <2>2. Uploaded' /\ HalfWritten'
    BY <2>1, <1>a DEF Uploaded, PublishInv, HalfWritten, Calm, IsNext
  <2> QED BY <1>5, <1>c, <2>1, <2>2 DEF Body, UploadSteps
<1>9. CASE BeginSync
  <2>1. /\ pc = "rclone" /\ pc' = "syncing"
        /\ UNCHANGED <<build, struck, inUpload, success, valid, todo>>
    BY <1>9 DEF BeginSync, Goto, localVars, apiVars
  <2>2. PICK t \in todo : IsNext(t) /\ storage' = [storage EXCEPT ![t] = "partial"]
    BY <1>9 DEF BeginSync
  <2>3. Uploaded' /\ HalfWritten'
    BY <2>1, <2>2, <1>b DEF Uploaded, PublishInv, HalfWritten, Calm, IsNext
  <2> QED BY <1>5, <1>c, <2>1, <2>3 DEF Body, UploadSteps
<1>10. CASE EndSync
  <2>1. pc = "syncing" /\ UNCHANGED build
    BY <1>10 DEF EndSync, Quiet
  <2>2. CASE /\ \E t \in todo : /\ IsNext(t)
                               /\ storage' = [storage EXCEPT ![t] = "new"]
                               /\ todo' = todo \ {t}
             /\ pc' = "copy"
             /\ UNCHANGED <<exc, inUpload, success, final, valid, struck>>
    <3>1. PICK t \in todo : /\ IsNext(t)
                            /\ storage' = [storage EXCEPT ![t] = "new"]
                            /\ todo' = todo \ {t}
      BY <2>2
    <3>2. Uploaded'
      BY <2>1, <2>2, <3>1, <1>b DEF Uploaded, PublishInv
    <3>3. HalfWritten'
      BY <2>1, <2>2, <3>1, <1>b, OneIsNext DEF PublishInv, HalfWritten, Calm
    <3> QED BY <1>5, <1>c, <2>1, <2>2, <3>2, <3>3 DEF Body, UploadSteps
  <2>3. CASE Strike("storage") /\ Raise("AppError") /\ UNCHANGED storage
    BY <1>3, <2>1, <2>3 DEF Body, UploadSteps, Strike
  <2> QED BY <1>10, <2>2, <2>3 DEF EndSync
<1>11. CASE CopiesDone
  <2>1. /\ pc = "copy" /\ pc' = "delete" /\ todo = {} /\ todo' = TypesToDelete
        /\ UNCHANGED <<build, struck, inUpload, success, valid, storage>>
    BY <1>11 DEF CopiesDone, apiVars, Local
  <2>2. Uploaded' /\ HalfWritten'
    BY <2>1 DEF Uploaded, PublishInv, HalfWritten, Calm, TypesToDelete
  <2> QED BY <1>5, <1>c, <2>1, <2>2 DEF Body, UploadSteps
<1>12. CASE BeginDelete
  <2>1. /\ pc = "delete" /\ pc' = "deleting"
        /\ UNCHANGED <<build, struck, inUpload, success, valid, todo>>
    BY <1>12 DEF BeginDelete, Goto, localVars, apiVars
  <2>2. PICK t \in todo : /\ IsNext(t)
                          /\ storage' = [storage EXCEPT ![t] = IF @ = "absent" THEN @ ELSE "partial"]
    BY <1>12 DEF BeginDelete
  <2>3. Uploaded'
    BY <2>1, <2>2, <1>b DEF Uploaded, PublishInv, Calm, TypesToDelete
  <2>4. HalfWritten'
    BY <2>1, <2>2, <1>b DEF PublishInv, HalfWritten, Calm, IsNext
  <2> QED BY <1>5, <1>c, <2>1, <2>3, <2>4 DEF Body, UploadSteps
<1>13. CASE EndDelete
  <2>1. /\ pc = "deleting" /\ pc' = "delete" /\ UNCHANGED <<build, inUpload, success, valid>>
    BY <1>13 DEF EndDelete, DeleteSkipped, Quiet
  <2>2. PICK t \in todo : IsNext(t) /\ todo' = todo \ {t}
    BY <1>13 DEF EndDelete, DeleteSkipped
  <2>3. \/ storage' = [storage EXCEPT ![t] = "absent"] /\ UNCHANGED struck
        \/ UNCHANGED storage /\ Strike("storage")
    BY <1>13, <1>b, <2>2, OneIsNext DEF EndDelete
  <2>4. Uploaded'
    BY <2>1, <2>2, <2>3, <1>b DEF Uploaded, PublishInv, Calm, TypesToDelete, Strike
  <2>5. HalfWritten'
    BY <2>1, <2>2, <2>3, <1>b, OneIsNext DEF PublishInv, HalfWritten, Calm, Strike
  <2> QED BY <1>5, <1>c, <2>1, <2>4, <2>5 DEF Body, UploadSteps
<1>14. CASE DeletesDone
  <2>1. /\ pc = "delete" /\ pc' = "version" /\ todo = {}
        /\ UNCHANGED <<build, struck, inUpload, success, valid, todo, storage, version>>
    BY <1>14 DEF DeletesDone, Goto, localVars, apiVars, Local
  <2>2. Uploaded' /\ HalfWritten'
    BY <2>1 DEF Uploaded, PublishInv, HalfWritten, Calm, TypesToDelete
  <2> QED BY <1>5, <1>c, <2>1, <2>2 DEF Body, UploadSteps
<1>15. CASE UpdateVersion
  <2>1. pc = "version" /\ "html" \in valid /\ UNCHANGED <<build, storage>>
    BY <1>15 DEF UpdateVersion, Quiet, PublishInv, HtmlValid, UploadSteps
  <2>2. CASE Goto("leave")
    <3>1. (version' = Advertised(valid) /\ UNCHANGED struck) \/ "rejected" \in struck'
      BY <1>15, <2>1, <2>2 DEF UpdateVersion, Goto, Raise, Strike
    <3>2. Uploaded' /\ HalfWritten'
      BY <2>1, <2>2, <3>1, <1>a DEF Goto, localVars, Uploaded, PublishInv, HalfWritten, Calm,
         TypesToDelete, Advertised
    <3> QED BY <1>5, <1>c, <2>1, <2>2, <3>2 DEF Goto, localVars, Body, UploadSteps
  <2>3. CASE Raise("Unexpected")
    BY <1>3, <2>1, <2>3 DEF Body, UploadSteps
  <2> QED BY <1>15, <2>2, <2>3 DEF UpdateVersion
<1>16. CASE LeaveUpload
  <2>1. /\ pc = "leave" /\ pc' = "succeed" /\ inUpload' = FALSE
        /\ UNCHANGED <<build, struck, success, valid, storage, version>>
    BY <1>16 DEF LeaveUpload, apiVars, Local
  <2> QED BY <2>1, <1>b DEF PublishInv, UploadGuarded, HtmlValid, Uploaded, Announced, HalfWritten,
          Calm, TypesToDelete, UploadSteps, Body
<1>17. CASE Succeed
  <2>1. /\ pc = "succeed" /\ pc' = "finalize"
        /\ UNCHANGED <<build, struck, inUpload, valid, storage, version>>
    BY <1>17 DEF Succeed, apiVars, Local
  <2>2. Published'
    BY <2>1 DEF PublishInv, HtmlValid, Uploaded, Published, Calm, TypesToDelete
  <2> QED BY <2>1, <2>2, <1>17, <1>b DEF Succeed, PublishInv, UploadGuarded, HtmlValid, Uploaded,
          Announced, HalfWritten, Calm, UploadSteps
<1> QED
  BY <1>1, <1>2, <1>4, <1>6, <1>7, <1>8, <1>9, <1>10, <1>11, <1>12, <1>13, <1>14, <1>15, <1>16, <1>17
  DEF Run

(* A signal that raises during the upload is a time limit: cancellations   *)
(* are deferred.                                                           *)
LEMMA InterruptKeepsPublish ==
  ASSUME TypeInv, LifecycleInv, PublishInv, NEW e \in Exceptions, Interrupt(e),
         struck \subseteq struck',
         pc \in UploadSteps => struck' \cap {"storage", "alarm", "soft"} # {}
  PROVE  PublishInv'
<1>0. /\ UNCHANGED <<build, storage, version>>
      /\ inUpload \in BOOLEAN
      /\ inUpload = TRUE <=> pc \in UploadSteps
      /\ pc \in Body => ~success /\ build.outcome = "pending"
      /\ pc \in UploadSteps => ~Calm'
      /\ pc \notin {"syncing", "deleting"} \/ struck' \cap {"storage", "alarm", "soft"} # {}
  BY DEF TypeInv, TypeOK, PublishInv, UploadGuarded, LifecycleInv, Undecided, Body, Over,
     StateSteps, DirectorSteps, UploadSteps, Calm, Interrupt, Quiet, Local
<1>1. CASE pc \in Body /\ \E x \in Becomes(e) : IF x = "none" THEN Swallowed ELSE Raise(x)
  <2>1. ASSUME NEW x, Raise(x) PROVE PublishInv'
    BY <2>1, <1>0, <1>1, OutsideUploadKeepsPublish DEF Raise, UploadSteps
  <2>2. ASSUME "none" \in Becomes(e), Swallowed PROVE PublishInv'
    <3>1. pc \in {"build", "run_build_commands", "deleting"} \/ (pc = "copy" /\ todo # {})
      BY <2>2 DEF Becomes, StepBecomes, DirectorSteps, Exceptions, UserErrors, Cancellations, AppErrors
    <3>2. CASE pc \in {"build", "run_build_commands"}
      <4>1. /\ pc' = "check_old_output"
            /\ UNCHANGED <<exc, inUpload, success, final, valid, todo>>
        <5>1. Swallowed => Goto(Following(pc))
          BY <3>2 DEF Swallowed
        <5> QED BY <5>1, <3>2, <2>2, FollowingTable DEF Goto, localVars
      <4> QED BY <3>2, <4>1, <1>0, OutsideUploadKeepsPublish DEF UploadSteps
    <3>3. CASE pc \notin {"build", "run_build_commands"}
      <4>1. /\ pc' \in {"rclone", "delete"} /\ inUpload' = TRUE /\ UNCHANGED <<success, valid>>
            /\ pc' = "rclone" => pc = "copy" /\ todo' = todo /\ todo # {}
            /\ pc' = "delete" => pc = "deleting" /\ todo' \subseteq todo
        BY <3>1, <3>3, <2>2, <1>0 DEF Swallowed, Goto, localVars, DeleteSkipped, UploadSteps
      <4>2. "html" \in valid /\ ~Calm'
        BY <3>1, <3>3, <1>0 DEF PublishInv, HtmlValid, UploadSteps
      <4>3. Uploaded' /\ HalfWritten'
        BY <4>1, <4>2, <1>0 DEF PublishInv, Uploaded, HalfWritten, TypesToDelete
      <4> QED BY <4>1, <4>2, <4>3, <1>0, <1>1 DEF PublishInv, UploadGuarded, HtmlValid, Announced,
              UploadSteps
    <3> QED BY <3>2, <3>3
  <2> QED BY <1>1, <2>1, <2>2
<1>2. CASE ~(pc \in Body /\ \E x \in Becomes(e) : IF x = "none" THEN Swallowed ELSE Raise(x))
  <2>1. /\ pc \in Handler \cup {"armed", "finalize", "return"}
        /\ pc' \in {"finalize", "handled", "raised"}
        /\ UNCHANGED <<inUpload, success, valid>>
    BY <1>2 DEF Interrupt, Escape, Goto, localVars, Handler
  <2> QED BY <2>1, <1>0, OutsideUploadKeepsPublish DEF Handler, UploadSteps
<1> QED BY <1>1, <1>2

LEMMA SignalKeepsPublish ==
  ASSUME TypeInv, LifecycleInv, PublishInv, Signal PROVE PublishInv'
<1>0. struck \subseteq struck'
  BY StruckGrows DEF Next
<1>1. CASE OnCancel
  <2>1. CASE inUpload
    <3>1. UNCHANGED <<build, pc, localVars, storage, version>>
      BY <1>1, <2>1 DEF OnCancel, Goto, Quiet, Local
    <3> QED BY <3>1, <1>0 DEF localVars, PublishInv, UploadGuarded, HtmlValid, Uploaded, Announced,
            Published, HalfWritten, Calm, TypesToDelete, IsNext
  <2>2. CASE ~inUpload
    BY <1>0, <1>1, <2>2, InterruptKeepsPublish
    DEF OnCancel, Exceptions, UserErrors, Cancellations, PublishInv, UploadGuarded
  <2> QED BY <2>1, <2>2
<1>2. CASE OnTimeout
  BY <1>0, <1>2, InterruptKeepsPublish DEF OnTimeout, Exceptions, UserErrors, Strike
<1>3. CASE OnSoftTimeLimit
  <2>1. CASE pc # "install"
    BY <1>0, <1>3, <2>1, InterruptKeepsPublish DEF OnSoftTimeLimit, Exceptions, Strike
  <2>2. CASE pc = "install"
    <3>1. pc' = "raised" /\ UNCHANGED <<build, inUpload, success, valid, storage, version>>
      BY <1>3, <2>2 DEF OnSoftTimeLimit, Escape, Quiet, Local
    <3>2. inUpload = FALSE
      BY <2>2 DEF PublishInv, UploadGuarded, UploadSteps, TypeInv, TypeOK
    <3> QED BY <3>1, <3>2, <2>2, <1>0, OutsideUploadKeepsPublish DEF UploadSteps
  <2> QED BY <2>1, <2>2
<1> QED BY <1>1, <1>2, <1>3 DEF Signal

LEMMA NextKeepsPublish ==
  ASSUME TypeInv, LifecycleInv, PublishInv, [Next]_vars PROVE PublishInv'
<1>1. CASE UNCHANGED vars
  BY <1>1 DEF vars, apiVars, localVars, PublishInv, UploadGuarded, HtmlValid, Uploaded, Announced,
     Published, HalfWritten, Calm, TypesToDelete, IsNext
<1> QED BY <1>1, RunKeepsPublish, SignalKeepsPublish DEF Next

LEMMA InitPublish == Init => PublishInv
BY DEF Init, RunnerInit, NewBuild, PublishInv, UploadGuarded, HtmlValid, Uploaded, Announced,
   HalfWritten, UploadSteps

(* The inductive invariant of run().                                       *)
LEMMA Inductive == Spec => []IInv
<1>1. Init => IInv
  BY InitTyped, InitOnTrack, InitPublish DEF IInv
<1>2. IInv /\ [Next]_vars => IInv'
  BY NextTyped, NextKeepsLifecycle, NextKeepsPublish DEF IInv
<1> QED BY <1>1, <1>2, PTL DEF Spec

(* A build the API shows as successful is published, in every environment: *)
(* what the Version advertises is what is in storage, all of it.           *)
THEOREM SuccessIsPublished == Spec => []SuccessMeansPublished
<1>1. IInv => SuccessMeansPublished
  BY DEF IInv, PublishInv, Announced, Published, Calm, SuccessMeansPublished
<1> QED BY <1>1, Inductive, PTL

(* No cancellation, whenever it arrives, leaves an artifact half written.  *)
THEOREM CancellationIsClean == Spec => []CancelLeavesNoPartialUpload
<1>1. IInv => CancelLeavesNoPartialUpload
  BY DEF IInv, PublishInv, HalfWritten, Calm, CancelLeavesNoPartialUpload
<1> QED BY <1>1, Inductive, PTL

-----------------------------------------------------------------------------
(* What is never deleted *)

LEMMA OnlyTheLoopsWriteStorage ==
  ASSUME Next, ~(BeginSync \/ EndSync \/ BeginDelete \/ EndDelete)
  PROVE  UNCHANGED storage
BY DEF Next, Run, InstallHandlers, EnterTry, CheckProjectDisabled, ResetBuild, ClaimBuild,
   SetBuildState, PostCheckout, DirectorStep, ValidateArtifacts, EnterUpload, GetStorage,
   CheckMediaSize, CopiesDone, DeletesDone, UpdateVersion, LeaveUpload, Succeed, HandleException,
   AttachFailureNotification, Reraise, Finalize, Return, Signal, OnCancel, OnTimeout,
   OnSoftTimeLimit, Interrupt, Local

(* A type the loops write is one they were given: a valid type is copied,  *)
(* a deletable one that was not produced is deleted.                       *)
LEMMA StepKeepsUndeletable ==
  ASSUME IInv, Next
  PROVE  \A t \in Undeletable :
           /\ storage[t] # "absent" => storage'[t] # "absent"
           /\ t \notin valid => storage'[t] = storage[t]
<1>0. /\ storage \in [Types -> Places] /\ Undeletable \subseteq Types
      /\ pc \in {"copy", "rclone", "syncing"} => todo \subseteq valid
      /\ pc \in {"delete", "deleting"} => todo \cap Undeletable = {}
  BY TypesAssumption DEF IInv, TypeInv, TypeOK, PublishInv, Uploaded, TypesToDelete
<1>1. CASE BeginSync
  BY <1>0, <1>1 DEF BeginSync
<1>2. CASE EndSync
  BY <1>0, <1>2 DEF EndSync
<1>3. CASE BeginDelete
  BY <1>0, <1>3 DEF BeginDelete
<1>4. CASE EndDelete
  BY <1>0, <1>4 DEF EndDelete
<1> QED BY <1>1, <1>2, <1>3, <1>4, OnlyTheLoopsWriteStorage

(* The HTML and JSON of an earlier build survive a build that does not     *)
(* produce them, whatever interrupts it.                                   *)
THEOREM UndeletableSurvives == Spec => UndeletableKept
<1>1. IInv /\ [Next]_vars =>
        [\A t \in Undeletable :
           /\ storage[t] # "absent" => storage'[t] # "absent"
           /\ t \notin valid => storage'[t] = storage[t]]_vars
  BY StepKeepsUndeletable
<1> QED BY <1>1, Inductive, PTL DEF Spec, UndeletableKept
=============================================================================
