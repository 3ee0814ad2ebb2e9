------------------------------ MODULE BuildApi ------------------------------
(***************************************************************************)
(* The Build record of the Read the Docs API v2, as the worker and the     *)
(* runner see it, and the requests they make on it.  The API itself lives  *)
(* in another repository: what a request does here is what the code in     *)
(* src/ relies on.                                                         *)
(***************************************************************************)
EXTENDS Faults

VARIABLES build,   \* the Build record: [state, outcome, builder]
          notes    \* the message ids of the notifications attached to it

apiVars == <<build, notes, struck>>

(* builder/constants.py: the states a Build is walked through *)
InFlight    == {"triggered", "cloning", "installing", "building", "uploading"}
FinalStates == {"finished", "cancelled"}

(* A warning attached to a build that need not fail *)
MediaSize == "MediaSizeExceeded"

Outcomes == {"pending", "success", "failure"}
BuildRecord == [state   : InFlight \cup FinalStates,
                outcome : Outcomes,
                builder : {"nobody", "me"}]
Messages == Exceptions \cup {MediaSize}

NewBuild == [state |-> "triggered", outcome |-> "pending", builder |-> "nobody"]

-----------------------------------------------------------------------------
(* The requests.  Each is a change of the record; its failure is separate. *)

PatchState(s) == build' = [build EXCEPT !.state = s] /\ UNCHANGED notes
PatchBuilder  == build' = [build EXCEPT !.builder = "me"] /\ UNCHANGED notes
PatchFinal(s, o) ==
  build' = [build EXCEPT !.state = s, !.outcome = o] /\ UNCHANGED notes
(* Build.reset() clears the state, the commands and notifications of an    *)
(* earlier attempt and the claim                                           *)
PostReset == build' = NewBuild /\ notes' = {}
PostNotification(m) == notes' = notes \cup {m} /\ UNCHANGED build

(* A request that fails after its retries may have been applied: the       *)
(* answer is what was lost.  Retrying is idempotent for all of these.      *)
Fails(applied) ==
  /\ Strike("api")
  /\ applied \/ UNCHANGED <<build, notes>>
=============================================================================
