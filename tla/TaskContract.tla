---------------------------- MODULE TaskContract ----------------------------
(***************************************************************************)
(* What one task run_build may do to its Build record, as the fleet of     *)
(* instances sees it: module Fleet moves its tasks by this contract, and   *)
(* module Worker, which has every step of worker/tasks.py and of the       *)
(* runner, is checked to keep it.                                          *)
(*                                                                         *)
(* A task t is [phase, verdict], a Build record r is [state, builder]; the *)
(* operators give the pairs <<t, r>> that may come next.                   *)
(***************************************************************************)
EXTENDS Naturals

(*   taken      the message was received, the instance is not protected    *)
(*   protected  the instance has claimed the build                         *)
(*   fetched    the worker prepares the build: nothing of an earlier       *)
(*              attempt has been cleared                                   *)
(*   reset      the runner has the record to itself                        *)
(*   uploading  cancellations are deferred                                 *)
(*   reporting  the verdict is decided, and not yet in the record          *)
(*   leaving    clean-up, up to the release of the instance                *)
(*   over       the task has returned, its message not acknowledged yet    *)
Phases == {"taken", "protected", "fetched", "reset", "uploading", "reporting", "leaving", "over"}

Verdicts == {"success", "failure", "cancelled"}
States   == {"triggered", "underway"} \cup Verdicts

At(phase)    == [phase |-> phase, verdict |-> "none"]
Reporting(v) == [phase |-> "reporting", verdict |-> v]

(* Mutant: an instance that does not know its hostname claims all the same *)
ClaimedBlank(me, r) == [r EXCEPT !.builder = ""]

Claimed(me, r) == [r EXCEPT !.builder = me]

Cleared    == [state |-> "triggered", builder |-> "nobody"]
To(s, r)   == [r EXCEPT !.state = s]

(* Mutants of Fetch: the state the record is in is not looked at; only a   *)
(* triggered build is taken.                                               *)
FetchFinished(r) ==
  {<<IF r.state = "cancelled" THEN Reporting("cancelled") ELSE At("fetched"), r>>}

FetchCancelled(r) ==
  {<<IF r.state \in {"success", "failure"} THEN At("leaving") ELSE At("fetched"), r>>}

FetchTriggered(r) ==
  {<<IF r.state = "cancelled" THEN Reporting("cancelled")
     ELSE IF r.state = "triggered" THEN At("fetched") ELSE At("leaving"), r>>}

(* _fetch_build *)
Fetch(r) ==
  {<<CASE r.state = "cancelled"              -> Reporting("cancelled")
       [] r.state \in {"success", "failure"} -> At("leaving")
       [] OTHER                              -> At("fetched"), r>>}

(* The steps of a task that nothing disturbs *)
Moves(me, t, r) ==
  CASE t.phase = "taken"     -> {<<At("protected"), Claimed(me, r)>>}
    [] t.phase = "protected" -> Fetch(r)
    [] t.phase = "fetched"   -> {<<At("reset"), Cleared>>, <<Reporting("failure"), r>>}
    [] t.phase = "reset"     -> {<<t, Claimed(me, r)>>, <<t, To("underway", r)>>,
                                 <<At("uploading"), r>>,
                                 <<Reporting("failure"), r>>, <<Reporting("cancelled"), r>>}
    [] t.phase = "uploading" -> {<<Reporting("success"), r>>, <<Reporting("failure"), r>>}
    [] t.phase = "reporting" -> {<<At("leaving"), To(t.verdict, r)>>}
    [] OTHER                 -> {}

(* What else may happen when a request, the daemon or a clock fails: a     *)
(* record not changed or changed without an answer, a failure that is      *)
(* reported on whatever is in the record, a task that leaves without one.  *)
Failures(me, t, r) ==
  LET records == {r} \cup {m[2] : m \in Moves(me, t, r)}
  IN  {<<next, s>> : next \in {At("leaving"), Reporting("failure"), Reporting("cancelled")}
                              \cup (IF t.phase = "taken" THEN {At("protected")} ELSE {}),
                     s \in records}

(* SIGINT or SIGTERM: not handled before the task's own handlers, lost     *)
(* while the client is made, swallowed or made a failure by some of the    *)
(* build's steps, deferred in the upload, and after it above the runner's  *)
(* own verdict.                                                            *)
Signalled(t) ==
  CASE t.phase = "taken"     -> {At("leaving")}
    [] t.phase = "protected" -> {Reporting("cancelled")}
    [] t.phase = "fetched"   -> {Reporting("cancelled"), At("leaving")}
    [] t.phase = "reset"     -> {t, Reporting("cancelled"), Reporting("failure")}
    [] t.phase = "reporting" -> {t, Reporting("cancelled"), Reporting("failure"), At("leaving")}
    [] t.phase = "leaving"   -> {t, Reporting("cancelled")}
    [] OTHER                 -> {t}
=============================================================================
