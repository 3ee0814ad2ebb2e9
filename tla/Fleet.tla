------------------------------- MODULE Fleet -------------------------------
(***************************************************************************)
(* The instances that run builds, one build each: worker/celery.py, the    *)
(* receipt and the end of run_build in worker/tasks.py, and                *)
(* worker/instance.py.  The broker keeps the message of a build until it   *)
(* is acknowledged, after the task; an instance takes one message, stops   *)
(* consuming and has itself terminated at the end.                         *)
(*                                                                         *)
(* Between receipt and end a task moves by TaskContract, which module      *)
(* Worker is checked to keep.  A name stands for one instance at a time:   *)
(* when it is gone, what still mentions it says Gone.                      *)
(***************************************************************************)
EXTENDS TaskContract, Sequences

CONSTANTS Builds,
          Names,       \* of instances, in the order they are given out
          Starts       \* the situations a behaviour may start in:
                       \*   waiting   the builds that wait
                       \*   troubles  what may go wrong, of the kinds below
                       \*   bound     how often something does

(*   crash      an instance is lost, with all it holds                     *)
(*   drop       the connection of a worker to the broker is                *)
(*   visibility the broker redelivers a message it takes for lost          *)
(*   failure    a request, the daemon or a clock fails a task              *)
(*   cancel     the user cancels a build                                   *)
Troubles == {"crash", "drop", "visibility", "failure", "cancel"}

ASSUME FleetAssumption ==
  /\ Starts \subseteq [waiting : SUBSET Builds, troubles : SUBSET Troubles, bound : Nat]
  /\ Builds \subseteq STRING \ {"nobody"}
  /\ Names \in Seq(STRING \ {"queue", "acked", "gone", "nobody"})

Instances == {Names[n] : n \in DOMAIN Names}

VARIABLES record,    \* the Build records in the API
          holder,    \* who has the message of a build: "queue", the instance
                     \* it was delivered to, or "gone" with one; "acked"
          host,      \* of an instance: "off", "up", "ending", or "left": up
                     \* after its task, and neither released nor powered off
          consuming, \* the instances whose worker consumes the queue
          running,   \* the build of an instance's task, or "nobody" for none
          task,      \* that task, a task of TaskContract
          signals,   \* the instances a signal is on its way to
          met,       \* history: the troubles met so far
          ahead,     \* the kinds of troubles to come, and the bound on them
          early,     \* history: cancelled before a task had fetched them
          unheard    \* history: a signal ended their task without a report

instanceVars == <<host, consuming, running, task, signals>>
historyVars  == <<met, ahead, early, unheard>>
vars == <<record, holder, instanceVars, historyVars>>

Idle == At("over")

Meet(kind) ==
  /\ kind \in ahead.troubles /\ ahead.bound > 0
  /\ met' = met \cup {kind} /\ ahead' = [ahead EXCEPT !.bound = @ - 1]
NothingMet == UNCHANGED <<met, ahead>>

Holds(i, b) == running[i] = b /\ task[i].phase # "over"

-----------------------------------------------------------------------------
(* The receipt of a build *)

(* The Auto Scaling group starts an instance for what waits in the queue,  *)
(* one at a time, under the first free name                                *)
Free == {n \in DOMAIN Names : host[Names[n]] = "off"}

Launch ==
  /\ \E b \in Builds : holder[b] = "queue"
  /\ \A i \in consuming : running[i] # "nobody"
  /\ \E first \in Free :
       /\ \A n \in Free : first <= n
       /\ host' = [host EXCEPT ![Names[first]] = "up"]
       /\ consuming' = consuming \cup {Names[first]}
  /\ UNCHANGED <<record, holder, running, task, signals, historyVars>>

(* Mutant: the worker goes on consuming.                                   *)
KeepConsuming(i) == consuming

(* _on_run_build_received *)
StopConsuming(i) == consuming \ {i}

(* Mutant: the message is acknowledged when it is received.                *)
HeldEarly(i) == "acked"

(* task_acks_late *)
Held(i) == i

(* worker_prefetch_multiplier: nothing is fetched while a message is       *)
(* unacknowledged                                                          *)
Deliver(i, b) ==
  /\ i \in consuming /\ host[i] # "off" /\ running[i] = "nobody"
  /\ holder[b] = "queue"
  /\ holder' = [holder EXCEPT ![b] = Held(i)]
  /\ running' = [running EXCEPT ![i] = b]
  /\ task' = [task EXCEPT ![i] = At("taken")]
  /\ consuming' = StopConsuming(i)
  /\ UNCHANGED <<record, host, signals, historyVars>>

-----------------------------------------------------------------------------
(* The task *)

Becomes(i, next) ==
  /\ task' = [task EXCEPT ![i] = next[1]]
  /\ record' = [record EXCEPT ![running[i]] = next[2]]
  /\ UNCHANGED <<holder, host, consuming, running>>

Step(i) ==
  /\ running[i] # "nobody"
  /\ \E next \in Moves(i, task[i], record[running[i]]) : Becomes(i, next)
  /\ UNCHANGED <<signals, historyVars>>

Fail(i) ==
  /\ running[i] # "nobody" /\ task[i].phase \notin {"leaving", "over"}
  /\ Meet("failure")
  /\ \E next \in Failures(i, task[i], record[running[i]]) : Becomes(i, next)
  /\ UNCHANGED <<signals, early, unheard>>

(* A signal lands *)
Interrupt(i) ==
  /\ i \in signals /\ signals' = signals \ {i}
  /\ \E t \in Signalled(task[i]) :
       /\ task' = [task EXCEPT ![i] = t]
       /\ unheard' = IF t # At("leaving") \/ task[i] = t THEN unheard
                     ELSE unheard \cup {running[i]}
  /\ UNCHANGED <<record, holder, host, consuming, running, met, ahead, early>>

(* cancel_build: a build that waits is cancelled in the database, one that *)
(* is under way by revoking its task, wherever that runs                   *)
Cancel(b) ==
  /\ record[b].state \in {"triggered", "underway"}
  /\ Meet("cancel")
  /\ IF record[b].state = "triggered"
     THEN /\ record' = [record EXCEPT ![b] = To("cancelled", @)]
          /\ early' = IF \E i \in Instances :
                           running[i] = b /\ task[i].phase \notin {"taken", "protected", "over"}
                      THEN early ELSE early \cup {b}
          /\ UNCHANGED signals
     ELSE /\ signals' = signals \cup {i \in Instances : Holds(i, b)}
          /\ UNCHANGED <<record, early>>
  /\ UNCHANGED <<holder, host, consuming, running, task, unheard>>

-----------------------------------------------------------------------------
(* The end of a task and of its instance *)

(* Mutant: an instance the API does not release is left to itself.         *)
ReleaseTrusted(i) ==
  LET j == record[running[i]].builder
  IN  IF j \in Instances THEN j ELSE "nobody"

(* instance.release asks for the build's builder to be terminated; without *)
(* one, the host powers itself off                                         *)
Released(i) ==
  LET j == record[running[i]].builder
  IN  IF j \in Instances THEN j ELSE i

Ending(i) == IF i \in Instances THEN [host EXCEPT ![i] = "ending"] ELSE host

Left(i) == [host EXCEPT ![i] = IF @ = "up" THEN "left" ELSE @]

(* _on_run_build_postrun: after a request that fails the host powers       *)
(* itself off, unless that fails too, or is not to be (no_self_terminate,  *)
(* docker-compose); a signal may cut it short before or after any of this. *)
Release(i) ==
  /\ running[i] # "nobody" /\ task[i].phase = "leaving"
  /\ task' = [task EXCEPT ![i] = Idle]
  /\ \/ host' = Ending(Released(i)) /\ NothingMet /\ UNCHANGED signals
     \/ host' \in {Ending(i), Left(i)} /\ Meet("failure") /\ UNCHANGED signals
     \/ /\ i \in signals /\ signals' = signals \ {i}
        /\ host' \in {Ending(Released(i)), Left(i)} /\ NothingMet
  /\ UNCHANGED <<record, holder, consuming, running, early, unheard>>

Ack(i) ==
  /\ running[i] # "nobody" /\ task[i].phase = "over"
  /\ holder' = [holder EXCEPT ![running[i]] = IF @ = i THEN "acked" ELSE @]
  /\ running' = [running EXCEPT ![i] = "nobody"]
  /\ signals' = signals \ {i}
  /\ UNCHANGED <<record, host, consuming, task, historyVars>>

(* An instance goes, with its task, and its name with it *)
Vanish(i) ==
  /\ host' = [host EXCEPT ![i] = "off"]
  /\ consuming' = consuming \ {i}
  /\ running' = [running EXCEPT ![i] = "nobody"] /\ task' = [task EXCEPT ![i] = Idle]
  /\ signals' = signals \ {i}
  /\ holder' = [b \in Builds |-> IF holder[b] = i THEN "gone" ELSE holder[b]]
  /\ record' = [b \in Builds |->
                  IF record[b].builder = i THEN Claimed("gone", record[b]) ELSE record[b]]
  /\ UNCHANGED <<early, unheard>>

Terminate(i) == host[i] = "ending" /\ Vanish(i) /\ NothingMet

Crash(i) == host[i] \in {"up", "left"} /\ Vanish(i) /\ Meet("crash")

-----------------------------------------------------------------------------
(* The broker *)

Requeue(b) == holder' = [holder EXCEPT ![b] = "queue"]

Redeliver(b) ==
  /\ holder[b] = "gone" /\ Requeue(b)
  /\ UNCHANGED <<record, instanceVars, historyVars>>

(* A message not acknowledged for long is taken for lost *)
TimeOutMessage(b) ==
  /\ holder[b] \in Instances /\ Meet("visibility") /\ Requeue(b)
  /\ UNCHANGED <<record, instanceVars, early, unheard>>

(* worker_cancel_long_running_tasks_on_connection_loss: the message goes   *)
(* back, and the task is sent SIGTERM                                      *)
LoseConnection(i) ==
  /\ running[i] # "nobody" /\ holder[running[i]] = i
  /\ Meet("drop") /\ Requeue(running[i])
  /\ signals' = IF task[i].phase = "over" THEN signals ELSE signals \cup {i}
  /\ UNCHANGED <<record, host, consuming, running, task, early, unheard>>

-----------------------------------------------------------------------------
Init ==
  /\ \E start \in Starts :
       /\ record = [b \in Builds |-> IF b \in start.waiting THEN Cleared ELSE To("success", Cleared)]
       /\ holder = [b \in Builds |-> IF b \in start.waiting THEN "queue" ELSE "acked"]
       /\ ahead = [troubles |-> start.troubles, bound |-> start.bound]
  /\ host = [i \in Instances |-> "off"] /\ consuming = {}
  /\ running = [i \in Instances |-> "nobody"] /\ task = [i \in Instances |-> Idle]
  /\ signals = {}
  /\ met = {} /\ early = {} /\ unheard = {}

Works(i) == Step(i) \/ Interrupt(i) \/ Release(i) \/ Ack(i) \/ Terminate(i)

Trouble ==
  \/ \E i \in Instances : Fail(i) \/ Crash(i) \/ LoseConnection(i)
  \/ \E b \in Builds : Cancel(b) \/ TimeOutMessage(b)

Next ==
  \/ Launch
  \/ \E i \in Instances : Works(i)
  \/ \E i \in Instances, b \in Builds : Deliver(i, b)
  \/ \E b \in Builds : Redeliver(b)
  \/ Trouble

Spec == Init /\ [][Next]_vars

(* Instances are launched while builds wait, the broker delivers every     *)
(* message, and what an instance has begun goes on until it vanishes:      *)
(* every wait of a task is bounded by a clock (module Worker, InstanceLetGo) *)
Fairness ==
  /\ WF_vars(Launch)
  /\ \A b \in Builds : SF_vars(\E i \in Instances : Deliver(i, b)) /\ WF_vars(Redeliver(b))
  /\ \A i \in Instances : WF_vars(Works(i))

FairSpec == Spec /\ Fairness

-----------------------------------------------------------------------------
(* Properties *)

(* Every variable has its type.                                            *)
FleetTypeOK ==
  /\ record \in [Builds -> [state : States, builder : Instances \cup {"nobody", "gone"}]]
  /\ holder \in [Builds -> Instances \cup {"queue", "gone", "acked"}]
  /\ host \in [Instances -> {"off", "up", "ending", "left"}]
  /\ running \in [Instances -> Builds \cup {"nobody"}]
  /\ task \in [Instances -> [phase : Phases, verdict : Verdicts \cup {"none"}]]
  /\ consuming \cup signals \subseteq Instances
  /\ ahead \in [troubles : SUBSET Troubles, bound : Nat]
  /\ met \subseteq ahead.troubles
  /\ early \cup unheard \subseteq Builds

Settled(b) == record[b].state \in Verdicts

(* A message may have been delivered while its task still runs *)
Twice == met \cap {"drop", "visibility"} # {}

(* No build is lost: until it has its verdict there is a message that some *)
(* instance will get, although instances vanish at any step.  The known    *)
(* exceptions: the API or the daemon failed its task, a signal ended one   *)
(* where nothing reports it (before the handlers of run_build, in          *)
(* get_client, in the runner's last PATCH), or it was delivered twice and  *)
(* one task cleared the verdict of the other.                              *)
NeverLost ==
  \A b \in Builds :
    holder[b] = "acked" => Settled(b) \/ "failure" \in met \/ b \in unheard \/ Twice

(* No instance is terminated under a build at work: it has no second one   *)
(* when it goes, and a release ends the instance of the task that asks for *)
(* it.  Only a message delivered twice breaks this: two tasks of one build *)
(* claim it for two instances, and each releases the last to claim.        *)
EndsIdle ==
  \A i \in Instances :
    host[i] = "ending" /\ running[i] # "nobody" => task[i].phase = "over" \/ Twice

(* A verdict stands: a build that finished is not built again, and its     *)
(* verdict not changed, though its message is delivered again when its     *)
(* instance went before the acknowledgement.                               *)
VerdictStands ==
  [][\A b \in Builds :
       Settled(b) /\ met' \subseteq {"crash"} => record'[b].state = record[b].state]_vars

(* A build that is cancelled before any task fetched it is not built, by   *)
(* whichever instances get its message and however often, and stays        *)
(* cancelled unless its task fails while it says so -- or the message was  *)
(* delivered twice: a cancellation of an earlier attempt, not landed yet,  *)
(* then turns the report into a failure's.                                 *)
CancelledStaysCancelled ==
  \A b \in early :
    /\ \A i \in Instances : running[i] = b => task[i].phase \notin {"reset", "uploading"}
    /\ record[b].state = "cancelled" \/ "failure" \in met \/ Twice

(* Every build gets its verdict though instances crash and the user        *)
(* cancels, with the exceptions of NeverLost.                              *)
EveryBuildSettles ==
  \A b \in Builds : <>(Settled(b) \/ "failure" \in met \/ b \in unheard \/ Twice)

(* An instance that has taken a build goes, released by the API or powered *)
(* off.  It is left behind in three cases only: the release failed and so  *)
(* did the power off, or it was not to be; a cancellation cut the release  *)
(* short; or its build was delivered twice, when the release of one task   *)
(* may end the instance of another and leave its own.                      *)
InstancesGo ==
  \A i \in Instances :
    running[i] # "nobody" ~>
      \/ host[i] = "off"
      \/ host[i] = "left" /\ met \cap {"failure", "cancel"} # {}
      \/ Twice

-----------------------------------------------------------------------------
(* A claim of the source, checked against the code *)

(* "On broker connection loss, kombu re-queues the unacked build.  Cancel  *)
(* the running copy so the build doesn't run twice" (worker/celery.py):    *)
(* once the signal has landed, the copy is not at work.                    *)
DoesNotRunTwice ==
  \A i, j \in Instances \ signals :
    running[i] = running[j] /\ {task[i].phase, task[j].phase} \subseteq {"reset", "uploading"} => i = j
=============================================================================
