---------------------------- MODULE FleetProofs ----------------------------
(***************************************************************************)
(* Proofs about module Fleet, for every set of builds, every supply of     *)
(* instances and any number of troubles of every kind.                     *)
(***************************************************************************)
EXTENDS Fleet, TLAPS

Builders == Instances \cup {"nobody", "gone"}
Records  == [state : States, builder : Builders]
Tasks    == [phase : Phases, verdict : Verdicts \cup {"none"}]

(* A verdict that is being reported is one.                                *)
HasVerdict(t) == t.phase = "reporting" => t.verdict \in Verdicts

(* The type invariant alone is not inductive: a task that reports has      *)
(* something to report, and a signal is on its way to a task only.         *)
TypeInv ==
  /\ FleetTypeOK
  /\ \A i \in Instances : HasVerdict(task[i])
  /\ \A i \in signals : running[i] # "nobody"

-----------------------------------------------------------------------------
(* What the contract of a task gives *)

(* The names of instances are not those of other things, nor the builds'.  *)
LEMMA Distinct ==
  /\ Instances \cap {"queue", "acked", "gone", "nobody"} = {}
  /\ "nobody" \notin Builds
BY FleetAssumption DEF Instances

(* A step of a task keeps the types of the task and of its record.         *)
LEMMA MovesTyped ==
  ASSUME NEW i \in Instances, NEW t \in Tasks, HasVerdict(t), NEW r \in Records,
         NEW next \in Moves(i, t, r)
  PROVE  next[1] \in Tasks /\ HasVerdict(next[1]) /\ next[2] \in Records
BY DEF Moves, Fetch, Tasks, Records, Builders, HasVerdict, At, Reporting, Claimed, Cleared, To,
       Phases, Verdicts, States

(* So does a failure.                                                      *)
LEMMA FailuresTyped ==
  ASSUME NEW i \in Instances, NEW t \in Tasks, HasVerdict(t), NEW r \in Records,
         NEW next \in Failures(i, t, r)
  PROVE  next[1] \in Tasks /\ HasVerdict(next[1]) /\ next[2] \in Records
<1>1. next[1] \in Tasks /\ HasVerdict(next[1])
  BY DEF Failures, Tasks, HasVerdict, At, Reporting, Phases, Verdicts
<1>2. next[2] = r \/ \E m \in Moves(i, t, r) : next[2] = m[2]
  BY DEF Failures
<1> QED BY <1>1, <1>2, MovesTyped

(* So does a signal.                                                       *)
LEMMA SignalledTyped ==
  ASSUME NEW t \in Tasks, HasVerdict(t), NEW s \in Signalled(t)
  PROVE  s \in Tasks /\ HasVerdict(s)
BY DEF Signalled, Tasks, HasVerdict, At, Reporting, Phases, Verdicts

(* A task that nothing disturbs leaves once its build has a verdict.       *)
LEMMA MovesLeaveSettled ==
  ASSUME NEW i \in Instances, NEW t \in Tasks, HasVerdict(t), NEW r \in Records,
         NEW next \in Moves(i, t, r), next[1].phase \in {"leaving", "over"}
  PROVE  next[2].state \in Verdicts
BY DEF Moves, Fetch, Tasks, Records, HasVerdict, At, Reporting, Claimed, Cleared, To,
       Phases, Verdicts, States

(* A signal makes a task leave only where nothing reports it.              *)
LEMMA SignalledLeaves ==
  ASSUME NEW t \in Tasks, NEW s \in Signalled(t), s.phase \in {"leaving", "over"}
  PROVE  s = t \/ s = At("leaving")
BY DEF Signalled, Tasks, At, Reporting, Phases, Verdicts

-----------------------------------------------------------------------------
(* Type correctness *)

(* What the steps of a task change, and what they leave alone.             *)
LEMMA BecomesTyped ==
  ASSUME TypeInv, NEW i \in Instances, running[i] # "nobody", NEW next,
         next[1] \in Tasks, HasVerdict(next[1]), next[2] \in Records, Becomes(i, next)
  PROVE  /\ record' \in [Builds -> Records]
         /\ task' \in [Instances -> Tasks]
         /\ \A j \in Instances : HasVerdict(task'[j])
<1> USE DEF TypeInv, FleetTypeOK, Records, Builders, Tasks
<1>1. running[i] \in Builds OBVIOUS
<1> QED BY <1>1 DEF Becomes

LEMMA MeetTyped ==
  ASSUME TypeInv, NEW kind, Meet(kind) \/ NothingMet
  PROVE  /\ ahead' \in [troubles : SUBSET Troubles, bound : Nat]
         /\ met' \subseteq ahead'.troubles
<1> USE DEF TypeInv, FleetTypeOK
<1>1. CASE Meet(kind) BY <1>1 DEF Meet
<1>2. CASE NothingMet BY <1>2 DEF NothingMet
<1> QED BY <1>1, <1>2

LEMMA VanishTyped ==
  ASSUME TypeInv, NEW i \in Instances, Vanish(i), NEW kind, Meet(kind) \/ NothingMet
  PROVE  TypeInv'
<1> USE DEF TypeInv, FleetTypeOK, HasVerdict
<1>1. record' \in [Builds -> [state : States, builder : Instances \cup {"nobody", "gone"}]]
  BY DEF Vanish, Claimed
<1>2. task' \in [Instances -> [phase : Phases, verdict : Verdicts \cup {"none"}]]
  BY DEF Vanish, Idle, At, Phases
<1>3. \A j \in Instances : HasVerdict(task'[j])
  BY DEF Vanish, Idle, At
<1>4. /\ holder' \in [Builds -> Instances \cup {"queue", "gone", "acked"}]
      /\ host' \in [Instances -> {"off", "up", "ending", "left"}]
      /\ running' \in [Instances -> Builds \cup {"nobody"}]
      /\ consuming' \cup signals' \subseteq Instances
      /\ early' \cup unheard' \subseteq Builds
  BY DEF Vanish
<1>5. \A j \in signals' : running'[j] # "nobody"
  BY DEF Vanish
<1> QED BY <1>1, <1>2, <1>3, <1>4, <1>5, MeetTyped

LEMMA InitTyped == Init => TypeInv
<1> SUFFICES ASSUME Init PROVE TypeInv
  OBVIOUS
<1>1. PICK start \in Starts :
        /\ record = [b \in Builds |-> IF b \in start.waiting THEN Cleared ELSE To("success", Cleared)]
        /\ holder = [b \in Builds |-> IF b \in start.waiting THEN "queue" ELSE "acked"]
        /\ ahead = [troubles |-> start.troubles, bound |-> start.bound]
  BY DEF Init
<1>2. start.troubles \subseteq Troubles /\ start.bound \in Nat
  BY FleetAssumption
<1>3. record \in [Builds -> Records]
  BY <1>1 DEF Records, Builders, Cleared, To, States, Verdicts
<1>4. holder \in [Builds -> Instances \cup {"queue", "gone", "acked"}]
  BY <1>1
<1>5. /\ task \in [Instances -> Tasks]
      /\ \A i \in Instances : HasVerdict(task[i])
  BY DEF Init, Idle, At, Tasks, Phases, HasVerdict
<1> QED
  BY <1>1, <1>2, <1>3, <1>4, <1>5 DEF Init, TypeInv, FleetTypeOK, Records, Builders, Tasks

LEMMA TaskTyped ==
  ASSUME TypeInv, NEW i \in Instances, Step(i) \/ Fail(i) \/ Interrupt(i)
  PROVE  TypeInv'
<1> USE DEF TypeInv, FleetTypeOK
<1>0. task[i] \in Tasks /\ HasVerdict(task[i])
  BY DEF Tasks
<1>1. ASSUME running[i] # "nobody" PROVE record[running[i]] \in Records
  BY <1>1 DEF Records, Builders
<1>2. CASE Step(i)
  <2>1. PICK next \in Moves(i, task[i], record[running[i]]) : Becomes(i, next)
    BY <1>2 DEF Step
  <2>2. running[i] # "nobody"
    BY <1>2 DEF Step
  <2>3. next[1] \in Tasks /\ HasVerdict(next[1]) /\ next[2] \in Records
    BY <1>0, <1>1, <2>2, MovesTyped
  <2>4. /\ record' \in [Builds -> Records]
        /\ task' \in [Instances -> Tasks]
        /\ \A j \in Instances : HasVerdict(task'[j])
    BY <2>1, <2>2, <2>3, BecomesTyped
  <2> QED
    BY <1>2, <2>1, <2>4 DEF Step, Becomes, historyVars, Records, Builders, Tasks, HasVerdict
<1>3. CASE Fail(i)
  <2>1. PICK next \in Failures(i, task[i], record[running[i]]) : Becomes(i, next)
    BY <1>3 DEF Fail
  <2>2. running[i] # "nobody" /\ Meet("failure") /\ UNCHANGED <<signals, early, unheard>>
    BY <1>3 DEF Fail
  <2>3. next[1] \in Tasks /\ HasVerdict(next[1]) /\ next[2] \in Records
    BY <1>0, <1>1, <2>2, FailuresTyped
  <2>4. /\ record' \in [Builds -> Records]
        /\ task' \in [Instances -> Tasks]
        /\ \A j \in Instances : HasVerdict(task'[j])
    BY <2>1, <2>2, <2>3, BecomesTyped
  <2>5. /\ ahead' \in [troubles : SUBSET Troubles, bound : Nat]
        /\ met' \subseteq ahead'.troubles
    BY <2>2, MeetTyped
  <2> QED
    BY <2>1, <2>2, <2>4, <2>5 DEF Becomes, Records, Builders, Tasks, HasVerdict
<1>4. CASE Interrupt(i)
  <2>1. PICK t \in Signalled(task[i]) :
          /\ task' = [task EXCEPT ![i] = t]
          /\ unheard' = IF t # At("leaving") \/ task[i] = t THEN unheard
                        ELSE unheard \cup {running[i]}
    BY <1>4 DEF Interrupt
  <2>2. t \in Tasks /\ HasVerdict(t)
    BY <1>0, SignalledTyped
  <2>3. running[i] \in Builds
    BY <1>4 DEF Interrupt
  <2> QED
    BY <1>4, <2>1, <2>2, <2>3 DEF Interrupt, Tasks, HasVerdict
<1> QED BY <1>2, <1>3, <1>4

LEMMA CancelTyped ==
  ASSUME TypeInv, NEW b \in Builds, Cancel(b)
  PROVE  TypeInv'
<1> USE DEF TypeInv, FleetTypeOK
<1>1. /\ ahead' \in [troubles : SUBSET Troubles, bound : Nat]
      /\ met' \subseteq ahead'.troubles
  BY MeetTyped DEF Cancel
<1>2. record' \in [Builds -> [state : States, builder : Instances \cup {"nobody", "gone"}]]
  BY DEF Cancel, To, States, Verdicts
<1>3. \A i \in signals' : i \in Instances /\ running[i] # "nobody"
  BY Distinct DEF Cancel, Holds
<1>4. early' \subseteq Builds
  BY DEF Cancel
<1> QED BY <1>1, <1>2, <1>3, <1>4 DEF Cancel, HasVerdict

LEMMA EndTyped ==
  ASSUME TypeInv, NEW i \in Instances,
         Release(i) \/ Ack(i) \/ Terminate(i) \/ Crash(i) \/ LoseConnection(i)
  PROVE  TypeInv'
<1> USE DEF TypeInv, FleetTypeOK
<1>1. CASE Release(i)
  <2>1. /\ ahead' \in [troubles : SUBSET Troubles, bound : Nat]
        /\ met' \subseteq ahead'.troubles
    BY <1>1, MeetTyped DEF Release
  <2>2. task' \in [Instances -> [phase : Phases, verdict : Verdicts \cup {"none"}]]
    BY <1>1 DEF Release, Idle, At, Phases
  <2>3. host' \in [Instances -> {"off", "up", "ending", "left"}]
    BY <1>1 DEF Release, Ending, Left
  <2>4. \A j \in Instances : HasVerdict(task'[j])
    BY <1>1 DEF Release, Idle, At, HasVerdict
  <2> QED BY <1>1, <2>1, <2>2, <2>3, <2>4 DEF Release
<1>2. CASE Ack(i)
  BY <1>2 DEF Ack, historyVars, HasVerdict
<1>3. CASE Terminate(i) BY <1>3, VanishTyped DEF Terminate
<1>4. CASE Crash(i) BY <1>4, VanishTyped DEF Crash
<1>5. CASE LoseConnection(i)
  <2>1. /\ ahead' \in [troubles : SUBSET Troubles, bound : Nat]
        /\ met' \subseteq ahead'.troubles
    BY <1>5, MeetTyped DEF LoseConnection
  <2> QED BY <1>5, <2>1 DEF LoseConnection, Requeue, HasVerdict
<1> QED BY <1>1, <1>2, <1>3, <1>4, <1>5

LEMMA ReceiptTyped ==
  ASSUME TypeInv,
         \/ Launch
         \/ \E i \in Instances, b \in Builds : Deliver(i, b)
         \/ \E b \in Builds : Redeliver(b) \/ TimeOutMessage(b)
  PROVE  TypeInv'
<1> USE DEF TypeInv, FleetTypeOK
<1>1. CASE Launch
  BY <1>1 DEF Launch, Free, Instances, historyVars, HasVerdict
<1>2. ASSUME NEW i \in Instances, NEW b \in Builds, Deliver(i, b) PROVE TypeInv'
  BY <1>2, Distinct DEF Deliver, Held, StopConsuming, historyVars, HasVerdict, At, Phases
<1>3. ASSUME NEW b \in Builds, Redeliver(b) PROVE TypeInv'
  BY <1>3 DEF Redeliver, Requeue, instanceVars, historyVars, HasVerdict
<1>4. ASSUME NEW b \in Builds, TimeOutMessage(b) PROVE TypeInv'
  <2>1. /\ ahead' \in [troubles : SUBSET Troubles, bound : Nat]
        /\ met' \subseteq ahead'.troubles
    BY <1>4, MeetTyped DEF TimeOutMessage
  <2> QED BY <1>4, <2>1 DEF TimeOutMessage, Requeue, instanceVars, HasVerdict
<1> QED BY <1>1, <1>2, <1>3, <1>4

LEMMA NextTyped == ASSUME TypeInv, [Next]_vars PROVE TypeInv'
<1>1. CASE UNCHANGED vars
  BY <1>1 DEF TypeInv, FleetTypeOK, vars, instanceVars, historyVars, HasVerdict
<1>2. CASE Next
  BY <1>2, TaskTyped, CancelTyped, EndTyped, ReceiptTyped DEF Next, Works, Trouble
<1> QED BY <1>1, <1>2

(* Every variable of the fleet has its type in every reachable state,      *)
(* whatever the supply of instances and the number of troubles.            *)
THEOREM FleetTypeCorrect == Spec => []FleetTypeOK
<1>1. TypeInv => FleetTypeOK
  BY DEF TypeInv
<1> QED BY <1>1, InitTyped, NextTyped, PTL DEF Spec

-----------------------------------------------------------------------------
(* No build is lost, and verdicts stand *)

(* None of the known exceptions has happened to a build.                   *)
Undisturbed(b) == "failure" \notin met /\ ~Twice /\ b \notin unheard

(* The message of a build that is being built is held for its instance, so *)
(* that no other builds it.                                                *)
OneCopy == \A i \in Instances : running[i] # "nobody" => holder[running[i]] = i \/ Twice

(* A task leaves, and returns, only when its build has a verdict.          *)
LeavesSettled ==
  \A i \in Instances :
    running[i] # "nobody" /\ task[i].phase \in {"leaving", "over"} /\ Undisturbed(running[i])
      => Settled(running[i])

(* A task whose build has a verdict already is not on its way to another.  *)
Agrees(t, r) ==
  r.state \in Verdicts =>
    \/ t.phase \in {"taken", "protected", "leaving", "over"}
    \/ t.phase = "reporting" /\ t.verdict = r.state

OnlyCrashes == met \subseteq {"crash"}

VerdictsAgree ==
  OnlyCrashes =>
    /\ signals = {}
    /\ \A i \in Instances : running[i] # "nobody" => Agrees(task[i], record[running[i]])

SafetyInv == TypeInv /\ OneCopy /\ LeavesSettled /\ NeverLost /\ VerdictsAgree

(* A step of a task keeps it in agreement with its record ...              *)
LEMMA MovesAgree ==
  ASSUME NEW i \in Instances, NEW t \in Tasks, HasVerdict(t), NEW r \in Records,
         Agrees(t, r), NEW next \in Moves(i, t, r)
  PROVE  Agrees(next[1], next[2])
BY DEF Agrees, Moves, Fetch, Tasks, Records, HasVerdict, At, Reporting, Claimed, Cleared, To,
       Phases, Verdicts, States

(* ... and leaves a verdict as it is.                                      *)
LEMMA MovesKeepVerdict ==
  ASSUME NEW i \in Instances, NEW t \in Tasks, HasVerdict(t), NEW r \in Records,
         Agrees(t, r), r.state \in Verdicts, NEW next \in Moves(i, t, r)
  PROVE  next[2].state = r.state
BY DEF Agrees, Moves, Fetch, Tasks, Records, HasVerdict, At, Reporting, Claimed, Cleared, To,
       Phases, Verdicts, States

(* What went wrong is not forgotten.                                       *)
LEMMA TroublesGrow ==
  ASSUME [Next]_vars
  PROVE  /\ met \subseteq met' /\ unheard \subseteq unheard'
         /\ OnlyCrashes' => OnlyCrashes /\ ~Twice
         /\ \A b : Undisturbed(b)' => Undisturbed(b)
<1>1. met \subseteq met' /\ unheard \subseteq unheard'
  BY DEF Next, Works, Trouble, Launch, Deliver, Step, Fail, Interrupt, Release, Ack, Terminate,
         Crash, Vanish, Cancel, Redeliver, TimeOutMessage, LoseConnection, Meet, NothingMet,
         vars, instanceVars, historyVars
<1> QED BY <1>1 DEF OnlyCrashes, Twice, Undisturbed

LEMMA StepSafe ==
  ASSUME SafetyInv, NEW i \in Instances, Step(i)
  PROVE  SafetyInv'
<1> DEFINE b == running[i]
<1> USE DEF SafetyInv
<1>1. PICK next \in Moves(i, task[i], record[b]) : Becomes(i, next)
  BY DEF Step
<1>2. /\ b \in Builds /\ task \in [Instances -> Tasks] /\ HasVerdict(task[i])
      /\ record \in [Builds -> Records]
  BY DEF Step, TypeInv, FleetTypeOK, Tasks, Records, Builders
<1>3. /\ task' = [task EXCEPT ![i] = next[1]] /\ record' = [record EXCEPT ![b] = next[2]]
      /\ UNCHANGED <<holder, running, signals, met, unheard>>
  BY <1>1 DEF Step, Becomes, historyVars
<1>4. TypeInv'
  BY TaskTyped
<1>5. OneCopy'
  BY <1>3 DEF OneCopy, Twice
<1>6. ASSUME NEW j \in Instances, j # i, ~Twice PROVE running[j] # b
  BY <1>2, <1>6, Distinct DEF OneCopy
<1>7. LeavesSettled'
  <2>1. ASSUME next[1].phase \in {"leaving", "over"} PROVE next[2].state \in Verdicts
    BY <1>1, <1>2, <2>1, MovesLeaveSettled
  <2> QED BY <1>2, <1>3, <1>6, <2>1 DEF LeavesSettled, Undisturbed, Twice, Settled
<1>8. NeverLost'
  <2>1. holder[b] = "acked" => Twice
    BY <1>2, Distinct DEF OneCopy
  <2> QED BY <1>2, <1>3, <2>1 DEF NeverLost, Twice, Settled
<1>9. VerdictsAgree'
  <2>1. SUFFICES ASSUME OnlyCrashes', NEW j \in Instances, running[j] # "nobody"
                 PROVE  Agrees(task'[j], record'[running[j]])
    BY <1>3 DEF VerdictsAgree, OnlyCrashes
  <2>2. ~Twice /\ OnlyCrashes
    BY <1>3, <2>1 DEF OnlyCrashes, Twice
  <2>3. CASE j = i
    BY <1>1, <1>2, <1>3, <2>1, <2>2, <2>3, MovesAgree DEF VerdictsAgree
  <2>4. CASE j # i
    BY <1>2, <1>3, <1>6, <2>1, <2>2, <2>4 DEF VerdictsAgree
  <2> QED BY <2>3, <2>4
<1> QED BY <1>4, <1>5, <1>7, <1>8, <1>9

(* A task that fails excuses every build.                                  *)
LEMMA FailSafe ==
  ASSUME SafetyInv, NEW i \in Instances, Fail(i)
  PROVE  SafetyInv'
<1> USE DEF SafetyInv
<1>1. "failure" \in met' /\ UNCHANGED <<holder, running>>
  BY DEF Fail, Meet, Becomes
<1>2. Twice => Twice'
  BY DEF Fail, Meet, Twice
<1> QED
  BY <1>1, <1>2, TaskTyped
  DEF OneCopy, LeavesSettled, Undisturbed, NeverLost, VerdictsAgree, OnlyCrashes

LEMMA InterruptSafe ==
  ASSUME SafetyInv, NEW i \in Instances, Interrupt(i)
  PROVE  SafetyInv'
<1> USE DEF SafetyInv
<1>1. PICK t \in Signalled(task[i]) :
        /\ task' = [task EXCEPT ![i] = t]
        /\ unheard' = IF t # At("leaving") \/ task[i] = t THEN unheard
                      ELSE unheard \cup {running[i]}
  BY DEF Interrupt
<1>2. UNCHANGED <<record, holder, running, met>> /\ i \in signals
  BY DEF Interrupt
<1>3. task \in [Instances -> Tasks]
  BY DEF TypeInv, FleetTypeOK, Tasks
<1>4. LeavesSettled'
  <2>1. t.phase \in {"leaving", "over"} => t = task[i] \/ running[i] \in unheard'
    BY <1>1, <1>3, SignalledLeaves
  <2> QED BY <1>1, <1>2, <1>3, <2>1 DEF LeavesSettled, Undisturbed, Twice, Settled
<1>5. VerdictsAgree'
  BY <1>2 DEF VerdictsAgree, OnlyCrashes
<1> QED
  BY <1>1, <1>2, <1>4, <1>5, TaskTyped DEF OneCopy, NeverLost, Twice, Settled

(* What happens to messages and instances changes no verdict: it is safe   *)
(* if it hands no instance a build that another one has.                   *)
LEMMA CancelSafe ==
  ASSUME SafetyInv, NEW b \in Builds, Cancel(b)
  PROVE  SafetyInv'
<1> USE DEF SafetyInv
<1>1. /\ UNCHANGED <<holder, running, task, unheard>> /\ met \subseteq met'
      /\ "cancel" \in met'
  BY DEF Cancel, Meet
<1>2. \A c \in Builds : Settled(c) => Settled(c)'
  BY DEF Cancel, Settled, To, Verdicts, TypeInv, FleetTypeOK
<1>3. running \in [Instances -> Builds \cup {"nobody"}]
  BY DEF TypeInv, FleetTypeOK
<1> QED
  BY <1>1, <1>2, <1>3, CancelTyped
  DEF OneCopy, LeavesSettled, Undisturbed, NeverLost, VerdictsAgree, OnlyCrashes, Twice

LEMMA VanishSafe ==
  ASSUME SafetyInv, NEW i \in Instances, Vanish(i), NEW kind, Meet(kind) \/ NothingMet
  PROVE  SafetyInv'
<1> USE DEF SafetyInv
<1>1. met \subseteq met' /\ UNCHANGED unheard
  BY DEF Vanish, Meet, NothingMet
<1>2. \A b \in Builds : record'[b].state = record[b].state
  BY DEF Vanish, Claimed, TypeInv, FleetTypeOK
<1>3. /\ running' = [running EXCEPT ![i] = "nobody"] /\ task' = [task EXCEPT ![i] = Idle]
      /\ holder' = [b \in Builds |-> IF holder[b] = i THEN "gone" ELSE holder[b]]
      /\ signals' = signals \ {i}
  BY DEF Vanish
<1>4. running \in [Instances -> Builds \cup {"nobody"}] /\ task \in [Instances -> Tasks]
  BY DEF TypeInv, FleetTypeOK, Tasks
<1>5. OneCopy'
  BY <1>1, <1>3, <1>4 DEF OneCopy, Twice
<1>6. LeavesSettled'
  BY <1>1, <1>2, <1>3, <1>4 DEF LeavesSettled, Undisturbed, Twice, Settled
<1>7. NeverLost'
  BY <1>1, <1>2, <1>3 DEF NeverLost, Twice, Settled
<1>8. VerdictsAgree'
  BY <1>1, <1>2, <1>3, <1>4 DEF VerdictsAgree, OnlyCrashes, Agrees
<1> QED BY <1>5, <1>6, <1>7, <1>8, VanishTyped

LEMMA EndSafe ==
  ASSUME SafetyInv, NEW i \in Instances,
         Release(i) \/ Ack(i) \/ Terminate(i) \/ Crash(i) \/ LoseConnection(i)
  PROVE  SafetyInv'
<1> USE DEF SafetyInv
<1>0. TypeInv'
  BY EndTyped
<1>a. running \in [Instances -> Builds \cup {"nobody"}] /\ task \in [Instances -> Tasks]
  BY DEF TypeInv, FleetTypeOK, Tasks
<1>1. CASE Release(i)
  <2>1. /\ UNCHANGED <<record, holder, running, unheard>> /\ met \subseteq met'
        /\ signals' \in {signals, signals \ {i}}
        /\ task' = [task EXCEPT ![i] = Idle] /\ task[i].phase = "leaving"
    BY <1>1 DEF Release, Meet, NothingMet
  <2>2. Idle.phase = "over"
    BY DEF Idle, At
  <2>3. LeavesSettled'
    BY <1>a, <2>1, <2>2 DEF LeavesSettled, Undisturbed, Twice, Settled
  <2>4. VerdictsAgree'
    BY <1>a, <2>1, <2>2 DEF VerdictsAgree, OnlyCrashes, Agrees
  <2> QED BY <1>0, <2>1, <2>3, <2>4 DEF OneCopy, NeverLost, Twice, Settled
<1>2. CASE Ack(i)
  <2>1. /\ UNCHANGED <<record, task, met, unheard>> /\ signals' = signals \ {i}
        /\ running' = [running EXCEPT ![i] = "nobody"]
        /\ holder' = [holder EXCEPT ![running[i]] = IF @ = i THEN "acked" ELSE @]
        /\ running[i] # "nobody" /\ task[i].phase = "over"
    BY <1>2 DEF Ack, historyVars
  <2>2. \A j \in Instances : j # i /\ running[j] # "nobody" => holder'[running[j]] = j \/ Twice'
    <3>1. SUFFICES ASSUME NEW j \in Instances, j # i, running[j] # "nobody", ~Twice
                   PROVE  holder'[running[j]] = j
      BY <2>1 DEF Twice
    <3>2. holder[running[j]] = j /\ holder[running[i]] = i
      BY <2>1, <3>1 DEF OneCopy
    <3>3. running[j] # running[i]
      BY <3>1, <3>2
    <3> QED BY <2>1, <3>2, <3>3
  <2>3. OneCopy'
    BY <1>a, <2>1, <2>2 DEF OneCopy
  <2>4. NeverLost'
    <3>1. SUFFICES ASSUME NEW b \in Builds, holder'[b] = "acked", Undisturbed(b)
                   PROVE  Settled(b)
      BY <2>1 DEF NeverLost, Undisturbed, Twice, Settled
    <3>2. CASE b = running[i]
      BY <2>1, <3>1, <3>2 DEF LeavesSettled
    <3>3. CASE b # running[i]
      BY <2>1, <3>1, <3>3 DEF NeverLost, Undisturbed
    <3> QED BY <3>2, <3>3
  <2>5. LeavesSettled' /\ VerdictsAgree'
    BY <1>a, <2>1 DEF LeavesSettled, VerdictsAgree, OnlyCrashes, Undisturbed, Twice, Settled
  <2> QED BY <1>0, <2>3, <2>4, <2>5
<1>3. CASE Terminate(i) BY <1>3, VanishSafe DEF Terminate
<1>4. CASE Crash(i) BY <1>4, VanishSafe DEF Crash
<1>5. CASE LoseConnection(i)
  <2>1. Twice' /\ ~OnlyCrashes'
    BY <1>5 DEF LoseConnection, Meet, Twice, OnlyCrashes
  <2> QED
    BY <1>0, <2>1 DEF OneCopy, LeavesSettled, NeverLost, Undisturbed, VerdictsAgree
<1> QED BY <1>1, <1>2, <1>3, <1>4, <1>5

LEMMA ReceiptSafe ==
  ASSUME SafetyInv,
         \/ Launch
         \/ \E i \in Instances, b \in Builds : Deliver(i, b)
         \/ \E b \in Builds : Redeliver(b) \/ TimeOutMessage(b)
  PROVE  SafetyInv'
<1> USE DEF SafetyInv
<1>0. TypeInv'
  BY ReceiptTyped
<1>a. /\ running \in [Instances -> Builds \cup {"nobody"}] /\ task \in [Instances -> Tasks]
      /\ holder \in [Builds -> Instances \cup {"queue", "gone", "acked"}]
  BY DEF TypeInv, FleetTypeOK, Tasks
<1>1. CASE Launch
  BY <1>0, <1>1
  DEF Launch, historyVars, OneCopy, LeavesSettled, NeverLost, Undisturbed, VerdictsAgree,
      OnlyCrashes, Twice, Settled
<1>2. ASSUME NEW i \in Instances, NEW b \in Builds, Deliver(i, b) PROVE SafetyInv'
  <2>1. /\ UNCHANGED <<record, signals, met, unheard>>
        /\ holder' = [holder EXCEPT ![b] = i] /\ running' = [running EXCEPT ![i] = b]
        /\ task' = [task EXCEPT ![i] = At("taken")] /\ holder[b] = "queue"
    BY <1>2 DEF Deliver, Held, historyVars
  <2>2. OneCopy'
    <3>1. SUFFICES ASSUME NEW j \in Instances, running'[j] # "nobody", ~Twice
                   PROVE  holder'[running'[j]] = j
      BY <2>1 DEF OneCopy, Twice
    <3>2. CASE j = i BY <1>a, <2>1, <3>2
    <3>3. CASE j # i
      <4>1. holder[running[j]] = j /\ running'[j] = running[j]
        BY <1>a, <2>1, <3>1, <3>3 DEF OneCopy
      <4>2. running[j] # b
        BY <2>1, <4>1, Distinct
      <4> QED BY <1>a, <2>1, <4>1, <4>2
    <3> QED BY <3>2, <3>3
  <2>3. At("taken").phase = "taken"
    BY DEF At
  <2>4. LeavesSettled'
    BY <1>a, <2>1, <2>3 DEF LeavesSettled, Undisturbed, Twice, Settled
  <2>5. NeverLost'
    BY <1>a, <2>1, Distinct DEF NeverLost, Twice, Settled
  <2>6. VerdictsAgree'
    BY <1>a, <2>1, <2>3 DEF VerdictsAgree, OnlyCrashes, Agrees
  <2> QED BY <1>0, <2>2, <2>4, <2>5, <2>6
<1>3. ASSUME NEW b \in Builds, Redeliver(b) PROVE SafetyInv'
  <2>1. /\ holder' = [holder EXCEPT ![b] = "queue"] /\ holder[b] = "gone"
        /\ UNCHANGED <<record, running, task, signals, met, unheard>>
    BY <1>3 DEF Redeliver, Requeue, instanceVars, historyVars
  <2>2. OneCopy'
    BY <1>a, <2>1, Distinct DEF OneCopy, Twice
  <2> QED
    BY <1>0, <1>a, <2>1, <2>2
    DEF LeavesSettled, NeverLost, Undisturbed, VerdictsAgree, OnlyCrashes, Twice, Settled
<1>4. ASSUME NEW b \in Builds, TimeOutMessage(b) PROVE SafetyInv'
  <2>1. Twice' /\ ~OnlyCrashes'
    BY <1>4 DEF TimeOutMessage, Meet, Twice, OnlyCrashes
  <2> QED
    BY <1>0, <2>1 DEF OneCopy, LeavesSettled, NeverLost, Undisturbed, VerdictsAgree
<1> QED BY <1>0, <1>1, <1>2, <1>3, <1>4

LEMMA InitSafe == Init => SafetyInv
<1> SUFFICES ASSUME Init PROVE SafetyInv
  OBVIOUS
<1>1. PICK start \in Starts :
        /\ record = [b \in Builds |-> IF b \in start.waiting THEN Cleared ELSE To("success", Cleared)]
        /\ holder = [b \in Builds |-> IF b \in start.waiting THEN "queue" ELSE "acked"]
  BY DEF Init
<1>2. NeverLost
  BY <1>1 DEF NeverLost, Settled, To, Cleared, Verdicts
<1> QED
  BY <1>2, InitTyped DEF SafetyInv, Init, OneCopy, LeavesSettled, VerdictsAgree

LEMMA NextSafe == ASSUME SafetyInv, [Next]_vars PROVE SafetyInv'
<1>1. CASE UNCHANGED vars
  BY <1>1, NextTyped
  DEF SafetyInv, vars, instanceVars, historyVars, OneCopy, LeavesSettled, NeverLost, Undisturbed,
      VerdictsAgree, OnlyCrashes, Twice, Settled
<1>2. CASE Next
  BY <1>2, StepSafe, FailSafe, InterruptSafe, CancelSafe, EndSafe, ReceiptSafe
  DEF Next, Works, Trouble
<1> QED BY <1>1, <1>2

LEMMA FleetInductive == Spec => []SafetyInv
BY InitSafe, NextSafe, PTL DEF Spec

(* A message is acknowledged only when its build has a verdict, however    *)
(* many builds, instances and crashes there are -- with the exceptions     *)
(* that the property names.                                                *)
THEOREM NoBuildIsLost == Spec => []NeverLost
<1>1. SafetyInv => NeverLost
  BY DEF SafetyInv
<1> QED BY <1>1, FleetInductive, PTL

(* While nothing but crashes goes wrong, no step changes a verdict.        *)
LEMMA NextKeepsVerdicts ==
  ASSUME SafetyInv, [Next]_vars, NEW b \in Builds, Settled(b), met' \subseteq {"crash"}
  PROVE  record'[b].state = record[b].state
<1>1. OnlyCrashes /\ record \in [Builds -> Records] /\ task \in [Instances -> Tasks]
  BY TroublesGrow DEF OnlyCrashes, SafetyInv, TypeInv, FleetTypeOK, Records, Builders, Tasks
<1>2. CASE UNCHANGED vars BY <1>2 DEF vars
<1>3. ASSUME NEW i \in Instances, Step(i) PROVE record'[b].state = record[b].state
  <2>1. PICK next \in Moves(i, task[i], record[running[i]]) : Becomes(i, next)
    BY <1>3 DEF Step
  <2>2. CASE b = running[i]
    <3>1. HasVerdict(task[i]) /\ Agrees(task[i], record[b])
      BY <1>1, <1>3, <2>2 DEF Step, SafetyInv, TypeInv, VerdictsAgree
    <3>2. next[2].state = record[b].state
      BY <1>1, <2>1, <2>2, <3>1, MovesKeepVerdict DEF Settled
    <3> QED BY <1>1, <2>1, <2>2, <3>2 DEF Becomes
  <2>3. CASE b # running[i] BY <1>1, <2>1, <2>3 DEF Becomes
  <2> QED BY <2>2, <2>3
<1>4. ASSUME NEW i \in Instances, Fail(i) \/ LoseConnection(i) PROVE FALSE
  BY <1>4 DEF Fail, LoseConnection, Meet
<1>5. ASSUME NEW c \in Builds, Cancel(c) \/ TimeOutMessage(c) PROVE FALSE
  BY <1>5 DEF Cancel, TimeOutMessage, Meet
<1>6. ASSUME NEW i \in Instances, Terminate(i) \/ Crash(i)
      PROVE  record'[b].state = record[b].state
  BY <1>1, <1>6 DEF Terminate, Crash, Vanish, Claimed, Records
<1>7. ASSUME \/ Launch
             \/ \E i \in Instances : Interrupt(i) \/ Release(i) \/ Ack(i)
             \/ \E i \in Instances, c \in Builds : Deliver(i, c)
             \/ \E c \in Builds : Redeliver(c)
      PROVE  record' = record
  BY <1>7 DEF Launch, Interrupt, Release, Ack, Deliver, Redeliver
<1> QED BY <1>2, <1>3, <1>4, <1>5, <1>6, <1>7 DEF Next, Works, Trouble

(* No crash, at whichever step and of however many instances, makes the    *)
(* fleet build a finished build again or change its verdict.               *)
THEOREM VerdictsStand == Spec => VerdictStands
<1>1. SafetyInv /\ [Next]_vars =>
        [\A b \in Builds :
           Settled(b) /\ met' \subseteq {"crash"} => record'[b].state = record[b].state]_vars
  BY NextKeepsVerdicts
<1> QED BY <1>1, FleetInductive, PTL DEF Spec, VerdictStands

-----------------------------------------------------------------------------
(* No instance is ended under a build *)

(* A build is claimed for no instance but the one that has its message, or *)
(* has acknowledged it: a release ends the instance that asks for it.      *)
ClaimsOwn ==
  \A b \in Builds :
    record[b].builder \in Instances => holder[b] \in {record[b].builder, "acked"} \/ Twice

(* An instance that consumes the queue has no build yet and is not ending. *)
ConsumersFree ==
  \A i \in consuming : running[i] = "nobody" /\ (host[i] # "ending" \/ Twice)

OffIdle == \A i \in Instances : host[i] = "off" => running[i] = "nobody"

EndInv == SafetyInv /\ ClaimsOwn /\ ConsumersFree /\ OffIdle /\ EndsIdle

(* What a task writes into its record claims it for no other instance.     *)
LEMMA MovesClaimOwn ==
  ASSUME NEW i \in Instances, NEW t \in Tasks, NEW r \in Records, NEW next \in Moves(i, t, r)
  PROVE  /\ next[2].builder \in {i, "nobody", r.builder}
         /\ t.phase # "over"
BY DEF Moves, Fetch, Tasks, Records, At, Reporting, Claimed, Cleared, To, Phases, Verdicts, States

LEMMA FailuresClaimOwn ==
  ASSUME NEW i \in Instances, NEW t \in Tasks, NEW r \in Records, NEW next \in Failures(i, t, r)
  PROVE  next[2].builder \in {i, "nobody", r.builder}
<1>1. next[2] = r \/ \E m \in Moves(i, t, r) : next[2] = m[2]
  BY DEF Failures
<1> QED BY <1>1, MovesClaimOwn

LEMMA SignalledOver ==
  ASSUME NEW t \in Tasks, t.phase = "over", NEW s \in Signalled(t) PROVE s = t
BY DEF Signalled, Tasks

LEMMA TaskEnds ==
  ASSUME EndInv, NEW i \in Instances, Step(i) \/ Fail(i) \/ Interrupt(i)
  PROVE  ClaimsOwn' /\ ConsumersFree' /\ OffIdle' /\ EndsIdle'
<1> USE DEF EndInv
<1>0. /\ task \in [Instances -> Tasks] /\ record \in [Builds -> Records]
      /\ running \in [Instances -> Builds \cup {"nobody"}]
      /\ UNCHANGED <<holder, host, running, consuming>> /\ (Twice => Twice')
      /\ consuming \subseteq Instances
  BY DEF SafetyInv, TypeInv, FleetTypeOK, Tasks, Records, Builders, Step, Fail, Interrupt,
         Becomes, Meet, historyVars, Twice
<1>1. ConsumersFree' /\ OffIdle'
  BY <1>0 DEF ConsumersFree, OffIdle
<1>2. CASE Step(i) \/ Fail(i)
  <2>1. PICK next : /\ next \in Moves(i, task[i], record[running[i]])
                       \/ next \in Failures(i, task[i], record[running[i]])
                    /\ Becomes(i, next)
    BY <1>2 DEF Step, Fail
  <2>2. running[i] \in Builds
    BY <1>0, <1>2 DEF Step, Fail
  <2>3. next[2].builder \in {i, "nobody", record[running[i]].builder}
    BY <1>0, <2>1, <2>2, MovesClaimOwn, FailuresClaimOwn
  <2>4. holder[running[i]] = i \/ Twice
    BY <2>2, Distinct DEF SafetyInv, OneCopy
  <2>5. ClaimsOwn'
    BY <1>0, <2>1, <2>2, <2>3, <2>4, Distinct DEF ClaimsOwn, Becomes
  <2>6. task[i].phase # "over"
    BY <1>0, <1>2, <2>2, MovesClaimOwn DEF Step, Fail
  <2>7. EndsIdle'
    BY <1>0, <2>1, <2>2, <2>6, Distinct DEF EndsIdle, Becomes
  <2> QED BY <1>1, <2>5, <2>7
<1>3. CASE Interrupt(i)
  <2>1. UNCHANGED record /\ \E t \in Signalled(task[i]) : task' = [task EXCEPT ![i] = t]
    BY <1>3 DEF Interrupt
  <2>2. EndsIdle'
    BY <1>0, <2>1, SignalledOver DEF EndsIdle
  <2> QED BY <1>0, <1>1, <2>1, <2>2 DEF ClaimsOwn
<1> QED BY <1>2, <1>3

LEMMA VanishEnds ==
  ASSUME EndInv, NEW i \in Instances, Vanish(i), Twice => Twice'
  PROVE  ClaimsOwn' /\ ConsumersFree' /\ OffIdle' /\ EndsIdle'
<1> USE DEF EndInv
<1>1. /\ host' = [host EXCEPT ![i] = "off"] /\ consuming' = consuming \ {i}
      /\ running' = [running EXCEPT ![i] = "nobody"] /\ task' = [task EXCEPT ![i] = Idle]
      /\ holder' = [b \in Builds |-> IF holder[b] = i THEN "gone" ELSE holder[b]]
      /\ record' = [b \in Builds |-> IF record[b].builder = i THEN Claimed("gone", record[b])
                                     ELSE record[b]]
  BY DEF Vanish
<1>2. /\ host \in [Instances -> {"off", "up", "ending", "left"}] /\ consuming \subseteq Instances
      /\ running \in [Instances -> Builds \cup {"nobody"}] /\ task \in [Instances -> Tasks]
      /\ record \in [Builds -> Records]
  BY DEF SafetyInv, TypeInv, FleetTypeOK, Tasks, Records, Builders
<1>3. ClaimsOwn'
  <2>1. \A b \in Builds : record[b].builder = i => record'[b].builder = "gone"
    BY <1>1, <1>2 DEF Claimed, Records
  <2> QED BY <1>1, <2>1, Distinct DEF ClaimsOwn
<1>4. ConsumersFree' /\ OffIdle'
  BY <1>1, <1>2 DEF ConsumersFree, OffIdle
<1>5. EndsIdle'
  BY <1>1, <1>2 DEF EndsIdle
<1> QED BY <1>3, <1>4, <1>5

LEMMA EndEnds ==
  ASSUME EndInv, NEW i \in Instances,
         Release(i) \/ Ack(i) \/ Terminate(i) \/ Crash(i) \/ LoseConnection(i)
  PROVE  ClaimsOwn' /\ ConsumersFree' /\ OffIdle' /\ EndsIdle'
<1> USE DEF EndInv
<1>0. /\ host \in [Instances -> {"off", "up", "ending", "left"}] /\ consuming \subseteq Instances
      /\ running \in [Instances -> Builds \cup {"nobody"}] /\ task \in [Instances -> Tasks]
      /\ holder \in [Builds -> Instances \cup {"queue", "gone", "acked"}]
  BY DEF SafetyInv, TypeInv, FleetTypeOK, Tasks
<1>1. CASE Release(i)
  <2>1. /\ UNCHANGED <<record, holder, running, consuming>> /\ (Twice => Twice')
        /\ task' = [task EXCEPT ![i] = Idle] /\ running[i] \in Builds
        /\ host' \in {Ending(Released(i)), Ending(i), Left(i)}
    BY <1>0, <1>1 DEF Release, Meet, NothingMet, Twice
  <2>2. Released(i) = i \/ Twice
    BY <2>1, Distinct DEF Released, SafetyInv, OneCopy, ClaimsOwn
  <2>3. host' \in [Instances -> {"off", "up", "ending", "left"}]
    BY <1>0, <2>1 DEF Ending, Left
  <2>4. \A j \in Instances : host'[j] = "off" => host[j] = "off"
    BY <1>0, <2>1 DEF Ending, Left
  <2>5. \A j \in Instances \ {i} : host'[j] = "ending" => host[j] = "ending" \/ Twice
    BY <1>0, <2>1, <2>2 DEF Ending, Left
  <2>6. i \notin consuming
    BY <2>1, Distinct DEF ConsumersFree
  <2>7. Idle.phase = "over"
    BY DEF Idle, At
  <2> QED
    BY <1>0, <2>1, <2>4, <2>5, <2>6, <2>7 DEF ClaimsOwn, ConsumersFree, OffIdle, EndsIdle
<1>2. CASE Ack(i)
  BY <1>0, <1>2, Distinct DEF Ack, historyVars, ClaimsOwn, ConsumersFree, OffIdle, EndsIdle, Twice
<1>3. CASE Terminate(i)
  BY <1>3, VanishEnds DEF Terminate, NothingMet, Twice
<1>4. CASE Crash(i)
  BY <1>4, VanishEnds DEF Crash, Meet, Twice
<1>5. CASE LoseConnection(i)
  <2>1. Twice' /\ UNCHANGED <<host, running, consuming>>
    BY <1>5 DEF LoseConnection, Meet, Twice
  <2> QED BY <1>0, <2>1 DEF ClaimsOwn, ConsumersFree, OffIdle, EndsIdle
<1> QED BY <1>1, <1>2, <1>3, <1>4, <1>5

LEMMA OthersEnd ==
  ASSUME EndInv,
         \/ Launch
         \/ \E i \in Instances, b \in Builds : Deliver(i, b)
         \/ \E b \in Builds : Redeliver(b) \/ TimeOutMessage(b) \/ Cancel(b)
  PROVE  ClaimsOwn' /\ ConsumersFree' /\ OffIdle' /\ EndsIdle'
<1> USE DEF EndInv
<1>0. /\ host \in [Instances -> {"off", "up", "ending", "left"}] /\ consuming \subseteq Instances
      /\ running \in [Instances -> Builds \cup {"nobody"}] /\ task \in [Instances -> Tasks]
      /\ holder \in [Builds -> Instances \cup {"queue", "gone", "acked"}]
      /\ record \in [Builds -> Records]
  BY DEF SafetyInv, TypeInv, FleetTypeOK, Tasks, Records, Builders
<1>1. CASE Launch
  <2>1. PICK n \in Free : /\ host' = [host EXCEPT ![Names[n]] = "up"]
                          /\ consuming' = consuming \cup {Names[n]}
    BY <1>1 DEF Launch
  <2>2. Names[n] \in Instances /\ host[Names[n]] = "off"
    BY DEF Free, Instances
  <2> QED
    BY <1>0, <1>1, <2>1, <2>2
    DEF Launch, historyVars, ClaimsOwn, ConsumersFree, OffIdle, EndsIdle, Twice
<1>2. ASSUME NEW i \in Instances, NEW b \in Builds, Deliver(i, b)
      PROVE  ClaimsOwn' /\ ConsumersFree' /\ OffIdle' /\ EndsIdle'
  <2>1. /\ UNCHANGED <<record, host, met>> /\ i \in consuming /\ host[i] # "off"
        /\ holder' = [holder EXCEPT ![b] = i] /\ running' = [running EXCEPT ![i] = b]
        /\ task' = [task EXCEPT ![i] = At("taken")] /\ holder[b] = "queue"
        /\ consuming' = consuming \ {i}
    BY <1>2 DEF Deliver, Held, StopConsuming, historyVars
  <2>2. ClaimsOwn'
    BY <1>0, <2>1, Distinct DEF ClaimsOwn, Twice
  <2>3. ConsumersFree' /\ OffIdle'
    BY <1>0, <2>1 DEF ConsumersFree, OffIdle, Twice
  <2>4. EndsIdle'
    BY <1>0, <2>1 DEF EndsIdle, ConsumersFree, Twice
  <2> QED BY <2>2, <2>3, <2>4
<1>3. ASSUME NEW b \in Builds, Redeliver(b)
      PROVE  ClaimsOwn' /\ ConsumersFree' /\ OffIdle' /\ EndsIdle'
  BY <1>0, <1>3, Distinct
  DEF Redeliver, Requeue, instanceVars, historyVars, ClaimsOwn, ConsumersFree, OffIdle, EndsIdle,
      Twice
<1>4. ASSUME NEW b \in Builds, TimeOutMessage(b)
      PROVE  ClaimsOwn' /\ ConsumersFree' /\ OffIdle' /\ EndsIdle'
  <2>1. Twice' /\ UNCHANGED <<host, running, consuming>>
    BY <1>4 DEF TimeOutMessage, Meet, Twice, instanceVars
  <2> QED BY <1>0, <2>1 DEF ClaimsOwn, ConsumersFree, OffIdle, EndsIdle
<1>5. ASSUME NEW b \in Builds, Cancel(b)
      PROVE  ClaimsOwn' /\ ConsumersFree' /\ OffIdle' /\ EndsIdle'
  <2>1. UNCHANGED <<holder, host, consuming, running, task>> /\ (Twice => Twice')
    BY <1>5 DEF Cancel, Meet, Twice
  <2>2. \A c \in Builds : record'[c].builder = record[c].builder
    BY <1>0, <1>5 DEF Cancel, To, Records
  <2> QED BY <1>0, <2>1, <2>2 DEF ClaimsOwn, ConsumersFree, OffIdle, EndsIdle
<1> QED BY <1>1, <1>2, <1>3, <1>4, <1>5

LEMMA InitEnds == Init => EndInv
<1> SUFFICES ASSUME Init PROVE EndInv
  OBVIOUS
<1>1. \A b \in Builds : record[b].builder = "nobody"
  BY DEF Init, Cleared, To
<1> QED
  BY <1>1, InitSafe, Distinct DEF EndInv, Init, ClaimsOwn, ConsumersFree, OffIdle, EndsIdle

LEMMA NextEnds == ASSUME EndInv, [Next]_vars PROVE EndInv'
<1>1. SafetyInv'
  BY NextSafe DEF EndInv
<1>2. CASE UNCHANGED vars
  BY <1>1, <1>2
  DEF EndInv, vars, instanceVars, historyVars, ClaimsOwn, ConsumersFree, OffIdle, EndsIdle, Twice
<1>3. CASE Next
  BY <1>1, <1>3, TaskEnds, EndEnds, OthersEnd DEF EndInv, Next, Works, Trouble
<1> QED BY <1>2, <1>3

(* Whatever is released and whatever crashes, no instance is terminated    *)
(* while its task is at work, unless its message was delivered twice.      *)
THEOREM InstancesEndIdle == Spec => []EndsIdle
<1>1. EndInv => EndsIdle
  BY DEF EndInv
<1> QED BY <1>1, InitEnds, NextEnds, PTL DEF Spec

-----------------------------------------------------------------------------
(* A build cancelled before it was fetched is not built *)

(* What may turn the report of a cancellation into another's.              *)
Excused == "failure" \in met \/ Twice

(* A task that is given a cancelled build does not come to build it, and   *)
(* no signal that is on its way to it disturbs its report.                 *)
KeepsOut(i) ==
  /\ task[i].phase \notin {"fetched", "reset", "uploading"}
  /\ task[i].phase = "reporting" => task[i].verdict = "cancelled" \/ Excused
  /\ i \in signals => task[i].phase = "over" \/ Excused

CancelledKept ==
  \A b \in early :
    /\ Settled(b) /\ (record[b].state = "cancelled" \/ Excused)
    /\ \A i \in Instances : running[i] = b => KeepsOut(i)

(* A signal is sent for a build that is under way, and until the task that *)
(* has its message has fetched it nobody makes it a waiting one again.     *)
SignalsOnBuildsUnderWay ==
  \A i \in signals :
    task[i].phase \in {"taken", "protected"} => record[running[i]].state # "triggered" \/ Twice

StayInv == SafetyInv /\ CancelledKept /\ SignalsOnBuildsUnderWay

LEMMA MovesKeepOut ==
  ASSUME NEW i \in Instances, NEW t \in Tasks, HasVerdict(t), NEW r \in Records,
         r.state \in Verdicts, t.phase \notin {"fetched", "reset", "uploading"},
         NEW next \in Moves(i, t, r)
  PROVE  /\ next[1].phase \notin {"fetched", "reset", "uploading", "over"}
         /\ next[1].phase = "reporting" => next[1].verdict = "cancelled"
         /\ next[2].state = IF t.phase = "reporting" THEN t.verdict ELSE r.state
         /\ next[2].state \in Verdicts
BY DEF Moves, Fetch, Tasks, Records, HasVerdict, At, Reporting, Claimed, Cleared, To,
       Phases, Verdicts, States

LEMMA FailuresKeepOut ==
  ASSUME NEW i \in Instances, NEW t \in Tasks, HasVerdict(t), NEW r \in Records,
         r.state \in Verdicts, t.phase \notin {"fetched", "reset", "uploading"},
         NEW next \in Failures(i, t, r)
  PROVE  /\ next[1].phase \notin {"fetched", "reset", "uploading"}
         /\ next[2].state \in Verdicts
<1>1. next[1].phase \notin {"fetched", "reset", "uploading"}
  BY DEF Failures, At, Reporting
<1>2. next[2] = r \/ \E m \in Moves(i, t, r) : next[2] = m[2]
  BY DEF Failures
<1> QED BY <1>1, <1>2, MovesKeepOut

LEMMA SignalledKeepOut ==
  ASSUME NEW t \in Tasks, t.phase \notin {"fetched", "reset", "uploading"},
         NEW s \in Signalled(t)
  PROVE  /\ s.phase \notin {"fetched", "reset", "uploading"}
         /\ t.phase = "over" => s = t
BY DEF Signalled, Tasks, At, Reporting

(* A task that has not fetched its build leaves the build's state alone.   *)
LEMMA UnfetchedKeepState ==
  ASSUME NEW i \in Instances, NEW t \in Tasks, HasVerdict(t), NEW r \in Records, NEW next,
         next \in Moves(i, t, r) \/ next \in Failures(i, t, r),
         next[1].phase \in {"taken", "protected"}
  PROVE  t.phase = "taken" /\ next[2].state = r.state
<1>1. CASE next \in Moves(i, t, r)
  BY <1>1 DEF Moves, Fetch, Tasks, Records, HasVerdict, At, Reporting, Claimed, Cleared, To,
              Phases, Verdicts, States
<1>2. CASE next \in Failures(i, t, r)
  <2>1. t.phase = "taken"
    BY <1>2 DEF Failures, At, Reporting
  <2>2. next[2] = r \/ \E m \in Moves(i, t, r) : next[2] = m[2]
    BY <1>2 DEF Failures
  <2> QED BY <2>1, <2>2 DEF Moves, Claimed, Records
<1> QED BY <1>1, <1>2

LEMMA TaskStays ==
  ASSUME StayInv, NEW i \in Instances, Step(i) \/ Fail(i)
  PROVE  CancelledKept' /\ SignalsOnBuildsUnderWay'
<1> DEFINE b == running[i]
<1> USE DEF StayInv
<1>0. /\ task \in [Instances -> Tasks] /\ record \in [Builds -> Records]
      /\ running \in [Instances -> Builds \cup {"nobody"}] /\ signals \subseteq Instances
      /\ early \subseteq Builds /\ HasVerdict(task[i])
      /\ \A j \in signals : running[j] # "nobody"
  BY DEF SafetyInv, TypeInv, FleetTypeOK, Tasks, Records, Builders
<1>1. PICK next : /\ next \in Moves(i, task[i], record[b]) \/ next \in Failures(i, task[i], record[b])
                  /\ Becomes(i, next)
  BY DEF Step, Fail
<1>2. b \in Builds
  BY <1>0 DEF Step, Fail
<1>3. /\ task' = [task EXCEPT ![i] = next[1]] /\ record' = [record EXCEPT ![b] = next[2]]
      /\ UNCHANGED <<running, signals, early>>
  BY <1>1 DEF Step, Fail, Becomes, historyVars
<1>4. (Excused => Excused') /\ (Twice => Twice')
  BY DEF Step, Fail, Meet, historyVars, Excused, Twice
<1>5. ASSUME NEW j \in Instances, j # i, ~Twice PROVE running[j] # b
  BY <1>2, <1>5, Distinct DEF SafetyInv, OneCopy
<1>6. SignalsOnBuildsUnderWay'
  <2>1. SUFFICES ASSUME NEW j \in signals, task'[j].phase \in {"taken", "protected"}, ~Twice'
                 PROVE  record'[running[j]].state # "triggered"
    BY <1>3 DEF SignalsOnBuildsUnderWay, Twice
  <2>2. CASE j = i
    BY <1>0, <1>1, <1>2, <1>3, <1>4, <2>1, <2>2, UnfetchedKeepState DEF SignalsOnBuildsUnderWay
  <2>3. CASE j # i
    BY <1>0, <1>2, <1>3, <1>4, <1>5, <2>1, <2>3 DEF SignalsOnBuildsUnderWay
  <2> QED BY <2>2, <2>3
<1>7. CancelledKept'
  <2>1. SUFFICES ASSUME NEW c \in early
                 PROVE  /\ Settled(c)' /\ (record'[c].state = "cancelled" \/ Excused')
                        /\ \A j \in Instances : running[j] = c => KeepsOut(j)'
    BY <1>3 DEF CancelledKept
  <2>2. CASE c # b
    BY <1>0, <1>2, <1>3, <1>4, <2>1, <2>2 DEF CancelledKept, KeepsOut, Settled
  <2>3. CASE c = b
    <3>1. KeepsOut(i) /\ record[b].state \in Verdicts /\ (record[b].state = "cancelled" \/ Excused)
      BY <2>1, <2>3 DEF CancelledKept, Settled
    <3>2. CASE Step(i)
      <4>1. PICK m \in Moves(i, task[i], record[b]) : Becomes(i, m)
        BY <3>2 DEF Step
      <4>2. /\ task' = [task EXCEPT ![i] = m[1]] /\ record' = [record EXCEPT ![b] = m[2]]
        BY <4>1 DEF Becomes
      <4>3. /\ m[1].phase \notin {"fetched", "reset", "uploading", "over"}
            /\ m[1].phase = "reporting" => m[1].verdict = "cancelled"
            /\ m[2].state = IF task[i].phase = "reporting" THEN task[i].verdict ELSE record[b].state
            /\ m[2].state \in Verdicts
        BY <1>0, <1>2, <3>1, <4>1, MovesKeepOut DEF KeepsOut
      <4>4. task[i].phase # "over"
        BY <1>0, <1>2, <4>1, MovesClaimOwn
      <4>5. KeepsOut(i)'
        BY <1>0, <1>3, <1>4, <3>1, <4>2, <4>3, <4>4 DEF KeepsOut
      <4>6. \A j \in Instances : j # i /\ running[j] = b => KeepsOut(j)'
        BY <1>0, <1>3, <1>4, <2>1, <2>3 DEF CancelledKept, KeepsOut
      <4> QED BY <1>0, <1>2, <1>4, <2>3, <3>1, <4>2, <4>3, <4>5, <4>6 DEF KeepsOut, Settled
    <3>3. CASE Fail(i)
      <4>1. PICK m \in Failures(i, task[i], record[b]) : Becomes(i, m)
        BY <3>3 DEF Fail
      <4>2. /\ task' = [task EXCEPT ![i] = m[1]] /\ record' = [record EXCEPT ![b] = m[2]]
        BY <4>1 DEF Becomes
      <4>3. m[1].phase \notin {"fetched", "reset", "uploading"} /\ m[2].state \in Verdicts
        BY <1>0, <1>2, <3>1, <4>1, FailuresKeepOut DEF KeepsOut
      <4>4. Excused'
        BY <3>3 DEF Fail, Meet, Excused
      <4>5. \A j \in Instances : running[j] = b => KeepsOut(j)'
        BY <1>0, <2>1, <2>3, <4>2, <4>3, <4>4 DEF CancelledKept, KeepsOut
      <4> QED BY <1>0, <1>2, <2>3, <4>2, <4>3, <4>4, <4>5 DEF Settled
    <3> QED BY <3>2, <3>3
  <2> QED BY <2>2, <2>3
<1> QED BY <1>6, <1>7

LEMMA InterruptStays ==
  ASSUME StayInv, NEW i \in Instances, Interrupt(i)
  PROVE  CancelledKept' /\ SignalsOnBuildsUnderWay'
<1> USE DEF StayInv
<1>0. /\ task \in [Instances -> Tasks] /\ running \in [Instances -> Builds \cup {"nobody"}]
      /\ signals \subseteq Instances
  BY DEF SafetyInv, TypeInv, FleetTypeOK, Tasks
<1>1. PICK t \in Signalled(task[i]) : task' = [task EXCEPT ![i] = t]
  BY DEF Interrupt
<1>2. /\ UNCHANGED <<record, running, early, met>> /\ i \in signals /\ signals' = signals \ {i}
  BY DEF Interrupt
<1>3. \A j \in Instances : j # i /\ KeepsOut(j) => KeepsOut(j)'
  BY <1>0, <1>1, <1>2 DEF KeepsOut, Excused, Twice
<1>4. KeepsOut(i) => KeepsOut(i)'
  <2>1. SUFFICES ASSUME KeepsOut(i) PROVE KeepsOut(i)'
    OBVIOUS
  <2>2. /\ t.phase \notin {"fetched", "reset", "uploading"}
        /\ task[i].phase = "over" => t = task[i]
    BY <1>0, <2>1, SignalledKeepOut DEF KeepsOut
  <2>3. task[i].phase = "over" \/ Excused
    BY <1>2, <2>1 DEF KeepsOut
  <2> QED BY <1>0, <1>1, <1>2, <2>2, <2>3 DEF KeepsOut, Excused, Twice
<1>5. CancelledKept'
  BY <1>2, <1>3, <1>4 DEF CancelledKept, Settled, Excused, Twice
<1>6. SignalsOnBuildsUnderWay'
  BY <1>0, <1>1, <1>2 DEF SignalsOnBuildsUnderWay, Twice
<1> QED BY <1>5, <1>6

LEMMA CancelStays ==
  ASSUME StayInv, NEW b \in Builds, Cancel(b)
  PROVE  CancelledKept' /\ SignalsOnBuildsUnderWay'
<1> USE DEF StayInv
<1>0. /\ record \in [Builds -> Records] /\ signals \subseteq Instances /\ early \subseteq Builds
      /\ running \in [Instances -> Builds \cup {"nobody"}] /\ task \in [Instances -> Tasks]
  BY DEF SafetyInv, TypeInv, FleetTypeOK, Records, Builders, Tasks
<1>1. UNCHANGED <<running, task>> /\ (Excused => Excused') /\ (Twice => Twice')
  BY DEF Cancel, Meet, Excused, Twice
<1>2. b \notin early
  BY DEF Cancel, CancelledKept, Settled, Verdicts
<1>3. CASE record[b].state = "triggered"
  <2>1. UNCHANGED signals /\ record' = [record EXCEPT ![b] = To("cancelled", @)]
    BY <1>3 DEF Cancel
  <2>2. record'[b].state = "cancelled" /\ \A c \in Builds \ {b} : record'[c] = record[c]
    BY <1>0, <2>1 DEF To, Records
  <2>3. ASSUME NEW c \in early
        PROVE  /\ Settled(c)' /\ (record'[c].state = "cancelled" \/ Excused')
               /\ \A i \in Instances : running[i] = c => KeepsOut(i)'
    BY <1>0, <1>1, <1>2, <2>1, <2>2, <2>3 DEF CancelledKept, KeepsOut, Settled
  <2>4. ASSUME b \in early', NEW i \in Instances, running[i] = b
        PROVE  KeepsOut(i)'
    <3>1. task[i].phase \in {"taken", "protected", "over"}
      BY <1>2, <1>3, <2>4 DEF Cancel
    <3>2. i \in signals => task[i].phase = "over" \/ Excused
      BY <1>3, <2>4, <3>1 DEF SignalsOnBuildsUnderWay, Excused
    <3> QED BY <1>1, <2>1, <3>1, <3>2 DEF KeepsOut
  <2>5. early' \subseteq early \cup {b}
    BY <1>3 DEF Cancel
  <2>6. CancelledKept'
    BY <1>1, <2>2, <2>3, <2>4, <2>5 DEF CancelledKept, Settled, Verdicts
  <2>7. SignalsOnBuildsUnderWay'
    <3>1. ASSUME NEW i \in signals, running[i] \in Builds,
                 task[i].phase \in {"taken", "protected"}
          PROVE  record'[running[i]].state # "triggered" \/ Twice'
      BY <1>0, <1>1, <2>2, <3>1 DEF SignalsOnBuildsUnderWay
    <3>2. \A i \in signals : running[i] \in Builds
      BY <1>0 DEF SafetyInv, TypeInv
    <3> QED BY <1>1, <2>1, <3>1, <3>2 DEF SignalsOnBuildsUnderWay
  <2> QED BY <2>6, <2>7
<1>4. CASE record[b].state # "triggered"
  <2>1. /\ record[b].state = "underway" /\ UNCHANGED <<record, early>>
        /\ signals' = signals \cup {i \in Instances : Holds(i, b)}
    BY <1>4 DEF Cancel
  <2>2. \A i \in signals' \ signals : running[i] = b
    BY <2>1 DEF Holds
  <2>3. CancelledKept'
    BY <1>1, <1>2, <2>1, <2>2 DEF CancelledKept, KeepsOut, Settled
  <2>4. SignalsOnBuildsUnderWay'
    BY <1>1, <2>1, <2>2 DEF SignalsOnBuildsUnderWay
  <2> QED BY <2>3, <2>4
<1> QED BY <1>3, <1>4

LEMMA VanishStays ==
  ASSUME StayInv, NEW i \in Instances, Vanish(i), NEW kind, Meet(kind) \/ NothingMet
  PROVE  CancelledKept' /\ SignalsOnBuildsUnderWay'
<1> USE DEF StayInv
<1>0. /\ running \in [Instances -> Builds \cup {"nobody"}] /\ task \in [Instances -> Tasks]
      /\ early \subseteq Builds /\ signals \subseteq Instances
      /\ \A j \in signals : running[j] # "nobody"
  BY DEF SafetyInv, TypeInv, FleetTypeOK, Tasks
<1>1. /\ UNCHANGED early /\ signals' = signals \ {i}
      /\ running' = [running EXCEPT ![i] = "nobody"] /\ task' = [task EXCEPT ![i] = Idle]
      /\ \A b \in Builds : record'[b].state = record[b].state
  BY DEF Vanish, Claimed, SafetyInv, TypeInv, FleetTypeOK
<1>2. (Excused => Excused') /\ (Twice => Twice')
  BY DEF Meet, NothingMet, Excused, Twice
<1>3. CancelledKept'
  BY <1>0, <1>1, <1>2, Distinct DEF CancelledKept, KeepsOut, Settled
<1>4. SignalsOnBuildsUnderWay'
  BY <1>0, <1>1, <1>2 DEF SignalsOnBuildsUnderWay
<1> QED BY <1>3, <1>4

LEMMA OthersStay ==
  ASSUME StayInv,
         \/ \E i \in Instances :
              Release(i) \/ Ack(i) \/ Terminate(i) \/ Crash(i) \/ LoseConnection(i)
         \/ Launch
         \/ \E i \in Instances, b \in Builds : Deliver(i, b)
         \/ \E b \in Builds : Redeliver(b) \/ TimeOutMessage(b)
  PROVE  CancelledKept' /\ SignalsOnBuildsUnderWay'
<1> USE DEF StayInv
<1>0. /\ running \in [Instances -> Builds \cup {"nobody"}] /\ task \in [Instances -> Tasks]
      /\ early \subseteq Builds /\ signals \subseteq Instances
      /\ \A j \in signals : running[j] # "nobody"
  BY DEF SafetyInv, TypeInv, FleetTypeOK, Tasks
<1>1. ASSUME NEW i \in Instances, Release(i) \/ Ack(i)
      PROVE  CancelledKept' /\ SignalsOnBuildsUnderWay'
  <2>1. /\ UNCHANGED <<record, early>> /\ signals' \subseteq signals
        /\ (Excused => Excused') /\ (Twice => Twice')
    BY <1>1 DEF Release, Ack, historyVars, Meet, NothingMet, Excused, Twice
  <2>2. /\ \A j \in Instances \ {i} : running'[j] = running[j] /\ task'[j] = task[j]
        /\ running'[i] \in {running[i], "nobody"}
        /\ task'[i].phase = "over"
    BY <1>0, <1>1 DEF Release, Ack, Idle, At
  <2>3. CancelledKept'
    BY <1>0, <2>1, <2>2, Distinct DEF CancelledKept, KeepsOut, Settled
  <2>4. SignalsOnBuildsUnderWay'
    BY <1>0, <2>1, <2>2 DEF SignalsOnBuildsUnderWay
  <2> QED BY <2>3, <2>4
<1>2. ASSUME NEW i \in Instances, Terminate(i) \/ Crash(i)
      PROVE  CancelledKept' /\ SignalsOnBuildsUnderWay'
  BY <1>2, VanishStays DEF Terminate, Crash
<1>3. ASSUME NEW i \in Instances, NEW b \in Builds, Deliver(i, b)
      PROVE  CancelledKept' /\ SignalsOnBuildsUnderWay'
  <2>1. /\ UNCHANGED <<record, signals, met, early>> /\ running[i] = "nobody"
        /\ running' = [running EXCEPT ![i] = b] /\ task' = [task EXCEPT ![i] = At("taken")]
    BY <1>3 DEF Deliver, historyVars
  <2>2. i \notin signals /\ At("taken").phase = "taken"
    BY <1>0, <2>1 DEF At
  <2>3. CancelledKept'
    BY <1>0, <2>1, <2>2 DEF CancelledKept, KeepsOut, Settled, Excused, Twice
  <2>4. SignalsOnBuildsUnderWay'
    BY <1>0, <2>1, <2>2 DEF SignalsOnBuildsUnderWay, Twice
  <2> QED BY <2>3, <2>4
<1>4. ASSUME Launch \/ \E b \in Builds : Redeliver(b)
      PROVE  CancelledKept' /\ SignalsOnBuildsUnderWay'
  <2>1. UNCHANGED <<record, running, task, signals, met, early>>
    BY <1>4 DEF Launch, Redeliver, instanceVars, historyVars
  <2> QED BY <2>1 DEF CancelledKept, KeepsOut, Settled, SignalsOnBuildsUnderWay, Excused, Twice
<1>5. ASSUME \/ \E i \in Instances : LoseConnection(i)
             \/ \E b \in Builds : TimeOutMessage(b)
      PROVE  CancelledKept' /\ SignalsOnBuildsUnderWay'
  <2>1. UNCHANGED <<record, running, task, early>> /\ Twice' /\ Excused'
    BY <1>5 DEF LoseConnection, TimeOutMessage, Meet, Twice, Excused, instanceVars
  <2> QED BY <2>1 DEF CancelledKept, KeepsOut, Settled, SignalsOnBuildsUnderWay
<1> QED BY <1>1, <1>2, <1>3, <1>4, <1>5

LEMMA InitStays == Init => StayInv
BY InitSafe DEF Init, StayInv, CancelledKept, SignalsOnBuildsUnderWay

LEMMA NextStays == ASSUME StayInv, [Next]_vars PROVE StayInv'
<1>1. SafetyInv'
  BY NextSafe DEF StayInv
<1>2. CASE UNCHANGED vars
  BY <1>1, <1>2
  DEF StayInv, vars, instanceVars, historyVars, CancelledKept, KeepsOut, Settled,
      SignalsOnBuildsUnderWay, Excused, Twice
<1>3. CASE Next
  <2>1. CancelledKept' /\ SignalsOnBuildsUnderWay'
    BY <1>3, TaskStays, InterruptStays, CancelStays, OthersStay DEF Next, Works, Trouble
  <2> QED BY <1>1, <2>1 DEF StayInv
<1> QED BY <1>2, <1>3

(* A build cancelled before any task fetched it is built by none, however  *)
(* often its message is delivered and its instances crash, and stays       *)
(* cancelled with the exceptions that the property names.                  *)
THEOREM CancellationsStand == Spec => []CancelledStaysCancelled
<1>1. StayInv => CancelledStaysCancelled
  BY DEF StayInv, CancelledKept, KeepsOut, Excused, CancelledStaysCancelled
<1> QED BY <1>1, InitStays, NextStays, PTL DEF Spec
=============================================================================
