------------------------- MODULE DirectorOrderProofs -------------------------
(***************************************************************************)
(* Proofs about the order of what module Director does: that what the      *)
(* scripts of the steps put first has been done when what depends on it    *)
(* is.  An operation may be skipped by those before it, so the argument    *)
(* is about operations that none before them skips: one that is awaited    *)
(* comes, unless an exception ends the step.                               *)
(***************************************************************************)
EXTENDS DirectorProofs

-----------------------------------------------------------------------------
(* What a sequence of operations is sure to come to *)

(* No operation before the i-th skips it *)
Kept(q, i) == \A k \in 1 .. i - 1 : k + q[k].skip < i

(* One of S comes, and none of T before it *)
Before(q, S, T) ==
  \E i \in DOMAIN q : q[i] \in S /\ Kept(q, i) /\ \A k \in 1 .. i - 1 : q[k] \notin T

Free(q, T) == \A k \in DOMAIN q : q[k] \notin T

LEMMA NothingIsAwaited == ASSUME NEW S, NEW T PROVE ~Before(<<>>, S, T)
BY DEF Before

LEMMA ItComesFirst ==
  ASSUME NEW S, NEW T, NEW op, op \in S PROVE Before(<<op>>, S, T)
BY DEF Before, Kept

(* What is left after the first n *)
LEMMA DropIs ==
  ASSUME NEW S, rest \in Seq(S), NEW n \in Nat
  PROVE  /\ Drop(n) \in Seq(S) /\ DOMAIN Drop(n) = 1 .. Len(Drop(n))
         /\ Len(Drop(n)) = IF n < Len(rest) THEN Len(rest) - n ELSE 0
         /\ \A k \in 1 .. Len(rest) - n : Drop(n)[k] = rest[k + n]
<1> DEFINE q == SubSeq(rest, n + 1, Len(rest))
<1>1. n + 1 \in Int /\ Len(rest) \in Int /\ \A i \in n + 1 .. Len(rest) : rest[i] \in S
  OBVIOUS
<1>2. /\ q \in Seq(S) /\ Len(q) = IF n + 1 <= Len(rest) THEN Len(rest) - (n + 1) + 1 ELSE 0
      /\ \A i \in 1 .. Len(rest) - (n + 1) + 1 : q[i] = rest[n + 1 + i - 1]
  BY <1>1, SubSeqProperties
<1>3. Drop(n) = q
  BY DEF Drop
<1> HIDE DEF q
<1> QED BY <1>1, <1>2, <1>3

(* It stays awaited when an operation that is not it is passed *)
LEMMA StillAwaited ==
  ASSUME NEW S, NEW T, rest \in Seq(Ops), rest # <<>>, Before(rest, S, T), Current \notin S,
         NEW n \in {0, Current.skip}
  PROVE  Before(Drop(1 + n), S, T)
<1>1. PICK i \in DOMAIN rest : rest[i] \in S /\ Kept(rest, i) /\ \A k \in 1 .. i - 1 : rest[k] \notin T
  BY DEF Before
<1>2. Len(rest) \in Nat /\ DOMAIN rest = 1 .. Len(rest) /\ Current = rest[1] /\ Current \in Ops
  BY DEF Current
<1>3. n \in Nat /\ Current.skip \in Nat
  BY <1>2 DEF Ops
<1> DEFINE m == 1 + n
           q == Drop(m)
           j == i - m
<1>4. m \in Nat /\ m < i
  BY <1>1, <1>2, <1>3 DEF Kept
<1> HIDE DEF m
<1>5. DOMAIN q = 1 .. Len(rest) - m /\ \A k \in 1 .. Len(rest) - m : q[k] = rest[k + m]
  <2>1. /\ DOMAIN q = 1 .. Len(q) /\ Len(q) = IF m < Len(rest) THEN Len(rest) - m ELSE 0
        /\ \A k \in 1 .. Len(rest) - m : q[k] = rest[k + m]
    BY <1>4, DropIs
  <2>2. m < Len(rest)
    BY <1>1, <1>2, <1>4
  <2> QED BY <2>1, <2>2
<1> HIDE DEF q
<1>6. j \in DOMAIN q /\ q[j] = rest[i]
  BY <1>1, <1>2, <1>4, <1>5
<1>7. ASSUME NEW k \in 1 .. j - 1 PROVE k + q[k].skip < j /\ q[k] \notin T
  <2>1. q[k] = rest[k + m] /\ k + m \in 1 .. i - 1
    BY <1>1, <1>2, <1>4, <1>5, <1>7
  <2>2. rest[k + m] \in Ops
    BY <1>1, <1>2, <2>1
  <2>3. rest[k + m].skip \in Nat
    BY <2>2 DEF Ops
  <2>4. k + m + rest[k + m].skip < i
    BY <1>1, <2>1 DEF Kept
  <2> QED BY <1>1, <1>2, <1>4, <2>1, <2>3, <2>4
<1>8. Before(q, S, T)
  BY <1>1, <1>6, <1>7 DEF Before, Kept
<1> QED BY <1>8 DEF q, m

(* What is first is not of T, unless it is what is awaited *)
LEMMA FirstIsAllowed ==
  ASSUME NEW S, NEW T, rest \in Seq(Ops), rest # <<>>, Before(rest, S, T), Current \in T
  PROVE  Current \in S
<1>1. PICK i \in DOMAIN rest : rest[i] \in S /\ \A k \in 1 .. i - 1 : rest[k] \notin T
  BY DEF Before
<1>2. Len(rest) \in Nat /\ DOMAIN rest = 1 .. Len(rest) /\ Current = rest[1]
  BY DEF Current
<1> QED BY <1>1, <1>2

LEMMA AwaitedEarly ==
  ASSUME NEW S, NEW T, NEW q \in Seq(Ops), NEW r \in Seq(Ops), Before(q, S, T)
  PROVE  Before(q \o r, S, T)
<1>1. PICK i \in DOMAIN q : q[i] \in S /\ Kept(q, i) /\ \A k \in 1 .. i - 1 : q[k] \notin T
  BY DEF Before
<1>2. i \in DOMAIN (q \o r) /\ \A k \in 1 .. i : (q \o r)[k] = q[k]
  BY <1>1
<1> QED BY <1>1, <1>2 DEF Before, Kept

LEMMA AwaitedLate ==
  ASSUME NEW S, NEW T, NEW q \in Seq(Ops), NEW r \in Seq(Ops), Within(q), Free(q, T), Before(r, S, T)
  PROVE  Before(q \o r, S, T)
<1>1. PICK i \in DOMAIN r : r[i] \in S /\ Kept(r, i) /\ \A k \in 1 .. i - 1 : r[k] \notin T
  BY DEF Before
<1> DEFINE j == Len(q) + i
<1>2. Len(q) \in Nat /\ Len(r) \in Nat /\ i \in 1 .. Len(r) /\ Len(q \o r) = Len(q) + Len(r)
  BY <1>1
<1>3. j \in DOMAIN (q \o r) /\ (q \o r)[j] \in S
  BY <1>1, <1>2
<1>4. ASSUME NEW k \in 1 .. j - 1 PROVE k + (q \o r)[k].skip < j /\ (q \o r)[k] \notin T
  <2>1. CASE k <= Len(q)
    <3>1. (q \o r)[k] = q[k] /\ k \in DOMAIN q /\ q[k] \in Ops
      BY <1>2, <1>4, <2>1
    <3>2. k + q[k].skip <= Len(q) /\ q[k].skip \in Nat
      BY <3>1 DEF Within, Ops
    <3> QED BY <1>2, <3>1, <3>2 DEF Free
  <2>2. CASE k > Len(q)
    <3> DEFINE m == k - Len(q)
    <3>1. (q \o r)[k] = r[m] /\ m \in 1 .. i - 1 /\ r[m] \in Ops
      BY <1>2, <1>4, <2>2
    <3>2. m + r[m].skip < i /\ r[m].skip \in Nat /\ r[m] \notin T
      BY <1>1, <3>1 DEF Kept, Ops
    <3>3. k = Len(q) + m /\ m \in Int
      BY <1>2, <1>4
    <3> HIDE DEF m
    <3> QED BY <1>2, <3>1, <3>2, <3>3
  <2> QED BY <1>2, <1>4, <2>1, <2>2
<1> QED BY <1>3, <1>4 DEF Before, Kept

LEMMA FreeConcat ==
  ASSUME NEW T, NEW q \in Seq(Ops), NEW r \in Seq(Ops), Free(q, T), Free(r, T)
  PROVE  Free(q \o r, T)
<1>1. ASSUME NEW k \in DOMAIN (q \o r) PROVE (q \o r)[k] \notin T
  <2>1. CASE k <= Len(q)
    BY <1>1, <2>1 DEF Free
  <2>2. CASE k > Len(q)
    <3>1. (q \o r)[k] = r[k - Len(q)] /\ k - Len(q) \in DOMAIN r
      BY <1>1, <2>2
    <3> QED BY <3>1 DEF Free
  <2> QED BY <1>1, <2>1, <2>2
<1> QED BY <1>1 DEF Free

(* The scripts are made of operations that stay within them *)
LEMMA ScriptIsSeq ==
  ASSUME NEW s, NEW q \in Scripts(s) PROVE q \in Seq(Ops) /\ Within(q) /\ Free(q, {})
<1>1. OpsOf(s) \subseteq Ops
  BY DEF OpsOf
<1> QED BY <1>1 DEF Scripts, Free

(* What is awaited in one part of a script is awaited in the whole *)
LEMMA AwaitedInConcat ==
  ASSUME NEW s, NEW q \in Scripts(s), NEW r \in Scripts(s), NEW S
  PROVE  /\ \A T : Before(q, S, T) => Before(q \o r, S, T)
         /\ \A T : Free(q, T) /\ Before(r, S, T) => Before(q \o r, S, T)
         /\ Before(r, S, {}) => Before(q \o r, S, {})
         /\ q \o r \in Scripts(s)
BY ScriptIsSeq, AwaitedEarly, AwaitedLate, ConcatIsAScript

-----------------------------------------------------------------------------
(* How a step goes on when nothing is raised *)

HasRun == phase \in {"ran", "saved"}

(* The operation under way stays that *)
Waits ==
  /\ UNCHANGED <<rest, step, effects>>
  /\ HasRun' => HasRun /\ exit' = exit

(* It is over, and the step goes on *)
Passes ==
  /\ rest # <<>> /\ UNCHANGED <<step, effects>>
  /\ phase' = "ready"
  /\ Current.is \notin {"refusal", "crash"}
  /\ Current.is = "load" => Accepted(conf)
  /\ Current.is = "command" => HasRun /\ (exit = "ok" \/ WarnOnly(Current))
  /\ \E n \in {0, Current.skip} : rest' = Drop(1 + n)

LEMMA HowItGoesOn ==
  ASSUME DirectorInv, [Next]_vars, exc' = "none"
  PROVE  /\ exc = "none" /\ conf' = conf /\ proj' = proj /\ struck \subseteq struck'
         /\ StepReturns \/ RunCommand \/ Waits \/ Passes
<1>1. ASSUME NEW n \in {0, Current.skip}, Pass(n), Stay, rest # <<>>, Current.is \notin {"refusal", "crash"},
             Current.is = "load" => Accepted(conf),
             Current.is = "command" => HasRun /\ (exit = "ok" \/ WarnOnly(Current))
      PROVE  Passes /\ exc = "none" /\ conf' = conf /\ proj' = proj
  BY <1>1 DEF Pass, Leave, Stay, Passes
<1>2. ASSUME NEW e, e # "none", Raise(e) PROVE FALSE
  BY <1>2 DEF Raise
<1>3. (Calm => struck \subseteq struck') /\ \A d : Hit(d) => struck \subseteq struck'
  BY DEF Calm, Hit, Strike
<1>4. CASE StepReturns
  BY <1>4 DEF StepReturns
<1>5. CASE RunCommand
  BY <1>3, <1>5 DEF RunCommand, Exec
<1>6. CASE PostCommand /\ Stay
  BY <1>3, <1>6 DEF PostCommand, Stay, Waits, HasRun
<1>7. CASE SaveCommand /\ Stay
  BY <1>3, <1>7 DEF SaveCommand, Stay, Waits, HasRun
<1>8. CASE Judge /\ Stay
  <2> DEFINE own == Translated(Current, IF exit = "exit183" THEN "ExitCode183" ELSE "UserError")
  <2>1. own # "none"
    BY DEF Translated, Cancellations, UserErrors
  <2> HIDE DEF own
  <2>2. ~(exit # "ok" /\ ~WarnOnly(Current))
    BY <1>2, <1>8, <2>1 DEF Judge, own
  <2>3. exit \notin Current.refuses
    BY <1>2, <1>8, <2>2 DEF Judge
  <2> DEFINE n == IF exit = "ok" THEN 0 ELSE Current.skip
  <2>4. Pass(n) /\ n \in {0, Current.skip}
    BY <1>8, <2>2, <2>3 DEF Judge
  <2> HIDE DEF n
  <2>5. At("command") /\ HasRun /\ Calm
    BY <1>8 DEF Judge, HasRun
  <2> QED BY <1>1, <1>3, <1>8, <2>2, <2>4, <2>5 DEF At
<1>9. ASSUME Stay, Pass(0), phase = "ready", rest # <<>>, Current.is \notin {"command", "refusal", "crash"},
             Current.is = "load" => Accepted(conf)
      PROVE  Passes /\ exc = "none" /\ conf' = conf /\ proj' = proj
  BY <1>1, <1>9
<1>10. CASE Request \/ Credentials \/ StoreBuildYaml \/ EditEnvironment
  BY <1>2, <1>3, <1>9, <1>10 DEF Request, Credentials, StoreBuildYaml, EditEnvironment, Operates
<1>11. CASE Refuse \/ Crash \/ RefuseCommand \/ LoseCommand
  BY <1>2, <1>11 DEF Refuse, Crash, RefuseCommand, LoseCommand, LoseDaemon
<1>12. CASE LookForFile
  <2>1. CASE Pass(Current.skip)
    BY <1>1, <1>3, <1>12, <2>1 DEF LookForFile, Operates
  <2> QED BY <1>2, <1>3, <1>9, <1>12, <2>1 DEF LookForFile, Operates
<1>13. CASE LoadConfig
  BY <1>2, <1>3, <1>9, <1>13 DEF LoadConfig, Operates, Accepted
<1>14. CASE Signal
  <2>1. PICK s \in DOMAIN Signals :
          /\ rest # <<>> /\ Hit(s)
          /\ \/ Raise(Signals[s]) \/ Raise(Translated(Current, Signals[s])) \/ Raise("AppError")
             \/ At("best effort") /\ Pass(0) /\ UNCHANGED landed
          /\ UNCHANGED <<conf, proj, step, effects>>
    BY <1>14 DEF Signal
  <2>2. Signals[s] \in {"CancelledByUser", "TimeOut", "SoftTimeLimit"}
    BY DEF Signals
  <2>3. Signals[s] # "none" /\ Translated(Current, Signals[s]) # "none"
    BY <2>2 DEF Translated, Cancellations, UserErrors
  <2>4. At("best effort") /\ Pass(0) /\ UNCHANGED landed
    BY <1>2, <2>1, <2>3
  <2> QED BY <1>1, <1>3, <2>1, <2>4 DEF At, Stay
<1>15. CASE UNCHANGED vars
  BY <1>15 DEF vars, opVars, effects, Waits, HasRun
<1> QED BY <1>4, <1>5, <1>6, <1>7, <1>8, <1>10, <1>11, <1>12, <1>13, <1>14, <1>15 DEF Next, Command

-----------------------------------------------------------------------------
(* A checkout in which nothing goes wrong *)

(* Only a question is answered with a failure *)
CleanInv ==
  step = "setup_vcs" /\ struck = {} =>
    /\ exit # "ok" => exit = "failure" /\ Current.name \in Asking
    /\ Accepted(conf) /\ ~(proj.private /\ proj.writes) => exc = "none"

LEMMA InitIsClean == Init => CleanInv
BY DEF Init, CleanInv

LEMMA CleanKeeps == ASSUME DirectorInv, CleanInv, [Next]_vars PROVE CleanInv'
<1> SUFFICES ASSUME step' = "setup_vcs", struck' = {}
             PROVE  /\ exit' # "ok" => exit' = "failure" /\ Current.name' \in Asking
                    /\ Accepted(conf)' /\ ~(proj'.private /\ proj'.writes) => exc' = "none"
  BY DEF CleanInv
<1>1. \A d : ~Hit(d)
  BY DEF Hit, Strike
<1>2. ASSUME rest # <<>>, step = "setup_vcs" PROVE Current \in Ops /\ OfCheckout(Current)
  BY <1>2, CurrentFits DEF Fits, GitSteps
<1>3. CASE StepReturns
  <2>1. phase = "ready"
    BY <1>3 DEF StepReturns, DirectorInv, DirectorTypeOK
  <2> QED BY <1>3, <2>1 DEF StepReturns, DirectorInv, PhaseInv
<1>4. CASE UNCHANGED vars
  BY <1>4 DEF vars, opVars, CleanInv, Current, Accepted
<1> SUFFICES ASSUME Next, ~StepReturns, ~UNCHANGED vars
             PROVE  /\ exit' # "ok" => exit' = "failure" /\ Current.name' \in Asking
                    /\ Accepted(conf)' /\ ~(proj'.private /\ proj'.writes) => exc' = "none"
  BY <1>3, <1>4
<1>5. step = "setup_vcs" /\ conf' = conf /\ proj' = proj /\ rest # <<>>
  BY DEF Next, RunCommand, LoseCommand, LoseDaemon, RefuseCommand, Exec, Started, At, Command, Stay,
         PostCommand, SaveCommand, Judge, Request, Credentials,
         LookForFile, Refuse, LoadConfig, EditEnvironment, Crash, StoreBuildYaml, Operates, Signal
<1>6. Current \in Ops /\ OfCheckout(Current)
  BY <1>2, <1>5
<1>7. struck = {}
  BY DEF Next, RunCommand, LoseCommand, LoseDaemon, RefuseCommand, Exec, Started, Calm, Command,
         PostCommand, SaveCommand, Judge, Request, Credentials,
         LookForFile, Refuse, LoadConfig, EditEnvironment, Crash, StoreBuildYaml, Signal, Hit, Strike
<1>8. CASE RunCommand
  <2>1. PICK x \in Exits : Exec(x, NaturalExits(Current))
    BY <1>8 DEF RunCommand
  <2>2. x \in NaturalExits(Current) /\ exit' = x /\ rest' = rest /\ exc' = exc
    BY <1>1, <2>1 DEF Exec
  <2>3. x = "ok" \/ (x = "failure" /\ Current.name \in Asking)
    BY <2>2 DEF NaturalExits, Asking, Questions
  <2> QED BY <1>5, <1>7, <2>2, <2>3 DEF CleanInv, Current, Accepted
<1>9. CASE PostCommand /\ Stay
  BY <1>1, <1>5, <1>7, <1>9 DEF PostCommand, CleanInv, Current, Accepted
<1>10. CASE SaveCommand /\ Stay
  BY <1>1, <1>5, <1>7, <1>10 DEF SaveCommand, CleanInv, Current, Accepted
<1>11. CASE Judge /\ Stay
  <2>1. exit # "ok" => exit = "failure" /\ WarnOnly(Current)
    BY <1>5, <1>6, <1>7 DEF CleanInv, OfCheckout
  <2>2. exit \notin Current.refuses
    <3>1. Current.refuses \subseteq {"lost"} /\ exit # "lost"
      BY <1>6, <2>1 DEF OfCheckout
    <3> QED BY <3>1
  <2>3. exit' = "ok" /\ exc' = exc
    BY <1>11, <2>1, <2>2 DEF Judge, Pass, Leave
  <2> QED BY <1>5, <1>7, <2>3 DEF CleanInv, Accepted
<1>12. CASE Request \/ Credentials \/ LookForFile \/ EditEnvironment \/ Crash \/ StoreBuildYaml
  <2>1. Request /\ Pass(0)
    BY <1>1, <1>6, <1>12
       DEF Request, Credentials, LookForFile, EditEnvironment, Crash, StoreBuildYaml, Operates, OfCheckout
  <2> QED BY <1>5, <1>7, <2>1 DEF Pass, Leave, CleanInv, Accepted
<1>13. CASE Refuse \/ LoseCommand \/ RefuseCommand
  BY <1>1, <1>5, <1>6, <1>13
     DEF Refuse, LoseCommand, LoseDaemon, RefuseCommand, Refused, Operates, OfCheckout, Raise, Leave
<1>14. CASE LoadConfig
  BY <1>5, <1>7, <1>14 DEF LoadConfig, Pass, Raise, Leave, CleanInv, Accepted
<1>15. CASE Signal
  BY <1>1, <1>15 DEF Signal
<1> QED BY <1>8, <1>9, <1>10, <1>11, <1>12, <1>13, <1>14, <1>15 DEF Next, Command, Over

(* Nothing in a checkout makes it fail on its own: whatever the git        *)
(* commands that ask a question answer, and whatever the version, the      *)
(* submodules and the key, as long as the policy allows it.                *)
THEOREM CleanCheckoutsSucceed == Spec => []CleanCheckoutSucceeds
<1>1. CleanInv => CleanCheckoutSucceeds
  BY DEF CleanInv, CleanCheckoutSucceeds
<1>2. Spec => []CleanInv
  <2>1. DirectorInv /\ CleanInv /\ [Next]_vars => CleanInv'
    BY CleanKeeps
  <2> QED BY InitIsClean, <2>1, DirectorInvariant, PTL DEF Spec
<1> QED BY <1>1, <1>2, PTL

-----------------------------------------------------------------------------
(* The configuration is loaded, and accepted, before it is used *)

Loads == {op \in Ops : op.is = "load"}

LoadedInv ==
  /\ proj.uploaded => step \in {"create_build_environment", "download_artifacts", "extract_artifacts",
                                "check_old_output", "done"}
  /\ ~proj.uploaded /\ exc = "none" =>
       \/ step = "create_vcs_environment"
       \/ step = "setup_vcs" /\ Before(rest, Loads, {})
       \/ Accepted(conf)

(* What is awaited in setup_vcs, given what is in its checkout *)
LEMMA AwaitedInSetupVcs ==
  ASSUME Typed, NEW S, NEW T, Before(Checkout, S, T),
         Free(MakeDir \o SetupSshAgent \o MakeDir, T)
  PROVE  Before(Script("setup_vcs"), S, T)
<1> DEFINE Q == Scripts("setup_vcs")
<1>1. "setup_vcs" \in GitSteps /\ "setup_vcs" \notin EmptySteps \cup OwnSteps \cup {"checkout"}
      /\ "post_checkout" \in AllJobs
  BY DEF GitSteps, EmptySteps, OwnSteps, AllJobs
<1>2. MakeDir \o SetupSshAgent \o MakeDir \in Q /\ Checkout \in Q /\ Job("post_checkout") \in Q
      /\ ParseRev \in Q
  BY <1>1, CheckoutPartsFit, CheckoutFits, JobFits, ConcatIsAScript
<1>3. Before(MakeDir \o SetupSshAgent \o MakeDir \o Checkout, S, T)
      /\ MakeDir \o SetupSshAgent \o MakeDir \o Checkout \in Q
  BY <1>2, AwaitedInConcat
<1>4. Before(MakeDir \o SetupSshAgent \o MakeDir \o Checkout \o Job("post_checkout"), S, T)
      /\ MakeDir \o SetupSshAgent \o MakeDir \o Checkout \o Job("post_checkout") \in Q
  BY <1>2, <1>3, AwaitedInConcat
<1>5. Before(SetupVcs, S, T)
  BY <1>2, <1>4, AwaitedInConcat, CheckoutIs
<1> QED BY <1>5 DEF Script

LEMMA CheckoutLoads == ASSUME Typed PROVE Before(Script("setup_vcs"), Loads, {})
<1> DEFINE Q == Scripts("setup_vcs")
           get == Update \o When(proj.private, ProbeKey) \o CheckoutRef
           cat == Recorded("cat config")
           load == Operation("load", "config")
<1>1. "setup_vcs" \in GitSteps
  BY DEF GitSteps
<1>2. get \in Q /\ LoadConf \in Q /\ UpdateSubmodules \in Q /\ HoldBack \in Q
      /\ MakeDir \o SetupSshAgent \o MakeDir \in Q
  BY <1>1, CheckoutPartsFit, ConcatIsAScript
<1>3. Before(LoadConf, Loads, {})
  <2>1. load \in Loads /\ cat.skip = 0
    BY OperationTyped DEF Kinds, Names, Objects, Loads, Recorded, Operation
  <2> HIDE DEF load, cat
  <2>2. Before(<<cat, load>>, Loads, {})
    BY <2>1 DEF Before, Kept
  <2> QED BY <2>2 DEF LoadConf, load, cat
<1> HIDE DEF get
<1>4. get \o LoadConf \in Q /\ Before(get \o LoadConf, Loads, {})
  BY <1>2, <1>3, AwaitedInConcat
<1>5. get \o LoadConf \o UpdateSubmodules \in Q /\ Before(get \o LoadConf \o UpdateSubmodules, Loads, {})
  BY <1>2, <1>4, AwaitedInConcat
<1>6. Before(get \o LoadConf \o UpdateSubmodules \o HoldBack, Loads, {})
  BY <1>2, <1>5, AwaitedInConcat
<1>7. Before(Checkout, Loads, {})
  BY <1>6, CheckoutIs DEF get
<1>8. Free(MakeDir \o SetupSshAgent \o MakeDir, {})
  BY <1>2, ScriptIsSeq
<1> QED BY <1>7, <1>8, AwaitedInSetupVcs

LEMMA RestIsSeq == ASSUME DirectorInv PROVE rest \in Seq(Ops) /\ rest \in Seq(OpsOf(step))
BY DEF DirectorInv, OpsInv, OpsOf

LEMMA InitIsLoaded == Init => LoadedInv
BY BuildsAssumption DEF Init, LoadedInv, Projects

LEMMA LoadedKeeps == ASSUME DirectorInv, LoadedInv, [Next]_vars PROVE LoadedInv'
<1>1. conf' = conf /\ proj' = proj /\ (step' = step \/ StepReturns)
  BY DEF Next, RunCommand, LoseCommand, RefuseCommand, Command, Stay, Request, Credentials, LookForFile,
         Refuse, LoadConfig, EditEnvironment, Crash, StoreBuildYaml, Signal, StepReturns, vars, opVars
<1>2. ASSUME proj.uploaded
      PROVE  step' \in {"create_build_environment", "download_artifacts", "extract_artifacts",
                       "check_old_output", "done"}
  <2>1. CASE StepReturns
    BY <1>2, <2>1 DEF StepReturns, NextStep, LoadedInv
  <2> QED BY <1>1, <1>2, <2>1 DEF LoadedInv
<1>3. ASSUME ~proj.uploaded, exc' = "none"
      PROVE  \/ step' = "create_vcs_environment"
             \/ step' = "setup_vcs" /\ Before(rest', Loads, {})
             \/ Accepted(conf)
  <2>1. exc = "none" /\ (StepReturns \/ RunCommand \/ Waits \/ Passes)
    BY <1>3, HowItGoesOn
  <2>2. CASE StepReturns
    <3>1. CASE step = "create_vcs_environment"
      BY <2>2, <3>1, CheckoutLoads DEF StepReturns, NextStep, DirectorInv
    <3>2. CASE step # "create_vcs_environment"
      BY <1>3, <2>1, <2>2, <3>2, NothingIsAwaited DEF StepReturns, LoadedInv
    <3> QED BY <3>1, <3>2
  <2>3. CASE RunCommand \/ Waits
    BY <1>3, <2>1, <2>3 DEF RunCommand, Exec, Waits, LoadedInv
  <2>4. CASE Passes /\ ~Accepted(conf)
    <3>1. Current \notin Loads
      BY <2>4 DEF Passes, Loads
    <3>2. Before(rest, Loads, {}) => Before(rest', Loads, {})
      BY <2>4, <3>1, StillAwaited, RestIsSeq DEF Passes
    <3> QED BY <1>3, <2>1, <2>4, <3>2 DEF Passes, LoadedInv
  <2> QED BY <2>1, <2>2, <2>3, <2>4
<1> QED BY <1>1, <1>2, <1>3 DEF LoadedInv, Accepted

THEOREM ConfigurationIsLoaded == Spec => []LoadedInv
<1>1. DirectorInv /\ LoadedInv /\ [Next]_vars => LoadedInv'
  BY LoadedKeeps
<1> QED BY InitIsLoaded, <1>1, DirectorInvariant, PTL DEF Spec

(* The validators leave nothing open that a build with Sphinx or MkDocs    *)
(* needs                                                                   *)
LEMMA AcceptedMeans ==
  ASSUME NEW c, Accepted(c)
  PROVE  \A v \in {"build", "doc_types", "mkdocs", "sphinx", "required", "keys"} :
           ~Rejects(v, c) /\ ~Crashes(v, c)
<1>1. \A i \in DOMAIN Validators : ~Rejects(Validators[i], c) /\ ~Crashes(Validators[i], c)
  BY DEF Accepted, Verdict, Fails
<1>2. /\ Validators[2] = "build" /\ Validators[5] = "doc_types" /\ Validators[6] = "mkdocs"
      /\ Validators[7] = "sphinx" /\ Validators[10] = "required" /\ Validators[11] = "keys"
      /\ {2, 5, 6, 7, 10, 11} \subseteq DOMAIN Validators
  BY DEF Validators
<1> QED BY <1>1, <1>2

LEMMA DocToolIsConfigured ==
  ASSUME Typed, Accepted(conf), Doctype(conf) # "generic"
  PROVE  IF Doctype(conf) = "mkdocs" THEN conf.mkdocs = "configured" ELSE conf.sphinx = "configured"
<1>1. \A v \in {"build", "doc_types", "mkdocs", "sphinx", "required", "keys"} :
        ~Rejects(v, conf) /\ ~Crashes(v, conf)
  BY AcceptedMeans
<1>2. ~UsesCommands(conf) /\ (Overrides(conf) => HasDocTool(conf))
  BY DEF Doctype
<1>3. ~ConfigMissing(conf)
  BY <1>1, <1>2 DEF Rejects
<1>4. conf.sphinx # "null" /\ conf.mkdocs # "null" /\ ~(conf.sphinx # "absent" /\ conf.mkdocs # "absent")
  BY <1>1, <1>2 DEF Rejects, Crashes
<1> QED BY <1>2, <1>3, <1>4 DEF ConfigMissing, HasDocTool, Doctype, Typed, IsConfiguration

(* A documentation tool is only run with a configuration that names its    *)
(* file: by then the configuration was loaded and accepted.                *)
THEOREM DocToolIsOnlyRunConfigured == Spec => []DocToolConfigured
<1>1. ASSUME DirectorInv, LoadedInv, At("command"), Current.name = "doctool"
      PROVE  IF Doctype(conf) = "mkdocs" THEN conf.mkdocs = "configured" ELSE conf.sphinx = "configured"
  <2>1. rest # <<>>
    BY <1>1 DEF At
  <2>2. Fits(Current, step)
    BY <1>1, <2>1, CurrentFits
  <2>3. Doctype(conf) # "generic" /\ step = "build"
    BY <1>1, <2>2 DEF Fits
  <2>4. exc = "none"
    <3>1. exc # "none" => Current = RemoveRemote
      BY <1>1, <2>1 DEF DirectorInv, RaisedInv, Current
    <3>2. RemoveRemote.name = "remote remove"
      BY DEF RemoveRemote, Git, Unrecorded, Recorded, Operation
    <3> QED BY <1>1, <3>1, <3>2
  <2>5. Accepted(conf)
    BY <1>1, <2>3, <2>4 DEF LoadedInv
  <2> QED BY <1>1, <2>3, <2>5, DocToolIsConfigured DEF DirectorInv
<1>2. DirectorInv /\ LoadedInv => DocToolConfigured
  BY <1>1 DEF DocToolConfigured
<1> QED BY <1>2, DirectorInvariant, ConfigurationIsLoaded, PTL

-----------------------------------------------------------------------------
(* No job is run in a checkout whose key has write access *)

Jobs     == {op \in Ops : op.name = "job"}
Refusals == {op \in Ops : op.is = "refusal"}

(* There is a post_checkout job, and it must not be run *)
Held == proj.private /\ proj.writes /\ Commands(conf, "post_checkout") > 0

HeldInv ==
  /\ proj.private /\ proj.writes => "post_checkout" \notin ranJob
  /\ Held =>
       /\ step = "setup_vcs" /\ exc = "none" => Before(rest, Refusals, Jobs)
       /\ step \in {"create_vcs_environment", "setup_vcs"} \/ proj.uploaded

LEMMA CheckoutHolds == ASSUME Typed, Held PROVE Before(Script("setup_vcs"), Refusals, Jobs)
<1> DEFINE Q == Scripts("checkout")
           front == Update \o When(proj.private, ProbeKey) \o CheckoutRef \o LoadConf \o UpdateSubmodules
           start == MakeDir \o SetupSshAgent \o MakeDir
<1>1. "checkout" \in GitSteps
  BY DEF GitSteps
<1>2. front \in Q /\ HoldBack \in Q /\ start \in Q
  BY <1>1, CheckoutPartsFit, ConcatIsAScript
<1>3. ASSUME NEW q \in Q PROVE Free(q, Jobs)
  BY DEF Scripts, OpsOf, Fits, Free, Jobs
<1>4. Before(HoldBack, Refusals, Jobs)
  <2>1. Operation("refusal", "write access") \in Refusals
    <3>1. "refusal" \in Kinds /\ "write access" \in Names
      BY DEF Kinds, Names, Objects
    <3> QED BY <3>1, OperationTyped DEF Refusals
  <2> QED BY <2>1, ItComesFirst DEF HoldBack, When, Held
<1> HIDE DEF front, start
<1>5. Before(front \o HoldBack, Refusals, Jobs)
  BY <1>2, <1>3, <1>4, AwaitedInConcat
<1>6. Before(Checkout, Refusals, Jobs)
  BY <1>5, CheckoutIs DEF front
<1> QED BY <1>2, <1>3, <1>6, AwaitedInSetupVcs DEF start

LEMMA InitIsHeld == Init => HeldInv
BY BuildsAssumption DEF Init, HeldInv

LEMMA HeldKeeps == ASSUME DirectorInv, LoadedInv, HeldInv, [Next]_vars PROVE HeldInv'
<1>1. conf' = conf /\ proj' = proj /\ (step' = step \/ StepReturns)
      /\ (ranJob' = ranJob \/ RunCommand \/ LoseCommand)
  BY DEF Next, RunCommand, LoseCommand, RefuseCommand, Command, Stay, Request, Credentials, LookForFile,
         Refuse, LoadConfig, EditEnvironment, Crash, StoreBuildYaml, Signal, StepReturns, vars, opVars, effects
<1>2. Held' = Held
  BY <1>1 DEF Held, Commands, Listed
<1>3. ASSUME proj.private, proj.writes, RunCommand \/ LoseCommand, Current.name = "job", Current.of = "post_checkout"
      PROVE  FALSE
  <2>1. At("command") /\ rest # <<>>
    BY <1>3 DEF RunCommand, Exec, LoseCommand, LoseDaemon, Started, At
  <2>2. Current \in Ops /\ Fits(Current, step)
    BY <2>1, CurrentFits
  <2>3. Held
    BY <1>3, <2>2 DEF Fits, Held
  <2>4. step \notin EmptySteps \cup OwnSteps
    BY <1>3, <2>2 DEF Fits, UsersCommands
  <2>5. step = "setup_vcs"
    BY <2>3, <2>4 DEF HeldInv, LoadedInv, EmptySteps, OwnSteps
  <2>6. exc = "none"
    <3>1. exc # "none" => Current = RemoveRemote
      BY <2>1 DEF DirectorInv, RaisedInv, Current
    <3>2. RemoveRemote.name = "remote remove"
      BY DEF RemoveRemote, Git, Unrecorded, Recorded, Operation
    <3> QED BY <1>3, <3>1, <3>2
  <2>7. Current \in Refusals
    BY <1>3, <2>1, <2>2, <2>3, <2>5, <2>6, FirstIsAllowed, RestIsSeq DEF HeldInv, Jobs
  <2> QED BY <2>1, <2>7 DEF At, Refusals
<1>4. proj.private /\ proj.writes => "post_checkout" \notin ranJob'
  BY <1>1, <1>3 DEF RunCommand, LoseCommand, Leaves, effects, HeldInv
<1>5. ASSUME Held, step' = "setup_vcs", exc' = "none" PROVE Before(rest', Refusals, Jobs)
  <2>1. exc = "none" /\ (StepReturns \/ RunCommand \/ Waits \/ Passes)
    BY <1>5, HowItGoesOn
  <2>2. CASE StepReturns
    BY <1>5, <2>2, CheckoutHolds DEF StepReturns, DirectorInv
  <2>3. CASE RunCommand \/ Waits
    BY <1>5, <2>1, <2>3 DEF RunCommand, Exec, Waits, HeldInv
  <2>4. CASE Passes
    <3>1. Current \notin Refusals
      BY <2>4 DEF Passes, Refusals
    <3> QED BY <1>5, <2>1, <2>4, <3>1, StillAwaited, RestIsSeq DEF Passes, HeldInv
  <2> QED BY <2>1, <2>2, <2>3, <2>4
<1>6. ASSUME Held PROVE step' \in {"create_vcs_environment", "setup_vcs"} \/ proj.uploaded
  <2>1. CASE StepReturns
    BY <1>6, <2>1, NothingIsAwaited DEF StepReturns, NextStep, HeldInv
  <2> QED BY <1>1, <1>6, <2>1 DEF HeldInv
<1> QED BY <1>1, <1>2, <1>4, <1>5, <1>6 DEF HeldInv

(* No command of post_checkout is run in a checkout whose key has write    *)
(* access: none before the refusal, which nothing skips, and none after it.*)
THEOREM NoJobIsRunWithWriteKey == Spec => []NoJobWithWriteKey
<1>1. HeldInv => NoJobWithWriteKey
  BY DEF HeldInv, NoJobWithWriteKey
<1>2. DirectorInv /\ LoadedInv /\ HeldInv /\ [Next]_vars => HeldInv'
  BY HeldKeeps
<1> QED BY InitIsHeld, <1>1, <1>2, DirectorInvariant, ConfigurationIsLoaded, PTL DEF Spec

-----------------------------------------------------------------------------
(* The tools are installed before the build's own commands start *)

(* What fails unless tool t is installed *)
UseOf(t) == {op \in Ops : op.is = "command" /\ op.name = "asdf global" /\ op.of = t /\ ~WarnOnly(op)}

ToolsInv ==
  /\ HasRun /\ Current.name = "asdf global" /\ exit = "ok" => Current.of \in tools
  /\ \A t \in Tools :
       /\ step \in {"setup_environment", "install_build_tools"} /\ exc = "none" =>
            t \in tools \/ Before(rest, UseOf(t), {})
       /\ step \in {"run_build_commands", "build"} => t \in tools

LEMMA ToolsAreUsed ==
  ASSUME Typed, NEW s \in {"setup_environment", "install_build_tools"}, NEW t \in Tools,
         s = "setup_environment" => ~UsesCommands(conf)
  PROVE  Before(Script(s), UseOf(t), {})
<1> DEFINE Q == Scripts(s)
           S == UseOf(t)
           Installed(x) == When(x \in Tools, InstallTool(x))
           cred == <<Operation("credentials", "build tools")>>
<1>1. Before(Use(t), S, {})
  <2> DEFINE use    == About(t, Recorded("asdf global"))
             reshim == Unrecorded("asdf reshim")
  <2>1. use \in Ops
    BY InstallToolPartsFit DEF Flat, OpsOf
  <2>2. use.is = "command" /\ use.name = "asdf global" /\ use.of = t
    BY DEF About, Recorded, Operation
  <2>3. ~WarnOnly(use)
    BY DEF About, Recorded, Operation, WarnOnly
  <2> HIDE DEF use, reshim
  <2>4. use \in S
    BY <2>1, <2>2, <2>3 DEF UseOf
  <2>5. Before(<<use, reshim>>, S, {})
    BY <2>4 DEF Before, Kept
  <2> QED BY <2>5 DEF Use, use, reshim
<1> HIDE DEF S
<1>2. Before(InstallTool(t), S, {})
  <2>1. AskCache \o Get(t) \in Q /\ Use(t) \in Q /\ Extra(t) \in Q /\ Boot(t) \in Q
    BY InstallToolPartsFit, ConcatIsAScript
  <2>2. AskCache \o Get(t) \o Use(t) \in Q /\ Before(AskCache \o Get(t) \o Use(t), S, {})
    BY <1>1, <2>1, AwaitedInConcat
  <2>3. AskCache \o Get(t) \o Use(t) \o Extra(t) \in Q
        /\ Before(AskCache \o Get(t) \o Use(t) \o Extra(t), S, {})
    BY <2>1, <2>2, AwaitedInConcat
  <2>4. Before(AskCache \o Get(t) \o Use(t) \o Extra(t) \o Boot(t), S, {})
    BY <2>1, <2>3, AwaitedInConcat
  <2> QED BY <2>4, InstallToolIs
<1>3. cred \in Q /\ Installed("python") \in Q /\ Installed("other") \in Q
  BY InstallBuildToolsPartsFit
<1>4. Before(Installed(t), S, {}) /\ t \in {"python", "other"}
  BY <1>2 DEF When, Tools
<1> HIDE DEF cred, Installed
<1>5. cred \o Installed("python") \in Q /\ (t = "python" => Before(cred \o Installed("python"), S, {}))
  BY <1>3, <1>4, AwaitedInConcat
<1>6. Before(cred \o Installed("python") \o Installed("other"), S, {})
  BY <1>3, <1>4, <1>5, AwaitedInConcat
<1>7. Before(InstallBuildTools, S, {})
  BY <1>6 DEF InstallBuildTools, cred, Installed
<1>8. CASE s = "install_build_tools"
  BY <1>7, <1>8 DEF Script, S
<1>9. CASE s = "setup_environment"
  <2> DEFINE one   == Hooked("pre_system_dependencies", SystemDependencies, "post_system_dependencies")
             three == Hooked("pre_create_environment", CreateEnvironment, "post_create_environment")
             four  == Hooked("pre_install", Install, "post_install")
  <2>1. one \in Q /\ InstallBuildTools \in Q /\ three \in Q /\ four \in Q
    BY <1>9, SetupEnvironmentPartsFit
  <2> HIDE DEF one, three, four
  <2>2. one \o InstallBuildTools \in Q /\ Before(one \o InstallBuildTools, S, {})
    BY <1>7, <2>1, AwaitedInConcat
  <2>3. one \o InstallBuildTools \o three \in Q /\ Before(one \o InstallBuildTools \o three, S, {})
    BY <2>1, <2>2, AwaitedInConcat
  <2>4. Before(one \o InstallBuildTools \o three \o four, S, {})
    BY <2>1, <2>3, AwaitedInConcat
  <2>5. Before(SetupEnvironment, S, {})
    BY <2>4 DEF SetupEnvironment, one, three, four
  <2> QED BY <1>9, <2>5 DEF Script, S
<1> QED BY <1>8, <1>9

LEMMA InitHasTools == Init => ToolsInv
BY DEF Init, ToolsInv, HasRun

(* An effect of the operation under way, once it has run, stays *)
LEMMA RanKeeps ==
  ASSUME DirectorInv, [Next]_vars, HasRun', ~RunCommand
  PROVE  HasRun /\ rest' = rest /\ exit' = exit /\ UNCHANGED effects
<1>1. CASE UNCHANGED vars
  BY <1>1 DEF vars, opVars, effects, HasRun
<1>2. ASSUME NEW n, Pass(n) PROVE FALSE
  BY <1>2 DEF Pass, Leave, HasRun
<1>3. ASSUME NEW e, Raise(e) PROVE FALSE
  BY <1>3 DEF Raise, Leave, HasRun
<1>4. CASE PostCommand /\ Stay
  BY <1>4 DEF PostCommand, HasRun
<1>5. CASE SaveCommand /\ Stay
  BY <1>5 DEF SaveCommand, HasRun, Stay
<1>6. CASE Judge \/ Request \/ Credentials \/ LookForFile \/ Refuse \/ LoadConfig \/ EditEnvironment
           \/ Crash \/ StoreBuildYaml \/ LoseCommand \/ RefuseCommand
  BY <1>2, <1>3, <1>6 DEF Judge, Request, Credentials, LookForFile, Refuse, LoadConfig, EditEnvironment,
                          Crash, StoreBuildYaml, LoseCommand, LoseDaemon, RefuseCommand
<1>7. CASE Signal
  BY <1>2, <1>3, <1>7 DEF Signal
<1>8. CASE StepReturns
  BY <1>8 DEF StepReturns, HasRun, DirectorInv, DirectorTypeOK
<1> QED BY <1>1, <1>4, <1>5, <1>6, <1>7, <1>8 DEF Next, Command

(* Who changes what *)
LEMMA OnlyTheseChange ==
  ASSUME [Next]_vars
  PROVE  /\ conf' = conf /\ proj' = proj
         /\ step' = step \/ StepReturns
         /\ UNCHANGED effects \/ RunCommand \/ LoseCommand
BY DEF Next, RunCommand, LoseCommand, LoseDaemon, RefuseCommand, Exec, Started, Command, PostCommand,
       SaveCommand, Judge, Stay, Request, Credentials,
       LookForFile, Refuse, LoadConfig, EditEnvironment, Crash, StoreBuildYaml, Signal, StepReturns, vars,
       opVars, effects

LEMMA StruckGrows == ASSUME [Next]_vars PROVE struck \subseteq struck'
<1>1. (Calm => struck \subseteq struck') /\ \A d : Hit(d) => struck \subseteq struck'
  BY DEF Calm, Hit, Strike
<1> QED BY <1>1 DEF Next, RunCommand, LoseCommand, LoseDaemon, RefuseCommand, Exec, Started, Command,
                    PostCommand, SaveCommand, Judge, Request, Credentials,
                    LookForFile, Refuse, LoadConfig, EditEnvironment, Crash, StoreBuildYaml, Signal,
                    StepReturns, vars, opVars

LEMMA ToolsKeep == ASSUME DirectorInv, ToolsInv, [Next]_vars PROVE ToolsInv'
<1>1. conf' = conf /\ (step' = step \/ StepReturns) /\ (tools' = tools \/ RunCommand \/ LoseCommand)
  BY OnlyTheseChange DEF effects
<1>2. tools \subseteq tools'
  BY <1>1 DEF RunCommand, LoseCommand, Leaves, effects
<1>3. HasRun' /\ Current.name' = "asdf global" /\ exit' = "ok" => Current.of' \in tools'
  <2>1. CASE RunCommand
    <3>1. PICK x \in Exits : Exec(x, NaturalExits(Current))
      BY <2>1 DEF RunCommand
    <3>2. rest' = rest /\ exit' = x /\ (x = "ok" => x \in NaturalExits(Current))
      BY <3>1 DEF Exec
    <3>3. Current.name = "asdf global" /\ x = "ok" => Current.of \in tools
      BY <3>2 DEF NaturalExits
    <3> QED BY <1>2, <3>2, <3>3 DEF Current
  <2>2. CASE ~RunCommand
    BY <1>2, <2>2, RanKeeps DEF ToolsInv, Current
  <2> QED BY <2>1, <2>2
<1>4. ASSUME NEW t \in Tools, step' \in {"run_build_commands", "build"} PROVE t \in tools'
  <2>1. CASE StepReturns
    BY <1>2, <1>4, <2>1, NothingIsAwaited DEF StepReturns, NextStep, ToolsInv
  <2> QED BY <1>1, <1>2, <1>4, <2>1 DEF ToolsInv
<1>5. ASSUME NEW t \in Tools, step' \in {"setup_environment", "install_build_tools"}, exc' = "none"
      PROVE  t \in tools' \/ Before(rest', UseOf(t), {})
  <2>1. exc = "none" /\ (StepReturns \/ RunCommand \/ Waits \/ Passes)
    BY HowItGoesOn, <1>5
  <2>2. CASE StepReturns
    <3>1. step' = "setup_environment" => ~UsesCommands(conf)
      BY <2>2 DEF StepReturns, NextStep
    <3>2. Before(Script(step'), UseOf(t), {})
      BY <1>5, <3>1, ToolsAreUsed DEF DirectorInv
    <3> QED BY <2>2, <3>2 DEF StepReturns
  <2>3. CASE RunCommand \/ Waits
    BY <1>2, <1>5, <2>1, <2>3 DEF RunCommand, Exec, Waits, ToolsInv
  <2>4. CASE Passes
    <3>1. CASE Current \in UseOf(t)
      <4>1. HasRun /\ exit = "ok" /\ Current.name = "asdf global" /\ Current.of = t
        BY <2>4, <3>1 DEF Passes, UseOf
      <4> QED BY <1>2, <4>1 DEF ToolsInv
    <3>2. CASE Current \notin UseOf(t)
      BY <1>2, <1>5, <2>1, <2>4, <3>2, StillAwaited, RestIsSeq DEF Passes, ToolsInv
    <3> QED BY <3>1, <3>2
  <2> QED BY <2>1, <2>2, <2>3, <2>4
<1>6. Tools' = Tools
  BY <1>1 DEF Tools
<1> QED BY <1>3, <1>4, <1>5, <1>6 DEF ToolsInv

(* The build's own commands find every tool of build.tools installed: a    *)
(* tool from the cache that was not moved into place fails the step that   *)
(* installs the tools.                                                     *)
THEOREM ToolsAreReady == Spec => []ToolsReady
<1>1. DirectorInv /\ ToolsInv => ToolsReady
  BY DEF DirectorInv, DirectorTypeOK, ToolsInv, ToolsReady
<1>2. DirectorInv /\ ToolsInv /\ [Next]_vars => ToolsInv'
  BY ToolsKeep
<1> QED BY InitHasTools, <1>1, <1>2, DirectorInvariant, PTL DEF Spec

-----------------------------------------------------------------------------
(* The language environment is there before it is used *)

(* What creates it, or else fails, and what uses it *)
Creates(op) == op.is = "command" /\ op.name = "create venv" /\ ~WarnOnly(op) /\ ~op.venv
Creating == {op \in Ops : op.is = "crash" \/ Creates(op)}
Using    == {op \in Ops : op.venv}

Default == ~SkipsDefaults /\ ~Listed(conf, "create_environment")

VenvInv ==
  /\ HasRun /\ Current.name = "create venv" /\ exit = "ok" => venv
  /\ Default =>
       /\ step = "setup_environment" /\ exc = "none" => venv \/ Before(rest, Creating, Using)
       /\ step = "build" => venv

(* Only two steps use it *)
LEMMA OthersDoNotUseIt ==
  ASSUME NEW s, s \notin {"setup_environment", "build"}, NEW q \in Scripts(s) PROVE Free(q, Using)
BY DEF Scripts, OpsOf, Fits, Free, Using

LEMMA BaseCreates ==
  ASSUME Typed, ~UsesCommands(conf), Default PROVE Before(CreateEnvironment, Creating, Using)
<1> DEFINE edit   == Operation("edit", "environment.yml")
           cat    == Recorded("cat environment")
           create == Recorded("create venv")
           crash  == Operation("crash", "no interpreter")
<1>1. {"environment.yml", "no interpreter", "cat environment", "create venv"} \subseteq Names
      /\ {"edit", "crash"} \subseteq Kinds
  BY DEF Names, Objects, PlainCommands, Kinds
<1>2. crash \in Creating
  <2>1. crash \in Ops /\ crash.is = "crash"
    BY <1>1, OperationTyped
  <2> HIDE DEF crash
  <2> QED BY <2>1 DEF Creating
<1>3. create \in Creating
  <2>1. create \in Ops /\ create.is = "command" /\ create.name = "create venv"
    BY <1>1, CommandTyped DEF IsCommand
  <2>2. create.venv = FALSE
    BY <1>1, CommandTyped DEF IsCommand
  <2>3. ~WarnOnly(create)
    BY DEF Recorded, Operation, WarnOnly
  <2> HIDE DEF create
  <2> QED BY <2>1, <2>2, <2>3 DEF Creating, Creates
<1>4. edit.skip = 0 /\ cat.skip = 0
  BY DEF Recorded, Operation
<1>5. edit \notin Using /\ cat \notin Using
  BY DEF Recorded, Operation, Using
<1> HIDE DEF edit, cat, create, crash
<1>6. /\ Before(<<edit, cat, create>>, Creating, Using)
      /\ Before(<<crash>>, Creating, Using) /\ Before(<<create>>, Creating, Using)
  <2>1. Before(<<edit, cat, create>>, Creating, Using)
    <3> DEFINE q == <<edit, cat, create>>
    <3>1. 3 \in DOMAIN q /\ q[3] = create /\ q[1] = edit /\ q[2] = cat
      OBVIOUS
    <3> HIDE DEF q
    <3>2. \A k \in 1 .. 3 - 1 : k + q[k].skip < 3 /\ q[k] \notin Using
      BY <1>4, <1>5, <3>1
    <3>3. Before(q, Creating, Using)
      BY <1>3, <3>1, <3>2 DEF Before, Kept
    <3> QED BY <3>3 DEF q
  <2> QED BY <1>2, <1>3, <2>1, ItComesFirst
<1>7. CreateEnvironment = SetupBase
  BY DEF CreateEnvironment, JobOr, Default, When
<1>8. CASE Environment(conf) = "Conda"
  BY <1>6, <1>7, <1>8 DEF SetupBase, edit, cat, create
<1>9. CASE Environment(conf) # "Conda" /\ Environment(conf) = "Virtualenv" /\ conf.python = "none"
  BY <1>6, <1>7, <1>9 DEF SetupBase, crash
<1>10. CASE Environment(conf) # "Conda" /\ ~(Environment(conf) = "Virtualenv" /\ conf.python = "none")
  BY <1>6, <1>7, <1>10 DEF SetupBase, create
<1> QED BY <1>8, <1>9, <1>10

LEMMA EnvironmentIsCreated ==
  ASSUME Typed, ~UsesCommands(conf), Default
  PROVE  Before(Script("setup_environment"), Creating, Using)
<1> DEFINE Q     == Scripts("setup_environment")
           one   == Hooked("pre_system_dependencies", SystemDependencies, "post_system_dependencies")
           three == Hooked("pre_create_environment", CreateEnvironment, "post_create_environment")
           four  == Hooked("pre_install", Install, "post_install")
<1>1. one \in Q /\ InstallBuildTools \in Q /\ three \in Q /\ four \in Q /\ CreateEnvironment \in Q
  BY SetupEnvironmentPartsFit
<1>2. "run_build_commands" \notin EmptySteps \cup OwnSteps \cup {"checkout"}
      /\ "setup_environment" \notin EmptySteps \cup OwnSteps \cup {"checkout"}
      /\ {"pre_system_dependencies", "post_system_dependencies", "pre_create_environment",
          "post_create_environment"} \subseteq AllJobs
  BY DEF EmptySteps, OwnSteps, AllJobs
<1>3. Free(one, Using)
  <2>1. one \in Scripts("run_build_commands")
    BY <1>2, SystemDependenciesFits, HookedFits
  <2> QED BY <2>1, OthersDoNotUseIt
<1>4. Free(InstallBuildTools, Using)
  <2>1. InstallBuildTools \in Scripts("install_build_tools")
    BY InstallBuildToolsFits
  <2> QED BY <2>1, OthersDoNotUseIt
<1>5. Before(three, Creating, Using)
  <2>1. Job("pre_create_environment") \in Q /\ Job("post_create_environment") \in Q
    BY <1>2, JobFits
  <2>2. Free(Job("pre_create_environment"), Using)
    <3>1. Job("pre_create_environment") \in Scripts("run_build_commands")
      BY <1>2, JobFits
    <3> QED BY <3>1, OthersDoNotUseIt
  <2>3. /\ Job("pre_create_environment") \o CreateEnvironment \in Q
        /\ Before(Job("pre_create_environment") \o CreateEnvironment, Creating, Using)
    BY <1>1, <2>1, <2>2, BaseCreates, AwaitedInConcat
  <2> QED BY <2>1, <2>3, AwaitedInConcat DEF Hooked
<1> HIDE DEF one, three, four
<1>6. one \o InstallBuildTools \in Q /\ Free(one \o InstallBuildTools, Using)
  BY <1>1, <1>3, <1>4, FreeConcat, ConcatIsAScript, ScriptIsSeq
<1>7. /\ one \o InstallBuildTools \o three \in Q
      /\ Before(one \o InstallBuildTools \o three, Creating, Using)
  BY <1>1, <1>5, <1>6, AwaitedInConcat
<1>8. Before(one \o InstallBuildTools \o three \o four, Creating, Using)
  BY <1>1, <1>7, AwaitedInConcat
<1>9. Before(SetupEnvironment, Creating, Using)
  BY <1>8 DEF SetupEnvironment, one, three, four
<1> QED BY <1>9 DEF Script

LEMMA InitHasNoVenv == Init => VenvInv
BY DEF Init, VenvInv, HasRun

LEMMA VenvKeeps == ASSUME DirectorInv, VenvInv, [Next]_vars PROVE VenvInv'
<1>1. conf' = conf /\ (step' = step \/ StepReturns) /\ (venv' = venv \/ RunCommand \/ LoseCommand)
  BY OnlyTheseChange DEF effects
<1>2. venv => venv'
  BY <1>1 DEF RunCommand, LoseCommand, Leaves, effects
<1>3. HasRun' /\ Current.name' = "create venv" /\ exit' = "ok" => venv'
  <2>1. CASE RunCommand
    BY <2>1 DEF RunCommand, Exec, Leaves, Ran, Current
  <2>2. CASE ~RunCommand
    BY <1>2, <2>2, RanKeeps DEF VenvInv, Current
  <2> QED BY <2>1, <2>2
<1>4. ASSUME Default, step' = "build" PROVE venv'
  <2>1. CASE StepReturns
    BY <1>2, <1>4, <2>1, NothingIsAwaited DEF StepReturns, NextStep, VenvInv
  <2> QED BY <1>1, <1>2, <1>4, <2>1 DEF VenvInv
<1>5. ASSUME Default, step' = "setup_environment", exc' = "none"
      PROVE  venv' \/ Before(rest', Creating, Using)
  <2>1. exc = "none" /\ (StepReturns \/ RunCommand \/ Waits \/ Passes)
    BY HowItGoesOn, <1>5
  <2>2. CASE StepReturns
    <3>1. ~UsesCommands(conf)
      BY <1>5, <2>2 DEF StepReturns, NextStep
    <3>2. Before(Script("setup_environment"), Creating, Using)
      BY <1>5, <3>1, EnvironmentIsCreated DEF DirectorInv
    <3> QED BY <1>5, <2>2, <3>2 DEF StepReturns
  <2>3. CASE RunCommand \/ Waits
    BY <1>2, <1>5, <2>1, <2>3 DEF RunCommand, Exec, Waits, VenvInv
  <2>4. CASE Passes
    <3>1. CASE Current \in Creating
      <4>1. HasRun /\ exit = "ok" /\ Current.name = "create venv"
        BY <2>4, <3>1 DEF Passes, Creating, Creates
      <4> QED BY <1>2, <4>1 DEF VenvInv
    <3>2. CASE Current \notin Creating
      BY <1>2, <1>5, <2>1, <2>4, <3>2, StillAwaited, RestIsSeq DEF Passes, VenvInv
    <3> QED BY <3>1, <3>2
  <2> QED BY <2>1, <2>2, <2>3, <2>4
<1>6. Default' = Default
  BY <1>1 DEF Default, SkipsDefaults, Listed
<1> QED BY <1>3, <1>4, <1>5, <1>6 DEF VenvInv

(* Nothing runs from a language environment that was not created, unless   *)
(* the user took its creation over.                                        *)
THEOREM EnvironmentComesFirst == Spec => []LanguageEnvironmentFirst
<1>1. ASSUME DirectorInv, VenvInv, At("command"), Current.venv, ~Listed(conf, "create_environment")
      PROVE  venv
  <2>1. rest # <<>> /\ Current.is = "command"
    BY <1>1 DEF At
  <2>2. Current \in Ops /\ Fits(Current, step)
    BY <1>1, <2>1, CurrentFits
  <2>3. Default /\ step \in {"setup_environment", "build"}
    BY <1>1, <2>2 DEF Fits, Default
  <2>4. exc = "none"
    <3>1. exc # "none" => Current = RemoveRemote
      BY <1>1, <2>1 DEF DirectorInv, RaisedInv, Current
    <3>2. RemoveRemote.venv = FALSE
      BY DEF RemoveRemote, Git, Unrecorded, Recorded, Operation
    <3> QED BY <1>1, <3>1, <3>2
  <2>5. Current \in Using /\ Current \notin Creating
    BY <1>1, <2>1, <2>2 DEF Using, Creating, Creates
  <2> QED BY <1>1, <2>1, <2>3, <2>4, <2>5, FirstIsAllowed, RestIsSeq DEF VenvInv
<1>2. DirectorInv /\ VenvInv => LanguageEnvironmentFirst
  BY <1>1 DEF LanguageEnvironmentFirst
<1>3. DirectorInv /\ VenvInv /\ [Next]_vars => VenvInv'
  BY VenvKeeps
<1> QED BY InitHasNoVenv, <1>2, <1>3, DirectorInvariant, PTL DEF Spec

-----------------------------------------------------------------------------
(* The jobs of the configuration are run *)

JobOf(job) == {op \in Ops : op.is = "command" /\ op.name = "job" /\ op.of = job}

EnvironmentJobs == {"pre_system_dependencies", "post_system_dependencies", "pre_create_environment",
                    "create_environment", "post_create_environment", "pre_install", "install", "post_install"}

(* The step that runs a job, and those before it *)
StepOf(job) ==
  IF job = "post_checkout" THEN "setup_vcs"
  ELSE IF job \in EnvironmentJobs THEN "setup_environment" ELSE "build"
StepsBefore(job) ==
  {"create_vcs_environment"}
  \cup (IF job = "post_checkout" THEN {} ELSE {"setup_vcs", "create_build_environment"})
  \cup (IF job = "post_checkout" \/ job \in EnvironmentJobs THEN {} ELSE {"setup_environment"})

Due(job) ==
  /\ job \in AllJobs \ {"pre_checkout"} /\ Commands(conf, job) > 0
  /\ ~(job \in Formats /\ proj.external)

JobsInv ==
  /\ HasRun /\ Current.name = "job" => Current.of \in ranJob
  /\ step = "done" => exc = "none"
  /\ ~proj.uploaded /\ exc = "none" =>
       \A job \in AllJobs : Due(job) =>
         \/ job \in ranJob
         \/ step \in StepsBefore(job)
         \/ step = StepOf(job) /\ Before(rest, JobOf(job), {})

LEMMA JobAwaited ==
  ASSUME Typed, NEW job \in AllJobs, Commands(conf, job) > 0
  PROVE  Before(Job(job), JobOf(job), {})
<1> DEFINE op == About(job, Recorded("job"))
<1>1. "job" \in Names /\ job \in Subjects
  BY DEF Names, Telling, UsersCommands, Subjects
<1>2. op \in Ops
  BY <1>1, CommandTyped, VariantTyped DEF IsCommand
<1>3. op.is = "command" /\ op.name = "job" /\ op.of = job
  BY DEF About, Recorded, Operation
<1> HIDE DEF op
<1>4. op \in JobOf(job)
  BY <1>2, <1>3 DEF JobOf
<1>5. Commands(conf, job) \in Nat
  <2>1. CASE job \in DOMAIN conf.jobs
    BY <2>1 DEF Typed, IsConfiguration, Commands, Listed
  <2>2. CASE job \notin DOMAIN conf.jobs
    BY <2>2 DEF Commands, Listed
  <2> QED BY <2>1, <2>2
<1>6. ASSUME NEW n \in Nat, n > 0 PROVE Before(Times(n, op), JobOf(job), {})
  <2>1. 1 \in DOMAIN Times(n, op) /\ Times(n, op)[1] = op
    BY <1>6 DEF Times
  <2> QED BY <1>4, <2>1 DEF Before, Kept
<1> QED BY <1>5, <1>6 DEF Job, op

LEMMA AwaitedInHooked ==
  ASSUME Typed, NEW s, s \notin EmptySteps \cup OwnSteps \cup {"checkout"},
         NEW pre \in AllJobs, NEW post \in AllJobs, NEW ops \in Scripts(s), NEW S,
         Before(Job(pre), S, {}) \/ Before(ops, S, {}) \/ Before(Job(post), S, {})
  PROVE  Before(Hooked(pre, ops, post), S, {})
<1>1. Job(pre) \in Scripts(s) /\ Job(post) \in Scripts(s)
  BY JobFits
<1>2. /\ Job(pre) \o ops \in Scripts(s)
      /\ Before(Job(pre), S, {}) \/ Before(ops, S, {}) => Before(Job(pre) \o ops, S, {})
  BY <1>1, AwaitedInConcat
<1>3. Before(Job(pre) \o ops \o Job(post), S, {})
  BY <1>1, <1>2, AwaitedInConcat
<1> QED BY <1>3 DEF Hooked

LEMMA AwaitedInBuild ==
  ASSUME Typed, NEW S,
         \/ Before(Job("pre_build"), S, {}) \/ Before(Job("post_build"), S, {})
         \/ Before(BuildHtml, S, {}) \/ \E f \in Formats : Before(BuildFormat(f), S, {})
  PROVE  Before(Script("build"), S, {})
<1> DEFINE Q == Scripts("build")
           zip == BuildFormat("htmlzip")
           pdf == BuildFormat("pdf")
           epub == BuildFormat("epub")
<1>1. BuildHtml \in Q /\ zip \in Q /\ pdf \in Q /\ epub \in Q /\ OwnBuild \in Q /\ StoreYaml \in Q
      /\ Hooked("pre_build", OwnBuild, "post_build") \in Q
  BY BuildPartsFit DEF Formats
<1>2. \/ Before(Job("pre_build"), S, {}) \/ Before(Job("post_build"), S, {})
      \/ Before(BuildHtml, S, {}) \/ Before(zip, S, {}) \/ Before(pdf, S, {}) \/ Before(epub, S, {})
  BY DEF Formats
<1> HIDE DEF zip, pdf, epub
<1>3. /\ BuildHtml \o zip \in Q
      /\ Before(BuildHtml, S, {}) \/ Before(zip, S, {}) => Before(BuildHtml \o zip, S, {})
  BY <1>1, AwaitedInConcat
<1>4. /\ BuildHtml \o zip \o pdf \in Q
      /\ Before(BuildHtml \o zip, S, {}) \/ Before(pdf, S, {}) => Before(BuildHtml \o zip \o pdf, S, {})
  BY <1>1, <1>3, AwaitedInConcat
<1>5. Before(BuildHtml \o zip \o pdf, S, {}) \/ Before(epub, S, {})
        => Before(BuildHtml \o zip \o pdf \o epub, S, {})
  BY <1>1, <1>4, AwaitedInConcat
<1>6. \/ Before(Job("pre_build"), S, {}) \/ Before(Job("post_build"), S, {}) \/ Before(OwnBuild, S, {})
  BY <1>2, <1>3, <1>4, <1>5 DEF OwnBuild, zip, pdf, epub
<1>7. "build" \notin EmptySteps \cup OwnSteps \cup {"checkout"} /\ {"pre_build", "post_build"} \subseteq AllJobs
  BY DEF EmptySteps, OwnSteps, AllJobs
<1>8. Before(Hooked("pre_build", OwnBuild, "post_build"), S, {})
  BY <1>1, <1>6, <1>7, AwaitedInHooked
<1>9. Before(Build, S, {})
  BY <1>1, <1>8, AwaitedInConcat, BuildPartsFit
<1> QED BY <1>9 DEF Script

LEMMA JobsOfTheEnvironment ==
  ASSUME Typed, ~UsesCommands(conf), NEW job \in EnvironmentJobs, Commands(conf, job) > 0
  PROVE  Before(Script("setup_environment"), JobOf(job), {})
<1> DEFINE Q     == Scripts("setup_environment")
           S     == JobOf(job)
           one   == Hooked("pre_system_dependencies", SystemDependencies, "post_system_dependencies")
           three == Hooked("pre_create_environment", CreateEnvironment, "post_create_environment")
           four  == Hooked("pre_install", Install, "post_install")
<1>1. one \in Q /\ InstallBuildTools \in Q /\ three \in Q /\ four \in Q /\ CreateEnvironment \in Q
      /\ Install \in Q
  BY SetupEnvironmentPartsFit
<1>2. "setup_environment" \notin EmptySteps \cup OwnSteps \cup {"checkout"} /\ EnvironmentJobs \subseteq AllJobs
  BY DEF EmptySteps, OwnSteps, AllJobs, NewJobs, EnvironmentJobs
<1>3. SystemDependencies \in Q
  BY <1>2, SystemDependenciesFits
<1>4. Before(Job(job), S, {})
  BY <1>2, JobAwaited
<1>5. Listed(conf, job)
  BY DEF Commands
<1> HIDE DEF S
<1>6. job \in {"pre_system_dependencies", "post_system_dependencies"} => Before(one, S, {})
  BY <1>2, <1>3, <1>4, AwaitedInHooked DEF EnvironmentJobs
<1>7. job \in {"pre_create_environment", "create_environment", "post_create_environment"} => Before(three, S, {})
  <2>1. job = "create_environment" => Before(CreateEnvironment, S, {})
    BY <1>4, <1>5 DEF CreateEnvironment, JobOr
  <2> QED BY <1>1, <1>2, <1>4, <2>1, AwaitedInHooked DEF EnvironmentJobs
<1>8. job \in {"pre_install", "install", "post_install"} => Before(four, S, {})
  <2>1. job = "install" => Before(Install, S, {})
    BY <1>4, <1>5 DEF Install, JobOr
  <2> QED BY <1>1, <1>2, <1>4, <2>1, AwaitedInHooked DEF EnvironmentJobs
<1> HIDE DEF one, three, four
<1>9. /\ one \o InstallBuildTools \in Q
      /\ Before(one, S, {}) => Before(one \o InstallBuildTools, S, {})
  BY <1>1, AwaitedInConcat
<1>10. /\ one \o InstallBuildTools \o three \in Q
       /\ Before(one \o InstallBuildTools, S, {}) \/ Before(three, S, {})
            => Before(one \o InstallBuildTools \o three, S, {})
  BY <1>1, <1>9, AwaitedInConcat
<1>11. Before(one \o InstallBuildTools \o three, S, {}) \/ Before(four, S, {})
         => Before(one \o InstallBuildTools \o three \o four, S, {})
  BY <1>1, <1>10, AwaitedInConcat
<1>12. Before(SetupEnvironment, S, {})
  BY <1>6, <1>7, <1>8, <1>9, <1>10, <1>11 DEF SetupEnvironment, one, three, four, EnvironmentJobs
<1> QED BY <1>12 DEF Script, S

LEMMA JobOfTheCheckout ==
  ASSUME Typed, Commands(conf, "post_checkout") > 0
  PROVE  Before(Script("setup_vcs"), JobOf("post_checkout"), {})
<1> DEFINE Q == Scripts("setup_vcs")
           front == MakeDir \o SetupSshAgent \o MakeDir \o Checkout
<1>1. "setup_vcs" \in GitSteps /\ "setup_vcs" \notin EmptySteps \cup OwnSteps \cup {"checkout"}
      /\ "post_checkout" \in AllJobs
  BY DEF GitSteps, EmptySteps, OwnSteps, AllJobs
<1>2. front \in Q /\ Job("post_checkout") \in Q /\ ParseRev \in Q
  BY <1>1, CheckoutPartsFit, CheckoutFits, JobFits, ConcatIsAScript
<1> HIDE DEF front
<1>3. /\ front \o Job("post_checkout") \in Q
      /\ Before(front \o Job("post_checkout"), JobOf("post_checkout"), {})
  BY <1>1, <1>2, JobAwaited, AwaitedInConcat
<1>4. Before(front \o Job("post_checkout") \o ParseRev, JobOf("post_checkout"), {})
  BY <1>2, <1>3, AwaitedInConcat
<1> QED BY <1>4, CheckoutIs DEF Script, front

LEMMA JobsOfTheBuild ==
  ASSUME Typed, NEW job \in BuildJobs \cup {"pre_build", "post_build"}, Commands(conf, job) > 0,
         job \in Formats => job \in conf.formats /\ ~proj.external
  PROVE  Before(Script("build"), JobOf(job), {})
<1>1. job \in AllJobs
  BY DEF AllJobs, NewJobs, BuildJobs
<1>2. Before(Job(job), JobOf(job), {}) /\ Listed(conf, job)
  BY <1>1, JobAwaited DEF Commands
<1>3. job = "html" => Before(BuildHtml, JobOf(job), {})
  BY <1>2 DEF BuildHtml, JobOr
<1>4. job \in Formats => Before(BuildFormat(job), JobOf(job), {})
  BY <1>2 DEF BuildFormat, JobOr, When
<1> QED BY <1>2, <1>3, <1>4, AwaitedInBuild DEF BuildJobs

LEMMA InitHasNoJobs == Init => JobsInv
<1>1. \A job : "create_vcs_environment" \in StepsBefore(job)
  BY DEF StepsBefore
<1> QED BY <1>1, BuildsAssumption DEF Init, JobsInv, HasRun

(* Nothing is raised once all is done *)
LEMMA DoneIsDone ==
  ASSUME DirectorInv, step = "done", [Next]_vars PROVE exc' = exc
<1>1. rest = <<>>
  <2>1. rest # <<>> => Fits(Current, "done")
    BY CurrentFits
  <2> QED BY <2>1 DEF Fits, EmptySteps
<1> QED BY <1>1 DEF Next, RunCommand, LoseCommand, LoseDaemon, RefuseCommand, Exec, Started, At, Command,
                    PostCommand, SaveCommand, Judge, Request, Credentials,
           LookForFile, Refuse, LoadConfig, EditEnvironment, Crash, StoreBuildYaml, Operates, Signal,
           StepReturns, vars, opVars

LEMMA JobsKeep == ASSUME DirectorInv, LoadedInv, JobsInv, [Next]_vars PROVE JobsInv'
<1>1. conf' = conf /\ proj' = proj /\ (step' = step \/ StepReturns)
      /\ (ranJob' = ranJob \/ RunCommand \/ LoseCommand)
  BY OnlyTheseChange DEF effects
<1>2. ranJob \subseteq ranJob'
  BY <1>1 DEF RunCommand, LoseCommand, Leaves, effects
<1>3. HasRun' /\ Current.name' = "job" => Current.of' \in ranJob'
  <2>1. CASE RunCommand
    BY <2>1 DEF RunCommand, Exec, Leaves, Current
  <2>2. CASE ~RunCommand
    BY <1>2, <2>2, RanKeeps DEF JobsInv, Current
  <2> QED BY <2>1, <2>2
<1>4. step' = "done" => exc' = "none"
  <2>1. CASE StepReturns
    BY <2>1 DEF StepReturns
  <2> QED BY <1>1, <2>1, DoneIsDone DEF JobsInv
<1>5. ASSUME ~proj.uploaded, exc' = "none", NEW job \in AllJobs, Due(job)
      PROVE  \/ job \in ranJob'
             \/ step' \in StepsBefore(job)
             \/ step' = StepOf(job) /\ Before(rest', JobOf(job), {})
  <2>1. exc = "none" /\ (StepReturns \/ RunCommand \/ Waits \/ Passes)
    BY HowItGoesOn, <1>5
  <2>2. \/ job \in ranJob
        \/ step \in StepsBefore(job)
        \/ step = StepOf(job) /\ Before(rest, JobOf(job), {})
    BY <1>5, <2>1 DEF JobsInv
  <2>3. CASE StepReturns /\ job \notin ranJob
    <3>1. rest' = Script(step') /\ step' = NextStep(step) /\ step \in StepsBefore(job)
      BY <2>2, <2>3, NothingIsAwaited DEF StepReturns
    <3>2. Typed /\ Commands(conf, job) > 0
      BY <1>5 DEF DirectorInv, Due
    <3>3. CASE step = "create_vcs_environment"
      BY <3>1, <3>2, <3>3, JobOfTheCheckout DEF NextStep, StepsBefore, StepOf
    <3>4. CASE step = "setup_vcs"
      BY <3>1, <3>4 DEF NextStep, StepsBefore
    <3>5. ASSUME step \in {"create_build_environment", "setup_environment"} PROVE Accepted(conf)
      BY <1>5, <2>1, <3>5 DEF LoadedInv
    <3>6. ASSUME Accepted(conf) PROVE ~UsesCommands(conf) /\ (job \in Formats => job \in conf.formats)
      <4>1. ~Rejects("build", conf)
        BY <3>6, AcceptedMeans
      <4>2. job \in DOMAIN conf.jobs
        BY <3>2 DEF Commands, Listed
      <4> QED BY <4>1, <4>2 DEF Rejects
    <3>7. CASE step = "create_build_environment"
      <4>1. step' = "setup_environment" /\ ~UsesCommands(conf)
        BY <1>5, <3>1, <3>5, <3>6, <3>7 DEF NextStep
      <4>2. job \in EnvironmentJobs => Before(rest', JobOf(job), {})
        BY <3>1, <3>2, <4>1, JobsOfTheEnvironment
      <4>3. job # "post_checkout"
        BY <3>1, <3>7 DEF StepsBefore
      <4> QED BY <4>1, <4>2, <4>3 DEF StepsBefore, StepOf, EnvironmentJobs
    <3>8. CASE step = "setup_environment"
      <4>1. step' = "build"
        BY <3>1, <3>8 DEF NextStep
      <4>2. job \notin EnvironmentJobs /\ job # "post_checkout"
        BY <3>1, <3>8 DEF StepsBefore
      <4>3. job \in BuildJobs \cup {"pre_build", "post_build"}
        BY <1>5, <4>2 DEF Due, AllJobs, NewJobs, EnvironmentJobs
      <4>4. job \in Formats => job \in conf.formats /\ ~proj.external
        BY <1>5, <3>5, <3>6, <3>8 DEF Due
      <4>5. Before(rest', JobOf(job), {})
        BY <3>1, <3>2, <4>1, <4>3, <4>4, JobsOfTheBuild
      <4> QED BY <4>1, <4>2, <4>5 DEF StepOf
    <3> QED BY <3>1, <3>3, <3>4, <3>7, <3>8 DEF StepsBefore
  <2>4. CASE RunCommand \/ Waits
    BY <1>2, <2>2, <2>4 DEF RunCommand, Exec, Waits
  <2>5. CASE Passes
    <3>1. step' = step /\ rest # <<>>
      BY <2>5 DEF Passes
    <3>2. Current \in JobOf(job) => job \in ranJob
      BY <2>5 DEF Passes, JobOf, JobsInv
    <3>3. Current \notin JobOf(job) /\ Before(rest, JobOf(job), {}) => Before(rest', JobOf(job), {})
      BY <2>5, StillAwaited, RestIsSeq DEF Passes
    <3> QED BY <1>2, <2>2, <3>1, <3>2, <3>3
  <2> QED BY <1>2, <2>1, <2>3, <2>4, <2>5
<1>6. ASSUME NEW job PROVE Due(job)' = Due(job) /\ StepOf(job)' = StepOf(job)
                           /\ StepsBefore(job)' = StepsBefore(job)
  BY <1>1 DEF Due, Commands, Listed
<1> QED BY <1>1, <1>3, <1>4, <1>5, <1>6 DEF JobsInv

THEOREM JobsInvariant == Spec => []JobsInv
<1>1. DirectorInv /\ LoadedInv /\ JobsInv /\ [Next]_vars => JobsInv'
  BY JobsKeep
<1> QED BY InitHasNoJobs, <1>1, DirectorInvariant, ConfigurationIsLoaded, PTL DEF Spec

(* A build that gets to its end has run every job of its configuration     *)
(* that has a step: no job is lost between the steps, or skipped with what *)
(* it replaces.                                                            *)
THEOREM EveryJobIsRun == Spec => []EveryJobRuns
<1>1. ASSUME DirectorInv, JobsInv, step = "done", ~proj.uploaded, NEW job \in DOMAIN conf.jobs,
             conf.jobs[job] # 0, job # "pre_checkout", ~(job \in Formats /\ proj.external)
      PROVE  job \in ranJob
  <2>1. job \in AllJobs /\ conf.jobs[job] \in Nat
    BY <1>1 DEF DirectorInv, Typed, IsConfiguration
  <2>2. Due(job)
    BY <1>1, <2>1 DEF Due, Commands, Listed
  <2>3. step \notin StepsBefore(job) /\ step # StepOf(job)
    BY <1>1 DEF StepsBefore, StepOf
  <2> QED BY <1>1, <2>1, <2>2, <2>3 DEF JobsInv
<1>2. DirectorInv /\ JobsInv => EveryJobRuns
  BY <1>1 DEF EveryJobRuns
<1> QED BY <1>2, DirectorInvariant, JobsInvariant, PTL

-----------------------------------------------------------------------------
(* The formats have their directory *)

(* What makes the directory of format f, or else fails, and what removes it *)
Makes(f)   == {op \in Ops : /\ op.is = "command" /\ op.of = f
                            /\ op.name = "mkdir" \/ (op.name = "doctool" /\ ~WarnOnly(op))}
Removes(f) == {op \in Ops : op.name = "rm" /\ op.of = f}

(* Once removed it is made again: nothing in between skips that *)
Mended(q, f) ==
  \A k \in DOMAIN q : q[k] \in Removes(f) =>
    \E j \in DOMAIN q : k < j /\ q[j] \in Makes(f) /\ \A m \in k .. j - 1 : m + q[m].skip < j

FormatsInv ==
  /\ HasRun /\ Current.name \in {"doctool", "mkdir"} =>
       /\ exit = "ok" /\ Current.of # "none" => Current.of \in made
       /\ exit # "ok" => \/ struck \cap {"failure", "docker"} # {}
                         \/ exit = "exit183" /\ Current.name = "doctool"
  /\ ~proj.uploaded /\ exc = "none" /\ struck \cap {"failure", "docker"} = {} =>
       \A f \in SphinxFormats :
         \/ step \in {"create_vcs_environment", "setup_vcs", "create_build_environment", "setup_environment"}
         \/ /\ step \in {"build", "check_old_output", "done"}
            /\ f \in made \/ Before(rest, Makes(f), {})
            /\ Mended(rest, f)

LEMMA FreeIsMended == ASSUME NEW q, NEW f, Free(q, Removes(f)) PROVE Mended(q, f)
BY DEF Free, Mended

LEMMA MendedConcat ==
  ASSUME NEW f, NEW q \in Seq(Ops), NEW r \in Seq(Ops), Mended(q, f), Mended(r, f)
  PROVE  Mended(q \o r, f)
<1> DEFINE n == Len(q)
           p == q \o r
<1>1. n \in Nat /\ Len(r) \in Nat /\ p \in Seq(Ops) /\ DOMAIN p = 1 .. n + Len(r)
      /\ DOMAIN q = 1 .. n /\ DOMAIN r = 1 .. Len(r)
  OBVIOUS
<1>2. (\A k \in 1 .. n : p[k] = q[k]) /\ \A k \in 1 .. Len(r) : p[n + k] = r[k]
  OBVIOUS
<1> HIDE DEF n, p
<1> SUFFICES ASSUME NEW k \in DOMAIN p, p[k] \in Removes(f)
             PROVE  \E j \in DOMAIN p : /\ k < j /\ p[j] \in Makes(f)
                                        /\ \A m \in k .. j - 1 : m + p[m].skip < j
  BY DEF Mended, p
<1>3. CASE k <= n
  <2>1. k \in DOMAIN q /\ q[k] \in Removes(f)
    BY <1>1, <1>2, <1>3
  <2>2. PICK j \in DOMAIN q : k < j /\ q[j] \in Makes(f) /\ \A m \in k .. j - 1 : m + q[m].skip < j
    BY <2>1 DEF Mended
  <2>3. j \in DOMAIN p /\ p[j] = q[j] /\ \A m \in k .. j - 1 : p[m] = q[m]
    BY <1>1, <1>2, <2>1, <2>2
  <2> QED BY <2>2, <2>3
<1>4. CASE k > n
  <2>1. k - n \in DOMAIN r /\ r[k - n] = p[k]
    BY <1>1, <1>2, <1>4
  <2>2. PICK i \in DOMAIN r : /\ k - n < i /\ r[i] \in Makes(f)
                              /\ \A m \in k - n .. i - 1 : m + r[m].skip < i
    BY <2>1 DEF Mended
  <2> DEFINE j == n + i
  <2>3. j \in DOMAIN p /\ p[j] = r[i] /\ k < j
    BY <1>1, <1>2, <2>2
  <2>4. ASSUME NEW m \in k .. j - 1 PROVE m + p[m].skip < j
    <3>1. m - n \in DOMAIN r /\ p[m] = r[m - n] /\ m - n \in k - n .. i - 1
      BY <1>1, <1>2, <1>4, <2>2, <2>4
    <3>2. m - n + r[m - n].skip < i /\ r[m - n] \in Ops
      BY <2>2, <3>1
    <3>3. r[m - n].skip \in Nat
      BY <3>2 DEF Ops
    <3> QED BY <1>1, <2>4, <3>1, <3>2, <3>3
  <2> QED BY <2>2, <2>3, <2>4
<1> QED BY <1>1, <1>3, <1>4

LEMMA StaysMended ==
  ASSUME NEW f, rest \in Seq(Ops), Mended(rest, f), NEW n \in Nat PROVE Mended(Drop(n), f)
<1> DEFINE p == Drop(n)
<1>1. Len(rest) \in Nat /\ DOMAIN rest = 1 .. Len(rest)
  OBVIOUS
<1>2. /\ DOMAIN p = 1 .. Len(p) /\ Len(p) = IF n < Len(rest) THEN Len(rest) - n ELSE 0
      /\ \A k \in 1 .. Len(rest) - n : p[k] = rest[k + n]
  BY DropIs
<1> HIDE DEF p
<1> SUFFICES ASSUME NEW k \in DOMAIN p, p[k] \in Removes(f)
             PROVE  \E j \in DOMAIN p : /\ k < j /\ p[j] \in Makes(f)
                                        /\ \A m \in k .. j - 1 : m + p[m].skip < j
  BY DEF Mended, p
<1>3. k + n \in DOMAIN rest /\ p[k] = rest[k + n] /\ n < Len(rest)
  <2>1. k \in 1 .. Len(p) /\ Len(p) = IF n < Len(rest) THEN Len(rest) - n ELSE 0
    BY <1>2
  <2> DEFINE l == Len(rest)
  <2>2. l \in Nat /\ Len(p) = IF n < l THEN l - n ELSE 0
    BY <2>1
  <2> HIDE DEF l
  <2>3. n < l /\ k \in 1 .. l - n
    BY <2>1, <2>2
  <2>4. n < Len(rest) /\ k \in 1 .. Len(rest) - n
    BY <2>3 DEF l
  <2> QED BY <1>1, <1>2, <2>4
<1>4. PICK i \in DOMAIN rest : /\ k + n < i /\ rest[i] \in Makes(f)
                               /\ \A m \in k + n .. i - 1 : m + rest[m].skip < i
  BY <1>3 DEF Mended
<1> DEFINE j == i - n
<1>5. j \in DOMAIN p /\ p[j] = rest[i] /\ k < j
  BY <1>1, <1>2, <1>3, <1>4
<1>6. ASSUME NEW m \in k .. j - 1 PROVE m + p[m].skip < j
  <2>1. m + n \in DOMAIN rest /\ p[m] = rest[m + n] /\ m + n \in k + n .. i - 1
    BY <1>1, <1>2, <1>3, <1>4, <1>6
  <2>2. m + n + rest[m + n].skip < i /\ rest[m + n] \in Ops
    BY <1>4, <2>1
  <2>3. rest[m + n].skip \in Nat
    BY <2>2 DEF Ops
  <2> QED BY <1>1, <1>6, <2>1, <2>2, <2>3
<1> QED BY <1>4, <1>5, <1>6

(* What is removed first is awaited again *)
LEMMA RemovedIsAwaited ==
  ASSUME NEW f, rest \in Seq(Ops), rest # <<>>, Mended(rest, f), Current \in Removes(f)
  PROVE  Before(rest, Makes(f), {})
<1>1. 1 \in DOMAIN rest /\ rest[1] = Current
  BY DEF Current
<1>2. PICK j \in DOMAIN rest : 1 < j /\ rest[j] \in Makes(f) /\ \A m \in 1 .. j - 1 : m + rest[m].skip < j
  BY <1>1 DEF Mended
<1> QED BY <1>2 DEF Before, Kept

LEMMA NotRemoved ==
  ASSUME NEW f, NEW op, op.name # "rm" PROVE op \notin Removes(f)
BY DEF Removes

LEMMA JobMends == ASSUME Typed, NEW f, NEW job \in AllJobs PROVE Mended(Job(job), f)
<1> DEFINE op == About(job, Recorded("job"))
           n  == Commands(conf, job)
<1>1. op.name = "job"
  BY DEF About, Recorded, Operation
<1>2. n \in Nat
  <2>1. CASE job \in DOMAIN conf.jobs
    BY <2>1 DEF Typed, IsConfiguration, Commands, Listed
  <2>2. CASE job \notin DOMAIN conf.jobs
    BY <2>2 DEF Commands, Listed
  <2> QED BY <2>1, <2>2
<1> HIDE DEF op, n
<1>3. Free(Times(n, op), Removes(f))
  BY <1>1, <1>2, NotRemoved DEF Free, Times
<1> QED BY <1>3, FreeIsMended DEF Job, op, n

LEMMA DocToolMends == ASSUME NEW f, NEW g PROVE Mended(RunDocTool(g), f)
<1> DEFINE op == About(g, InVenv(Recorded("doctool")))
<1>1. op.name = "doctool"
  BY DEF About, InVenv, Recorded, Operation
<1> HIDE DEF op
<1>2. Free(<<op>>, Removes(f))
  BY <1>1, NotRemoved DEF Free
<1> QED BY <1>2, FreeIsMended DEF RunDocTool, op

LEMMA RepackIsSeq == ASSUME NEW f \in {"pdf", "epub"} PROVE Repack(f) \in Seq(Ops)
<1> DEFINE look == Skips(4, Operation("look", f))
           out  == Unrecorded("mv out")
           rm   == About(f, Unrecorded("rm"))
           mk   == About(f, Unrecorded("mkdir"))
           back == Unrecorded("mv back")
<1>1. "look" \in Kinds /\ f \in Subjects /\ {f, "mv out", "rm", "mkdir", "mv back"} \subseteq Names
  BY DEF Kinds, Subjects, Formats, Names, PlainCommands, Telling, Objects
<1>2. look \in Ops /\ out \in Ops /\ rm \in Ops /\ mk \in Ops /\ back \in Ops
  BY <1>1, OperationTyped, CommandTyped, VariantTyped DEF IsCommand
<1> HIDE DEF look, out, rm, mk, back
<1>3. <<look, out, rm, mk, back>> \in Seq(Ops)
  BY <1>2
<1> QED BY <1>3 DEF Repack, look, out, rm, mk, back

LEMMA AboutIs ==
  ASSUME NEW op \in Ops, NEW x
  PROVE  /\ About(x, op).of = x /\ About(x, op).is = op.is /\ About(x, op).name = op.name
         /\ About(x, op).skip = op.skip /\ WarnOnly(About(x, op)) = WarnOnly(op)
BY DEF About, Ops, WarnOnly

(* A directory emptied for a file is made again, whatever fails there *)
LEMMA PackageMends ==
  ASSUME Typed, NEW f \in Formats, NEW g \in conf.formats PROVE Mended(Package(g), f)
<1> DEFINE rm == About(g, Unrecorded("rm"))
           mk == About(g, Unrecorded("mkdir"))
<1>1. g \in Subjects /\ {"rm", "mkdir"} \subseteq Names
  BY DEF Subjects, Typed, IsConfiguration, Names, PlainCommands, Telling
<1>2. rm \in Ops /\ rm.of = g /\ rm.skip = 0
  <2>1. Unrecorded("rm") \in Ops /\ Unrecorded("rm").skip = 0
    BY <1>1, CommandTyped DEF IsCommand
  <2> QED BY <1>1, <2>1, VariantTyped, AboutIs
<1>3. mk \in Ops /\ mk.of = g /\ mk.is = "command" /\ mk.name = "mkdir"
  <2>1. Unrecorded("mkdir") \in Ops /\ Unrecorded("mkdir").is = "command" /\ Unrecorded("mkdir").name = "mkdir"
    BY <1>1, CommandTyped DEF IsCommand
  <2> QED BY <1>1, <2>1, VariantTyped, AboutIs
<1>4. rm \in Removes(f) => mk \in Makes(f)
  BY <1>2, <1>3 DEF Removes, Makes
<1> HIDE DEF rm, mk
<1>5. mk \notin Removes(f)
  BY <1>3, NotRemoved
<1>6. ASSUME NEW a, NEW d, a \notin Removes(f), d \notin Removes(f) PROVE Mended(<<a, rm, mk, d>>, f)
  <2> DEFINE q == <<a, rm, mk, d>>
  <2>1. DOMAIN q = 1 .. 4 /\ q[1] = a /\ q[2] = rm /\ q[3] = mk /\ q[4] = d
    OBVIOUS
  <2> HIDE DEF q
  <2>2. \A k \in DOMAIN q : q[k] \in Removes(f) => k = 2 /\ q[3] \in Makes(f)
    BY <1>4, <1>5, <1>6, <2>1
  <2>3. 3 \in DOMAIN q /\ \A m \in 2 .. 2 : m + q[m].skip < 3
    BY <1>2, <2>1
  <2> QED BY <2>2, <2>3 DEF Mended, q
<1>7. Mended(Repack(g), f)
  <2> DEFINE look == Skips(4, Operation("look", g))
             out  == Unrecorded("mv out")
             back == Unrecorded("mv back")
             q    == <<look, out, rm, mk, back>>
  <2>1. look.name = g /\ out.name = "mv out" /\ back.name = "mv back"
    BY DEF Skips, Unrecorded, Recorded, Operation
  <2>2. look \notin Removes(f) /\ out \notin Removes(f) /\ back \notin Removes(f)
    BY <2>1, NotRemoved DEF Typed, IsConfiguration, Formats
  <2> HIDE DEF look, out, back
  <2>3. DOMAIN q = 1 .. 5 /\ q[1] = look /\ q[2] = out /\ q[3] = rm /\ q[4] = mk /\ q[5] = back
    OBVIOUS
  <2> HIDE DEF q
  <2>4. \A k \in DOMAIN q : q[k] \in Removes(f) => k = 3 /\ q[4] \in Makes(f)
    BY <1>4, <1>5, <2>2, <2>3
  <2>5. 4 \in DOMAIN q /\ \A m \in 3 .. 3 : m + q[m].skip < 4
    BY <1>2, <2>3
  <2>6. Mended(q, f)
    BY <2>4, <2>5 DEF Mended
  <2> QED BY <2>6 DEF Repack, q, look, out, rm, mk, back
<1>8. CASE g = "htmlzip"
  <2> DEFINE a == Unrecorded("mktemp")
             d == Unrecorded("zip")
  <2>1. a.name = "mktemp" /\ d.name = "zip"
    BY DEF Unrecorded, Recorded, Operation
  <2> HIDE DEF a, d
  <2>2. Mended(<<a, rm, mk, d>>, f)
    BY <1>6, <2>1, NotRemoved
  <2> QED BY <1>8, <2>2 DEF Package, a, d, rm, mk
<1>9. CASE g = "pdf"
  <2> DEFINE a == Operation("check", "tex")
             b == Unrecorded("extractbb")
             c == Recorded("cat latexmkrc")
             d == Lenient("latexmk")
  <2>1. a.name = "tex" /\ b.name = "extractbb" /\ c.name = "cat latexmkrc" /\ d.name = "latexmk"
    BY DEF Unrecorded, Recorded, Lenient, Operation
  <2>2. a \in Ops /\ b \in Ops /\ c \in Ops /\ d \in Ops
    <3>1. "check" \in Kinds /\ {"tex", "extractbb", "cat latexmkrc", "latexmk"} \subseteq Names
      BY DEF Kinds, Names, PlainCommands, Objects
    <3> QED BY <3>1, OperationTyped, CommandTyped DEF IsCommand
  <2> HIDE DEF a, b, c, d
  <2>3. <<a, b, c, d>> \in Seq(Ops)
    BY <2>2
  <2>6. a \notin Removes(f) /\ b \notin Removes(f) /\ c \notin Removes(f) /\ d \notin Removes(f)
    BY <2>1, NotRemoved
  <2>7. Free(<<a, b, c, d>>, Removes(f))
    BY <2>6 DEF Free
  <2>4. Repack(g) \in Seq(Ops)
    BY <1>9, RepackIsSeq
  <2>5. Mended(<<a, b, c, d>> \o Repack(g), f)
    BY <1>7, <2>3, <2>4, <2>7, FreeIsMended, MendedConcat
  <2> QED BY <1>9, <2>5 DEF Package, a, b, c, d
<1>10. CASE g = "epub"
  BY <1>7, <1>10 DEF Package
<1> QED BY <1>8, <1>9, <1>10 DEF Typed, IsConfiguration, Formats

LEMMA ShowConfMends == ASSUME NEW f PROVE ShowConf \in Seq(Ops) /\ Mended(ShowConf, f)
<1> DEFINE a == Operation("check", "configuration")
           b == Recorded("cat configuration")
<1>1. "check" \in Kinds /\ {"configuration", "cat configuration"} \subseteq Names
  BY DEF Kinds, Names, PlainCommands, Objects
<1>2. a \in Ops /\ b \in Ops
  BY <1>1, OperationTyped, CommandTyped DEF IsCommand
<1>3. a.name = "configuration" /\ b.name = "cat configuration"
  BY DEF Recorded, Operation
<1> HIDE DEF a, b
<1>4. a \notin Removes(f) /\ b \notin Removes(f)
  BY <1>3, NotRemoved
<1>5. <<a, b>> \in Seq(Ops)
  BY <1>2
<1>6. Free(<<a, b>>, Removes(f))
  BY <1>4 DEF Free
<1> QED BY <1>5, <1>6, FreeIsMended DEF ShowConf, a, b

LEMMA BuildMends == ASSUME Typed, NEW f \in Formats PROVE Mended(Script("build"), f)
<1> DEFINE Good(q) == q \in Seq(Ops) /\ Mended(q, f)
           Q == Scripts("build")
<1>1. \A q, r : Good(q) /\ Good(r) => Good(q \o r)
  <2>1. ASSUME NEW q, NEW r, Good(q), Good(r) PROVE q \o r \in Seq(Ops) /\ Mended(q \o r, f)
    BY <2>1, MendedConcat
  <2> QED BY <2>1
<1>2. \A q \in Q : q \in Seq(Ops)
  BY ScriptIsSeq
<1>3. Good(<<>>)
  BY FreeIsMended DEF Free
<1>4. ASSUME NEW job \in AllJobs PROVE Good(Job(job))
  <2>1. "build" \notin EmptySteps \cup OwnSteps \cup {"checkout"}
    BY DEF EmptySteps, OwnSteps
  <2> QED BY <1>2, <2>1, JobFits, JobMends
<1>5. \A g \in conf.formats \cup {"html"} : Doctype(conf) # "generic" => Good(RunDocTool(g))
  BY <1>2, RunDocToolFits, DocToolMends
<1>6. \A g \in conf.formats : Good(Package(g))
  BY <1>2, PackageFits, PackageMends
<1>7. Good(ShowConf)
  BY ShowConfMends
<1>8. \A g \in BuildJobs : g \in AllJobs
  BY DEF AllJobs, NewJobs
<1>9. Good(StoreYaml)
  <2> DEFINE op == Operation("best effort", "build yaml")
  <2>1. op.name = "build yaml"
    BY DEF Operation
  <2> HIDE DEF op
  <2>2. op \notin Removes(f)
    BY <2>1, NotRemoved
  <2> HIDE DEF Good
  <2>3. Free(<<op>>, Removes(f))
    BY <2>2 DEF Free
  <2>4. Mended(StoreYaml, f)
    BY <2>3, FreeIsMended DEF StoreYaml, op
  <2> QED BY <1>2, <2>4, BuildPartsFit DEF Good
<1> HIDE DEF Good
<1>10. Good(BuildHtml)
  <2>1. Good(When(Doctype(conf) # "generic", ShowConf \o RunDocTool("html")))
    BY <1>1, <1>3, <1>5, <1>7 DEF When
  <2> QED BY <1>4, <1>8, <2>1 DEF BuildHtml, JobOr, BuildJobs
<1>11. ASSUME NEW g \in Formats PROVE Good(BuildFormat(g))
  <2>1. CASE g \in conf.formats
    <3>1. Good(When(Doctype(conf) = "sphinx", RunDocTool(g) \o Package(g)))
      BY <1>1, <1>3, <1>5, <1>6, <2>1 DEF When
    <3>2. Good(JobOr(g, When(Doctype(conf) = "sphinx", RunDocTool(g) \o Package(g))))
      BY <1>4, <1>8, <3>1 DEF JobOr, BuildJobs
    <3> QED BY <1>3, <3>2 DEF BuildFormat, When
  <2>2. CASE g \notin conf.formats
    BY <1>3, <2>2 DEF BuildFormat, When
  <2> QED BY <2>1, <2>2
<1> DEFINE zip == BuildFormat("htmlzip")
           pdf == BuildFormat("pdf")
           epub == BuildFormat("epub")
<1>12. Good(zip) /\ Good(pdf) /\ Good(epub) /\ Good(Job("pre_build")) /\ Good(Job("post_build"))
  BY <1>4, <1>11 DEF Formats, AllJobs
<1> HIDE DEF zip, pdf, epub
<1>13. Good(BuildHtml \o zip \o pdf \o epub)
  BY <1>1, <1>10, <1>12
<1>14. Good(Hooked("pre_build", OwnBuild, "post_build"))
  BY <1>1, <1>12, <1>13 DEF Hooked, OwnBuild, zip, pdf, epub
<1>15. Good(Build)
  BY <1>1, <1>9, <1>14, BuildPartsFit
<1> QED BY <1>15 DEF Good, Script

LEMMA BuildMakes ==
  ASSUME Typed, NEW f \in SphinxFormats PROVE Before(Script("build"), Makes(f), {})
<1> DEFINE op == About(f, InVenv(Recorded("doctool")))
<1>1. Doctype(conf) = "sphinx" /\ ~proj.external /\ f \in conf.formats /\ ~Listed(conf, f) /\ f \in Formats
  BY DEF SphinxFormats, Listed, Typed, IsConfiguration
<1>2. op \in Makes(f)
  <2> DEFINE u == InVenv(Recorded("doctool"))
  <2>1. "doctool" \in Names /\ f \in Subjects
    BY <1>1 DEF Names, Telling, UsersCommands, Subjects
  <2>2. u \in Ops
    BY <2>1, CommandTyped, VariantTyped DEF IsCommand
  <2>3. u.is = "command" /\ u.name = "doctool"
    BY DEF InVenv, Recorded, Operation
  <2>4. ~WarnOnly(u)
    BY DEF InVenv, Recorded, Operation, WarnOnly
  <2> HIDE DEF u
  <2>5. About(f, u) \in Ops /\ About(f, u).of = f /\ About(f, u).is = "command"
        /\ About(f, u).name = "doctool" /\ ~WarnOnly(About(f, u))
    BY <2>1, <2>2, <2>3, <2>4, VariantTyped, AboutIs
  <2> QED BY <2>5 DEF Makes, u
<1> HIDE DEF op
<1>3. Before(RunDocTool(f), Makes(f), {})
  BY <1>2, ItComesFirst DEF RunDocTool, op
<1>4. RunDocTool(f) \in Scripts("build") /\ Package(f) \in Scripts("build")
  BY <1>1, RunDocToolFits, PackageFits
<1>5. Before(RunDocTool(f) \o Package(f), Makes(f), {})
  BY <1>3, <1>4, AwaitedInConcat
<1>6. Before(BuildFormat(f), Makes(f), {})
  BY <1>1, <1>5 DEF BuildFormat, JobOr, When
<1> QED BY <1>1, <1>6, AwaitedInBuild

LEMMA LastStepsMend ==
  ASSUME NEW s \in {"check_old_output", "done"}, NEW f PROVE Mended(Script(s), f)
<1>1. Mended(<<>>, f)
  BY FreeIsMended DEF Free
<1>2. Mended(CheckOldOutput, f)
  <2> DEFINE op == [Unrecorded("test") EXCEPT !.refuses = {"ok"}]
  <2>1. op.name = "test"
    BY DEF Unrecorded, Recorded, Operation
  <2> HIDE DEF op
  <2>2. op \notin Removes(f)
    BY <2>1, NotRemoved
  <2>3. Free(<<op>>, Removes(f))
    BY <2>2 DEF Free
  <2> QED BY <2>3, FreeIsMended DEF CheckOldOutput, op
<1> QED BY <1>1, <1>2 DEF Script

LEMMA InitHasNoFormats == Init => FormatsInv
BY BuildsAssumption DEF Init, FormatsInv, HasRun

LEMMA FormatsKeep == ASSUME DirectorInv, JobsInv, FormatsInv, [Next]_vars PROVE FormatsInv'
<1>1. conf' = conf /\ proj' = proj /\ (step' = step \/ StepReturns) /\ Typed
  BY OnlyTheseChange DEF effects, DirectorInv
<1>2. SphinxFormats' = SphinxFormats /\ SphinxFormats \subseteq Formats
  BY <1>1 DEF SphinxFormats, Typed, IsConfiguration
<1>3. HasRun' /\ Current.name' \in {"doctool", "mkdir"} =>
        /\ exit' = "ok" /\ Current.of' # "none" => Current.of' \in made'
        /\ exit' # "ok" => \/ struck' \cap {"failure", "docker"} # {}
                           \/ exit' = "exit183" /\ Current.name' = "doctool"
  <2>1. CASE RunCommand
    <3>1. PICK x \in Exits : Exec(x, NaturalExits(Current)) /\ Leaves(x)
      BY <2>1 DEF RunCommand
    <3>2. exit' = x /\ Current' = Current
      BY <3>1 DEF Exec, Current
    <3>3. ASSUME Current.name \in {"doctool", "mkdir"}, x # "ok"
          PROVE  \/ struck' \cap {"failure", "docker"} # {}
                 \/ x = "exit183" /\ Current.name = "doctool"
      <4>1. x \notin NaturalExits(Current)
        BY <3>3 DEF NaturalExits
      <4>2. \/ x = "failure" /\ Hit("failure")
            \/ x = "exit183" /\ Current.name \in UsersCommands
            \/ x = "lost" /\ Hit("docker")
        BY <3>1, <4>1 DEF Exec
      <4> QED BY <3>3, <4>2 DEF Hit, Strike, UsersCommands
    <3>4. ASSUME Current.name \in {"doctool", "mkdir"}, x = "ok", Current.of # "none"
          PROVE  Current.of \in made'
      <4>1. made' = made \cup {Current.of}
        BY <3>1, <3>4 DEF Leaves, Ran
      <4> QED BY <4>1
    <3> QED BY <3>2, <3>3, <3>4
  <2>2. CASE ~RunCommand
    <3>1. ASSUME HasRun'
          PROVE  HasRun /\ rest' = rest /\ exit' = exit /\ made' = made
      BY <2>2, <3>1, RanKeeps DEF effects
    <3>2. struck \subseteq struck'
      BY StruckGrows
    <3> QED BY <3>1, <3>2 DEF FormatsInv, Current
  <2> QED BY <2>1, <2>2
<1>4. ASSUME ~proj.uploaded, exc' = "none", struck' \cap {"failure", "docker"} = {},
             NEW f \in SphinxFormats
      PROVE  \/ step' \in {"create_vcs_environment", "setup_vcs", "create_build_environment",
                           "setup_environment"}
             \/ /\ step' \in {"build", "check_old_output", "done"}
                /\ f \in made' \/ Before(rest', Makes(f), {})
                /\ Mended(rest', f)
  <2>1. exc = "none" /\ struck \subseteq struck' /\ (StepReturns \/ RunCommand \/ Waits \/ Passes)
    BY <1>4, HowItGoesOn
  <2>2. \/ step \in {"create_vcs_environment", "setup_vcs", "create_build_environment", "setup_environment"}
        \/ /\ step \in {"build", "check_old_output", "done"}
           /\ f \in made \/ Before(rest, Makes(f), {})
           /\ Mended(rest, f)
    BY <1>4, <2>1 DEF FormatsInv
  <2>3. CASE StepReturns
    <3>1. rest = <<>> /\ rest' = Script(step') /\ step' = NextStep(step) /\ step # "done" /\ made' = made
      BY <2>3 DEF StepReturns, effects
    <3>2. CASE step \in {"create_vcs_environment", "setup_vcs", "create_build_environment"}
      <4>1. ~UsesCommands(conf)
        BY DEF SphinxFormats, Doctype
      <4> QED BY <1>4, <3>1, <3>2, <4>1 DEF NextStep
    <3>3. CASE step = "setup_environment"
      <4>1. step' = "build"
        BY <3>1, <3>3 DEF NextStep
      <4> QED BY <1>1, <1>2, <3>1, <4>1, BuildMakes, BuildMends
    <3>4. CASE step \in {"build", "check_old_output"}
      <4>1. step' \in {"check_old_output", "done"} /\ f \in made
        BY <2>2, <3>1, <3>4, NothingIsAwaited DEF NextStep
      <4>2. Mended(rest', f)
        BY <3>1, <4>1, LastStepsMend
      <4> QED BY <3>1, <4>1, <4>2
    <3> QED BY <2>2, <3>1, <3>2, <3>3, <3>4
  <2>4. CASE RunCommand
    <3>1. rest' = rest /\ step' = step /\ rest # <<>>
      BY <2>4 DEF RunCommand, Exec, Started, At
    <3>2. ASSUME Mended(rest, f), f \in made, f \notin made' PROVE Before(rest, Makes(f), {})
      <4>1. Current.name = "rm" /\ Current.of = f
        BY <2>4, <3>2 DEF RunCommand, Leaves, Ran
      <4>2. rest \in Seq(Ops) /\ Current \in Ops
        BY <3>1, RestIsSeq, HeadIsOne
      <4> QED BY <3>1, <3>2, <4>1, <4>2, RemovedIsAwaited DEF Removes
    <3> QED BY <2>2, <3>1, <3>2
  <2>5. CASE Waits
    BY <2>2, <2>5 DEF Waits, effects
  <2>6. CASE Passes
    <3>1. PICK n \in {0, Current.skip} : rest' = Drop(1 + n)
      BY <2>6 DEF Passes
    <3>2. rest # <<>> /\ step' = step /\ made' = made /\ rest \in Seq(Ops)
      BY <2>6, RestIsSeq DEF Passes, effects
    <3>3. Current \in Ops
      BY <3>2, HeadIsOne
    <3>4. 1 + n \in Nat
      BY <3>3 DEF Ops
    <3>5. Mended(rest, f) => Mended(rest', f)
      BY <3>1, <3>2, <3>4, StaysMended
    <3>6. Current \notin Makes(f) /\ Before(rest, Makes(f), {}) => Before(rest', Makes(f), {})
      BY <3>1, <3>2, StillAwaited
    <3>7. ASSUME Current \in Makes(f) PROVE f \in made
      <4>1. /\ HasRun /\ (exit = "ok" \/ WarnOnly(Current)) /\ Current.of = f
            /\ Current.name = "mkdir" \/ (Current.name = "doctool" /\ ~WarnOnly(Current))
        BY <2>6, <3>7 DEF Passes, Makes
      <4>2. f # "none"
        BY <1>2 DEF Formats
      <4>3. exit = "ok"
        BY <1>4, <2>1, <4>1 DEF FormatsInv
      <4> QED BY <4>1, <4>2, <4>3 DEF FormatsInv
    <3> QED BY <2>2, <3>2, <3>5, <3>6, <3>7
  <2> QED BY <2>1, <2>3, <2>4, <2>5, <2>6
<1> QED BY <1>1, <1>2, <1>3, <1>4 DEF FormatsInv

(* At the end of a Sphinx build every format asked for has its directory,  *)
(* if no command of the director's own failed: one that is emptied on the  *)
(* way is made again, whatever is skipped in between.                      *)
THEOREM FormatsAreDelivered == Spec => []FormatsDelivered
<1>1. ASSUME DirectorInv, JobsInv, FormatsInv, step = "done", ~proj.uploaded,
             struck \cap {"failure", "docker"} = {}
      PROVE  SphinxFormats \subseteq made
  <2>1. exc = "none"
    BY <1>1 DEF JobsInv
  <2>2. rest = <<>>
    <3>1. rest # <<>> => Fits(Current, "done")
      BY <1>1, CurrentFits
    <3> QED BY <3>1 DEF Fits, EmptySteps
  <2> QED BY <1>1, <2>1, <2>2, NothingIsAwaited DEF FormatsInv
<1>2. DirectorInv /\ JobsInv /\ FormatsInv => FormatsDelivered
  BY <1>1 DEF FormatsDelivered
<1>3. DirectorInv /\ JobsInv /\ FormatsInv /\ [Next]_vars => FormatsInv'
  BY FormatsKeep
<1> QED BY InitHasNoFormats, <1>2, <1>3, DirectorInvariant, JobsInvariant, PTL DEF Spec
=============================================================================
