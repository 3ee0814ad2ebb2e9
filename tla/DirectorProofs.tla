--------------------------- MODULE DirectorProofs ---------------------------
(***************************************************************************)
(* Proofs about module Director, for every set of configurations and       *)
(* projects and every environment: the types, what the API shows of the    *)
(* commands, and that the steps keep the contract by which module Runner   *)
(* uses them.                                                              *)
(***************************************************************************)
EXTENDS Director, SequenceTheorems, TLAPS

-----------------------------------------------------------------------------
(* Operations *)

Kinds == {"command", "request", "bucket", "credentials", "check", "look", "refusal", "load",
          "edit", "crash", "best effort"}

(* The commands about which the invariant says something of their own *)
Telling == UsersCommands \cup {"install", "mkdir", "push"}

(* The other commands, and what the other operations are about *)
PlainCommands ==
  {"ssh-agent", "ssh-add", "clone", "fetch", "remote add", "remote remove", "symbolic-ref",
   "show-ref", "checkout", ".gitmodules", "submodule sync", "submodule update", "cat config",
   "rev-parse", "apt update", "apt install", "chown", "asdf global", "asdf reshim", "asdf uv",
   "bootstrap", "cat environment", "create venv", "upgrade pip", "install doctool",
   "requirements", "package", "uv install", "cat configuration", "mv out", "rm", "mv back",
   "mktemp", "zip", "extractbb", "cat latexmkrc", "latexmk", "unzip", "test"}
Objects ==
  {"key", "project", "notification", "write access", "config", "exists", "extract",
   "build tools", "environment.yml", "no interpreter", "install_uv", "configuration", "tex",
   "pdf", "epub", "html", "build yaml", "uploads", "download"}
Names    == Telling \cup PlainCommands \cup Objects
Subjects == {"none", "python", "other"} \cup Formats \cup AllJobs

Ops == [is : Kinds, name : Names, of : Subjects, record : BOOLEAN, warn : {"default", "yes", "no"},
        git : BOOLEAN, venv : BOOLEAN, refuses : SUBSET Exits, skip : Nat, guarded : BOOLEAN]

(* The steps without operations, and those that run no command of the user *)
EmptySteps == {"create_vcs_environment", "create_build_environment", "done"}
OwnSteps   == {"download_artifacts", "extract_artifacts", "check_old_output",
               "install_build_tools"}

(* "checkout" stands for the part of setup_vcs that precedes the jobs *)
GitSteps == {"setup_vcs", "checkout"}

(* The commands that may exit with a failure when nothing goes wrong; the  *)
(* checkout only runs the first three, to ask a question                   *)
Questions == {"push", "show-ref", ".gitmodules"}
Asking    == Questions \cup {"asdf global", "test", "latexmk", "unzip"}

(* What an operation of the checkout is like *)
OfCheckout(op) ==
  /\ op.is \in {"command", "request", "load", "refusal"}
  /\ op.is = "refusal" => proj.private /\ proj.writes
  /\ op.refuses \subseteq {"lost"}
  /\ op.name \in Asking => op.name \in Questions /\ WarnOnly(op)

(* What an operation must be like to be one of step s: git commands belong *)
(* to the checkout, a command of the user's to the steps that run them, a  *)
(* crash to a configuration that crashes.                                  *)
Fits(op, s) ==
  /\ s \notin EmptySteps
  /\ op.git \/ op.guarded => s \in GitSteps
  /\ op.name \in UsersCommands => s \notin OwnSteps
  /\ op.name = "push" => proj.private /\ op.refuses = {"lost"}
  /\ op.is = "credentials" => s \in {"download_artifacts", "setup_environment", "install_build_tools"}
  /\ op.is \in {"edit", "crash"} => Crashable(conf)
  /\ op.name = "install" => op.of \in Tools
  /\ op.name = "job" => Commands(conf, op.of) > 0 /\ s # "checkout"
  /\ op.name \in {"doctool", "mkdir"} => op.of \in conf.formats \cup {"html", "none"}
  /\ op.name = "doctool" => Doctype(conf) # "generic" /\ s = "build"
  /\ op.venv => ~SkipsDefaults /\ s \in {"setup_environment", "build"}
  /\ s \in GitSteps => OfCheckout(op)

OpsOf(s) == {op \in Ops : Fits(op, s)}

(* A script of step s: operations of it, of which none skips more than the *)
(* script has; and those that skip nothing                                 *)
Within(q)  == \A k \in DOMAIN q : k + q[k].skip <= Len(q)
Scripts(s) == {q \in Seq(OpsOf(s)) : Within(q)}
Flat(s)    == {op \in OpsOf(s) : op.skip = 0}

-----------------------------------------------------------------------------
(* Sequences of operations *)

LEMMA NothingIsASeq == ASSUME NEW S PROVE <<>> \in Seq(S)
OBVIOUS

LEMMA DropIsASeq ==
  ASSUME NEW S, rest \in Seq(S), NEW n \in Nat PROVE Drop(n) \in Seq(S)
BY DEF Drop

LEMMA HeadIsOne ==
  ASSUME NEW S, rest \in Seq(S), rest # <<>> PROVE Current \in S
BY DEF Current

LEMMA NothingIsAScript == \A s : <<>> \in Scripts(s)
BY NothingIsASeq DEF Scripts, Within

LEMMA TupleIsAScript ==
  ASSUME NEW s
  PROVE  /\ \A a \in Flat(s) : <<a>> \in Scripts(s)
         /\ \A a, b \in Flat(s) : <<a, b>> \in Scripts(s)
         /\ \A a, b, c \in Flat(s) : <<a, b, c>> \in Scripts(s)
         /\ \A a, b, c, d \in Flat(s) : <<a, b, c, d>> \in Scripts(s)
<1>1. \A a \in Flat(s) : <<a>> \in Scripts(s)
  BY DEF Scripts, Within, Flat
<1>2. \A a, b \in Flat(s) : <<a, b>> \in Scripts(s)
  BY DEF Scripts, Within, Flat
<1>3. \A a, b, c \in Flat(s) : <<a, b, c>> \in Scripts(s)
  BY DEF Scripts, Within, Flat
<1>4. \A a, b, c, d \in Flat(s) : <<a, b, c, d>> \in Scripts(s)
  BY DEF Scripts, Within, Flat
<1> QED BY <1>1, <1>2, <1>3, <1>4

LEMMA TimesIsAScript ==
  ASSUME NEW s, NEW n \in Nat, NEW op, n > 0 => op \in Flat(s) PROVE Times(n, op) \in Scripts(s)
BY DEF Times, Scripts, Within, Flat

LEMMA EachIsAScript ==
  ASSUME NEW s, NEW n \in Nat, NEW r, r = [i \in 1 .. n |-> r[i]], \A i \in 1 .. n : r[i] \in Flat(s)
  PROVE  r \in Scripts(s)
<1>1. r \in [1 .. n -> OpsOf(s)] /\ \A i \in 1 .. n : r[i].skip = 0
  BY DEF Flat
<1>2. r \in Seq(OpsOf(s)) /\ DOMAIN r = 1 .. n /\ Len(r) = n
  BY <1>1
<1> QED BY <1>1, <1>2 DEF Scripts, Within

LEMMA ConcatIsAScript ==
  ASSUME NEW s, NEW q \in Scripts(s), NEW r \in Scripts(s) PROVE q \o r \in Scripts(s)
<1>1. q \o r \in Seq(OpsOf(s)) /\ Len(q \o r) = Len(q) + Len(r) /\ Len(q) \in Nat /\ Len(r) \in Nat
  BY DEF Scripts
<1>2. ASSUME NEW k \in DOMAIN (q \o r) PROVE k + (q \o r)[k].skip <= Len(q \o r)
  <2>1. CASE k <= Len(q)
    <3>1. (q \o r)[k] = q[k] /\ k \in DOMAIN q /\ q[k] \in Ops
      BY <1>1, <1>2, <2>1 DEF Scripts, OpsOf
    <3>2. k + q[k].skip <= Len(q) /\ q[k].skip \in Nat
      BY <3>1 DEF Scripts, Within, Ops
    <3> QED BY <1>1, <3>1, <3>2
  <2>2. CASE k > Len(q)
    <3>1. (q \o r)[k] = r[k - Len(q)] /\ k - Len(q) \in DOMAIN r /\ r[k - Len(q)] \in Ops
      BY <1>1, <1>2, <2>2 DEF Scripts, OpsOf
    <3>2. k - Len(q) + r[k - Len(q)].skip <= Len(r) /\ r[k - Len(q)].skip \in Nat
      BY <3>1 DEF Scripts, Within, Ops
    <3> QED BY <1>1, <1>2, <3>1, <3>2
  <2> QED BY <1>1, <1>2, <2>1, <2>2
<1> QED BY <1>1, <1>2 DEF Scripts, Within


-----------------------------------------------------------------------------
(* The scripts *)

Typed == IsConfiguration(conf) /\ proj \in Projects

LEMMA OperationTyped ==
  ASSUME NEW kind \in Kinds, NEW name \in Names
  PROVE  /\ Operation(kind, name) \in Ops
         /\ Operation(kind, name).is = kind /\ Operation(kind, name).name = name
         /\ Operation(kind, name).of = "none" /\ Operation(kind, name).refuses = {}
         /\ Operation(kind, name).git = FALSE
         /\ Operation(kind, name).venv = FALSE
         /\ Operation(kind, name).guarded = FALSE
         /\ Operation(kind, name).skip = 0
<1>1. Operation(kind, name) \in Ops
  <2> DEFINE Refusals == SUBSET Exits
             nothing  == {}
  <2>1. "none" \in Subjects
    BY DEF Subjects
  <2>2. nothing \in Refusals
    OBVIOUS
  <2> HIDE DEF Refusals, nothing
  <2>3. [is |-> kind, name |-> name, of |-> "none", record |-> TRUE, warn |-> "default",
         git |-> FALSE, venv |-> FALSE, refuses |-> nothing, skip |-> 0, guarded |-> FALSE]
        \in [is : Kinds, name : Names, of : Subjects, record : BOOLEAN, warn : {"default", "yes", "no"},
            git : BOOLEAN, venv : BOOLEAN, refuses : Refusals, skip : Nat, guarded : BOOLEAN]
    BY <2>1, <2>2
  <2> QED BY <2>3 DEF Operation, Ops, Refusals, nothing
<1>2. Operation(kind, name).is = kind /\ Operation(kind, name).name = name
  BY DEF Operation
<1>3. Operation(kind, name).of = "none" /\ Operation(kind, name).refuses = {}
  BY DEF Operation
<1>4. Operation(kind, name).git = FALSE
  BY DEF Operation
<1>5. Operation(kind, name).venv = FALSE
  BY DEF Operation
<1>6. Operation(kind, name).guarded = FALSE
  BY DEF Operation
<1>7. Operation(kind, name).skip = 0
  BY DEF Operation
<1> QED BY <1>1, <1>2, <1>3, <1>4, <1>5, <1>6, <1>7

LEMMA VariantTyped ==
  ASSUME NEW op \in Ops
  PROVE  /\ [op EXCEPT !.record = FALSE] \in Ops
         /\ \A w \in {"yes", "no"} : [op EXCEPT !.warn = w] \in Ops
         /\ Git(op) \in Ops /\ InVenv(op) \in Ops
         /\ \A n \in Nat : Skips(n, op) \in Ops
         /\ \A x \in Subjects : About(x, op) \in Ops
<1>1. [op EXCEPT !.record = FALSE] \in Ops
  BY DEF Ops
<1>2. ASSUME NEW w \in {"yes", "no"} PROVE [op EXCEPT !.warn = w] \in Ops
  BY DEF Ops
<1>3. Git(op) \in Ops
  BY DEF Ops, Git
<1>4. InVenv(op) \in Ops
  BY DEF Ops, InVenv
<1>5. ASSUME NEW n \in Nat PROVE Skips(n, op) \in Ops
  BY DEF Ops, Skips
<1>6. ASSUME NEW x \in Subjects PROVE About(x, op) \in Ops
  BY DEF Ops, About
<1> QED BY <1>1, <1>2, <1>3, <1>4, <1>5, <1>6

(* A command to which only its name and its record were given, and of      *)
(* which it may have been said to warn or not                              *)
IsCommand(op, name) ==
  /\ op \in Ops /\ op.is = "command" /\ op.name = name /\ op.of = "none"
  /\ op.git = FALSE /\ op.guarded = FALSE /\ op.venv = FALSE
  /\ op.skip = 0 /\ op.refuses = {}

LEMMA CommandTyped ==
  ASSUME NEW name \in Names
  PROVE  /\ IsCommand(Recorded(name), name) /\ IsCommand(Unrecorded(name), name)
         /\ IsCommand(Required(name), name) /\ IsCommand(Lenient(name), name)
         /\ WarnOnly(Unrecorded(name))
<1>1. IsCommand(Recorded(name), name)
  <2> DEFINE op == Operation("command", name)
  <2>1. "command" \in Kinds
    BY DEF Kinds
  <2>2. op \in Ops /\ op.is = "command" /\ op.name = name /\ op.of = "none" /\ op.refuses = {}
    BY <2>1, OperationTyped
  <2>3. op.git = FALSE
    BY <2>1, OperationTyped
  <2>4. op.venv = FALSE
    BY <2>1, OperationTyped
  <2>5. op.guarded = FALSE
    BY <2>1, OperationTyped
  <2>6. op.skip = 0
    BY DEF Operation
  <2> HIDE DEF op
  <2>7. IsCommand(op, name)
    BY <2>2, <2>3, <2>4, <2>5, <2>6 DEF IsCommand
  <2> QED BY <2>7 DEF Recorded, op
<1>2. IsCommand(Unrecorded(name), name)
  BY <1>1, VariantTyped DEF Unrecorded, Ops, IsCommand
<1>3. IsCommand(Required(name), name)
  BY <1>2, VariantTyped DEF Required, Ops, IsCommand
<1>4. IsCommand(Lenient(name), name)
  BY <1>1, VariantTyped DEF Lenient, Ops, IsCommand
<1>5. WarnOnly(Unrecorded(name))
  BY DEF WarnOnly, Unrecorded, Recorded, Operation
<1> QED BY <1>1, <1>2, <1>3, <1>4, <1>5

(* A command about which Fits has nothing to say is one of any step *)
LEMMA IsPlain ==
  ASSUME NEW s, s \notin EmptySteps, NEW name \in PlainCommands, NEW op, IsCommand(op, name),
         s \in GitSteps => name \notin Asking \/ (name \in Questions /\ WarnOnly(op))
  PROVE  op \in Flat(s)
<1>1. name \notin UsersCommands /\ name # "install" /\ name # "mkdir" /\ name # "push"
      /\ name # "job" /\ name # "doctool"
  BY DEF PlainCommands, UsersCommands
<1>2. s \in GitSteps => OfCheckout(op)
  BY DEF OfCheckout, IsCommand
<1>3. Fits(op, s)
  BY <1>1, <1>2 DEF Fits, IsCommand
<1> QED BY <1>3 DEF Flat, OpsOf, IsCommand

LEMMA PlainFits ==
  ASSUME NEW s, s \notin EmptySteps, NEW name \in PlainCommands, s \in GitSteps => name \notin Asking
  PROVE  /\ Recorded(name) \in Flat(s) /\ Unrecorded(name) \in Flat(s)
         /\ Required(name) \in Flat(s) /\ Lenient(name) \in Flat(s)
<1>1. name \in Names
  BY DEF Names
<1> QED BY <1>1, CommandTyped, IsPlain

LEMMA QuestionFits ==
  ASSUME NEW s \in GitSteps, NEW name \in {"show-ref", ".gitmodules"}
  PROVE  Unrecorded(name) \in Flat(s)
<1>1. name \in PlainCommands /\ name \in Names /\ name \in Questions /\ s \notin EmptySteps
  BY DEF PlainCommands, Names, Questions, EmptySteps, GitSteps
<1> QED BY <1>1, CommandTyped, IsPlain

(* So is an operation that is not a command, but for those that need an    *)
(* API or a configuration that crashes                                     *)
LEMMA ObjectFits ==
  ASSUME NEW s, s \notin EmptySteps, NEW name \in Objects, NEW kind \in Kinds,
         kind = "credentials" =>
           s \in {"download_artifacts", "setup_environment", "install_build_tools"},
         kind \in {"edit", "crash"} => Crashable(conf),
         s \in GitSteps => kind \in {"request", "load", "refusal"},
         s \in GitSteps /\ kind = "refusal" => proj.private /\ proj.writes
  PROVE  Operation(kind, name) \in Flat(s)
<1> DEFINE op == Operation(kind, name)
<1>1. name \in Names
  BY DEF Names
<1>2. name \notin UsersCommands /\ name # "install" /\ name # "mkdir" /\ name # "push"
      /\ name # "job" /\ name # "doctool" /\ name \notin Asking
  BY DEF Objects, UsersCommands, Asking, Questions
<1>3. op \in Ops /\ op.is = kind /\ op.name = name /\ op.git = FALSE /\ op.guarded = FALSE
      /\ op.venv = FALSE /\ op.skip = 0 /\ op.refuses = {}
  BY <1>1, OperationTyped
<1> HIDE DEF op
<1>4. s \in GitSteps => OfCheckout(op)
  BY <1>2, <1>3 DEF OfCheckout
<1>5. Fits(op, s)
  BY <1>2, <1>3, <1>4 DEF Fits
<1> QED BY <1>3, <1>5 DEF Flat, OpsOf, op

(* What a caller adds to an operation keeps it one of the step *)
LEMMA VariantFits ==
  ASSUME NEW s, NEW op \in Flat(s)
  PROVE  /\ s \in GitSteps => Git(op) \in Flat(s)
         /\ ~SkipsDefaults /\ s \in {"setup_environment", "build"} => InVenv(op) \in Flat(s)
         /\ \A n \in Nat : Skips(n, op) \in OpsOf(s) /\ Skips(n, op).skip = n
         /\ \A x \in Subjects :
              op.name \notin {"install", "job", "doctool", "mkdir"} => About(x, op) \in Flat(s)
<1>1. op \in Ops /\ Fits(op, s) /\ op.skip = 0
  BY DEF Flat, OpsOf
<1> DEFINE Same(v) == /\ v \in Ops /\ v.is = op.is /\ v.name = op.name /\ v.record = op.record
                      /\ v.warn = op.warn /\ v.refuses = op.refuses /\ v.guarded = op.guarded
<1>2. ASSUME NEW v, Same(v), s \in GitSteps PROVE OfCheckout(v)
  BY <1>1, <1>2 DEF Fits, OfCheckout, WarnOnly
<1>3. ASSUME s \in GitSteps PROVE Git(op) \in Flat(s)
  <2> DEFINE v == Git(op)
  <2>1. Same(v) /\ v.of = op.of /\ v.venv = op.venv /\ v.skip = 0
    BY <1>1, VariantTyped DEF Git, Ops
  <2>2. OfCheckout(v)
    BY <1>2, <1>3, <2>1
  <2> HIDE DEF v
  <2>3. Fits(v, s)
    BY <1>1, <1>3, <2>1, <2>2 DEF Fits
  <2> QED BY <2>1, <2>3 DEF Flat, OpsOf, v
<1>4. ASSUME ~SkipsDefaults, s \in {"setup_environment", "build"} PROVE InVenv(op) \in Flat(s)
  <2> DEFINE v == InVenv(op)
  <2>1. Same(v) /\ v.of = op.of /\ v.git = op.git /\ v.skip = 0
    BY <1>1, VariantTyped DEF InVenv, Ops
  <2>2. s \in GitSteps => OfCheckout(v)
    BY <1>2, <2>1
  <2> HIDE DEF v
  <2>3. Fits(v, s)
    BY <1>1, <1>4, <2>1, <2>2 DEF Fits
  <2> QED BY <2>1, <2>3 DEF Flat, OpsOf, v
<1>5. ASSUME NEW n \in Nat PROVE Skips(n, op) \in OpsOf(s) /\ Skips(n, op).skip = n
  <2> DEFINE v == Skips(n, op)
  <2>1. Same(v) /\ v.of = op.of /\ v.git = op.git /\ v.venv = op.venv /\ v.skip = n
    BY <1>1, VariantTyped DEF Skips, Ops
  <2>2. s \in GitSteps => OfCheckout(v)
    BY <1>2, <2>1
  <2> HIDE DEF v
  <2>3. Fits(v, s)
    BY <1>1, <2>1, <2>2 DEF Fits
  <2> QED BY <2>1, <2>3 DEF OpsOf, v
<1>6. ASSUME NEW x \in Subjects, op.name \notin {"install", "job", "doctool", "mkdir"}
      PROVE  About(x, op) \in Flat(s)
  <2> DEFINE v == About(x, op)
  <2>1. Same(v) /\ v.git = op.git /\ v.venv = op.venv /\ v.skip = 0
    BY <1>1, VariantTyped DEF About, Ops
  <2>2. s \in GitSteps => OfCheckout(v)
    BY <1>2, <2>1
  <2> HIDE DEF v
  <2>3. Fits(v, s)
    BY <1>1, <1>6, <2>1, <2>2 DEF Fits
  <2> QED BY <2>1, <2>3 DEF Flat, OpsOf, v
<1> QED BY <1>3, <1>4, <1>5, <1>6

(* The commands about which Fits says something *)
LEMMA TellingFits ==
  ASSUME NEW s, s \notin EmptySteps, NEW name \in Telling \ {"push", "doctool"}, NEW x \in Subjects,
         name \in UsersCommands => s \notin OwnSteps,
         name = "install" => x \in Tools,
         name = "job" => Commands(conf, x) > 0 /\ s # "checkout",
         name = "mkdir" => x \in conf.formats \cup {"html", "none"}
  PROVE  /\ About(x, Recorded(name)) \in Flat(s) /\ About(x, Unrecorded(name)) \in Flat(s)
         /\ x = "none" => {Recorded(name), Unrecorded(name), Required(name)} \subseteq Flat(s)
<1>1. name \in Names /\ name \notin Asking
  BY DEF Names, Telling, UsersCommands, Asking, Questions
<1>2. ASSUME NEW op, IsCommand(op, name)
      PROVE  /\ About(x, op) \in Ops /\ About(x, op).is = "command" /\ About(x, op).name = name
             /\ About(x, op).of = x /\ About(x, op).git = FALSE /\ About(x, op).guarded = FALSE
             /\ About(x, op).venv = FALSE /\ About(x, op).skip = 0 /\ About(x, op).refuses = {}
  BY <1>2, VariantTyped DEF About, Ops, IsCommand
<1>3. ASSUME NEW op \in Ops, op.is = "command", op.name = name, op.of = x, op.git = FALSE,
             op.guarded = FALSE, op.venv = FALSE, op.skip = 0, op.refuses = {}
      PROVE  op \in Flat(s)
  <2>1. s \in GitSteps => OfCheckout(op)
    BY <1>1, <1>3 DEF OfCheckout
  <2> QED BY <1>3, <2>1 DEF OpsOf, Flat, Fits
<1>4. ASSUME x = "none" PROVE {Recorded(name), Unrecorded(name), Required(name)} \subseteq Flat(s)
  <2>1. ASSUME NEW op, IsCommand(op, name) PROVE op \in Flat(s)
    BY <1>3, <1>4, <2>1 DEF IsCommand
  <2> QED BY <1>1, <2>1, CommandTyped
<1> QED BY <1>1, <1>2, <1>3, <1>4, CommandTyped

LEMMA DocToolFits ==
  ASSUME NEW f \in Subjects, f \in conf.formats \cup {"html"}, Doctype(conf) # "generic"
  PROVE  About(f, InVenv(Recorded("doctool"))) \in Flat("build")
<1> DEFINE op == About(f, InVenv(Recorded("doctool")))
<1>1. "doctool" \in Names /\ "build" \notin EmptySteps /\ "build" \notin OwnSteps /\ "doctool" \notin Asking
  BY DEF Names, Telling, UsersCommands, EmptySteps, OwnSteps, Asking, Questions
<1>2. IsCommand(Recorded("doctool"), "doctool")
  BY <1>1, CommandTyped
<1>3. op \in Ops /\ op.is = "command" /\ op.name = "doctool" /\ op.of = f /\ op.git = FALSE
      /\ op.guarded = FALSE /\ op.skip = 0 /\ op.refuses = {}
  BY <1>2, VariantTyped DEF IsCommand, About, InVenv, Ops
<1> HIDE DEF op
<1>4. Fits(op, "build")
  BY <1>1, <1>3 DEF Fits, SkipsDefaults, GitSteps
<1> QED BY <1>3, <1>4 DEF Flat, OpsOf, op


-----------------------------------------------------------------------------
(* The scripts of the steps *)

LEMMA JobFits ==
  ASSUME Typed, NEW s, s \notin EmptySteps \cup OwnSteps \cup {"checkout"}, NEW job \in AllJobs
  PROVE  Job(job) \in Scripts(s)
<1>1. Commands(conf, job) \in Nat 
  <2>1. CASE job \in DOMAIN conf.jobs
    BY <2>1 DEF Typed, IsConfiguration, Commands, Listed
  <2>2. CASE job \notin DOMAIN conf.jobs
    BY <2>2 DEF Commands, Listed
  <2> QED BY <2>1, <2>2
<1>2. job \in Subjects /\ "job" \in Telling
  BY DEF Subjects, Telling, UsersCommands
<1>3. Commands(conf, job) > 0 => About(job, Recorded("job")) \in Flat(s)
  BY <1>2, TellingFits
<1> QED BY <1>1, <1>3, TimesIsAScript DEF Job

LEMMA HookedFits ==
  ASSUME Typed, NEW s, s \notin EmptySteps \cup OwnSteps \cup {"checkout"}, NEW pre \in AllJobs, NEW post \in AllJobs,
         NEW ops \in Scripts(s)
  PROVE  Hooked(pre, ops, post) \in Scripts(s)
BY JobFits, ConcatIsAScript DEF Hooked

LEMMA JobOrFits ==
  ASSUME Typed, NEW s, s \notin EmptySteps \cup OwnSteps \cup {"checkout"}, NEW job \in AllJobs,
         NEW ops \in Scripts(s)
  PROVE  JobOr(job, ops) \in Scripts(s)
BY JobFits DEF JobOr

LEMMA SetupSshAgentFits ==
  ASSUME Typed, NEW s \in GitSteps PROVE SetupSshAgent \in Scripts(s)
<1> DEFINE S == Flat(s)
           Q == Scripts(s)
<1>1. s \notin EmptySteps /\ {"ssh-agent", "ssh-add"} \subseteq PlainCommands \ Asking
      /\ "key" \in Objects /\ "request" \in Kinds
  BY DEF EmptySteps, GitSteps, PlainCommands, Asking, Questions, Objects, Kinds
<1>2. Operation("request", "key") \in S
  BY <1>1, ObjectFits
<1>3. Unrecorded("ssh-agent") \in S /\ Unrecorded("ssh-add") \in S
  BY <1>1, PlainFits
<1> DEFINE agent == Skips(1, Unrecorded("ssh-agent"))
<1>4. agent \in OpsOf(s) /\ agent.skip = 1
  BY <1>3, VariantFits
<1> HIDE DEF agent
<1>5. <<Operation("request", "key"), agent, Unrecorded("ssh-add")>> \in Q
  BY <1>2, <1>3, <1>4 DEF Scripts, Within, Flat
<1> QED BY <1>5, NothingIsAScript DEF SetupSshAgent, When, agent

LEMMA UpdateFits ==
  ASSUME Typed, NEW s \in GitSteps PROVE Update \in Scripts(s)
<1> DEFINE S == Flat(s)
           Q == Scripts(s)
<1>1. s \notin EmptySteps \cup OwnSteps /\ {"clone", "fetch"} \subseteq PlainCommands \ Asking
      /\ "checkout command" \in Telling /\ "none" \in Subjects
  BY DEF Asking, Questions, EmptySteps, GitSteps, OwnSteps, PlainCommands, Telling, UsersCommands, Subjects
<1>2. Recorded("clone") \in S /\ Recorded("fetch") \in S
  BY <1>1, PlainFits
<1>3. Recorded("checkout command") \in S
  BY <1>1, TellingFits
<1>4. Git(Recorded("clone")) \in S /\ Git(Recorded("fetch")) \in S /\ Git(Recorded("checkout command")) \in S
  BY <1>2, <1>3, VariantFits
<1>5. /\ <<Git(Recorded("checkout command"))>> \in Q
      /\ <<Git(Recorded("clone")), Git(Recorded("fetch"))>> \in Q
  BY <1>4, TupleIsAScript
<1> QED BY <1>5 DEF Update

LEMMA RemoveRemoteFits ==
  /\ \A s \in GitSteps : RemoveRemote \in Flat(s)
  /\ RemoveRemote.guarded = FALSE /\ RemoveRemote.is = "command" /\ RemoveRemote.record = FALSE
  /\ RemoveRemote.warn = "default" /\ RemoveRemote.refuses = {}
<1>1. ASSUME NEW s \in GitSteps PROVE s \notin EmptySteps /\ "remote remove" \in PlainCommands \ Asking
  BY DEF EmptySteps, GitSteps, PlainCommands, Asking, Questions
<1>2. ASSUME NEW s \in GitSteps PROVE RemoveRemote \in Flat(s)
  BY <1>1, PlainFits, VariantFits DEF RemoveRemote
<1> QED BY <1>2 DEF RemoveRemote, Git, Unrecorded, Recorded, Operation

(* git remote add and git push --dry-run, in the try *)
LEMMA ProbingFits ==
  ASSUME Typed, NEW s \in GitSteps, proj.private
  PROVE  /\ [Git(Unrecorded("remote add")) EXCEPT !.guarded = TRUE] \in Flat(s)
         /\ [[Git(Unrecorded("push")) EXCEPT !.guarded = TRUE] EXCEPT !.refuses = {"lost"}]
              \in Flat(s)
<1>1. s \notin EmptySteps /\ "push" \notin UsersCommands /\ {"lost"} \in SUBSET Exits
      /\ "push" \in Questions /\ "push" \in Names /\ "remote add" \in Names
      /\ "remote add" \in PlainCommands /\ "remote add" \notin Asking
  BY DEF EmptySteps, GitSteps, UsersCommands, Exits, Questions, Names, Telling, PlainCommands, Asking
<1>2. "remote add" \notin UsersCommands
  BY DEF UsersCommands
<1>3. ASSUME NEW op, IsCommand(op, "remote add")
      PROVE  [Git(op) EXCEPT !.guarded = TRUE] \in Flat(s)
  <2> DEFINE p == [Git(op) EXCEPT !.guarded = TRUE]
  <2>1. p \in Ops /\ p.is = "command" /\ p.name = "remote add" /\ p.refuses = {} /\ p.venv = FALSE
        /\ p.skip = 0
    BY <1>3 DEF IsCommand, Ops, Git
  <2> HIDE DEF p
  <2>2. OfCheckout(p)
    BY <1>1, <2>1 DEF OfCheckout
  <2>3. Fits(p, s)
    BY <1>1, <1>2, <2>1, <2>2 DEF Fits
  <2> QED BY <2>1, <2>3 DEF OpsOf, Flat, p
<1>4. ASSUME NEW op, IsCommand(op, "push"), WarnOnly(op)
      PROVE  [[Git(op) EXCEPT !.guarded = TRUE] EXCEPT !.refuses = {"lost"}] \in Flat(s)
  <2> DEFINE p == [[Git(op) EXCEPT !.guarded = TRUE] EXCEPT !.refuses = {"lost"}]
  <2>1. p \in Ops /\ p.is = "command" /\ p.name = "push" /\ p.refuses = {"lost"} /\ p.venv = FALSE
        /\ p.skip = 0
    BY <1>1, <1>4 DEF IsCommand, Ops, Git
  <2>2. p.record = op.record /\ p.warn = op.warn
    BY <1>4 DEF IsCommand, Ops, Git
  <2> HIDE DEF p
  <2>3. OfCheckout(p)
    BY <1>1, <1>4, <2>1, <2>2 DEF OfCheckout, WarnOnly
  <2>4. Fits(p, s)
    BY <1>1, <2>1, <2>3 DEF Fits
  <2> QED BY <2>1, <2>4 DEF OpsOf, Flat, p
<1> QED BY <1>1, <1>3, <1>4, CommandTyped

LEMMA ProbeKeyFits ==
  ASSUME Typed, NEW s \in GitSteps, proj.private PROVE ProbeKey \in Scripts(s)
<1> DEFINE S   == Flat(s)
           Q == Scripts(s)
           add == [Git(Unrecorded("remote add")) EXCEPT !.guarded = TRUE]
           push == [[Git(Unrecorded("push")) EXCEPT !.guarded = TRUE] EXCEPT !.refuses = {"lost"}]
           note == IF proj.enforce THEN Operation("refusal", "write access")
                   ELSE Operation("request", "notification")
           project == Operation("request", "project")
<1>1. s \notin EmptySteps /\ {"refusal", "request"} \subseteq Kinds
      /\ {"write access", "notification", "project"} \subseteq Objects
  BY DEF EmptySteps, GitSteps, Kinds, Objects
<1>2. project \in S /\ (proj.writes => note \in S)
  BY <1>1, ObjectFits
<1>3. add \in S /\ push \in S /\ RemoveRemote \in S
  BY ProbingFits, RemoveRemoteFits
<1> HIDE DEF add, push, note, project
<1>4. <<add, push, RemoveRemote>> \in Q /\ <<project>> \in Q /\ (proj.writes => <<note>> \in Q)
  BY <1>2, <1>3, TupleIsAScript
<1>5. When(proj.writes # proj.known, <<project>>) \in Q /\ When(proj.writes, <<note>>) \in Q
  BY <1>4, NothingIsAScript DEF When
<1>6. <<add, push, RemoveRemote>> \o When(proj.writes # proj.known, <<project>>)
      \o When(proj.writes, <<note>>) \in Q
  BY <1>4, <1>5, ConcatIsAScript
<1> QED BY <1>6 DEF ProbeKey, add, push, note, project

LEMMA CheckoutRefFits ==
  ASSUME Typed, NEW s \in GitSteps PROVE CheckoutRef \in Scripts(s)
<1> DEFINE S == Flat(s)
           Q == Scripts(s)
<1>1. s \notin EmptySteps /\ {"symbolic-ref", "checkout"} \subseteq PlainCommands \ Asking
  BY DEF EmptySteps, GitSteps, PlainCommands, Asking, Questions
<1>2. Git(Unrecorded("symbolic-ref")) \in S /\ Git(Unrecorded("show-ref")) \in S
      /\ Git(Recorded("checkout")) \in S
  BY <1>1, PlainFits, QuestionFits, VariantFits
<1>3. /\ <<Git(Unrecorded("symbolic-ref"))>> \in Q
      /\ <<Git(Unrecorded("show-ref"))>> \in Q
      /\ <<Git(Recorded("checkout"))>> \in Q
  BY <1>2, TupleIsAScript
<1>4. When(proj.ref = "name", <<Git(Unrecorded("show-ref"))>>) \in Q
  BY <1>3, NothingIsAScript DEF When
<1>5. When(proj.ref = "name", <<Git(Unrecorded("show-ref"))>>) \o <<Git(Recorded("checkout"))>> \in Q
  BY <1>3, <1>4, ConcatIsAScript
<1> QED BY <1>3, <1>5, NothingIsAScript DEF CheckoutRef, When

LEMMA UpdateSubmodulesFits ==
  ASSUME Typed, NEW s \in GitSteps PROVE UpdateSubmodules \in Scripts(s)
<1> DEFINE S    == Flat(s)
           Q    == Scripts(s)
           read == Git(Unrecorded(".gitmodules"))
           two  == Skips(2, read)
           more == Skips(3, read)
           sync == Git(Recorded("submodule sync"))
           upd  == Git(Recorded("submodule update"))
<1>1. s \notin EmptySteps /\ {"submodule sync", "submodule update"} \subseteq PlainCommands \ Asking
  BY DEF EmptySteps, GitSteps, PlainCommands, Asking, Questions
<1>2. read \in S /\ sync \in S /\ upd \in S
  BY <1>1, PlainFits, QuestionFits, VariantFits
<1> HIDE DEF read, sync, upd
<1>3. two \in OpsOf(s) /\ two.skip = 2 /\ more \in OpsOf(s) /\ more.skip = 3
  BY <1>2, VariantFits
<1> HIDE DEF two, more
<1>4. <<more, two, sync, upd>> \in Q
  BY <1>2, <1>3 DEF Scripts, Within, Flat
<1>5. <<two, sync, upd>> \in Q
  BY <1>2, <1>3 DEF Scripts, Within, Flat
<1>6. CASE conf.submodules = "exclude"
  BY <1>4, <1>6 DEF UpdateSubmodules, read, two, more, sync, upd
<1>7. CASE conf.submodules = "include"
  BY <1>5, <1>7 DEF UpdateSubmodules, read, two, sync, upd
<1>8. CASE conf.submodules \notin {"include", "exclude"}
  BY <1>8, NothingIsAScript DEF UpdateSubmodules
<1> QED BY <1>6, <1>7, <1>8

(* The parts of checkout and of setup_vcs *)
LoadConf == <<Recorded("cat config"), Operation("load", "config")>>
HoldBack == When(proj.private /\ proj.writes /\ Commands(conf, "post_checkout") > 0,
                 <<Operation("refusal", "write access")>>)
MakeDir  == When(proj.fresh, <<Required("mkdir")>>)
ParseRev == <<Git(Unrecorded("rev-parse"))>>

LEMMA CheckoutIs ==
  /\ Checkout = Update \o When(proj.private, ProbeKey) \o CheckoutRef \o LoadConf \o UpdateSubmodules
                \o HoldBack
  /\ SetupVcs = MakeDir \o SetupSshAgent \o MakeDir \o Checkout \o Job("post_checkout") \o ParseRev
BY DEF Checkout, SetupVcs, LoadConf, HoldBack, MakeDir, ParseRev

LEMMA CheckoutPartsFit ==
  ASSUME Typed, NEW s \in GitSteps
  PROVE  /\ Update \in Scripts(s) /\ When(proj.private, ProbeKey) \in Scripts(s)
         /\ CheckoutRef \in Scripts(s) /\ LoadConf \in Scripts(s) /\ UpdateSubmodules \in Scripts(s)
         /\ HoldBack \in Scripts(s) /\ MakeDir \in Scripts(s) /\ SetupSshAgent \in Scripts(s)
         /\ ParseRev \in Scripts(s)
<1> DEFINE S == Flat(s)
           Q == Scripts(s)
<1>1. s \notin EmptySteps /\ {"load", "refusal"} \subseteq Kinds
      /\ {"config", "write access"} \subseteq Objects /\ {"cat config", "rev-parse"} \subseteq PlainCommands \ Asking
      /\ "mkdir" \in Telling /\ "mkdir" \notin UsersCommands /\ "none" \in Subjects
  BY DEF EmptySteps, GitSteps, PlainCommands, Asking, Questions, Kinds, Objects, Telling, UsersCommands,
         Subjects
<1>2. Recorded("cat config") \in S /\ Operation("load", "config") \in S
      /\ (proj.private /\ proj.writes => Operation("refusal", "write access") \in S)
  BY <1>1, PlainFits, ObjectFits
<1>3. Git(Unrecorded("rev-parse")) \in S
  BY <1>1, PlainFits, VariantFits
<1>4. Required("mkdir") \in S
  BY <1>1, TellingFits
<1>5. Update \in Q /\ CheckoutRef \in Q /\ UpdateSubmodules \in Q /\ SetupSshAgent \in Q
  BY UpdateFits, CheckoutRefFits, UpdateSubmodulesFits, SetupSshAgentFits
<1>6. When(proj.private, ProbeKey) \in Q
  BY ProbeKeyFits, NothingIsAScript DEF When
<1>7. LoadConf \in Q /\ (proj.private /\ proj.writes => <<Operation("refusal", "write access")>> \in Q)
  BY <1>2, TupleIsAScript DEF LoadConf
<1>8. HoldBack \in Q
  BY <1>7, NothingIsAScript DEF HoldBack, When
<1>9. ParseRev \in Q /\ MakeDir \in Q
  BY <1>3, <1>4, TupleIsAScript, NothingIsAScript DEF ParseRev, MakeDir, When
<1> QED BY <1>5, <1>6, <1>7, <1>8, <1>9

LEMMA CheckoutFits ==
  ASSUME Typed, NEW s \in GitSteps PROVE Checkout \in Scripts(s)
BY CheckoutPartsFit, CheckoutIs, ConcatIsAScript

LEMMA SetupVcsFits == ASSUME Typed PROVE SetupVcs \in Scripts("setup_vcs")
<1>1. "setup_vcs" \in GitSteps /\ "setup_vcs" \notin EmptySteps \cup OwnSteps \cup {"checkout"}
      /\ "post_checkout" \in AllJobs
  BY DEF GitSteps, EmptySteps, OwnSteps, AllJobs
<1>2. Checkout \in Scripts("setup_vcs") /\ Job("post_checkout") \in Scripts("setup_vcs")
  BY <1>1, CheckoutFits, JobFits
<1> QED BY <1>1, <1>2, CheckoutPartsFit, CheckoutIs, ConcatIsAScript

(* The parts of the installation of a tool *)
AskCache == <<Operation("bucket", "exists")>>
Get(t)   == IF t \in proj.cached
            THEN <<Operation("bucket", "extract"), Unrecorded("chown"), About(t, Unrecorded("install"))>>
            ELSE <<About(t, Recorded("install"))>>
Use(t)   == <<About(t, Recorded("asdf global")), Unrecorded("asdf reshim")>>
Extra(t) == When(t = "python" /\ UsesUv(conf), Times(3, Recorded("asdf uv")))
Boot(t)  == When(t = "python" /\ t \notin proj.cached /\ ~UsesConda(conf), <<Recorded("bootstrap")>>)

LEMMA InstallToolIs == ASSUME NEW t PROVE InstallTool(t) = AskCache \o Get(t) \o Use(t) \o Extra(t) \o Boot(t)
BY DEF InstallTool, AskCache, Get, Use, Extra, Boot

LEMMA InstallToolPartsFit ==
  ASSUME Typed, NEW s \in {"setup_environment", "install_build_tools"}, NEW t \in Tools
  PROVE  /\ AskCache \in Scripts(s) /\ Get(t) \in Scripts(s) /\ Use(t) \in Scripts(s)
         /\ Extra(t) \in Scripts(s) /\ Boot(t) \in Scripts(s)
         /\ About(t, Recorded("asdf global")) \in Flat(s)
<1> DEFINE S == Flat(s)
           Q == Scripts(s)
<1>1. s \notin EmptySteps \cup GitSteps /\ "bucket" \in Kinds /\ {"exists", "extract"} \subseteq Objects
      /\ {"chown", "asdf global", "asdf reshim", "asdf uv", "bootstrap"} \subseteq PlainCommands
  BY DEF EmptySteps, GitSteps, PlainCommands, Kinds, Objects
<1>2. t \in Subjects
  BY DEF Tools, Subjects
<1>3. Operation("bucket", "extract") \in S /\ Operation("bucket", "exists") \in S
  BY <1>1, ObjectFits
<1>4. Unrecorded("chown") \in S /\ Unrecorded("asdf reshim") \in S /\ Recorded("asdf uv") \in S
      /\ Recorded("bootstrap") \in S /\ Recorded("asdf global") \in S
  BY <1>1, PlainFits
<1>5. About(t, Unrecorded("install")) \in S /\ About(t, Recorded("install")) \in S
  BY <1>1, <1>2, TellingFits DEF Telling, UsersCommands
<1>6. About(t, Recorded("asdf global")) \in S
  <2>1. Recorded("asdf global").name = "asdf global"
    BY DEF Recorded, Operation
  <2> QED BY <1>2, <1>4, <2>1, VariantFits
<1>7. Get(t) \in Q /\ Use(t) \in Q /\ AskCache \in Q
  BY <1>3, <1>4, <1>5, <1>6, TupleIsAScript DEF Get, Use, AskCache
<1>8. Extra(t) \in Q
  BY <1>4, TimesIsAScript, NothingIsAScript DEF Extra, When
<1>9. Boot(t) \in Q
  BY <1>4, TupleIsAScript, NothingIsAScript DEF Boot, When
<1> QED BY <1>6, <1>7, <1>8, <1>9

LEMMA InstallBuildToolsPartsFit ==
  ASSUME Typed, NEW s \in {"setup_environment", "install_build_tools"}
  PROVE  /\ <<Operation("credentials", "build tools")>> \in Scripts(s)
         /\ \A t : When(t \in Tools, InstallTool(t)) \in Scripts(s)
<1>1. s \notin EmptySteps \cup GitSteps /\ "credentials" \in Kinds /\ "build tools" \in Objects
  BY DEF EmptySteps, GitSteps, Kinds, Objects
<1>2. <<Operation("credentials", "build tools")>> \in Scripts(s)
  BY <1>1, ObjectFits, TupleIsAScript
<1>3. ASSUME NEW t PROVE When(t \in Tools, InstallTool(t)) \in Scripts(s)
  <2>1. CASE t \in Tools
    <3>1. InstallTool(t) \in Scripts(s)
      BY <2>1, InstallToolIs, InstallToolPartsFit, ConcatIsAScript
    <3> QED BY <2>1, <3>1 DEF When
  <2> QED BY <2>1, NothingIsAScript DEF When
<1> QED BY <1>2, <1>3

LEMMA InstallBuildToolsFits ==
  ASSUME Typed, NEW s \in {"setup_environment", "install_build_tools"}
  PROVE  InstallBuildTools \in Scripts(s)
BY InstallBuildToolsPartsFit, ConcatIsAScript DEF InstallBuildTools

LEMMA SystemDependenciesFits ==
  ASSUME Typed, NEW s, s \notin EmptySteps PROVE SystemDependencies \in Scripts(s)
<1> DEFINE S == Flat(s)
           Q == Scripts(s)
<1>1. {"apt update", "apt install"} \subseteq PlainCommands \ Asking
  BY DEF PlainCommands, Asking, Questions
<1>2. Recorded("apt update") \in S /\ Recorded("apt install") \in S
  BY <1>1, PlainFits
<1>3. <<Recorded("apt update"), Recorded("apt install")>> \in Q
  BY <1>2, TupleIsAScript
<1> QED BY <1>3, NothingIsAScript DEF SystemDependencies, When

LEMMA SetupBaseFits ==
  ASSUME Typed, ~UsesCommands(conf)
  PROVE  SetupBase \in Scripts("setup_environment")
<1> DEFINE S     == Flat("setup_environment")
           Q == Scripts("setup_environment")
           conda == <<Operation("edit", "environment.yml"), Recorded("cat environment"), Recorded("create venv")>>
           none  == <<Operation("crash", "no interpreter")>>
           venvs == <<Recorded("create venv")>>
<1>1. "setup_environment" \notin EmptySteps /\ {"edit", "crash"} \subseteq Kinds
      /\ {"cat environment", "create venv"} \subseteq PlainCommands
      /\ {"environment.yml", "no interpreter"} \subseteq Objects
  BY DEF EmptySteps, PlainCommands, Kinds, Objects
<1>2. Recorded("cat environment") \in S /\ Recorded("create venv") \in S
  BY <1>1, PlainFits DEF GitSteps
<1>3. ASSUME Crashable(conf)
      PROVE  Operation("edit", "environment.yml") \in S /\ Operation("crash", "no interpreter") \in S
  BY <1>1, <1>3, ObjectFits DEF GitSteps
<1>4. venvs \in Q /\ (Crashable(conf) => conda \in Q /\ none \in Q)
  BY <1>2, <1>3, TupleIsAScript
<1> HIDE DEF conda, none, venvs
<1>5. CASE Environment(conf) = "Conda"
  BY <1>4, <1>5 DEF Crashable, SetupBase, conda
<1>6. CASE Environment(conf) # "Conda" /\ Environment(conf) = "Virtualenv" /\ conf.python = "none"
  BY <1>4, <1>6 DEF Crashable, SetupBase, none
<1>7. CASE Environment(conf) # "Conda" /\ ~(Environment(conf) = "Virtualenv" /\ conf.python = "none")
  BY <1>4, <1>7 DEF SetupBase, venvs
<1> QED BY <1>5, <1>6, <1>7

LEMMA InstallFits ==
  ASSUME Typed, ~UsesCommands(conf)
  PROVE  Install \in Scripts("setup_environment")
<1> DEFINE S == Flat("setup_environment")
           Q == Scripts("setup_environment")
<1>1. "setup_environment" \notin EmptySteps /\ "setup_environment" \notin EmptySteps \cup OwnSteps \cup {"checkout"}
      /\ "crash" \in Kinds /\ "install_uv" \in Objects /\ "install" \in AllJobs
      /\ {"upgrade pip", "install doctool", "requirements", "package", "uv install"} \subseteq PlainCommands
  BY DEF EmptySteps, OwnSteps, PlainCommands, Kinds, Objects, AllJobs, NewJobs
<1>2. ASSUME ~SkipsDefaults
      PROVE  /\ InVenv(Recorded("upgrade pip")) \in S /\ InVenv(Recorded("install doctool")) \in S
             /\ InVenv(Recorded("requirements")) \in S /\ InVenv(Recorded("package")) \in S
             /\ InVenv(Recorded("uv install")) \in S
  BY <1>1, <1>2, PlainFits, VariantFits DEF GitSteps
<1>3. Crashable(conf) => Operation("crash", "install_uv") \in S
  BY <1>1, ObjectFits DEF GitSteps
<1>4. ASSUME ~SkipsDefaults PROVE InstallCoreRequirements \o InstallRequirements \in Q
  <2>1. /\ <<InVenv(Recorded("upgrade pip"))>> \in Q /\ <<InVenv(Recorded("install doctool"))>> \in Q
        /\ <<InVenv(Recorded("requirements"))>> \in Q /\ <<InVenv(Recorded("package"))>> \in Q
        /\ <<InVenv(Recorded("uv install"))>> \in Q
    BY <1>2, <1>4, TupleIsAScript
  <2>2. Crashable(conf) => <<Operation("crash", "install_uv")>> \in Q
    BY <1>3, TupleIsAScript
  <2>3. InstallCoreRequirements \in Q
    <3>1. When(Doctype(conf) # "generic", <<InVenv(Recorded("install doctool"))>>) \in Q
      BY <2>1, NothingIsAScript DEF When
    <3>2. <<InVenv(Recorded("upgrade pip"))>>
          \o When(Doctype(conf) # "generic", <<InVenv(Recorded("install doctool"))>>) \in Q
      BY <2>1, <3>1, ConcatIsAScript
    <3>3. ASSUME NEW ops \in Q PROVE When(Environment(conf) = "Virtualenv", ops) \in Q
      BY <3>3, NothingIsAScript DEF When
    <3> QED BY <3>2, <3>3 DEF InstallCoreRequirements
  <2>4. InstallRequirements \in Q
    <3>1. CASE conf.install = "requirements"
      BY <2>1, <3>1, NothingIsAScript DEF InstallRequirements, When
    <3>2. CASE conf.install = "package"
      BY <2>1, <3>2 DEF InstallRequirements
    <3>3. CASE conf.install = "uv" /\ Environment(conf) = "UvEnv"
      BY <2>1, <3>3 DEF InstallRequirements
    <3>4. CASE conf.install = "uv" /\ Environment(conf) # "UvEnv"
      <4>1. Crashable(conf)
        BY <3>4 DEF Crashable, Environment, UsesUv
      <4> QED BY <2>2, <3>4, <4>1 DEF InstallRequirements
    <3>5. CASE conf.install \notin {"requirements", "package", "uv"}
      BY <3>5, NothingIsAScript DEF InstallRequirements
    <3> QED BY <3>1, <3>2, <3>3, <3>4, <3>5
  <2>5. InstallCoreRequirements \o InstallRequirements \in Q
    BY <2>3, <2>4, ConcatIsAScript
  <2> QED BY <2>5
<1>5. When(~SkipsDefaults, InstallCoreRequirements \o InstallRequirements) \in Q
  BY <1>4, NothingIsAScript DEF When
<1> QED BY <1>1, <1>5, JobOrFits DEF Install

(* The parts of setup_environment *)
LEMMA SetupEnvironmentPartsFit ==
  ASSUME Typed, ~UsesCommands(conf)
  PROVE  /\ Hooked("pre_system_dependencies", SystemDependencies, "post_system_dependencies")
              \in Scripts("setup_environment")
         /\ InstallBuildTools \in Scripts("setup_environment")
         /\ CreateEnvironment \in Scripts("setup_environment")
         /\ Hooked("pre_create_environment", CreateEnvironment, "post_create_environment")
              \in Scripts("setup_environment")
         /\ Install \in Scripts("setup_environment")
         /\ Hooked("pre_install", Install, "post_install") \in Scripts("setup_environment")
<1> DEFINE Q == Scripts("setup_environment")
<1>1. "setup_environment" \notin EmptySteps \cup OwnSteps \cup {"checkout"}
      /\ {"pre_system_dependencies", "post_system_dependencies", "pre_create_environment",
          "post_create_environment", "pre_install", "post_install", "create_environment"} \subseteq AllJobs
  BY DEF EmptySteps, OwnSteps, AllJobs, NewJobs
<1>2. CreateEnvironment \in Q
  <2>1. When(~SkipsDefaults, SetupBase) \in Q
    BY SetupBaseFits, NothingIsAScript DEF When
  <2> QED BY <1>1, <2>1, JobOrFits DEF CreateEnvironment
<1>3. Hooked("pre_system_dependencies", SystemDependencies, "post_system_dependencies") \in Q
  BY <1>1, SystemDependenciesFits, HookedFits DEF EmptySteps
<1>4. Hooked("pre_create_environment", CreateEnvironment, "post_create_environment") \in Q
  BY <1>1, <1>2, HookedFits
<1>5. Hooked("pre_install", Install, "post_install") \in Q
  BY <1>1, InstallFits, HookedFits
<1>6. InstallBuildTools \in Q
  BY InstallBuildToolsFits
<1> QED BY <1>2, <1>3, <1>4, <1>5, <1>6, InstallFits

LEMMA SetupEnvironmentFits ==
  ASSUME Typed, ~UsesCommands(conf)
  PROVE  SetupEnvironment \in Scripts("setup_environment")
BY SetupEnvironmentPartsFit, ConcatIsAScript DEF SetupEnvironment

LEMMA RunDocToolFits ==
  ASSUME Typed, NEW f \in conf.formats \cup {"html"}, Doctype(conf) # "generic"
  PROVE  RunDocTool(f) \in Scripts("build")
<1>1. f \in Subjects
  BY DEF Subjects, AllJobs, NewJobs, BuildJobs, Typed, IsConfiguration, Formats
<1>2. About(f, InVenv(Recorded("doctool"))) \in Flat("build")
  BY <1>1, DocToolFits
<1> QED BY <1>2, TupleIsAScript DEF RunDocTool

LEMMA BuildHtmlFits == ASSUME Typed PROVE BuildHtml \in Scripts("build")
<1> DEFINE S == Flat("build")
           Q == Scripts("build")
<1>1. "build" \notin EmptySteps /\ "build" \notin EmptySteps \cup OwnSteps \cup {"checkout"} /\ "check" \in Kinds
      /\ "configuration" \in Objects /\ "cat configuration" \in PlainCommands /\ "html" \in AllJobs
  BY DEF EmptySteps, OwnSteps, Kinds, Objects, PlainCommands, AllJobs, NewJobs, BuildJobs
<1>2. Operation("check", "configuration") \in S /\ Recorded("cat configuration") \in S
  BY <1>1, ObjectFits, PlainFits DEF GitSteps
<1>3. ShowConf \in Q
  BY <1>2, TupleIsAScript DEF ShowConf
<1>4. Doctype(conf) # "generic" => RunDocTool("html") \in Q
  BY RunDocToolFits
<1>5. Doctype(conf) # "generic" => ShowConf \o RunDocTool("html") \in Q
  BY <1>3, <1>4, ConcatIsAScript
<1>6. When(Doctype(conf) # "generic", ShowConf \o RunDocTool("html")) \in Q
  BY <1>5, NothingIsAScript DEF When
<1> QED BY <1>1, <1>6, JobOrFits DEF BuildHtml

LEMMA PackageFits ==
  ASSUME Typed, NEW f \in conf.formats PROVE Package(f) \in Scripts("build")
<1> DEFINE S   == Flat("build")
           Q == Scripts("build")
           zip == <<Unrecorded("mktemp"), About(f, Unrecorded("rm")), About(f, Unrecorded("mkdir")),
                    Unrecorded("zip")>>
           pdf == <<Operation("check", "tex"), Unrecorded("extractbb"), Recorded("cat latexmkrc"),
                    Lenient("latexmk")>>
<1>1. "build" \notin EmptySteps /\ {"check", "look"} \subseteq Kinds
      /\ {"tex", "pdf", "epub"} \subseteq Objects
      /\ {"mktemp", "rm", "zip", "extractbb", "cat latexmkrc", "latexmk", "mv out", "mv back"}
           \subseteq PlainCommands
  BY DEF EmptySteps, Kinds, Objects, PlainCommands
<1>2. f \in Subjects
  BY DEF Subjects, Typed, IsConfiguration
<1>3. /\ Unrecorded("mktemp") \in S /\ Unrecorded("zip") \in S /\ Unrecorded("rm") \in S
      /\ Unrecorded("extractbb") \in S /\ Recorded("cat latexmkrc") \in S /\ Lenient("latexmk") \in S
      /\ Unrecorded("mv out") \in S /\ Unrecorded("mv back") \in S
  BY <1>1, PlainFits DEF GitSteps
<1>4. Operation("check", "tex") \in S /\ Operation("look", "pdf") \in S /\ Operation("look", "epub") \in S
  BY <1>1, ObjectFits DEF GitSteps
<1>5. About(f, Unrecorded("rm")) \in S
  <2>1. Unrecorded("rm").name = "rm"
    BY DEF Unrecorded, Recorded, Operation
  <2> QED BY <1>2, <1>3, <2>1, VariantFits
<1>6. About(f, Unrecorded("mkdir")) \in S
  BY <1>1, <1>2, TellingFits DEF Telling, UsersCommands
<1>7. zip \in Q
  BY <1>3, <1>5, <1>6, TupleIsAScript
<1>8. ASSUME f \in {"pdf", "epub"} PROVE Repack(f) \in Q
  <2> DEFINE jump == Skips(4, Operation("look", f))
             out == Unrecorded("mv out")
             rm == About(f, Unrecorded("rm"))
             mk == About(f, Unrecorded("mkdir"))
             back == Unrecorded("mv back")
  <2>1. Operation("look", f) \in S
    BY <1>4, <1>8
  <2>2. jump \in OpsOf("build") /\ jump.skip = 4
    BY <2>1, VariantFits
  <2>3. out \in S /\ rm \in S /\ mk \in S /\ back \in S
    BY <1>3, <1>5, <1>6
  <2> HIDE DEF jump, out, rm, mk, back
  <2>4. <<jump, out, rm, mk, back>> \in Q
    BY <2>2, <2>3 DEF Scripts, Within, Flat
  <2> QED BY <2>4 DEF Repack, jump, out, rm, mk, back
<1>9. pdf \in Q
  BY <1>3, <1>4, TupleIsAScript
<1> HIDE DEF zip, pdf
<1>10. CASE f = "htmlzip"
  BY <1>7, <1>10 DEF Package, zip
<1>11. CASE f = "pdf"
  BY <1>8, <1>9, <1>11, ConcatIsAScript DEF Package, pdf
<1>12. CASE f = "epub"
  BY <1>8, <1>12 DEF Package
<1> QED BY <1>10, <1>11, <1>12 DEF Typed, IsConfiguration, Formats

LEMMA BuildFormatFits ==
  ASSUME Typed, NEW f \in Formats PROVE BuildFormat(f) \in Scripts("build")
<1> DEFINE S   == Flat("build")
           Q == Scripts("build")
           own == When(Doctype(conf) = "sphinx", RunDocTool(f) \o Package(f))
<1>1. CASE f \in conf.formats /\ ~proj.external
  <2>1. (Doctype(conf) = "sphinx" => RunDocTool(f) \in Q) /\ Package(f) \in Q
    BY <1>1, RunDocToolFits, PackageFits
  <2>2. own \in Q
    BY <2>1, ConcatIsAScript, NothingIsAScript DEF When
  <2>3. "build" \notin EmptySteps \cup OwnSteps \cup {"checkout"} /\ f \in AllJobs
    BY DEF EmptySteps, OwnSteps, AllJobs, NewJobs, BuildJobs
  <2> HIDE DEF own
  <2>4. JobOr(f, own) \in Q
    BY <2>2, <2>3, JobOrFits
  <2> QED BY <1>1, <2>4 DEF BuildFormat, When, own
<1>2. CASE ~(f \in conf.formats /\ ~proj.external)
  BY <1>2, NothingIsAScript DEF BuildFormat, When
<1> QED BY <1>1, <1>2

(* The parts of build *)
OwnBuild  == BuildHtml \o BuildFormat("htmlzip") \o BuildFormat("pdf") \o BuildFormat("epub")
StoreYaml == <<Operation("best effort", "build yaml")>>

LEMMA BuildPartsFit ==
  ASSUME Typed
  PROVE  /\ Build = Hooked("pre_build", OwnBuild, "post_build") \o StoreYaml
         /\ BuildHtml \in Scripts("build") /\ \A f \in Formats : BuildFormat(f) \in Scripts("build")
         /\ OwnBuild \in Scripts("build") /\ StoreYaml \in Scripts("build")
         /\ Hooked("pre_build", OwnBuild, "post_build") \in Scripts("build")
<1> DEFINE Q == Scripts("build")
<1>1. "build" \notin EmptySteps \cup GitSteps /\ "build" \notin EmptySteps \cup OwnSteps \cup {"checkout"}
      /\ "best effort" \in Kinds /\ "build yaml" \in Objects
      /\ "pre_build" \in AllJobs /\ "post_build" \in AllJobs
  BY DEF EmptySteps, GitSteps, OwnSteps, Kinds, Objects, AllJobs
<1>2. StoreYaml \in Q
  BY <1>1, ObjectFits, TupleIsAScript DEF StoreYaml
<1>3. BuildHtml \in Q /\ \A f \in Formats : BuildFormat(f) \in Q
  BY BuildHtmlFits, BuildFormatFits
<1>4. OwnBuild \in Q
  BY <1>3, ConcatIsAScript DEF OwnBuild, Formats
<1>5. Hooked("pre_build", OwnBuild, "post_build") \in Q
  BY <1>1, <1>4, HookedFits
<1>6. Build = Hooked("pre_build", OwnBuild, "post_build") \o StoreYaml
  BY DEF Build, OwnBuild, StoreYaml
<1> QED BY <1>2, <1>3, <1>4, <1>5, <1>6

LEMMA BuildFits == ASSUME Typed PROVE Build \in Scripts("build")
BY BuildPartsFit, ConcatIsAScript

LEMMA RunBuildCommandsFits ==
  ASSUME Typed PROVE RunBuildCommands \in Scripts("run_build_commands")
<1> DEFINE S == Flat("run_build_commands")
           Q == Scripts("run_build_commands")
           runs == [i \in 1 .. 2 * conf.commands |->
                      IF i % 2 = 1 THEN Recorded("command") ELSE Unrecorded("asdf reshim")]
           last == <<Operation("check", "html"), Operation("best effort", "build yaml")>>
<1>1. "run_build_commands" \notin EmptySteps /\ "run_build_commands" \notin OwnSteps
      /\ {"check", "best effort"} \subseteq Kinds /\ {"html", "build yaml"} \subseteq Objects
      /\ "asdf reshim" \in PlainCommands /\ "none" \in Subjects
  BY DEF EmptySteps, OwnSteps, Kinds, Objects, PlainCommands, Subjects
<1>2. Recorded("command") \in S
  BY <1>1, TellingFits DEF Telling, UsersCommands
<1>3. Unrecorded("asdf reshim") \in S /\ Operation("check", "html") \in S
      /\ Operation("best effort", "build yaml") \in S
  BY <1>1, PlainFits, ObjectFits DEF GitSteps
<1>4. last \in Q
  BY <1>3, TupleIsAScript
<1>5. conf.commands \in Nat
  BY DEF Typed, IsConfiguration
<1>6. runs \in Q
  <2> DEFINE n == 2 * conf.commands
  <2>1. n \in Nat
    BY <1>5
  <2> HIDE DEF n
  <2>2. runs = [i \in 1 .. n |-> runs[i]]
    BY Zenon DEF n
  <2>3. \A i \in 1 .. n : runs[i] = Recorded("command") \/ runs[i] = Unrecorded("asdf reshim")
    BY Zenon DEF n
  <2> HIDE DEF runs
  <2> QED BY <1>2, <1>3, <2>1, <2>2, <2>3, EachIsAScript
<1> HIDE DEF last, runs
<1> QED BY <1>4, <1>6, ConcatIsAScript DEF RunBuildCommands, last, runs

LEMMA ArtifactsFit ==
  /\ DownloadArtifacts \in Scripts("download_artifacts")
  /\ ExtractArtifacts \in Scripts("extract_artifacts")
  /\ CheckOldOutput \in Scripts("check_old_output")
<1> DEFINE Refusing(op, R) == [op EXCEPT !.refuses = R]
<1>1. {"download_artifacts", "extract_artifacts", "check_old_output"} \cap EmptySteps = {}
      /\ {"credentials", "bucket"} \subseteq Kinds /\ {"uploads", "download"} \subseteq Objects
      /\ {"unzip", "test"} \subseteq PlainCommands /\ "mkdir" \in Telling /\ "none" \in Subjects
      /\ "mkdir" \notin UsersCommands
  BY DEF EmptySteps, Kinds, Objects, PlainCommands, Telling, UsersCommands, Subjects
<1>2. ASSUME NEW s, s \notin GitSteps, NEW op \in Flat(s), op.name # "push", NEW R \in SUBSET Exits
      PROVE  Refusing(op, R) \in Flat(s)
  BY <1>2 DEF Flat, OpsOf, Fits, Ops
<1>3. Operation("credentials", "uploads") \in Flat("download_artifacts")
      /\ Operation("bucket", "download") \in Flat("download_artifacts")
  BY <1>1, ObjectFits DEF GitSteps
<1>4. Required("mkdir") \in Flat("download_artifacts") /\ Unrecorded("mkdir") \in Flat("extract_artifacts")
  BY <1>1, TellingFits
<1>5. Lenient("unzip") \in Flat("extract_artifacts") /\ Unrecorded("test") \in Flat("check_old_output")
  BY <1>1, PlainFits DEF GitSteps
<1>6. Lenient("unzip").name # "push" /\ Unrecorded("test").name # "push"
  BY DEF Lenient, Unrecorded, Recorded, Operation
<1>7. Refusing(Lenient("unzip"), Exits \ {"ok"}) \in Flat("extract_artifacts")
      /\ Refusing(Unrecorded("test"), {"ok"}) \in Flat("check_old_output")
  <2>1. Exits \ {"ok"} \in SUBSET Exits /\ {"ok"} \in SUBSET Exits
    BY DEF Exits
  <2> HIDE DEF Refusing
  <2> QED BY <1>2, <1>5, <1>6, <2>1 DEF GitSteps
<1>8. DownloadArtifacts \in Scripts("download_artifacts")
  BY <1>3, <1>4, TupleIsAScript DEF DownloadArtifacts
<1>9. ExtractArtifacts \in Scripts("extract_artifacts")
  BY <1>4, <1>7, TupleIsAScript DEF ExtractArtifacts
<1>10. CheckOldOutput \in Scripts("check_old_output")
  BY <1>7, TupleIsAScript DEF CheckOldOutput
<1> QED BY <1>8, <1>9, <1>10

(* Every operation of a step's script is one that fits the step            *)
LEMMA ScriptFits ==
  ASSUME Typed, NEW s, s = "setup_environment" => ~UsesCommands(conf)
  PROVE  Script(s) \in Scripts(s)
<1>1. CASE s = "setup_vcs"
  BY <1>1, SetupVcsFits DEF Script
<1>2. CASE s = "setup_environment"
  BY <1>2, SetupEnvironmentFits DEF Script
<1>3. CASE s = "install_build_tools"
  BY <1>3, InstallBuildToolsFits DEF Script
<1>4. CASE s = "run_build_commands"
  BY <1>4, RunBuildCommandsFits DEF Script
<1>5. CASE s = "build"
  BY <1>5, BuildFits DEF Script
<1>6. CASE s \in {"download_artifacts", "extract_artifacts", "check_old_output"}
  BY <1>6, ArtifactsFit DEF Script
<1>7. CASE s \notin {"setup_vcs", "setup_environment", "install_build_tools", "run_build_commands",
                    "build", "download_artifacts", "extract_artifacts", "check_old_output"}
  BY <1>7, NothingIsAScript DEF Script
<1> QED BY <1>1, <1>2, <1>3, <1>4, <1>5, <1>6, <1>7

-----------------------------------------------------------------------------
(* The inductive invariant *)

(* What is left of a step are operations of that step *)
OpsInv ==
  /\ rest \in Seq(OpsOf(step))
  /\ step = "setup_environment" => ~UsesCommands(conf)

(* Where the operation under way is, and what the API shows of it *)
PhaseInv ==
  /\ phase # "ready"  => At("command")
  /\ phase = "ready"  => shown = "none" /\ exit = "ok"
  /\ phase = "posted" => Current.record /\ shown = "open" /\ exit = "ok"
  /\ phase = "ran"    => shown = IF Current.record THEN "open" ELSE "none"
  /\ phase = "saved"  => shown = IF Current.record THEN exit ELSE "none"
  /\ exit = "exit183" => Current.name \in UsersCommands
  /\ exit = "lost"    => "docker" \in struck

(* What the exception of a step may be, once it is on its way *)
Accounted ==
  IF landed # "none"
  THEN exc \in StepBecomes(step, landed) /\ (exc = "Unexpected" => "docker" \in struck)
  ELSE \/ exc \in Raises(step)
       \/ exc = "AppError"   /\ ("api" \in struck \/ proj.path)
       \/ exc = "Unexpected" /\ (struck \cap {"api", "storage", "docker"} # {} \/ Crashable(conf))

(* After an exception only the finally of has_ssh_key_with_write_access is *)
(* left, which only a signal or the daemon makes raise another             *)
RaisedInv ==
  /\ landed # "none" => exc # "none"
  /\ exc # "none" => rest \in {<<>>, <<RemoveRemote>>} /\ Accounted

(* RecordsSettled at any time: a record is only left without an exit code  *)
(* when an exception is on its way                                         *)
LogInv ==
  \A r \in log :
    /\ exc = "none" => r.status # "open" /\ (r.warn \/ r.status \in {"ok", "orphan"})
    /\ r.status = "open" => landed # "none" \/ (exc = "Unexpected" /\ struck \cap {"api", "docker"} # {})
    /\ r.status = "orphan" => "api" \in struck

(* The types of what the commands leave in the container *)
EffectsOK ==
  tools \subseteq Tools /\ venv \in BOOLEAN /\ made \subseteq conf.formats \cup {"html"}
  /\ ranJob \subseteq DOMAIN conf.jobs

DirectorInv == Typed /\ DirectorTypeOK /\ OpsInv /\ PhaseInv /\ RaisedInv /\ LogInv

LEMMA OpsOfKept ==
  ASSUME conf' = conf, proj' = proj PROVE OpsOf(step)' = OpsOf(step')
BY DEF OpsOf, Fits, OfCheckout, SkipsDefaults, Tools, Crashable

LEMMA TypedKept == ASSUME Typed, UNCHANGED <<conf, proj>> PROVE Typed'
BY DEF Typed

(* The first operation, and what is known of it *)
LEMMA CurrentFits ==
  ASSUME DirectorInv, rest # <<>>
  PROVE  /\ Current \in Ops /\ Fits(Current, step) /\ WarnOnly(Current) \in BOOLEAN
         /\ Current.git \/ Current.guarded => step = "setup_vcs"
<1>1. Current \in OpsOf(step)
  BY HeadIsOne DEF DirectorInv, OpsInv
<1>2. step # "checkout"
  BY DEF DirectorInv, DirectorTypeOK, DirectorSteps
<1> QED BY <1>1, <1>2 DEF OpsOf, WarnOnly, Fits, GitSteps

LEMMA InitIsGood == Init => DirectorInv
<1> SUFFICES ASSUME Init PROVE DirectorInv
  OBVIOUS
<1>1. Typed
  BY BuildsAssumption DEF Init, Typed
<1>2. step \in {"create_build_environment", "create_vcs_environment"} /\ rest = <<>>
  BY DEF Init, Script
<1>3. DirectorTypeOK
  BY <1>2 DEF Init, DirectorTypeOK, DirectorSteps, Phases, Exits
<1>4. OpsInv
  BY <1>2, NothingIsASeq DEF OpsInv
<1>5. PhaseInv /\ RaisedInv /\ LogInv
  BY <1>2 DEF Init, PhaseInv, RaisedInv, LogInv
<1> QED BY <1>1, <1>3, <1>4, <1>5 DEF DirectorInv

(* A step in which nothing of the environment's is taken back *)
Grows == struck \subseteq struck' /\ struck' \subseteq Disturbances

LEMMA GrowsHitOrCalm ==
  ASSUME DirectorInv
  PROVE  (\A d : Hit(d) => Grows /\ d \in struck') /\ (Calm => Grows)
BY DEF DirectorInv, DirectorTypeOK, Hit, Strike, Calm, Grows

(* The records of the operation that is over *)
LEMMA RecordsTyped ==
  ASSUME DirectorInv, rest # <<>>, NEW S, S \subseteq Statuses
  PROVE  Records(S) \subseteq [status : Statuses, warn : BOOLEAN]
BY CurrentFits DEF Records

(* Leaving an operation, with its records as they have to be, whether the  *)
(* step goes on or an exception is on its way                              *)
LEMMA PassKeeps ==
  ASSUME DirectorInv, rest # <<>>, NEW n \in Nat, Pass(n), Stay, Grows,
         shown # "none" => shown = "ok" \/ (shown \in Exits /\ WarnOnly(Current))
  PROVE  DirectorInv'
<1>1. step' = step /\ conf' = conf /\ proj' = proj /\ tools' = tools /\ venv' = venv /\ made' = made
      /\ ranJob' = ranJob /\ landed' = landed
  BY DEF Stay, effects
<1>2. rest' = Drop(1 + n) /\ exc' = exc /\ shown' = "none" /\ phase' = "ready" /\ exit' = "ok"
      /\ log' = log \cup Records({shown} \ {"none"})
  BY DEF Pass, Leave
<1>3. Typed'
  BY <1>1, TypedKept DEF DirectorInv
<1>4. OpsInv'
  <2>1. rest' \in Seq(OpsOf(step))
    BY <1>2, DropIsASeq DEF DirectorInv, OpsInv
  <2>2. rest' \in Seq(OpsOf(step)')
    BY <1>1, <2>1, OpsOfKept
  <2> QED BY <1>1, <2>2 DEF DirectorInv, OpsInv
<1>5. PhaseInv'
  BY <1>2 DEF PhaseInv
<1>6. RaisedInv'
  <2>1. ASSUME exc # "none" PROVE rest' = <<>>
    <3>1. rest = <<RemoveRemote>>
      BY <2>1 DEF DirectorInv, RaisedInv
    <3> QED BY <1>2, <3>1 DEF Drop
  <2>2. Accounted => Accounted'
    BY <1>1, <1>2 DEF Accounted, Grows
  <2> QED BY <1>1, <1>2, <2>1, <2>2 DEF DirectorInv, RaisedInv
<1>7. LogInv'
  <2>1. ASSUME NEW r \in Records({shown} \ {"none"})
        PROVE  r.status # "open" /\ r.status # "orphan" /\ (r.warn \/ r.status = "ok")
    BY <2>1 DEF Records, Exits
  <2> QED BY <1>1, <1>2, <2>1 DEF DirectorInv, LogInv, Grows
<1>8. DirectorTypeOK'
  <2>1. Records({shown} \ {"none"}) \subseteq [status : Statuses, warn : BOOLEAN]
    BY RecordsTyped DEF Statuses, DirectorInv, DirectorTypeOK
  <2> QED BY <1>1, <1>2, <2>1 DEF DirectorInv, DirectorTypeOK, Grows, Phases, Exits, Tools
<1> QED BY <1>3, <1>4, <1>5, <1>6, <1>7, <1>8 DEF DirectorInv

LEMMA RaiseAndLeaveKeeps ==
  ASSUME DirectorInv, rest # <<>>, NEW e \in Exceptions, Raise(e), Grows,
         UNCHANGED <<conf, proj, step>>, EffectsOK', landed' \in Exceptions \cup {"none"},
         landed # "none" => landed' # "none",
         exc = "none" \/ landed' # "none" \/ e = "Unexpected",
         shown = "open" => landed' # "none" \/ (e = "Unexpected" /\ "docker" \in struck'),
         Accounted'
  PROVE  DirectorInv'
<1>1. step' = step /\ conf' = conf /\ proj' = proj
  OBVIOUS
<1>2. rest' \in {<<>>, <<RemoveRemote>>} /\ exc' = e /\ shown' = "none" /\ phase' = "ready"
      /\ exit' = "ok" /\ log' = log \cup Records({shown} \ {"none"})
      /\ (rest' = <<RemoveRemote>> => Current.guarded)
  BY DEF Raise, Leave
<1>3. e # "none"
  BY DEF Exceptions, UserErrors, AppErrors, Cancellations
<1>4. Typed'
  BY <1>1, TypedKept DEF DirectorInv
<1>5. OpsInv'
  <2>1. rest' \in Seq(OpsOf(step))
    <3>1. CASE rest' = <<>>
      BY <3>1, NothingIsASeq
    <3>2. CASE rest' = <<RemoveRemote>>
      <4>1. step = "setup_vcs"
        BY <1>2, <3>2, CurrentFits
      <4>2. RemoveRemote \in OpsOf(step)
        BY <4>1, RemoveRemoteFits DEF Flat, GitSteps
      <4> QED BY <3>2, <4>2
    <3> QED BY <1>2, <3>1, <3>2
  <2>2. rest' \in Seq(OpsOf(step)')
    BY <1>1, <2>1, OpsOfKept
  <2> QED BY <1>1, <2>2 DEF DirectorInv, OpsInv
<1>6. PhaseInv'
  BY <1>2 DEF PhaseInv
<1>7. RaisedInv'
  BY <1>2, <1>3 DEF RaisedInv
<1>8. LogInv'
  <2>1. shown \in {"none", "open"} \cup Exits
    BY DEF DirectorInv, PhaseInv, DirectorTypeOK, Phases
  <2>2. ASSUME NEW r \in Records({shown} \ {"none"})
        PROVE  /\ r.status # "orphan"
               /\ r.status = "open" => landed' # "none" \/ (e = "Unexpected" /\ "docker" \in struck')
    BY <2>1, <2>2 DEF Records, Exits
  <2>3. ASSUME NEW r \in log
        PROVE  /\ r.status = "orphan" => "api" \in struck'
               /\ r.status = "open" =>
                    landed' # "none" \/ (e = "Unexpected" /\ struck' \cap {"api", "docker"} # {})
    BY <2>3 DEF DirectorInv, LogInv, Grows
  <2> QED BY <1>2, <1>3, <2>2, <2>3 DEF LogInv
<1>9. DirectorTypeOK'
  <2>1. Records({shown} \ {"none"}) \subseteq [status : Statuses, warn : BOOLEAN]
    BY RecordsTyped DEF Statuses, DirectorInv, DirectorTypeOK
  <2> QED BY <1>1, <1>2, <2>1 DEF DirectorInv, DirectorTypeOK, Grows, Phases, Exits, EffectsOK
<1> QED BY <1>4, <1>5, <1>6, <1>7, <1>8, <1>9 DEF DirectorInv

LEMMA EffectsTyped ==
  ASSUME DirectorInv, UNCHANGED <<conf, effects>> PROVE EffectsOK'
BY DEF DirectorInv, DirectorTypeOK, EffectsOK, effects, Tools

LEMMA RaiseKeeps ==
  ASSUME DirectorInv, rest # <<>>, NEW e \in Exceptions, Raise(e), Grows,
         UNCHANGED <<conf, proj, step, effects>>, landed' \in Exceptions \cup {"none"},
         landed # "none" => landed' # "none",
         exc = "none" \/ landed' # "none",
         shown = "open" => landed' # "none",
         Accounted'
  PROVE  DirectorInv'
BY EffectsTyped, RaiseAndLeaveKeeps

-----------------------------------------------------------------------------
(* The commands *)

(* A command that is recorded, and any other that may end in an exception  *)
(* of its own, is not the finally of a try                                 *)
LEMMA NothingRaisedYet ==
  ASSUME DirectorInv, rest # <<>>,
         Current.record \/ ~WarnOnly(Current) \/ Current.refuses # {} \/ Current.is # "command"
  PROVE  exc = "none" /\ landed = "none"
<1>1. exc # "none" => Current = RemoveRemote
  BY DEF DirectorInv, RaisedInv, Current
<1>2. exc = "none"
  BY <1>1, RemoveRemoteFits DEF WarnOnly
<1> QED BY <1>2 DEF DirectorInv, RaisedInv

(* The API failed a command: what its records show is in the log *)
LEMMA ApiEndsKeeps ==
  ASSUME DirectorInv, rest # <<>>, exc = "none", landed = "none", Stay, Hit("api"),
         exc' = "Unexpected", rest' = <<>>, phase' = "ready", exit' = "ok", shown' = "none",
         NEW S, S \subseteq Statuses, log' = log \cup Records(S)
  PROVE  DirectorInv'
<1>1. step' = step /\ conf' = conf /\ proj' = proj /\ tools' = tools /\ venv' = venv /\ made' = made
      /\ ranJob' = ranJob /\ landed' = landed
  BY DEF Stay, effects
<1>2. Grows /\ "api" \in struck'
  BY GrowsHitOrCalm
<1>3. Typed'
  BY <1>1, TypedKept DEF DirectorInv
<1>4. OpsInv'
  <2>1. rest' \in Seq(OpsOf(step)')
    BY NothingIsASeq
  <2> QED BY <1>1, <2>1 DEF DirectorInv, OpsInv
<1>5. PhaseInv'
  BY DEF PhaseInv
<1>6. RaisedInv'
  BY <1>1, <1>2 DEF RaisedInv, Accounted
<1>7. LogInv'
  BY <1>1, <1>2 DEF LogInv
<1>8. DirectorTypeOK'
  <2>1. Records(S) \subseteq [status : Statuses, warn : BOOLEAN]
    BY RecordsTyped
  <2> QED BY <1>1, <1>2, <2>1 DEF DirectorInv, DirectorTypeOK, Grows, Phases, Exits, Tools, Exceptions
<1> QED BY <1>3, <1>4, <1>5, <1>6, <1>7, <1>8 DEF DirectorInv

(* A command goes from one phase to the next *)
LEMMA PhaseKeeps ==
  ASSUME DirectorInv, At("command"), UNCHANGED <<conf, proj, step, effects, landed, rest, exc>>, Grows,
         phase' \in Phases \ {"ready"}, exit' \in Exits, shown' \in Statuses \cup {"none"},
         PhaseInv',
         log' = log \/ (exc = "none" /\ log' = log \cup Records({"orphan"}) /\ "api" \in struck')
  PROVE  DirectorInv'
<1>1. step' = step /\ conf' = conf /\ proj' = proj /\ tools' = tools /\ venv' = venv /\ made' = made
      /\ ranJob' = ranJob /\ landed' = landed /\ rest' = rest /\ exc' = exc
  BY DEF effects
<1>2. Typed'
  BY <1>1, TypedKept DEF DirectorInv
<1>3. OpsInv'
  <2>1. rest' \in Seq(OpsOf(step)')
    BY <1>1, OpsOfKept DEF DirectorInv, OpsInv
  <2> QED BY <1>1, <2>1 DEF DirectorInv, OpsInv
<1>4. RaisedInv'
  BY <1>1 DEF DirectorInv, RaisedInv, Accounted, Grows
<1>5. LogInv'
  <2>1. ASSUME NEW r \in Records({"orphan"}) PROVE r.status = "orphan"
    BY <2>1 DEF Records
  <2> QED BY <1>1, <2>1 DEF DirectorInv, LogInv, Grows
<1>6. DirectorTypeOK'
  <2>1. Records({"orphan"}) \subseteq [status : Statuses, warn : BOOLEAN]
    BY RecordsTyped DEF Statuses, At
  <2>2. rest # <<>>
    BY DEF At
  <2> QED BY <1>1, <2>1, <2>2 DEF DirectorInv, DirectorTypeOK, Grows, Tools
<1> QED BY <1>2, <1>3, <1>4, <1>5, <1>6 DEF DirectorInv

LEMMA PostCommandKeeps == ASSUME DirectorInv, PostCommand, Stay PROVE DirectorInv'
<1>1. At("command") /\ phase = "ready" /\ Current.record /\ rest # <<>>
  BY DEF PostCommand, At
<1>2. exc = "none" /\ landed = "none"
  BY <1>1, NothingRaisedYet
<1>3. shown = "none" /\ exit = "ok"
  BY <1>1 DEF DirectorInv, PhaseInv
<1>4. CASE /\ phase' = "posted" /\ shown' = "open"
           /\ \/ UNCHANGED log /\ Calm
              \/ log' = log \cup Records({"orphan"}) /\ Hit("api")
           /\ UNCHANGED <<rest, exit, exc>>
  <2>1. Grows /\ (log' = log \/ "api" \in struck')
    BY <1>4, GrowsHitOrCalm
  <2>2. PhaseInv'
    BY <1>1, <1>3, <1>4 DEF PhaseInv, At, Current
  <2> QED BY <1>1, <1>2, <1>3, <1>4, <2>1, <2>2, PhaseKeeps DEF Stay, Phases, Statuses, Exits
<1>5. CASE /\ Hit("api")
           /\ \E created \in SUBSET {"open"} :
                /\ log' = log \cup Records(created)
                /\ exc' = "Unexpected" /\ rest' = <<>>
           /\ UNCHANGED <<phase, exit, shown>>
  BY <1>1, <1>2, <1>3, <1>5, ApiEndsKeeps DEF Statuses
<1> QED BY <1>4, <1>5 DEF PostCommand

LEMMA SaveCommandKeeps == ASSUME DirectorInv, SaveCommand, Stay PROVE DirectorInv'
<1>1. At("command") /\ phase = "ran" /\ rest # <<>>
  BY DEF SaveCommand, At
<1>2. shown = (IF Current.record THEN "open" ELSE "none") /\ exit \in Exits
  BY <1>1 DEF DirectorInv, PhaseInv, DirectorTypeOK
<1>3. CASE /\ phase' = "saved"
           /\ shown' = IF Current.record THEN exit ELSE "none"
           /\ Calm \/ (Current.record /\ Hit("gone"))
           /\ UNCHANGED <<rest, exit, exc, log>>
  <2>1. Grows
    BY <1>3, GrowsHitOrCalm
  <2>2. PhaseInv'
    BY <1>1, <1>3, <2>1 DEF DirectorInv, PhaseInv, At, Current, Grows
  <2> QED BY <1>1, <1>2, <1>3, <2>1, <2>2, PhaseKeeps DEF Stay, Phases, Statuses
<1>4. CASE /\ Current.record /\ Hit("api")
           /\ \E status \in {shown, exit} : log' = log \cup Records({status})
           /\ exc' = "Unexpected" /\ rest' = <<>>
           /\ phase' = "ready" /\ exit' = "ok" /\ shown' = "none"
  <2>1. exc = "none" /\ landed = "none"
    BY <1>1, <1>4, NothingRaisedYet
  <2>2. PICK status \in {shown, exit} : log' = log \cup Records({status})
    BY <1>4
  <2>3. {status} \subseteq Statuses
    BY <1>2, <1>4 DEF Statuses
  <2> QED BY <1>1, <1>4, <2>1, <2>2, <2>3, ApiEndsKeeps
<1> QED BY <1>3, <1>4 DEF SaveCommand

(* What vcs.Backend.run makes of an exception *)
LEMMA TranslatedIs ==
  ASSUME NEW op \in Ops, NEW e
  PROVE  \/ Translated(op, e) = e
         \/ op.git /\ e \in Cancellations /\ Translated(op, e) = "CancelledByUser"
         \/ op.git /\ e \in {"UserError", "TimeOut"} /\ Translated(op, e) = "UserError"
<1>1. op.git \in BOOLEAN
  BY DEF Ops
<1>2. CASE ~op.git
  BY <1>2 DEF Translated
<1>3. CASE op.git /\ e \in Cancellations
  BY <1>3 DEF Translated
<1>4. CASE op.git /\ e \notin Cancellations /\ e \in UserErrors
  BY <1>4 DEF Translated, UserErrors
<1>5. CASE op.git /\ e \notin Cancellations /\ e \notin UserErrors
  BY <1>5 DEF Translated
<1> QED BY <1>1, <1>2, <1>3, <1>4, <1>5

(* The exceptions a command may end in *)
LEMMA JudgeKeeps == ASSUME DirectorInv, Judge, Stay PROVE DirectorInv'
<1>1. At("command") /\ phase = "saved" /\ rest # <<>> /\ Calm
  BY DEF Judge, At
<1>2. Current \in Ops /\ Fits(Current, step) /\ Grows
  BY <1>1, CurrentFits, GrowsHitOrCalm
<1>3. shown = (IF Current.record THEN exit ELSE "none") /\ exit \in Exits
  BY <1>1 DEF DirectorInv, PhaseInv, DirectorTypeOK
<1>4. shown # "open"
  BY <1>3 DEF Exits
<1>5. step \in DirectorSteps \ EmptySteps
  BY <1>2 DEF DirectorInv, DirectorTypeOK, Fits, EmptySteps
<1>6. UNCHANGED <<conf, proj, step, effects>> /\ landed' = landed /\ landed \in Exceptions \cup {"none"}
  BY DEF Stay, DirectorInv, DirectorTypeOK
<1>7. CASE exit # "ok" /\ ~WarnOnly(Current)
  <2> DEFINE own == IF exit = "exit183" THEN "ExitCode183" ELSE "UserError"
             e   == Translated(Current, own)
  <2>1. Raise(e)
    BY <1>7 DEF Judge
  <2>2. landed = "none" /\ exc = "none"
    BY <1>1, <1>7, NothingRaisedYet
  <2>3. own \in {"UserError", "ExitCode183"} /\ (own = "ExitCode183" => step \notin OwnSteps)
    BY <1>1, <1>2 DEF DirectorInv, PhaseInv, Fits
  <2>4. e = own \/ (e = "CancelledByUser" /\ own = "ExitCode183" /\ step = "setup_vcs")
    <3>1. own = "UserError" => own \notin Cancellations
      BY DEF Cancellations
    <3> HIDE DEF own
    <3>2. Current.git => step = "setup_vcs"
      BY <1>1, CurrentFits
    <3> QED BY <1>2, <2>3, <3>1, <3>2, TranslatedIs
  <2>5. e \in Raises(step)
    BY <1>5, <2>3, <2>4 DEF Raises, OwnSteps, EmptySteps, DirectorSteps
  <2>6. e \in Exceptions
    BY <2>3, <2>4 DEF Exceptions, UserErrors, Cancellations
  <2> HIDE DEF e, own
  <2>7. Accounted'
    BY <1>6, <2>1, <2>2, <2>5 DEF Accounted, Raise
  <2> QED BY <1>1, <1>2, <1>4, <1>6, <2>1, <2>2, <2>6, <2>7, RaiseKeeps
<1>8. CASE ~(exit # "ok" /\ ~WarnOnly(Current)) /\ exit \in Current.refuses
  <2> DEFINE e == IF Current.name = "push" THEN "Unexpected" ELSE "UserError"
  <2>1. Raise(e)
    BY <1>8 DEF Judge
  <2>2. landed = "none" /\ exc = "none"
    BY <1>1, <1>8, NothingRaisedYet
  <2>3. e \in Exceptions
    BY DEF Exceptions, UserErrors
  <2>4. e = "Unexpected" => "docker" \in struck
    BY <1>2, <1>8 DEF DirectorInv, PhaseInv, Fits
  <2>5. e = "UserError" => e \in Raises(step)
    BY <1>5 DEF Raises, EmptySteps, DirectorSteps
  <2>6. e \in {"Unexpected", "UserError"}
    OBVIOUS
  <2> HIDE DEF e
  <2>7. Accounted'
    BY <1>2, <1>6, <2>1, <2>2, <2>4, <2>5, <2>6 DEF Accounted, Raise, Grows
  <2> QED BY <1>1, <1>2, <1>4, <1>6, <2>1, <2>2, <2>3, <2>7, RaiseKeeps
<1>9. CASE ~(exit # "ok" /\ ~WarnOnly(Current)) /\ exit \notin Current.refuses
  <2> DEFINE n == IF exit = "ok" THEN 0 ELSE Current.skip
  <2>1. Pass(n) /\ n \in Nat
    BY <1>2, <1>9 DEF Judge, Ops
  <2>2. shown # "none" => shown = "ok" \/ (shown \in Exits /\ WarnOnly(Current))
    BY <1>3, <1>9
  <2> HIDE DEF n
  <2> QED BY <1>1, <1>2, <2>1, <2>2, PassKeeps
<1> QED BY <1>7, <1>8, <1>9

LEMMA LeavesTyped ==
  ASSUME DirectorInv, rest # <<>>, NEW x, Leaves(x), conf' = conf
  PROVE  EffectsOK'
<1>1. Current \in Ops /\ Fits(Current, step)
  BY CurrentFits
<1>2. tools' \subseteq Tools /\ Tools' = Tools
  <2>1. tools \subseteq Tools
    BY DEF DirectorInv, DirectorTypeOK
  <2>2. Ran("install", x) => Current.of \in Tools
    BY <1>1 DEF Ran, Fits
  <2>3. tools' = tools \/ (tools' = tools \cup {Current.of} /\ Ran("install", x))
    BY DEF Leaves
  <2>4. Tools' = Tools
    BY DEF Tools
  <2> QED BY <2>1, <2>2, <2>3, <2>4
<1>3. venv' \in BOOLEAN
  BY DEF Leaves
<1>4. made' \subseteq conf.formats \cup {"html"}
  <2>1. made \subseteq conf.formats \cup {"html"}
    BY DEF DirectorInv, DirectorTypeOK
  <2>2. Ran("doctool", x) \/ Ran("mkdir", x) => Current.of \in conf.formats \cup {"html", "none"}
    BY <1>1 DEF Ran, Fits
  <2>3. made' = made \ {Current.of} \/ made' = made
        \/ (made' = made \cup {Current.of} /\ (Ran("doctool", x) \/ Ran("mkdir", x)) /\ Current.of # "none")
    BY DEF Leaves
  <2> QED BY <2>1, <2>2, <2>3
<1>5. ranJob' \subseteq DOMAIN conf.jobs
  <2>1. Current.name = "job" => Commands(conf, Current.of) > 0
    BY <1>1 DEF Fits
  <2>2. Current.name = "job" => Current.of \in DOMAIN conf.jobs
    BY <2>1 DEF Commands, Listed
  <2> QED BY <2>2 DEF DirectorInv, DirectorTypeOK, Leaves
<1> QED BY <1>2, <1>3, <1>4, <1>5 DEF EffectsOK

(* A command runs, with what it leaves in the container *)
LEMMA RunCommandKeeps == ASSUME DirectorInv, RunCommand PROVE DirectorInv'
<1>1. PICK x \in Exits : Exec(x, NaturalExits(Current)) /\ Leaves(x)
  BY DEF RunCommand
<1>2. /\ At("command") /\ rest # <<>> /\ phase = (IF Current.record THEN "posted" ELSE "ready")
      /\ exit' = x /\ phase' = "ran" /\ UNCHANGED <<rest, exc, shown, log>>
  BY <1>1 DEF Exec, Started, At
<1>3. Current \in Ops /\ Fits(Current, step) /\ Grows
  BY <1>1, <1>2, CurrentFits, GrowsHitOrCalm DEF Exec
<1>4. step' = step /\ conf' = conf /\ proj' = proj /\ landed' = landed
  BY DEF RunCommand
<1>5. x \in {"ok", "failure"} \/ (x = "exit183" /\ Current.name \in UsersCommands)
      \/ (x = "lost" /\ "docker" \in struck')
  BY <1>1, GrowsHitOrCalm DEF Exec, NaturalExits
<1>6. shown = IF Current.record THEN "open" ELSE "none"
  BY <1>2, <1>3 DEF DirectorInv, PhaseInv, Ops
<1>7. PhaseInv'
  BY <1>2, <1>5, <1>6 DEF PhaseInv, At, Current
<1>8. Typed'
  BY <1>4, TypedKept DEF DirectorInv
<1>9. OpsInv'
  <2>1. rest' \in Seq(OpsOf(step)')
    BY <1>2, <1>4, OpsOfKept DEF DirectorInv, OpsInv
  <2> QED BY <1>4, <2>1 DEF DirectorInv, OpsInv
<1>10. RaisedInv'
  BY <1>2, <1>3, <1>4 DEF DirectorInv, RaisedInv, Accounted, Grows
<1>11. LogInv'
  BY <1>2, <1>3, <1>4 DEF DirectorInv, LogInv, Grows
<1>12. EffectsOK'
  BY <1>1, <1>2, <1>4, LeavesTyped
<1>13. DirectorTypeOK'
  BY <1>2, <1>3, <1>4, <1>12 DEF DirectorInv, DirectorTypeOK, Grows, Phases, EffectsOK
<1> QED BY <1>7, <1>8, <1>9, <1>10, <1>11, <1>13 DEF DirectorInv

(* The daemon does not answer: the exception hides that of a step that is  *)
(* already on its way only in the finally                                  *)
LEMMA LoseCommandKeeps == ASSUME DirectorInv, LoseCommand PROVE DirectorInv'
<1>1. rest # <<>> /\ Raise("Unexpected") /\ UNCHANGED <<conf, proj, step, landed>>
      /\ Grows /\ "docker" \in struck'
  BY GrowsHitOrCalm DEF LoseCommand, LoseDaemon, Started, At
<1>2. EffectsOK'
  BY <1>1, EffectsTyped, LeavesTyped DEF LoseCommand
<1>3. landed # "none" => step = "setup_vcs"
  <2>1. exc # "none" => Current = RemoveRemote
    BY <1>1 DEF DirectorInv, RaisedInv, Current
  <2>2. RemoveRemote.git
    BY DEF RemoveRemote, Git, Unrecorded, Recorded, Operation
  <2> QED BY <1>1, <2>1, <2>2, CurrentFits DEF DirectorInv, RaisedInv
<1>4. Accounted'
  BY <1>1, <1>3 DEF Accounted, Raise, StepBecomes
<1>5. "Unexpected" \in Exceptions /\ landed \in Exceptions \cup {"none"}
  BY DEF Exceptions, DirectorInv, DirectorTypeOK
<1> QED BY <1>1, <1>2, <1>4, <1>5, RaiseAndLeaveKeeps

(* A variable that is refused ends the step before its command is shown *)
LEMMA RefuseCommandKeeps == ASSUME DirectorInv, RefuseCommand PROVE DirectorInv'
<1>1. rest # <<>> /\ Raise("AppError") /\ Stay /\ Grows /\ phase = "ready" /\ proj.path
      /\ step # "setup_vcs"
  BY GrowsHitOrCalm DEF RefuseCommand, Refused, At
<1>2. exc = "none" /\ landed = "none"
  <2>1. exc # "none" => Current = RemoveRemote
    BY <1>1 DEF DirectorInv, RaisedInv, Current
  <2>2. RemoveRemote.git
    BY DEF RemoveRemote, Git, Unrecorded, Recorded, Operation
  <2> QED BY <1>1, <2>1, <2>2, CurrentFits DEF DirectorInv, RaisedInv
<1>3. shown = "none"
  BY <1>1 DEF DirectorInv, PhaseInv
<1>4. UNCHANGED <<conf, proj, step, effects>> /\ landed' = landed
  BY <1>1 DEF Stay
<1>5. Accounted'
  BY <1>1, <1>2, <1>4 DEF Accounted, Raise
<1>6. "AppError" \in Exceptions
  BY DEF Exceptions, AppErrors
<1> QED BY <1>1, <1>2, <1>3, <1>4, <1>5, <1>6, RaiseKeeps

-----------------------------------------------------------------------------
(* The other operations, signals, and the way to the next step *)

LEMMA OperatesKnown ==
  ASSUME DirectorInv, NEW kinds, Operates(kinds), "command" \notin kinds
  PROVE  /\ rest # <<>> /\ shown = "none" /\ exc = "none" /\ landed = "none"
         /\ Current \in Ops /\ Fits(Current, step) /\ Current.is \in kinds
         /\ step \in DirectorSteps \ EmptySteps
<1>1. rest # <<>> /\ phase = "ready" /\ Current.is \in kinds
  BY DEF Operates
<1>2. Current \in Ops /\ Fits(Current, step)
  BY <1>1, CurrentFits
<1>3. exc = "none" /\ landed = "none"
  BY <1>1, NothingRaisedYet
<1>4. step \in DirectorSteps \ EmptySteps
  BY <1>2 DEF DirectorInv, DirectorTypeOK, Fits, EmptySteps
<1> QED BY <1>1, <1>2, <1>3, <1>4 DEF DirectorInv, PhaseInv

(* An exception that an operation itself ends in *)
LEMMA OwnRaiseKeeps ==
  ASSUME DirectorInv, NEW kinds, Operates(kinds), "command" \notin kinds, Stay, Grows,
         NEW e \in Exceptions, Raise(e),
         \/ e \in Raises(step)
         \/ e = "AppError" /\ "api" \in struck'
         \/ e = "Unexpected" /\ (struck' \cap {"api", "storage"} # {} \/ Crashable(conf))
  PROVE  DirectorInv'
<1>1. rest # <<>> /\ shown = "none" /\ landed = "none" /\ exc = "none"
  BY OperatesKnown
<1>2. UNCHANGED <<conf, proj, step, effects>> /\ landed' = landed
  BY DEF Stay
<1>3. Accounted'
  BY <1>1, <1>2 DEF Accounted, Raise
<1> QED BY <1>1, <1>2, <1>3, RaiseKeeps

LEMMA PassOnKeeps ==
  ASSUME DirectorInv, NEW kinds, Operates(kinds), "command" \notin kinds, Stay, Grows,
         NEW n \in Nat, Pass(n)
  PROVE  DirectorInv'
BY OperatesKnown, PassKeeps

LEMMA AnyStepMayRefuse ==
  ASSUME step \in DirectorSteps \ EmptySteps PROVE "UserError" \in Raises(step)
BY DEF Raises, EmptySteps, DirectorSteps

LEMMA RequestKeeps == ASSUME DirectorInv, Request PROVE DirectorInv'
<1> DEFINE kinds == {"request", "bucket"}
<1>1. Operates(kinds) /\ "command" \notin kinds /\ Stay
  BY DEF Request
<1> HIDE DEF kinds
<1>2. CASE Pass(0) /\ Calm
  BY <1>1, <1>2, GrowsHitOrCalm, PassOnKeeps
<1>3. CASE Raise("Unexpected") /\ Hit(IF Current.is = "request" THEN "api" ELSE "storage")
  <2>1. Grows /\ struck' \cap {"api", "storage"} # {}
    BY <1>3, GrowsHitOrCalm
  <2>2. "Unexpected" \in Exceptions
    BY DEF Exceptions
  <2> QED BY <1>1, <1>3, <2>1, <2>2, OwnRaiseKeeps
<1> QED BY <1>2, <1>3 DEF Request

LEMMA CredentialsKeeps == ASSUME DirectorInv, Credentials PROVE DirectorInv'
<1> DEFINE kinds == {"credentials"}
<1>1. Operates(kinds) /\ "command" \notin kinds /\ Stay
  BY DEF Credentials
<1> HIDE DEF kinds
<1>2. CASE Pass(0) /\ Calm
  BY <1>1, <1>2, GrowsHitOrCalm, PassOnKeeps
<1>3. CASE Raise("AppError") /\ Hit("api")
  <2>1. Grows /\ "api" \in struck' /\ "AppError" \in Exceptions
    BY <1>3, GrowsHitOrCalm DEF Exceptions, AppErrors
  <2> QED BY <1>1, <1>3, <2>1, OwnRaiseKeeps
<1>4. CASE Raise("Unexpected") /\ (Hit("api") \/ Hit("storage"))
  <2>1. Grows /\ struck' \cap {"api", "storage"} # {} /\ "Unexpected" \in Exceptions
    BY <1>4, GrowsHitOrCalm DEF Exceptions
  <2> QED BY <1>1, <1>4, <2>1, OwnRaiseKeeps
<1> QED BY <1>2, <1>3, <1>4 DEF Credentials

LEMMA LookForFileKeeps == ASSUME DirectorInv, LookForFile PROVE DirectorInv'
<1> DEFINE kinds == {"check", "look"}
<1>1. Operates(kinds) /\ "command" \notin kinds /\ Stay /\ Grows
  BY GrowsHitOrCalm DEF LookForFile
<1> HIDE DEF kinds
<1>2. Current.skip \in Nat /\ step \in DirectorSteps \ EmptySteps
  BY <1>1, OperatesKnown DEF Ops
<1>3. CASE Pass(0)
  BY <1>1, <1>3, PassOnKeeps
<1>4. CASE Raise("UserError")
  <2>1. "UserError" \in Raises(step) /\ "UserError" \in Exceptions
    BY <1>2, AnyStepMayRefuse DEF Exceptions, UserErrors
  <2> QED BY <1>1, <1>4, <2>1, OwnRaiseKeeps
<1>5. CASE Pass(Current.skip)
  BY <1>1, <1>2, <1>5, PassOnKeeps
<1> QED BY <1>3, <1>4, <1>5 DEF LookForFile

LEMMA RefuseKeeps == ASSUME DirectorInv, Refuse PROVE DirectorInv'
<1> DEFINE kinds == {"refusal"}
<1>1. Operates(kinds) /\ "command" \notin kinds /\ Stay /\ Grows /\ Raise("UserError")
  BY GrowsHitOrCalm DEF Refuse
<1> HIDE DEF kinds
<1>2. "UserError" \in Raises(step) /\ "UserError" \in Exceptions
  BY <1>1, OperatesKnown, AnyStepMayRefuse DEF Exceptions, UserErrors
<1> QED BY <1>1, <1>2, OwnRaiseKeeps

LEMMA LoadConfigKeeps == ASSUME DirectorInv, LoadConfig PROVE DirectorInv'
<1> DEFINE kinds == {"load"}
<1>1. Operates(kinds) /\ "command" \notin kinds /\ Stay /\ Grows
  BY GrowsHitOrCalm DEF LoadConfig
<1> HIDE DEF kinds
<1>2. CASE Accepted(conf) /\ Pass(0)
  BY <1>1, <1>2, PassOnKeeps
<1>3. CASE ~Accepted(conf) /\ Raise(Verdict(conf))
  <2> DEFINE e == Verdict(conf)
  <2>1. e \in {"UserError", "Unexpected"}
    BY <1>3 DEF Accepted, Verdict
  <2>2. e \in Exceptions /\ (e = "Unexpected" => Crashable(conf))
    BY <2>1 DEF Exceptions, UserErrors, Crashable
  <2>3. e = "UserError" => e \in Raises(step)
    BY <1>1, OperatesKnown, AnyStepMayRefuse
  <2> HIDE DEF e
  <2>4. Raise(e)
    BY <1>3 DEF e
  <2> QED BY <1>1, <2>1, <2>2, <2>3, <2>4, OwnRaiseKeeps
<1> QED BY <1>2, <1>3 DEF LoadConfig

LEMMA EditEnvironmentKeeps == ASSUME DirectorInv, EditEnvironment PROVE DirectorInv'
<1> DEFINE kinds == {"edit"}
<1>1. Operates(kinds) /\ "command" \notin kinds /\ Stay /\ Grows
  BY GrowsHitOrCalm DEF EditEnvironment
<1>2. Crashable(conf) /\ "UserError" \in Raises(step)
  BY <1>1, OperatesKnown, AnyStepMayRefuse DEF Fits
<1> HIDE DEF kinds
<1>3. "UserError" \in Exceptions /\ "Unexpected" \in Exceptions
  BY DEF Exceptions, UserErrors
<1>4. CASE Pass(0)
  BY <1>1, <1>4, PassOnKeeps
<1>5. CASE Raise("UserError")
  BY <1>1, <1>2, <1>3, <1>5, OwnRaiseKeeps
<1>6. CASE Raise("Unexpected")
  BY <1>1, <1>2, <1>3, <1>6, OwnRaiseKeeps
<1> QED BY <1>4, <1>5, <1>6 DEF EditEnvironment

LEMMA CrashKeeps == ASSUME DirectorInv, Crash PROVE DirectorInv'
<1> DEFINE kinds == {"crash"}
<1>1. Operates(kinds) /\ "command" \notin kinds /\ Stay /\ Grows /\ Raise("Unexpected")
  BY GrowsHitOrCalm DEF Crash
<1>2. Crashable(conf)
  BY <1>1, OperatesKnown DEF Fits
<1>3. "Unexpected" \in Exceptions
  BY DEF Exceptions
<1> HIDE DEF kinds
<1> QED BY <1>1, <1>2, <1>3, OwnRaiseKeeps

LEMMA StoreBuildYamlKeeps == ASSUME DirectorInv, StoreBuildYaml PROVE DirectorInv'
<1> DEFINE kinds == {"best effort"}
<1>1. Operates(kinds) /\ "command" \notin kinds /\ Stay /\ Grows /\ Pass(0)
  BY GrowsHitOrCalm DEF StoreBuildYaml
<1> HIDE DEF kinds
<1> QED BY <1>1, PassOnKeeps

(* What a signal's exception may be changed into is what StepBecomes says  *)
LEMMA SignalKeeps == ASSUME DirectorInv, Signal PROVE DirectorInv'
<1>1. PICK s \in DOMAIN Signals :
        /\ rest # <<>> /\ s \notin struck /\ Hit(s)
        /\ \/ /\ \/ Raise(Signals[s])
                 \/ At("command")     /\ Raise(Translated(Current, Signals[s]))
                 \/ At("credentials") /\ Raise("AppError")
              /\ landed' = Signals[s]
           \/ At("best effort") /\ Pass(0) /\ UNCHANGED landed
        /\ UNCHANGED <<conf, proj, step, effects>>
  BY DEF Signal
<1> DEFINE e == Signals[s]
<1>2. e \in {"CancelledByUser", "TimeOut", "SoftTimeLimit"}
  BY DEF Signals
<1>3. rest # <<>> /\ Grows /\ UNCHANGED <<conf, proj, step, effects>>
  BY <1>1, GrowsHitOrCalm
<1>4. Current \in Ops /\ Fits(Current, step)
  BY <1>3, CurrentFits
<1>5. step \in DirectorSteps \ EmptySteps
  BY <1>4 DEF DirectorInv, DirectorTypeOK, Fits, EmptySteps
<1>6. e \in Exceptions \ {"Unexpected"} /\ e # "none" /\ "AppError" \in Exceptions
  BY <1>2 DEF Exceptions, UserErrors, Cancellations, AppErrors
<1> HIDE DEF e
<1>7. ASSUME NEW x \in Exceptions \ {"Unexpected"}, Raise(x), landed' = e, x \in StepBecomes(step, e)
      PROVE  DirectorInv'
  <2>1. Accounted'
    BY <1>3, <1>6, <1>7 DEF Accounted, Raise
  <2> QED BY <1>3, <1>6, <1>7, <2>1, RaiseKeeps
<1>8. e \in StepBecomes(step, e)
  BY <1>5 DEF StepBecomes
<1>9. CASE Raise(e) /\ landed' = e
  BY <1>6, <1>7, <1>8, <1>9
<1>10. CASE Raise(Translated(Current, e)) /\ landed' = e
  <2> DEFINE x == Translated(Current, e)
  <2>1. x = e \/ (x = "CancelledByUser" /\ e = "CancelledByUser")
        \/ (x = "UserError" /\ e = "TimeOut" /\ step = "setup_vcs")
    BY <1>2, <1>3, <1>4, CurrentFits, TranslatedIs DEF Cancellations
  <2>2. x \in StepBecomes(step, e)
    BY <1>8, <2>1 DEF StepBecomes
  <2>3. x \in Exceptions \ {"Unexpected"}
    BY <1>6, <2>1 DEF Exceptions, UserErrors
  <2> HIDE DEF x
  <2>4. Raise(x)
    BY <1>10 DEF x
  <2> QED BY <1>7, <1>10, <2>2, <2>3, <2>4
<1>11. CASE At("credentials") /\ Raise("AppError") /\ landed' = e
  <2>1. step \in {"download_artifacts", "setup_environment", "install_build_tools"}
    BY <1>4, <1>11 DEF At, Fits
  <2>2. "AppError" \in StepBecomes(step, e)
    BY <2>1 DEF StepBecomes
  <2> QED BY <1>6, <1>7, <1>11, <2>2
<1>12. CASE At("best effort") /\ Pass(0) /\ UNCHANGED landed
  <2>1. phase = "ready"
    BY <1>12 DEF At, DirectorInv, PhaseInv
  <2>2. shown = "none"
    BY <2>1 DEF DirectorInv, PhaseInv
  <2> QED BY <1>3, <1>12, <2>2, PassKeeps DEF Stay
<1> QED BY <1>1, <1>9, <1>10, <1>11, <1>12 DEF e

LEMMA StepReturnsKeeps == ASSUME DirectorInv, StepReturns PROVE DirectorInv'
<1>1. /\ rest = <<>> /\ exc = "none" /\ step # "done"
      /\ step' = NextStep(step) /\ rest' = Script(step')
      /\ UNCHANGED <<phase, exit, exc, shown, log, struck, most, conf, proj, effects, landed>>
  BY DEF StepReturns
<1>2. conf' = conf /\ proj' = proj /\ tools' = tools /\ venv' = venv /\ made' = made /\ ranJob' = ranJob
      /\ landed' = landed /\ exc' = exc /\ phase' = phase /\ exit' = exit /\ shown' = shown
      /\ log' = log /\ struck' = struck
  BY <1>1 DEF effects
<1>3. step' \in DirectorSteps \cup {"done"} /\ (step' = "setup_environment" => ~UsesCommands(conf))
  BY <1>1 DEF NextStep, DirectorSteps
<1>4. Typed'
  BY <1>2, TypedKept DEF DirectorInv
<1>5. OpsInv'
  <2>1. rest' \in Seq(OpsOf(step'))
    BY <1>1, <1>3, ScriptFits DEF DirectorInv, Scripts
  <2>2. rest' \in Seq(OpsOf(step)')
    BY <1>2, <2>1, OpsOfKept
  <2> QED BY <1>2, <1>3, <2>2 DEF OpsInv
<1>6. phase = "ready" /\ shown = "none" /\ exit = "ok"
  BY <1>1 DEF DirectorInv, DirectorTypeOK, PhaseInv
<1>7. PhaseInv'
  BY <1>2, <1>6 DEF PhaseInv
<1>8. RaisedInv'
  BY <1>1, <1>2 DEF DirectorInv, RaisedInv
<1>9. LogInv'
  BY <1>2 DEF DirectorInv, LogInv
<1>10. DirectorTypeOK'
  BY <1>2, <1>3, <1>6 DEF DirectorInv, DirectorTypeOK, Tools
<1> QED BY <1>4, <1>5, <1>7, <1>8, <1>9, <1>10 DEF DirectorInv

LEMMA StutterKeeps == ASSUME DirectorInv, UNCHANGED vars PROVE DirectorInv'
<1>1. conf' = conf /\ proj' = proj /\ tools' = tools /\ venv' = venv /\ made' = made /\ ranJob' = ranJob
      /\ landed' = landed /\ exc' = exc /\ phase' = phase /\ exit' = exit /\ shown' = shown
      /\ log' = log /\ struck' = struck /\ rest' = rest /\ step' = step
  BY DEF vars, opVars
<1>2. Typed'
  BY <1>1, TypedKept DEF DirectorInv
<1>3. OpsInv'
  <2>1. rest' \in Seq(OpsOf(step)')
    BY <1>1, OpsOfKept DEF DirectorInv, OpsInv
  <2> QED BY <1>1, <2>1 DEF DirectorInv, OpsInv
<1>4. PhaseInv'
  BY <1>1 DEF DirectorInv, PhaseInv, At, Current
<1>5. RaisedInv' /\ LogInv'
  BY <1>1 DEF DirectorInv, RaisedInv, LogInv, Accounted
<1>6. DirectorTypeOK'
  BY <1>1 DEF DirectorInv, DirectorTypeOK, Tools
<1> QED BY <1>2, <1>3, <1>4, <1>5, <1>6 DEF DirectorInv

LEMMA NextKeeps == DirectorInv /\ [Next]_vars => DirectorInv'
<1> SUFFICES ASSUME DirectorInv, [Next]_vars PROVE DirectorInv'
  OBVIOUS
<1>1. CASE Command
  BY <1>1, PostCommandKeeps, SaveCommandKeeps, JudgeKeeps DEF Command
<1>2. CASE Request \/ Credentials \/ LookForFile \/ Refuse
  BY <1>2, RequestKeeps, CredentialsKeeps, LookForFileKeeps, RefuseKeeps
<1>3. CASE LoadConfig \/ EditEnvironment \/ Crash \/ StoreBuildYaml
  BY <1>3, LoadConfigKeeps, EditEnvironmentKeeps, CrashKeeps, StoreBuildYamlKeeps
<1>4. CASE StepReturns \/ RunCommand \/ LoseCommand \/ RefuseCommand \/ Signal
  BY <1>4, StepReturnsKeeps, RunCommandKeeps, LoseCommandKeeps, RefuseCommandKeeps, SignalKeeps
<1>5. CASE UNCHANGED vars
  BY <1>5, StutterKeeps
<1> QED BY <1>1, <1>2, <1>3, <1>4, <1>5 DEF Next

THEOREM DirectorInvariant == Spec => []DirectorInv
BY InitIsGood, NextKeeps, PTL DEF Spec

-----------------------------------------------------------------------------
(* Every variable has its type, whatever the builds and the environment.   *)
THEOREM DirectorTypeCorrect == Spec => []DirectorTypeOK
<1>1. DirectorInv => DirectorTypeOK
  BY DEF DirectorInv
<1> QED BY <1>1, DirectorInvariant, PTL

(* Whatever fails in a step, and wherever a signal lands, what the step    *)
(* raises is what module Runner expects of it.                             *)
THEOREM ContractIsKept == Spec => []StepsKeepTheirContract
<1>1. DirectorInv => StepsKeepTheirContract
  BY DEF DirectorInv, RaisedInv, Accounted, StepsKeepTheirContract, Over
<1> QED BY <1>1, DirectorInvariant, PTL

(* When a step has returned the API shows the exit code of each of its     *)
(* commands, and a failure only of those that were to warn; a command is   *)
(* left open only where a signal interrupted it, or where the API or the   *)
(* daemon did not answer and the step ends in an unexpected exception.     *)
THEOREM RecordsAreSettled == Spec => []RecordsSettled
<1>1. DirectorInv => RecordsSettled
  BY DEF DirectorInv, LogInv, RecordsSettled
<1> QED BY <1>1, DirectorInvariant, PTL
=============================================================================
