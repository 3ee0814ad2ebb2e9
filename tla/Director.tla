------------------------------ MODULE Director ------------------------------
(***************************************************************************)
(* builder/director.py, with the git backend (vcs.py), the language        *)
(* environments (python_envs.py) and the documentation tools (backends/):  *)
(* what each step of BuildDirector does, as the sequence of operations it  *)
(* runs for a configuration and a project.  The steps are taken in the     *)
(* order in which Runner.run calls them; module Operations runs their      *)
(* operations, and module Config says what the configuration means.        *)
(***************************************************************************)
EXTENDS Operations, Config, DirectorContract

CONSTANT Builds  \* the builds of the model: triples of a raw configuration,
                 \* see Config, a project, and the bound on what may go
                 \* wrong in that build

(* A project p is a record:                                                *)
(*   uploaded  the build's artifacts were uploaded by the user             *)
(*   fresh     its directory does not exist yet                            *)
(*   private   RTD allows private repositories                             *)
(*   key       its repository is reached over SSH, with a deploy key       *)
(*   writes    what git push --dry-run says: the key has write access      *)
(*   known     has_ssh_key_with_write_access, what the API says            *)
(*   enforce   RTD_ENFORCE_BROWNOUTS_FOR_DEPRECATIONS                      *)
(*   custom    its git_checkout_command: "none", a "list", or "other"      *)
(*   ref       the identifier of the version: "none", a "name", or a       *)
(*             "remote" one, origin/...                                    *)
(*   latest    the version is the machine's latest, without default branch *)
(*   external  the version is a pull request                               *)
(*   path      it has an environment variable called PATH                  *)
(*   cached    the tools in the build-tools cache                          *)
Projects ==
  [uploaded : BOOLEAN, fresh : BOOLEAN, private : BOOLEAN, key : BOOLEAN, writes : BOOLEAN,
   known : BOOLEAN, enforce : BOOLEAN, custom : {"none", "list", "other"},
   ref : {"none", "name", "remote"}, latest : BOOLEAN, external : BOOLEAN, path : BOOLEAN,
   cached : SUBSET {"python", "other"}]

ASSUME BuildsAssumption ==
  \A b \in Builds : IsConfiguration(b[1]) /\ b[2] \in Projects /\ b[3] \in Nat

VARIABLES conf,   \* the raw configuration in the repository
          proj,   \* the project
          step,   \* the step of the director under way, or "done"
          tools,  \* the tools asdf has installed
          venv,   \* whether the language environment was created
          made,   \* the formats whose output directory exists
          ranJob, \* the jobs a command of which was started
          landed  \* history: the exception of the last signal that was not
                  \* swallowed where it landed, or "none"

vars == <<opVars, conf, proj, step, tools, venv, made, ranJob, landed>>

-----------------------------------------------------------------------------
(* Pieces of scripts *)

When(condition, ops) == IF condition THEN ops ELSE <<>>
Times(n, op) == [i \in 1 .. n |-> op]

(* run_build_job: the commands of build.jobs.<job> *)
Job(job) == Times(Commands(conf, job), About(job, Recorded("job")))

(* A job that replaces what the director does by default *)
JobOr(job, default) == IF Listed(conf, job) THEN Job(job) ELSE default

Hooked(pre, ops, post) == Job(pre) \o ops \o Job(post)

-----------------------------------------------------------------------------
(* setup_vcs and checkout *)

(* setup_ssh_agent: an agent that does not start makes ssh-add pointless *)
SetupSshAgent ==
  When(proj.private /\ proj.key,
       <<Operation("request", "key"), Skips(1, Unrecorded("ssh-agent")), Unrecorded("ssh-add")>>)

(* vcs.Backend.update: a custom command that is no list is not run *)
Update ==
  IF proj.custom = "list"
  THEN <<Git(Recorded("checkout command"))>>
  ELSE <<Git(Recorded("clone")), Git(Recorded("fetch"))>>

(* vcs.Backend.has_ssh_key_with_write_access, and what checkout makes of it *)
ProbeKey ==
  LET probing(op) == [Git(op) EXCEPT !.guarded = TRUE]
  IN  <<probing(Unrecorded("remote add")),
        [probing(Unrecorded("push")) EXCEPT !.refuses = {"lost"}],
        RemoveRemote>>
      \o When(proj.writes # proj.known, <<Operation("request", "project")>>)
      \o When(proj.writes,
              <<IF proj.enforce THEN Operation("refusal", "write access")
                ELSE Operation("request", "notification")>>)

(* vcs.Backend.checkout: show-ref only decides how the ref is written; no  *)
(* ref is checked out if any custom command is set                         *)
CheckoutRef ==
  IF proj.latest THEN <<Git(Unrecorded("symbolic-ref"))>>
  ELSE When(proj.custom = "none" /\ proj.ref # "none",
            When(proj.ref = "name", <<Git(Unrecorded("show-ref"))>>) \o <<Git(Recorded("checkout"))>>)

(* vcs.Backend.update_submodules.  .gitmodules is read once to see whether *)
(* there are any, and again for those an exclusion leaves.                 *)
UpdateSubmodules ==
  LET read == Git(Unrecorded(".gitmodules"))
      sync == Git(Recorded("submodule sync"))
      update == Git(Recorded("submodule update"))
  IN  CASE conf.submodules = "include" -> <<Skips(2, read), sync, update>>
        [] conf.submodules = "exclude" -> <<Skips(3, read), Skips(2, read), sync, update>>
        [] OTHER -> <<>>

(* Mutant: post_checkout is not held back from a key with write access.    *)
CheckoutTrusting ==
  Update
  \o When(proj.private, ProbeKey)
  \o CheckoutRef
  \o <<Recorded("cat config"), Operation("load", "config")>>
  \o UpdateSubmodules

Checkout ==
  Update
  \o When(proj.private, ProbeKey)
  \o CheckoutRef
  \o <<Recorded("cat config"), Operation("load", "config")>>
  \o UpdateSubmodules
  \o When(proj.private /\ proj.writes /\ Commands(conf, "post_checkout") > 0,
          <<Operation("refusal", "write access")>>)

SetupVcs ==
  When(proj.fresh, <<Required("mkdir")>>)
  \o SetupSshAgent
  \o When(proj.fresh, <<Required("mkdir")>>)
  \o Checkout
  \o Job("post_checkout")
  \o <<Git(Unrecorded("rev-parse"))>>

-----------------------------------------------------------------------------
(* setup_environment *)

SystemDependencies ==
  When(conf.apt, <<Recorded("apt update"), Recorded("apt install")>>)

(* The tools listed.  Their order in the file does not matter here.        *)
Tools == {t \in {"python", "other"} : IF t = "python" THEN conf.python # "none" ELSE conf.other}

(* Mutant: asdf global only warns.                                         *)
InstallToolLeniently(t) ==
  <<Operation("bucket", "exists")>>
  \o (IF t \in proj.cached
      THEN <<Operation("bucket", "extract"), Unrecorded("chown"), About(t, Unrecorded("install"))>>
      ELSE <<About(t, Recorded("install"))>>)
  \o <<About(t, Lenient("asdf global")), Unrecorded("asdf reshim")>>

(* A cached tool is moved into place, another one installed by asdf *)
InstallTool(t) ==
  <<Operation("bucket", "exists")>>
  \o (IF t \in proj.cached
      THEN <<Operation("bucket", "extract"), Unrecorded("chown"), About(t, Unrecorded("install"))>>
      ELSE <<About(t, Recorded("install"))>>)
  \o <<About(t, Recorded("asdf global")), Unrecorded("asdf reshim")>>
  \o When(t = "python" /\ UsesUv(conf), Times(3, Recorded("asdf uv")))
  \o When(t = "python" /\ t \notin proj.cached /\ ~UsesConda(conf), <<Recorded("bootstrap")>>)

InstallBuildTools ==
  <<Operation("credentials", "build tools")>>
  \o When("python" \in Tools, InstallTool("python"))
  \o When("other" \in Tools, InstallTool("other"))

(* setup_base of Virtualenv, UvEnv and Conda.  A Virtualenv is created by  *)
(* the python of build.tools, which need not be there: the command cannot  *)
(* even be posted.                                                         *)
SetupBase ==
  CASE Environment(conf) = "Conda" ->
         <<Operation("edit", "environment.yml"), Recorded("cat environment"), Recorded("create venv")>>
    [] Environment(conf) = "Virtualenv" /\ conf.python = "none" ->
         <<Operation("crash", "no interpreter")>>
    [] OTHER -> <<Recorded("create venv")>>

SkipsDefaults == Doctype(conf) = "generic" /\ ~UsesUv(conf)

(* Mutant: no environment for a generic build, one that uses uv included.  *)
CreateEnvironmentForDocs ==
  JobOr("create_environment", When(Doctype(conf) # "generic", SetupBase))

CreateEnvironment ==
  JobOr("create_environment", When(~SkipsDefaults, SetupBase))

InstallCoreRequirements ==
  When(Environment(conf) = "Virtualenv",
       <<InVenv(Recorded("upgrade pip"))>>
       \o When(Doctype(conf) # "generic", <<InVenv(Recorded("install doctool"))>>))

(* install_requirements: Conda takes no requirements file, and neither it  *)
(* nor Virtualenv a uv entry                                               *)
InstallRequirements ==
  CASE conf.install = "requirements" ->
         When(Environment(conf) # "Conda", <<InVenv(Recorded("requirements"))>>)
    [] conf.install = "package" -> <<InVenv(Recorded("package"))>>
    [] conf.install = "uv" ->
         IF Environment(conf) = "UvEnv" THEN <<InVenv(Recorded("uv install"))>>
                                        ELSE <<Operation("crash", "install_uv")>>
    [] OTHER -> <<>>

Install ==
  JobOr("install", When(~SkipsDefaults, InstallCoreRequirements \o InstallRequirements))

SetupEnvironment ==
  Hooked("pre_system_dependencies", SystemDependencies, "post_system_dependencies")
  \o InstallBuildTools
  \o Hooked("pre_create_environment", CreateEnvironment, "post_create_environment")
  \o Hooked("pre_install", Install, "post_install")

-----------------------------------------------------------------------------
(* build *)

ShowConf == <<Operation("check", "configuration"), Recorded("cat configuration")>>
RunDocTool(f) == <<About(f, InVenv(Recorded("doctool")))>>

BuildHtml ==
  JobOr("html", When(Doctype(conf) # "generic", ShowConf \o RunDocTool("html")))

(* Mutant: the emptied directory is not created again.                     *)
RepackWithoutMkdir(f) ==
  <<Skips(3, Operation("look", f)), Unrecorded("mv out"), About(f, Unrecorded("rm")), Unrecorded("mv back")>>

(* The one file of a format, if there is one, is moved out of its          *)
(* directory, the directory emptied and the file moved back: nothing of it *)
(* recorded.                                                               *)
Repack(f) ==
  <<Skips(4, Operation("look", f)), Unrecorded("mv out"), About(f, Unrecorded("rm")),
    About(f, Unrecorded("mkdir")), Unrecorded("mv back")>>

(* LocalMediaBuilder, PdfBuilder and EpubBuilder.  The former moves the    *)
(* directory away, which is its removal here.                              *)
Package(f) ==
  CASE f = "htmlzip" ->
         <<Unrecorded("mktemp"), About(f, Unrecorded("rm")), About(f, Unrecorded("mkdir")), Unrecorded("zip")>>
    [] f = "pdf" ->
         <<Operation("check", "tex"), Unrecorded("extractbb"), Recorded("cat latexmkrc"), Lenient("latexmk")>>
         \o Repack(f)
    [] OTHER -> Repack(f)

(* Mutant: the job of a format is only looked for in a Sphinx build.       *)
BuildFormatOfSphinx(f) ==
  When(f \in conf.formats /\ ~proj.external /\ Doctype(conf) = "sphinx",
       JobOr(f, RunDocTool(f) \o Package(f)))

BuildFormat(f) ==
  When(f \in conf.formats /\ ~proj.external,
       JobOr(f, When(Doctype(conf) = "sphinx", RunDocTool(f) \o Package(f))))

Build ==
  Hooked("pre_build",
         BuildHtml \o BuildFormat("htmlzip") \o BuildFormat("pdf") \o BuildFormat("epub"),
         "post_build")
  \o <<Operation("best effort", "build yaml")>>

-----------------------------------------------------------------------------
(* The other steps *)

(* run_build_commands.  Every command is taken for one that installs, and  *)
(* is followed by its reshim, which only warns.                            *)
RunBuildCommands ==
  [i \in 1 .. 2 * conf.commands |-> IF i % 2 = 1 THEN Recorded("command") ELSE Unrecorded("asdf reshim")]
  \o <<Operation("check", "html"), Operation("best effort", "build yaml")>>

DownloadArtifacts ==
  <<Operation("credentials", "uploads"), Required("mkdir"), Operation("bucket", "download")>>

ExtractArtifacts ==
  <<Unrecorded("mkdir"), [Lenient("unzip") EXCEPT !.refuses = Exits \ {"ok"}]>>

CheckOldOutput == <<[Unrecorded("test") EXCEPT !.refuses = {"ok"}]>>

Script(s) ==
  CASE s = "setup_vcs"           -> SetupVcs
    [] s = "setup_environment"   -> SetupEnvironment
    [] s = "install_build_tools" -> InstallBuildTools
    [] s = "run_build_commands"  -> RunBuildCommands
    [] s = "build"               -> Build
    [] s = "download_artifacts"  -> DownloadArtifacts
    [] s = "extract_artifacts"   -> ExtractArtifacts
    [] s = "check_old_output"    -> CheckOldOutput
    [] OTHER                     -> <<>>

(* Runner.run *)
NextStep(s) ==
  CASE s = "create_vcs_environment"   -> "setup_vcs"
    [] s = "setup_vcs"                -> "create_build_environment"
    [] s = "create_build_environment" -> IF proj.uploaded THEN "download_artifacts"
                                         ELSE IF UsesCommands(conf) THEN "install_build_tools"
                                         ELSE "setup_environment"
    [] s = "download_artifacts"       -> "extract_artifacts"
    [] s = "install_build_tools"      -> "run_build_commands"
    [] s = "setup_environment"        -> "build"
    [] s = "check_old_output"         -> "done"
    [] OTHER                          -> "check_old_output"
-----------------------------------------------------------------------------
(* Running a script *)

Init ==
  /\ \E b \in Builds : conf = b[1] /\ proj = b[2] /\ most = b[3]
  /\ step = IF proj.uploaded THEN "create_build_environment" ELSE "create_vcs_environment"
  /\ rest = Script(step)
  /\ phase = "ready" /\ exit = "ok" /\ exc = "none"
  /\ shown = "none" /\ log = {}
  /\ tools = {} /\ venv = FALSE /\ made = {} /\ ranJob = {} /\ landed = "none"
  /\ struck = {}

effects == <<tools, venv, made, ranJob>>
Stay    == UNCHANGED <<conf, proj, step, effects, landed>>

(* The exit codes a command may have without anything going wrong *)
NaturalExits(op) ==
  CASE op.name = "asdf global"  -> IF op.of \in tools THEN {"ok"} ELSE {"failure"}
    [] op.name = "push"         -> IF proj.writes THEN {"ok", "failure"} ELSE {"failure"}
    [] op.name \in {"show-ref", ".gitmodules", "test", "latexmk", "unzip"} -> {"ok", "failure"}
    [] OTHER -> {"ok"}

Ran(name, x) == Current.name = name /\ x = "ok"

(* What a command leaves in the container if it exits with x.  A job has   *)
(* been run once its first command was.                                    *)
Leaves(x) ==
  /\ tools'  = IF Ran("install", x) THEN tools \cup {Current.of} ELSE tools
  /\ venv'   = (venv \/ Ran("create venv", x))
  /\ made'   = CASE Ran("rm", x) -> made \ {Current.of}
                 [] (Ran("doctool", x) \/ Ran("mkdir", x)) /\ Current.of # "none" -> made \cup {Current.of}
                 [] OTHER -> made
  /\ ranJob' = IF Current.name = "job" THEN ranJob \cup {Current.of} ELSE ranJob

(* BuildCommand refuses an environment with a PATH, and a variable of the  *)
(* project's reaches every command of its build environment.  The name of  *)
(* the container, which DockerBuildCommand.run refuses to do without, is   *)
(* always there: the worker passes that of the one it started.             *)
Refused == phase = "ready" /\ proj.path /\ ~proj.uploaded /\ step # "setup_vcs"

RefuseCommand == At("command") /\ Refused /\ Raise("AppError") /\ Calm /\ Stay

RunCommand ==
  /\ ~Refused
  /\ \E x \in Exits : Exec(x, NaturalExits(Current)) /\ Leaves(x)
  /\ UNCHANGED <<conf, proj, step, landed>>

(* The command has run to its end, or has not, when the daemon is lost *)
LoseCommand ==
  /\ ~Refused /\ LoseDaemon
  /\ UNCHANGED effects \/ Leaves("ok")
  /\ UNCHANGED <<conf, proj, step, landed>>

Command == ((~Refused /\ PostCommand) \/ SaveCommand \/ Judge) /\ Stay

-----------------------------------------------------------------------------
(* The operations that are not commands *)

Operates(kinds) == phase = "ready" /\ rest # <<>> /\ Current.is \in kinds

(* A request to the API, or to a bucket.  boto and requests raise their    *)
(* own exceptions.                                                         *)
Request ==
  /\ Operates({"request", "bucket"})
  /\ \/ Pass(0) /\ Calm
     \/ Raise("Unexpected") /\ Hit(IF Current.is = "request" THEN "api" ELSE "storage")
  /\ Stay

(* get_storage makes an application error of a request that fails, but not *)
(* of an answer without credentials or a client that cannot be built       *)
Credentials ==
  /\ Operates({"credentials"})
  /\ \/ Pass(0) /\ Calm
     \/ Raise("AppError") /\ Hit("api")
     \/ Raise("Unexpected") /\ (Hit("api") \/ Hit("storage"))
  /\ Stay

(* A file is looked for: not there, it is refused, or ends what it is for *)
LookForFile ==
  /\ Operates({"check", "look"})
  /\ \/ Pass(0)
     \/ Current.is = "check" /\ Raise("UserError")
     \/ Current.is = "look" /\ Pass(Current.skip)
  /\ Calm /\ Stay

(* The policy on deploy keys *)
Refuse == Operates({"refusal"}) /\ Raise("UserError") /\ Calm /\ Stay

(* load_config and as_dict *)
LoadConfig ==
  /\ Operates({"load"})
  /\ IF Accepted(conf) THEN Pass(0) ELSE Raise(Verdict(conf))
  /\ Calm /\ Stay

(* Conda._append_core_requirements: a file outside the repository is the   *)
(* user's error, "dependencies:" without a list an AttributeError.         *)
EditEnvironment ==
  /\ Operates({"edit"})
  /\ Pass(0) \/ Raise("UserError") \/ Raise("Unexpected")
  /\ Calm /\ Stay

(* A call that this configuration makes fail; see SetupBase and            *)
(* InstallRequirements                                                     *)
Crash == Operates({"crash"}) /\ Raise("Unexpected") /\ Calm /\ Stay

(* store_readthedocs_build_yaml: an error in the file is skipped *)
StoreBuildYaml == Operates({"best effort"}) /\ Pass(0) /\ Calm /\ Stay

-----------------------------------------------------------------------------
(* Signals, and the way from a step to the next *)

Signals == [cancel |-> "CancelledByUser", alarm |-> "TimeOut", soft |-> "SoftTimeLimit"]

(* A signal handler raises in the middle of an operation: what leaves the  *)
(* step is its exception, or what a handler around the operation makes of  *)
(* it.  A record is left as it is.                                         *)
Signal ==
  \E s \in DOMAIN Signals :
    /\ rest # <<>> /\ s \notin struck /\ Hit(s)
    /\ \/ /\ \/ Raise(Signals[s])
             \/ At("command")     /\ Raise(Translated(Current, Signals[s]))
             \/ At("credentials") /\ Raise("AppError")
          /\ landed' = Signals[s]
       \/ At("best effort") /\ Pass(0) /\ UNCHANGED landed
    /\ UNCHANGED <<conf, proj, step, effects>>

(* The step returns, and Runner.run calls the next *)
StepReturns ==
  /\ rest = <<>> /\ exc = "none" /\ step # "done"
  /\ step' = NextStep(step)
  /\ rest' = Script(step')
  /\ UNCHANGED <<phase, exit, exc, shown, log, struck, most, conf, proj, effects, landed>>

(* The director is done: all steps returned, or one raised *)
Over == rest = <<>> /\ (exc # "none" \/ step = "done")

Next ==
  \/ StepReturns
  \/ RunCommand \/ LoseCommand \/ RefuseCommand \/ Command
  \/ Request \/ Credentials \/ LookForFile \/ Refuse
  \/ LoadConfig \/ EditEnvironment \/ Crash \/ StoreBuildYaml
  \/ Signal
  \/ Over /\ UNCHANGED vars

Spec == Init /\ [][Next]_vars
-----------------------------------------------------------------------------
(* Properties *)

(* Every variable has its type; the formats and tools are those of the     *)
(* configuration, and only an exception keeps operations from being left.  *)
DirectorTypeOK ==
  /\ step \in DirectorSteps \cup {"done"}
  /\ phase \in Phases /\ exit \in Exits
  /\ exc \in Exceptions \cup {"none"} /\ landed \in Exceptions \cup {"none"}
  /\ shown \in Statuses \cup {"none"}
  /\ log \subseteq [status : Statuses, warn : BOOLEAN]
  /\ tools \subseteq Tools /\ venv \in BOOLEAN
  /\ made \subseteq conf.formats \cup {"html"}
  /\ ranJob \subseteq DOMAIN conf.jobs
  /\ struck \subseteq Disturbances
  /\ rest = <<>> => phase = "ready"

(* A configuration that takes the director to a call that always, or for a *)
(* conda file may, end in an exception nobody expects                      *)
Crashable(c) ==
  \/ Verdict(c) = "Unexpected"
  \/ /\ ~UsesCommands(c)
     /\ Environment(c) = "Conda" \/ (Environment(c) = "Virtualenv" /\ c.python = "none")

(* The steps raise what the runner is modelled to expect of them, whatever *)
(* fails in them: a signal's exception is only changed the way StepBecomes *)
(* says (a cancellation is never made a user error, and only a daemon that *)
(* fails in the finally hides it), and what they raise otherwise is in     *)
(* Raises unless the API, a bucket or the daemon failed, the configuration *)
(* is one that crashes, or the project's variables are refused.  This is   *)
(* what makes the steps of module Runner stand for director.py.            *)
StepsKeepTheirContract ==
  Over /\ exc # "none" =>
    IF landed # "none"
    THEN exc \in StepBecomes(step, landed) /\ (exc = "Unexpected" => "docker" \in struck)
    ELSE \/ exc \in Raises(step)
         \/ exc = "AppError"   /\ ("api" \in struck \/ proj.path)
         \/ exc = "Unexpected" /\ (struck \cap {"api", "storage", "docker"} # {} \/ Crashable(conf))

(* What the API shows of the commands agrees with how the step ended: when *)
(* a step has returned, every command has its exit code, and one that was  *)
(* not to warn only has succeeded; when a step has raised, a command is    *)
(* left without an exit code only if a signal interrupted it, or if what   *)
(* was raised is an exception nobody expects and the API or the daemon did *)
(* not answer: never by a verdict on a command that ran.  The first of two *)
(* records that a repeated POST created is left too, as an orphan.         *)
RecordsSettled ==
  rest = <<>> =>
    \A r \in log :
      /\ exc = "none" => r.status # "open" /\ (r.warn \/ r.status \in {"ok", "orphan"})
      /\ r.status = "open" =>
           landed # "none" \/ (exc = "Unexpected" /\ struck \cap {"api", "docker"} # {})
      /\ r.status = "orphan" => "api" \in struck

(* No command uses the language environment before it was created, unless  *)
(* the user took its creation over: create_environment and install skip    *)
(* what they do by default under the same conditions.                      *)
LanguageEnvironmentFirst ==
  At("command") /\ Current.venv => venv \/ Listed(conf, "create_environment")

(* Sphinx or MkDocs is only run with a configuration that names its file,  *)
(* whatever jobs the user overrides: the defaults of one key are decided   *)
(* by several validators and by the doctype.                               *)
DocToolConfigured ==
  At("command") /\ Current.name = "doctool" =>
    IF Doctype(conf) = "mkdocs" THEN conf.mkdocs = "configured" ELSE conf.sphinx = "configured"

(* The build's own commands only start once every tool of build.tools is   *)
(* installed, although a tool that comes from the cache is moved into      *)
(* place by a command whose failure is ignored.                            *)
ToolsReady ==
  step \in {"run_build_commands", "build"} => tools = Tools

(* No command of the user's post_checkout job is run in a checkout whose   *)
(* key was found to have write access.                                     *)
NoJobWithWriteKey ==
  proj.private /\ proj.writes => "post_checkout" \notin ranJob

(* A checkout in which nothing goes wrong, of a configuration that is      *)
(* accepted and a key the policy allows, does not fail: the git commands   *)
(* that only ask a question may exit with anything.                        *)
CleanCheckoutSucceeds ==
  /\ step = "setup_vcs" /\ struck = {}
  /\ Accepted(conf) /\ ~(proj.private /\ proj.writes)
  => exc = "none"

SphinxFormats ==
  IF Doctype(conf) # "sphinx" \/ proj.external THEN {} ELSE conf.formats \ DOMAIN conf.jobs

(* At the end of a Sphinx build every format it was asked for has its      *)
(* directory, from which the runner takes what the build produced, unless  *)
(* a command failed that is not recorded and only warns: a format whose    *)
(* directory is missing is taken for one that was not built.               *)
FormatsDelivered ==
  step = "done" /\ ~proj.uploaded /\ struck \cap {"failure", "docker"} = {}
    => SphinxFormats \subseteq made

(* Every job of the configuration is run by a build that gets to its end,  *)
(* except the jobs of formats on a pull request, and pre_checkout, which   *)
(* is accepted and never run.                                              *)
EveryJobRuns ==
  step = "done" /\ ~proj.uploaded =>
    \A job \in DOMAIN conf.jobs :
      \/ conf.jobs[job] = 0 \/ job \in ranJob
      \/ job = "pre_checkout"
      \/ job \in Formats /\ proj.external

(* config.py:799-801: "A config must declare ``sphinx.configuration`` or   *)
(* ``mkdocs.configuration``, or opt out of the default doctype build".  A  *)
(* configuration that does not is rejected: with nothing disturbed, a      *)
(* checkout only ends in one of the user's errors.                         *)
InvalidConfigIsRejected ==
  step = "setup_vcs" /\ struck = {} => exc # "Unexpected"
=============================================================================
