------------------------------- MODULE Config -------------------------------
(***************************************************************************)
(* config/config.py: the validation of a .readthedocs.yaml, for the keys   *)
(* whose meanings depend on one another.  Every definition is a function   *)
(* of the raw configuration c, a record:                                   *)
(*                                                                         *)
(*   python      the tool build.tools.python: "none", "python" or "conda"  *)
(*               (miniconda, miniforge, mamba)                             *)
(*   other       whether another tool is listed (nodejs, ...)              *)
(*   commands    the number of build.commands                              *)
(*   jobs        build.jobs: a function from the jobs listed to the number *)
(*               of their commands; html, pdf, epub and htmlzip stand for  *)
(*               the jobs of build.jobs.build                              *)
(*   formats     the formats asked for                                     *)
(*   apt         whether there are build.apt_packages                      *)
(*   conda       "absent", or "file" with an environment                   *)
(*   install     python.install: "none", "requirements", "package", "uv",  *)
(*               "uv and more", or "uv numbers" (extras or groups that are *)
(*               not strings)                                              *)
(*   sphinx,     "absent", "null" (the key without a value), "bare"        *)
(*   mkdocs      (without configuration) or "configured"                   *)
(*   submodules  "none", "include", "exclude" or "both"                    *)
(*   malformed   the section that has a wrong type or choice, or "none"    *)
(*   unknown     the first key left that no validator takes: "none",       *)
(*               "string", or "number" for one that is not a string        *)
(***************************************************************************)
EXTENDS Naturals, FiniteSets

Formats   == {"htmlzip", "pdf", "epub"}
BuildJobs == Formats \cup {"html"}
(* The jobs that replace a step of the build rather than add to it *)
NewJobs   == BuildJobs \cup {"create_environment", "install"}

(* A job of another name makes its section malformed *)
AllJobs   == NewJobs \cup {"pre_checkout", "post_checkout", "pre_system_dependencies",
                          "post_system_dependencies", "pre_create_environment",
                          "post_create_environment", "pre_install", "post_install",
                          "pre_build", "post_build"}

IsConfiguration(c) ==
  /\ c.python \in {"none", "python", "conda"}
  /\ {c.other, c.apt} \subseteq BOOLEAN
  /\ c.unknown \in {"none", "string", "number"}
  /\ c.commands \in Nat
  /\ DOMAIN c.jobs \subseteq AllJobs
  /\ \A job \in DOMAIN c.jobs : c.jobs[job] \in Nat
  /\ c.formats \subseteq Formats
  /\ c.conda \in {"absent", "file"}
  /\ c.install \in {"none", "requirements", "package", "uv", "uv and more", "uv numbers"}
  /\ {c.sphinx, c.mkdocs} \subseteq {"absent", "null", "bare", "configured"}
  /\ c.submodules \in {"none", "include", "exclude", "both"}

Listed(c, job)   == job \in DOMAIN c.jobs
Commands(c, job) == IF Listed(c, job) THEN c.jobs[job] ELSE 0

UsesCommands(c) == c.commands > 0
UsesConda(c)    == c.python = "conda"
UsesUv(c)       == c.install \in {"uv", "uv and more", "uv numbers"}
Overrides(c)    == DOMAIN c.jobs \cap NewJobs # {}
HasDocTool(c)   == c.sphinx # "absent" \/ c.mkdocs # "absent"

Doctype(c) ==
  IF UsesCommands(c) \/ (Overrides(c) /\ ~HasDocTool(c)) THEN "generic"
  ELSE IF c.mkdocs \in {"bare", "configured"} THEN "mkdocs" ELSE "sphinx"

-----------------------------------------------------------------------------
(* BuildConfigV2.validate: the validators, in the order they run *)

Validators == <<"formats", "build", "conda", "python", "doc_types", "mkdocs",
                "sphinx", "submodules", "search", "required", "keys">>

(* Mutant: a build that overrides a job needs no configuration at all.     *)
ConfigMissingUnlessOverridden(c) ==
  ~Overrides(c) /\ (c.sphinx = "bare" \/ c.mkdocs = "bare" \/ ~HasDocTool(c))

(* validate_required_config *)
ConfigMissing(c) ==
  \/ c.sphinx = "bare"
  \/ c.mkdocs = "bare"
  \/ ~Overrides(c) /\ ~HasDocTool(c)

(* The validator raises ConfigError, a user error *)
Rejects(v, c) ==
  \/ c.malformed = v
  \/ CASE v = "build" ->
            \/ c.python = "none" /\ ~c.other /\ ~UsesCommands(c)
            \/ UsesCommands(c) /\ DOMAIN c.jobs # {}
            \/ ~(DOMAIN c.jobs \cap Formats \subseteq c.formats)
       [] v = "conda"  -> c.conda = "absent" /\ UsesConda(c) /\ ~UsesCommands(c)
       [] v = "python" -> c.install = "uv and more"
       [] v = "doc_types" -> c.sphinx # "absent" /\ c.mkdocs # "absent"
       [] v = "sphinx" -> c.sphinx = "null"
       [] v = "submodules" -> c.submodules = "both"
       [] v = "required" -> ~UsesCommands(c) /\ ConfigMissing(c)
       [] v = "keys"   -> c.unknown = "string" \/ (c.unknown = "none" /\ c.mkdocs = "null")
       [] OTHER        -> FALSE

(* validate_required_config reads the configuration of a mkdocs key that   *)
(* has no value; validate_keys joins the names of the key it reports       *)
Crashes(v, c) ==
  \/ v = "required" /\ ~UsesCommands(c) /\ c.mkdocs = "null"
  \/ v = "keys" /\ c.unknown = "number"

Fails(v, c) == Rejects(v, c) \/ Crashes(v, c)

(* What load() ends with, the conversion to a dictionary that follows      *)
(* included: extras and groups are only looked at there.                   *)
Verdict(c) ==
  IF \E i \in DOMAIN Validators : Fails(Validators[i], c)
  THEN LET first == CHOOSE i \in DOMAIN Validators :
                      /\ Fails(Validators[i], c)
                      /\ \A j \in 1 .. i - 1 : ~Fails(Validators[j], c)
       IN  IF Rejects(Validators[first], c) THEN "UserError" ELSE "Unexpected"
  ELSE IF c.install = "uv numbers" THEN "Unexpected" ELSE "none"

Accepted(c) == Verdict(c) = "none"

-----------------------------------------------------------------------------
(* BuildDirector.setup_environment: the kind of language environment       *)
Environment(c) ==
  IF UsesConda(c) THEN "Conda" ELSE IF UsesUv(c) THEN "UvEnv" ELSE "Virtualenv"
=============================================================================
