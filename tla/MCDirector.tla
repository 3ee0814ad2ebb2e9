----------------------------- MODULE MCDirector -----------------------------
(***************************************************************************)
(* The builds on which the steps of the director are checked: each family  *)
(* varies what one decision of the code looks at, from an ordinary Sphinx  *)
(* build of a public repository.                                           *)
(***************************************************************************)
EXTENDS Director

NoJobs == [j \in {} |-> 0]

Ordinary == [python |-> "python", other |-> FALSE, commands |-> 0, jobs |-> NoJobs,
             formats |-> {}, apt |-> FALSE, conda |-> "absent", install |-> "requirements",
             sphinx |-> "configured", mkdocs |-> "absent", submodules |-> "none",
             malformed |-> "none", unknown |-> "none"]

WithJobs(jobs) == [Ordinary EXCEPT !.jobs = jobs]
Generic(jobs)  == [WithJobs(jobs) EXCEPT !.sphinx = "absent"]
Each(jobs)     == [j \in jobs |-> 1]

(* Accepted: the environments, the doctypes, the hooks and the overrides *)
LanguageEnvironments ==
  {[Ordinary EXCEPT !.install = i] : i \in {"none", "package", "uv"}}
  \cup {[Ordinary EXCEPT !.python = "conda", !.conda = "file", !.install = i] : i \in {"none", "uv"}}
  \cup {[Ordinary EXCEPT !.python = "none", !.other = TRUE],
        [Ordinary EXCEPT !.other = TRUE, !.apt = TRUE, !.install = "uv"]}

Doctypes ==
  {[Ordinary EXCEPT !.sphinx = "absent", !.mkdocs = "configured", !.formats = {"pdf"}],
   [Ordinary EXCEPT !.commands = 2, !.sphinx = "absent", !.other = TRUE]}

Overriding ==
  {Generic(Each({j})) : j \in {"html", "install", "create_environment"}}
  \cup {[Generic(Each({"html"})) EXCEPT !.install = "uv"],
        [Generic(Each({"html", "epub", "pdf"})) EXCEPT !.formats = {"pdf", "epub"}],
        [WithJobs([create_environment |-> 0, install |-> 1]) EXCEPT !.formats = {"htmlzip"}],
        [WithJobs(Each({"create_environment", "pdf"})) EXCEPT !.formats = {"pdf"}]}

Hooks ==
  {WithJobs([post_checkout |-> 2, pre_create_environment |-> 1, post_build |-> 1]),
   WithJobs(Each({"pre_checkout", "post_checkout", "pre_system_dependencies",
                  "post_system_dependencies", "post_create_environment", "pre_install",
                  "post_install", "pre_build"}))}

Others ==
  {[Ordinary EXCEPT !.formats = Formats]}
  \cup {[Ordinary EXCEPT !.submodules = s] : s \in {"include", "exclude"}}

(* Not accepted, or not expected: one for each way the validation ends *)
Invalid ==
  {[Ordinary EXCEPT !.malformed = m] : m \in {"formats", "search"}}
  \cup {[Ordinary EXCEPT !.python = "none"],
        [Ordinary EXCEPT !.commands = 1, !.jobs = Each({"install"})],
        WithJobs(Each({"pdf"})),
        [Ordinary EXCEPT !.python = "conda"],
        [Ordinary EXCEPT !.install = "uv and more"],
        [Ordinary EXCEPT !.install = "uv numbers"],
        [Ordinary EXCEPT !.mkdocs = "null"],
        [Ordinary EXCEPT !.sphinx = "null"],
        [Ordinary EXCEPT !.sphinx = "bare"],
        [Ordinary EXCEPT !.sphinx = "absent"],
        [Ordinary EXCEPT !.sphinx = "absent", !.mkdocs = "null"],
        [Ordinary EXCEPT !.sphinx = "absent", !.mkdocs = "bare"],
        [Ordinary EXCEPT !.commands = 1, !.sphinx = "absent", !.mkdocs = "null"],
        [Ordinary EXCEPT !.submodules = "both"],
        [Ordinary EXCEPT !.unknown = "string"]}

Public == [uploaded |-> FALSE, fresh |-> TRUE, private |-> FALSE, key |-> FALSE,
           writes |-> FALSE, known |-> FALSE, enforce |-> FALSE, custom |-> "none",
           ref |-> "name", latest |-> FALSE, external |-> FALSE, path |-> FALSE, cached |-> {}]

Private == [Public EXCEPT !.private = TRUE, !.key = TRUE]

ProjectsSeen ==
  {[Public EXCEPT !.uploaded = TRUE], [Public EXCEPT !.path = TRUE],
   [Public EXCEPT !.latest = TRUE, !.fresh = FALSE],
   [Public EXCEPT !.cached = {"python", "other"}],
   Private, [Private EXCEPT !.known = TRUE],
   [Private EXCEPT !.writes = TRUE], [Private EXCEPT !.writes = TRUE, !.enforce = TRUE]}

(* What is checked out, and by which commands *)
RefsSeen ==
  {[Public EXCEPT !.custom = c] : c \in {"list", "other"}}
  \cup {[Public EXCEPT !.ref = r] : r \in {"none", "remote"}}

OneHook == WithJobs(Each({"post_checkout"}))

BuildsSeen ==
  {<<c, Public>> : c \in LanguageEnvironments \cup Doctypes \cup Overriding \cup Hooks
                         \cup Others \cup Invalid}
  \cup {<<OneHook, p>> : p \in ProjectsSeen \cup RefsSeen}
  \cup {<<[WithJobs(Each({"pdf"})) EXCEPT !.formats = Formats], [Public EXCEPT !.external = TRUE]>>,
        <<[Ordinary EXCEPT !.other = TRUE, !.install = "uv"],
          [Public EXCEPT !.cached = {"python"}]>>}

(* Every combination of the keys whose meanings depend on one another *)
AllConfigurations ==
  {[Ordinary EXCEPT !.python = t, !.other = (t = "none"), !.conda = e, !.commands = n,
                    !.jobs = Each(js), !.formats = fs, !.install = i, !.sphinx = x, !.mkdocs = m] :
     t \in {"none", "python", "conda"}, e \in {"absent", "file"}, n \in 0 .. 1,
     js \in SUBSET {"create_environment", "install", "html", "pdf"}, fs \in {{}, {"pdf"}},
     i \in {"none", "requirements", "uv", "uv numbers"},
     x \in {"absent", "null", "bare", "configured"},
     m \in {"absent", "null", "bare", "configured"}}

AllConfigurationsBuilds == {<<c, Public>> : c \in AllConfigurations}

(* The former are disturbed by what may happen to a build, the latter not *)
Undisturbed(builds) == {<<b[1], b[2], 0>> : b \in builds}
DirectorBuilds  ==
  {<<b[1], b[2], 4>> : b \in BuildsSeen}
  \cup Undisturbed(AllConfigurationsBuilds)
  \cup Undisturbed({<<[Ordinary EXCEPT !.unknown = "number", !.mkdocs = m], Public>> : m \in {"absent", "null"}})
UndisturbedSeen == Undisturbed(BuildsSeen)

DirectorDisturbances == {"api", "gone", "storage", "docker", "failure", "exit183",
                         "cancel", "alarm", "soft"}
NoDisturbances == {}
=============================================================================
