-------------------------------- MODULE Refs --------------------------------
(***************************************************************************)
(* Which commit is built.  builder/refspec.py turns a Version into what    *)
(* git is asked to fetch, once for the worker, which reads build.os from a *)
(* sparse clone (worker/tasks.py, worker/git.py), and once for the runner  *)
(* (builder/vcs.py, director.checkout), while the people of the project    *)
(* push, move tags and rename branches between any two of these steps.     *)
(*                                                                         *)
(* One version of one project is built over and over, each build starting  *)
(* from the Version row that the builds and syncs before it left.  Commits *)
(* are numbers, and the history between them is given by two constants.    *)
(***************************************************************************)
EXTENDS Integers

CONSTANTS Branches, Tags,  \* the names used for branches and for tags
          Commits,         \* positive numbers
          Ancestors,       \* Ancestors[c]: c and the commits before it
          Recent,          \* Recent[c]: those that repo_depth leaves of them
          Files,           \* Files[c]: the configuration files in c, as the
                           \* positions of their names in CONFIG_FILENAMES
          FirstRemote,     \* what the remote repository first holds
          Requests,        \* the versions to build: pairs of a row, a project
          MaxMoves         \* bound: how often the remote moves or git fails

NoCommit  == 0
ErrorText == -1
ErrorName == "Command exited abnormally"

Maybe == Commits \cup {NoCommit}

(* Identifiers *)
Named(n)  == [name |-> n, hash |-> NoCommit]
Hash(c)   == [name |-> "", hash |-> c]
Unnamed   == Named("")

Identifiers == {Named(n) : n \in Branches \cup Tags \cup {"", ErrorName}} \cup {Hash(c) : c \in Commits}

(* The repository: the default branch, where its branches and tags point,  *)
(* and the head of the pull request that is built                          *)
Remotes == [head : Branches, branch : [Branches -> Maybe], tag : [Tags -> Maybe], pull : Commits]

(* A Version and its project:                                              *)
(*   explicit  it has a default_branch                                     *)
(*   host      its repo URL names the provider plainly ("exact"), inside   *)
(*             user@host ("inexact"), or not at all ("elsewhere")          *)
(*   custom    it has a git_checkout_command                               *)
(*   hooks     its post_checkout job checks out something else             *)
Rows == [type : {"branch", "tag", "external"}, machine : BOOLEAN, slug : STRING, name : STRING,
         identifier : Identifiers]
Projects == [explicit : BOOLEAN, host : {"exact", "inexact", "elsewhere"},
             custom : BOOLEAN, hooks : BOOLEAN]

(* What the API calls a version: a branch by its name, a tag and a pull    *)
(* request by a commit.  Only latest and stable are the machine's.         *)
IsVersion(r) ==
  /\ r \in Rows
  /\ r.type = "external" => ~r.machine /\ r.identifier.hash # NoCommit
  /\ r.type = "branch" /\ ~r.machine => r.identifier = Named(r.name)
  /\ r.type = "tag" /\ ~r.machine => r.identifier.hash # NoCommit /\ r.name \in Tags

ASSUME CommitsAssumption ==
  /\ Commits \subseteq Nat \ {0}
  /\ Ancestors \in [Commits -> SUBSET Commits] /\ Recent \in [Commits -> SUBSET Commits]
  /\ \A c \in Commits : c \in Recent[c] /\ Recent[c] \subseteq Ancestors[c]
  /\ Files \in [Commits -> SUBSET (1 .. 4)]
  /\ MaxMoves \in Nat

ASSUME RequestsAssumption ==
  /\ "" \notin Branches \cup Tags
  /\ FirstRemote \in Remotes /\ FirstRemote.branch[FirstRemote.head] # NoCommit
  /\ \A q \in Requests : IsVersion(q[1]) /\ q[2] \in Projects

VARIABLES remote,   \* [head, branch, tag, pull]: the remote repository
          row,      \* the Version in the API
          project,  \* the project
          sent,     \* the listings on their way to sync_versions_task
          pc,       \* the step of the build about to execute
          version,  \* the row as the task fetched it
          seen,     \* what the worker's sparse clone read
          repo,     \* the runner's clone
          chosen,   \* the configuration file the runner loaded, or 0
          default,  \* data.default_branch, or Unnamed
          reported, \* Build.commit: a commit, NoCommit or ErrorText
          moves,    \* how often the remote has moved or git has failed
          still,    \* history: no move since the task fetched the row
          inStep,   \* history: the row fetched was what the remote had
          mute,     \* history: the unrecorded git commands the Docker daemon
                    \* did not run in this build
          got,      \* history: what the runner's fetch found
          pointed   \* history: where branches pointed during this build

buildVars   == <<pc, version, seen, repo, chosen, default, reported>>
historyVars == <<still, inStep, mute, got, pointed>>
vars == <<remote, row, project, sent, buildVars, moves, historyVars>>

(* Refs *)
Branch(b) == [kind |-> "branch", at |-> Named(b)]
Tag(t)    == [kind |-> "tag", at |-> Named(t)]
Exact(id) == [kind |-> "hash", at |-> id]
Pull      == [kind |-> "pull", at |-> Unnamed]
HEAD      == [kind |-> "HEAD", at |-> Unnamed]
NoRef     == [kind |-> "none", at |-> Unnamed]

Steps == {"idle", "sync", "bootstrap", "clone", "fetch", "default", "checkout",
          "load", "hooks", "commit", "publish"}

-----------------------------------------------------------------------------
(* The remote repository *)

Tips == {remote.branch[b] : b \in Branches} \cup {remote.tag[t] : t \in Tags} \cup {remote.pull}

(* The commit a ref names there, or NoCommit.  A hash is served when it is *)
(* reachable.                                                              *)
Resolve(ref) ==
  CASE ref = HEAD -> remote.branch[remote.head]
    [] ref = Pull -> remote.pull
    [] ref.kind = "branch" /\ ref.at.name \in Branches -> remote.branch[ref.at.name]
    [] ref.kind = "tag" /\ ref.at.name \in Tags        -> remote.tag[ref.at.name]
    [] ref.kind = "hash" /\ \E t \in Tips \ {NoCommit} : ref.at.hash \in Ancestors[t] -> ref.at.hash
    [] OTHER -> NoCommit

(* A push, forced or not; a branch or a tag removed; another default one   *)
Moved ==
  {[remote EXCEPT !.branch[b] = c] : b \in Branches, c \in Commits}
  \cup {[remote EXCEPT !.branch[b] = NoCommit] : b \in Branches \ {remote.head}}
  \cup {[remote EXCEPT !.tag[t] = c] : t \in Tags, c \in Maybe}
  \cup {[remote EXCEPT !.pull = c] : c \in Commits}
  \cup {[remote EXCEPT !.head = b] : b \in {x \in Branches : remote.branch[x] # NoCommit}}

MoveRemote ==
  /\ moves < MaxMoves
  /\ moves' = moves + 1
  /\ remote' \in Moved \ {remote}
  /\ still' = FALSE
  /\ pointed' = [b \in Branches |-> pointed[b] \cup {remote'.branch[b]}]
  /\ UNCHANGED <<row, project, sent, buildVars, inStep, mute, got>>

-----------------------------------------------------------------------------
(* What to fetch *)

(* get_remote_fetch_refspec *)
RefspecOf(v, known) ==
  CASE v.type = "branch" /\ ~v.machine         -> Branch(v.name)
    [] v.type = "branch" /\ v.machine          -> IF v.identifier = Unnamed THEN NoRef
                                                  ELSE Branch(v.identifier.name)
    [] v.type = "tag" /\ ~v.machine            -> Tag(v.name)
    [] v.type = "tag" /\ v.machine             -> IF v.slug = "stable" THEN Exact(v.identifier)
                                                  ELSE Tag(v.identifier.name)
    [] v.type = "external"                     -> IF known THEN Pull ELSE NoRef

(* Mutant: the default branch is asked for once, and then remembered.      *)
FollowsDefaultOnce == version.machine /\ version.slug = "latest" /\ ~project.explicit
                      /\ version.identifier = Unnamed

(* "latest" of a project without default_branch *)
FollowsDefault == version.machine /\ version.slug = "latest" /\ ~project.explicit

(* Mutant: the configuration is always the default branch's.               *)
WorkerRefHead == HEAD

(* _prepare_build: the provider is looked for anywhere in the URL *)
WorkerRef ==
  LET ref == RefspecOf(version, project.host # "elsewhere")
  IN  IF ref = NoRef THEN HEAD ELSE ref

(* Backend.fetch: it has to be the host of the URL *)
RunnerRef ==
  IF FollowsDefault THEN HEAD ELSE RefspecOf(version, project.host = "exact")

-----------------------------------------------------------------------------
(* The worker's part of a build *)

(* What the row says is what the remote has *)
RowInStep ==
  CASE row.type = "tag" /\ ~row.machine -> row.identifier = Hash(remote.tag[row.name])
    [] row.type = "external"            -> row.identifier = Hash(remote.pull)
    [] row.machine /\ row.slug = "latest" /\ ~project.explicit ->
                                           row.identifier \in {Unnamed, Named(remote.head)}
    [] OTHER                            -> TRUE

NothingSeen == [commit |-> NoCommit, file |-> 0]
EmptyClone  == [default |-> "", origin |-> [b \in Branches |-> NoCommit],
                tags |-> [t \in Tags |-> NoCommit], local |-> NoCommit,
                objects |-> {}, head |-> NoCommit]

FailBuild == pc' = "idle"
Outside   == UNCHANGED <<remote, row, project>>

FetchVersion ==
  /\ pc = "idle" /\ pc' = "sync"
  /\ version' = row
  /\ seen' = NothingSeen /\ repo' = EmptyClone
  /\ chosen' = 0 /\ default' = Unnamed /\ reported' = NoCommit
  /\ still' = TRUE /\ inStep' = RowInStep /\ mute' = {} /\ got' = NoCommit
  /\ pointed' = [b \in Branches |-> {remote.branch[b]}]
  /\ UNCHANGED <<sent, moves>> /\ Outside

(* parse_lsremote *)
ListedBranches == {b \in Branches : remote.branch[b] # NoCommit}

Reserved == {"latest", "stable"}

(* find_duplicate_reserved_versions *)
Duplicates == {n \in Reserved \cap ListedBranches \cap Tags : remote.tag[n] # NoCommit}

(* _sync_versions, which pull requests skip; ls-remote may fail *)
SyncVersions ==
  /\ pc = "sync"
  /\ IF version.type = "external" THEN pc' = "bootstrap" /\ UNCHANGED <<sent, moves>>
     ELSE \/ /\ Duplicates = {}
             /\ pc' = "bootstrap" /\ sent' = sent \cup {remote.tag} /\ UNCHANGED moves
          \/ Duplicates # {} /\ FailBuild /\ UNCHANGED <<sent, moves>>
          \/ /\ moves < MaxMoves /\ moves' = moves + 1
             /\ pc' = "bootstrap" /\ UNCHANGED sent
  /\ UNCHANGED <<version, seen, repo, chosen, default, reported, historyVars>> /\ Outside

(* find_config_file: the names are tried in their order *)
FirstFile(c) == CHOOSE f \in Files[c] : \A g \in Files[c] : f <= g

(* sparse_clone_yaml: FETCH_HEAD is checked out, whatever the identifier   *)
SparseClone ==
  /\ pc = "bootstrap"
  /\ LET c == Resolve(WorkerRef)
     IN  IF c = NoCommit \/ Files[c] = {} THEN FailBuild /\ UNCHANGED seen
         ELSE pc' = "clone" /\ seen' = [commit |-> c, file |-> FirstFile(c)]
  /\ UNCHANGED <<sent, moves, version, repo, chosen, default, reported, historyVars>> /\ Outside

-----------------------------------------------------------------------------
(* The runner's part *)

TheRest == UNCHANGED <<sent, version, seen>> /\ Outside

(* git clone --depth 1: one branch, and the tags that point at its tip *)
Clone ==
  /\ pc = "clone" /\ ~project.custom /\ pc' = "fetch"
  /\ LET tip == remote.branch[remote.head]
     IN  /\ repo' = [default |-> remote.head,
                     origin  |-> [EmptyClone.origin EXCEPT ![remote.head] = tip],
                     tags    |-> [t \in Tags |-> IF remote.tag[t] = tip THEN tip ELSE NoCommit],
                     local   |-> tip, objects |-> {tip}, head |-> tip]
         /\ got' = tip
  /\ UNCHANGED <<moves, chosen, default, reported, still, inStep, mute, pointed>> /\ TheRest

(* The project's own commands leave any commit, or no repository at all *)
CustomCheckout ==
  /\ pc = "clone" /\ project.custom /\ pc' = "default"
  /\ \E c \in Maybe :
       repo' = [EmptyClone EXCEPT !.head = c, !.objects = {c} \ {NoCommit},
                                  !.default = IF c = NoCommit THEN "" ELSE remote.head]
  /\ UNCHANGED <<moves, chosen, default, reported, historyVars>> /\ TheRest

(* What git fetch leaves in the clone for a ref that is at commit c there. *)
(* Without a refspec git fetches the branch that was cloned and all tags.  *)
Fetched(ref, c) ==
  LET deeper == [repo EXCEPT !.objects = @ \cup Recent[c]]
  IN  CASE ref.kind = "branch" -> [deeper EXCEPT !.origin[ref.at.name] = c]
        [] ref.kind = "tag"    -> [deeper EXCEPT !.tags[ref.at.name] = c]
        [] ref = NoRef         -> [deeper EXCEPT !.origin[repo.default] = c, !.tags = remote.tag]
        [] OTHER               -> deeper

FetchRef ==
  /\ pc = "fetch"
  /\ LET ref == RunnerRef
         c   == Resolve(IF ref = NoRef THEN Branch(repo.default) ELSE ref)
     IN  IF c = NoCommit THEN FailBuild /\ UNCHANGED <<repo, got>>
         ELSE /\ pc' = "default"
              /\ repo' = Fetched(ref, c)
              /\ got' = IF ref \in {HEAD, NoRef} THEN got ELSE c
  /\ UNCHANGED <<moves, chosen, default, reported, still, inStep, mute, pointed>> /\ TheRest

(* An unrecorded command that the Docker daemon does not run only warns,   *)
(* and its output is the text of the error.                                *)
Unanswered(command) ==
  /\ moves < MaxMoves /\ moves' = moves + 1
  /\ mute' = mute \cup {command}
Answered == UNCHANGED <<moves, mute>>

(* Mutant: the default branch is asked of the remote, when it is needed.   *)
DefaultBranchNow == remote.head

(* get_default_branch: symbolic-ref, in the clone *)
DefaultBranch == repo.default

DetectDefaultBranch ==
  /\ pc = "default"
  /\ IF FollowsDefault
     THEN /\ pc' = "load"
          /\ \/ default' = Named(DefaultBranch) /\ Answered
             \/ default' = Named(ErrorName) /\ Unanswered("symbolic-ref")
     ELSE pc' = "checkout" /\ UNCHANGED default /\ Answered
  /\ UNCHANGED <<repo, chosen, reported, still, inStep, got, pointed>> /\ TheRest

(* git checkout of a name: the local branch, then the tag *)
LocalRef(n) ==
  IF n = repo.default THEN repo.local ELSE IF n \in Tags THEN repo.tags[n] ELSE NoCommit

(* Mutant: the name is checked out as it is.                               *)
FindLocal(n, answered) == LocalRef(n)

(* find_ref: the remote branch, if show-ref knows of one *)
FindRef(n, answered) ==
  IF answered /\ n \in Branches /\ repo.origin[n] # NoCommit THEN repo.origin[n]
  ELSE LocalRef(n)

CheckoutTarget(answered) ==
  CASE project.custom \/ version.identifier = Unnamed -> repo.head
    [] version.identifier.hash # NoCommit -> IF version.identifier.hash \in repo.objects
                                             THEN version.identifier.hash ELSE NoCommit
    [] OTHER -> FindRef(version.identifier.name, answered)

Probes == ~project.custom /\ version.identifier # Unnamed

Checkout ==
  /\ pc = "checkout"
  /\ \E answered \in IF Probes THEN BOOLEAN ELSE {TRUE} :
       LET c == CheckoutTarget(answered)
       IN  /\ IF c = NoCommit /\ ~project.custom THEN FailBuild /\ UNCHANGED repo
              ELSE pc' = "load" /\ repo' = [repo EXCEPT !.head = c]
           /\ IF answered THEN Answered ELSE Unanswered("show-ref")
  /\ UNCHANGED <<chosen, default, reported, still, inStep, got, pointed>> /\ TheRest

(* What may be read at the top of the checkout; a custom command need not  *)
(* have made a repository of it                                            *)
FilesHere == IF repo.head = NoCommit THEN {1} ELSE Files[repo.head]

(* find_one takes the first name that os.listdir happens to give *)
LoadConfig ==
  /\ pc = "load"
  /\ IF FilesHere = {} THEN FailBuild /\ UNCHANGED chosen
     ELSE pc' = "hooks" /\ chosen' \in FilesHere
  /\ UNCHANGED <<moves, repo, default, reported, historyVars>> /\ TheRest

PostCheckout ==
  /\ pc = "hooks" /\ pc' = "commit"
  /\ \E c \in {repo.head} \cup (IF project.hooks THEN repo.objects ELSE {}) :
       repo' = [repo EXCEPT !.head = c]
  /\ UNCHANGED <<moves, chosen, default, reported, historyVars>> /\ TheRest

(* Mutant: the commit is the one that was cloned.                          *)
CommitCloned == repo.local

(* Backend.commit: rev-parse HEAD, stderr included *)
Commit == IF repo.head = NoCommit THEN ErrorText ELSE repo.head

RecordCommit ==
  /\ pc = "commit" /\ pc' = "publish"
  /\ \/ reported' = Commit /\ Answered
     \/ reported' = ErrorText /\ Unanswered("rev-parse")
  /\ UNCHANGED <<repo, chosen, default, still, inStep, got, pointed>> /\ TheRest

(* Mutant: latest is pointed at the commit.                                *)
LatestCommit == Hash(reported)

(* What latest is pointed at *)
LatestTarget == default

(* _update_version, after the upload: nothing is said of a build without   *)
(* HTML, and a PATCH that fails is only logged                             *)
UpdateVersion ==
  /\ pc = "publish" /\ pc' = "idle"
  /\ \/ /\ row' = IF default = Unnamed THEN row
                   ELSE [row EXCEPT !.identifier = LatestTarget, !.type = "branch"]
        /\ UNCHANGED moves
     \/ moves < MaxMoves /\ moves' = moves + 1 /\ UNCHANGED row
  /\ UNCHANGED <<remote, project, sent, version, seen, repo, chosen, default, reported,
                 historyVars>>

(* Any step of a build may fail it, git on the network first of all *)
BuildFails ==
  /\ pc # "idle" /\ FailBuild
  /\ moves < MaxMoves /\ moves' = moves + 1
  /\ UNCHANGED <<remote, row, project, sent, version, seen, repo, chosen, default, reported,
                 historyVars>>

-----------------------------------------------------------------------------
(* The web application: sync_versions_task, and the provider's webhook *)

RowTo(id) == row' = [row EXCEPT !.identifier = id]
WebOnly   == UNCHANGED <<remote, project, buildVars, moves, historyVars>>

ApplySync ==
  \E tags \in sent :
    /\ sent' = sent \ {tags}
    /\ IF row.type = "tag" /\ ~row.machine /\ tags[row.name] # NoCommit
       THEN RowTo(Hash(tags[row.name])) ELSE UNCHANGED row
    /\ WebOnly

PullRequestUpdated ==
  row.type = "external" /\ RowTo(Hash(remote.pull)) /\ UNCHANGED sent /\ WebOnly

-----------------------------------------------------------------------------
Init ==
  /\ remote = FirstRemote
  /\ \E q \in Requests : row = q[1] /\ project = q[2]
  /\ sent = {}
  /\ pc = "idle" /\ version = row /\ seen = NothingSeen /\ repo = EmptyClone
  /\ chosen = 0 /\ default = Unnamed /\ reported = NoCommit
  /\ moves = 0
  /\ still = TRUE /\ inStep = TRUE /\ mute = {} /\ got = NoCommit
  /\ pointed = [b \in Branches |-> {remote.branch[b]}]

Build ==
  \/ FetchVersion \/ SyncVersions \/ SparseClone
  \/ Clone \/ CustomCheckout \/ FetchRef \/ DetectDefaultBranch \/ Checkout
  \/ LoadConfig \/ PostCheckout \/ RecordCommit \/ UpdateVersion

Next == Build \/ BuildFails \/ MoveRemote \/ ApplySync \/ PullRequestUpdated

Spec == Init /\ [][Next]_vars

(* Builds are triggered again and again, and the web handles its tasks *)
FairSpec == Spec /\ WF_vars(Build) /\ WF_vars(ApplySync)

-----------------------------------------------------------------------------
(* Properties *)

(* Every variable of the model has its type.                               *)
RefsTypeOK ==
  /\ pc \in Steps
  /\ {row.identifier, version.identifier, default} \subseteq Identifiers
  /\ seen.commit \in Maybe
  /\ {repo.head, repo.local, got} \subseteq Maybe
  /\ repo.objects \subseteq Commits
  /\ reported \in Maybe \cup {ErrorText}
  /\ moves \in 0 .. MaxMoves

(* A tag that is called like the branch that was cloned: find_ref prefers  *)
(* the branch                                                              *)
Ambiguous == version.type = "tag" /\ version.identifier = Named(repo.default)

(* What is configured and built is the commit the runner's own fetch found *)
(* at the ref -- not the tip that was cloned a moment earlier -- or, for a *)
(* version that is a commit, exactly that commit.  There are two known     *)
(* exceptions: a show-ref that did not run leaves the local branch of the  *)
(* clone, and a tag called like that branch is not told from it.           *)
BuiltFromTheFetch ==
  pc \in {"load", "hooks"} /\ ~project.custom =>
    \/ repo.head = got
    \/ version.identifier = Hash(repo.head)
    \/ "show-ref" \in mute \/ Ambiguous

(* build.os comes from the same file of the same commit as the rest of the *)
(* configuration, when nobody moves the remote meanwhile, the row fetched  *)
(* was up to date, the commit has only one configuration file, and a pull  *)
(* request is one of a provider that is known.                             *)
ConfigsAgree ==
  /\ pc = "hooks" /\ ~project.custom
  /\ still /\ inStep /\ mute = {} /\ ~Ambiguous
  /\ (version.type = "external" => project.host # "elsewhere")
  => /\ seen.commit = repo.head
     /\ seen.file # chosen => FilesHere # {chosen}

(* The commit reported with the build is the one its documentation is made *)
(* of, after the user's own post_checkout commands -- or the text of an    *)
(* error, when there is no repository or the daemon did not run rev-parse. *)
CommitIsWhatIsBuilt ==
  pc = "publish" =>
    \/ reported = repo.head
    \/ reported = ErrorText /\ (project.custom \/ "rev-parse" \in mute)

(* A build that renames what latest stands for names a branch that had the *)
(* commit it published, even if the default branch changed under way.      *)
LatestNamesBuiltBranch ==
  [][row' # row /\ pc' # pc /\ "symbolic-ref" \notin mute /\ ~project.custom =>
       \E b \in Branches : row'.identifier = Named(b) /\ got \in pointed[b]]_vars

(* A build of latest can get as far as its upload *)
Healthy ==
  /\ Duplicates = {}
  /\ \A ref \in {HEAD, IF row.identifier = Unnamed THEN HEAD ELSE Branch(row.identifier.name)} :
       Resolve(ref) # NoCommit /\ Files[Resolve(ref)] # {}

TagGone == row.name \in Tags /\ remote.tag[row.name] = NoCommit

(* Once the remote has come to rest, building brings the row in line with  *)
(* it: a moved tag at the next sync, even if its commit cannot be built,   *)
(* and latest at the next build that the worker does not refuse for what   *)
(* it finds at the branch recorded before.                                 *)
RowCatchesUp ==
  /\ moves = MaxMoves /\ row.type = "tag" /\ ~row.machine ~>
       RowInStep \/ Duplicates # {} \/ TagGone
  /\ moves = MaxMoves /\ row.slug = "latest" /\ ~project.explicit /\ ~project.custom ~>
       RowInStep \/ ~Healthy
=============================================================================
