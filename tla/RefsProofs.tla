------------------------------ MODULE RefsProofs ------------------------------
(***************************************************************************)
(* Proofs about module Refs: for every history of the repository, every    *)
(* version of it and any number of moves of the remote between any two     *)
(* steps of any number of builds, what is built is what was fetched, and   *)
(* the two looks at the configuration agree.                               *)
(***************************************************************************)
EXTENDS Refs, TLAPS

Clones == [default : Branches \cup {""}, origin : [Branches -> Maybe], tags : [Tags -> Maybe],
           local : Maybe, objects : SUBSET Commits, head : Maybe]

(* The steps with the runner's clone in place, and those with what the     *)
(* worker read in its own                                                  *)
Cloned == {"fetch", "default", "checkout", "load", "hooks", "commit", "publish"}
Read   == Cloned \cup {"clone"}

(* The row's own part of its life: only the type and the identifier of a   *)
(* row change                                                              *)
SameVersion ==
  /\ version.machine = row.machine /\ version.slug = row.slug /\ version.name = row.name
  /\ default # Unnamed => FollowsDefault

TypeInv ==
  /\ remote \in Remotes /\ remote.branch[remote.head] # NoCommit
  /\ IsVersion(row) /\ IsVersion(version) /\ SameVersion
  /\ project \in Projects
  /\ sent \subseteq [Tags -> Maybe]
  /\ pc \in Steps
  /\ seen \in [commit : Maybe, file : 0 .. 4]
  /\ repo \in Clones
  /\ default \in Identifiers
  /\ reported \in Maybe \cup {ErrorText}
  /\ moves \in 0 .. MaxMoves
  /\ got \in Maybe
  /\ pointed \in [Branches -> SUBSET Maybe]

(* What the runner's clone holds once the ref was fetched *)
RefFetched ==
  LET ref == RunnerRef
  IN  /\ ref \in {HEAD, NoRef} => got = repo.head
      /\ ref.kind = "branch" => /\ ref.at.name \in Branches /\ got # NoCommit
                                /\ repo.origin[ref.at.name] = got
      /\ ref.kind = "tag" => /\ ref.at.name \in Tags /\ got # NoCommit
                             /\ repo.tags[ref.at.name] = got
      /\ ref.kind = "hash" => ref.at.hash = got /\ got # NoCommit
      /\ \A b \in Branches : repo.origin[b] # NoCommit =>
           b = repo.default \/ (ref.kind = "branch" /\ b = ref.at.name)

CloneInv ==
  ~project.custom =>
    /\ pc \in Cloned => repo.default \in Branches /\ repo.head # NoCommit
    /\ pc = "fetch" => /\ got = repo.head
                       /\ \A b \in Branches \ {repo.default} : repo.origin[b] = NoCommit
    /\ pc \in {"default", "checkout"} => RefFetched
    /\ pc = "checkout" => ~FollowsDefault

BuiltInv == BuiltFromTheFetch /\ CommitIsWhatIsBuilt

(* Where the branches that latest stands for have pointed *)
PointedInv ==
  /\ \A b \in Branches : remote.branch[b] \in pointed[b]
  /\ pc \in {"sync", "bootstrap", "clone", "fetch", "default"} => default = Unnamed
  /\ FollowsDefault /\ ~project.custom /\ pc \in Cloned =>
       /\ got \in pointed[repo.default]
       /\ default # Unnamed /\ "symbolic-ref" \notin mute => default = Named(repo.default)

(* The version fetched says what the remote has *)
VersionInStep ==
  /\ version.type = "tag" /\ ~version.machine => version.identifier = Hash(remote.tag[version.name])
  /\ version.type = "external" => version.identifier = Hash(remote.pull)
  /\ FollowsDefault => version.identifier \in {Unnamed, Named(remote.head)}

(* While nobody moves the remote, what the worker read is still there, and *)
(* so is what the runner cloned and fetched                                *)
SeenInv ==
  /\ pc \in Read => /\ seen.commit \in Commits /\ seen.file \in Files[seen.commit]
                    /\ still => seen.commit = Resolve(WorkerRef)
  /\ pc # "idle" /\ still /\ inStep => VersionInStep
  /\ ~project.custom /\ still =>
       /\ pc \in {"fetch", "default", "checkout"} =>
            repo.default = remote.head /\ repo.head = remote.branch[remote.head]
       /\ pc \in {"default", "checkout"} /\ RunnerRef \notin {HEAD, NoRef} => got = Resolve(RunnerRef)

(* What ConfigsAgree asks for *)
Agreeing ==
  /\ ~project.custom /\ still /\ inStep /\ mute = {} /\ ~Ambiguous
  /\ version.type = "external" => project.host # "elsewhere"

(* From the checkout on, the two looks have seen the same commit *)
AgreeInv ==
  /\ pc \in {"load", "hooks"} /\ Agreeing => seen.commit = repo.head
  /\ pc = "hooks" => chosen \in FilesHere

RefsInv == TypeInv /\ CloneInv /\ BuiltInv /\ PointedInv /\ SeenInv /\ AgreeInv

-----------------------------------------------------------------------------
(* Identifiers, refs, and what they name *)

LEMMA IdentifierIs ==
  ASSUME NEW id \in Identifiers
  PROVE  /\ id.hash \in Maybe
         /\ id.hash # NoCommit => id = Hash(id.hash)
         /\ id.hash = NoCommit => id = Named(id.name)
<1>1. CASE \E n \in Branches \cup Tags \cup {"", ErrorName} : id = Named(n)
  <2>1. PICK n : id = Named(n)
    BY <1>1
  <2>2. id.hash = NoCommit /\ id.name = n
    BY <2>1 DEF Named
  <2>3. id = Named(id.name)
    BY <2>1, <2>2
  <2> QED BY <2>2, <2>3 DEF Maybe
<1>2. CASE \E c \in Commits : id = Hash(c)
  <2>1. PICK c \in Commits : id = Hash(c)
    BY <1>2
  <2>2. id.hash = c
    BY <2>1 DEF Hash
  <2>3. id = Hash(id.hash) /\ c # NoCommit
    BY <2>1, <2>2, CommitsAssumption DEF NoCommit
  <2> QED BY <2>2, <2>3 DEF Maybe
<1> QED BY <1>1, <1>2 DEF Identifiers

LEMMA NamesAndHashes ==
  /\ \A n : Named(n).name = n /\ Named(n).hash = NoCommit
  /\ \A c : Hash(c).hash = c /\ Hash(c).name = ""
  /\ Unnamed.name = "" /\ Unnamed.hash = NoCommit
  /\ Unnamed \in Identifiers /\ \A c \in Maybe : Hash(c) \in Identifiers
  /\ \A b \in Branches : Named(b) \in Identifiers /\ Named(b) # Unnamed
  /\ \A c \in Commits : Hash(c) # Unnamed
  /\ Named(ErrorName) \in Identifiers
BY CommitsAssumption, RequestsAssumption DEF Named, Hash, Unnamed, Identifiers, Maybe, NoCommit

LEMMA RefIs ==
  /\ \A b : Branch(b).kind = "branch" /\ Branch(b).at.name = b /\ Branch(b) \notin {HEAD, NoRef}
  /\ \A t : Tag(t).kind = "tag" /\ Tag(t).at.name = t /\ Tag(t) \notin {HEAD, NoRef}
  /\ \A id : Exact(id).kind = "hash" /\ Exact(id).at = id /\ Exact(id) \notin {HEAD, NoRef}
  /\ Pull.kind = "pull" /\ HEAD.kind = "HEAD" /\ NoRef.kind = "none"
  /\ Pull \notin {HEAD, NoRef} /\ HEAD # NoRef
BY DEF Branch, Tag, Exact, Pull, HEAD, NoRef, Named, Unnamed

LEMMA ResolveIs ==
  ASSUME remote \in Remotes
  PROVE  /\ \A ref : Resolve(ref) \in Maybe
         /\ Resolve(HEAD) = remote.branch[remote.head]
         /\ Resolve(Pull) = remote.pull
         /\ \A ref : ref.kind = "branch" => Resolve(ref) = IF ref.at.name \in Branches
                                                          THEN remote.branch[ref.at.name] ELSE NoCommit
         /\ \A ref : ref.kind = "tag" => Resolve(ref) = IF ref.at.name \in Tags
                                                       THEN remote.tag[ref.at.name] ELSE NoCommit
         /\ \A ref : ref.kind = "hash" => Resolve(ref) \in {ref.at.hash, NoCommit}
         /\ Resolve(NoRef) = NoCommit
<1>1. /\ remote.head \in Branches /\ remote.branch \in [Branches -> Maybe]
      /\ remote.tag \in [Tags -> Maybe] /\ remote.pull \in Commits
  BY DEF Remotes
<1>2. Tips \subseteq Maybe
  BY <1>1 DEF Tips, Maybe
<1>3. ASSUME NEW ref, ref.kind = "hash" PROVE Resolve(ref) \in {ref.at.hash, NoCommit}
  BY <1>3, RefIs DEF Resolve
<1>4. ASSUME NEW ref, ref.kind = "branch"
      PROVE  Resolve(ref) = IF ref.at.name \in Branches THEN remote.branch[ref.at.name] ELSE NoCommit
  BY <1>4, RefIs DEF Resolve
<1>5. ASSUME NEW ref, ref.kind = "tag"
      PROVE  Resolve(ref) = IF ref.at.name \in Tags THEN remote.tag[ref.at.name] ELSE NoCommit
  BY <1>5, RefIs DEF Resolve
<1>6. Resolve(HEAD) = remote.branch[remote.head] /\ Resolve(Pull) = remote.pull /\ Resolve(NoRef) = NoCommit
  BY RefIs DEF Resolve
<1>7. ASSUME NEW ref PROVE Resolve(ref) \in Maybe
  <2>1. CASE ref.kind = "hash" /\ \E t \in Tips \ {NoCommit} : ref.at.hash \in Ancestors[t]
    <3>1. ref.at.hash \in Commits
      BY <1>2, <2>1, CommitsAssumption DEF Maybe
    <3> QED BY <1>3, <2>1, <3>1 DEF Maybe
  <2>2. CASE ref.kind \in {"branch", "tag"} \/ ref \in {HEAD, Pull}
    BY <1>1, <1>4, <1>5, <1>6, <2>2 DEF Maybe
  <2>3. CASE /\ ref.kind \notin {"branch", "tag"} /\ ref \notin {HEAD, Pull}
             /\ ~(ref.kind = "hash" /\ \E t \in Tips \ {NoCommit} : ref.at.hash \in Ancestors[t])
    BY <2>3 DEF Resolve, Maybe
  <2> QED BY <2>1, <2>2, <2>3
<1> QED BY <1>3, <1>4, <1>5, <1>6, <1>7

LEMMA ResolveNamed ==
  ASSUME remote \in Remotes, NEW n
  PROVE  /\ Resolve(Branch(n)) = IF n \in Branches THEN remote.branch[n] ELSE NoCommit
         /\ Resolve(Tag(n)) = IF n \in Tags THEN remote.tag[n] ELSE NoCommit
<1>1. Resolve(Branch(n)) = IF n \in Branches THEN remote.branch[n] ELSE NoCommit
  <2> DEFINE ref == Branch(n)
  <2>1. ref.kind = "branch" /\ ref.at.name = n
    BY RefIs
  <2> HIDE DEF ref
  <2>2. Resolve(ref) = IF ref.at.name \in Branches THEN remote.branch[ref.at.name] ELSE NoCommit
    BY <2>1, ResolveIs
  <2>3. Resolve(ref) = IF n \in Branches THEN remote.branch[n] ELSE NoCommit
    BY <2>1, <2>2
  <2> QED BY <2>3 DEF ref
<1>2. Resolve(Tag(n)) = IF n \in Tags THEN remote.tag[n] ELSE NoCommit
  <2> DEFINE ref == Tag(n)
  <2>1. ref.kind = "tag" /\ ref.at.name = n
    BY RefIs
  <2> HIDE DEF ref
  <2>2. Resolve(ref) = IF ref.at.name \in Tags THEN remote.tag[ref.at.name] ELSE NoCommit
    BY <2>1, ResolveIs
  <2>3. Resolve(ref) = IF n \in Tags THEN remote.tag[n] ELSE NoCommit
    BY <2>1, <2>2
  <2> QED BY <2>3 DEF ref
<1> QED BY <1>1, <1>2

(* What is asked for, by the kind of version *)
LEMMA RefspecIs ==
  ASSUME NEW v, IsVersion(v), NEW known \in BOOLEAN
  PROVE  /\ v.type = "branch" /\ ~v.machine => RefspecOf(v, known) = Branch(v.name)
         /\ v.type = "branch" /\ v.machine =>
              RefspecOf(v, known) = IF v.identifier = Unnamed THEN NoRef ELSE Branch(v.identifier.name)
         /\ v.type = "tag" /\ ~v.machine => RefspecOf(v, known) = Tag(v.name)
         /\ v.type = "tag" /\ v.machine =>
              RefspecOf(v, known) = IF v.slug = "stable" THEN Exact(v.identifier) ELSE Tag(v.identifier.name)
         /\ v.type = "external" => RefspecOf(v, known) = (IF known THEN Pull ELSE NoRef) /\ ~v.machine
         /\ v.type \in {"branch", "tag", "external"} /\ v.machine \in BOOLEAN
         /\ v.identifier \in Identifiers
<1>1. v.type \in {"branch", "tag", "external"} /\ v.machine \in BOOLEAN /\ v.identifier \in Identifiers
  BY DEF IsVersion, Rows
<1> QED BY <1>1 DEF RefspecOf, IsVersion

-----------------------------------------------------------------------------
(* Types *)

LEMMA RowStaysVersion ==
  ASSUME TypeInv, NEW c \in Commits, row.type \in {"external", "tag"}, ~row.machine,
         RowTo(Hash(c)), UNCHANGED <<version, default, project>>
  PROVE  IsVersion(row') /\ SameVersion'
<1>1. Hash(c) \in Identifiers /\ Hash(c).hash = c /\ c # NoCommit
  BY NamesAndHashes, CommitsAssumption DEF Maybe, NoCommit
<1>2. row \in Rows /\ row' = [row EXCEPT !.identifier = Hash(c)]
  BY DEF TypeInv, IsVersion, RowTo
<1>3. row' \in Rows /\ row'.type = row.type /\ row'.machine = row.machine /\ row'.slug = row.slug
      /\ row'.name = row.name /\ row'.identifier = Hash(c)
  BY <1>1, <1>2 DEF Rows
<1> QED BY <1>1, <1>3 DEF IsVersion, SameVersion, TypeInv, FollowsDefault

LEMMA InitTyped == Init => TypeInv
<1> SUFFICES ASSUME Init PROVE TypeInv
  OBVIOUS
<1>1. IsVersion(row) /\ project \in Projects /\ version = row
  BY RequestsAssumption DEF Init
<1>2. remote \in Remotes /\ remote.branch[remote.head] # NoCommit
  BY RequestsAssumption DEF Init
<1>3. 0 \in Maybe
  BY DEF Maybe, NoCommit
<1>4. repo \in Clones
  BY <1>3 DEF Init, EmptyClone, Clones, NoCommit
<1>5. seen \in [commit : Maybe, file : 0 .. 4]
  BY <1>3 DEF Init, NothingSeen, NoCommit
<1>6. pointed \in [Branches -> SUBSET Maybe]
  BY <1>2 DEF Init, Remotes
<1>7. default = Unnamed /\ default \in Identifiers
  BY NamesAndHashes DEF Init
<1>8. sent = {} /\ pc = "idle" /\ reported = 0 /\ moves = 0 /\ got = 0
  BY DEF Init, NoCommit
<1>9. moves \in 0 .. MaxMoves /\ pc \in Steps
  BY <1>8, CommitsAssumption DEF Steps
<1> QED BY <1>1, <1>2, <1>3, <1>4, <1>5, <1>6, <1>7, <1>8, <1>9 DEF TypeInv, SameVersion

LEMMA MovedIs ==
  ASSUME remote \in Remotes, remote.branch[remote.head] # NoCommit, NEW r \in Moved
  PROVE  r \in Remotes /\ r.branch[r.head] # NoCommit
<1>1. NoCommit \notin Commits /\ Commits \subseteq Maybe /\ NoCommit \in Maybe
  BY CommitsAssumption DEF Maybe, NoCommit
<1>2. CASE \E b \in Branches, c \in Commits : r = [remote EXCEPT !.branch[b] = c]
  BY <1>1, <1>2 DEF Remotes
<1>3. CASE \E b \in Branches \ {remote.head} : r = [remote EXCEPT !.branch[b] = NoCommit]
  BY <1>1, <1>3 DEF Remotes
<1>4. CASE \E t \in Tags, c \in Maybe : r = [remote EXCEPT !.tag[t] = c]
  BY <1>1, <1>4 DEF Remotes
<1>5. CASE \E c \in Commits : r = [remote EXCEPT !.pull = c]
  BY <1>1, <1>5 DEF Remotes
<1>6. CASE \E b \in Branches : remote.branch[b] # NoCommit /\ r = [remote EXCEPT !.head = b]
  BY <1>1, <1>6 DEF Remotes
<1> QED BY <1>2, <1>3, <1>4, <1>5, <1>6 DEF Moved

LEMMA MoveRemoteTyped == ASSUME TypeInv, MoveRemote PROVE TypeInv'
<1>1. remote' \in Remotes /\ remote'.branch[remote'.head] # NoCommit
  BY MovedIs DEF TypeInv, MoveRemote
<1>2. moves' \in 0 .. MaxMoves
  BY CommitsAssumption DEF TypeInv, MoveRemote
<1>3. pointed' \in [Branches -> SUBSET Maybe]
  <2>1. \A b \in Branches : remote'.branch[b] \in Maybe
    BY <1>1 DEF Remotes
  <2> QED BY <2>1 DEF TypeInv, MoveRemote
<1> QED BY <1>1, <1>2, <1>3 DEF TypeInv, MoveRemote, buildVars, SameVersion, FollowsDefault

LEMMA FetchVersionTyped == ASSUME TypeInv, FetchVersion PROVE TypeInv'
<1>1. UNCHANGED <<remote, row, project, sent, moves>> /\ version' = row /\ default' = Unnamed
      /\ reported' = NoCommit /\ got' = NoCommit /\ pc' = "sync"
  BY DEF FetchVersion, Outside
<1>2. NoCommit \in Maybe /\ Unnamed \in Identifiers /\ pc' \in Steps
  BY <1>1, NamesAndHashes DEF Maybe, Steps
<1>3. repo' \in Clones
  BY <1>2 DEF FetchVersion, EmptyClone, Clones
<1>4. seen' \in [commit : Maybe, file : 0 .. 4]
  BY <1>2 DEF FetchVersion, NothingSeen
<1>5. pointed' \in [Branches -> SUBSET Maybe]
  BY DEF FetchVersion, TypeInv, Remotes
<1>6. SameVersion'
  BY <1>1 DEF SameVersion
<1> QED BY <1>1, <1>2, <1>3, <1>4, <1>5, <1>6 DEF TypeInv, IsVersion

LEMMA SyncVersionsTyped == ASSUME TypeInv, SyncVersions PROVE TypeInv'
<1>1. sent' \subseteq [Tags -> Maybe] /\ moves' \in 0 .. MaxMoves /\ pc' \in Steps
  BY CommitsAssumption DEF SyncVersions, TypeInv, Remotes, Steps, FailBuild
<1> QED BY <1>1 DEF SyncVersions, Outside, historyVars, TypeInv, SameVersion, FollowsDefault

LEMMA FirstFileIs ==
  ASSUME NEW c \in Commits, Files[c] # {} PROVE FirstFile(c) \in Files[c] /\ Files[c] \subseteq 1 .. 4
<1>1. Files[c] \subseteq 1 .. 4
  BY CommitsAssumption
<1>2. \E f \in Files[c] : \A g \in Files[c] : f <= g
  <2>1. CASE 1 \in Files[c]
    BY <1>1, <2>1
  <2>2. CASE 1 \notin Files[c] /\ 2 \in Files[c]
    BY <1>1, <2>2
  <2>3. CASE 1 \notin Files[c] /\ 2 \notin Files[c] /\ 3 \in Files[c]
    BY <1>1, <2>3
  <2>4. CASE 1 \notin Files[c] /\ 2 \notin Files[c] /\ 3 \notin Files[c]
    <3>1. \A f \in Files[c] : f = 4
      BY <1>1, <2>4
    <3> QED BY <3>1
  <2> QED BY <2>1, <2>2, <2>3, <2>4
<1> QED BY <1>1, <1>2 DEF FirstFile

LEMMA SparseCloneIs ==
  ASSUME TypeInv, SparseClone
  PROVE  /\ \/ pc' = "idle" /\ seen' = seen
            \/ /\ pc' = "clone" /\ seen'.commit = Resolve(WorkerRef) /\ seen'.commit \in Commits
               /\ seen'.file \in Files[seen'.commit]
         /\ seen' \in [commit : Maybe, file : 0 .. 4]
<1> DEFINE c == Resolve(WorkerRef)
<1>1. c \in Maybe
  BY ResolveIs DEF TypeInv
<1> HIDE DEF c
<1>2. IF c = NoCommit \/ Files[c] = {} THEN FailBuild /\ UNCHANGED seen
      ELSE pc' = "clone" /\ seen' = [commit |-> c, file |-> FirstFile(c)]
  BY DEF SparseClone, c
<1>3. CASE c = NoCommit \/ Files[c] = {}
  BY <1>2, <1>3 DEF FailBuild, TypeInv
<1>4. CASE ~(c = NoCommit \/ Files[c] = {})
  <2>1. c \in Commits
    BY <1>1, <1>4 DEF Maybe
  <2>2. FirstFile(c) \in Files[c] /\ FirstFile(c) \in 0 .. 4
    BY <1>4, <2>1, FirstFileIs
  <2> QED BY <1>1, <1>2, <1>4, <2>1, <2>2 DEF c
<1> QED BY <1>3, <1>4

LEMMA SparseCloneTyped == ASSUME TypeInv, SparseClone PROVE TypeInv'
<1>1. pc' \in Steps /\ seen' \in [commit : Maybe, file : 0 .. 4]
  BY SparseCloneIs DEF Steps
<1> QED BY <1>1 DEF SparseClone, Outside, historyVars, TypeInv, SameVersion, FollowsDefault

LEMMA CloneTyped == ASSUME TypeInv, Clone PROVE TypeInv'
<1>1. remote.head \in Branches /\ remote.branch[remote.head] \in Commits
      /\ \A t \in Tags : remote.tag[t] \in Maybe
  BY DEF TypeInv, Remotes, Maybe
<1> DEFINE tip == remote.branch[remote.head]
<1>2. NoCommit \in Maybe /\ tip \in Maybe /\ tip \in Commits
  BY <1>1 DEF Maybe
<1>3. [EmptyClone.origin EXCEPT ![remote.head] = tip] \in [Branches -> Maybe]
  BY <1>2 DEF EmptyClone
<1>4. [t \in Tags |-> IF remote.tag[t] = tip THEN tip ELSE NoCommit] \in [Tags -> Maybe]
  BY <1>2
<1>5. repo' \in Clones
  BY <1>1, <1>2, <1>3, <1>4 DEF Clone, Clones
<1>6. got' \in Maybe /\ pc' \in Steps
  BY <1>2 DEF Clone, Steps
<1> QED BY <1>5, <1>6 DEF Clone, TheRest, Outside, TypeInv, SameVersion, FollowsDefault

LEMMA CustomCheckoutTyped == ASSUME TypeInv, CustomCheckout PROVE TypeInv'
<1>1. PICK c \in Maybe :
        repo' = [EmptyClone EXCEPT !.head = c, !.objects = {c} \ {NoCommit},
                                   !.default = IF c = NoCommit THEN "" ELSE remote.head]
  BY DEF CustomCheckout
<1>2. remote.head \in Branches /\ NoCommit \in Maybe /\ {c} \ {NoCommit} \subseteq Commits
  BY DEF TypeInv, Remotes, Maybe
<1>3. repo' \in Clones
  BY <1>1, <1>2 DEF Clones, EmptyClone
<1>4. pc' \in Steps
  BY DEF CustomCheckout, Steps
<1> QED BY <1>3, <1>4 DEF CustomCheckout, TheRest, Outside, historyVars, TypeInv, SameVersion, FollowsDefault

(* What a fetch that succeeds leaves                                       *)
LEMMA FetchedIs ==
  ASSUME TypeInv, NEW ref, NEW c \in Commits
  PROVE  /\ Fetched(ref, c) \in Clones
         /\ Fetched(ref, c).head = repo.head /\ Fetched(ref, c).default = repo.default
         /\ ref.kind = "branch" => \A b \in Branches :
              Fetched(ref, c).origin[b] = IF b = ref.at.name THEN c ELSE repo.origin[b]
         /\ ref.kind = "tag" => /\ Fetched(ref, c).origin = repo.origin
                                /\ ref.at.name \in Tags => Fetched(ref, c).tags[ref.at.name] = c
         /\ ref = NoRef => \A b \in Branches \ {repo.default} : Fetched(ref, c).origin[b] = repo.origin[b]
         /\ ref.kind # "branch" /\ ref # NoRef => Fetched(ref, c).origin = repo.origin
<1>1. /\ repo \in Clones /\ c \in Maybe
      /\ repo.origin \in [Branches -> Maybe] /\ repo.tags \in [Tags -> Maybe]
      /\ remote.tag \in [Tags -> Maybe] /\ Recent[c] \subseteq Commits
  BY CommitsAssumption DEF TypeInv, Clones, Maybe, Remotes
<1> DEFINE deeper == [repo EXCEPT !.objects = @ \cup Recent[c]]
<1>2. /\ deeper \in Clones /\ deeper.origin = repo.origin /\ deeper.tags = repo.tags
      /\ deeper.head = repo.head /\ deeper.default = repo.default
  BY <1>1 DEF Clones
<1> HIDE DEF deeper
<1> DEFINE after == Fetched(ref, c)
<1>3. CASE ref.kind = "branch"
  <2> DEFINE new == [deeper.origin EXCEPT ![ref.at.name] = c]
  <2>1. after = [deeper EXCEPT !.origin = new]
    BY <1>3, RefIs DEF Fetched, deeper
  <2>2. new \in [Branches -> Maybe]
    BY <1>1, <1>2
  <2>3. \A x \in Branches : new[x] = IF x = ref.at.name THEN c ELSE deeper.origin[x]
    BY <1>1, <1>2
  <2> HIDE DEF new
  <2>4. after \in Clones /\ after.head = deeper.head /\ after.default = deeper.default
        /\ after.origin = new /\ after.tags = deeper.tags
    BY <1>2, <2>1, <2>2 DEF Clones
  <2> QED BY <1>1, <1>2, <1>3, <2>3, <2>4, RefIs
<1>4. CASE ref.kind = "tag"
  <2> DEFINE new == [deeper.tags EXCEPT ![ref.at.name] = c]
  <2>1. after = [deeper EXCEPT !.tags = new]
    BY <1>4, RefIs DEF Fetched, deeper
  <2>2. new \in [Tags -> Maybe]
    BY <1>1, <1>2
  <2>3. \A x \in Tags : new[x] = IF x = ref.at.name THEN c ELSE deeper.tags[x]
    BY <1>1, <1>2
  <2> HIDE DEF new
  <2>4. after \in Clones /\ after.head = deeper.head /\ after.default = deeper.default
        /\ after.tags = new /\ after.origin = deeper.origin
    BY <1>2, <2>1, <2>2 DEF Clones
  <2> QED BY <1>1, <1>2, <1>4, <2>3, <2>4, RefIs
<1>5. CASE ref = NoRef
  <2> DEFINE new == [deeper.origin EXCEPT ![repo.default] = c]
  <2>1. after = [deeper EXCEPT !.origin = new, !.tags = remote.tag]
    BY <1>5, RefIs DEF Fetched, deeper
  <2>2. new \in [Branches -> Maybe]
    BY <1>1, <1>2
  <2>3. \A b \in Branches \ {repo.default} : new[b] = deeper.origin[b]
    BY <1>1, <1>2
  <2> HIDE DEF new
  <2>4. after \in Clones /\ after.head = deeper.head /\ after.default = deeper.default
        /\ after.origin = new
    BY <1>1, <1>2, <2>1, <2>2 DEF Clones
  <2> QED BY <1>1, <1>2, <1>5, <2>3, <2>4, RefIs
<1>6. CASE ref.kind \notin {"branch", "tag"} /\ ref # NoRef
  <2>1. after = deeper
    BY <1>6 DEF Fetched, deeper
  <2> QED BY <1>1, <1>2, <1>6, <2>1
<1> QED BY <1>3, <1>4, <1>5, <1>6

(* A fetch either fails the build or finds a commit                        *)
LEMMA FetchRefIs ==
  ASSUME TypeInv, FetchRef
  PROVE  LET ref == RunnerRef
             c   == Resolve(IF ref = NoRef THEN Branch(repo.default) ELSE ref)
         IN  \/ c = NoCommit /\ pc' = "idle" /\ repo' = repo /\ got' = got
             \/ /\ c \in Commits /\ pc' = "default" /\ repo' = Fetched(ref, c)
                /\ got' = IF ref \in {HEAD, NoRef} THEN got ELSE c
<1> DEFINE c == Resolve(IF RunnerRef = NoRef THEN Branch(repo.default) ELSE RunnerRef)
<1>1. c \in Maybe
  BY ResolveIs DEF TypeInv
<1>2. CASE c = NoCommit
  BY <1>2 DEF FetchRef, FailBuild
<1>3. CASE c # NoCommit
  <2>1. c \in Commits
    BY <1>1, <1>3 DEF Maybe
  <2> QED BY <1>3, <2>1 DEF FetchRef
<1> QED BY <1>2, <1>3

LEMMA FetchRefTyped == ASSUME TypeInv, FetchRef PROVE TypeInv'
<1> DEFINE c == Resolve(IF RunnerRef = NoRef THEN Branch(repo.default) ELSE RunnerRef)
<1>1. \/ c = NoCommit /\ pc' = "idle" /\ repo' = repo /\ got' = got
      \/ /\ c \in Commits /\ pc' = "default" /\ repo' = Fetched(RunnerRef, c)
         /\ got' = IF RunnerRef \in {HEAD, NoRef} THEN got ELSE c
  BY FetchRefIs
<1> HIDE DEF c
<1>2. repo' \in Clones /\ got' \in Maybe
  BY <1>1, FetchedIs DEF TypeInv, Maybe
<1>3. pc' \in Steps
  BY <1>1 DEF Steps
<1> QED BY <1>2, <1>3 DEF FetchRef, TheRest, Outside, TypeInv, SameVersion, FollowsDefault

LEMMA DetectDefaultBranchTyped == ASSUME TypeInv, DetectDefaultBranch PROVE TypeInv'
<1>1. default' \in Identifiers /\ (default' # Unnamed => FollowsDefault)
  <2>1. Named(DefaultBranch) \in Identifiers /\ Named(ErrorName) \in Identifiers
    BY DEF TypeInv, Clones, DefaultBranch, Identifiers
  <2>2. CASE FollowsDefault
    BY <2>1, <2>2 DEF DetectDefaultBranch
  <2>3. CASE ~FollowsDefault
    BY <2>3 DEF DetectDefaultBranch, TypeInv, SameVersion
  <2> QED BY <2>2, <2>3
<1>2. pc' \in Steps
  BY DEF DetectDefaultBranch, Steps
<1>3. moves' \in 0 .. MaxMoves
  BY CommitsAssumption DEF DetectDefaultBranch, TypeInv, Answered, Unanswered
<1>4. UNCHANGED <<remote, row, project, sent, version, seen, repo, reported, got, pointed>>
  BY DEF DetectDefaultBranch, TheRest, Outside
<1> QED BY <1>1, <1>2, <1>3, <1>4 DEF TypeInv, SameVersion, FollowsDefault

LEMMA CheckoutTyped == ASSUME TypeInv, Checkout PROVE TypeInv'
<1>1. PICK answered \in BOOLEAN :
        /\ IF CheckoutTarget(answered) = NoCommit /\ ~project.custom
           THEN FailBuild /\ UNCHANGED repo
           ELSE pc' = "load" /\ repo' = [repo EXCEPT !.head = CheckoutTarget(answered)]
        /\ IF answered THEN Answered ELSE Unanswered("show-ref")
  BY DEF Checkout
<1>2. CheckoutTarget(answered) \in Maybe
  <2>1. repo.head \in Maybe /\ repo.local \in Maybe /\ repo.objects \subseteq Maybe
        /\ repo.origin \in [Branches -> Maybe] /\ repo.tags \in [Tags -> Maybe]
        /\ NoCommit \in Maybe
    BY DEF TypeInv, Clones, Maybe
  <2>2. \A n : FindRef(n, answered) \in Maybe
    BY <2>1 DEF FindRef, LocalRef
  <2>3. version.identifier.hash \in repo.objects => version.identifier.hash \in Maybe
    BY <2>1
  <2>4. CASE project.custom \/ version.identifier = Unnamed
    BY <2>1, <2>4, NamesAndHashes DEF CheckoutTarget
  <2>5. CASE ~(project.custom \/ version.identifier = Unnamed)
    BY <2>1, <2>2, <2>3, <2>5 DEF CheckoutTarget
  <2> QED BY <2>4, <2>5
<1>3. repo' \in Clones
  BY <1>1, <1>2 DEF TypeInv, Clones
<1>4. pc' \in Steps
  BY <1>1 DEF Steps, FailBuild
<1>5. moves' \in 0 .. MaxMoves
  BY <1>1, CommitsAssumption DEF TypeInv, Answered, Unanswered
<1> QED BY <1>3, <1>4, <1>5 DEF Checkout, TheRest, Outside, TypeInv, SameVersion, FollowsDefault

LEMMA LoadConfigTyped == ASSUME TypeInv, LoadConfig PROVE TypeInv'
<1>1. pc' \in Steps
  BY DEF LoadConfig, FailBuild, Steps
<1> QED BY <1>1 DEF LoadConfig, TheRest, Outside, historyVars, TypeInv, SameVersion, FollowsDefault

LEMMA PostCheckoutTyped == ASSUME TypeInv, PostCheckout PROVE TypeInv'
<1>1. repo' \in Clones
  <2>1. PICK c \in {repo.head} \cup (IF project.hooks THEN repo.objects ELSE {}) :
          repo' = [repo EXCEPT !.head = c]
    BY DEF PostCheckout
  <2>2. repo \in Clones /\ repo.head \in Maybe /\ repo.objects \subseteq Maybe
    BY DEF TypeInv, Clones, Maybe
  <2>3. c \in Maybe
    BY <2>2
  <2> QED BY <2>1, <2>2, <2>3 DEF Clones
<1>2. pc' \in Steps
  BY DEF PostCheckout, Steps
<1> QED BY <1>1, <1>2 DEF PostCheckout, TheRest, Outside, historyVars, TypeInv, SameVersion, FollowsDefault

LEMMA RecordCommitTyped == ASSUME TypeInv, RecordCommit PROVE TypeInv'
<1>1. reported' \in Maybe \cup {ErrorText} /\ pc' \in Steps
  BY DEF RecordCommit, Commit, TypeInv, Clones, Steps
<1>2. moves' \in 0 .. MaxMoves
  BY CommitsAssumption DEF RecordCommit, TypeInv, Answered, Unanswered
<1> QED BY <1>1, <1>2 DEF RecordCommit, TheRest, Outside, TypeInv, SameVersion, FollowsDefault

LEMMA UpdateVersionTyped == ASSUME TypeInv, UpdateVersion PROVE TypeInv'
<1>1. /\ UNCHANGED <<remote, project, sent, version, seen, repo, default, reported, historyVars>>
      /\ pc' = "idle" /\ pc' \in Steps
  BY DEF UpdateVersion, Steps
<1>2. moves' \in 0 .. MaxMoves
  BY CommitsAssumption DEF UpdateVersion, TypeInv
<1>3. CASE row' = row
  BY <1>1, <1>2, <1>3 DEF historyVars, TypeInv, SameVersion, FollowsDefault
<1>4. CASE row' # row
  <2>1. default # Unnamed /\ row' = [row EXCEPT !.identifier = default, !.type = "branch"]
    BY <1>4 DEF UpdateVersion, LatestTarget
  <2>2. row \in Rows /\ row.machine /\ default \in Identifiers
    BY <2>1 DEF TypeInv, IsVersion, SameVersion, FollowsDefault
  <2>3. row' \in Rows /\ row'.machine /\ row'.slug = row.slug /\ row'.name = row.name
        /\ row'.type = "branch"
    BY <2>1, <2>2 DEF Rows
  <2>4. row'.machine = row.machine
    BY <2>1, <2>2 DEF Rows
  <2>5. IsVersion(row')
    BY <2>3 DEF IsVersion
  <2> QED BY <1>1, <1>2, <2>3, <2>4, <2>5 DEF historyVars, TypeInv, SameVersion, FollowsDefault
<1> QED BY <1>3, <1>4

LEMMA BuildFailsTyped == ASSUME TypeInv, BuildFails PROVE TypeInv'
<1>1. pc' \in Steps /\ moves' \in 0 .. MaxMoves
  BY CommitsAssumption DEF BuildFails, FailBuild, Steps, TypeInv
<1> QED BY <1>1 DEF BuildFails, historyVars, TypeInv, SameVersion, FollowsDefault

LEMMA WebTyped == ASSUME TypeInv, ApplySync \/ PullRequestUpdated PROVE TypeInv'
<1>1. UNCHANGED <<remote, project, pc, version, seen, repo, default, reported, moves, got, pointed>>
  BY DEF ApplySync, PullRequestUpdated, WebOnly, buildVars, historyVars
<1>2. sent' \subseteq [Tags -> Maybe]
  BY DEF ApplySync, PullRequestUpdated, TypeInv
<1>3. IsVersion(row') /\ SameVersion'
  <2>1. CASE row' = row
    BY <1>1, <2>1 DEF TypeInv, SameVersion, FollowsDefault
  <2>2. CASE PullRequestUpdated
    <3>1. remote.pull \in Commits /\ row.type = "external" /\ ~row.machine
      BY <2>2 DEF TypeInv, Remotes, PullRequestUpdated, IsVersion
    <3> QED BY <1>1, <2>2, <3>1, RowStaysVersion DEF PullRequestUpdated
  <2>3. CASE row' # row /\ ApplySync
    <3>1. PICK tags \in sent : /\ row.type = "tag" /\ ~row.machine /\ tags[row.name] # NoCommit
                               /\ RowTo(Hash(tags[row.name]))
      BY <2>3 DEF ApplySync
    <3>2. tags[row.name] \in Commits
      BY <3>1 DEF TypeInv, IsVersion, Maybe
    <3> QED BY <1>1, <3>1, <3>2, RowStaysVersion
  <2> QED BY <2>1, <2>2, <2>3
<1> QED BY <1>1, <1>2, <1>3 DEF TypeInv

LEMMA TypeStep == ASSUME TypeInv, [Next]_vars PROVE TypeInv'
<1>1. CASE UNCHANGED vars
  BY <1>1 DEF vars, buildVars, historyVars, TypeInv, SameVersion, FollowsDefault
<1>2. CASE Build
  BY <1>2, FetchVersionTyped, SyncVersionsTyped, SparseCloneTyped, CloneTyped, CustomCheckoutTyped,
     FetchRefTyped, DetectDefaultBranchTyped, CheckoutTyped, LoadConfigTyped, PostCheckoutTyped,
     RecordCommitTyped, UpdateVersionTyped DEF Build
<1> QED BY <1>1, <1>2, BuildFailsTyped, MoveRemoteTyped, WebTyped DEF Next

-----------------------------------------------------------------------------
(* Steps that leave the build alone, and what no step of it changes        *)

BuildStays == UNCHANGED <<project, pc, version, seen, repo, chosen, default, reported, inStep, mute, got>>

LEMMA RefsStay ==
  ASSUME UNCHANGED <<version, project>>
  PROVE  /\ RunnerRef' = RunnerRef /\ WorkerRef' = WorkerRef /\ FollowsDefault' = FollowsDefault
         /\ remote' = remote => /\ Resolve(RunnerRef)' = Resolve(RunnerRef)
                                /\ Resolve(WorkerRef)' = Resolve(WorkerRef)
<1>1. RunnerRef' = RunnerRef /\ WorkerRef' = WorkerRef /\ FollowsDefault' = FollowsDefault
  BY DEF RunnerRef, WorkerRef, FollowsDefault
<1>2. ASSUME remote' = remote PROVE Resolve(RunnerRef)' = Resolve(RunnerRef)
  BY <1>1, <1>2 DEF Resolve, Tips
<1>3. ASSUME remote' = remote PROVE Resolve(WorkerRef)' = Resolve(WorkerRef)
  BY <1>1, <1>3 DEF Resolve, Tips
<1> QED BY <1>1, <1>2, <1>3

(* The moves of the others, and the end of a build                         *)
LEMMA OthersStay ==
  ASSUME MoveRemote \/ ApplySync \/ PullRequestUpdated \/ UNCHANGED vars
  PROVE  BuildStays
BY DEF MoveRemote, ApplySync, PullRequestUpdated, WebOnly, vars, buildVars, historyVars, BuildStays

(* The steps of a build but the first leave the rest of the world alone    *)
LEMMA BuildIs ==
  ASSUME Build \/ BuildFails, ~FetchVersion
  PROVE  UNCHANGED <<remote, project, version, still, inStep, pointed>>
<1>1. CASE SyncVersions \/ SparseClone
  BY <1>1 DEF SyncVersions, SparseClone, Outside, historyVars
<1>2. CASE Clone \/ CustomCheckout \/ FetchRef \/ DetectDefaultBranch
  BY <1>2 DEF Clone, CustomCheckout, FetchRef, DetectDefaultBranch, TheRest, Outside, historyVars
<1>3. CASE Checkout \/ LoadConfig \/ PostCheckout \/ RecordCommit
  BY <1>3 DEF Checkout, LoadConfig, PostCheckout, RecordCommit, TheRest, Outside, historyVars
<1>4. CASE UpdateVersion \/ BuildFails
  BY <1>4 DEF UpdateVersion, BuildFails, historyVars
<1> QED BY <1>1, <1>2, <1>3, <1>4 DEF Build

-----------------------------------------------------------------------------
(* The runner's clone *)

LEMMA RefStaysFetched ==
  ASSUME RefFetched, UNCHANGED <<version, project, repo, got>>
  PROVE  RefFetched'
BY RefsStay DEF RefFetched

LEMMA FetchRefClones ==
  ASSUME TypeInv, CloneInv, FetchRef, ~project.custom, pc' = "default"
  PROVE  RefFetched' /\ repo'.default = repo.default /\ repo'.head = repo.head
<1> DEFINE ref == RunnerRef
           c == Resolve(IF ref = NoRef THEN Branch(repo.default) ELSE ref)
<1>1. /\ c \in Commits /\ repo' = Fetched(ref, c)
      /\ got' = IF ref \in {HEAD, NoRef} THEN got ELSE c
  BY FetchRefIs
<1>2. pc = "fetch" /\ UNCHANGED <<version, project>>
  BY DEF FetchRef, TheRest, Outside
<1>3. c # NoCommit /\ remote \in Remotes
  BY <1>1, CommitsAssumption DEF NoCommit, TypeInv
<1>4. got = repo.head /\ \A b \in Branches \ {repo.default} : repo.origin[b] = NoCommit
  BY <1>2 DEF CloneInv
<1>5. ref.kind = "branch" => ref.at.name \in Branches
  BY <1>3, ResolveIs, RefIs
<1>6. ref.kind = "tag" => ref.at.name \in Tags
  BY <1>3, ResolveIs, RefIs
<1>7. ref.kind = "hash" => ref.at.hash = c
  BY <1>3, ResolveIs, RefIs
<1>8. ref.kind \in {"branch", "tag", "hash"} => ref \notin {HEAD, NoRef}
  BY RefIs
<1> HIDE DEF c
<1>9. ref' = ref
  BY <1>2, RefsStay
<1> HIDE DEF ref
<1>10. /\ repo'.head = repo.head /\ repo'.default = repo.default
       /\ ref.kind = "branch" => \A b \in Branches :
              repo'.origin[b] = IF b = ref.at.name THEN c ELSE repo.origin[b]
       /\ ref.kind = "tag" /\ ref.at.name \in Tags => repo'.tags[ref.at.name] = c
       /\ ref = NoRef => \A b \in Branches \ {repo.default} : repo'.origin[b] = repo.origin[b]
       /\ ref.kind # "branch" /\ ref # NoRef => repo'.origin = repo.origin
  BY <1>1, FetchedIs
<1>11. \A b \in Branches : repo'.origin[b] # NoCommit =>
         b = repo'.default \/ (ref.kind = "branch" /\ b = ref.at.name)
  BY <1>4, <1>10
<1>12. RefFetched'
  BY <1>1, <1>3, <1>4, <1>5, <1>6, <1>7, <1>8, <1>9, <1>10, <1>11 DEF RefFetched, ref
<1> QED BY <1>10, <1>12

LEMMA CloneStep == ASSUME TypeInv, TypeInv', CloneInv, [Next]_vars PROVE CloneInv'
<1> USE RefStaysFetched, RefsStay
<1>1. CASE MoveRemote \/ ApplySync \/ PullRequestUpdated \/ UNCHANGED vars
  BY <1>1, OthersStay DEF BuildStays, CloneInv
<1>2. CASE pc' \in {"idle", "sync", "bootstrap", "clone"}
  BY <1>2 DEF CloneInv, Cloned
<1>3. CASE CustomCheckout
  BY <1>3 DEF CustomCheckout, TheRest, Outside, CloneInv
<1>4. CASE Clone
  <2>1. remote.head \in Branches /\ remote.branch[remote.head] # NoCommit
    BY DEF TypeInv, Remotes
  <2>2. /\ repo'.default = remote.head /\ repo'.head = remote.branch[remote.head] /\ got' = repo'.head
        /\ repo'.origin = [EmptyClone.origin EXCEPT ![remote.head] = remote.branch[remote.head]]
        /\ pc' = "fetch"
    BY <1>4 DEF Clone
  <2>3. \A b \in Branches \ {remote.head} : repo'.origin[b] = NoCommit
    BY <2>2 DEF EmptyClone
  <2> QED BY <2>1, <2>2, <2>3 DEF CloneInv
<1>5. CASE FetchRef /\ pc' = "default"
  <2>1. pc = "fetch" /\ project' = project
    BY <1>5 DEF FetchRef, TheRest, Outside
  <2> QED BY <1>5, <2>1, FetchRefClones DEF CloneInv, Cloned
<1>6. CASE DetectDefaultBranch
  <2>1. pc = "default" /\ UNCHANGED <<version, project, repo, got>>
    BY <1>6 DEF DetectDefaultBranch, TheRest, Outside
  <2>2. pc' = "load" \/ (pc' = "checkout" /\ ~FollowsDefault)
    BY <1>6 DEF DetectDefaultBranch
  <2> QED BY <2>1, <2>2 DEF CloneInv, Cloned
<1>7. CASE Checkout /\ pc' # "idle"
  <2>1. PICK c : pc' = "load" /\ ~(c = NoCommit /\ ~project.custom)
                 /\ repo' = [repo EXCEPT !.head = c]
    BY <1>7 DEF Checkout, FailBuild
  <2>2. pc = "checkout" /\ project' = project
    BY <1>7 DEF Checkout, TheRest, Outside
  <2>3. repo'.head = c /\ repo'.default = repo.default
    BY <2>1 DEF TypeInv, Clones
  <2> QED BY <2>1, <2>2, <2>3 DEF CloneInv, Cloned
<1>8. CASE LoadConfig \/ RecordCommit
  BY <1>8 DEF LoadConfig, RecordCommit, FailBuild, TheRest, Outside, CloneInv, Cloned
<1>9. CASE PostCheckout
  <2>1. PICK c \in {repo.head} \cup (IF project.hooks THEN repo.objects ELSE {}) :
          repo' = [repo EXCEPT !.head = c]
    BY <1>9 DEF PostCheckout
  <2>2. pc = "hooks" /\ pc' = "commit" /\ project' = project
    BY <1>9 DEF PostCheckout, TheRest, Outside
  <2>3. repo'.head = c /\ repo'.default = repo.default /\ NoCommit \notin repo.objects
    BY <2>1, CommitsAssumption DEF TypeInv, Clones, NoCommit
  <2> QED BY <2>1, <2>2, <2>3 DEF CloneInv, Cloned
<1>10. CASE FetchVersion \/ SyncVersions \/ SparseClone \/ UpdateVersion \/ BuildFails
  BY <1>2, <1>10 DEF FetchVersion, SyncVersions, SparseClone, UpdateVersion, BuildFails, FailBuild
<1>11. CASE FetchRef /\ pc' # "default"
  BY <1>2, <1>11 DEF FetchRef, FailBuild
<1> QED BY <1>1, <1>2, <1>3, <1>4, <1>5, <1>6, <1>7, <1>8, <1>9, <1>10, <1>11 DEF Next, Build

-----------------------------------------------------------------------------
(* What a checkout finds *)

(* What the runner asked for, by the kind of version, when it is not the   *)
(* branch that latest follows: the two looks ask for the same, except for  *)
(* a pull request                                                          *)
LEMMA RunnerRefIs ==
  ASSUME TypeInv, ~FollowsDefault
  PROVE  LET v == version
         IN  /\ v.type = "branch" /\ ~v.machine => RunnerRef = Branch(v.name) /\ WorkerRef = RunnerRef
             /\ v.type = "branch" /\ v.machine =>
                  IF v.identifier = Unnamed THEN RunnerRef = NoRef /\ WorkerRef = HEAD
                  ELSE RunnerRef = Branch(v.identifier.name) /\ WorkerRef = RunnerRef
             /\ v.type = "tag" /\ ~v.machine => RunnerRef = Tag(v.name) /\ WorkerRef = RunnerRef
             /\ v.type = "tag" /\ v.machine =>
                  /\ RunnerRef = IF v.slug = "stable" THEN Exact(v.identifier) ELSE Tag(v.identifier.name)
                  /\ WorkerRef = RunnerRef
             /\ v.type = "external" /\ project.host # "elsewhere" => WorkerRef = Pull
<1>1. IsVersion(version)
  BY DEF TypeInv
<1>2. (project.host = "exact") \in BOOLEAN /\ (project.host # "elsewhere") \in BOOLEAN
  OBVIOUS
<1>3. RunnerRef = RefspecOf(version, project.host = "exact")
  BY DEF RunnerRef
<1>4. WorkerRef = IF RefspecOf(version, project.host # "elsewhere") = NoRef THEN HEAD
                  ELSE RefspecOf(version, project.host # "elsewhere")
  BY DEF WorkerRef
<1> DEFINE near == RefspecOf(version, project.host = "exact")
           far  == RefspecOf(version, project.host # "elsewhere")
<1>5. CASE version.type = "branch" /\ ~version.machine
  <2>1. near = Branch(version.name) /\ far = Branch(version.name)
    BY <1>1, <1>2, <1>5, RefspecIs
  <2> QED BY <1>3, <1>4, <1>5, <2>1, RefIs
<1>6. CASE version.type = "branch" /\ version.machine
  <2>1. /\ near = IF version.identifier = Unnamed THEN NoRef ELSE Branch(version.identifier.name)
        /\ far = near
    BY <1>1, <1>2, <1>6, RefspecIs
  <2> QED BY <1>3, <1>4, <1>6, <2>1, RefIs
<1>7. CASE version.type = "tag" /\ ~version.machine
  <2>1. near = Tag(version.name) /\ far = near
    BY <1>1, <1>2, <1>7, RefspecIs
  <2> QED BY <1>3, <1>4, <1>7, <2>1, RefIs
<1>8. CASE version.type = "tag" /\ version.machine
  <2>1. /\ near = IF version.slug = "stable" THEN Exact(version.identifier) ELSE Tag(version.identifier.name)
        /\ far = near
    BY <1>1, <1>2, <1>8, RefspecIs
  <2> QED BY <1>3, <1>4, <1>8, <2>1, RefIs
<1>9. CASE version.type = "external"
  <2>1. project.host # "elsewhere" => far = Pull
    BY <1>1, <1>2, <1>9, RefspecIs
  <2> QED BY <1>4, <1>9, <2>1, RefIs
<1>10. version.type \in {"branch", "tag", "external"} /\ version.machine \in BOOLEAN
  BY <1>1 DEF IsVersion, Rows
<1> QED BY <1>5, <1>6, <1>7, <1>8, <1>9, <1>10

(* The kinds of versions, and what each says of its identifier             *)
LEMMA VersionIs ==
  ASSUME TypeInv
  PROVE  /\ \/ version.type = "branch" /\ ~version.machine /\ version.identifier = Named(version.name)
            \/ version.type = "branch" /\ version.machine
            \/ /\ version.type = "tag" /\ ~version.machine /\ version.identifier.hash # NoCommit
               /\ version.name \in Tags
            \/ version.type = "tag" /\ version.machine
            \/ version.type = "external" /\ ~version.machine /\ version.identifier.hash # NoCommit
         /\ version.identifier.hash # NoCommit => version.identifier = Hash(version.identifier.hash)
         /\ version.identifier.hash = NoCommit => version.identifier = Named(version.identifier.name)
<1>1. version.type \in {"branch", "tag", "external"} /\ version.machine \in BOOLEAN
      /\ version.identifier \in Identifiers
  BY DEF TypeInv, IsVersion, Rows
<1> QED BY <1>1, IdentifierIs DEF TypeInv, IsVersion

LEMMA CheckoutFinds ==
  ASSUME TypeInv, CloneInv, pc = "checkout", ~project.custom, NEW answered \in BOOLEAN,
         CheckoutTarget(answered) # NoCommit
  PROVE  \/ CheckoutTarget(answered) = got
         \/ version.identifier = Hash(CheckoutTarget(answered))
         \/ ~answered \/ Ambiguous
<1> DEFINE c == CheckoutTarget(answered)
           id == version.identifier
<1>1. RefFetched /\ ~FollowsDefault /\ repo.head # NoCommit
  BY DEF CloneInv, Cloned
<1>2. "" \notin Branches \cup Tags
  BY RequestsAssumption
<1>3. CASE id = Unnamed
  <2>1. c = repo.head
    BY <1>3, NamesAndHashes DEF CheckoutTarget
  <2>2. id.name = "" /\ id.hash = NoCommit
    BY <1>3, NamesAndHashes
  <2>3. version.type = "branch" /\ ~version.machine => version.name = ""
    BY <1>3, <2>2, VersionIs, NamesAndHashes
  <2>4. RunnerRef \in {Branch(""), NoRef, Exact(id), Tag("")}
    <3>1. CASE version.type = "branch" /\ ~version.machine
      BY <1>1, <2>3, <3>1, RunnerRefIs
    <3>2. CASE version.type = "branch" /\ version.machine
      BY <1>1, <1>3, <3>2, RunnerRefIs
    <3>3. CASE version.type = "tag" /\ version.machine
      BY <1>1, <2>2, <3>3, RunnerRefIs
    <3> QED BY <2>2, <3>1, <3>2, <3>3, VersionIs
  <2> DEFINE ref == RunnerRef
  <2>5. /\ ref.kind = "branch" => ref.at.name # ""
        /\ ref.kind = "tag" => ref.at.name # ""
        /\ ref.kind = "hash" => ref.at.hash # NoCommit
    BY <1>1, <1>2 DEF RefFetched
  <2> HIDE DEF ref
  <2>6. ref # Branch("") /\ ref # Tag("") /\ ref # Exact(id)
    <3>1. Branch("").kind = "branch" /\ Branch("").at.name = ""
      BY RefIs
    <3>2. Tag("").kind = "tag" /\ Tag("").at.name = ""
      BY RefIs
    <3>3. Exact(id).kind = "hash" /\ Exact(id).at.hash = NoCommit
      BY <2>2, RefIs
    <3> QED BY <2>5, <3>1, <3>2, <3>3
  <2>7. RunnerRef = NoRef
    BY <2>4, <2>6 DEF ref
  <2> QED BY <1>1, <2>1, <2>7 DEF RefFetched
<1>4. CASE id # Unnamed /\ id.hash # NoCommit
  <2>1. c = id.hash
    BY <1>4 DEF CheckoutTarget
  <2> QED BY <1>4, <2>1, VersionIs
<1>5. CASE id # Unnamed /\ id.hash = NoCommit /\ answered
  <2> DEFINE n == id.name
  <2>1. c = IF n \in Branches /\ repo.origin[n] # NoCommit THEN repo.origin[n] ELSE LocalRef(n)
    BY <1>5 DEF CheckoutTarget, FindRef
  <2>2. id = Named(n)
    BY <1>5, VersionIs
  <2>3. CASE version.type = "branch"
    <3>1. RunnerRef = Branch(n)
      BY <1>1, <1>5, <2>2, <2>3, RunnerRefIs, VersionIs, NamesAndHashes
    <3>2. n \in Branches /\ got # NoCommit /\ repo.origin[n] = got
      BY <1>1, <3>1, RefIs DEF RefFetched
    <3> QED BY <2>1, <3>2
  <2>4. CASE version.type # "branch"
    <3>1. version.type = "tag" /\ version.machine
      BY <1>5, <2>4, VersionIs
    <3>2. RunnerRef = Tag(n)
      BY <1>1, <1>5, <3>1, RunnerRefIs, RefIs DEF RefFetched
    <3>3. n \in Tags /\ repo.tags[n] = got
      BY <1>1, <3>2, RefIs DEF RefFetched
    <3>4. CASE n = repo.default
      BY <2>2, <3>1, <3>4 DEF Ambiguous
    <3>5. CASE n # repo.default
      <4>1. ~(n \in Branches /\ repo.origin[n] # NoCommit)
        BY <1>1, <3>2, <3>5, RefIs DEF RefFetched
      <4> QED BY <2>1, <3>3, <3>5, <4>1 DEF LocalRef
    <3> QED BY <3>4, <3>5
  <2> QED BY <2>3, <2>4
<1> QED BY <1>3, <1>4, <1>5

(* A step of git checkout that lets the build go on                        *)
LEMMA CheckoutIs ==
  ASSUME TypeInv, CloneInv, Checkout, pc' # "idle", ~project.custom
  PROVE  /\ pc = "checkout" /\ pc' = "load" /\ repo'.default = repo.default
         /\ UNCHANGED <<seen, version, project, remote, got, still, inStep, pointed, chosen>>
         /\ \E answered \in BOOLEAN :
              /\ repo'.head = CheckoutTarget(answered) /\ repo'.head # NoCommit
              /\ mute' = IF answered THEN mute ELSE mute \cup {"show-ref"}
              /\ \/ repo'.head = got \/ version.identifier = Hash(repo'.head)
                 \/ ~answered \/ Ambiguous
<1>1. PICK answered \in BOOLEAN :
        /\ IF CheckoutTarget(answered) = NoCommit /\ ~project.custom
           THEN FailBuild /\ UNCHANGED repo
           ELSE pc' = "load" /\ repo' = [repo EXCEPT !.head = CheckoutTarget(answered)]
        /\ IF answered THEN Answered ELSE Unanswered("show-ref")
  BY DEF Checkout
<1>2. pc' = "load" /\ repo' = [repo EXCEPT !.head = CheckoutTarget(answered)]
      /\ CheckoutTarget(answered) # NoCommit
  BY <1>1 DEF FailBuild
<1>3. repo'.head = CheckoutTarget(answered) /\ repo'.default = repo.default
  BY <1>2 DEF TypeInv, Clones
<1>4. pc = "checkout"
  BY DEF Checkout
<1>5. mute' = IF answered THEN mute ELSE mute \cup {"show-ref"}
  BY <1>1 DEF Answered, Unanswered
<1>6. UNCHANGED <<seen, version, project, remote, got, still, inStep, pointed, chosen>>
  BY DEF Checkout, TheRest, Outside
<1>7. \/ repo'.head = got \/ version.identifier = Hash(repo'.head)
      \/ ~answered \/ Ambiguous
  BY <1>2, <1>3, <1>4, CheckoutFinds
<1> QED BY <1>2, <1>3, <1>4, <1>5, <1>6, <1>7

-----------------------------------------------------------------------------
(* What is built, and what is reported *)

LEMMA BuiltStep == ASSUME TypeInv, CloneInv, BuiltInv, [Next]_vars PROVE BuiltInv'
<1>1. CASE MoveRemote \/ ApplySync \/ PullRequestUpdated \/ UNCHANGED vars
  BY <1>1, OthersStay DEF BuildStays, BuiltInv, BuiltFromTheFetch, CommitIsWhatIsBuilt, Ambiguous
<1>2. CASE pc' \notin {"load", "hooks", "publish"}
  BY <1>2 DEF BuiltInv, BuiltFromTheFetch, CommitIsWhatIsBuilt
<1>3. CASE DetectDefaultBranch /\ pc' = "load"
  <2>1. FollowsDefault /\ pc = "default" /\ UNCHANGED <<repo, got, project>>
    BY <1>3 DEF DetectDefaultBranch, TheRest, Outside
  <2>2. ~project.custom => got = repo.head
    BY <2>1 DEF CloneInv, RefFetched, RunnerRef
  <2> QED BY <1>3, <2>1, <2>2 DEF BuiltInv, BuiltFromTheFetch, CommitIsWhatIsBuilt
<1>4. CASE Checkout /\ pc' # "idle"
  <2>1. project' = project /\ pc' = "load"
    BY <1>4 DEF Checkout, FailBuild, TheRest, Outside
  <2>2. CASE project.custom
    BY <2>1, <2>2 DEF BuiltInv, BuiltFromTheFetch, CommitIsWhatIsBuilt
  <2>3. CASE ~project.custom
    BY <1>4, <2>1, <2>3, CheckoutIs DEF BuiltInv, BuiltFromTheFetch, CommitIsWhatIsBuilt, Ambiguous
  <2> QED BY <2>2, <2>3
<1>5. CASE LoadConfig /\ pc' # "idle"
  <2>1. pc = "load" /\ pc' = "hooks" /\ UNCHANGED <<repo, got, project, version, mute>>
    BY <1>5 DEF LoadConfig, FailBuild, TheRest, Outside, historyVars
  <2> QED BY <2>1 DEF BuiltInv, BuiltFromTheFetch, CommitIsWhatIsBuilt, Ambiguous
<1>6. CASE RecordCommit
  <2>1. pc = "commit" /\ pc' = "publish" /\ UNCHANGED <<repo, project>>
    BY <1>6 DEF RecordCommit, TheRest, Outside
  <2>2. reported' = Commit \/ (reported' = ErrorText /\ "rev-parse" \in mute')
    BY <1>6 DEF RecordCommit, Unanswered
  <2>3. Commit = repo.head \/ (Commit = ErrorText /\ project.custom)
    BY <2>1 DEF Commit, CloneInv, Cloned
  <2> QED BY <2>1, <2>2, <2>3 DEF BuiltInv, BuiltFromTheFetch, CommitIsWhatIsBuilt
<1>7. ASSUME FetchVersion \/ SyncVersions \/ SparseClone \/ Clone \/ CustomCheckout \/ FetchRef
             \/ PostCheckout \/ UpdateVersion \/ BuildFails
      PROVE  pc' \notin {"load", "hooks", "publish"}
  BY <1>7 DEF FetchVersion, SyncVersions, SparseClone, Clone, CustomCheckout, FetchRef, PostCheckout,
              UpdateVersion, BuildFails, FailBuild
<1>8. DetectDefaultBranch => pc' = "load" \/ pc' \notin {"load", "hooks", "publish"}
  BY DEF DetectDefaultBranch
<1>9. (Checkout \/ LoadConfig) /\ pc' = "idle" => pc' \notin {"load", "hooks", "publish"}
  OBVIOUS
<1>10. CASE BuildFails \/ Build
  BY <1>2, <1>3, <1>4, <1>5, <1>6, <1>7, <1>8, <1>9, <1>10 DEF Build
<1> QED BY <1>1, <1>10 DEF Next

-----------------------------------------------------------------------------
(* Where branches have pointed *)

LEMMA PointedStep ==
  ASSUME TypeInv, TypeInv', CloneInv, PointedInv, [Next]_vars
  PROVE  PointedInv'
<1> USE RefsStay
<1>1. CASE MoveRemote
  <2>1. BuildStays /\ pointed' = [b \in Branches |-> pointed[b] \cup {remote'.branch[b]}]
    BY <1>1, OthersStay DEF MoveRemote
  <2>2. ~project.custom /\ pc \in Cloned => repo.default \in Branches
    BY DEF CloneInv
  <2> QED BY <2>1, <2>2 DEF BuildStays, PointedInv
<1>2. CASE ApplySync \/ PullRequestUpdated \/ UNCHANGED vars
  <2>1. UNCHANGED <<remote, pointed>>
    BY <1>2 DEF ApplySync, PullRequestUpdated, WebOnly, vars, historyVars
  <2> QED BY <1>2, <2>1, OthersStay DEF BuildStays, PointedInv
<1>3. CASE FetchVersion
  BY <1>3 DEF FetchVersion, Outside, PointedInv, Cloned
<1>4. CASE UpdateVersion \/ BuildFails
  <2>1. pc' = "idle" /\ UNCHANGED <<remote, pointed>>
    BY <1>4 DEF UpdateVersion, BuildFails, FailBuild, historyVars
  <2> QED BY <2>1 DEF PointedInv, Cloned
<1>5. CASE SyncVersions \/ SparseClone
  <2>1. /\ UNCHANGED <<remote, pointed, default>> /\ pc' \in {"idle", "bootstrap", "clone"}
        /\ pc \in {"sync", "bootstrap"}
    BY <1>5 DEF SyncVersions, SparseClone, FailBuild, Outside, historyVars
  <2> QED BY <2>1 DEF PointedInv, Cloned
<1>6. CASE Clone \/ CustomCheckout
  <2>1. UNCHANGED <<remote, pointed, default, project, version>> /\ pc = "clone"
    BY <1>6 DEF Clone, CustomCheckout, TheRest, Outside, historyVars
  <2>2. default = Unnamed
    BY <2>1 DEF PointedInv
  <2>3. CASE CustomCheckout
    BY <2>1, <2>2, <2>3 DEF CustomCheckout, PointedInv
  <2>4. CASE Clone
    <3>1. repo'.default = remote.head /\ got' = remote.branch[remote.head]
      BY <2>4 DEF Clone
    <3>2. remote.head \in Branches
      BY DEF TypeInv, Remotes
    <3> QED BY <2>1, <2>2, <3>1, <3>2 DEF PointedInv
  <2> QED BY <1>6, <2>3, <2>4
<1>7. CASE FetchRef
  <2>1. UNCHANGED <<remote, pointed, default, project, version, mute>> /\ pc = "fetch"
    BY <1>7 DEF FetchRef, TheRest, Outside
  <2>2. default = Unnamed
    BY <2>1 DEF PointedInv
  <2>3. pc' = "idle" \/ pc' = "default"
    BY <1>7 DEF FetchRef, FailBuild
  <2>4. FollowsDefault /\ pc' = "default" => got' = got /\ repo'.default = repo.default
    <3>1. FollowsDefault => RunnerRef = HEAD
      BY DEF RunnerRef
    <3> QED BY <1>7, <3>1, FetchRefIs, FetchedIs
  <2> QED BY <2>1, <2>2, <2>3, <2>4 DEF PointedInv, Cloned
<1>8. CASE DetectDefaultBranch
  <2>1. UNCHANGED <<remote, pointed, project, version, repo, got>> /\ pc = "default"
        /\ pc' \in {"load", "checkout"}
    BY <1>8 DEF DetectDefaultBranch, TheRest, Outside
  <2>2. FollowsDefault => default' = Named(repo.default) \/ "symbolic-ref" \in mute'
    BY <1>8 DEF DetectDefaultBranch, DefaultBranch, Unanswered
  <2> QED BY <2>1, <2>2 DEF PointedInv, Cloned
<1>9. CASE Checkout
  <2>1. UNCHANGED <<remote, pointed, project, version, got, default>> /\ pc = "checkout"
        /\ pc' \in {"load", "idle"} /\ (repo' = repo \/ \E c : repo' = [repo EXCEPT !.head = c])
        /\ mute \subseteq mute'
    BY <1>9 DEF Checkout, TheRest, Outside, FailBuild, Answered, Unanswered
  <2>2. repo'.default = repo.default
    BY <2>1 DEF TypeInv, Clones
  <2> QED BY <2>1, <2>2 DEF PointedInv, Cloned
<1>10. CASE LoadConfig \/ RecordCommit
  <2>1. UNCHANGED <<remote, pointed, project, version, got, default, repo>>
        /\ pc \in {"load", "commit"} /\ pc' \in {"hooks", "idle", "publish"} /\ mute \subseteq mute'
    BY <1>10 DEF LoadConfig, RecordCommit, TheRest, Outside, FailBuild, Answered, Unanswered, historyVars
  <2> QED BY <2>1 DEF PointedInv, Cloned
<1>11. CASE PostCheckout
  <2>1. UNCHANGED <<remote, pointed, project, version, got, default, mute>> /\ pc = "hooks"
        /\ pc' = "commit" /\ (\E c : repo' = [repo EXCEPT !.head = c])
    BY <1>11 DEF PostCheckout, TheRest, Outside, historyVars
  <2>2. repo'.default = repo.default
    BY <2>1 DEF TypeInv, Clones
  <2> QED BY <2>1, <2>2 DEF PointedInv, Cloned
<1> QED BY <1>1, <1>2, <1>3, <1>4, <1>5, <1>6, <1>7, <1>8, <1>9, <1>10, <1>11 DEF Next, Build

-----------------------------------------------------------------------------
(* The two looks, while nobody moves the remote *)

LEMMA VersionStaysInStep ==
  ASSUME VersionInStep, UNCHANGED <<remote, version, project>>
  PROVE  VersionInStep'
BY RefsStay DEF VersionInStep

(* A step of the build that keeps what was seen, the clone and what was    *)
(* fetched, up to another position in the build                            *)
LEMMA SeenStays ==
  ASSUME SeenInv, UNCHANGED <<remote, project, version, still, inStep, seen>>,
         pc # "idle", pc' \in Read => pc \in Read,
         pc' \in {"fetch", "default", "checkout"} /\ ~project.custom =>
           UNCHANGED <<repo, got>> /\ pc \in {"default", "checkout"}
  PROVE  SeenInv'
<1>1. pc' \in Read => /\ seen'.commit \in Commits /\ seen'.file \in Files[seen'.commit]
                      /\ still => seen'.commit = Resolve(WorkerRef)
  BY DEF SeenInv
<1>2. still' /\ inStep' => VersionInStep'
  BY VersionStaysInStep DEF SeenInv
<1>3. ~project.custom /\ still =>
        /\ pc' \in {"fetch", "default", "checkout"} =>
             repo'.default = remote.head /\ repo'.head = remote.branch[remote.head]
        /\ pc' \in {"default", "checkout"} /\ RunnerRef \notin {HEAD, NoRef} => got' = Resolve(RunnerRef)
  BY DEF SeenInv
<1> QED BY <1>1, <1>2, <1>3, RefsStay DEF SeenInv

LEMMA RowIsInStep ==
  ASSUME TypeInv, RowInStep, UNCHANGED <<remote, project>>, version' = row
  PROVE  VersionInStep'
<1>1. row.type = "external" => ~row.machine
  BY DEF TypeInv, IsVersion
<1>2. CASE row.type = "tag" /\ ~row.machine
  <2>1. row.identifier = Hash(remote.tag[row.name])
    BY <1>2, <1>1 DEF RowInStep
  <2> QED BY <1>2, <2>1 DEF VersionInStep, FollowsDefault
<1>3. CASE row.type = "external"
  <2>1. row.identifier = Hash(remote.pull)
    BY <1>1, <1>3 DEF RowInStep
  <2> QED BY <1>1, <1>3, <2>1 DEF VersionInStep, FollowsDefault
<1>4. CASE row.machine
  <2>1. row.slug = "latest" /\ ~project.explicit => row.identifier \in {Unnamed, Named(remote.head)}
    BY <1>1, <1>4 DEF RowInStep
  <2> QED BY <1>1, <1>4, <2>1 DEF VersionInStep, FollowsDefault
<1>5. CASE row.type \notin {"tag", "external"} /\ ~row.machine
  BY <1>5 DEF VersionInStep, FollowsDefault
<1> QED BY <1>2, <1>3, <1>4, <1>5

LEMMA SeenStep == ASSUME TypeInv, TypeInv', CloneInv, SeenInv, [Next]_vars PROVE SeenInv'
<1>1. CASE MoveRemote
  <2>1. BuildStays /\ ~still'
    BY <1>1, OthersStay DEF MoveRemote
  <2> QED BY <2>1 DEF BuildStays, SeenInv
<1>2. CASE ApplySync \/ PullRequestUpdated \/ UNCHANGED vars
  <2>1. UNCHANGED <<remote, still>> /\ BuildStays
    BY <1>2, OthersStay DEF ApplySync, PullRequestUpdated, WebOnly, vars, historyVars
  <2> QED BY <2>1, RefsStay, VersionStaysInStep DEF BuildStays, SeenInv
<1>3. CASE FetchVersion
  <2>1. pc' = "sync" /\ version' = row /\ UNCHANGED <<remote, project>> /\ inStep' = RowInStep
    BY <1>3 DEF FetchVersion, Outside
  <2>2. inStep' => VersionInStep'
    BY <2>1, RowIsInStep
  <2> QED BY <2>1, <2>2 DEF SeenInv, Read, Cloned
<1>4. CASE SparseClone
  <2>1. UNCHANGED <<remote, project, version, still, inStep>> /\ pc # "idle"
    BY <1>4 DEF SparseClone, Outside, historyVars
  <2>2. \/ pc' = "idle"
        \/ /\ pc' = "clone" /\ seen'.commit = Resolve(WorkerRef) /\ seen'.commit \in Commits
           /\ seen'.file \in Files[seen'.commit]
    BY <1>4, SparseCloneIs
  <2> QED BY <2>1, <2>2, RefsStay, VersionStaysInStep DEF SeenInv, Read, Cloned
<1>5. CASE Clone
  <2>1. UNCHANGED <<remote, project, version, still, inStep, seen>> /\ pc = "clone" /\ pc' = "fetch"
    BY <1>5 DEF Clone, TheRest, Outside
  <2>2. repo'.default = remote.head /\ repo'.head = remote.branch[remote.head]
    BY <1>5 DEF Clone
  <2> QED BY <2>1, <2>2, RefsStay, VersionStaysInStep DEF SeenInv, Read, Cloned
<1>6. CASE CustomCheckout
  <2>1. UNCHANGED <<remote, project, version, still, inStep, seen>> /\ pc = "clone" /\ project.custom
    BY <1>6 DEF CustomCheckout, TheRest, Outside, historyVars
  <2> QED BY <2>1, SeenStays DEF Read
<1>7. CASE FetchRef
  <2>1. UNCHANGED <<remote, project, version, still, inStep, seen>> /\ pc = "fetch"
    BY <1>7 DEF FetchRef, TheRest, Outside
  <2>2. CASE pc' = "idle"
    BY <2>1, <2>2 DEF SeenInv, Read, Cloned
  <2>3. CASE pc' # "idle"
    <3> DEFINE c == Resolve(IF RunnerRef = NoRef THEN Branch(repo.default) ELSE RunnerRef)
    <3>1. /\ c \in Commits /\ pc' = "default" /\ repo' = Fetched(RunnerRef, c)
          /\ got' = IF RunnerRef \in {HEAD, NoRef} THEN got ELSE c
      BY <1>7, <2>3, FetchRefIs
    <3>2. RunnerRef \notin {HEAD, NoRef} => got' = Resolve(RunnerRef)
      BY <3>1
    <3> HIDE DEF c
    <3>3. repo'.default = repo.default /\ repo'.head = repo.head
      BY <3>1, FetchedIs
    <3> QED BY <2>1, <3>1, <3>2, <3>3, RefsStay, VersionStaysInStep DEF SeenInv, Read, Cloned
  <2> QED BY <2>2, <2>3
<1>8. CASE DetectDefaultBranch
  <2>1. UNCHANGED <<remote, project, version, still, inStep, seen, repo, got>> /\ pc = "default"
    BY <1>8 DEF DetectDefaultBranch, TheRest, Outside
  <2> QED BY <2>1, SeenStays DEF Read, Cloned
<1>9. CASE Checkout \/ LoadConfig \/ PostCheckout \/ RecordCommit
  <2>1. UNCHANGED <<remote, project, version, still, inStep, seen>> /\ pc # "idle" /\ pc \in Read
        /\ pc' \notin {"fetch", "default", "checkout"}
    BY <1>9 DEF Checkout, LoadConfig, PostCheckout, RecordCommit, FailBuild, TheRest, Outside,
                historyVars, Read, Cloned
  <2> QED BY <2>1, SeenStays
<1>10. CASE UpdateVersion \/ BuildFails
  BY <1>10 DEF UpdateVersion, BuildFails, FailBuild, SeenInv, Read, Cloned
<1>11. CASE SyncVersions
  <2>1. UNCHANGED <<remote, project, version, still, inStep, seen>> /\ pc = "sync"
        /\ pc' \in {"idle", "bootstrap"}
    BY <1>11 DEF SyncVersions, FailBuild, Outside, historyVars
  <2> QED BY <2>1, SeenStays DEF Read, Cloned
<1> QED BY <1>1, <1>2, <1>3, <1>4, <1>5, <1>6, <1>7, <1>8, <1>9, <1>10, <1>11 DEF Next, Build

(* When latest follows the default branch                                  *)
LEMMA DefaultIsSeen ==
  ASSUME TypeInv, CloneInv, SeenInv, DetectDefaultBranch, pc' = "load", Agreeing
  PROVE  seen.commit = repo.head
<1>1. pc = "default" /\ FollowsDefault
  BY DEF DetectDefaultBranch
<1>2. /\ version.identifier \in {Unnamed, Named(remote.head)}
      /\ seen.commit \in Commits /\ seen.commit = Resolve(WorkerRef)
      /\ repo.default = remote.head /\ repo.head = remote.branch[remote.head]
  BY <1>1 DEF SeenInv, Agreeing, Read, Cloned, VersionInStep
<1>3. /\ remote \in Remotes /\ remote.head \in Branches /\ "" \notin Branches \cup Tags
      /\ seen.commit # NoCommit
  BY <1>2, RequestsAssumption, CommitsAssumption DEF TypeInv, Remotes, NoCommit
<1>4. version.machine /\ version.slug = "latest"
  BY <1>1 DEF FollowsDefault
<1> DEFINE far == RefspecOf(version, project.host # "elsewhere")
<1>5. WorkerRef = IF far = NoRef THEN HEAD ELSE far
  BY DEF WorkerRef
<1>6. IsVersion(version) /\ (project.host # "elsewhere") \in BOOLEAN
  BY DEF TypeInv
<1>7. CASE version.type = "branch"
  <2>1. far = IF version.identifier = Unnamed THEN NoRef ELSE Branch(version.identifier.name)
    BY <1>4, <1>6, <1>7, RefspecIs
  <2>2. CASE version.identifier = Unnamed
    BY <1>2, <1>3, <1>5, <2>1, <2>2, ResolveIs
  <2>3. CASE version.identifier # Unnamed
    <3>1. version.identifier = Named(remote.head)
      BY <1>2, <2>3
    <3>2. version.identifier.name = remote.head
      BY <3>1, NamesAndHashes
    <3>3. WorkerRef = Branch(remote.head)
      BY <1>5, <2>1, <2>3, <3>2, RefIs
    <3>4. Resolve(Branch(remote.head)) = remote.branch[remote.head]
      BY <1>3, ResolveNamed
    <3> QED BY <1>2, <3>3, <3>4
  <2> QED BY <2>2, <2>3
<1>8. CASE version.type = "tag"
  <2>1. far = Tag(version.identifier.name)
    BY <1>4, <1>6, <1>8, RefspecIs
  <2>2. WorkerRef = Tag(version.identifier.name)
    BY <1>5, <2>1, RefIs
  <2>3. version.identifier # Named(remote.head)
    BY <1>2, <1>8 DEF Agreeing, Ambiguous
  <2>4. WorkerRef = Tag("")
    BY <1>2, <2>2, <2>3, NamesAndHashes
  <2>5. Resolve(Tag("")) = NoCommit
    BY <1>3, ResolveNamed
  <2> QED BY <1>2, <1>3, <2>4, <2>5
<1> QED BY <1>4, <1>6, <1>7, <1>8 DEF IsVersion, Rows

(* When it does not, or the version is another one                         *)
LEMMA CheckedOutIsSeen ==
  ASSUME TypeInv, CloneInv, SeenInv, pc = "checkout", Agreeing,
         CheckoutTarget(TRUE) # NoCommit
  PROVE  seen.commit = CheckoutTarget(TRUE)
<1> DEFINE c == CheckoutTarget(TRUE)
           id == version.identifier
<1>1. /\ VersionInStep /\ seen.commit = Resolve(WorkerRef) /\ seen.commit \in Commits
      /\ repo.head = remote.branch[remote.head]
      /\ RunnerRef \notin {HEAD, NoRef} => got = Resolve(RunnerRef)
  BY DEF SeenInv, Agreeing, Read, Cloned
<1>2. RefFetched /\ ~FollowsDefault /\ ~project.custom
  BY DEF CloneInv, Agreeing
<1>3. c = got \/ id = Hash(c)
  BY <1>2, CheckoutFinds DEF Agreeing
<1>4. remote \in Remotes /\ "" \notin Branches \cup Tags
  BY RequestsAssumption DEF TypeInv
<1>5. id = Unnamed => c = repo.head
  BY NamesAndHashes DEF CheckoutTarget
<1>6. id = Hash(c) => id.hash = c /\ id.name = ""
  BY NamesAndHashes
<1> DEFINE ref == RunnerRef
<1>7. /\ ref.kind = "branch" => ref.at.name # ""
      /\ ref.kind = "tag" => ref.at.name # ""
      /\ ref.kind = "hash" => ref.at.hash = got
  BY <1>2, <1>4 DEF RefFetched
<1> HIDE DEF c, ref
<1>8. CASE version.type = "branch" /\ ~version.machine
  <2>1. ref = Branch(version.name) /\ WorkerRef = ref /\ id.hash = NoCommit
    BY <1>2, <1>8, RunnerRefIs, VersionIs, NamesAndHashes DEF ref
  <2>2. c = got
    BY <1>3, <1>6, <2>1 DEF c
  <2> QED BY <1>1, <2>1, <2>2, RefIs DEF c, ref
<1>9. CASE version.type = "branch" /\ version.machine
  <2>1. CASE id = Unnamed
    <3>1. WorkerRef = HEAD
      BY <1>2, <1>9, <2>1, RunnerRefIs
    <3> QED BY <1>1, <1>4, <1>5, <2>1, <3>1, ResolveIs DEF c
  <2>2. CASE id # Unnamed
    <3>1. ref = Branch(id.name) /\ WorkerRef = ref
      BY <1>2, <1>9, <2>2, RunnerRefIs DEF ref
    <3>2. id.name # ""
      BY <1>7, <3>1, RefIs
    <3> QED BY <1>1, <1>3, <1>6, <3>1, <3>2, RefIs DEF c, ref
  <2> QED BY <2>1, <2>2
<1>10. CASE version.type = "tag" /\ ~version.machine
  <2>1. ref = Tag(version.name) /\ WorkerRef = ref /\ version.name \in Tags
    BY <1>2, <1>10, RunnerRefIs DEF ref, TypeInv, IsVersion
  <2>2. id.hash = remote.tag[version.name]
    BY <1>1, <1>10, NamesAndHashes DEF VersionInStep
  <2>3. Resolve(WorkerRef) = remote.tag[version.name]
    <3>1. Resolve(Tag(version.name)) = remote.tag[version.name]
      BY <1>4, <2>1, ResolveNamed
    <3> QED BY <2>1, <3>1
  <2> QED BY <1>1, <1>3, <1>6, <2>1, <2>2, <2>3, RefIs DEF c, ref
<1>11. CASE version.type = "tag" /\ version.machine
  <2>1. WorkerRef = ref /\ ref \in {Exact(id), Tag(id.name)}
    BY <1>2, <1>11, RunnerRefIs DEF ref
  <2>2. got = Resolve(WorkerRef)
    BY <1>1, <2>1, RefIs DEF ref
  <2>3. CASE ref = Exact(id)
    BY <1>1, <1>3, <1>6, <1>7, <2>2, <2>3, RefIs DEF c
  <2>4. CASE ref = Tag(id.name)
    <3>1. id.name # ""
      BY <1>7, <2>4, RefIs
    <3> QED BY <1>1, <1>3, <1>6, <2>2, <3>1 DEF c
  <2> QED BY <2>1, <2>3, <2>4
<1>12. CASE version.type = "external"
  <2>1. WorkerRef = Pull
    BY <1>2, <1>12, RunnerRefIs DEF Agreeing
  <2>2. id.hash = remote.pull /\ id.hash # NoCommit /\ id # Unnamed
    BY <1>1, <1>12, NamesAndHashes, VersionIs DEF VersionInStep
  <2>3. c = id.hash
    BY <1>2, <2>2 DEF CheckoutTarget, c
  <2> QED BY <1>1, <1>4, <2>1, <2>2, <2>3, ResolveIs DEF c
<1> QED BY <1>8, <1>9, <1>10, <1>11, <1>12, VersionIs

LEMMA AgreeStep ==
  ASSUME TypeInv, CloneInv, SeenInv, AgreeInv, [Next]_vars
  PROVE  AgreeInv'
<1>1. CASE MoveRemote
  <2>1. BuildStays /\ ~still'
    BY <1>1, OthersStay DEF MoveRemote
  <2> QED BY <2>1 DEF BuildStays, AgreeInv, Agreeing, FilesHere
<1>2. CASE ApplySync \/ PullRequestUpdated \/ UNCHANGED vars
  <2>1. still' = still /\ BuildStays
    BY <1>2, OthersStay DEF ApplySync, PullRequestUpdated, WebOnly, vars, historyVars
  <2> QED BY <2>1 DEF BuildStays, AgreeInv, Agreeing, FilesHere, Ambiguous
<1>3. CASE pc' \notin {"load", "hooks"}
  BY <1>3 DEF AgreeInv
<1>4. CASE DetectDefaultBranch /\ pc' = "load"
  <2>1. UNCHANGED <<remote, project, version, still, inStep, seen, repo>>
    BY <1>4 DEF DetectDefaultBranch, TheRest, Outside
  <2>2. mute \subseteq mute'
    BY <1>4 DEF DetectDefaultBranch, Answered, Unanswered
  <2>3. Agreeing' => Agreeing
    BY <2>1, <2>2 DEF Agreeing, Ambiguous
  <2> QED BY <1>4, <2>1, <2>3, DefaultIsSeen DEF AgreeInv
<1>5. CASE Checkout /\ pc' # "idle"
  <2>1. pc' = "load" /\ project' = project
    BY <1>5 DEF Checkout, FailBuild, TheRest, Outside
  <2>2. SUFFICES ASSUME Agreeing' PROVE (seen.commit = repo.head)'
    BY <2>1 DEF AgreeInv
  <2>3. ~project.custom
    BY <2>1, <2>2 DEF Agreeing
  <2>4. PICK answered \in BOOLEAN :
          /\ repo'.head = CheckoutTarget(answered) /\ repo'.head # NoCommit
          /\ mute' = IF answered THEN mute ELSE mute \cup {"show-ref"}
    BY <1>5, <2>3, CheckoutIs
  <2>5. answered /\ mute' = mute
    BY <2>2, <2>4 DEF Agreeing
  <2>6. /\ pc = "checkout" /\ repo'.default = repo.default
        /\ UNCHANGED <<seen, version, project, still, inStep>>
    BY <1>5, <2>3, CheckoutIs
  <2>7. Agreeing
    BY <2>2, <2>5, <2>6 DEF Agreeing, Ambiguous
  <2>8. answered = TRUE
    BY <2>5
  <2>9. repo'.head = CheckoutTarget(TRUE) /\ CheckoutTarget(TRUE) # NoCommit
    BY <2>4, <2>8
  <2> QED BY <2>6, <2>7, <2>9, CheckedOutIsSeen
<1>6. CASE LoadConfig /\ pc' # "idle"
  <2>1. /\ UNCHANGED <<remote, project, version, still, inStep, seen, repo, mute>>
        /\ pc = "load" /\ pc' = "hooks" /\ chosen' \in FilesHere
    BY <1>6 DEF LoadConfig, FailBuild, TheRest, Outside, historyVars
  <2>2. FilesHere' = FilesHere
    BY <2>1 DEF FilesHere
  <2> QED BY <2>1, <2>2 DEF AgreeInv, Agreeing, Ambiguous
<1>7. ASSUME FetchVersion \/ SyncVersions \/ SparseClone \/ Clone \/ CustomCheckout \/ FetchRef
             \/ PostCheckout \/ RecordCommit \/ UpdateVersion \/ BuildFails
      PROVE  pc' \notin {"load", "hooks"}
  BY <1>7 DEF FetchVersion, SyncVersions, SparseClone, Clone, CustomCheckout, FetchRef, PostCheckout,
              RecordCommit, UpdateVersion, BuildFails, FailBuild
<1>8. DetectDefaultBranch => pc' = "load" \/ pc' \notin {"load", "hooks"}
  BY DEF DetectDefaultBranch
<1>9. (Checkout \/ LoadConfig) /\ pc' = "idle" => pc' \notin {"load", "hooks"}
  OBVIOUS
<1>10. CASE BuildFails \/ Build
  BY <1>3, <1>4, <1>5, <1>6, <1>7, <1>8, <1>9, <1>10 DEF Build
<1> QED BY <1>1, <1>2, <1>10 DEF Next

-----------------------------------------------------------------------------
(* The invariant *)

LEMMA InitInv == Init => RefsInv
<1> SUFFICES ASSUME Init PROVE RefsInv
  OBVIOUS
<1>1. pc = "idle" /\ TypeInv
  BY InitTyped DEF Init
<1>2. \A b \in Branches : remote.branch[b] \in pointed[b]
  BY DEF Init
<1> QED BY <1>1, <1>2 DEF RefsInv, CloneInv, BuiltInv, BuiltFromTheFetch, CommitIsWhatIsBuilt,
           PointedInv, SeenInv, AgreeInv, Read, Cloned

LEMMA InvStep == ASSUME RefsInv, [Next]_vars PROVE RefsInv'
<1>1. TypeInv'
  BY TypeStep DEF RefsInv
<1>2. CloneInv'
  BY <1>1, CloneStep DEF RefsInv
<1>3. BuiltInv'
  BY BuiltStep DEF RefsInv
<1>4. PointedInv'
  BY <1>1, PointedStep DEF RefsInv
<1>5. SeenInv'
  BY <1>1, SeenStep DEF RefsInv
<1>6. AgreeInv'
  BY AgreeStep DEF RefsInv
<1> QED BY <1>1, <1>2, <1>3, <1>4, <1>5, <1>6 DEF RefsInv

(* RefsInv holds in every reachable state.                                 *)
LEMMA Invariance == Spec => []RefsInv
BY InitInv, InvStep, PTL DEF Spec

(* Every variable has its type, for every history of the repository.       *)
THEOREM RefsTypeCorrect == Spec => []RefsTypeOK
<1>1. ASSUME RefsInv PROVE RefsTypeOK
  <2>1. TypeInv
    BY <1>1 DEF RefsInv
  <2>2. {row.identifier, version.identifier, default} \subseteq Identifiers
    BY <2>1 DEF TypeInv, IsVersion, Rows
  <2>3. seen.commit \in Maybe
    BY <2>1 DEF TypeInv
  <2>4. {repo.head, repo.local, got} \subseteq Maybe /\ repo.objects \subseteq Commits
    BY <2>1 DEF TypeInv, Clones
  <2> QED BY <2>1, <2>2, <2>3, <2>4 DEF TypeInv, RefsTypeOK
<1> QED BY <1>1, Invariance, PTL

(* What is configured and built is what the runner's own fetch found       *)
(* (BuiltFromTheFetch), wherever the remote is moved meanwhile.            *)
THEOREM WhatIsFetchedIsBuilt == Spec => []BuiltFromTheFetch
<1>1. RefsInv => BuiltFromTheFetch
  BY DEF RefsInv, BuiltInv
<1> QED BY <1>1, Invariance, PTL

(* The commit recorded with a build is the one that was built, or the text *)
(* of an error (CommitIsWhatIsBuilt).                                      *)
THEOREM ReportedIsBuilt == Spec => []CommitIsWhatIsBuilt
<1>1. RefsInv => CommitIsWhatIsBuilt
  BY DEF RefsInv, BuiltInv
<1> QED BY <1>1, Invariance, PTL

(* The worker's sparse clone and the runner's checkout read the same file  *)
(* of the same commit (ConfigsAgree): two translations of the Version, one *)
(* by FETCH_HEAD and one by find_ref, name the same commit.                *)
THEOREM TheConfigsAgree == Spec => []ConfigsAgree
<1>1. ASSUME RefsInv PROVE ConfigsAgree
  <2> SUFFICES ASSUME pc = "hooks", Agreeing
               PROVE  seen.commit = repo.head /\ (seen.file # chosen => FilesHere # {chosen})
    BY DEF ConfigsAgree, Agreeing
  <2>1. /\ seen.commit = repo.head /\ seen.commit \in Commits /\ seen.file \in Files[seen.commit]
    BY <1>1 DEF RefsInv, AgreeInv, SeenInv, Read, Cloned
  <2>2. FilesHere = Files[seen.commit]
    BY <2>1, CommitsAssumption DEF FilesHere, NoCommit
  <2> QED BY <2>1, <2>2
<1> QED BY <1>1, Invariance, PTL

(* Only a build that ends changes the row and its own step at once, and it *)
(* names the branch whose tip it cloned (LatestNamesBuiltBranch).          *)
THEOREM LatestIsNamedRight == Spec => LatestNamesBuiltBranch
<1> DEFINE Right == row' # row /\ pc' # pc /\ "symbolic-ref" \notin mute /\ ~project.custom =>
                      \E b \in Branches : row'.identifier = Named(b) /\ got \in pointed[b]
<1>1. ASSUME RefsInv, [Next]_vars PROVE [Right]_vars
  <2> SUFFICES ASSUME row' # row, pc' # pc, "symbolic-ref" \notin mute, ~project.custom
               PROVE  \E b \in Branches : row'.identifier = Named(b) /\ got \in pointed[b]
    OBVIOUS
  <2>1. ~(MoveRemote \/ ApplySync \/ PullRequestUpdated \/ UNCHANGED vars)
    BY OthersStay DEF BuildStays
  <2>2. FetchVersion \/ SyncVersions \/ SparseClone \/ BuildFails => row' = row
    BY DEF FetchVersion, SyncVersions, SparseClone, BuildFails, Outside
  <2>3. Clone \/ CustomCheckout \/ FetchRef \/ DetectDefaultBranch \/ Checkout \/ LoadConfig
        \/ PostCheckout \/ RecordCommit => row' = row
    BY DEF Clone, CustomCheckout, FetchRef, DetectDefaultBranch, Checkout, LoadConfig, PostCheckout,
           RecordCommit, TheRest, Outside
  <2>4. UpdateVersion
    BY <1>1, <2>1, <2>2, <2>3 DEF Next, Build
  <2>5. /\ pc = "publish" /\ default # Unnamed
        /\ row' = [row EXCEPT !.identifier = default, !.type = "branch"]
    BY <2>4 DEF UpdateVersion, LatestTarget
  <2>6. row'.identifier = default
    BY <1>1, <2>5 DEF RefsInv, TypeInv, IsVersion, Rows
  <2>7. FollowsDefault
    BY <1>1, <2>5 DEF RefsInv, TypeInv, SameVersion
  <2>8. default = Named(repo.default) /\ got \in pointed[repo.default]
    BY <1>1, <2>5, <2>7 DEF RefsInv, PointedInv, Cloned
  <2>9. repo.default \in Branches
    BY <1>1, <2>5 DEF RefsInv, CloneInv, Cloned
  <2> QED BY <2>6, <2>8, <2>9
<1>2. Spec => [][Right]_vars
  BY <1>1, Invariance, PTL DEF Spec
<1> QED BY <1>2 DEF LatestNamesBuiltBranch
=============================================================================
