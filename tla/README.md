# A TLA+ model of readthedocs-builder

readthedocs-builder runs the documentation builds of Read the Docs: a Celery
task (`worker/`) takes a build from a queue, starts a container for it, and
runs the build (`builder/`) in it, telling the Read the Docs API what happens
as it goes. Each EC2 instance runs one build and is then let go.

This directory holds a model of that program in TLA+, the TLC configurations
that check it, and TLAPS proofs of every safety property. `PROJECT.json` lists the
components, the runs, the definition-to-source map, the hazards, a mutant for
every property and the results.

    tlc -workers 2 -config Runner.cfg MCRunner      # check one run
    tlapm RunnerProofs.tla                          # check one module of proofs

## 1. Inventory

### The parts and how they interact

| Part | Source | State it keeps | Operations |
|---|---|---|---|
| Worker task | `worker/tasks.py` | where it is, the exception on its way out, what it reports, the container, the instance | receive, protect, fetch, sync versions, sparse clone, start the container, arm the clock, run, disarm, report, stop, release, power off |
| Celery | `worker/celery.py` | the queue, who holds a message, soft and hard limit | deliver, acknowledge, redeliver, time out a message, lose the connection, interrupt, kill |
| Instance | `worker/instance.py` | up, protected, terminated, kept, off | protect, release, power off |
| Container | `worker/docker.py` | absent, present | create, start, remove |
| Entry point | `builder/entrypoint.py` | - | parse the payload, wipe the directory, make a runner |
| Runner | `builder/runner.py` | `_success`, `_state`, `_in_upload`, the artifacts validated | `run()`: reset, claim, states, the director's steps, validate, upload, finalize; signal handlers |
| Director | `builder/director.py` | the configuration, the tools, the environment | `setup_vcs`, `setup_environment`, `install_build_tools`, `build`, `run_build_commands`, `download_artifacts`, `extract_artifacts`, `check_old_output` |
| Commands | `builder/environments.py` | the record of the command under way, its exit code | create the record, run, update the record, judge |
| Git | `builder/vcs.py`, `refspec.py` | the checkout | clone, fetch, checkout, submodules, key probe |
| Worker's git | `worker/git.py`, `worker/config.py`, `lsremote.py` | a sparse clone | list, clone, find the configuration file |
| Language environments, doctools | `python_envs.py`, `backends/` | the environment, the output directories | create, install, build, package |
| Configuration | `builder/config/` | - | validate, doctype, environment |
| Storage | `storage.py`, `rclone.py` | the version's directories in a bucket | credentials, sync, delete, download |
| API | external | the Build record, notifications, command records, the Version | PATCH, POST, reset |

The task calls the entry point, which calls `Runner.run`; the runner calls the
director's steps in order, and each runs commands in the container. All of
them make requests to the API, which is the only thing a user sees. The
concurrency is not between threads: it is between this sequence of statements
and **signals** - SIGINT (revocation), SIGTERM, SIGALRM (the build's own time
limit) and Celery's soft limit - each of which raises an exception *wherever
the program happens to be*, the handlers and `finally` clauses included, and
between the task and the **environment**: an API whose answers get lost, a
broker that delivers twice, a bucket, a Docker daemon, git, and the commands of
the user, which may exit with anything or hang.

### What is hard about it

* A build record is written from about ten places in two programs (the runner
  and the task around it). They must not contradict each other, whoever is
  interrupted where.
* Uploading replaces what readers see, one artifact type at a time, with
  nothing to undo it. Cancellation is therefore deferred in it, other signals
  are not.
* An exception is converted on its way out in several places (`get_storage`
  makes an application error of anything, git commands make a repository error
  of any user error, some steps swallow everything), and `BuildCancelled` is a
  kind of `BuildUserError`, so the order of `except` clauses matters.
* Commands that are not recorded only warn when they fail, unless the caller
  says otherwise: the build depends on some of those.
* What a configuration means is decided in several validators, in `doctype`
  and again in the director: they must agree for every combination of keys.
* The instance must be let go however the build ends, and the release itself may
  fail or be cut short.
* A build's message may be delivered again, to another instance, before or
  while or after the first one works on it; the verdict in the record is all
  the second one has to go by.
* The remote repository moves while a build reads it: the worker's clone, the
  runner's clone, its fetch and its checkout are four looks at it, and which ref
  each asks for is worked out twice.

`PROJECT.json` lists the hazards one by one, each at its line, with the
properties that would catch it.

### What makes each part correct

* **Runner**: a success is published completely; a cancellation leaves nothing
  half written; a failure carries its reason, and never two; the record goes through its
  states in order.
* **Worker**: every build ends in a final state with a reason; a verdict stands
  when the message comes again; no container and no instance is left behind
  without a cause.
* **Director**: its steps raise only what the runner is written for; commands
  shown to the user end up with an exit code that explains the result; nothing
  is used before it exists; what the user asked for is run and delivered.
* **Configuration**: it is accepted or rejected, never a crash; what is
  accepted can be built.
* **Refs**: the worker and the runner read one configuration, of the commit
  that is built; that commit is what the runner fetched, and what is reported.
* **Fleet**: no build is lost to a crash, none is built over its verdict, none
  is cut off by the end of another's instance, and every instance goes unless
  its release failed or was cut short.
* Still to be modelled: no path leaves its directory (**Paths**).

## 2. Modules

    Faults  <---- BuildApi <----.
      ^                          \
      |                           Runner <---- Worker
      '---- DirectorContract <---/  |   \         |
      ^            ^                |    \        MCWorker
    Operations     |     BuildLifecycle   MCRunner
      ^            |     (INSTANCE)
      Director ----'---- Config         Worker ---- TaskContract (INSTANCE)
      ^                                                  ^
      MCDirector        Refs <---- MCRefs              Fleet <---- MCFleet

The proofs are modules of their own, each extending the module it is about:

    Runner <-- RunnerProofs <-- RunnerReportProofs <--.
                     ^                                 \
    Worker <-------- WorkerProofs <-------------------- WorkerReportProofs
    Director <-- DirectorProofs <-- DirectorOrderProofs
    Fleet <-- FleetProofs           Refs <-- RefsProofs

**Faults** names the exceptions the code tells apart and the disturbances of
the environment. `struck` is a history variable: the disturbances so far. A
run chooses its environment with the constant `Disturbances`, and a property
can say "unless this or that happened".

**BuildApi** is the Build record `[state, outcome, builder]` and its
notifications, with the requests made on it. A request that fails may have been
applied: what was lost is the answer. The HTTP adapter's retries are inside
one step, since what is sent is idempotent - except the POST of a command's
record, which Operations models with its duplicate. The API is another
repository; what a request does is what the code here relies on.

**BuildLifecycle** is the abstract specification: what a reader of the API may
see of one attempt at a build. `Runner` implements it (`ImplementsLifecycle`,
with the mapping `state <- build.state, outcome <- build.outcome`).

**Runner** is `Runner.run`, one action per statement. `pc` is the statement
about to execute, `exc` the exception in flight, `inUpload`, `success`, `final`
are `_in_upload`, `_success`, `_state`; `valid` is what `_validate_artifacts`
returned, `todo` what the loop under way has left, `storage` the version's
directories (absent, old, partly written, new), `version` what the Version
record advertises. `Following` gives the order of the statements for the three
kinds of build (uploaded artifacts, `build.commands`, standard). `Raise` is an
exception leaving a statement in the `try`, with the inner `finally`; `Escape`
one leaving the handlers or `run()`. `Interrupt(e)` is an exception raised by a
signal handler at `pc`; `Becomes` is what the code around that statement makes
of it. The director's steps are black boxes that return or raise what
**DirectorContract** allows.

**Worker** is `run_build` around it: it extends Runner, and while
`wpc = "runner"` its steps are Runner's. `wpc` is the step of the task, `wexc` the
exception leaving it, `report` the message it is reporting, `container` and
`instance` the two resources. The steps of a report that is made inside the
outer `try`, when the container did not come up, have names of their own
(`post_inner`, `patch_inner`, `return_inner`), since what interrupts them meets
the outer `except` clauses and is reported again (`tasks.py:299-329`). The hook
that lets the instance go (`postrun`, `poweroff`) is part of the task: the soft
limit or SIGINT may land in it and be taken there for a failed release or a
failed power off, or leave it (`CutHook`; `wpc` is then "cut"). A message may
find a new build, one an earlier delivery left in flight, or one that finished.

**Config** is the validation of `.readthedocs.yaml` as functions of a raw
configuration: `Verdict` (accepted, a user error, an exception nobody
expects), `Doctype`, `Environment`. It covers the keys whose meanings depend
on each other; wrong types and choices of single values are one "malformed"
section, as they all end in the same `ConfigError`. A key nobody knows is
rejected, unless its name is no string: joining it is then a `TypeError`
(`config.py:843`), which, like `mkdocs:` without a value, is an exception nobody
expects.

**Operations** is how one command runs: its record is created, it runs, the
record is updated (with the POST that replaces a lost PATCH), and the exit code
is judged (`record`, `warn_only`, exit code 183, what git makes of it). The
Docker daemon fails in two ways. It answers with an error:
`DockerBuildCommand.run` catches `docker.errors.APIError`
(`environments.py:493`) and the exit code is -1 (`lost`). Or it does not
answer, or not in time: that is no `APIError`, nothing catches it, the record
is not updated, and an unexpected exception leaves the step (`LoseDaemon`).
`rest` is what the step under way has left to do. `log` is the set of the
records of the commands before, each with its status and whether the command
only warns.

**Director** is what each step does: `Script(step)` is the sequence of
operations for a configuration and a project, and the steps are taken in the
order of `Runner.run`. It is the detailed counterpart of `DirectorContract`:
`StepsKeepTheirContract` checks that what comes out of a step is what Runner was
modelled to expect, so that the two models fit together. A project whose
environment variables include PATH has every command of its build environment
refused before it starts (`environments.py:176-180`, `RefuseCommand`). Every
command of `build.commands` is taken for one that installs something and is
followed by its reshim; a custom checkout is one command.

**TaskContract** is what one task may do to its Build record, seen from
outside: eight phases, and for each the moves that come next, the outcomes of
a failure and those of a signal. `Worker` is checked to keep it
(`ImplementsTask`, with the phase and the record as `TaskSeen` and
`RecordSeen`), and **Fleet** moves its tasks by it. This is what joins the two:
Fleet need not know how a task is written, and says what happens when several
of them meet.

**Fleet** is the queue and the instances. `holder` says who has the message of
a build (the queue, an instance, an instance that is gone, or nobody because it
was acknowledged), `host` and `consuming` the state of an instance and of its
consumer, `running` and `task` what it works on, `signals` those under way. The
receipt is `Deliver` with the hook that stops consuming
(`_on_run_build_received`); the end is `Release` (the API ends the instance the
*build* is claimed for, or the host powers itself off) and `Ack`, which race
with `Terminate`. A host whose power off fails as well, or is not to be
(`no_self_terminate`, docker-compose), or whose hook a signal cuts short, is
"left": it keeps its name, consumes nothing, and only a crash ends it.
Instances crash, the broker takes a message for lost (`TimeOutMessage`: nothing
in `celery.py` sets a visibility timeout, so kombu's default applies), a
connection drops (`LoseConnection`: the message goes back, the task gets
SIGTERM), requests fail and users cancel. That the API finds the instance to
end by the build's `builder` is how the code uses it: `protect` posts the
hostname, `release` posts nothing.

**Refs** is which commit is built. A remote repository (branches, tags, a pull
request, HEAD) moves between any two git commands; one Version row is built
over and over: the task fetches the row (`FetchVersion`), lists the remote and
sends the listing (`SyncVersions`, applied by the API when it likes), makes its
sparse clone at `WorkerRef` and reads build.os; the runner clones, fetches
`RunnerRef`, checks out what `find_ref` makes of it, loads the configuration,
runs the user's hooks, takes the commit and the default branch from git, and
at the end writes the row. `RefspecOf` is `get_remote_fetch_refspec`, with the
two ways its callers recognise a provider. Commands whose failure the code
ignores may not run at all (`mute`).

`MCRunner`, `MCWorker`, `MCDirector`, `MCRefs` and `MCFleet` give the constants values for TLC.
Definitions marked "Mutant" are not used by the model: they are the forms a
plausible bug would give the definition below them, and `PROJECT.json` names
the property each must violate.

## 3. What is checked

### The runner (`Runner.cfg`; 1.5 million states)

One build of each kind, of a project that is disabled (`skip`) or not, on an empty or
a populated bucket, with every signal and every failure between any two
statements.

| Property | Says |
|---|---|
| `SuccessMeansPublished` | A successful build has all it produced completely in the bucket, nothing stale beside it, and its Version updated - unless the storage, the alarm or the soft limit got at a delete, or the API refused the Version |
| `CancelLeavesNoPartialUpload` | No number of cancellations leaves a directory half written |
| `CancelledOnRequest` | "cancelled" is only shown if somebody cancelled or a command exited 183 |
| `FailureIsExplained` | However `run()` ends there is at most one reason, none for a success, and a build left in flight raises. While the API answers and no signal raises, the build is in a final state, and it fails *without* a reason exactly if an exception of no family of `exceptions.py` left `run()`: a file without an extension (`runner.py:433`), storage credentials with a key missing (`storage.py:73-82`), a Docker daemon that does not answer |
| `ClaimedWhileUnderWay` | The reset does not undo the claim |
| `UndeletableKept` | HTML and JSON not produced by this build stay as they were |
| `ImplementsLifecycle` | The runner implements BuildLifecycle |

### The worker (`Worker.cfg`, 6.5 million states; `WorkerEnds.cfg`, 1.7 million)

| Property | Says |
|---|---|
| `SettledAtEnd` | While the API answers, no clock runs out and nobody cancels the running task, every task ends with its build in a final state, a failure with a reason. Two exceptions, both after an exception that no `except` clause takes: before the runner (`get_client`, the healthcheck, `entrypoint.py`) it leaves the build in flight, in the runner it gives no reason |
| `FinalStateKept` | A verdict stands, over a redelivery and over the task's own reporting, unless a signal or the API interferes |
| `ContainerNotLeft` | A task that gets past its `finally` leaves the container behind only if it failed or was interrupted while removing it. A process that is killed leaves its container: no property forbids that |
| `ImplementsTask` | The task does to its record what TaskContract allows, failures and interruptions only where the environment caused one |
| `InstanceLetGo` (liveness) | Every task ends, by itself or by a clock, and its instance is released, kept on purpose, or powered off. It stays up in four cases only: the host refuses to power off or is not to; the soft limit or SIGINT cuts the release short (`instance.py:80-83` swallows it); the hard limit kills the process before any hook (`celery.py:92-93`); the build's alarm kills it before the runner has a handler |

`FinalStateKept`, `SettledAtEnd` and the exceptions of `InstanceLetGo` say where
the code's promises end: `WorkerNoClient` below is the sentence of the source that
promises more.

### The fleet (`Fleet.cfg`, 221 thousand states)

Two instances, whose names are given out again when one is gone; one build with
any two troubles, or two builds with one crash, failure or cancellation.

| Property | Says |
|---|---|
| `NeverLost` | A message is acknowledged only when its build has a verdict |
| `VerdictStands` | While nothing but crashes goes wrong, a verdict is never changed and a finished build never built again, though its message comes again |
| `CancelledStaysCancelled` | A build cancelled before a task fetched it is not built, however often it is delivered, and stays cancelled unless a request or the daemon failed, or the message was delivered twice |
| `EndsIdle` | No instance is terminated under a build at work |
| `EveryBuildSettles` (liveness) | Every build gets its verdict, through crashes and cancellations |
| `InstancesGo` (liveness) | An instance that has taken a build goes. It is left behind only when the release failed and so did the power off (or it was not to be), or a cancellation cut the release short, or its build was delivered twice |

Their other exceptions are the known ones: a request, the daemon or a clock failed a
task; a signal ended one where nothing reports it; a message was delivered
twice, so that one task clears the record or ends the instance of the other. What
a double delivery does is therefore in the model and mostly outside of these
properties; `FleetTwice` below is about it.

### What is built (`Refs.cfg`, 350 thousand states)

| Property | Says |
|---|---|
| `BuiltFromTheFetch` | What is checked out is what the runner's own fetch found, or the very commit the version is |
| `ConfigsAgree` | build.os and the rest of the configuration come from one file of one commit, if nobody moves the remote meanwhile |
| `CommitIsWhatIsBuilt` | The commit reported is the one built, after the user's hooks |
| `LatestNamesBuiltBranch` | A build that renames latest names a branch that had the commit it published |
| `RowCatchesUp` (liveness) | Once the remote rests, building brings the row in line with it |

The exceptions written into them are worth knowing. A tag named like the
remote's default branch is not told from it: `find_ref` prefers the branch. A
pull request on a host that neither test recognises is built from
the default branch. `rev-parse`, `show-ref` and `symbolic-ref` are run
without a look at their exit codes: when the Docker daemon does not run one,
the text "Command exited abnormally" (`environments.py:493-496`) is reported as the
commit, or becomes the identifier of latest (`runner.py:306-310`). And a
repository with two configuration files may be read from both: the worker takes
the first of a list of names, the runner the first in directory order.

### The director (`Director.cfg`, 976 thousand states)

| Property | Says |
|---|---|
| `StepsKeepTheirContract` | Steps raise what Runner expects; a cancellation is never made a user error, and only a daemon that fails in a `finally` hides it. What is outside the contract comes from the API, a bucket, a daemon that does not answer, a refused PATH, or a configuration that crashes |
| `RecordsSettled` | The command records agree with how the step ended: one is left without an exit code only by a signal, or by an unexpected exception after the API or the daemon did not answer. The duplicate of a repeated POST is admitted |
| `LanguageEnvironmentFirst` | Nothing uses the language environment before it was created, unless the user took its creation over |
| `DocToolConfigured` | Sphinx and MkDocs only run with a configuration that names their file |
| `ToolsReady` | The build's own commands start once every tool is installed |
| `NoJobWithWriteKey` | No `post_checkout` command runs in a checkout whose key has write access |
| `CleanCheckoutSucceeds` | Git commands that only ask a question do not fail a checkout |
| `FormatsDelivered` | Every format asked for of a Sphinx build has its directory at the end, if no command failed (one that only warns may fail silently and take the format with it) |
| `EveryJobRuns` | No job of the configuration is silently skipped (two exceptions, below) |

### Where the code and its own words disagree

Each of these runs checks one sentence of the source and TLC finds it violated.
They are listed as findings with the quoted line.

| Run | What happens |
|---|---|
| `RunnerCancelAppError` | A cancellation during `get_storage` becomes a `BuildAppError`: the build is shown as failed, not as cancelled |
| `RunnerAlarmLost` | The one-shot alarm is swallowed by a best-effort step (deleting a format, measuring a size): the build goes on without its clock, and succeeds |
| `WorkerCancelReport` | A cancellation during the runner's last PATCH reaches the task, which reports it over the runner's verdict, a success included |
| `WorkerNoClient` | A Docker client that cannot be created, or a healthcheck that cannot start, leaves the build in flight without a reason |
| `FleetTwice` | After a lost connection two instances build the same build: the signal to the first is deferred by the upload, or swallowed by a best-effort step |
| `DirectorCrash` | `mkdocs:` without a value ends in an `AttributeError` rather than a `ConfigError` |

More things a user may trip over are in the models and have no run of their
own. A broker that refuses the version-sync task fails the build
(`tasks.py:383`), although every other error of the sync is ignored. A build
cancelled in the database after the worker fetched it and before the runner's
reset loses its cancellation: the reset sets it to triggered (Fleet;
`CancelledStaysCancelled` speaks of builds cancelled earlier). `pre_checkout`
is accepted in `build.jobs` and never run: the configuration is not known
before the checkout (`director.py:135-141`), while `run_build_job` describes it
as a job that is run (`director.py:442`). `EveryJobRuns` excepts it, and the
jobs of formats on a pull request, which the code skips deliberately. And some
accepted configurations take the director to a call that fails with an
exception nobody expects: a Virtualenv without `build.tools.python`, a uv entry
together with Conda, or a Conda file whose `dependencies` is no list.
`StepsKeepTheirContract` excepts them under `Crashable`.

### Bounds, and why they are enough

* **Artifact types**: the code tells types apart by two questions only, whether
  they are in `UNDELETABLE_ARTIFACT_TYPES` and whether the Version has a flag
  for them. html is special by name. The Runner run has one of each sort and
  one more (html, json, pdf, epub), so that a loop handles two alike; the
  Worker runs have two (html, pdf), since the runner's loops are covered by
  Runner. For the properties proved below there is no bound.
* **Signals**: cancellations are unbounded in number. The alarm and the soft
  limit strike once each, as in the code (`setitimer` without an interval,
  Celery's one soft limit). The state keeps *whether* each disturbance
  happened, so repetition costs nothing.
* **The Worker runs' environment**: `Worker.cfg` leaves out the disturbances
  that only the runner's insides react to (a 4xx for the Version, a deferred or
  a repeated cancellation: `Runner.cfg` has them) and the hard limit, after
  which nothing runs. `WorkerEnds.cfg` has those that decide how a task ends: a
  failing API, a host that does not power off, SIGINT, and the three clocks, with
  one artifact type. `SelfTerminates` is TRUE in both; the theorems hold of either.
* **Disturbances of a director's steps**: at most four different ones per build
  (the third part of a build in `DirectorBuilds`); the properties need one or
  two.
* **Configurations**: one of each kind for every decision (environments,
  doctypes, hooks, overrides, each way to be invalid) with an ordinary project,
  and an ordinary configuration with each kind of project, these disturbed; and
  the whole product of the nine keys that depend on each other, 24 576
  configurations, undisturbed: what is at stake there is decisions, not
  failures.
* **Deliveries**: in the Worker runs one message, finding any state an earlier
  delivery leaves; in Fleet, as many as the troubles cause.
* **Fleet**: two instances suffice for two tasks to meet, and since a name is
  used again, for any number of instances after one another. Two troubles of
  one build give a crash after a crash, a cancellation and a crash, and both
  ways of a double delivery; two builds are needed for an instance to take a
  second one. With three instances the safety properties were checked as well
  (two builds with one trouble of any kind, 3.7 million states), which takes
  too long to be a run. For the safety properties there is no bound at all,
  see below.
* **Refs**: four commits with one rewritten branch; a row of each kind of
  version on each kind of host; two moves of the remote or failing commands in
  all (`MaxMoves`), which is enough for a move between any two of the four looks
  at it. Builds follow one another without a bound.

### Deadlock

The Runner, Worker and Fleet runs say `CHECK_DEADLOCK FALSE`: `run()` returns,
the task ends, the last instance goes, and that is the end of the behaviour.
The director's runs check deadlock, the last state being a self-loop: no step
of the director gets stuck in the middle of its operations. Refs checks it too:
there is always a next build.

### Fairness

`WorkerEnds`, `Fleet` and `Refs` need it. In the worker, `PromptStep` is weakly
fair: every statement of the task and of the runner that takes bounded time -
requests and the worker's own git commands have timeouts
(`api_client.py:22-65`, `worker/git.py:191-247`) and retries are bounded -
which excludes the director's steps (they run the user's commands) and rclone,
as neither has a timeout of its own. The clocks are weakly fair too: the alarm
(`tasks.py:_time_limit`), the soft limit, and after it the hard limit
(`celery.py:81-97`). Nothing else is assumed; in particular a user's command
may hang for ever. `InstanceLetGo` then shows that the clocks suffice.

In the fleet, what an instance has begun goes on (`WF` of `Works`): that every
task ends is what `InstanceLetGo` shows. Instances are launched while builds
wait and nobody consumes (the Auto Scaling group), and the message of an
instance that is gone is redelivered. Delivery is *strongly* fair, per build: an
instance that takes one message stops consuming, so a build in the queue is
deliverable only now and then, and the queue is one in which a message is not
passed over for ever. Nothing is assumed of crashes, failures, cancellations and
the broker's troubles.

In Refs, builds are triggered again and again and the API applies the listings
it is sent (`WF` of `Build` and of `ApplySync`); the remote need not move.

## 4. What is proved

Every invariant and every action property the runs check is proved, with the
refinements, for every value of the constants.

| Module | Theorem | Property |
|---|---|---|
| `RunnerProofs` | `TypeCorrect` | `TypeOK` |
| | `RunnerImplementsLifecycle` | `ImplementsLifecycle` |
| | `SuccessIsPublished` | `SuccessMeansPublished` |
| | `CancellationIsClean` | `CancelLeavesNoPartialUpload` |
| | `UndeletableSurvives` | `UndeletableKept` |
| `RunnerReportProofs` | `BuildsUnderWayAreClaimed` | `ClaimedWhileUnderWay` |
| | `CancelledOnlyOnRequest` | `CancelledOnRequest` |
| | `FailuresAreExplained` | `FailureIsExplained` |
| `WorkerProofs` | `TaskTypeCorrect` | `TaskTypeOK` |
| | `TaskKeepsContract` | `ImplementsTask` |
| `WorkerReportProofs` | `ContainerIsRemoved` | `ContainerNotLeft` |
| | `VerdictsStand` | `FinalStateKept` |
| | `TasksEndSettled` | `SettledAtEnd` |
| `FleetProofs` | `FleetTypeCorrect` | `FleetTypeOK` |
| | `NoBuildIsLost` | `NeverLost` |
| | `VerdictsStand` | `VerdictStands` |
| | `InstancesEndIdle` | `EndsIdle` |
| | `CancellationsStand` | `CancelledStaysCancelled` |
| `DirectorProofs` | `DirectorTypeCorrect` | `DirectorTypeOK` |
| | `ContractIsKept` | `StepsKeepTheirContract` |
| | `RecordsAreSettled` | `RecordsSettled` |
| `DirectorOrderProofs` | `CleanCheckoutsSucceed` | `CleanCheckoutSucceeds` |
| | `DocToolIsOnlyRunConfigured` | `DocToolConfigured` |
| | `NoJobIsRunWithWriteKey` | `NoJobWithWriteKey` |
| | `ToolsAreReady` | `ToolsReady` |
| | `EnvironmentComesFirst` | `LanguageEnvironmentFirst` |
| | `EveryJobIsRun` | `EveryJobRuns` |
| | `FormatsAreDelivered` | `FormatsDelivered` |
| `RefsProofs` | `RefsTypeCorrect` | `RefsTypeOK` |
| | `WhatIsFetchedIsBuilt` | `BuiltFromTheFetch` |
| | `TheConfigsAgree` | `ConfigsAgree` |
| | `ReportedIsBuilt` | `CommitIsWhatIsBuilt` |
| | `LatestIsNamedRight` | `LatestNamesBuiltBranch` |

### How the theorems fit together

`ContractIsKept` says that a step of the director raises what DirectorContract
allows, and the theorems about the runner hold of any steps that do;
`TaskKeepsContract` says that the task around the runner makes the moves of
TaskContract, and the theorems about the fleet hold of any tasks that do. Both
contracts were written down by hand: these two theorems are what makes it sound
to check and prove the parts separately.

### Assumptions

None of them restricts the environment. TLC evaluates them in every run.

* `TypesAssumption` (Runner): a sequence of strings that contains "html", which
  is undeletable, as in `builder/constants.py`.
* `DisturbancesAssumption` (Faults): the disturbances are known ones.
  `SelfTerminatesAssumption` (Worker): a Boolean setting.
* `FleetAssumption`: the names of instances and of builds are apart from the
  words the model uses beside them.
* `BuildsAssumption` (Director): a raw configuration has the shape in which
  Config describes it, a project the flags of the API. Nothing is said of their
  values, so the theorems hold of rejected configurations as well.
* `CommitsAssumption` (Refs): commits are numbers, their histories sets of
  commits, a commit is among those that `--depth` leaves of it, and a
  configuration file has one of the four names the code knows.
  `RequestsAssumption`: no branch or tag has the empty name, the remote begins
  with a commit on its default branch, and the first Version is one the API
  makes (`IsVersion`): a branch has its name as identifier, a tag and a pull
  request a commit.

### The runner

None of the properties is inductive. `IInv` (RunnerProofs) has three parts:

* `TypeInv`: `TypeOK`, and that the handler of `run()` is entered with an
  exception in hand (`HandlingAnException`) - without it, what is posted as a
  notification has no type.
* `LifecycleInv`: `OnTrack` says which states the record may be in at each
  statement (`StatesAt`), and `Undecided` that no outcome is announced before
  the final PATCH, and that whoever arrives at `finalize` with `_success` set
  arrives from `uploading`. Together they make every step a step or a stutter
  of BuildLifecycle.
* `PublishInv`: `UploadGuarded` (`_in_upload` is set exactly during the upload:
  this is what defers cancellations), `HtmlValid`, `Uploaded` (what each loop
  has done so far, in terms of what it has left), `Announced` (a success is
  `Published` from the moment `_success` is set), and `HalfWritten` (a half
  written type is the one being written, unless the storage failed or a time
  limit struck).

Each part is shown to hold initially, to be kept by every statement
(`RunTyped`, `RunKeepsLifecycle`, `RunKeepsPublish`: a step per action) and by
a signal at every statement (`SignalTyped`, ...). The interesting case is
always the signal: `InterruptKeepsPublish` is where `UploadGuarded` is needed.
`UndeletableSurvives` is an action property and rests on
`OnlyTheLoopsWriteStorage`.

RunnerReportProofs adds three on top of it, about what the record says.
`ClaimInv`: the record leaves "triggered" after the claim only. `CancelInv`:
not only a record that shows a cancellation, also the one on its way out and
the final state chosen for it come from a request. `ReasonInv`: while nothing
disturbs the build, no reason is attached before the handler, the one attached
there is the exception in hand, and whoever finalizes without a success has
exactly one, or an exception that is none of the reported ones on its way out.

### The task

`TaskControl` (WorkerProofs) is what the task relies on of the runner,
whichever record it was started on: nothing is decided before the handler, and
what leaves `run()` by another way than its `except` clause was raised by a
signal. With it `RunnerTable` and `TaskTable` give the phase of the contract at
every statement of the runner and of the task, and `ImplementsTask` comes down
to one lemma per statement, that its step goes from one row of the table to a
successor of it, and one per signal. The task extends the runner, but not its
specification: it may start the runner on a record an earlier delivery left
under way, so `LifecycleInv` does not hold in it and is not used.

`ContainerInv`, `VerdictInv` and `ReportInv` (WorkerReportProofs) each carry one
property through the task: who may have a container at which step; that unless a
signal or the API interferes a task past its fetch works on a build under way;
that undisturbed the record has no reason before the runner, `ReasonInv` in it,
and is `Settled` after it, or was left in flight (`LeftInFlight`) by an exception
that met no `except` clause before the runner.

### The fleet

`NeverLost` speaks of the acknowledged message
only. What makes it inductive is `OneCopy` (the message of a build at work is
held for the instance that works on it, so no other does) and `LeavesSettled`
(a task gets to its end only with a verdict in the record): together with the
late acknowledgement they are `SafetyInv`, whose last part, `VerdictsAgree`,
says that while there are only crashes a task whose record has a verdict is not
on its way to another one; `VerdictsStand` follows from that and
`MovesKeepVerdict`. `EndsIdle` rests on `ClaimsOwn` - a record names the
instance that holds the message, or held it - so that a release ends the
instance that asked for it, and on `ConsumersFree`. `CancellationsStand` needs
that a signal is only under way to a task whose record is, or was, under way
(`SignalsOnBuildsUnderWay`), or else it could strike a task that is reporting
the cancellation. All five use the contract of
a task through a few lemmas (`MovesLeaveSettled`, `SignalledLeaves`,
`MovesAgree`, ...), which are facts about TaskContract alone.

The attempt to prove `CancelledStaysCancelled` as it was first written - such a
build stays cancelled unless a request failed - found it to be false beyond the
bounds of the run. It takes one build, two instances and five troubles: a crash
leaves the record under way; the broker takes the message for lost and gives it
to a second instance too; a user cancels, and a signal sets out for both tasks; one task
resets the record and its instance crashes; the user cancels the build, which is now waiting
again; the signal sent before strikes the other task as it reports that
cancellation, and the report becomes a failure's. Hence "or the message was
delivered twice" in the property.

### The director

`DirectorInv` (DirectorProofs) is about one step: what is left of its script are
operations of that script (`OpsInv`, from `OpsOf` and the lemmas about
`Script`), where the operation under way is and what the API shows of it
(`PhaseInv`), what the exception on its way may be (`RaisedInv`), and what the
records of the commands before say (`LogInv`).

DirectorOrderProofs is about order. An operation may skip some of those after it,
so "it is in the script" does not mean it is run. `Before(q, S, T)` says that an
operation of `S` comes in `q`, that no operation before it skips it (`Kept`),
and that none of `T` comes earlier. Such an operation stays awaited while others
are passed (`StillAwaited`), and each property is an invariant of one form: what
is wanted has been done, or is awaited in the rest of this step, or belongs to a
later step (`LoadedInv`, `HeldInv`, `ToolsInv`, `VenvInv`, `JobsInv`).
`FormatsInv` needs one thing more: the directory of a format may be removed
again, and must then be made again (`Mended`).

### Refs

The two places that turn a Version into a ref agree, except for a pull request
(`RunnerRefIs`); `RefFetched` says what the runner's fetch leaves in the clone for
each kind of ref, and `CheckoutFinds` that what `find_ref` makes of the identifier
is then what was fetched - this is where a tag named like the default branch and
a `show-ref` that did not run are the only ways out. `SeenInv` carries what the
worker saw to the runner's checkout while nobody moves the remote;
`DefaultIsSeen` and `CheckedOutIsSeen` are the two ways a build of it goes.
`PointedInv` says where the branch that was cloned pointed.

### What the proofs asked of the models

Where an expression depended on the order of overlapping `CASE` arms (which TLA+
leaves open) the arms were made disjoint: `Translated`, `Doctype`, `Environment`,
`NextStep`. `Repack` and `UpdateSubmodules` were written as one sequence of operations, not
as nested choices. `Remotes`, `Rows`, `Projects` and `IsVersion` of Refs, and
`IsConfiguration` of Config, say which inputs the theorems are about.

### Left to TLC

`InstanceLetGo`, `EveryBuildSettles`, `InstancesGo` and `RowCatchesUp` are
liveness under fairness, which the prover does not do; nor does it do ENABLED, so
that the absence of deadlocks is checked by TLC only. The runs that expect a
violation are counterexamples, which is TLC's part. Nothing needed induction over
data; no module uses a RECURSIVE operator.

## 5. What is not modelled

* **Command lines, environment variables and output.** A command is a name and
  what the rest of the build depends on. Wrapping in `/bin/sh`, sanitizing of
  output, and the OOM message (one more user error) are left out.
* **Paths**: `filesystem.py` and the joining of storage paths. Planned (Paths).
* **In Fleet**: instances that the API keeps (`InstanceState.KEPT`, in Worker
  only), the hard limit and the alarm that kill a process (WorkerEnds), and how many instances the Auto Scaling
  group starts: one at a time, when none consumes. A crash takes the whole
  instance; a pool process that dies alone is the hard limit of WorkerEnds.
* **In Refs**: `readthedocs_yaml_path`, submodules, and the contents of a
  configuration: a commit has files, and two looks at one file agree.
* `sync_repository` is the version sync without a build; the backend's own
  `lsremote` has no caller.
* **A command without a container**: `DockerBuildCommand.run` refuses to run
  without a container's name (`environments.py:456-461`); the worker always passes
  that of the one it started.
* **What a killed process leaves**: its container (`kill_container` has no caller
  in the build) and its instance. The models have the kill and nothing after it.
* `writes` in a project *is* what `git push --dry-run` says; whether that is
  true of the key is git's business.
* `api_models.py`, `settings.py`, `logs.py`: records, constants, formatting.
* `scripts/test_build_isolated_manual.py`: sends a task by hand.
* The API, Docker, git, rclone, asdf, Celery and EC2 are external: modelled by the
  answers the code in `src/` handles.

## 6. Plan

Done: Faults, BuildApi, BuildLifecycle, Runner, Worker, DirectorContract, Config,
Operations, Director, Refs, TaskContract, Fleet, and the proofs of all their safety
properties. Next, in this order:

1. **Paths** - `filesystem.py` and `storage.py`, on trees of depth three with
   symbolic links: what is removed or read stays in the docroot.
2. **Proofs** - facts about Config alone that the director's theorems use only in
   part: what `Doctype` and `Environment` make of every accepted configuration.
