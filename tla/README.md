# Specifications of tedge-container-plugin

TLA+ modules of the parts of tedge-container-plugin in which goroutines, timers,
failing calls and restarts meet, with TLC configurations that check them on small
instances and TLAPS proofs of what holds for all instances.  Line numbers refer to
the Go sources of the repository.

## The system

| part | state it keeps | operations | what makes it hard |
|---|---|---|---|
| **debouncer** (`pkg/app/debounce.go`) | one pending request, a timer | `Enqueue` (events, bridge, health checks, retries), `fire` on a goroutine of its own | a callback that `Stop` comes too late for; merging of different scopes; the hand-off outside the lock |
| **update queue, worker** (`pkg/app/app.go` `worker`, `Update`, `UpdateMetrics`) | a channel of 8 requests | non-blocking send by the debouncer, blocking send and wait for the result by monitor, reconcile loop and metrics ticker | dropped requests, blocked senders |
| **reconciler** (`doUpdate`, `DeleteOrphanedCloudServices`, `scheduleSyncRetry`) | copy of the entity store, list of containers, what is stale; `syncRetryScheduled`, `lastOrphansCheck` | read entities, list, register, publish health, delete from the cloud, deregister, sweep orphans, schedule a retry | some twenty calls to four systems, each of which may fail or be the last before the process ends; everything read at the start is old at the end |
| **monitor** (`Monitor`, `cli/run/cmd.go`) | an event stream | subscribe, update, handle events, be started again | events lost with the stream |
| **start and stop** (`NewApp`, `Stop`, `cli/run`) | the context, the shutdown channel, the process's environment, the connection to the broker | find the engine, connect, start goroutines, reconnect, stop on a signal; a second process may run once beside it | goroutines blocked on each other; the broker's will speaks for the process |
| **crash loops** (`publishCrashLoopAlarm`, `clearCrashLoopAlarm`, baselines) | baselines, marks; retained alarms at the broker | count restarts, raise, retry, clear, override the shown status | monitor, publishers and worker share the marks and lock them only for single reads and writes |
| **event limiter** (`pkg/app/eventlimiter.go`) | last time per key | `Allow`, `Remove` | keys of two forms |
| **tedge client** (`pkg/tedge`) | none of its own | entity store, broker and cloud calls | partial results |
| **container client** (`pkg/container`) | none of its own | list, inspect, clone, fork, pull, compose, prune | compound operations on containers without transactions |
| **statistics** (`pkg/container/stats_helper.go`) | a wait group and a channel per container | `collect`, its reader goroutine, its timer | three parties at one channel |
| **software plugins** (`cli/container`, `cli/container_group`, `cli/container_image`, `cli/self`) | none in memory, they run as commands; a group has a directory with its compose file and a version file | prepare, install, remove, list, finalize | fail or are killed halfway; the engine knows projects, the cloud knows modules |
| **tools, log plugins, engine, init** | none | single calls to the engine | |

The software plugins change containers; the engine sends events; the monitor
enqueues updates; the debouncer merges them; the worker registers services with
thin-edge.io and publishes their health; the mapper creates managed objects in the
cloud; the worker deletes those whose containers are gone.  What the parts share is
the entity store, the retained topics, the managed objects and the engine.

What must be right:

- debouncer and queue: nothing that was asked for is lost in a merge or a race, no
  request is left without a timer, a full scan stays a full scan;
- reconciler: the device never forgets a managed object it still has to delete; an
  update never removes what it has just listed; thin-edge.io and the cloud come in
  line once failures cease, by events alone, by retries alone, by the reconcile loop;
- crash loops: a container is marked only if it restarted as often as configured, a
  mark is never without its alarm, what is marked is shown as down, what recovers or
  goes is cleared;
- clone: a working copy survives whatever fails, previous and next container do not
  run together, success means a container that was started under the name, a failed
  replacement is taken back;
- self update: the container that thin-edge.io runs in is only replaced from outside,
  keeps its name and configuration however often it is updated, and nothing of the
  updater remains;
- container and image modules: a container is replaced only for an image that is
  there, the reported results are true, what is listed can be removed;
- start and stop: whoever asks the worker is answered, a signal ends the process, the
  retained health is true;
- container groups: what list shows can be removed, success means that what was
  installed is what runs and what was removed is gone, and the names shown lead back
  to the project.

## Modules

| module | models | state ~ code |
|---|---|---|
| `FilterOptions` | `container.FilterOptions`, `IsEmpty`, what `List` returns, `mergeFilterOptions` | ids and names are sets; the label filter and the client side filters come from the configuration as a whole and are booleans |
| `UpdateQueue` | the way of a request to the worker | `pending` = `UpdateDebouncer.pending`, `queue` = `updateRequests`, `running` = the request the worker has received |
| `Debouncer` | timers and callbacks on top of `UpdateQueue` | `timer` = `d.timer`; `armed`, `expired`, `handoff` are timers not expired, callbacks before the lock, and after it; time is abstract |
| `ServiceRegistry` | abstract specification of the services across entity store and cloud | an entity is given up only after the cloud acknowledged the deletion |
| `Reconciler` | `doUpdate`, one step per call, composed with `UpdateQueue`, all that prompts an update, and the world around | `snapshot` = `entities`, `stale` = `existingServices`, `syncPending` = `cloudSyncPending`, `removed` = `staleServicesRemoved`, `retryArmed` = `syncRetryScheduled` |
| `CrashLoop` | monitor, publishers of alarms, the update where it touches the marks (from the list of entities to the deregistration, each call of which may fail), the event limiter | `asked` = the scopes in `updateRequests`, the debouncer and the retry timer; `work` = the update; `marked` = `crashLoopAlarms`, `baseline` = `restartBaseline`, `recent` = `EventRateLimiter.last` within its window |
| `Clone` | `CloneContainer` call by call, restart policies, exits, restarts of the machine | `prev`, `next` = `prevContainer`, `nextContainer`; names are the main one or that of a run's backup |
| `ContainerGroup` | install, remove and list of the container-group plugin, call by call; the names that daemon and log plugin derive | `dirs`, `file`, `version` = the directories under `compose/`; `deployed`, `running` = the engine's containers with their compose labels; `workingDir`, `failed` = `workingDir`, `errs` of `ComposeDown` |
| `ContainerModule` | the plugins container and container-image, the tool image-install that a workflow runs beside them; images from archives and registries, credentials, prune | `store` = the engine's images by reference; `con` = its containers; `credentials` = what is at hand for the registry: valid, to be refreshed by the helper, or void for good; `cmd` = where each command is and its local variables; references are sequences of the parts between colons |
| `SoftwareList` | abstract specification of a software plugin towards the agent | a command changes the entry of its own module only; success means that the entry is what was asked for, unless the plugin misleads the agent (`misled`) and has changed nothing; between commands the list stays |
| `SelfUpdate` | `self check`, `Fork` and the updater it creates, around an instance of `Clone` | `request` = the process that asks; `fork` = the updater; `config` = what each container was created with; the variables of `Clone` are those of the updater's command |
| `Stats` | `collect`, its reader and its timer | `channel` = `u`, `group` = the wait group |
| `Daemon` | the process: engine, broker, goroutines, signal, `systemd`, a process that runs once; extends `Stats` by the worker that calls it | `env` = `DOCKER_HOST` and `CONTAINER_HOST` of the process, `queue` = `updateRequests`, `cancelled` = the context, `health` = the retained health topic |
| `MC...` | instances for TLC | |
| `...Proofs` | theorems and their proofs | |

`Debouncer` and `Reconciler` both extend `UpdateQueue`: the former adds the steps
between a timer and the queue, which the latter takes as one (`DebounceFires`); the
latter adds the work.  In `Reconciler` a container is identified with its service,
and events of the same container and kind coalesce in `evtCh`, which is a set: every
order of handling is allowed.  A call is one step that works or fails; that a call
worked and its answer was lost is covered by failing after a restart, not by itself.
`Reconciler` leaves out the twin data, the sync of log types and the values of
metrics, which no other step reads, and the policy for over-long names.

In `CrashLoop` an update is reduced to the steps that share state with the marks: it
reads the entities (and may return early or miss some), lists the containers (or returns
early), registers, reads each mark and publishes what it found, and for what is stale
deletes in the cloud, clears the health and deregisters.  What was asked for is the set of
the scopes of requests: of one container, or of everything.  They begin in any order and
any number of them together, and any of them may be dropped (`Drop`).  That is more than
the code does: it never drops the request of a caller that waits, and a scope that is
asked for twice is one here.  The retry after a failed deletion in the cloud is a request
from the end of that update on.  No filter is configured.  The monitor handles events in
order, one at a time.  An event is only sent while the channel has room: the bound
`EvtCap` says how far the monitor may lag behind the engine.

In `Clone` a container created by the command restarts always (`CloneHostConfig`;
`--rm` is not modelled), and so does the original one.  On a restart of the machine
the engine starts what has that policy, also when it had been stopped by a call, but
not what was never started.  The command is not started again.

In `ContainerGroup` commands run one at a time, as the agent runs them, and may be
killed between any two calls or in the middle of one (`Partly`: a file cut short, a
directory half removed, containers created and not started).  A module's artifact has
a form (stored as `docker-compose.yaml`, or brought as `docker-compose.yml` by an
archive), the project that it declares, and is readable or not.  All services of a
project are one.  Images are pulled, hosts added to the file and the shared network
created without effect on this state.  `list` always shows modules; the daemon does
when `container_group.use_module_name` is set, and else shows a project by its own name.

In `ContainerModule` the agent runs one command at a time, and the workflow its own at
the same time; each call to the engine is a step.  A reference keeps what parsing
depends on: where its colons are, whether a part begins with a port, and what a name
stands for when registry and `library/` are spelled out.  `excused` records that a call
failed or that the image was not to be had, so that a failure can be asked for its
reason.

Both are shown to implement `SoftwareList` (`KeepsList`). `Entries` is what `list`
prints of modules: for a group the version file of a directory that has containers, for
a container the version in its label. `On` and `Asked` are the module and the version of
the command that runs, `Reported` is its exit status, as the agent gets it, where a
killed command counts as failed. `misled` is `FALSE` for groups; for containers it is
the history `unread`: an install that cannot read the engine's answer on its file exits
with 0 and has done nothing (`container/install.go:99-102`, below), which is a `Mislead`
of `SoftwareList`. Removing a project by its own name, and the commands on images, are
steps that leave the list alone (`Other`).

In `SelfUpdate` the requester ends with its container; the updater has no restart
policy and ends with the machine; there is one updater, named by `--fork-name`.
`Clone` does not know who runs its command: `SelfUpdate` says who begins it, when it is
killed (a further request stops the updater it finds), and of what the next container
is made.  It is an implementation of `Clone` (`ImplementsClone`, checked and proved), so
that what `Clone` promises holds for updates of the own container too.

In `Daemon` an update is one step of the worker (`Reconciler` has its parts), and
statistics are read of one container at a time, step by step as in `Stats`: readers of
different containers share nothing.  Queue, callers and shutdown meet as in the code.
The two health messages of the process and of one that runs once go to one retained
topic.

Some modules have faulty variants of a definition, named as such, right before the
definition: what a plausible mistake at that place would do.  No specification uses
them; putting one in the place of its definition makes TLC report the property that
guards against the mistake (`mutants` in `PROJECT.json`), which shows that the
property has something to say.

## Checks

Runs that must pass:

| run | configuration | shows | size |
|---|---|---|---|
| `debounce` | 2 tickets, 3 containers (one excluded), queue of 1, client side filters | no request lost, absorbed or stranded; each is begun or dropped with a full queue | 0.26 M states |
| `safety` | 2 containers, metrics on, 2 changes, 1 failed call of any kind, 1 break or restart, queue of 1 | `SparesListed`, `NothingFallsBetween`, refinement of `ServiceRegistry` | 3.1 M |
| `converge` | a container, an excluded one that may be registered from before, client side filters, reconcile loop, 1 change, 1 failed call, 1 break or restart | `Converges` | 0.7 M |
| `unattended` | 1 container, retry timer, 2 failed cloud calls, 1 change, 1 break or restart, 1 health check or bridge message, queue of 2, no reconcile loop | `RetriesUntilSynced`, `EventsSuffice`, `NothingFallsBetween` | 0.4 M |
| `alarms` | 1 container, 1 publisher, 2 attempts, 6 changes, 2 failed calls (of any kind) or restarts, retry and reconcile loop, one event in flight | `MarkHasAlarm`, `NoFalseAlarm`, `MarksAreShown`, `DownWhileLooping`, `GoneIsGone` | 0.8 M |
| `replace` | 4 containers, 2 runs with or without `--wait-for-exit`, no health check, 2 failed calls, 3 exits, 1 restart of the machine | `OneAtATime`, `EndsInOrder`, `RunsAgain` | 1.3 M |
| `self` | 3 containers, 2 requests, 1 failed call before and 1 during the replacement, 1 crash of the updater, 1 exit, 1 restart of the machine | `NameHeld`, `WorkingCopySurvives`, `ConfigKept`, `OwnNotHandedOver`, `Settles`, implementation of `Clone` | 0.7 M |
| `groups` | 2 modules, one with three artifacts (one unreadable), one without a project name; 2 failed calls, 2 kills | `StillRemovable`, `LogsFound`, `VersionIsDeployed`, `RemovedIsGone`, refinement of `SoftwareList` | 0.4 M |
| `modules` | 2 containers that share an image; images of a public registry, of a private one with a port, and from 2 archives; a workflow's image; 2 attempts, 1 failed call, 1 change | `ReplacedForImage`, `ReportsTruly`, `RemovedIsUnlisted`, `CommandsEnd`, refinement of `SoftwareList` | 0.7 M |
| `daemon` | 1 socket of podman, 2 attempts to reconnect, a queue of 1, 1 tick of the metrics, no reconcile loop | `HealthShown`, `OneRequest`, `GoesOn` | 50 000 |

The bounds are the smallest with which the cases meet that the properties are about: two
tickets are a timer and the callback it came too late for; a queue of one is full with a
request waiting; two containers are one that is listed and one that is stale in the same
update, or an id and a name that differ; two failed calls are a retry that fails again;
two runs of the command are a backup left behind and a run that meets it; two requests
for a self update are one that finds the updater of the other at work; two kills are an
install cut short after one that was, and a removal of what they left; an artifact each
of module and project name are the two ways a name resolves; two containers of one image
are a command on one that could touch what the other needs; one attempt to pull after a
failed one is the one with new credentials. The crash-loop run has one container because
marks, baselines and topics of different containers do not touch each other, one event
in flight, which is the monitor lagging behind by one, and one publisher: a second one,
for a new alarm while the old one's is still at work, is in `race`, and in the proofs
there is any number. With two sockets or with two ticks at a time the invariants of
`daemon` hold as well (0.2 M states each, too long with the liveness properties to be
kept). Counters for faults, changes, breaks, prompts, exits, reboots, crashes and runs
bound the environment only, never the program.

`NothingFallsBetween` and `MarksAreShown` say of each step what the liveness properties
say of whole behaviours, without fairness and without the reconcile loop.  A container is
in line, or owed an update that will look at it: by a request on its way, the update at
work, an event, a retry.  No step may take it from there, but for those named in `Loses`,
which the code does not make up for by itself.  For the reconciler these are a request
dropped at a full queue, a failed call that is not retried, and the union of ids and
names; for marks and removals a request dropped at a full queue (`app.go:238-244`), an
update that returns early (`909-912`, `932-935`) or leaves the entity out of its copy
(`tedge.go:286-295`), a publication or a deregistration that fails, a deletion in the cloud
that fails without a retry (`1041-1045`), and a publisher that registers its container
late.  The reconcile loop makes up for all of these, which is what `DownWhileLooping` and
`GoneIsGone` say.  In `unattended` the retry timer is on: while a deletion is pending, it
is what owes the update, and without it the step that ends the update is a violation.
`EventsSuffice` needs room in the queue: with two changes and a health check at a queue of
two, the request for the container that ended is dropped and TLC finds it violated.

The type invariants of `CrashLoop` and `Daemon`, which bound the attempts, are checked by
their runs; those of all modules are proved.  So is
`CloudFirst`, which `ServiceRegistry` implies where deletion from the cloud is enabled.
Deadlock is checked where something always goes on: with the
reconcile loop, in the debouncer, the daemon, and the runs of crash loops and software
modules (a command can always be given).  Without the reconcile loop the reconciler may
rest for good once the bounded environment has made its changes, and the clone command
or the requests for an update may be over (`safety`, `unattended`, `replace`, `self`);
those configurations say so.

Runs that must fail check one statement of the documentation each that the code does
not keep (`findings` in `PROJECT.json` quotes them):

- `race`: a recovery between a publisher's check of the mark and its publication
  leaves the alarm raised (`app.go:793-801`).
- `hang`: "if error happens and we get nothing of stats, release wait group whatever"
  (`stats_helper.go:33`): a body that cannot be decoded makes the reader send an error
  every 100 ms (`58-65`), each of which starts the two seconds' timer anew
  (`107`, `121-123`), so that neither the group nor the worker is released.

### Other disagreements seen while modelling

Each of these was met while a definition was translated; the modules follow the code.

*Requests and updates*

- The union of the ids and names of two scoped requests (`debounce.go:85`) is a filter
  of ids *and* names for the engine, which admits neither container.
  `NothingIsForgotten` therefore assumes that health checks do not go by name.
- Every request starts the quiet period anew, so requests that keep coming delay the
  update without bound (`debounce.go:119-130`).
- A request with the configured labels, but neither ids nor names, counts as a full
  scan in a merge and absorbs one without any filter (`debounce.go:22-33`), although
  only the latter removes stale services (`app.go:916`).
- "Effectively polling until the sync succeeds" (`app.go:462`; also
  `config.toml:102`): the update that the retry causes may return early, before it
  reaches the code that schedules the next retry (`app.go:909-912`, `932-935`).  The
  pending work then waits for another trigger: TLC finds `RetriesUntilSynced` violated
  when calls to the engine fail, and `unattended` checks it with failures of the cloud
  only.
- Metrics that fill the queue make the debouncer drop requests (`app.go:238`), the
  retry's among them: `RetriesUntilSynced` fails with the metrics ticker on and no
  reconcile loop.
- A failed deregistration, or a failed deletion of one orphan among several, is logged
  and not counted as pending (`app.go:338-347`, `1049`).
- Requests of the bridge and of retries carry no filter, so they register the
  containers that the configuration excludes (`config.toml:32`; `app.go:359`, `474`).

*Crash loops*

- Alarms are not cleared after a restart of the daemon, since the marks are in memory
  and an unmarked container has nothing to clear (`app.go:252`, `822`).
- The first positive restart count becomes the baseline and is not counted
  (`app.go:634-640`), so that the threshold (`config.toml:81`) is reached one restart
  late; a threshold of 0 takes effect as documented only through a default that is
  applied elsewhere (`config.toml:83`, `app.go:228`, `247`).
- "The next doUpdate() will overwrite this with the real container status"
  (`app.go:780`): not while the mark is set (`993-999`), and only a healthy or destroy
  event takes it away, so a container without a health check stays down for ever.
- The event limiter forgets keys that it never recorded: it is called with the name of
  the service (`app.go:625`, `677`), its keys are `service/action` (`app.go:687`).
- A healthy event that was lost leaves the old baseline, so that the next loop may be
  reported too early: `NoFalseAlarm` excepts a count that was missed.

*Replacing containers*

- Reverting a replacement: an error while its logs are read ends it before the previous
  container is restored (`container.go:1556-1559`), and a next container that cannot be
  removed keeps the name (`container.go:1570-1577`), although the comment says that the
  previous one "needs to be restored".
- A previous container that could not be removed keeps its restart policy and comes up
  with the machine beside the next one (`container.go:1586`); one whose policy was taken
  away by `--wait-for-exit` does not come up at all when the machine or the command goes
  down in between (`1441`).

*Self update*

- A container that was restored by a restart of the machine goes by the name of its
  backup; the update that it asks for then is made under that name (`container.go:1435`).
- When the own container is not found (`Self` fails, or nothing that runs has the
  hostname) and `--container` is not given or names another one, the check goes by no name
  or by the wrong one, and the own container is left to the container plugin
  (`check.go:93-100`).  `OwnNotHandedOver` is about checks that have the right name.
- `len(args)-1 > ArgsLenAtDash()` drops a command of one word behind `--`
  (`container_clone.go:90`, `run_context.go:114`).
- The fork does not pass on how long to wait for health.
- What is ignored of the environment is compared by prefix, and `HOST` is ignored by
  default (`container_clone.go:79`, `container.go:1971`): settings of the user that
  begin with it are lost at the first update. `ConfigKept` excepts them, and no others.
- The user namespace is read from podman's own interface only; when that call fails
  once, it is lost for this and all later containers.  `ConfigKept` excepts it.

*Software modules*

- An unreadable compose file takes the place of the good one before it is read
  (`install.go:96`, `109`): the group runs on and can no longer be stopped or removed
  by compose.  `StillRemovable` excepts it.  An archive that cannot be unpacked
  completely is stored as `docker-compose.yaml`, which later installs of a
  `docker-compose.yml` then read first and refuse, until the group is removed.
- A version as a text file after one as an archive with a `docker-compose.yml` is
  reported as installed, while compose deploys the old file that is still in the
  directory (`install.go:90-108`).  `VersionsAreTrue` assumes `FormsStay`.
- Only running containers are asked for the directory of a project
  (`container.go:1138`): a project shown by its own name that has exited is looked for
  in a directory of that name.
- The container plugin reports success without having installed anything when the
  engine's answer on a file cannot be read (`container/install.go:99-102`): the agent is
  told that the version runs.  `ReportsTruly` excepts it (`unread`), `KeepsList` has it as
  `Mislead`, and `NotMisled` says that nothing else does.  An answer that is not JSON is
  taken for an image that was loaded.
- The container that is replaced is removed before the next one is created or started;
  nothing brings it back when that fails.
- A file that does not have the requested image is used all the same, by the container
  plugin, and refused by the image plugin.
- With `always_pull`, a pull that podman refuses without an error passes with the old
  image that is still there.
- `finalize` prunes the images that a workflow has just installed for the next update.
- The list of images cuts a tag at the first colon, so that a registry's port is taken
  for the beginning of the version; removal joins the two again, installation ignores
  the version when the name has a tag.

*Start, stop and statistics*

- A process that runs once and is killed turns the health to "down" while the service
  runs, although it should not affect it (`app.go:159`).
- The default of the crash-loop threshold is set on a copy of the settings
  (`app.go:247`).
- The socket that is found first is kept in the process's environment: a reconnect
  cannot find another one, and a socket's file that nobody serves hides those after it.
- Cancelling podman's events closes the channel of errors as well: the monitor may go
  round once more before it ends (`app.go:713`).
- The registration at the start is only logged when it fails.  A message of the bridge
  that is retained may arrive before its route is added.
- A reader that `collect` has left waits for good at the channel.  Errors of the
  statistics are ignored and published as zeros.

### Fairness

Liveness assumes that goroutines are scheduled and calls return (weak fairness of the
worker, the monitor, the publishers, timer callbacks and commands), that timers expire,
that a goroutine blocked in a channel send gets its turn (strong fairness of
`InitialUpdate`, `ReconcileTick` and `Submit`: Go channels serve waiting senders in
order), that a `select` chooses at random and so takes the shutdown in the end (strong
fairness of `Stop`), that the mapper delivers, and that the engine restarts what
exited.  `ContainerGroup` states no liveness.  Nothing is assumed of failures, changes,
breaks, crashes, restarts, signals, sockets, connections or messages.  In `Debouncer`,
that some timer expires assumes that requests pause for the quiet period now and then:
the code has no upper bound on the delay.

## Proofs

All for every value of the constants, under the named assumptions of the modules.

- `DebouncerProofs`:
  `TypeCorrect`; `PendingIsTimed` (`PendingHasTimer` is inductive with the types);
  `FullScansAreKept`, assuming the configured filter has no labels, and
  `NothingIsForgotten`, assuming in addition no health checks by name, without which it
  fails (see *Other disagreements*). Both rest on what a merge admits
  (`MergeKeepsFullScan`, `MergeAdmitsBoth`), on the filters that can be outstanding at
  all (`UniformFilters`) and on tickets that stay apart (`TicketsStayApart`): a ticket
  in hand-off is not used again, so a hand-off is never overwritten.
- `ReconcilerProofs`:
  `TypeCorrect`; `CloudIsFirst`: `CloudFirst` is not inductive, the step that
  deregisters needs that its target has been released, which is the strengthening
  `CloudReleased`; `RegistryKept`: every step of the reconciler is a step of
  `ServiceRegistry` or leaves its variables alone, from the same invariant;
  `ListedIsSpared`: what is left to remove was not listed, and what is left to sweep is
  not in the copy of the store, which has all that was listed (`ListedSpared`).
  `NothingIsMissed` (`NothingFallsBetween`): besides `ListedSpared` it needs `FlowInv`
  (no filter on its way is narrower than the configured one but for ids and names, a
  failed deletion is remembered to the end of the update, and what is left to publish is
  listed) and `MonitorWaits` (the monitor has at most one request, and waits for it, so
  that the update of a new stream begins after its subscription). `RestIsPublished`: in
  behaviours that lose nothing, entity store and health topics agree with the engine
  whenever nothing is outstanding, assuming that the configured filter removes services
  at all (`IsEmpty(Cli)`, see *Other disagreements*).
- `CrashLoopProofs`:
  `TypeCorrect`; `MarksHaveAlarms`: `MarkHasAlarm` with the strengthening that a
  container whose alarm is about to be cleared is not marked; `NoAlarmIsFalse`
  (`NoFalseAlarm`), assuming `Threshold > 0` (see *Other disagreements* for 0):
  `CountInv` says that, unless a healthy or destroy event is still to be handled or its
  count was missed, the restarts above the baseline are at most those since the
  container was created or healthy, and that a marked container is there and has as many
  as required. `MarksShown` (`MarksAreShown`): `WorkInv` says what the variables of an
  update are at each of its steps, and the step lemmas say for each step that what is in
  line stays so, or is owed an update (`Due`), but for the losses that are named
  (`Loses`). `RestIsShown` follows: in behaviours without these, when monitor and worker
  are at rest and nothing is asked for, what is marked is shown as down and what is gone
  is not registered.
- `DaemonProofs`:
  `TypeCorrect`; `HealthIsShown` (`HealthShown`): `HealthInv` gives the health for each
  state of the connection, wherever the process is, and that one that is gone has no
  connection; `RequestsAreSingle` (`OneRequest`), for any number of callers and places
  in the queue: `RequestInv` adds that the worker has put down what it had before it
  receives again, and `StartedInv` that worker and callers run only while the service
  does, so that nobody is left waiting by a worker that was never started.
- `CloneProofs`:
  `TypeCorrect`; `CopySurvives`: `WorkingCopySurvives` of `Clone` with a health check
  and without `--wait-for-exit`. The invariant `SurvivorInv` says which copy survives:
  one other than the next container until the cleanup, the next one from then on.
  `OneRuns` (`OneAtATime`, which says nothing once the machine was restarted):
  `SingleInv` says that no two containers have the same name (`NamesApart`), and that
  until the machine restarts only the container with the main name is up
  (`OnlyNamedUp`), since the previous one is stopped before it is renamed and the next
  one before it is removed. `RunsEndInOrder` (`EndsInOrder`): `PlaceInv` says who has
  the name at each step, unless a call failed, so that the engine refuses neither to
  rename back nor to start the previous container.
- `SelfUpdateProofs` takes over the theorems about `Clone` (as `P`) and assumes that the
  updater is not told to wait for exit (`TRUE \notin WaitForExit`, the default of the
  flag, `container_clone.go:72`) and that what the lists call the own container, and
  `--container` if it is given, is the main name (`SelfNamesMain`): `TypeCorrect`;
  `CloneImplemented`: every step of the composition is one of `Clone` or leaves its
  variables alone, for which a run may only begin with a container that is up or has the
  main name: who asks is up, and only what has been stopped is renamed or removed;
  `OwnCopySurvives`: with a health check, what `Clone` promises holds over any number of
  updates that stop each other's updaters; `OwnKept`: what is handed to the other
  plugins by a check that has the right name is not the container that is up, since
  until the machine restarts there is only one and it is the one that asked;
  `NameIsHeld` (`NameHeld`): `HeldInv` says who has the name while the updater works,
  and who stops an updater is up, so has the name; `ConfigIsKept`: the configuration of
  a container is what the updater read, less what the code takes out, and `ConfigInv`
  says that what it puts in for itself is taken out again.
- `ContainerGroupProofs`:
  `TypeCorrect`; `RemovableStays`, `RemovalsRemove`, `LogsAreFound` and
  `VersionsAreTrue`, assuming `ProjectsStay` (versions of a module declare the same
  project, which is not called like another module) and, for the last, `FormsStay`,
  without which it fails (see *Other disagreements*). None of the four is inductive:
  they rest on `IInv`, which says that files and containers of a directory are from its
  module (`FilesOfModule`, `ContainersHaveDirectory`), that the directory a removal
  works on is that of its target (`RemovalHasTarget`), and that no containers of it are
  left once compose down has succeeded (`DirectoryIsFree`), so that removing the
  directory strands nothing; `OneForm` adds that compose chooses the file just written.
  `ListIsKept` (`KeepsList`), step by step: each one is a step of `SoftwareList` or
  leaves its variables alone. It assumes `ProjectsStay` and `ProjectsApart` (different
  modules declare different projects): without the latter TLC shows that an install
  moves another module's containers to its own directory. `ListInv` adds that a removal
  works in the directory of its module, even after a failure, and that what is removed
  by the name of its project has no version file.
- `ContainerModuleProofs`:
  `TypeCorrect`; `ImageIsThere` (`ReplacedForImage`); `OutcomesAreTrue`
  (`ReportsTruly`), assuming `MaxAttempts > 1`, as in the code: a first attempt with
  credentials that are not valid any more is no excuse; `RemovalsUnlist`
  (`RemovedIsUnlisted`), assuming that the engine lists an image under a reference that
  leads back to it (`ListsItself`). The invariant `IInv` has the types with the shape of
  a command at each step (`Shape`), that the workflow installs images and nothing else
  (`WorkflowInstalls`), and `AgentInv`: only the agent takes images away, at the end of
  a command, and the workflow only adds some, so an image that the agent has seen stays
  (`ImageInv`); no container is in the way of the one to be created, which has what was
  asked for (`ContainerInv`); a second attempt has valid credentials or an excuse
  (`PullInv`); the outcome is true, or its answer was not read (`OutcomeInv`), which
  only a failed read can bring about (`NotMisled`). Which image of an archive counts
  (the first that is equal, the last that is loaded) exists because the naturals are
  well-founded. `ListIsKept` (`KeepsList`), from the exit status as it is and without
  further assumptions: who has no command is on no module (`IdleInv`), the workflow's
  steps leave the containers alone, and the steps of a command change the container of
  its own module only.

Every invariant, action property and refinement that a run checks and that holds has a
theorem. Model-checked only: the liveness properties (`EventuallyBegun`, `Converges`,
`RetriesUntilSynced`, `EventsSuffice`, `DownWhileLooping`, `GoneIsGone`, `RunsAgain`,
`Settles`, `CommandsEnd`, `GoesOn`), since fairness and `ENABLED` are beyond the proofs,
and the runs that must fail. `RestIsPublished` and `RestIsShown` are the safety part of
`EventsSuffice` and of `DownWhileLooping` and `GoneIsGone`: that rest is reached is what
is left to fairness.

## Not modelled

- The tools restart, remove, logs and run-in-context, the engine command and the init
  command: one or two calls in a row, whose errors are returned.
- The arithmetic on statistics and the separation of output streams: pure functions of
  what the engine sends.  What reads them is in `Stats`.
- `EnsureExtraHost`, which edits a compose file in place, and `DeleteLegacyService`, which
  removes what a version before registered.
- Retries of single HTTP requests: a call that is tried again is one call here, which
  works or fails.
- Names, topics and payloads as text, settings and their parsing, reading of logs,
  packaging, tests, vendored code.
- A container in the host's network, which has the host's hostname, by which `Self` does
  not find it: like any other that is not found, it is one that goes by `--container` or by
  no name (`SelfName`).
- What a plugin does with the agent's own container, when a check without its name has
  left it there: the agent ends with it.
- A process that runs once and loses its connection without being killed.
- Several components at once beyond what is composed: crash loops with broken streams, or
  with the names of groups, have too many states for an instance in which both matter.
  Each has the other's effect as a step of its environment.

## Plan

1. *Done*: debouncer and queue, reconciler with its abstract specification, crash
   loops, clone, container groups; container and image modules with pull, prune and a
   workflow beside them, with the abstract specification of the list that both implement;
   the update of the own container, composed with and implementing `Clone`; the process
   with start, once and shutdown, and statistics; their runs, and theorems about all of
   them.
2. Theorems to come: the debouncer as an implementation of the reconciler's
   `DebounceFires` (the steps between a timer and the queue are one step of it or none);
   the monitor's rounds in `Daemon`; that a run of `Clone` which was reverted leaves the
   previous container as it was configured.
3. Compositions beyond TLC as they stand: crash loops with broken streams and with the
   names of groups (a destroy event is named after the version file has gone).
