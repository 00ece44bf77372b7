----------------------------- MODULE Reconciler -----------------------------
(***************************************************************************)
(* The core of the plugin: the worker that brings thin-edge.io and the     *)
(* cloud in line with the containers of the engine (App.doUpdate), and     *)
(* everything that prompts it: the monitor of the engine's events, the     *)
(* bridge and health-check messages, the reconcile loop, and the retry     *)
(* that a failed cloud deletion schedules.                                 *)
(*                                                                         *)
(* Around it are the container engine, the entity store and retained       *)
(* health topics of thin-edge.io, the mapper that announces new entities,  *)
(* and the managed objects of the cloud.  Each call to one of them is a    *)
(* step of its own, so that anything may happen between two calls; calls   *)
(* fail, the event stream breaks, and the process restarts.                *)
(*                                                                         *)
(* A container is identified with the service it is published as.          *)
(***************************************************************************)
EXTENDS UpdateQueue

CONSTANTS
  Cli,             \* the filter of the configuration file
  DeleteFromCloud, \* delete_from_cloud.enabled
  DeleteOrphans,   \* delete_from_cloud.orphans
  RetryOn,         \* sync_retry_interval > 0
  ReconcileOn,     \* reconcile.interval > 0
  MetricsOn,       \* metrics.enabled
  FaultyApi,       \* the interfaces whose calls may fail
  MaxFaults,       \* bounds: failed calls,
  MaxChanges,      \*   changes of a container,
  MaxBreaks,       \*   broken event streams and restarts of the process,
  MaxPrompts       \*   bridge and health-check messages

Api == {"thin-edge", "mqtt", "engine", "cloud"}

ASSUME ReconcilerAssumption ==
  /\ Cli \in FilterOptions
  /\ {DeleteFromCloud, DeleteOrphans, RetryOn, ReconcileOn, MetricsOn} \subseteq BOOLEAN
  /\ FaultyApi \subseteq Api
  /\ {MaxFaults, MaxChanges, MaxBreaks, MaxPrompts} \subseteq Nat
  /\ None \notin Container

VARIABLES
  engine,          \* state of each container: "absent", "up" or "down"
  entities,        \* services in the thin-edge.io entity store
  health,          \* retained health topic of each service
  mapper,          \* registrations the mapper has not yet passed to the cloud
  cloud,           \* services with a managed object
  monitor,         \* where the monitor goroutine is
  stream,          \* whether its event stream is intact
  evtCh,           \* events delivered to it and not yet handled
  retryArmed,      \* syncRetryScheduled: a retry timer is running
  orphansChecked,  \* an orphan check was completed within its interval
  phase,           \* where doUpdate is
  snapshot,        \* doUpdate's entities: the keys of its copy of the store
  items,           \* status of the containers it listed, else "absent"
  stale,           \* existingServices once the listed ones are taken out
  todo,            \* what its current loop has left to do
  target,          \* the stale service being removed
  syncPending,     \* cloudSyncPending
  removed,         \* staleServicesRemoved
  released,        \* history: services whose managed object the cloud
                   \* acknowledged as gone since they were last registered
  faults, changes, breaks, prompts  \* counters for the bounds

worldVars == <<engine, entities, health, mapper, cloud, released>>
monitorVars == <<monitor, stream, evtCh>>
timerVars == <<retryArmed, orphansChecked>>
workVars == <<phase, snapshot, items, stale, todo, target, syncPending, removed>>
counters == <<faults, changes, breaks, prompts>>
vars == <<queueVars, worldVars, monitorVars, timerVars, workVars, counters>>

Status == {"absent", "up", "down"}
Event == [id : Container, kind : {"started", "ended"}]
Phase == {"idle", "metrics", "entities", "list", "register", "health", "stale",
          "clear-health", "deregister", "sweep", "sweeping", "end", "failed"}

TypeOK ==
  /\ QueueTypeOK
  /\ engine \in [Container -> Status]
  /\ health \in [Container -> Status]
  /\ items \in [Container -> Status]
  /\ entities \subseteq Container
  /\ mapper \subseteq Container
  /\ cloud \subseteq Container
  /\ released \subseteq Container
  /\ snapshot \subseteq Container
  /\ stale \subseteq Container
  /\ todo \subseteq Container
  /\ target \in Container \cup {None}
  /\ monitor \in {"stopped", "subscribed", "updating", "streaming"}
  /\ evtCh \subseteq Event
  /\ phase \in Phase
  /\ stream \in BOOLEAN /\ retryArmed \in BOOLEAN /\ orphansChecked \in BOOLEAN
  /\ syncPending \in BOOLEAN /\ removed \in BOOLEAN
  /\ faults \in Nat /\ changes \in Nat /\ breaks \in Nat /\ prompts \in Nat

NoItems == [c \in Container |-> "absent"]

\* A device that may already have run the plugin, under this configuration or another:
\* any services are registered, and their managed objects exist unless they were never
\* created.
Init ==
  /\ QueueInit
  /\ engine \in [Container -> {"absent", "up"}]
  /\ entities \in SUBSET Container
  /\ health = [c \in Container |-> IF c \in entities THEN "up" ELSE "absent"]
  /\ cloud \in SUBSET entities
  /\ mapper = {}
  /\ released = {}
  /\ monitor = "stopped" /\ stream = FALSE /\ evtCh = {}
  /\ retryArmed = FALSE /\ orphansChecked = FALSE
  /\ phase = "idle"
  /\ snapshot = {} /\ stale = {} /\ todo = {} /\ target = None
  /\ items = NoItems
  /\ syncPending = FALSE /\ removed = FALSE
  /\ faults = 0 /\ changes = 0 /\ breaks = 0 /\ prompts = 0

-----------------------------------------------------------------------------
(***************************************************************************)
(* Calls: each either works or fails.                                      *)
(***************************************************************************)

Works == UNCHANGED faults

Fails(api) ==
  /\ api \in FaultyApi
  /\ faults < MaxFaults
  /\ faults' = faults + 1

-----------------------------------------------------------------------------
(***************************************************************************)
(* The worker and doUpdate                                                 *)
(***************************************************************************)

\* The worker takes the next request.
BeginRequest ==
  /\ phase = "idle"
  /\ Receive
  /\ phase' = IF Head(queue).action = "UpdateAll" THEN "entities" ELSE "metrics"
  /\ UNCHANGED <<worldVars, monitorVars, timerVars, snapshot, items, stale, todo, target,
                 syncPending, removed, counters>>

\* The variables of doUpdate are local to it.
ForgetWork ==
  /\ phase' = "idle"
  /\ snapshot' = {} /\ stale' = {} /\ todo' = {} /\ target' = None
  /\ items' = NoItems
  /\ syncPending' = FALSE /\ removed' = FALSE

\* GetEntities.  Entities whose twin data cannot be read are left out.
ReadEntities ==
  /\ phase = "entities"
  /\ \/ /\ Works
        /\ snapshot' = entities /\ phase' = "list"
     \/ /\ Fails("thin-edge")
        /\ \E known \in SUBSET entities : known # entities /\ snapshot' = known
        /\ phase' = "list"
     \/ /\ Fails("thin-edge")
        /\ phase' = "failed" /\ UNCHANGED snapshot
  /\ UNCHANGED <<queueVars, worldVars, monitorVars, timerVars, items, stale, todo, target,
                 syncPending, removed, changes, breaks, prompts>>

Listed == {c \in Container : items[c] # "absent"}

\* The containers the engine has now, through the filter of the request.  What
\* is registered and not listed is stale.
ListContainers ==
  /\ phase = "list"
  /\ \/ /\ Works
        /\ items' = [c \in Container |->
                       IF Admits(running.options, c) THEN engine[c] ELSE "absent"]
        /\ LET listed == {c \in Container : items'[c] # "absent"}
           IN  /\ stale' = snapshot \ listed
               /\ todo' = listed
        /\ phase' = "register"
     \/ /\ Fails("engine")
        /\ phase' = "failed" /\ UNCHANGED <<items, stale, todo>>
  /\ UNCHANGED <<queueVars, worldVars, monitorVars, timerVars, snapshot, target,
                 syncPending, removed, changes, breaks, prompts>>

\* A faulty variant: the copy of the store is not kept up to date.
SnapshotWithout(c) == snapshot

\* The copy of the store has a listed service even when the call for it failed.
SnapshotWith(c) == snapshot \cup {c}

\* CreateEntity for a listed container: new, or known already (409).
Register(c) ==
  /\ phase = "register" /\ c \in todo
  /\ todo' = todo \ {c}
  /\ snapshot' = SnapshotWith(c)
  /\ \/ /\ Works
        /\ entities' = entities \cup {c}
        /\ IF c \in entities
           THEN UNCHANGED <<mapper, released>>
           ELSE mapper' = mapper \cup {c} /\ released' = released \ {c}
     \/ /\ Fails("thin-edge")
        /\ UNCHANGED <<entities, mapper, released>>
  /\ UNCHANGED <<queueVars, engine, health, cloud, monitorVars, timerVars, phase, items, stale,
                 target, syncPending, removed, changes, breaks, prompts>>

\* Publish the retained health status of a listed container.
PublishHealth(c) ==
  /\ phase = "health" /\ c \in todo
  /\ todo' = todo \ {c}
  /\ \/ Works /\ health' = [health EXCEPT ![c] = items[c]]
     \/ Fails("mqtt") /\ UNCHANGED health
  /\ UNCHANGED <<queueVars, engine, entities, mapper, cloud, released, monitorVars, timerVars,
                 phase, items, snapshot, stale, target, syncPending, removed,
                 changes, breaks, prompts>>

\* A faulty variant: the service is given up although the cloud failed.
DeletionFailedAndIgnored(c) ==
  /\ Fails("cloud")
  /\ target' = c /\ phase' = "clear-health"
  /\ syncPending' = TRUE
  /\ UNCHANGED <<cloud, released>>

\* On failure the service stays registered and a retry is noted.
DeletionFailed(c) ==
  /\ Fails("cloud")
  /\ syncPending' = TRUE
  /\ UNCHANGED <<cloud, released, target, phase>>

\* The cloud half of removing a stale service: look up its managed object and
\* delete it; that there is none counts as success.
DeleteService(c) ==
  /\ phase = "stale" /\ c \in todo
  /\ todo' = todo \ {c}
  /\ \/ /\ DeleteFromCloud /\ Works
        /\ cloud' = cloud \ {c} /\ released' = released \cup {c}
        /\ target' = c /\ phase' = "clear-health"
        /\ UNCHANGED syncPending
     \/ /\ DeleteFromCloud /\ DeletionFailed(c)
     \/ /\ ~DeleteFromCloud /\ Works
        /\ target' = c /\ phase' = "clear-health"
        /\ UNCHANGED <<cloud, released, syncPending>>
  /\ UNCHANGED <<queueVars, engine, entities, health, mapper, monitorVars, timerVars, items,
                 snapshot, stale, removed, changes, breaks, prompts>>

\* DeregisterEntity, first half: clear the retained health topic.
ClearHealth ==
  /\ phase = "clear-health"
  /\ phase' = "deregister"
  /\ \/ Works /\ health' = [health EXCEPT ![target] = "absent"]
     \/ Fails("mqtt") /\ UNCHANGED health
  /\ UNCHANGED <<queueVars, engine, entities, mapper, cloud, released, monitorVars, timerVars,
                 items, snapshot, stale, todo, target, syncPending, removed,
                 changes, breaks, prompts>>

\* DeregisterEntity, second half.  A failure is only logged.
Deregister ==
  /\ phase = "deregister"
  /\ phase' = "stale"
  /\ target' = None
  /\ removed' = TRUE
  /\ snapshot' = snapshot \ {target}
  /\ \/ Works /\ entities' = entities \ {target}
     \/ Fails("thin-edge") /\ UNCHANGED entities
  /\ UNCHANGED <<queueVars, engine, health, mapper, cloud, released, monitorVars, timerVars,
                 items, stale, todo, syncPending, changes, breaks, prompts>>

\* Ask the cloud for the managed objects; those unknown to the copy of the
\* store are orphans.
FindOrphans ==
  /\ phase = "sweep"
  /\ \/ Works /\ todo' = cloud \ snapshot /\ phase' = "sweeping" /\ UNCHANGED syncPending
     \/ Fails("cloud") /\ syncPending' = TRUE /\ phase' = "end" /\ UNCHANGED todo
  /\ UNCHANGED <<queueVars, worldVars, monitorVars, timerVars, items, snapshot, stale, target,
                 removed, changes, breaks, prompts>>

\* Delete one orphan.  A failure is only logged.
DeleteOrphan(c) ==
  /\ phase = "sweeping" /\ c \in todo
  /\ todo' = todo \ {c}
  /\ \/ Works /\ cloud' = cloud \ {c}
     \/ Fails("cloud") /\ UNCHANGED cloud
  /\ UNCHANGED <<queueVars, engine, entities, health, mapper, released, monitorVars, timerVars,
                 phase, items, snapshot, stale, target, syncPending, removed, changes, breaks, prompts>>

\* The orphan check is due: its interval is over or services were removed.
SweepDue == DeleteFromCloud /\ DeleteOrphans /\ (removed \/ ~orphansChecked)

\* A loop of doUpdate is over; the next part begins.  Only an update without
\* any scope removes stale services.
EndLoop ==
  /\ todo = {}
  /\ \/ /\ phase = "register"
        /\ phase' = "health" /\ todo' = Listed
        /\ UNCHANGED <<stale, orphansChecked>>
     \/ /\ phase = "health"
        /\ phase' = "stale" /\ stale' = {}
        /\ todo' = IF IsEmpty(running.options) THEN stale ELSE {}
        /\ UNCHANGED orphansChecked
     \/ /\ phase = "stale"
        /\ phase' = (IF SweepDue THEN "sweep" ELSE "end")
        /\ UNCHANGED <<todo, stale, orphansChecked>>
     \/ /\ phase = "sweeping"
        /\ phase' = "end" /\ orphansChecked' = TRUE
        /\ UNCHANGED <<todo, stale>>
  /\ UNCHANGED <<queueVars, worldVars, monitorVars, retryArmed, items, snapshot, target,
                 syncPending, removed, counters>>

\* A faulty variant: no failure calls for a retry.
RetryNeverNeeded == FALSE

\* A failed deletion calls for a retry.  An update that could not read the
\* entities or list the containers has returned before and calls for none.
RetryNeeded == phase = "end" /\ syncPending /\ RetryOn

\* doUpdate ends: it arms the retry timer, unless one is running, and the
\* caller, if any, gets its result.
FinishRequest ==
  /\ phase \in {"metrics", "end", "failed"}
  /\ ForgetWork
  /\ Complete
  /\ retryArmed' = (retryArmed \/ RetryNeeded)
  /\ monitor' = IF running.caller = "monitor" THEN "streaming" ELSE monitor
  /\ UNCHANGED <<worldVars, stream, evtCh, orphansChecked, counters>>

Worker ==
  \/ BeginRequest
  \/ ReadEntities
  \/ ListContainers
  \/ \E c \in Container : \/ Register(c)
                          \/ PublishHealth(c)
                          \/ DeleteService(c)
                          \/ DeleteOrphan(c)
  \/ ClearHealth
  \/ Deregister
  \/ FindOrphans
  \/ EndLoop
  \/ FinishRequest

-----------------------------------------------------------------------------
(***************************************************************************)
(* What prompts an update                                                  *)
(***************************************************************************)

\* The timer of the debouncer fires and the pending request is offered to the
\* worker (Debouncer has the steps in between).
DebounceFires ==
  /\ pending # None
  /\ Offer(pending)
  /\ pending' = None
  /\ UNCHANGED <<running, worldVars, monitorVars, timerVars, workVars, counters>>

\* The retry timer: unmark it, then ask for an update of everything.
RetryFires ==
  /\ retryArmed
  /\ retryArmed' = FALSE
  /\ Coalesce(Everything)
  /\ UNCHANGED <<queue, running, worldVars, monitorVars, orphansChecked, workVars, counters>>

\* A faulty Subscribe that asks for the update before it subscribes.
SubscribeAfterUpdate ==
  /\ \/ /\ monitor = "stopped" /\ monitor' = "updating"
        /\ Submit([action |-> "UpdateAll", options |-> Cli, caller |-> "monitor"])
        /\ UNCHANGED stream
     \/ /\ monitor = "streaming" /\ ~stream
        /\ stream' = TRUE
        /\ UNCHANGED <<monitor, queueVars>>
  /\ UNCHANGED <<evtCh, worldVars, timerVars, workVars, counters>>

\* Monitor: open the event stream ...
Subscribe ==
  /\ monitor = "stopped"
  /\ monitor' = "subscribed"
  /\ stream' = TRUE
  /\ UNCHANGED <<queueVars, evtCh, worldVars, timerVars, workVars, counters>>

\* ... update everything before reacting to events (it waits for the result) ...
InitialUpdate ==
  /\ monitor = "subscribed"
  /\ monitor' = "updating"
  /\ Submit([action |-> "UpdateAll", options |-> Cli, caller |-> "monitor"])
  /\ UNCHANGED <<stream, evtCh, worldVars, timerVars, workVars, counters>>

\* A faulty variant: an ended container is looked for as well, and so not removed.
RequestScoped(e) == [Cli EXCEPT !.ids = {e.id}]

\* The request for an event: a scoped one for its container (its id takes the
\* place of configured ones), or the configured filter when a container ended.
RequestFor(e) == IF e.kind = "started" THEN [Cli EXCEPT !.ids = {e.id}] ELSE Cli

\* ... then handle the events.
HandleEvent(e) ==
  /\ monitor = "streaming"
  /\ e \in evtCh
  /\ evtCh' = evtCh \ {e}
  /\ Coalesce(RequestFor(e))
  /\ UNCHANGED <<queue, running, monitor, stream, worldVars, timerVars, workVars, counters>>

\* The stream ended: Monitor returns, and is started again with a new client.
\* Events not yet handled may be lost with it.
MonitorReturns ==
  /\ monitor = "streaming"
  /\ ~stream
  /\ monitor' = "stopped"
  /\ evtCh' = {}
  /\ UNCHANGED <<queueVars, stream, worldVars, timerVars, workVars, counters>>

\* The reconcile loop and the metrics ticker.  The former waits for its result.
ReconcileTick ==
  /\ ReconcileOn
  /\ ~\E i \in DOMAIN queue : queue[i].caller = "reconcile"
  /\ running # None => running.caller # "reconcile"
  /\ Submit([action |-> "UpdateAll", options |-> Cli, caller |-> "reconcile"])
  /\ UNCHANGED <<worldVars, monitorVars, timerVars, workVars, counters>>

MetricsTick ==
  /\ MetricsOn
  /\ Submit([action |-> "UpdateMetrics", options |-> Cli, caller |-> "metrics"])
  /\ UNCHANGED <<worldVars, monitorVars, timerVars, workVars, counters>>

\* The bridge came online, or a health check of the plugin itself; a health
\* check of one service.
BridgeOnline ==
  /\ prompts < MaxPrompts /\ prompts' = prompts + 1
  /\ Coalesce(Everything)
  /\ UNCHANGED <<queue, running, worldVars, monitorVars, timerVars, workVars,
                 faults, changes, breaks>>

HealthCheck(n) ==
  /\ prompts < MaxPrompts /\ prompts' = prompts + 1
  /\ Coalesce([Everything EXCEPT !.names = {n}])
  /\ UNCHANGED <<queue, running, worldVars, monitorVars, timerVars, workVars,
                 faults, changes, breaks>>

-----------------------------------------------------------------------------
(***************************************************************************)
(* The world                                                               *)
(***************************************************************************)

\* A container is created and started, stops, or is removed.  The engine sends
\* an event, which reaches the monitor while its stream is intact.
EngineChanges(c) ==
  /\ changes < MaxChanges /\ changes' = changes + 1
  /\ \E status \in Status \ {engine[c]} :
       /\ status = "down" => engine[c] = "up"
       /\ engine' = [engine EXCEPT ![c] = status]
       /\ LET e == [id |-> c, kind |-> IF status = "up" THEN "started" ELSE "ended"]
          IN  evtCh' = IF stream THEN evtCh \cup {e} ELSE evtCh
  /\ UNCHANGED <<queueVars, entities, health, mapper, cloud, released, monitor, stream,
                 timerVars, workVars, faults, breaks, prompts>>

\* The mapper's announcement arrives and the managed object is created.
MapperDelivers(c) ==
  /\ c \in mapper
  /\ mapper' = mapper \ {c}
  /\ cloud' = cloud \cup {c}
  /\ UNCHANGED <<queueVars, engine, entities, health, released, monitorVars, timerVars,
                 workVars, counters>>

OrphansIntervalOver ==
  /\ orphansChecked
  /\ orphansChecked' = FALSE
  /\ UNCHANGED <<queueVars, worldVars, monitorVars, retryArmed, workVars, counters>>

StreamBreaks ==
  /\ stream
  /\ breaks < MaxBreaks /\ breaks' = breaks + 1
  /\ stream' = FALSE
  /\ UNCHANGED <<queueVars, worldVars, monitor, evtCh, timerVars, workVars, faults, changes, prompts>>

\* The process ends anywhere and is started again: what it kept in memory is
\* gone, thin-edge.io, the mapper and the cloud keep theirs.
Restart ==
  /\ breaks < MaxBreaks /\ breaks' = breaks + 1
  /\ pending' = None
  /\ queue' = <<>>
  /\ running' = None
  /\ monitor' = "stopped" /\ stream' = FALSE /\ evtCh' = {}
  /\ retryArmed' = FALSE /\ orphansChecked' = FALSE
  /\ ForgetWork
  /\ UNCHANGED <<worldVars, faults, changes, prompts>>

Triggers ==
  \/ DebounceFires
  \/ RetryFires
  \/ Subscribe
  \/ InitialUpdate
  \/ \E e \in evtCh : HandleEvent(e)
  \/ MonitorReturns
  \/ ReconcileTick
  \/ MetricsTick
  \/ BridgeOnline
  \/ \E n \in Name : HealthCheck(n)

World ==
  \/ \E c \in Container : EngineChanges(c) \/ MapperDelivers(c)
  \/ OrphansIntervalOver
  \/ StreamBreaks
  \/ Restart

Next == Worker \/ Triggers \/ World

Spec == Init /\ [][Next]_vars

\* Goroutines and timers run, a blocked channel send gets its turn, the mapper
\* delivers.  Nothing is assumed of faults, changes, breaks and messages.
Fairness ==
  /\ WF_vars(Worker)
  /\ WF_vars(DebounceFires)
  /\ WF_vars(RetryFires)
  /\ WF_vars(Subscribe)
  /\ SF_vars(InitialUpdate)
  /\ WF_vars(\E e \in evtCh : HandleEvent(e))
  /\ WF_vars(MonitorReturns)
  /\ SF_vars(ReconcileTick)
  /\ \A c \in Container : WF_vars(MapperDelivers(c))
  /\ WF_vars(OrphansIntervalOver)

FairSpec == Spec /\ Fairness

-----------------------------------------------------------------------------
(***************************************************************************)
(* Properties                                                              *)
(***************************************************************************)

\* Cloud first: no managed object is left behind without an entity, whatever
\* call fails and wherever the process ends, except one that the mapper
\* delivered after the cloud had acknowledged the deletion.
CloudFirst ==
  DeleteFromCloud => (cloud \cup mapper) \ entities \subseteq released

\* The services keep the promise of ServiceRegistry.
Registry == INSTANCE ServiceRegistry
  WITH Service <- Container, registered <- entities, announced <- mapper, inCloud <- cloud
KeepsRegistry == Registry!Spec

\* An update never takes from the cloud or from thin-edge.io a service whose
\* container it has just listed, even when the call to register it failed.
SparesListed ==
  [][\A c \in (cloud \ cloud') \cup (entities \ entities') : items[c] = "absent"]_vars

\* Containers that are to be published.
Present == {c \in Admitted(Cli) : engine[c] # "absent"}

\* thin-edge.io shows the containers there are, with their status ...
Published ==
  /\ entities = Present
  /\ \A c \in Present : health[c] = engine[c]

\* ... and the cloud shows no other service.
InSync == Published /\ cloud \subseteq entities

\* Once changes, faults and breaks cease, everything comes in line and stays so.
Converges == <>[]InSync

\* Without any failing call, the engine's events alone, with the update after
\* each subscription, bring thin-edge.io in line: no change falls between.
EventsSuffice == <>[]Published

\* Whether an update with filter fo puts container c in line: what is gone is only
\* found by an update of everything.
Covers(fo, c) == IF engine[c] = "absent" THEN IsEmpty(fo) ELSE Admits(fo, c)

\* A request for such an update is in the worker's channel.
Queued(c) ==
  \E i \in 1..Len(queue) : queue[i].action = "UpdateAll" /\ Covers(queue[i].options, c)

\* So is an event for the monitor.
Told(c) ==
  \/ [id |-> c, kind |-> "ended"] \in evtCh
  \/ [id |-> c, kind |-> "started"] \in evtCh /\ engine[c] # "absent"

\* A cause for an update of c that is still to come: the one after the next
\* subscription, an event, a request on its way, a retry, or an update that is about
\* to list the containers.
Owed(c) ==
  \/ monitor \in {"stopped", "subscribed"} \/ ~stream
  \/ Told(c)
  \/ pending # None /\ Covers(pending, c)
  \/ Queued(c)
  \/ RetryOn /\ (syncPending \/ retryArmed) /\ engine[c] = "absent"
  \/ phase = "entities" /\ Covers(running.options, c)
  \/ phase = "list" /\ Covers(running.options, c) /\ (engine[c] = "absent" => c \in snapshot)

\* The update at work is going to publish c as it has listed it ...
Publishing(c) ==
  \/ phase = "register" /\ c \in Listed /\ c \in todo \cup entities
  \/ phase = "health" /\ c \in todo /\ c \in entities

\* ... or to remove it.
Removing(c) ==
  \/ phase \in {"register", "health"} /\ IsEmpty(running.options) /\ c \in stale
  \/ phase \in {"stale", "clear-health", "deregister"} /\ c \in todo
  \/ phase \in {"clear-health", "deregister"} /\ c = target

\* c is published as it is in the engine, once the update at work is through with it.
InLine(c) ==
  IF Publishing(c) THEN items[c] = engine[c]
  ELSE IF Removing(c) THEN engine[c] = "absent"
  ELSE IF engine[c] = "absent" THEN c \notin entities
  ELSE c \in entities /\ health[c] = engine[c]

\* A container that the configuration admits is in line or owed an update.  What is
\* gone counts only if the configured filter removes services at all.
Settled(c) ==
  Admits(Cli, c) /\ Covers(Cli, c) => InLine(c) \/ Owed(c)

\* Steps that lose an update: a request dropped at a full queue; a call that failed,
\* except one to the cloud that is retried; a merge of ids with names.
Loses ==
  \/ QueueFull /\ pending' = None
  \/ faults' # faults /\ ~(RetryOn /\ phase \in {"stale", "sweep", "sweeping"})
  \/ /\ (\E e \in evtCh : HandleEvent(e)) \/ (\E n \in Name : HealthCheck(n))
     /\ pending # None /\ pending'.ids # {} /\ pending'.names # {}

\* No other step leaves a container out of line that nothing is going to update:
\* not between two streams of events, between a listing and a change, or between the
\* updates for two events; not a change, a merge, a restart or a failed deletion.
NothingFallsBetween ==
  [][\A c \in Container : Settled(c) => Settled(c)' \/ Loses]_vars

\* A stale service whose deletion from the cloud failed is removed in the end,
\* by the retries alone: they are "effectively polling until the sync succeeds"
\* (scheduleSyncRetry).
RetriesUntilSynced ==
  \A c \in Container :
    ((syncPending \/ retryArmed) /\ c \in entities /\ engine[c] = "absent")
      ~> (c \notin entities \/ engine[c] # "absent")

=============================================================================
