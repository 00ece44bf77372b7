----------------------------- MODULE CrashLoop -----------------------------
(***************************************************************************)
(* Crash loops of containers: how the monitor finds them from the restart  *)
(* counts of the engine, marks them, raises and clears their alarms, and   *)
(* keeps their engine events from flooding the broker.                     *)
(*                                                                         *)
(* Three kinds of goroutines share the marks (crashLoopAlarms): the        *)
(* monitor, which handles one event at a time; one publisher per raised    *)
(* alarm (publishCrashLoopAlarm); and the worker, whose updates report a   *)
(* marked container as down.  The lock is only held for single reads and   *)
(* writes of the marks, so a step here is what happens between two calls   *)
(* to the engine, thin-edge.io or the broker.                              *)
(*                                                                         *)
(* An update is its parts that touch the same state, each call of which    *)
(* may fail (Reconciler has all of it), and the updates asked for are the  *)
(* set of their scopes, which begin in any order and together              *)
(* (UpdateQueue has the way): one that is asked for twice before it begins *)
(* is one.  The configuration has no filter, so that an update without a   *)
(* scope removes what is stale.                                            *)
(***************************************************************************)
EXTENDS Integers, Sequences

CONSTANTS
  Container,    \* a container's name is the name of its service
  Checked,      \* containers with a health check
  Threshold,    \* CrashLoopThreshold as configured
  DefaultThreshold, \* what stands for it when it is 0 (5 in the code)
  MaxAttempts,  \* attempts to publish an alarm (5 in the code)
  Reported,     \* kinds of events that are published (none without EnableEngineEvents)
  RetryOn,      \* sync_retry_interval > 0
  All,          \* scope of an update of everything
  None,
  Publisher,    \* bounds: publishers at the same time,
  EvtCap,       \*   events not yet handled,
  FaultyApi,    \*   interfaces whose calls may fail,
  MaxFaults,    \*   failed calls and restarts of the process,
  MaxChanges    \*   changes of a container

ASSUME CrashLoopAssumption ==
  /\ Checked \subseteq Container
  /\ None \notin Container \cup Publisher
  /\ All \notin Container
  /\ RetryOn \in BOOLEAN
  /\ {Threshold, DefaultThreshold} \subseteq Nat
  /\ MaxAttempts \in Nat \ {0}
  /\ Reported \subseteq {"start", "die", "healthy", "destroy"}
  /\ EvtCap \in Nat
  /\ FaultyApi \subseteq {"thin-edge", "mqtt", "engine", "cloud", "queue"}
  /\ {MaxFaults, MaxChanges} \subseteq Nat

VARIABLES
  engine,       \* state of each container: "absent", "up" or "down"
  count,        \* its restart count, kept by the engine
  sinceHealthy, \* history: restarts since it was created or last healthy
  evtCh,        \* events not yet handled, in order
  handling,     \* the event the monitor handles, or None
  step,         \* where the monitor is
  baseline,     \* restartBaseline; -1 is no entry
  marked,       \* crashLoopAlarms
  recent,       \* keys of the rate limiter whose window is not over
  publisher,    \* the publishers of alarms: name, step and attempt, or None
  alarm,        \* containers with a retained alarm
  entities,     \* containers registered as a service
  health,       \* status in the retained health topic, else "absent"
  asked,        \* scopes of the updates asked for and not yet begun
  work,         \* the update at work: its step, its scope until it has listed,
                \* existingServices, what is left to register and (with its
                \* status) to show, the service it is at with the status to be
                \* shown for it, and cloudSyncPending
  missed,       \* history: containers that became healthy while their count
                \* could not be read
  faults, changes  \* counters for the bounds

engineVars == <<engine, count, sinceHealthy, evtCh>>
monitorVars == <<handling, step, baseline, recent>>
thinEdgeVars == <<alarm, entities, health>>
counters == <<missed, faults, changes>>
vars == <<engineVars, monitorVars, marked, publisher, thinEdgeVars, asked, work, counters>>

Status == {"absent", "up", "down"}
Kind == {"start", "die", "healthy", "destroy"}
Event == [name : Container, kind : Kind]
Publishing == [name : Container, step : {"register", "down", "check", "send"},
               attempt : 1..MaxAttempts]
\* Keys of the rate limiter: "<service>/<action>".
Key == {<<c, kind>> : c \in Container, kind \in Kind}

ASSUME NoneAssumption == None \notin Event \cup Publishing

Scope == Container \cup {All}
Work == [step : {"idle", "list", "loop", "publish", "clear", "deregister"},
         scope : SUBSET Scope, existing : SUBSET Container,
         register : SUBSET Container, items : [Container -> Status],
         target : Container \cup {None}, shown : Status, failed : BOOLEAN]

NoWork == [step |-> "idle", scope |-> {}, existing |-> {}, register |-> {},
           items |-> [c \in Container |-> "absent"],
           target |-> None, shown |-> "absent", failed |-> FALSE]

TypeOK ==
  /\ engine \in [Container -> Status]
  /\ count \in [Container -> Nat]
  /\ sinceHealthy \in [Container -> Nat]
  /\ evtCh \in Seq(Event)
  /\ handling \in Event \cup {None}
  /\ step \in {"idle", "inspect", "clear", "report"}
  /\ (step = "idle") = (handling = None)
  /\ baseline \in [Container -> Nat \cup {-1}]
  /\ marked \subseteq Container
  /\ recent \subseteq Key
  /\ publisher \in [Publisher -> Publishing \cup {None}]
  /\ alarm \subseteq Container
  /\ entities \subseteq Container
  /\ health \in [Container -> Status]
  /\ asked \subseteq Scope
  /\ work \in Work
  /\ missed \subseteq Container
  /\ faults \in Nat /\ changes \in Nat

\* The process starts: containers may be there, whose restarts are not counted.
Init ==
  /\ engine \in [Container -> {"absent", "up"}]
  /\ count = [c \in Container |-> 0]
  /\ sinceHealthy = [c \in Container |-> 0]
  /\ evtCh = <<>>
  /\ handling = None /\ step = "idle"
  /\ baseline = [c \in Container |-> -1]
  /\ marked = {} /\ recent = {}
  /\ publisher = [p \in Publisher |-> None]
  /\ alarm = {} /\ entities = {}
  /\ health = [c \in Container |-> "absent"]
  /\ asked = {All}
  /\ work = NoWork
  /\ missed = {}
  /\ faults = 0 /\ changes = 0

Works == UNCHANGED faults

Fails(api) ==
  /\ api \in FaultyApi
  /\ faults < MaxFaults
  /\ faults' = faults + 1

-----------------------------------------------------------------------------
(***************************************************************************)
(* The engine                                                              *)
(***************************************************************************)

Emits(c, kind) ==
  /\ Len(evtCh) < EvtCap
  /\ changes < MaxChanges /\ changes' = changes + 1
  /\ evtCh' = Append(evtCh, [name |-> c, kind |-> kind])
  /\ UNCHANGED <<monitorVars, marked, publisher, thinEdgeVars, asked, work, missed, faults>>

Create(c) ==
  /\ engine[c] = "absent"
  /\ engine' = [engine EXCEPT ![c] = "up"]
  /\ count' = [count EXCEPT ![c] = 0]
  /\ sinceHealthy' = [sinceHealthy EXCEPT ![c] = 0]
  /\ Emits(c, "start")

Die(c) ==
  /\ engine[c] = "up"
  /\ engine' = [engine EXCEPT ![c] = "down"]
  /\ UNCHANGED <<count, sinceHealthy>>
  /\ Emits(c, "die")

\* The engine restarts a container by its restart policy; the count is raised
\* before the event is sent.
DaemonRestart(c) ==
  /\ engine[c] = "down"
  /\ engine' = [engine EXCEPT ![c] = "up"]
  /\ count' = [count EXCEPT ![c] = @ + 1]
  /\ sinceHealthy' = [sinceHealthy EXCEPT ![c] = @ + 1]
  /\ Emits(c, "start")

BecomeHealthy(c) ==
  /\ c \in Checked /\ engine[c] = "up"
  /\ sinceHealthy' = [sinceHealthy EXCEPT ![c] = 0]
  /\ UNCHANGED <<engine, count>>
  /\ Emits(c, "healthy")

Destroy(c) ==
  /\ engine[c] # "absent"
  /\ engine' = [engine EXCEPT ![c] = "absent"]
  /\ UNCHANGED <<count, sinceHealthy>>
  /\ Emits(c, "destroy")

-----------------------------------------------------------------------------
(***************************************************************************)
(* The monitor                                                             *)
(***************************************************************************)

\* The update for an event: one of its container, or of everything when it ended.
ScopeOf(e) == IF e.kind \in {"start", "healthy"} THEN e.name ELSE All

\* A faulty variant: no update is asked for.
ReportOnly(e) == step' = "report" /\ UNCHANGED asked

\* Enqueue the update, then go on to publish the event.
EnqueueAndReport(e) == step' = "report" /\ asked' = asked \cup {ScopeOf(e)}

\* The first half of clearCrashLoopAlarm: unmark, and publish only if it was
\* marked.  (Remove comes after the publication; the window of the limiter may
\* as well be reset before it.)
Unmark(e) ==
  /\ marked' = marked \ {e.name}
  /\ IF e.name \in marked THEN step' = "clear" /\ UNCHANGED asked ELSE EnqueueAndReport(e)

\* EventRateLimiter.Remove forgets one key; it is called with the bare name of
\* the service, which is none.
Remove(key) == recent' = recent \ {key}

ForgetEvents(c) == Remove(<<c>>)

TakeEvent ==
  /\ step = "idle" /\ evtCh # <<>>
  /\ evtCh' = Tail(evtCh)
  /\ handling' = Head(evtCh)
  /\ LET e == Head(evtCh)
     IN  \/ /\ e.kind \in {"start", "healthy"}
            /\ step' = "inspect"
            /\ UNCHANGED <<baseline, marked, recent, asked, missed>>
         \/ /\ e.kind = "die"
            /\ EnqueueAndReport(e)
            /\ UNCHANGED <<baseline, marked, recent, missed>>
         \/ /\ e.kind = "destroy"
            /\ baseline' = [baseline EXCEPT ![e.name] = -1]
            /\ missed' = missed \ {e.name}
            /\ Unmark(e)
            /\ ForgetEvents(e.name)
  /\ UNCHANGED <<engine, count, sinceHealthy, publisher, thinEdgeVars, work, faults, changes>>

\* publishCrashLoopAlarm, before its goroutine: mark, unless it is already.
Raise(c) ==
  \/ /\ c \in marked
     /\ UNCHANGED <<marked, publisher>>
  \/ /\ c \notin marked
     /\ marked' = marked \cup {c}
     /\ \E p \in Publisher :
          /\ publisher[p] = None
          /\ publisher' = [publisher EXCEPT ![p] =
                             [name |-> c, step |-> "register", attempt |-> 1]]

\* A faulty variant: without a baseline, all restarts count.
CheckRestartsFromZero(c) ==
  /\ UNCHANGED baseline
  /\ LET from == IF baseline[c] = -1 THEN 0 ELSE baseline[c]
     IN  IF count[c] > 0 /\ count[c] - from >= Threshold
         THEN Raise(c)
         ELSE UNCHANGED <<marked, publisher>>

\* The count when a container started.  The first positive one becomes the
\* baseline.  Threshold is the configured one: NewApp fills in the default only
\* after it has taken its copy of the configuration.
CheckRestarts(c) ==
  IF count[c] > 0 /\ baseline[c] = -1
  THEN baseline' = [baseline EXCEPT ![c] = count[c]] /\ UNCHANGED <<marked, publisher>>
  ELSE /\ UNCHANGED baseline
       /\ IF count[c] > 0 /\ count[c] - baseline[c] >= Threshold
          THEN Raise(c)
          ELSE UNCHANGED <<marked, publisher>>

\* A container became healthy: restarts are counted from here.  When its count
\* cannot be read, the baseline stays as it is.
Recover(c) ==
  /\ \/ /\ engine[c] # "absent" /\ faults' = faults
        /\ baseline' = [baseline EXCEPT ![c] = count[c]]
        /\ missed' = missed \ {c}
     \/ /\ ~(engine[c] # "absent" /\ faults' = faults)
        /\ missed' = missed \cup {c}
        /\ UNCHANGED baseline
  /\ Unmark(handling)
  /\ ForgetEvents(c)
  /\ UNCHANGED publisher

\* GetRestartCount and what follows.  The engine knows no count of a container
\* that is gone.
Inspect ==
  /\ step = "inspect"
  /\ Works \/ Fails("engine")
  /\ LET c == handling.name
     IN  \/ /\ handling.kind = "healthy"
            /\ Recover(c)
         \/ /\ handling.kind = "start"
            /\ IF engine[c] # "absent" /\ faults' = faults
               THEN CheckRestarts(c)
               ELSE UNCHANGED <<baseline, marked, publisher>>
            /\ EnqueueAndReport(handling)
            /\ UNCHANGED <<recent, missed>>
  /\ UNCHANGED <<engineVars, handling, thinEdgeVars, work, changes>>

\* The second half of clearCrashLoopAlarm: an empty message takes the retained
\* alarm away.
ClearAlarm ==
  /\ step = "clear"
  /\ \/ Works /\ alarm' = alarm \ {handling.name}
     \/ Fails("mqtt") /\ UNCHANGED alarm
  /\ EnqueueAndReport(handling)
  /\ UNCHANGED <<engineVars, handling, baseline, recent, marked, publisher, entities,
                 health, work, missed, changes>>

\* Publish the event, unless its container is marked or the rate limiter denies
\* it.  That it was published is not kept.
Report ==
  /\ step = "report"
  /\ step' = "idle" /\ handling' = None
  /\ LET key == <<handling.name, handling.kind>>
     IN  IF handling.kind \in Reported /\ handling.name \notin marked /\ key \notin recent
         THEN recent' = recent \cup {key}
         ELSE UNCHANGED recent
  /\ UNCHANGED <<engineVars, baseline, marked, publisher, thinEdgeVars, asked, work, counters>>

WindowOver(key) ==
  /\ key \in recent
  /\ recent' = recent \ {key}
  /\ UNCHANGED <<engineVars, handling, step, baseline, marked, publisher, thinEdgeVars, asked,
                 work, counters>>

-----------------------------------------------------------------------------
(***************************************************************************)
(* The publisher of an alarm (the goroutine of publishCrashLoopAlarm)      *)
(***************************************************************************)

Continue(p, next) == publisher' = [publisher EXCEPT ![p].step = next]
Return(p) == publisher' = [publisher EXCEPT ![p] = None]

At(p, s) == publisher[p] # None /\ publisher[p].step = s

\* Register the service, so that the mapper can route the alarm.
PreRegister(p) ==
  /\ At(p, "register")
  /\ Continue(p, "down")
  /\ \/ Works /\ entities' = entities \cup {publisher[p].name}
     \/ Fails("thin-edge") /\ UNCHANGED entities
  /\ UNCHANGED <<engineVars, monitorVars, marked, alarm, health, asked, work, missed, changes>>

ShowDown(p) ==
  /\ At(p, "down")
  /\ Continue(p, "check")
  /\ \/ Works /\ health' = [health EXCEPT ![publisher[p].name] = "down"]
     \/ Fails("mqtt") /\ UNCHANGED health
  /\ UNCHANGED <<engineVars, monitorVars, marked, alarm, entities, asked, work, missed, changes>>

\* Stop if the alarm was cleared.
CheckMark(p) ==
  /\ At(p, "check")
  /\ IF publisher[p].name \in marked THEN Continue(p, "send") ELSE Return(p)
  /\ UNCHANGED <<engineVars, monitorVars, marked, thinEdgeVars, asked, work, counters>>

TryAgain(p) ==
  publisher' = [publisher EXCEPT ![p] = [publisher[p] EXCEPT
                  !.step = "check", !.attempt = publisher[p].attempt + 1]]

\* Faulty variants of AttemptFailed: it tries once too often; it gives up without
\* taking the mark back.
AttemptFailedOnceMore(p) ==
  IF publisher[p].attempt <= MaxAttempts
  THEN TryAgain(p) /\ UNCHANGED marked
  ELSE Return(p) /\ marked' = marked \ {publisher[p].name}

AttemptFailedKeepingMark(p) ==
  /\ IF publisher[p].attempt < MaxAttempts THEN TryAgain(p) ELSE Return(p)
  /\ UNCHANGED marked

\* Try again; after the last attempt take the mark back.
AttemptFailed(p) ==
  IF publisher[p].attempt < MaxAttempts
  THEN TryAgain(p) /\ UNCHANGED marked
  ELSE Return(p) /\ marked' = marked \ {publisher[p].name}

\* Publish the alarm.
SendAlarm(p) ==
  /\ At(p, "send")
  /\ \/ Works /\ alarm' = alarm \cup {publisher[p].name} /\ Return(p) /\ UNCHANGED marked
     \/ Fails("mqtt") /\ AttemptFailed(p) /\ UNCHANGED alarm
  /\ UNCHANGED <<engineVars, monitorVars, entities, health, asked, work, missed, changes>>

-----------------------------------------------------------------------------
(***************************************************************************)
(* The update                                                              *)
(***************************************************************************)

\* The worker takes an update, which may be several merged ones, and reads the entities
\* (GetEntities): it returns when that fails, and leaves out those whose twin cannot be
\* read.
BeginUpdate(scope) ==
  /\ work.step = "idle"
  /\ scope # {}
  /\ asked' = asked \ scope
  /\ \/ \E known \in SUBSET entities :
          /\ work' = [NoWork EXCEPT !.step = "list", !.scope = scope, !.existing = known]
          /\ IF known = entities THEN Works ELSE Fails("thin-edge")
     \/ Fails("thin-edge") /\ work' = NoWork
  /\ UNCHANGED <<engineVars, monitorVars, marked, publisher, thinEdgeVars, missed, changes>>

\* A faulty variant: the condition is swapped.
StaleIfScoped(listed) == IF All \in work.scope THEN {} ELSE work.existing \ listed

\* What is registered and not listed is stale; a scoped update removes nothing.
Stale(listed) == IF All \in work.scope THEN work.existing \ listed ELSE {}

\* List the containers, or return.
ListContainers ==
  /\ work.step = "list"
  /\ \/ /\ Works
        /\ LET Seen(c) == engine[c] # "absent" /\ work.scope \cap {All, c} # {}
               listed == {c \in Container : Seen(c)}
           IN  work' = [work EXCEPT !.step = "loop", !.scope = {},
                 !.existing = Stale(listed), !.register = listed,
                 !.items = [c \in Container |-> IF Seen(c) THEN engine[c] ELSE "absent"]]
     \/ Fails("engine") /\ work' = NoWork
  /\ UNCHANGED <<engineVars, monitorVars, marked, publisher, thinEdgeVars, asked, missed, changes>>

\* CreateEntity; when it fails, the update goes on with the container all the same.
Register(c) ==
  /\ work.step = "loop" /\ c \in work.register
  /\ work' = [work EXCEPT !.register = @ \ {c}]
  /\ \/ Works /\ entities' = entities \cup {c}
     \/ Fails("thin-edge") /\ UNCHANGED entities
  /\ UNCHANGED <<engineVars, monitorVars, marked, publisher, alarm, health, asked, missed, changes>>

\* A faulty variant: what the engine reports is shown.
StatusAsListed(c) == work.items[c]

\* A container in a crash loop is shown as down.
StatusToShow(c) == IF c \in marked THEN "down" ELSE work.items[c]

ReadMark(c) ==
  /\ work.step = "loop" /\ work.register = {} /\ work.items[c] # "absent"
  /\ work' = [work EXCEPT !.step = "publish", !.target = c, !.items[c] = "absent",
                          !.shown = StatusToShow(c)]
  /\ UNCHANGED <<engineVars, monitorVars, marked, publisher, thinEdgeVars, asked, counters>>

PublishHealth ==
  /\ work.step = "publish"
  /\ work' = [work EXCEPT !.step = "loop", !.target = None, !.shown = "absent"]
  /\ \/ Works /\ health' = [health EXCEPT ![work.target] = work.shown]
     \/ Fails("mqtt") /\ UNCHANGED health
  /\ UNCHANGED <<engineVars, monitorVars, marked, publisher, alarm, entities, asked, missed,
                 changes>>

\* All that were listed are registered and shown.
ListDone == work.register = {} /\ \A c \in Container : work.items[c] = "absent"

\* A stale service: delete it from the cloud.  When that fails it stays registered ...
RemoveStale(c) ==
  /\ work.step = "loop" /\ ListDone /\ c \in work.existing
  /\ \/ /\ Works
        /\ work' = [work EXCEPT !.step = "clear", !.target = c, !.existing = @ \ {c}]
     \/ /\ Fails("cloud")
        /\ work' = [work EXCEPT !.existing = @ \ {c}, !.failed = TRUE]
  /\ UNCHANGED <<engineVars, monitorVars, marked, publisher, thinEdgeVars, asked, missed, changes>>

\* ... else clear its health topic ...
ClearHealth ==
  /\ work.step = "clear"
  /\ work' = [work EXCEPT !.step = "deregister"]
  /\ \/ Works /\ health' = [health EXCEPT ![work.target] = "absent"]
     \/ Fails("mqtt") /\ UNCHANGED health
  /\ UNCHANGED <<engineVars, monitorVars, marked, publisher, alarm, entities, asked, missed,
                 changes>>

\* ... and deregister it.
Deregister ==
  /\ work.step = "deregister"
  /\ work' = [work EXCEPT !.step = "loop", !.target = None]
  /\ \/ Works /\ entities' = entities \ {work.target}
     \/ Fails("thin-edge") /\ UNCHANGED entities
  /\ UNCHANGED <<engineVars, monitorVars, marked, publisher, alarm, health, asked, missed, changes>>

\* A failed deletion from the cloud asks for an update of everything after a while.
EndUpdate ==
  /\ work.step = "loop" /\ ListDone /\ work.existing = {}
  /\ work' = NoWork
  /\ asked' = IF work.failed /\ RetryOn THEN asked \cup {All} ELSE asked
  /\ UNCHANGED <<engineVars, monitorVars, marked, publisher, thinEdgeVars, counters>>

\* The worker's channel is full: debounced requests are dropped.  (The reconcile loop
\* and the start of the monitor wait for a free slot instead; that theirs may be
\* dropped as well only adds to what can go wrong.)
Drop(scope) ==
  /\ Fails("queue")
  /\ scope # {}
  /\ asked' = asked \ scope
  /\ UNCHANGED <<engineVars, monitorVars, marked, publisher, thinEdgeVars, work, missed, changes>>

\* The reconcile loop.
Reconcile ==
  /\ All \notin asked
  /\ asked' = asked \cup {All}
  /\ UNCHANGED <<engineVars, monitorVars, marked, publisher, thinEdgeVars, work, counters>>

\* The process is started again: its event stream starts anew, with an update.
Restart ==
  /\ faults < MaxFaults /\ faults' = faults + 1
  /\ missed' = {}
  /\ evtCh' = <<>>
  /\ handling' = None /\ step' = "idle"
  /\ baseline' = [c \in Container |-> -1]
  /\ marked' = {} /\ recent' = {}
  /\ publisher' = [p \in Publisher |-> None]
  /\ asked' = {All}
  /\ work' = NoWork
  /\ UNCHANGED <<engine, count, sinceHealthy, thinEdgeVars, changes>>

-----------------------------------------------------------------------------
Monitor == TakeEvent \/ Inspect \/ ClearAlarm \/ Report

Publish(p) == PreRegister(p) \/ ShowDown(p) \/ CheckMark(p) \/ SendAlarm(p)

Worker ==
  \/ \E scope \in SUBSET asked : BeginUpdate(scope)
  \/ ListContainers
  \/ \E c \in Container : Register(c) \/ ReadMark(c) \/ RemoveStale(c)
  \/ PublishHealth \/ ClearHealth \/ Deregister
  \/ EndUpdate

EngineStep ==
  \E c \in Container : Create(c) \/ Die(c) \/ DaemonRestart(c) \/ BecomeHealthy(c) \/ Destroy(c)

Next ==
  \/ EngineStep
  \/ Monitor
  \/ \E p \in Publisher : Publish(p)
  \/ Worker
  \/ \E scope \in SUBSET asked : Drop(scope)
  \/ \E key \in recent : WindowOver(key)
  \/ Reconcile
  \/ Restart

Spec == Init /\ [][Next]_vars

\* Goroutines run, calls return, and the reconcile loop ticks.  Nothing is
\* assumed of the engine, of restarts and of faults.
Fairness ==
  /\ WF_vars(Monitor)
  /\ \A p \in Publisher : WF_vars(Publish(p))
  /\ WF_vars(Worker)
  /\ WF_vars(Reconcile)

FairSpec == Spec /\ Fairness

-----------------------------------------------------------------------------
(***************************************************************************)
(* Properties                                                              *)
(***************************************************************************)

Raising(c) == \E p \in Publisher : publisher[p] # None /\ publisher[p].name = c

\* The monitor has nothing to do and no alarm of c is being raised.
Settled(c) == evtCh = <<>> /\ step = "idle" /\ ~Raising(c)

\* A mark silences the events of a container and shows it as down, so it never
\* stands alone: its alarm is retained, or a publisher is still at it, whatever
\* attempts fail and however raising and clearing overlap.
MarkHasAlarm == \A c \in marked : c \in alarm \/ Raising(c)

\* The restarts that declare a crash loop, with "0 to use the default (5)".
Required == IF Threshold = 0 THEN DefaultThreshold ELSE Threshold

\* Once the events are handled, a container is only marked if it was restarted
\* as often as required since it was created or last healthy, though counts are
\* read later than the events they are read for.  (Not so when the count could
\* not be read as it became healthy: the old baseline stays.)
NoFalseAlarm ==
  \A c \in marked \ missed : Settled(c) => sinceHealthy[c] >= Required

\* The health topic of a container that remains in a crash loop comes to show
\* it as down, whatever the engine reports at the moment of an update.
DownWhileLooping ==
  \A c \in Container :
    <>[](c \in marked /\ engine[c] # "absent") => <>[](health[c] = "down")

\* A container that is gone for good does not remain registered, although the
\* publisher of its alarm registers it on its own.
GoneIsGone ==
  \A c \in Container : <>[](engine[c] = "absent") => <>[](c \notin entities)

\* The scopes of an update that puts c in line: one that is gone is only found by an
\* update of everything.
Covering(c) == IF engine[c] = "absent" THEN {All} ELSE {All, c}

\* An event leads to such an update.
Tells(e, c) == e.name = c /\ ScopeOf(e) \in Covering(c)

\* An update that is still to list the containers looks at c: it is asked for, or will
\* be when an event of c is handled or a failed deletion is retried, or it is about to.
Due(c) ==
  \/ asked \cap Covering(c) # {}
  \/ \E i \in DOMAIN evtCh : Tells(evtCh[i], c)
  \/ handling # None /\ Tells(handling, c) /\ step # "report"
  \/ work.failed /\ RetryOn
  \/ /\ work.step = "list" /\ work.scope \cap Covering(c) # {}
     /\ engine[c] = "absent" => c \in work.existing

\* The update at work is going to remove c.
Removing(c) ==
  \/ work.step \notin {"idle", "list"} /\ c \in work.existing
  \/ work.step \in {"clear", "deregister"} /\ c = work.target

\* c is shown as down once the update at work is through with it ...
Shown(c) ==
  /\ ~Removing(c)
  /\ \/ work.items[c] # "absent"
     \/ IF work.step = "publish" /\ c = work.target THEN work.shown = "down"
                                                    ELSE health[c] = "down"

\* ... or no longer registered.
Gone(c) == c \notin entities \cup work.register \/ Removing(c)

\* A marked container is shown as down and one that is gone is not registered, or an
\* update is due that sees to it.
ShownOrDue(c) ==
  \/ Due(c)
  \/ IF engine[c] = "absent" THEN Gone(c) ELSE c \in marked => Shown(c)

\* An update that covers c is lost: it is dropped at a full queue, returns early, or
\* leaves c out of its copy of the entities.
LosesUpdate(c) ==
  \/ \E scope \in SUBSET asked : Drop(scope) /\ scope \cap Covering(c) # {}
  \/ \E scope \in SUBSET asked :
       /\ BeginUpdate(scope) /\ scope \cap Covering(c) # {}
       /\ work' = NoWork \/ (engine[c] = "absent" /\ c \in entities \ work'.existing)
  \/ ListContainers /\ work' = NoWork /\ work.scope \cap Covering(c) # {}

\* Or the call fails that shows or deregisters c, or the one that deletes it from the
\* cloud and is not retried; or a publisher that comes late registers c on its own.
Loses(c) ==
  \/ LosesUpdate(c)
  \/ faults' # faults /\ \/ c = work.target /\ (PublishHealth \/ Deregister)
                         \/ RemoveStale(c) /\ ~RetryOn
  \/ \E p \in Publisher : PreRegister(p) /\ publisher[p].name = c

\* No other step leaves a mark unshown or a container that is gone registered without
\* an update due: not that marks are set and taken back while an update has read some
\* of them, nor that containers come and go after it has listed them, nor a failed
\* registration, nor a deletion that is retried.  Until the reconcile loop ticks,
\* no update need come.
MarksAreShown ==
  [][\A c \in Container : ShownOrDue(c) => ShownOrDue(c)' \/ Loses(c)]_vars

\* Once the events are handled, no alarm is left of a container that became
\* healthy or was removed: publishing stops "if the alarm was cleared (container
\* recovered/removed)", and clearing "clears any active crash-loop alarm"
\* (app.go).
RecoveryClearsAlarm ==
  \A c \in alarm : Settled(c) => engine[c] # "absent" /\ sinceHealthy[c] > 0

=============================================================================
