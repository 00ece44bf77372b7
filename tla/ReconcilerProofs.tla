-------------------------- MODULE ReconcilerProofs --------------------------
(***************************************************************************)
(* Theorems about the reconciler, for any number of containers, any filter *)
(* of the configuration, any capacity of the worker's channel and any      *)
(* bounds on faults, changes and restarts.                                 *)
(***************************************************************************)
EXTENDS Reconciler, TLAPS

-----------------------------------------------------------------------------
(***************************************************************************)
(* The queue                                                               *)
(***************************************************************************)

\* A merged filter is a filter (mergeFilterOptions).
LEMMA MergeTyped ==
  ASSUME NEW a \in FilterOptions, NEW b \in FilterOptions
  PROVE  MergeFilterOptions(a, b) \in FilterOptions
BY DEF MergeFilterOptions, FilterOptions

\* What is pending stays a filter when another request is merged into it.
LEMMA CoalesceTyped ==
  ASSUME QueueTypeOK, NEW fo \in FilterOptions, Coalesce(fo)
  PROVE  pending' \in FilterOptions \cup {None}
BY MergeTyped DEF QueueTypeOK, Coalesce

\* At first the queue has its types.
LEMMA QueueInitTyped ==
  ASSUME QueueInit
  PROVE  QueueTypeOK
<1>1. queue \in Seq(ActionRequest) /\ Len(queue) <= QueueCap
  BY QueueAssumption DEF QueueInit
<1> QED
  BY <1>1 DEF QueueInit, QueueTypeOK

\* Offer, the non-blocking send, keeps the channel within its capacity.
LEMMA OfferTyped ==
  ASSUME QueueTypeOK, NEW fo \in FilterOptions, Offer(fo)
  PROVE  queue' \in Seq(ActionRequest) /\ Len(queue') <= QueueCap
<1>1. Debounced(fo) \in ActionRequest
  BY DEF Debounced, ActionRequest, Caller
<1> QED
  BY <1>1, QueueAssumption DEF QueueTypeOK, Offer, QueueFull

\* The blocking send waits for a free slot.
LEMMA SubmitTyped ==
  ASSUME QueueTypeOK, NEW request \in ActionRequest, Submit(request)
  PROVE  QueueTypeOK'
BY QueueAssumption DEF QueueTypeOK, Submit, QueueFull

\* Receiving keeps the types.
LEMMA ReceiveTyped ==
  ASSUME QueueTypeOK, Receive
  PROVE  /\ QueueTypeOK'
         /\ Head(queue) \in ActionRequest
         /\ running' = Head(queue)
BY QueueAssumption DEF QueueTypeOK, Receive

\* Completing keeps the types.
LEMMA CompleteTyped ==
  ASSUME QueueTypeOK, Complete
  PROVE  QueueTypeOK'
BY DEF QueueTypeOK, Complete

-----------------------------------------------------------------------------
(***************************************************************************)
(* Types                                                                   *)
(***************************************************************************)

\* Steps that leave the queue alone keep its type.
LEMMA QueueUnchanged ==
  ASSUME QueueTypeOK, UNCHANGED queueVars
  PROVE  QueueTypeOK'
BY DEF QueueTypeOK, queueVars

\* The filters that updates are asked for.
LEMMA AskedFilters ==
  /\ Cli \in FilterOptions
  /\ Everything \in FilterOptions
  /\ \A e \in Event : RequestFor(e) \in FilterOptions
  /\ \A n \in Name : [Everything EXCEPT !.names = {n}] \in FilterOptions
<1>1. Cli \in FilterOptions
  BY ReconcilerAssumption
<1>2. Everything \in FilterOptions
  BY DEF Everything, FilterOptions
<1>3. ASSUME NEW e \in Event PROVE RequestFor(e) \in FilterOptions
  BY <1>1 DEF RequestFor, Event, FilterOptions
<1>4. ASSUME NEW n \in Name PROVE [Everything EXCEPT !.names = {n}] \in FilterOptions
  BY <1>2 DEF FilterOptions
<1> QED
  BY <1>1, <1>2, <1>3, <1>4

\* An action that a caller asks for is a request.
LEMMA AskedUpdates ==
  \A action \in {"UpdateAll", "UpdateMetrics"}, caller \in Caller :
    [action |-> action, options |-> Cli, caller |-> caller] \in ActionRequest
BY ReconcilerAssumption DEF ActionRequest

\* The state of the reconciler and of what surrounds it stays of its type.
THEOREM TypeCorrect == Spec => []TypeOK
<1>1. Init => TypeOK
  <2> SUFFICES ASSUME Init PROVE TypeOK
    OBVIOUS
  <2>1. QueueTypeOK
    BY QueueInitTyped DEF Init
  <2>2. entities \subseteq Container /\ cloud \subseteq Container
    BY DEF Init
  <2> QED
    BY <2>1, <2>2 DEF Init, TypeOK, Status, Phase, NoItems
<1>2. TypeOK /\ [Next]_vars => TypeOK'
  <2> SUFFICES ASSUME TypeOK, [Next]_vars PROVE TypeOK'
    OBVIOUS
  <2> USE DEF TypeOK
  <2>1. ASSUME BeginRequest PROVE TypeOK'
    <3>1. QueueTypeOK'
      BY <2>1, ReceiveTyped DEF BeginRequest
    <3> QED
      BY <2>1, <3>1 DEF BeginRequest, Phase, worldVars, monitorVars, timerVars, counters
  <2>2. ASSUME ReadEntities PROVE TypeOK'
    <3>1. QueueTypeOK'
      BY <2>2, QueueUnchanged DEF ReadEntities
    <3> QED
      BY <2>2, <3>1 DEF ReadEntities, Works, Fails, Phase, worldVars, monitorVars, timerVars
  <2>3. ASSUME ListContainers PROVE TypeOK'
    <3>1. QueueTypeOK'
      BY <2>3, QueueUnchanged DEF ListContainers
    <3> QED
      BY <2>3, <3>1 DEF ListContainers, Works, Fails, Phase, Status, worldVars, monitorVars,
         timerVars
  <2>4. ASSUME NEW c \in Container, Register(c) PROVE TypeOK'
    <3>1. QueueTypeOK'
      BY <2>4, QueueUnchanged DEF Register
    <3> QED
      BY <2>4, <3>1 DEF Register, SnapshotWith, Works, Fails, monitorVars, timerVars
  <2>5. ASSUME NEW c \in Container, PublishHealth(c) PROVE TypeOK'
    <3>1. QueueTypeOK'
      BY <2>5, QueueUnchanged DEF PublishHealth
    <3> QED
      BY <2>5, <3>1 DEF PublishHealth, Works, Fails, monitorVars, timerVars
  <2>6. ASSUME NEW c \in Container, DeleteService(c) PROVE TypeOK'
    <3>1. QueueTypeOK'
      BY <2>6, QueueUnchanged DEF DeleteService
    <3>2. /\ stream' \in BOOLEAN /\ retryArmed' \in BOOLEAN /\ orphansChecked' \in BOOLEAN
          /\ syncPending' \in BOOLEAN /\ removed' \in BOOLEAN
      BY <2>6 DEF DeleteService, DeletionFailed, monitorVars, timerVars
    <3> QED
      BY <2>6, <3>1, <3>2 DEF DeleteService, DeletionFailed, Works, Fails, Phase, monitorVars,
         timerVars
  <2>7. ASSUME NEW c \in Container, DeleteOrphan(c) PROVE TypeOK'
    <3>1. QueueTypeOK'
      BY <2>7, QueueUnchanged DEF DeleteOrphan
    <3>2. /\ stream' \in BOOLEAN /\ retryArmed' \in BOOLEAN /\ orphansChecked' \in BOOLEAN
          /\ syncPending' \in BOOLEAN /\ removed' \in BOOLEAN
      BY <2>7 DEF DeleteOrphan, monitorVars, timerVars
    <3> QED
      BY <2>7, <3>1, <3>2 DEF DeleteOrphan, Works, Fails, monitorVars, timerVars
  <2>8. ASSUME ClearHealth PROVE TypeOK'
    <3>1. QueueTypeOK'
      BY <2>8, QueueUnchanged DEF ClearHealth
    <3> QED
      BY <2>8, <3>1 DEF ClearHealth, Works, Fails, Phase, Status, monitorVars, timerVars
  <2>9. ASSUME Deregister PROVE TypeOK'
    <3>1. QueueTypeOK'
      BY <2>9, QueueUnchanged DEF Deregister
    <3> QED
      BY <2>9, <3>1 DEF Deregister, Works, Fails, Phase, monitorVars, timerVars
  <2>10. ASSUME FindOrphans PROVE TypeOK'
    <3>1. QueueTypeOK'
      BY <2>10, QueueUnchanged DEF FindOrphans
    <3>2. /\ stream' \in BOOLEAN /\ retryArmed' \in BOOLEAN /\ orphansChecked' \in BOOLEAN
          /\ syncPending' \in BOOLEAN /\ removed' \in BOOLEAN
      BY <2>10 DEF FindOrphans, monitorVars, timerVars
    <3> QED
      BY <2>10, <3>1, <3>2 DEF FindOrphans, Works, Fails, Phase, worldVars, monitorVars, timerVars
  <2>11. ASSUME EndLoop PROVE TypeOK'
    <3>1. QueueTypeOK'
      BY <2>11, QueueUnchanged DEF EndLoop
    <3>2. todo' \subseteq Container /\ stale' \subseteq Container
      BY <2>11 DEF EndLoop, Listed
    <3>3. /\ stream' \in BOOLEAN /\ retryArmed' \in BOOLEAN /\ orphansChecked' \in BOOLEAN
          /\ syncPending' \in BOOLEAN /\ removed' \in BOOLEAN
      BY <2>11 DEF EndLoop, monitorVars
    <3> QED
      BY <2>11, <3>1, <3>2, <3>3 DEF EndLoop, Phase, worldVars, monitorVars, counters
  <2>12. ASSUME FinishRequest PROVE TypeOK'
    <3>1. QueueTypeOK'
      BY <2>12, CompleteTyped DEF FinishRequest
    <3>2. retryArmed' \in BOOLEAN
      BY <2>12 DEF FinishRequest
    <3> QED
      BY <2>12, <3>1, <3>2 DEF FinishRequest, ForgetWork, NoItems, Phase, Status, worldVars,
         counters
  <2>13. ASSUME DebounceFires PROVE TypeOK'
    <3>1. QueueTypeOK'
      <4>1. pending \in FilterOptions
        BY <2>13 DEF DebounceFires, QueueTypeOK
      <4>2. queue' \in Seq(ActionRequest) /\ Len(queue') <= QueueCap
        BY <2>13, <4>1, OfferTyped DEF DebounceFires
      <4> QED
        BY <2>13, <4>2 DEF DebounceFires, QueueTypeOK
    <3> QED
      BY <2>13, <3>1 DEF DebounceFires, worldVars, monitorVars, timerVars, workVars, counters
  <2>14. ASSUME RetryFires PROVE TypeOK'
    <3>1. QueueTypeOK'
      <4>1. pending' \in FilterOptions \cup {None}
        BY <2>14, AskedFilters, CoalesceTyped DEF RetryFires
      <4> QED
        BY <2>14, <4>1 DEF RetryFires, QueueTypeOK
    <3> QED
      BY <2>14, <3>1 DEF RetryFires, worldVars, monitorVars, workVars, counters
  <2>15. ASSUME Subscribe PROVE TypeOK'
    <3>1. QueueTypeOK'
      BY <2>15, QueueUnchanged DEF Subscribe
    <3> QED
      BY <2>15, <3>1 DEF Subscribe, worldVars, timerVars, workVars, counters
  <2>16. ASSUME InitialUpdate PROVE TypeOK'
    <3>1. QueueTypeOK'
      BY <2>16, AskedUpdates, SubmitTyped DEF InitialUpdate, Caller
    <3> QED
      BY <2>16, <3>1 DEF InitialUpdate, worldVars, timerVars, workVars, counters
  <2>17. ASSUME NEW e \in evtCh, HandleEvent(e) PROVE TypeOK'
    <3>1. QueueTypeOK'
      <4>1. pending' \in FilterOptions \cup {None}
        BY <2>17, AskedFilters, CoalesceTyped DEF HandleEvent
      <4> QED
        BY <2>17, <4>1 DEF HandleEvent, QueueTypeOK
    <3> QED
      BY <2>17, <3>1 DEF HandleEvent, worldVars, timerVars, workVars, counters
  <2>18. ASSUME MonitorReturns PROVE TypeOK'
    <3>1. QueueTypeOK'
      BY <2>18, QueueUnchanged DEF MonitorReturns
    <3> QED
      BY <2>18, <3>1 DEF MonitorReturns, worldVars, timerVars, workVars, counters
  <2>19. ASSUME ReconcileTick PROVE TypeOK'
    <3>1. QueueTypeOK'
      BY <2>19, AskedUpdates, SubmitTyped DEF ReconcileTick, Caller
    <3> QED
      BY <2>19, <3>1 DEF ReconcileTick, worldVars, monitorVars, timerVars, workVars, counters
  <2>20. ASSUME MetricsTick PROVE TypeOK'
    <3>1. QueueTypeOK'
      BY <2>20, AskedUpdates, SubmitTyped DEF MetricsTick, Caller
    <3> QED
      BY <2>20, <3>1 DEF MetricsTick, worldVars, monitorVars, timerVars, workVars, counters
  <2>21. ASSUME BridgeOnline PROVE TypeOK'
    <3>1. QueueTypeOK'
      <4>1. pending' \in FilterOptions \cup {None}
        BY <2>21, AskedFilters, CoalesceTyped DEF BridgeOnline
      <4> QED
        BY <2>21, <4>1 DEF BridgeOnline, QueueTypeOK
    <3> QED
      BY <2>21, <3>1 DEF BridgeOnline, worldVars, monitorVars, timerVars, workVars
  <2>22. ASSUME NEW n \in Name, HealthCheck(n) PROVE TypeOK'
    <3>1. QueueTypeOK'
      <4>1. pending' \in FilterOptions \cup {None}
        BY <2>22, AskedFilters, CoalesceTyped DEF HealthCheck
      <4> QED
        BY <2>22, <4>1 DEF HealthCheck, QueueTypeOK
    <3> QED
      BY <2>22, <3>1 DEF HealthCheck, worldVars, monitorVars, timerVars, workVars
  <2>23. ASSUME NEW c \in Container, EngineChanges(c) PROVE TypeOK'
    <3>1. QueueTypeOK'
      BY <2>23, QueueUnchanged DEF EngineChanges
    <3>2. evtCh' \subseteq Event
      BY <2>23 DEF EngineChanges, Event
    <3> QED
      BY <2>23, <3>1, <3>2 DEF EngineChanges, Status, Event, timerVars, workVars
  <2>24. ASSUME NEW c \in Container, MapperDelivers(c) PROVE TypeOK'
    <3>1. QueueTypeOK'
      BY <2>24, QueueUnchanged DEF MapperDelivers
    <3> QED
      BY <2>24, <3>1 DEF MapperDelivers, monitorVars, timerVars, workVars, counters
  <2>25. ASSUME OrphansIntervalOver PROVE TypeOK'
    <3>1. QueueTypeOK'
      BY <2>25, QueueUnchanged DEF OrphansIntervalOver
    <3> QED
      BY <2>25, <3>1 DEF OrphansIntervalOver, worldVars, monitorVars, workVars, counters
  <2>26. ASSUME StreamBreaks PROVE TypeOK'
    <3>1. QueueTypeOK'
      BY <2>26, QueueUnchanged DEF StreamBreaks
    <3>2. /\ stream' \in BOOLEAN /\ retryArmed' \in BOOLEAN /\ orphansChecked' \in BOOLEAN
          /\ syncPending' \in BOOLEAN /\ removed' \in BOOLEAN
      BY <2>26 DEF StreamBreaks, timerVars, workVars
    <3> QED
      BY <2>26, <3>1, <3>2 DEF StreamBreaks, worldVars, timerVars, workVars
  <2>27. ASSUME Restart PROVE TypeOK'
    <3>1. QueueTypeOK'
      <4>1. QueueInit'
        BY <2>27 DEF Restart, QueueInit
      <4> QED
        BY <4>1, QueueAssumption DEF QueueInit, QueueTypeOK
    <3>2. /\ stream' \in BOOLEAN /\ retryArmed' \in BOOLEAN /\ orphansChecked' \in BOOLEAN
          /\ syncPending' \in BOOLEAN /\ removed' \in BOOLEAN
      BY <2>27 DEF Restart, ForgetWork
    <3> QED
      BY <2>27, <3>1, <3>2 DEF Restart, ForgetWork, NoItems, Phase, Status, worldVars
  <2>28. ASSUME UNCHANGED vars PROVE TypeOK'
    <3>1. QueueTypeOK'
      BY <2>28, QueueUnchanged DEF vars
    <3> QED
      BY <2>28, <3>1 DEF vars, worldVars, monitorVars, timerVars, workVars, counters
  <2> QED
    BY <2>1, <2>2, <2>3, <2>4, <2>5, <2>6, <2>7, <2>8, <2>9, <2>10, <2>11, <2>12, <2>13, <2>14,
       <2>15, <2>16, <2>17, <2>18, <2>19, <2>20, <2>21, <2>22, <2>23, <2>24, <2>25, <2>26, <2>27,
       <2>28
       DEF Next, Worker, Triggers, World
<1> QED
  BY <1>1, <1>2, PTL DEF Spec

-----------------------------------------------------------------------------
(***************************************************************************)
(* What a step does to thin-edge.io and the cloud                          *)
(***************************************************************************)

registryVars == <<entities, mapper, cloud, released>>

\* Where doUpdate stands when it removes a service: its managed object is known
\* to be gone.
GivingUp == phase \in {"clear-health", "deregister"}

\* The steps that touch the services, and what the others leave alone.
LEMMA ServiceSteps ==
  ASSUME [Next]_vars
  PROVE  \/ \E c \in Container : \/ Register(c)
                                 \/ DeleteService(c)
                                 \/ DeleteOrphan(c)
                                 \/ MapperDelivers(c)
         \/ Deregister
         \/ ClearHealth
         \/ UNCHANGED registryVars /\ (GivingUp' => GivingUp /\ target' = target)
<1> DEFINE Other == UNCHANGED registryVars /\ (GivingUp' => GivingUp /\ target' = target)
<1> USE DEF registryVars, GivingUp
<1>1. BeginRequest => Other
  BY DEF BeginRequest, worldVars
<1>2. ReadEntities => Other
  BY DEF ReadEntities, worldVars
<1>3. ListContainers => Other
  BY DEF ListContainers, worldVars
<1>4. FindOrphans => Other
  BY DEF FindOrphans, worldVars
<1>5. EndLoop => Other
  BY DEF EndLoop, worldVars
<1>6. FinishRequest => Other
  BY DEF FinishRequest, ForgetWork, worldVars
<1>7. DebounceFires => Other
  BY DEF DebounceFires, worldVars, workVars
<1>8. RetryFires => Other
  BY DEF RetryFires, worldVars, workVars
<1>9. Subscribe => Other
  BY DEF Subscribe, worldVars, workVars
<1>10. InitialUpdate => Other
  BY DEF InitialUpdate, worldVars, workVars
<1>11. MonitorReturns => Other
  BY DEF MonitorReturns, worldVars, workVars
<1>12. ReconcileTick => Other
  BY DEF ReconcileTick, worldVars, workVars
<1>13. MetricsTick => Other
  BY DEF MetricsTick, worldVars, workVars
<1>14. BridgeOnline => Other
  BY DEF BridgeOnline, worldVars, workVars
<1>15. OrphansIntervalOver => Other
  BY DEF OrphansIntervalOver, worldVars, workVars
<1>16. StreamBreaks => Other
  BY DEF StreamBreaks, worldVars, workVars
<1>17. Restart => Other
  BY DEF Restart, ForgetWork, worldVars
<1>18. \A c \in Container : PublishHealth(c) => Other
  BY DEF PublishHealth
<1>19. \A e \in evtCh : HandleEvent(e) => Other
  BY DEF HandleEvent, worldVars, workVars
<1>20. \A n \in Name : HealthCheck(n) => Other
  BY DEF HealthCheck, worldVars, workVars
<1>21. \A c \in Container : EngineChanges(c) => Other
  BY DEF EngineChanges, workVars
<1>22. UNCHANGED vars => Other
  BY DEF vars, worldVars, workVars
<1> QED
  BY <1>1, <1>2, <1>3, <1>4, <1>5, <1>6, <1>7, <1>8, <1>9, <1>10, <1>11, <1>12, <1>13, <1>14,
     <1>15, <1>16, <1>17, <1>18, <1>19, <1>20, <1>21, <1>22 DEF Next, Worker, Triggers, World

-----------------------------------------------------------------------------
(***************************************************************************)
(* Cloud first                                                             *)
(***************************************************************************)

\* CloudFirst alone is not inductive: that deregistering a service is right
\* rests on what doUpdate did two steps before.
CloudReleased ==
  /\ CloudFirst
  /\ DeleteFromCloud /\ GivingUp => target \in released \cap Container

\* CloudReleased is an invariant.
LEMMA CloudReleasedInvariant == Spec => []CloudReleased
<1>1. Init => CloudReleased
  BY DEF Init, CloudReleased, CloudFirst, GivingUp
<1>2. TypeOK /\ CloudReleased /\ [Next]_vars => CloudReleased'
  <2> SUFFICES ASSUME TypeOK, CloudReleased, [Next]_vars PROVE CloudReleased'
    OBVIOUS
  <2> USE DEF CloudReleased, CloudFirst, GivingUp
  <2>1. ASSUME NEW c \in Container, Register(c) PROVE CloudReleased'
    BY <2>1 DEF Register, TypeOK
  <2>2. ASSUME NEW c \in Container, DeleteService(c) PROVE CloudReleased'
    BY <2>2 DEF DeleteService, DeletionFailed
  <2>3. ASSUME NEW c \in Container, DeleteOrphan(c) PROVE CloudReleased'
    BY <2>3 DEF DeleteOrphan
  <2>4. ASSUME NEW c \in Container, MapperDelivers(c) PROVE CloudReleased'
    BY <2>4 DEF MapperDelivers, workVars
  <2>5. CASE Deregister
    BY <2>5 DEF Deregister
  <2>6. CASE ClearHealth
    BY <2>6 DEF ClearHealth
  <2>7. CASE UNCHANGED registryVars /\ (GivingUp' => GivingUp /\ target' = target)
    BY <2>7 DEF registryVars
  <2> QED
    BY <2>1, <2>2, <2>3, <2>4, <2>5, <2>6, <2>7, ServiceSteps
<1> QED
  BY <1>1, <1>2, TypeCorrect, PTL DEF Spec

\* Whatever calls fail, whatever is lost and wherever the process is restarted:
\* as long as the plugin deletes services from the cloud, a managed object that
\* is there or still to come has an entity to remember it by, unless the cloud
\* has acknowledged its deletion.
THEOREM CloudIsFirst == Spec => []CloudFirst
<1>1. CloudReleased => CloudFirst
  BY DEF CloudReleased
<1> QED
  BY <1>1, CloudReleasedInvariant, PTL

-----------------------------------------------------------------------------
(***************************************************************************)
(* The reconciler implements the service registry                          *)
(***************************************************************************)

\* Each step of the reconciler and its surroundings is a step of ServiceRegistry
\* or leaves its variables alone, when services are deleted from the cloud.
THEOREM RegistryKept ==
  ASSUME DeleteFromCloud = TRUE
  PROVE  Spec => KeepsRegistry
<1>1. Init => Registry!Init
  BY DEF Init, Registry!Init
<1>2. TypeOK /\ CloudReleased /\ [Next]_vars => [Registry!Next]_(Registry!vars)
  <2> SUFFICES ASSUME TypeOK, CloudReleased, [Next]_vars
               PROVE  Registry!Next \/ UNCHANGED Registry!vars
    OBVIOUS
  <2> USE DEF Registry!vars
  <2>1. ASSUME NEW c \in Container, Register(c)
        PROVE  Registry!Register(c) \/ UNCHANGED Registry!vars
    <3>1. CASE entities' # entities /\ c \notin entities
      BY <2>1, <3>1 DEF Register, Registry!Register
    <3>2. CASE entities' = entities \/ c \in entities
      BY <2>1, <3>2 DEF Register
    <3> QED
      BY <3>1, <3>2
  <2>2. ASSUME NEW c \in Container, DeleteService(c)
        PROVE  Registry!Release(c) \/ UNCHANGED Registry!vars
    <3>1. CASE Works
      BY <2>2, <3>1 DEF DeleteService, DeletionFailed, Registry!Release, Works, Fails
    <3> QED
      BY <2>2 DEF DeleteService, DeletionFailed, Registry!Release
  <2>3. ASSUME NEW c \in Container, DeleteOrphan(c)
        PROVE  Registry!Sweep(c) \/ UNCHANGED Registry!vars
    BY <2>3 DEF DeleteOrphan, Registry!Sweep
  <2>4. ASSUME NEW c \in Container, MapperDelivers(c) PROVE Registry!Appear(c)
    BY <2>4 DEF MapperDelivers, Registry!Appear
  <2>5. ASSUME Deregister
        PROVE  \/ \E c \in Container : Registry!Deregister(c)
               \/ UNCHANGED Registry!vars
    <3>1. target \in released \cap Container
      BY <2>5 DEF Deregister, CloudReleased, GivingUp
    <3>2. Registry!Deregister(target) \/ UNCHANGED Registry!vars
      BY <2>5, <3>1 DEF Deregister, Registry!Deregister
    <3> QED
      BY <3>1, <3>2
  <2>6. CASE ClearHealth
    BY <2>6 DEF ClearHealth
  <2>7. CASE UNCHANGED registryVars
    BY <2>7 DEF registryVars
  <2> QED
    BY <2>1, <2>2, <2>3, <2>4, <2>5, <2>6, <2>7, ServiceSteps DEF Registry!Next
<1> QED
  BY <1>1, <1>2, TypeCorrect, CloudReleasedInvariant, PTL DEF Spec, KeepsRegistry, Registry!Spec

-----------------------------------------------------------------------------
(***************************************************************************)
(* A listed container is spared                                            *)
(***************************************************************************)

\* What doUpdate has left to remove is never among what it listed: first by the
\* list of stale services, later by its copy of the entity store.
ListedSpared ==
  /\ phase \in {"register", "health"} => stale \cap Listed = {}
  /\ phase \in {"stale", "clear-health", "deregister"} => todo \cap Listed = {}
  /\ GivingUp => target \notin Listed
  /\ phase = "register" => Listed \subseteq snapshot \cup todo
  /\ phase \in {"health", "stale", "clear-health", "deregister", "sweep"}
       => Listed \subseteq snapshot
  /\ phase = "sweeping" => todo \cap Listed = {}

\* The steps that leave the work of the update alone.
LEMMA WorkUnchanged ==
  ASSUME ListedSpared, UNCHANGED workVars
  PROVE  ListedSpared'
BY DEF ListedSpared, workVars, Listed, GivingUp

\* ListedSpared is an invariant.
LEMMA ListedSparedInvariant == Spec => []ListedSpared
<1>1. Init => ListedSpared
  BY DEF Init, ListedSpared, GivingUp
<1>2. TypeOK /\ ListedSpared /\ [Next]_vars => ListedSpared'
  <2> SUFFICES ASSUME TypeOK, ListedSpared, [Next]_vars PROVE ListedSpared'
    OBVIOUS
  <2> USE DEF ListedSpared, GivingUp, Listed
  <2>1. CASE BeginRequest
    BY <2>1 DEF BeginRequest
  <2>2. CASE ReadEntities
    BY <2>2 DEF ReadEntities
  <2>3. CASE ListContainers
    BY <2>3 DEF ListContainers
  <2>4. ASSUME NEW c \in Container, Register(c) PROVE ListedSpared'
    BY <2>4 DEF Register, SnapshotWith
  <2>5. ASSUME NEW c \in Container, PublishHealth(c) PROVE ListedSpared'
    BY <2>5 DEF PublishHealth
  <2>6. ASSUME NEW c \in Container, DeleteService(c) PROVE ListedSpared'
    BY <2>6 DEF DeleteService, DeletionFailed
  <2>7. ASSUME NEW c \in Container, DeleteOrphan(c) PROVE ListedSpared'
    BY <2>7 DEF DeleteOrphan
  <2>8. CASE ClearHealth
    BY <2>8 DEF ClearHealth
  <2>9. CASE Deregister
    BY <2>9 DEF Deregister
  <2>10. CASE FindOrphans
    BY <2>10 DEF FindOrphans
  <2>11. CASE EndLoop
    BY <2>11 DEF EndLoop
  <2>12. CASE FinishRequest
    BY <2>12 DEF FinishRequest, ForgetWork
  <2>13. CASE Restart
    BY <2>13 DEF Restart, ForgetWork
  <2>14. CASE Triggers
    BY <2>14, WorkUnchanged
       DEF Triggers, DebounceFires, RetryFires, Subscribe, InitialUpdate, HandleEvent,
           MonitorReturns, ReconcileTick, MetricsTick, BridgeOnline, HealthCheck
  <2>15. ASSUME NEW c \in Container, EngineChanges(c) \/ MapperDelivers(c) PROVE ListedSpared'
    BY <2>15, WorkUnchanged DEF EngineChanges, MapperDelivers
  <2>16. CASE OrphansIntervalOver \/ StreamBreaks
    BY <2>16, WorkUnchanged DEF OrphansIntervalOver, StreamBreaks
  <2>17. CASE UNCHANGED vars
    BY <2>17, WorkUnchanged DEF vars
  <2> QED
    BY <2>1, <2>2, <2>3, <2>4, <2>5, <2>6, <2>7, <2>8, <2>9, <2>10, <2>11, <2>12, <2>13, <2>14,
       <2>15, <2>16, <2>17
       DEF Next, Worker, World
<1> QED
  BY <1>1, <1>2, TypeCorrect, PTL DEF Spec

\* An update never removes from the cloud or from thin-edge.io a service whose
\* container it has just listed, even when the call to register it failed or the
\* copy of the entity store it works from is older.
THEOREM ListedIsSpared == Spec => SparesListed
<1>1. TypeOK /\ ListedSpared /\ [Next]_vars
        => [\A c \in (cloud \ cloud') \cup (entities \ entities') : items[c] = "absent"]_vars
  <2> SUFFICES ASSUME TypeOK, ListedSpared, [Next]_vars,
                      NEW c \in (cloud \ cloud') \cup (entities \ entities')
               PROVE  items[c] = "absent"
    OBVIOUS
  <2>1. c \in Container
    BY DEF TypeOK
  <2>2. c \in Listed => FALSE
    <3> SUFFICES ASSUME c \in Listed PROVE FALSE
      OBVIOUS
    <3>1. ASSUME NEW d \in Container, Register(d) \/ MapperDelivers(d) PROVE FALSE
      BY <3>1 DEF Register, MapperDelivers
    <3>2. ASSUME NEW d \in Container, DeleteService(d) PROVE FALSE
      BY <3>2 DEF DeleteService, DeletionFailed, ListedSpared
    <3>3. ASSUME NEW d \in Container, DeleteOrphan(d) PROVE FALSE
      BY <3>3 DEF DeleteOrphan, ListedSpared
    <3>4. ASSUME Deregister PROVE FALSE
      BY <3>4 DEF Deregister, ListedSpared, GivingUp
    <3>5. ASSUME ClearHealth PROVE FALSE
      BY <3>5 DEF ClearHealth
    <3>6. ASSUME UNCHANGED registryVars PROVE FALSE
      BY <3>6 DEF registryVars
    <3> QED
      BY <3>1, <3>2, <3>3, <3>4, <3>5, <3>6, ServiceSteps
  <2> QED
    BY <2>1, <2>2 DEF Listed
<1> QED
  BY <1>1, TypeCorrect, ListedSparedInvariant, PTL DEF Spec, SparesListed

-----------------------------------------------------------------------------
(***************************************************************************)
(* Nothing falls between                                                   *)
(***************************************************************************)

\* A filter that is no narrower than the configured one but for ids and names.
Uniform(fo) == (fo.labels => Cli.labels) /\ (fo.client => Cli.client)

\* What NothingFallsBetween rests on: the filters that are on their way, that a
\* failed deletion is remembered until the update ends, and what its loops are about.
FlowInv ==
  /\ pending # None => Uniform(pending)
  /\ \A i \in 1..Len(queue) : Uniform(queue[i].options)
  /\ phase # "idle" => running # None /\ Uniform(running.options)
  /\ syncPending => phase \in {"stale", "clear-health", "deregister", "sweep", "sweeping", "end"}
  /\ phase \in {"register", "health"} => todo \subseteq Listed

\* All filters that updates are asked for are uniform.
LEMMA AskedUniform ==
  /\ Uniform(Cli)
  /\ Uniform(Everything)
  /\ \A e \in Event : Uniform(RequestFor(e))
  /\ \A n \in Name : Uniform([Everything EXCEPT !.names = {n}])
<1>1. Uniform(Cli) /\ Uniform(Everything)
  BY DEF Uniform, Everything
<1>2. ASSUME NEW e \in Event PROVE Uniform(RequestFor(e))
  <2>1. [Cli EXCEPT !.ids = {e.id}].labels = Cli.labels
        /\ [Cli EXCEPT !.ids = {e.id}].client = Cli.client
    BY ReconcilerAssumption DEF FilterOptions
  <2> QED
    BY <2>1 DEF RequestFor, Uniform
<1>3. ASSUME NEW n \in Name PROVE Uniform([Everything EXCEPT !.names = {n}])
  BY DEF Everything, Uniform
<1> QED
  BY <1>1, <1>2, <1>3

\* Merging keeps filters uniform.
LEMMA CoalesceUniform ==
  ASSUME QueueTypeOK, FlowInv, NEW fo \in FilterOptions, Uniform(fo), Coalesce(fo)
  PROVE  Uniform(pending')
<1>1. CASE pending = None
  BY <1>1 DEF Coalesce
<1>2. CASE pending # None
  <2>1. pending \in FilterOptions /\ Uniform(pending)
    BY <1>2 DEF QueueTypeOK, FlowInv
  <2>2. \/ MergeFilterOptions(pending, fo) \in {pending, fo}
        \/ /\ MergeFilterOptions(pending, fo).labels = pending.labels
           /\ MergeFilterOptions(pending, fo).client = pending.client
    BY <2>1 DEF MergeFilterOptions, FilterOptions
  <2> QED
    BY <1>2, <2>1, <2>2 DEF Coalesce, Uniform
<1> QED
  BY <1>1, <1>2

\* A merge of uniform filters puts in line what either of them does, unless it asks
\* for ids and names at once.
LEMMA MergeCovers ==
  ASSUME NEW a \in FilterOptions, NEW b \in FilterOptions, Uniform(a), Uniform(b),
         NEW c \in Container, Admits(Cli, c), Covers(Cli, c), Covers(a, c) \/ Covers(b, c),
         NEW m, m = MergeFilterOptions(a, b), m.ids = {} \/ m.names = {}
  PROVE  Covers(m, c)
<1>1. ASSUME NEW f \in FilterOptions, Uniform(f), ~Scoped(f) PROVE Covers(f, c)
  BY <1>1 DEF Uniform, Scoped, Covers, Admits, IsEmpty, FilterOptions
<1>2. CASE ~Scoped(a) \/ ~Scoped(b)
  BY <1>1, <1>2 DEF MergeFilterOptions
<1>3. CASE Scoped(a) /\ Scoped(b)
  <2>1. /\ m.ids = a.ids \cup b.ids /\ m.names = a.names \cup b.names
        /\ m.labels = a.labels /\ m.client = a.client
    BY <1>3 DEF MergeFilterOptions, FilterOptions
  <2>2. engine[c] # "absent" /\ (Admits(a, c) \/ Admits(b, c))
    BY <1>3 DEF Covers, Scoped, IsEmpty
  <2>3. (m.labels => c \in Labelled) /\ (m.client => c \notin Excluded)
    BY <2>1 DEF Uniform, Admits
  <2>4. (m.ids = {} \/ c \in m.ids) /\ (m.names = {} \/ NameOf[c] \in m.names)
    BY <1>3, <2>1, <2>2 DEF Scoped, Admits
  <2> QED
    BY <2>2, <2>3, <2>4 DEF Covers, Admits
<1> QED
  BY <1>2, <1>3

\* So what is pending goes on to put in line what it did, and what is asked for.
LEMMA CoalesceCovers ==
  ASSUME QueueTypeOK, FlowInv, NEW fo \in FilterOptions, Uniform(fo), Coalesce(fo),
         NEW c \in Container, Admits(Cli, c), Covers(Cli, c),
         Covers(fo, c) \/ (pending # None /\ Covers(pending, c)),
         pending = None \/ pending'.ids = {} \/ pending'.names = {}
  PROVE  pending' # None /\ Covers(pending', c)
<1>1. pending' # None
  BY CoalesceTyped, MergeTyped, QueueAssumption DEF Coalesce, QueueTypeOK
<1>2. CASE pending = None
  BY <1>1, <1>2 DEF Coalesce
<1>3. CASE pending # None
  <2>1. pending \in FilterOptions /\ Uniform(pending)
    BY <1>3 DEF QueueTypeOK, FlowInv
  <2>2. pending' = MergeFilterOptions(pending, fo)
    BY <1>3 DEF Coalesce
  <2> QED
    BY <1>1, <1>3, <2>1, <2>2, MergeCovers
<1> QED
  BY <1>2, <1>3

\* FlowInv is kept by steps that leave the requests and the update alone, or ask.
LEMMA FlowUnchanged ==
  ASSUME TypeOK, FlowInv, UNCHANGED <<running, workVars>>,
         pending' = pending \/ pending' = None \/ Uniform(pending'),
         queue' = queue \/ \E r \in ActionRequest : queue' = Append(queue, r) /\ Uniform(r.options)
  PROVE  FlowInv'
<1>1. \A i \in 1..Len(queue') : Uniform(queue'[i].options)
  BY DEF FlowInv, TypeOK, QueueTypeOK
<1> QED
  BY <1>1 DEF FlowInv, Uniform, workVars, Listed

\* FlowInv is an invariant.
LEMMA FlowInvariant == Spec => []FlowInv
<1>1. Init => FlowInv
  BY DEF Init, QueueInit, FlowInv
<1>2. TypeOK /\ FlowInv /\ [Next]_vars => FlowInv'
  <2> SUFFICES ASSUME TypeOK, FlowInv, [Next]_vars PROVE FlowInv'
    OBVIOUS
  <2> USE DEF FlowInv, Listed, Uniform
  <2>1. CASE BeginRequest
    <3>1. /\ Head(queue) = queue[1] /\ Head(queue) # None
          /\ \A i \in 1..Len(Tail(queue)) : Tail(queue)[i] = queue[i + 1] /\ i + 1 \in 1..Len(queue)
          /\ 1 \in 1..Len(queue)
      BY <2>1, RequestAssumption DEF BeginRequest, Receive, TypeOK, QueueTypeOK
    <3> QED
      BY <2>1, <3>1 DEF BeginRequest, Receive
  <2>2. CASE ReadEntities
    BY <2>2 DEF ReadEntities, queueVars
  <2>3. CASE ListContainers
    BY <2>3 DEF ListContainers, queueVars
  <2>4. ASSUME NEW c \in Container, Register(c) \/ PublishHealth(c) PROVE FlowInv'
    BY <2>4 DEF Register, PublishHealth, queueVars
  <2>5. ASSUME NEW c \in Container, DeleteService(c) \/ DeleteOrphan(c) PROVE FlowInv'
    BY <2>5 DEF DeleteService, DeletionFailed, DeleteOrphan, queueVars
  <2>6. CASE ClearHealth \/ Deregister \/ FindOrphans
    BY <2>6 DEF ClearHealth, Deregister, FindOrphans, queueVars
  <2>7. CASE EndLoop
    BY <2>7 DEF EndLoop, queueVars
  <2>8. CASE FinishRequest
    BY <2>8 DEF FinishRequest, ForgetWork, Complete
  <2>9. CASE Restart
    BY <2>9 DEF Restart, ForgetWork
  <2>10. CASE DebounceFires
    <3>1. pending # None => Debounced(pending) \in ActionRequest /\ Debounced(pending).options = pending
      BY DEF TypeOK, QueueTypeOK, Debounced, ActionRequest, Caller
    <3> QED
      BY <2>10, <3>1, FlowUnchanged DEF DebounceFires, Offer
  <2>11. ASSUME NEW fo \in FilterOptions, Uniform(fo), Coalesce(fo),
                UNCHANGED <<queue, running, workVars>>
         PROVE  FlowInv'
    <3>1. Uniform(pending')
      BY <2>11, CoalesceUniform DEF TypeOK
    <3> QED
      BY <2>11, <3>1, FlowUnchanged
  <2>12. CASE RetryFires \/ BridgeOnline
    BY <2>11, <2>12, AskedFilters, AskedUniform DEF RetryFires, BridgeOnline
  <2>13. ASSUME NEW e \in evtCh, HandleEvent(e) PROVE FlowInv'
    <3>1. e \in Event
      BY DEF TypeOK
    <3> QED
      BY <2>11, <2>13, <3>1, AskedFilters, AskedUniform DEF HandleEvent
  <2>14. ASSUME NEW n \in Name, HealthCheck(n) PROVE FlowInv'
    BY <2>11, <2>14, AskedFilters, AskedUniform DEF HealthCheck
  <2>15. ASSUME NEW action \in {"UpdateAll", "UpdateMetrics"}, NEW caller \in Caller,
                Submit([action |-> action, options |-> Cli, caller |-> caller]),
                UNCHANGED workVars
         PROVE  FlowInv'
    BY <2>15, FlowUnchanged, AskedUpdates, AskedUniform DEF Submit
  <2>16. CASE InitialUpdate \/ ReconcileTick \/ MetricsTick
    BY <2>15, <2>16 DEF InitialUpdate, ReconcileTick, MetricsTick, Caller
  <2>17. CASE Subscribe \/ MonitorReturns \/ OrphansIntervalOver \/ StreamBreaks
    BY <2>17, FlowUnchanged
       DEF Subscribe, MonitorReturns, OrphansIntervalOver, StreamBreaks, queueVars
  <2>18. ASSUME NEW c \in Container, EngineChanges(c) \/ MapperDelivers(c) PROVE FlowInv'
    BY <2>18, FlowUnchanged DEF EngineChanges, MapperDelivers, queueVars
  <2>19. CASE UNCHANGED vars
    BY <2>19, FlowUnchanged DEF vars, queueVars
  <2> QED
    BY <2>1, <2>2, <2>3, <2>4, <2>5, <2>6, <2>7, <2>8, <2>9, <2>10, <2>12, <2>13, <2>14, <2>16,
       <2>17, <2>18, <2>19
       DEF Next, Worker, Triggers, World
<1> QED
  BY <1>1, <1>2, TypeCorrect, PTL DEF Spec

\* The monitor waits for the one request it has made.
MonitorWaits ==
  /\ \A i \in 1..Len(queue) : queue[i].caller = "monitor" => monitor = "updating"
  /\ \A i, j \in 1..Len(queue) :
       queue[i].caller = "monitor" /\ queue[j].caller = "monitor" => i = j
  /\ running # None /\ running.caller = "monitor" =>
       monitor = "updating" /\ \A i \in 1..Len(queue) : queue[i].caller # "monitor"

\* Others do not disturb it.
LEMMA WaitUnchanged ==
  ASSUME QueueTypeOK, MonitorWaits, UNCHANGED <<running, monitor>>,
         \/ queue' = queue
         \/ \E r \in ActionRequest : queue' = Append(queue, r) /\ r.caller # "monitor"
  PROVE  MonitorWaits'
BY DEF QueueTypeOK, MonitorWaits

\* MonitorWaits is an invariant.
LEMMA MonitorWaitsInvariant == Spec => []MonitorWaits
<1>1. Init => MonitorWaits
  BY DEF Init, QueueInit, MonitorWaits
<1>2. TypeOK /\ MonitorWaits /\ [Next]_vars => MonitorWaits'
  <2> SUFFICES ASSUME TypeOK, MonitorWaits, [Next]_vars PROVE MonitorWaits'
    OBVIOUS
  <2>0. QueueTypeOK
    BY DEF TypeOK
  <2>1. CASE BeginRequest
    <3>1. /\ running' = queue[1] /\ Len(queue') = Len(queue) - 1 /\ Len(queue) \in Nat \ {0}
          /\ \A i \in 1..Len(queue') : queue'[i] = queue[i + 1] /\ i + 1 \in 1..Len(queue)
          /\ monitor' = monitor
      BY <2>0, <2>1 DEF BeginRequest, Receive, QueueTypeOK, monitorVars
    <3>2. ASSUME NEW i \in 1..Len(queue'), queue[1].caller = "monitor"
          PROVE  queue'[i].caller # "monitor"
      <4>1. i + 1 # 1 /\ i + 1 \in 1..Len(queue) /\ 1 \in 1..Len(queue)
        BY <3>1
      <4> QED
        BY <3>1, <3>2, <4>1 DEF MonitorWaits
    <3>3. ASSUME NEW i \in 1..Len(queue'), NEW j \in 1..Len(queue'),
                 queue'[i].caller = "monitor", queue'[j].caller = "monitor"
          PROVE  i = j
      <4>1. i + 1 = j + 1
        BY <3>1, <3>3 DEF MonitorWaits
      <4> QED
        BY <4>1
    <3>4. 1 \in 1..Len(queue)
      BY <3>1
    <3> QED
      BY <3>1, <3>2, <3>3, <3>4 DEF MonitorWaits
  <2>2. CASE FinishRequest
    BY <2>2 DEF FinishRequest, Complete, MonitorWaits
  <2>3. CASE Restart
    BY <2>3 DEF Restart, MonitorWaits
  <2>4. CASE DebounceFires
    <3>1. pending # None => Debounced(pending) \in ActionRequest /\ Debounced(pending).caller = "nobody"
      BY <2>0 DEF QueueTypeOK, Debounced, ActionRequest, Caller
    <3> QED
      BY <2>0, <2>4, <3>1, WaitUnchanged DEF DebounceFires, Offer, monitorVars
  <2>5. CASE InitialUpdate
    <3>1. /\ Len(queue') = Len(queue) + 1 /\ Len(queue) \in Nat
          /\ \A i \in 1..Len(queue) : queue'[i] = queue[i]
          /\ monitor = "subscribed" /\ monitor' = "updating" /\ running' = running
      BY <2>0, <2>5 DEF InitialUpdate, Submit, QueueTypeOK
    <3> QED
      BY <3>1 DEF MonitorWaits
  <2>6. ASSUME NEW action \in {"UpdateAll", "UpdateMetrics"}, NEW caller \in Caller \ {"monitor"},
               Submit([action |-> action, options |-> Cli, caller |-> caller]),
               UNCHANGED monitorVars
        PROVE  MonitorWaits'
    BY <2>0, <2>6, WaitUnchanged, AskedUpdates DEF Submit, monitorVars
  <2>7. CASE ReconcileTick \/ MetricsTick
    BY <2>6, <2>7 DEF ReconcileTick, MetricsTick, Caller
  <2>8. CASE MonitorReturns \/ Subscribe
    BY <2>8 DEF MonitorReturns, Subscribe, MonitorWaits, queueVars
  <2>9. CASE \/ RetryFires \/ BridgeOnline \/ OrphansIntervalOver \/ StreamBreaks
             \/ \E e \in evtCh : HandleEvent(e)
             \/ \E n \in Name : HealthCheck(n)
             \/ \E c \in Container : EngineChanges(c) \/ MapperDelivers(c)
    BY <2>0, <2>9, WaitUnchanged
       DEF RetryFires, BridgeOnline, OrphansIntervalOver, StreamBreaks, HandleEvent, HealthCheck,
           EngineChanges, MapperDelivers, queueVars, monitorVars
  <2>10. CASE \/ ReadEntities \/ ListContainers \/ ClearHealth \/ Deregister \/ FindOrphans
              \/ EndLoop
              \/ \E c \in Container : \/ Register(c) \/ PublishHealth(c)
                                      \/ DeleteService(c) \/ DeleteOrphan(c)
    BY <2>0, <2>10, WaitUnchanged
       DEF ReadEntities, ListContainers, ClearHealth, Deregister, FindOrphans, EndLoop, Register,
           PublishHealth, DeleteService, DeleteOrphan, queueVars, monitorVars
  <2>11. CASE UNCHANGED vars
    BY <2>0, <2>11, WaitUnchanged DEF vars, queueVars, monitorVars
  <2> QED
    BY <2>1, <2>2, <2>3, <2>4, <2>5, <2>7, <2>8, <2>9, <2>10, <2>11
       DEF Next, Worker, Triggers, World
<1> QED
  BY <1>1, <1>2, TypeCorrect, PTL DEF Spec

\* A request that is queued stays there while others are added.
LEMMA QueuedStays ==
  ASSUME QueueTypeOK, NEW c, Queued(c), UNCHANGED engine,
         queue' = queue \/ \E r \in ActionRequest : queue' = Append(queue, r)
  PROVE  Queued(c)'
BY DEF QueueTypeOK, Queued, Covers

\* What the update at work makes of a container does not depend on requests.
LEMMA InLineStays ==
  ASSUME NEW c, UNCHANGED <<engine, entities, health, running, workVars>>
  PROVE  InLine(c)' = InLine(c)
BY DEF InLine, Publishing, Removing, Listed, workVars

\* Asking for an update keeps a container settled, when it answers for the event or
\* the timer that it takes away.
LEMMA AskingSettles ==
  ASSUME TypeOK, FlowInv, NEW c \in Container, Settled(c),
         NEW fo \in FilterOptions, Uniform(fo), Coalesce(fo),
         UNCHANGED <<engine, entities, health, monitor, stream, queue, running, workVars>>,
         pending = None \/ pending'.ids = {} \/ pending'.names = {},
         Admits(Cli, c) /\ Covers(Cli, c) =>
           Covers(fo, c) \/ (retryArmed' = retryArmed /\ (Told(c) => Told(c)'))
  PROVE  Settled(c)'
<1> SUFFICES ASSUME Admits(Cli, c), Covers(Cli, c) PROVE InLine(c)' \/ Owed(c)'
  BY DEF Settled, Covers
<1>1. CASE Covers(fo, c) \/ (pending # None /\ Covers(pending, c))
  <2>1. pending' # None /\ Covers(pending', c)
    BY <1>1, CoalesceCovers DEF TypeOK
  <2> QED
    BY <2>1 DEF Owed, Covers
<1>2. CASE ~Covers(fo, c) /\ ~(pending # None /\ Covers(pending, c))
  <2>1. InLine(c) \/ Owed(c)
    BY DEF Settled
  <2>2. InLine(c)' = InLine(c) /\ Queued(c)' = Queued(c)
    BY InLineStays DEF Queued, Covers
  <2> QED
    BY <1>2, <2>1, <2>2 DEF Owed, Covers, workVars
<1> QED
  BY <1>1, <1>2

\* Asking the worker keeps a container settled.
LEMMA SubmittingSettles ==
  ASSUME TypeOK, NEW c \in Container, Settled(c), NEW request \in ActionRequest, Submit(request),
         UNCHANGED <<worldVars, monitorVars, timerVars, workVars>>
  PROVE  Settled(c)'
<1>1. InLine(c)' = InLine(c)
  BY InLineStays DEF Submit, worldVars
<1>2. Queued(c) => Queued(c)'
  BY QueuedStays DEF Submit, TypeOK, worldVars
<1> QED
  BY <1>1, <1>2
     DEF Settled, Owed, Told, Covers, Submit, worldVars, monitorVars, timerVars, workVars

\* Steps of an update keep a container settled when it stays in line: they take none
\* of the causes away.
LEMMA WorkingSettles ==
  ASSUME NEW c \in Container, Settled(c), UNCHANGED <<engine, queueVars, monitorVars, retryArmed>>,
         syncPending => syncPending', phase \notin {"entities", "list"},
         InLine(c) => InLine(c)' \/ Owed(c)'
  PROVE  Settled(c)'
BY DEF Settled, Owed, Told, Queued, Covers, queueVars, monitorVars

\* The worker keeps a container settled, unless a call fails: from the request that
\* puts it in line, over the listing and the loops of the update, to its end.
LEMMA WorkerSettles ==
  ASSUME TypeOK, FlowInv, ListedSpared, MonitorWaits, NEW c \in Container, Settled(c),
         Worker, ~Loses
  PROVE  Settled(c)'
<1> DEFINE Asked == Admits(Cli, c) /\ Covers(Cli, c)
<1>0. Asked => InLine(c) \/ Owed(c)
  BY DEF Settled
<1>1. CASE BeginRequest
  <2>1. UNCHANGED <<engine, entities, health, monitorVars, timerVars, items, stale, todo, target,
                    syncPending, pending>>
        /\ phase = "idle" /\ phase' \in {"entities", "metrics"}
    BY <1>1 DEF BeginRequest, Receive, worldVars
  <2>2. InLine(c)' = InLine(c)
    BY <2>1 DEF InLine, Publishing, Removing
  <2>3. Queued(c) => Queued(c)' \/ (phase' = "entities" /\ Covers(running'.options, c))
    <3>1. /\ Head(queue) = queue[1] /\ Len(queue') = Len(queue) - 1 /\ Len(queue) \in Nat
          /\ \A i \in 1..Len(queue') : queue'[i] = queue[i + 1]
          /\ running' = queue[1]
      BY <1>1 DEF BeginRequest, Receive, TypeOK, QueueTypeOK
    <3>2. ASSUME NEW i \in 1..Len(queue), queue[i].action = "UpdateAll", Covers(queue[i].options, c)
          PROVE  Queued(c)' \/ (phase' = "entities" /\ Covers(running'.options, c))
      <4>1. CASE i = 1
        BY <1>1, <3>1, <3>2, <4>1 DEF BeginRequest
      <4>2. CASE i # 1
        <5>1. i - 1 \in 1..Len(queue') /\ queue'[i - 1] = queue[i]
          BY <3>1, <4>2
        <5> QED
          BY <2>1, <3>2, <5>1 DEF Queued, Covers
      <4> QED
        BY <4>1, <4>2
    <3> QED
      BY <3>2 DEF Queued
  <2> QED
    BY <1>0, <2>1, <2>2, <2>3 DEF Settled, Owed, Told, Covers, monitorVars, timerVars
<1>2. CASE ReadEntities
  <2>1. UNCHANGED <<queueVars, engine, entities, health, monitorVars, timerVars, items, stale,
                    todo, target, syncPending>>
        /\ phase = "entities" /\ phase' = "list" /\ snapshot' = entities
    BY <1>2 DEF ReadEntities, Fails, Works, Loses, worldVars, TypeOK
  <2>2. InLine(c)' = InLine(c)
    BY <2>1 DEF InLine, Publishing, Removing
  <2>3. engine[c] = "absent" /\ c \notin entities => InLine(c)'
    BY <2>1 DEF InLine, Publishing, Removing
  <2> QED
    BY <1>0, <2>1, <2>2, <2>3
       DEF Settled, Owed, Told, Queued, Covers, queueVars, monitorVars, timerVars
<1>3. CASE ListContainers
  <2>1. /\ UNCHANGED <<queueVars, engine, entities, health, monitorVars, timerVars, snapshot,
                       target, syncPending>>
        /\ phase = "list" /\ phase' = "register"
        /\ items' = [d \in Container |->
                       IF Admits(running.options, d) THEN engine[d] ELSE "absent"]
        /\ stale' = snapshot \ Listed' /\ todo' = Listed'
    BY <1>3 DEF ListContainers, Works, Fails, Loses, Listed, worldVars, TypeOK
  <2>2. c \in Listed' <=> Admits(running.options, c) /\ engine[c] # "absent"
    BY <2>1 DEF Listed
  <2>3. CASE c \in Listed'
    BY <2>1, <2>2, <2>3 DEF Settled, InLine, Publishing
  <2>4. CASE c \notin Listed'
    <3>1. Asked /\ IsEmpty(running.options) => Admits(running.options, c)
      BY <2>1 DEF FlowInv, Uniform, IsEmpty, Admits
    <3>2. Asked /\ IsEmpty(running.options) => engine[c] = "absent"
      BY <2>2, <2>4, <3>1
    <3>3. Asked /\ InLine(c) => InLine(c)'
      BY <2>1, <2>4, <3>2 DEF InLine, Publishing, Removing, queueVars
    <3>4. Covers(running.options, c) => engine[c] = "absent" /\ IsEmpty(running.options)
      BY <2>2, <2>4 DEF Covers
    <3>5. Covers(running.options, c) /\ (engine[c] = "absent" => c \in snapshot) => InLine(c)'
      BY <2>1, <2>4, <3>4 DEF InLine, Publishing, Removing, queueVars
    <3> QED
      BY <1>0, <2>1, <3>3, <3>5
         DEF Settled, Owed, Told, Queued, Covers, queueVars, monitorVars, timerVars
  <2> QED
    BY <2>3, <2>4
<1>4. ASSUME NEW d \in Container, Register(d) PROVE Settled(c)'
  <2>1. entities' = entities \cup {d} /\ d \in Listed
    BY <1>4 DEF Register, Works, Fails, Loses, TypeOK, FlowInv
  <2>2. UNCHANGED Listed
    BY <1>4 DEF Register, Listed
  <2>3. ~(c \in Listed /\ c \in stale)
    BY <1>4 DEF Register, ListedSpared
  <2>4. InLine(c) => InLine(c)'
    BY <1>4, <2>1, <2>2, <2>3 DEF Register, InLine, Publishing, Removing, queueVars
  <2> QED
    BY <1>4, <2>4, WorkingSettles DEF Register, timerVars
<1>5. ASSUME NEW d \in Container, PublishHealth(d) PROVE Settled(c)'
  <2>1. health' = [health EXCEPT ![d] = items[d]] /\ d \in Listed
    BY <1>5 DEF PublishHealth, Works, Fails, Loses, TypeOK, FlowInv
  <2>2. d \notin stale /\ items[d] # "absent"
    BY <1>5, <2>1 DEF PublishHealth, ListedSpared, Listed
  <2>3. InLine(c) => InLine(c)'
    BY <1>5, <2>1, <2>2 DEF PublishHealth, InLine, Publishing, Removing, queueVars, TypeOK
  <2> QED
    BY <1>5, <2>3, WorkingSettles DEF PublishHealth, timerVars
<1>6. ASSUME NEW d \in Container, DeleteService(d) PROVE Settled(c)'
  <2>1. CASE phase' = "clear-health" /\ target' = d
    <3>1. InLine(c) => InLine(c)'
      BY <1>6, <2>1 DEF DeleteService, DeletionFailed, InLine, Publishing, Removing
    <3> QED
      BY <1>6, <2>1, <3>1, WorkingSettles DEF DeleteService, DeletionFailed, timerVars, TypeOK
  <2>2. CASE DeletionFailed(d)
    <3>1. RetryOn /\ syncPending'
      BY <1>6, <2>2 DEF DeleteService, DeletionFailed, Fails, Loses, TypeOK
    <3>2. InLine(c) => InLine(c)' \/ Owed(c)'
      BY <1>6, <2>2, <3>1 DEF DeleteService, DeletionFailed, InLine, Publishing, Removing, Owed
    <3> QED
      BY <1>6, <2>2, <3>1, <3>2, WorkingSettles DEF DeleteService, DeletionFailed, timerVars
  <2> QED
    BY <1>6, <2>1, <2>2 DEF DeleteService
<1>7. CASE ClearHealth
  <2>1. InLine(c) => InLine(c)'
    BY <1>7 DEF ClearHealth, InLine, Publishing, Removing, TypeOK
  <2> QED
    BY <1>7, <2>1, WorkingSettles DEF ClearHealth, timerVars
<1>8. CASE Deregister
  <2>1. entities' = entities \ {target}
    BY <1>8 DEF Deregister, Works, Fails, Loses, TypeOK
  <2>2. InLine(c) => InLine(c)'
    BY <1>8, <2>1 DEF Deregister, InLine, Publishing, Removing
  <2> QED
    BY <1>8, <2>2, WorkingSettles DEF Deregister, timerVars
<1>9. CASE FindOrphans
  <2>1. InLine(c) => InLine(c)'
    BY <1>9 DEF FindOrphans, InLine, Publishing, Removing, worldVars
  <2> QED
    BY <1>9, <2>1, WorkingSettles DEF FindOrphans, timerVars, worldVars, TypeOK
<1>10. ASSUME NEW d \in Container, DeleteOrphan(d) PROVE Settled(c)'
  <2>1. InLine(c) => InLine(c)'
    BY <1>10 DEF DeleteOrphan, InLine, Publishing, Removing
  <2> QED
    BY <1>10, <2>1, WorkingSettles DEF DeleteOrphan, timerVars
<1>11. CASE EndLoop
  <2>1. UNCHANGED Listed
    BY <1>11 DEF EndLoop, Listed
  <2>2. InLine(c) => InLine(c)'
    BY <1>11, <2>1 DEF EndLoop, InLine, Publishing, Removing, queueVars, worldVars, ListedSpared
  <2> QED
    BY <1>11, <2>2, WorkingSettles DEF EndLoop, worldVars
<1>12. CASE FinishRequest
  <2>1. phase \in {"metrics", "end", "failed"} /\ phase' = "idle"
        /\ UNCHANGED <<engine, entities, health, stream, evtCh, pending, queue>>
    BY <1>12 DEF FinishRequest, ForgetWork, Complete, worldVars
  <2>2. InLine(c)' = InLine(c)
    BY <2>1 DEF InLine, Publishing, Removing
  <2>3. RetryOn /\ (syncPending \/ retryArmed) => retryArmed'
    BY <1>12 DEF FinishRequest, RetryNeeded, FlowInv
  <2>4. monitor \in {"stopped", "subscribed"} => monitor' = monitor
    BY <1>12 DEF FinishRequest, Complete, MonitorWaits
  <2> QED
    BY <1>0, <2>1, <2>2, <2>3, <2>4 DEF Settled, Owed, Told, Queued, Covers
<1> QED
  BY <1>1, <1>2, <1>3, <1>4, <1>5, <1>6, <1>7, <1>8, <1>9, <1>10, <1>11, <1>12 DEF Worker

\* What prompts an update keeps a container settled: whoever takes a cause away
\* leaves another one.
LEMMA TriggersSettle ==
  ASSUME TypeOK, FlowInv, NEW c \in Container, Settled(c), Triggers, ~Loses
  PROVE  Settled(c)'
<1>0. QueueTypeOK /\ evtCh \subseteq Event
  BY DEF TypeOK
<1>1. CASE DebounceFires
  <2>1. pending \in FilterOptions /\ queue' = Append(queue, Debounced(pending))
    BY <1>0, <1>1 DEF DebounceFires, Offer, Loses, QueueTypeOK
  <2>2. Debounced(pending) \in ActionRequest
    BY <2>1 DEF Debounced, ActionRequest, Caller
  <2>3. Queued(c) => Queued(c)'
    BY <1>0, <1>1, <2>1, <2>2, QueuedStays DEF DebounceFires, worldVars
  <2>4. Covers(pending, c) => Queued(c)'
    <3>1. /\ Len(queue) + 1 \in 1..Len(queue') /\ queue'[Len(queue) + 1] = Debounced(pending)
      BY <1>0, <2>1, <2>2 DEF QueueTypeOK
    <3> QED
      BY <1>1, <3>1 DEF Queued, Debounced, Covers, DebounceFires, worldVars
  <2>5. InLine(c)' = InLine(c)
    BY <1>1, InLineStays DEF DebounceFires, worldVars
  <2> QED
    BY <1>1, <2>3, <2>4, <2>5
       DEF Settled, Owed, Told, Covers, DebounceFires, worldVars, monitorVars, timerVars, workVars
<1>2. ASSUME Coalesce(Everything),
             UNCHANGED <<engine, entities, health, monitor, stream, queue, running, workVars>>
      PROVE  Settled(c)'
  <2>1. pending = None \/ pending'.ids = {}
    BY <1>2 DEF Coalesce, MergeFilterOptions, Scoped, Everything
  <2>2. Covers(Everything, c)
    BY DEF Covers, Admits, IsEmpty, Everything
  <2> QED
    BY <1>2, <2>1, <2>2, AskingSettles, AskedFilters, AskedUniform
<1>3. CASE RetryFires \/ BridgeOnline
  BY <1>2, <1>3 DEF RetryFires, BridgeOnline, worldVars, monitorVars
<1>4. ASSUME NEW e \in evtCh, HandleEvent(e) PROVE Settled(c)'
  <2>1. pending = None \/ pending'.ids = {} \/ pending'.names = {}
    BY <1>4 DEF Loses
  <2>2. e \in Event /\ RequestFor(e) \in FilterOptions /\ Uniform(RequestFor(e))
    BY <1>0, AskedFilters, AskedUniform
  <2>3. Admits(Cli, c) /\ Covers(Cli, c) => Covers(RequestFor(e), c) \/ (Told(c) => Told(c)')
    <3>1. CASE e = [id |-> c, kind |-> "ended"]
      BY <3>1 DEF RequestFor
    <3>2. CASE e = [id |-> c, kind |-> "started"] /\ engine[c] # "absent"
      <4>1. [Cli EXCEPT !.ids = {c}].names = Cli.names /\ [Cli EXCEPT !.ids = {c}].ids = {c}
            /\ [Cli EXCEPT !.ids = {c}].labels = Cli.labels
            /\ [Cli EXCEPT !.ids = {c}].client = Cli.client
        BY ReconcilerAssumption DEF FilterOptions
      <4> QED
        BY <3>2, <4>1 DEF RequestFor, Covers, Admits
    <3>3. CASE e # [id |-> c, kind |-> "ended"]
               /\ (e # [id |-> c, kind |-> "started"] \/ engine[c] = "absent")
      BY <1>4, <3>3 DEF Told, HandleEvent, worldVars
    <3> QED
      BY <3>1, <3>2, <3>3
  <2> QED
    BY <1>4, <2>1, <2>2, <2>3, AskingSettles DEF HandleEvent, worldVars, timerVars
<1>5. ASSUME NEW n \in Name, HealthCheck(n) PROVE Settled(c)'
  <2>1. pending = None \/ pending'.ids = {} \/ pending'.names = {}
    BY <1>5 DEF Loses
  <2>2. Told(c) => Told(c)'
    BY <1>5 DEF HealthCheck, Told, worldVars, monitorVars
  <2> QED
    BY <1>5, <2>1, <2>2, AskingSettles, AskedFilters, AskedUniform
       DEF HealthCheck, worldVars, monitorVars, timerVars
<1>6. CASE Subscribe
  BY <1>6 DEF Subscribe, Settled, Owed, Covers, worldVars
<1>7. CASE InitialUpdate
  <2>1. /\ Len(queue) + 1 \in 1..Len(queue')
        /\ queue'[Len(queue) + 1].action = "UpdateAll"
        /\ queue'[Len(queue) + 1].options = Cli
    BY <1>0, <1>7 DEF InitialUpdate, Submit, QueueTypeOK
  <2>2. Covers(Cli, c) => Queued(c)'
    BY <1>7, <2>1 DEF Queued, Covers, InitialUpdate, worldVars
  <2> QED
    BY <1>7, <2>2 DEF Settled, Owed, Covers, InitialUpdate, worldVars
<1>8. CASE MonitorReturns
  BY <1>8 DEF MonitorReturns, Settled, Owed, Covers, worldVars
<1>9. CASE ReconcileTick \/ MetricsTick
  BY <1>9, SubmittingSettles, AskedUpdates DEF ReconcileTick, MetricsTick, Caller
<1> QED
  BY <1>1, <1>3, <1>4, <1>5, <1>6, <1>7, <1>8, <1>9 DEF Triggers

\* So do the changes around the reconciler: each is told, or made up for by the
\* update that follows the next subscription.
LEMMA WorldSettles ==
  ASSUME TypeOK, NEW c \in Container, Settled(c), World
  PROVE  Settled(c)'
<1>1. ASSUME NEW d \in Container, EngineChanges(d) PROVE Settled(c)'
  <2>1. CASE ~stream
    BY <1>1, <2>1 DEF EngineChanges, Settled, Owed
  <2>2. CASE stream /\ c = d
    <3>1. Told(c)'
      BY <1>1, <2>2 DEF EngineChanges, Told, TypeOK
    <3> QED
      BY <3>1 DEF Settled, Owed
  <2>3. CASE c # d
    <3>1. engine'[c] = engine[c] /\ evtCh \subseteq evtCh'
          /\ UNCHANGED <<queueVars, entities, health, monitor, stream, timerVars, workVars>>
      BY <1>1, <2>3 DEF EngineChanges, TypeOK
    <3>2. InLine(c)' = InLine(c) /\ Queued(c)' = Queued(c)
      BY <3>1 DEF InLine, Publishing, Removing, Listed, Queued, Covers, queueVars, workVars
    <3> QED
      BY <3>1, <3>2 DEF Settled, Owed, Told, Covers, queueVars, timerVars, workVars
  <2> QED
    BY <2>1, <2>2, <2>3 DEF TypeOK
<1>2. ASSUME NEW d \in Container, MapperDelivers(d) PROVE Settled(c)'
  <2>1. InLine(c)' = InLine(c)
    BY <1>2, InLineStays DEF MapperDelivers, queueVars
  <2> QED
    BY <1>2, <2>1
       DEF MapperDelivers, Settled, Owed, Told, Queued, Covers, queueVars, monitorVars, timerVars, workVars
<1>3. CASE OrphansIntervalOver
  <2>1. InLine(c)' = InLine(c)
    BY <1>3, InLineStays DEF OrphansIntervalOver, queueVars, worldVars
  <2> QED
    BY <1>3, <2>1
       DEF OrphansIntervalOver, Settled, Owed, Told, Queued, Covers, queueVars, worldVars,
           monitorVars, workVars
<1>4. CASE StreamBreaks
  BY <1>4 DEF StreamBreaks, Settled, Owed, Covers, worldVars
<1>5. CASE Restart
  BY <1>5 DEF Restart, Settled, Owed, Covers, worldVars
<1> QED
  BY <1>1, <1>2, <1>3, <1>4, <1>5 DEF World

\* No step of any of them leaves a container out of line that nothing is going to
\* update, unless it loses an update in one of the three ways known.
THEOREM NothingIsMissed == Spec => NothingFallsBetween
<1>1. TypeOK /\ FlowInv /\ ListedSpared /\ MonitorWaits /\ [Next]_vars
        => [\A c \in Container : Settled(c) => Settled(c)' \/ Loses]_vars
  BY WorkerSettles, TriggersSettle, WorldSettles DEF Next
<1> QED
  BY <1>1, TypeCorrect, FlowInvariant, ListedSparedInvariant, MonitorWaitsInvariant, PTL
     DEF Spec, NothingFallsBetween

-----------------------------------------------------------------------------
(***************************************************************************)
(* At rest                                                                 *)
(***************************************************************************)

\* The reconciler rests: it listens, and has no event, request or retry to see to.
AtRest ==
  /\ monitor = "streaming" /\ stream /\ evtCh = {}
  /\ pending = None /\ queue = <<>> /\ phase = "idle" /\ ~retryArmed

\* As long as no update was lost, thin-edge.io shows exactly the containers there are,
\* with their status, whenever the reconciler rests; only services that the
\* configuration excludes may be there as well.
THEOREM RestIsPublished ==
  ASSUME IsEmpty(Cli)
  PROVE  Spec /\ [][~Loses]_vars =>
           [](AtRest => \A c \in Admitted(Cli) :
                          IF engine[c] = "absent" THEN c \notin entities
                          ELSE c \in entities /\ health[c] = engine[c])
<1> DEFINE AllSettled == \A c \in Container : Settled(c)
           Shown == \A c \in Admitted(Cli) : IF engine[c] = "absent" THEN c \notin entities
                                             ELSE c \in entities /\ health[c] = engine[c]
<1>1. Init => AllSettled
  BY DEF Init, Settled, Owed
<1>2. TypeOK /\ FlowInv /\ ListedSpared /\ MonitorWaits /\ AllSettled /\ [Next]_vars /\ [~Loses]_vars
        => AllSettled'
  <2> SUFFICES ASSUME TypeOK, FlowInv, ListedSpared, MonitorWaits, AllSettled,
                      [Next]_vars, [~Loses]_vars, NEW c \in Container
               PROVE  Settled(c)'
    OBVIOUS
  <2>1. CASE UNCHANGED vars
    <3>1. InLine(c)' = InLine(c)
      BY <2>1, InLineStays DEF vars, queueVars, worldVars
    <3> QED
      BY <2>1, <3>1
         DEF vars, Settled, Owed, Told, Queued, Covers, queueVars, worldVars, monitorVars,
             timerVars, workVars
  <2> QED
    BY <2>1, WorkerSettles, TriggersSettle, WorldSettles DEF Next
<1>3. FlowInv /\ AllSettled => (AtRest => Shown)
  <2> SUFFICES ASSUME FlowInv, AllSettled, AtRest, NEW c \in Admitted(Cli)
               PROVE  IF engine[c] = "absent" THEN c \notin entities
                      ELSE c \in entities /\ health[c] = engine[c]
    OBVIOUS
  <2>1. c \in Container /\ Admits(Cli, c) /\ Covers(Cli, c)
    BY DEF Admitted, Covers
  <2>2. ~Owed(c)
    BY DEF AtRest, Owed, Told, Queued, FlowInv
  <2>3. InLine(c)
    BY <2>1, <2>2 DEF Settled
  <2> QED
    BY <2>3 DEF InLine, Publishing, Removing, AtRest
<1> QED
  BY <1>1, <1>2, <1>3, TypeCorrect, FlowInvariant, ListedSparedInvariant, MonitorWaitsInvariant, PTL
     DEF Spec

=============================================================================
