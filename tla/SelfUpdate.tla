----------------------------- MODULE SelfUpdate -----------------------------
(***************************************************************************)
(* The update of the container thin-edge.io itself runs in.  A process in  *)
(* the container checks whether a software update names its own container  *)
(* ("self check") and, if so, forks: it creates a second container from    *)
(* the new image, the updater, that runs "tools container-clone" on the    *)
(* first one (Clone) from outside.                                         *)
(*                                                                         *)
(* The requester ends with its container, at the latest when the updater   *)
(* stops it; the updater has no restart policy and ends with the machine.  *)
(* A further request removes the updater that it finds, whatever that is   *)
(* doing.  The updater always has the name given by --fork-name.           *)
(***************************************************************************)
EXTENDS Naturals

CONSTANTS
  Container, Original, None, WaitForExit, HasCheck, MaxPolls, FaultyCall,
  MaxFaults, MaxExits, MaxReboots, MaxRuns,   \* as in Clone
  AlwaysPull,   \* the container is configured to always pull
  Lists,        \* the lists of a software update that are checked
  ContainerFlag, \* what --container of "self check" may say: a name or None
  MaxRefused,   \* bounds: calls that fail before Clone begins,
  MaxCrashes    \*   updaters that crash

VARIABLES
  name, state, always, works, pc, prev, base, next, polls, result,
  faults, exits, reboots, runs,               \* as in Clone
  config,   \* per container, what it was created with
  request,  \* the process in the container that asks for an update, or None
  fork,     \* the updater, or None
  handed,   \* what the last check left to the other software plugins
  misread,  \* the native configuration of a container could not be read once
  refused, crashes, requests   \* counters for the bounds

C == INSTANCE Clone

\* Items of a software update, by the name they have in it.
Item == [type : {"self", "container"}, name : C!Name, action : {"install", "remove"}]

ASSUME SelfUpdateAssumption ==
  /\ AlwaysPull \in BOOLEAN
  /\ Lists \subseteq SUBSET Item
  /\ ContainerFlag \subseteq C!OrNone(C!Name)
  /\ MaxRefused \in Nat /\ MaxCrashes \in Nat

\* The assumptions of Clone.
ASSUME CloneAssumed == C!CloneAssumption

engineVars == <<name, state, always, works>>
commandVars == <<pc, prev, base, next, polls, result>>
cloneVars == <<engineVars, commandVars, faults, exits, reboots, runs>>
vars == <<cloneVars, config, request, fork, handed, misread, refused, crashes, requests>>

-----------------------------------------------------------------------------
(***************************************************************************)
(* Configurations                                                          *)
(***************************************************************************)

\* Settings in the environment, by name and value: one of the user's begins with
\* HOST.
PullSetting(b) == <<"CONTAINER_CONTAINER_ALWAYSPULL", b>>
Hostname == <<"HOSTNAME", TRUE>>
HostUrl == <<"HOST_URL", TRUE>>
Setting == {Hostname, HostUrl, PullSetting(TRUE), PullSetting(FALSE)}
Label == {"image", "user", "fork"}

Config ==
  [env : SUBSET Setting, labels : SUBSET Label, ports : BOOLEAN, network : BOOLEAN,
   keepId : BOOLEAN]

\* The options of a clone: what is ignored, and what is added.
Options(ignoreEnv, env, labels, ignorePorts, skipNetwork) ==
  [ignoreEnv |-> ignoreEnv, env |-> env, labels |-> labels,
   ignorePorts |-> ignorePorts, skipNetwork |-> skipNetwork]

\* The patterns that "name=value" begins with.
Prefixes ==
  {<<"HOSTNAME", "HOSTNAME">>, <<"HOSTNAME", "HOST">>, <<"HOST_URL", "HOST">>,
   <<"CONTAINER_CONTAINER_ALWAYSPULL", "CONTAINER_CONTAINER_ALWAYSPULL=">>}

\* FilterEnvVariables: what begins with a pattern is left out.
Filtered(env, patterns) == {s \in env : \A p \in patterns : <<s[1], p>> \notin Prefixes}

\* CloneContainerConfig, CloneHostConfig and CloneNetworkConfig.  The labels of
\* the image come with it.  The user namespace is read natively, or lost.
CloneConfig(ref, opts, read) ==
  [env |-> Filtered(ref.env, opts.ignoreEnv) \cup opts.env,
   labels |-> (ref.labels \ {"image"}) \cup opts.labels,
   ports |-> ref.ports /\ ~opts.ignorePorts,
   network |-> ref.network /\ ~opts.skipNetwork,
   keepId |-> ref.keepId /\ read]

\* The default of --ignore-env.
IgnoreEnv == {"HOSTNAME", "HOST"}

\* A faulty variant: the setting is inherited.
ForkOptionsInherited(noPull) == Options(IgnoreEnv, {}, {"fork"}, TRUE, TRUE)

\* What the fork is created with: it must not take the ports, and when pulling
\* is disabled it gets that as a setting in place of an inherited one.
ForkOptions(noPull) ==
  IF noPull
  THEN Options(IgnoreEnv \cup {"CONTAINER_CONTAINER_ALWAYSPULL="}, {PullSetting(FALSE)},
               {"fork"}, TRUE, TRUE)
  ELSE Options(IgnoreEnv, {}, {"fork"}, TRUE, TRUE)

\* What the forked command passes on to the container that is created last.
UpdateOptions == Options(IgnoreEnv, {}, {}, FALSE, FALSE)

-----------------------------------------------------------------------------
(***************************************************************************)
(* State                                                                   *)
(***************************************************************************)

Request ==
  [step : {"image", "stop-fork", "remove-fork", "create-fork", "start-fork", "wait"},
   host : Container, target : C!OrNone(Container), wanted : C!Name,
   noPull : BOOLEAN, ref : Config]

Fork ==
  [state : {"created", "running", "cloning", "exited"}, target : C!OrNone(Container),
   wanted : C!Name, noPull : BOOLEAN, config : Config, pulled : BOOLEAN]

\* What the container was configured with by its user.
UserEnv == {Hostname, HostUrl, PullSetting(AlwaysPull)}

\* None is neither of them.
ASSUME NoneAssumption == None \notin Request /\ None \notin Fork

\* The updater at work is the command that Clone describes.
TypeOK ==
  /\ C!TypeOK
  /\ config \in [Container -> Config]
  /\ request = None \/ request \in Request
  /\ fork = None \/ fork \in Fork
  /\ handed \subseteq Item
  /\ misread \in BOOLEAN
  /\ refused \in 0..MaxRefused /\ crashes \in 0..MaxCrashes /\ requests \in 0..MaxRuns
  /\ pc # "idle" => fork # None /\ fork.state = "cloning"

Init ==
  /\ C!Init
  /\ config = [c \in Container |->
                 [env |-> UserEnv, labels |-> {"image", "user"},
                  ports |-> TRUE, network |-> TRUE, keepId |-> TRUE]]
  /\ request = None /\ fork = None /\ handed = {} /\ misread = FALSE
  /\ refused = 0 /\ crashes = 0 /\ requests = 0

\* A faulty variant: the process outlives its container.
Outlives == request

\* The process in a container ends when the container does.
Survivor == IF request = None \/ state'[request.host] # "running" THEN None ELSE request

-----------------------------------------------------------------------------
(***************************************************************************)
(* The requester                                                           *)
(***************************************************************************)

\* What the process takes for the name of its container: Self finds the container by
\* its hostname among those that run, passing over forked ones; when it fails or finds
\* nothing, it is the value of --container, or empty, which is no container's name.
SelfName(host) == {name[host]} \cup ContainerFlag

Own(self, i) == i.type = "container" /\ i.name = self

IsSelfUpdate(self, items) ==
  \E i \in items : i.action = "install" /\ (i.type = "self" \/ Own(self, i))

RemovesOwn(self, items) ==
  \E i \in items : i.action = "remove" /\ (i.type = "self" \/ Own(self, i))

\* A faulty variant: all containers are left to their plugin.
AllModules(self, items) == {i \in items : i.type # "self"}

\* The items of the other plugins, without the own container.
OutputModules(self, items) == {i \in items : i.type # "self" /\ ~Own(self, i)}

\* "self check" with the list of an update.  Without a self update everything is
\* left to the plugins; the removal of the own container is an error.
Check(host, self, items) ==
  /\ request = None
  /\ C!Exists(host) /\ C!Running(host)
  /\ ~RemovesOwn(self, items)
  /\ requests < MaxRuns /\ requests' = requests + 1
  /\ handed' = OutputModules(self, items)
  /\ IF IsSelfUpdate(self, items)
     THEN \E i \in items, byName, noPull \in BOOLEAN :
            /\ i.action = "install" /\ (i.type = "self" \/ Own(self, i))
            /\ request' = [step |-> "image", host |-> host,
                           target |-> IF byName THEN None ELSE host,
                           wanted |-> i.name, noPull |-> noPull, ref |-> config[host]]
     ELSE UNCHANGED request
  /\ UNCHANGED <<cloneVars, config, fork, misread, refused, crashes>>

CallWorks == UNCHANGED refused

Refused == refused < MaxRefused /\ refused' = refused + 1

CallFails ==
  /\ Refused
  /\ request' = None
  /\ UNCHANGED fork

Proceed(step) == request' = [request EXCEPT !.step = step]

\* The containers a request is about.
Named(r) == {c \in Container : IF r.target # None THEN c = r.target /\ C!Exists(c)
                               ELSE name[c] = r.wanted}

\* Inspect the container, and see to the image.  (A command without --container that
\* does not find its own one inspects none, which fails.)
SeeToImage ==
  /\ request # None /\ request.step = "image"
  /\ \/ /\ CallWorks
        /\ \E c \in Named(request) :
             request' = [request EXCEPT !.step = "stop-fork", !.ref = config[c]]
        /\ UNCHANGED fork
     \/ Named(request) = {} /\ CallWorks /\ request' = None /\ UNCHANGED fork
     \/ CallFails
  /\ UNCHANGED <<cloneVars, config, handed, misread, crashes, requests>>

\* A faulty variant: the command returns by itself.
CommandReturns == IF pc # "idle" THEN C!Return("error") ELSE UNCHANGED commandVars

\* Stopping the updater ends the command it runs.
CommandEnds == IF pc # "idle" THEN C!Return("killed") ELSE UNCHANGED commandVars

StopFork ==
  /\ request # None /\ request.step = "stop-fork"
  /\ \/ fork = None /\ CallWorks /\ Proceed("create-fork") /\ UNCHANGED <<fork, commandVars>>
     \/ /\ fork # None /\ CallWorks /\ Proceed("remove-fork")
        /\ fork' = [fork EXCEPT !.state = "exited"]
        /\ CommandEnds
     \/ CallFails /\ UNCHANGED commandVars
  /\ UNCHANGED <<engineVars, faults, exits, reboots, runs>>
  /\ UNCHANGED <<config, handed, misread, crashes, requests>>

\* The engine's part of the creation of the updater, step by step.  It is created
\* from the configuration that was read at first, with no restart policy.
RemoveFork == CallWorks /\ Proceed("create-fork") /\ fork' = None

CreateFork ==
  /\ CallWorks /\ Proceed("start-fork")
  /\ \E read \in BOOLEAN :
       fork' = [state |-> "created", target |-> request.target, wanted |-> request.wanted,
                noPull |-> request.noPull, pulled |-> FALSE,
                config |-> CloneConfig(request.ref, ForkOptions(request.noPull), read)]

StartFork == CallWorks /\ Proceed("wait") /\ fork' = [fork EXCEPT !.state = "running"]

\* A faulty variant: there is no timeout.
WaitUntilHealthy ==
  /\ CallWorks /\ request' = None /\ UNCHANGED fork
  /\ fork # None /\ fork.state \in {"running", "cloning"}

\* The updater is seen healthy, or is not within 30 seconds.
WaitForFork == CallWorks /\ request' = None /\ UNCHANGED fork

Forking ==
  /\ request # None
  /\ \/ request.step = "remove-fork" /\ (RemoveFork \/ CallFails)
     \/ request.step = "create-fork" /\ (CreateFork \/ CallFails)
     \/ request.step = "start-fork" /\ (StartFork \/ CallFails)
     \/ request.step = "wait" /\ WaitForFork
  /\ UNCHANGED <<cloneVars, config, handed, misread, crashes, requests>>

-----------------------------------------------------------------------------
(***************************************************************************)
(* The updater                                                             *)
(***************************************************************************)

\* The image is there, as the updater runs from it: it is pulled all the same
\* when that is configured.
Pulls(f) == PullSetting(TRUE) \in f.config.env

UpdaterBegins ==
  /\ fork # None /\ fork.state = "running"
  /\ \/ /\ CallWorks
        /\ \E c \in Named(fork) : C!BeginOn(c)
        /\ fork' = [fork EXCEPT !.state = "cloning", !.pulled = Pulls(fork)]
     \/ /\ Named(fork) = {}
        /\ fork' = [fork EXCEPT !.state = "exited"]
        /\ UNCHANGED <<cloneVars, refused>>
     \/ /\ Refused
        /\ fork' = [fork EXCEPT !.state = "exited"]
        /\ UNCHANGED cloneVars
  /\ UNCHANGED <<config, request, handed, misread, crashes, requests>>

\* The next container is created with the configuration of the previous one.
Configured ==
  IF pc = "create" /\ next' # None
  THEN \E read \in BOOLEAN :
         /\ config' = [config EXCEPT ![next'] = CloneConfig(config[prev], UpdateOptions, read)]
         /\ misread' = (misread \/ ~read)
  ELSE UNCHANGED <<config, misread>>

UpdaterSteps ==
  /\ fork # None /\ fork.state = "cloning"
  /\ C!Step
  /\ fork' = IF pc' = "idle" THEN [fork EXCEPT !.state = "exited"] ELSE fork
  /\ request' = Survivor
  /\ Configured
  /\ UNCHANGED <<handed, refused, crashes, requests>>

UpdaterCrashes ==
  /\ fork # None /\ fork.state \in {"running", "cloning"}
  /\ crashes < MaxCrashes /\ crashes' = crashes + 1
  /\ fork' = [fork EXCEPT !.state = "exited"]
  /\ CommandEnds
  /\ UNCHANGED <<engineVars, faults, exits, reboots, runs>>
  /\ UNCHANGED <<config, request, handed, misread, refused, requests>>

-----------------------------------------------------------------------------
(***************************************************************************)
(* The engine and the machine                                              *)
(***************************************************************************)

ContainerChanges ==
  /\ \E c \in Container : C!Exit(c) \/ C!EngineRestarts(c)
  /\ request' = Survivor
  /\ UNCHANGED <<config, fork, handed, misread, refused, crashes, requests>>

\* The updater has no restart policy.
Reboot ==
  /\ C!Reboot
  /\ request' = None
  /\ fork' = IF fork # None /\ fork.state \in {"running", "cloning"}
             THEN [fork EXCEPT !.state = "exited"] ELSE fork
  /\ UNCHANGED <<config, handed, misread, refused, crashes, requests>>

Requesting == SeeToImage \/ StopFork \/ Forking
Updating == UpdaterBegins \/ UpdaterSteps

Next ==
  \/ \E host \in Container, items \in Lists :
       \E self \in SelfName(host) : Check(host, self, items)
  \/ SeeToImage
  \/ StopFork
  \/ Forking
  \/ UpdaterBegins
  \/ UpdaterSteps
  \/ UpdaterCrashes
  \/ ContainerChanges
  \/ Reboot

Spec == Init /\ [][Next]_vars

\* Calls return, waiting ends; what the engine restarts matters to no promise here.
Fairness == WF_vars(Requesting) /\ WF_vars(Updating)

FairSpec == Spec /\ Fairness

-----------------------------------------------------------------------------
(***************************************************************************)
(* Properties                                                              *)
(***************************************************************************)

\* The whole is an implementation of Clone: the updater is its command, and a
\* request that removes the updater is no more than a kill.
ImplementsClone == C!Spec

\* A second request may remove an updater at work.  It never does so while
\* nothing goes by the name of the container: nobody is up to ask for it then.
\* So, unless something fails, there is a container under the name, up or about
\* to be, whenever no updater is at work.
NameHeld ==
  pc = "idle" /\ faults = 0 /\ crashes = 0 /\ reboots = 0 =>
    \E c \in Container : name[c] = C!MainName /\ C!Up(c)

\* A working container that comes up with the machine survives all this.
WorkingCopySurvives == C!WorkingCopySurvives

\* However often it is updated, a container keeps the ports, the network, the
\* labels and the settings it was configured with, but for those that begin with a
\* pattern of --ignore-env, which are lost (HOST takes HOST_URL with it): nothing of
\* the updater, which was made from the same container, remains.  Nor does the updater
\* heed what it has from there: asked for an update without a pull, it keeps off the
\* network, though the container may be configured to always pull.
Kept(c) ==
  /\ config[c].ports /\ config[c].network
  /\ Filtered(UserEnv, IgnoreEnv) \subseteq config[c].env
  /\ config[c].env \subseteq UserEnv
  /\ "user" \in config[c].labels /\ "fork" \notin config[c].labels
  /\ config[c].keepId \/ misread

ConfigKept ==
  /\ \A c \in Container : C!Exists(c) => Kept(c)
  /\ fork # None /\ fork.noPull => ~fork.pulled

\* What is left to the other plugins never names the container that is up, as it would
\* be replaced from inside, by a process that ends half way: not if the check has its
\* name, be it found or given, whatever replacements that were cut short have made of
\* the name.  A check that has another name, or none, leaves the container to its plugin.
OwnNotHandedOver ==
  [][\A host \in Container, items \in Lists :
       Check(host, name[host], items) /\ reboots = 0 =>
         \A i \in handed' : \A c \in Container : C!Exists(c) /\ C!Running(c) => name[c] # i.name]_vars

\* Every request comes to its end, and so does every updater.
Settles ==
  /\ request # None ~> request = None
  /\ fork # None /\ fork.state \in {"running", "cloning"} ~>
       fork = None \/ fork.state \notin {"running", "cloning"}

=============================================================================
