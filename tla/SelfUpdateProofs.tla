-------------------------- MODULE SelfUpdateProofs --------------------------
(***************************************************************************)
(* Theorems about the update of the own container, for any number of       *)
(* containers, requests, lists, failed calls, crashes and restarts.  They  *)
(* rest on those about Clone, which this module has under P.               *)
(***************************************************************************)
EXTENDS SelfUpdate, TLAPS

P == INSTANCE CloneProofs

-----------------------------------------------------------------------------
(***************************************************************************)
(* Clone under two names                                                   *)
(***************************************************************************)

\* What the proofs and the specification call Clone is the same.
LEMMA SameSteps ==
  /\ P!Begin <=> C!Begin
  /\ P!Step <=> C!Step
  /\ P!Kill <=> C!Kill
  /\ \A c \in Container : (P!Exit(c) <=> C!Exit(c)) /\ (P!EngineRestarts(c) <=> C!EngineRestarts(c))
  /\ P!Reboot <=> C!Reboot
<1>1. P!Begin <=> C!Begin
  BY DEF P!Begin, C!Begin, P!MainName, C!MainName, P!Up, C!Up, P!Running, C!Running,
         P!BeginOn, C!BeginOn, P!Exists, C!Exists, P!engineVars, C!engineVars
<1>2. P!Kill <=> C!Kill
  BY DEF P!Kill, C!Kill, P!Return, C!Return, P!engineVars, C!engineVars, P!counters, C!counters
<1>3. P!Reboot <=> C!Reboot
  BY DEF P!Reboot, C!Reboot, P!Return, C!Return, P!commandVars, C!commandVars
<1>4. ASSUME NEW c \in Container
      PROVE  (P!Exit(c) <=> C!Exit(c)) /\ (P!EngineRestarts(c) <=> C!EngineRestarts(c))
  BY DEF P!Exit, C!Exit, P!EngineRestarts, C!EngineRestarts, P!Exists, C!Exists,
         P!Running, C!Running, P!commandVars, C!commandVars, P!counters, C!counters
<1>5. P!Step <=> C!Step
  <2> USE DEF P!engineVars, C!engineVars, P!Works, C!Works, P!Fails, C!Fails, P!Goto, C!Goto,
              P!Return, C!Return, P!OrReturn, C!OrReturn, P!Running, C!Running,
              P!Exists, C!Exists, P!NameFree, C!NameFree
  <2>1. (P!DisablePolicy <=> C!DisablePolicy) /\ (P!SeeStopped <=> C!SeeStopped)
    BY DEF P!DisablePolicy, C!DisablePolicy, P!SeeStopped, C!SeeStopped
  <2>2. (P!StopPrevious <=> C!StopPrevious) /\ (P!RenamePrevious <=> C!RenamePrevious)
    BY DEF P!StopPrevious, C!StopPrevious, P!RenamePrevious, C!RenamePrevious
  <2>3. P!CreateNext <=> C!CreateNext
    BY DEF P!CreateNext, C!CreateNext, P!RestartAlways, C!RestartAlways
  <2>4. (P!StartNext <=> C!StartNext) /\ (P!Poll <=> C!Poll)
    BY DEF P!StartNext, C!StartNext, P!Poll, C!Poll, P!Healthy, C!Healthy
  <2>5. (P!StopReplaced <=> C!StopReplaced) /\ (P!RemoveReplaced <=> C!RemoveReplaced)
    BY DEF P!StopReplaced, C!StopReplaced, P!RemoveReplaced, C!RemoveReplaced
  <2>6. (P!ShowLogs <=> C!ShowLogs) /\ (P!StopNext <=> C!StopNext)
        /\ (P!RemoveNext <=> C!RemoveNext)
    BY DEF P!ShowLogs, C!ShowLogs, P!StopNext, C!StopNext, P!RemoveNext, C!RemoveNext
  <2>7. (P!RenameBack <=> C!RenameBack) /\ (P!StartPrevious <=> C!StartPrevious)
    BY DEF P!RenameBack, C!RenameBack, P!StartPrevious, C!StartPrevious
  <2> HIDE DEF P!Works, C!Works, P!Fails, C!Fails, P!Goto, C!Goto,
               P!Return, C!Return, P!OrReturn, C!OrReturn, P!Running, C!Running,
               P!Exists, C!Exists, P!NameFree, C!NameFree
  <2> QED
    BY <2>1, <2>2, <2>3, <2>4, <2>5, <2>6, <2>7 DEF P!Step, C!Step
<1> QED
  BY <1>1, <1>2, <1>3, <1>4, <1>5

\* The assumption of Clone holds under both names.
LEMMA SameAssumption == P!CloneAssumption
BY CloneAssumed DEF P!CloneAssumption, C!CloneAssumption, P!Call, C!Call

\* So do its steps.
LEMMA SameNext == [P!Next]_(P!vars) <=> [C!Next]_(C!vars)
<1>1. P!vars = C!vars /\ P!vars' = C!vars'
  BY DEF P!vars, C!vars, P!engineVars, C!engineVars, P!commandVars, C!commandVars,
         P!counters, C!counters
<1>2. (\E c \in Container : P!Exit(c) \/ P!EngineRestarts(c))
      <=> (\E c \in Container : C!Exit(c) \/ C!EngineRestarts(c))
  BY SameSteps, Zenon
<1>3. P!Next <=> C!Next
  BY SameSteps, <1>2, Zenon DEF P!Next, C!Next
<1> QED
  BY <1>1, <1>3

\* So do its types.
LEMMA SameTypes == (P!TypeOK <=> C!TypeOK) /\ (P!TypeOK' <=> C!TypeOK')
BY DEF P!TypeOK, C!TypeOK, P!OrNone, C!OrNone, P!Name, C!Name, P!Replacing, C!Replacing,
       P!Trying, C!Trying, P!Cleanup, C!Cleanup, P!Reverting, C!Reverting

\* So does its specification.
LEMMA SameSpec == P!Spec <=> C!Spec
<1>1. P!Init <=> C!Init
  BY DEF P!Init, C!Init, P!MainName, C!MainName
<1> QED
  BY <1>1, SameNext, PTL DEF P!Spec, C!Spec

\* What was proved of Clone holds of it here.
LEMMA CopySurvives ==
  ASSUME TRUE \notin WaitForExit, HasCheck
  PROVE  C!Spec => []WorkingCopySurvives
<1>1. P!WorkingCopySurvives <=> WorkingCopySurvives
  BY DEF P!WorkingCopySurvives, WorkingCopySurvives, C!WorkingCopySurvives, P!Survives,
         C!Survives, P!Exists, C!Exists
<1>2. P!Spec => []P!WorkingCopySurvives
  BY P!CopySurvives, SameAssumption
<1> QED
  BY <1>1, <1>2, SameSpec, PTL

\* The same for an invariant of the command.
LEMMA SameInvariants ==
  /\ P!SingleInv =>
       /\ \A c, d \in Container : C!Exists(c) /\ name[c] = name[d] => c = d
       /\ pc # "idle" => C!Exists(prev)
       /\ next # None => next # prev
  /\ P!OneAtATime <=> C!OneAtATime
<1>1. P!OneAtATime <=> C!OneAtATime
  BY DEF P!OneAtATime, C!OneAtATime, P!Exists, C!Exists, P!Running, C!Running
<1> QED
  BY <1>1 DEF P!SingleInv, P!NamesApart, P!Exists, C!Exists

-----------------------------------------------------------------------------
(***************************************************************************)
(* The containers under the updater                                        *)
(***************************************************************************)

\* All containers come up again.  The command changes the name of one that was
\* stopped only.
StoppedFirst ==
  /\ \A c \in Container : C!Exists(c) => c \in always
  /\ pc \notin {"disable", "wait"}
  /\ pc \notin {"idle", "stop"} => state[prev] = "stopped"
  /\ pc = "remove-next" => state[next] = "stopped"

EngineInv == C!TypeOK /\ P!SingleInv /\ StoppedFirst

\* The end of a run leaves what is said of the containers.
LEMMA ReturnKeepsStopped ==
  ASSUME NEW res, C!Return(res), \A c \in Container : C!Exists(c)' => c \in always'
  PROVE  StoppedFirst'
BY DEF C!Return, StoppedFirst

\* A step of the command: a container that runs after it keeps its name.
LEMMA StepKeepsStopped ==
  ASSUME EngineInv, C!Step
  PROVE  /\ StoppedFirst'
         /\ \A c \in Container : C!Exists(c) /\ state'[c] = "running" => name'[c] = name[c]
<1> USE DEF C!Replacing, C!Trying, C!Cleanup, C!Reverting
<1>1. /\ pc # "idle" /\ prev \in Container /\ C!Exists(prev)
      /\ \A c \in Container : C!Exists(c) => c \in always
      /\ pc # "stop" => state[prev] = "stopped"
      /\ pc \notin {"disable", "wait"}
      /\ next # prev
  BY SameInvariants DEF EngineInv, StoppedFirst, C!Step, C!TypeOK, C!OrNone
<1>2. pc \in C!Trying \cup C!Cleanup \cup C!Reverting => next \in Container
  BY DEF EngineInv, C!TypeOK, C!OrNone
<1>3. name \in [Container -> C!OrNone(C!Name)]
      /\ state \in [Container -> {"created", "running", "exited", "stopped"}]
  BY DEF EngineInv, C!TypeOK
<1>4. ASSUME NEW call, C!OrReturn(call)
      PROVE  /\ StoppedFirst'
             /\ \A c \in Container : name'[c] = name[c]
  BY <1>1, <1>4, ReturnKeepsStopped DEF C!OrReturn, C!engineVars, C!Exists
<1>5. ASSUME NEW step, C!Goto(step), UNCHANGED C!engineVars,
             step \notin {"disable", "wait", "remove-next"}, pc # "stop"
      PROVE  /\ StoppedFirst'
             /\ \A c \in Container : name'[c] = name[c]
  BY <1>1, <1>5 DEF C!Goto, C!engineVars, StoppedFirst, C!Exists
<1>6. CASE pc = "stop" /\ C!StopPrevious
  <2>1. CASE state' = [state EXCEPT ![prev] = "stopped"] /\ C!Goto("rename")
             /\ UNCHANGED <<name, always, works>>
    BY <1>1, <1>3, <2>1 DEF C!Goto, StoppedFirst, C!Exists
  <2> QED
    BY <1>4, <1>6, <2>1 DEF C!StopPrevious
<1>7. CASE pc = "rename" /\ C!RenamePrevious
  <2>1. CASE name' = [name EXCEPT ![prev] = runs] /\ C!Goto("create")
             /\ UNCHANGED <<state, always, works>>
    BY <1>1, <1>3, <1>7, <2>1 DEF C!Goto, StoppedFirst, C!Exists
  <2> QED
    BY <1>4, <1>7, <2>1 DEF C!RenamePrevious
<1>8. CASE pc = "create" /\ C!CreateNext
  <2>1. CASE ~C!OrReturn("create")
    <3>1. PICK d \in Container :
            /\ ~C!Exists(d)
            /\ name' = [name EXCEPT ![d] = base]
            /\ state' = [state EXCEPT ![d] = "created"]
            /\ always' = C!RestartAlways(d)
            /\ next' = d
      BY <1>8, <2>1 DEF C!CreateNext
    <3>2. pc' = "start" /\ UNCHANGED prev
      BY <1>8, <2>1 DEF C!CreateNext
    <3> QED
      BY <1>1, <1>3, <1>8, <3>1, <3>2 DEF C!RestartAlways, StoppedFirst, C!Exists
  <2> QED
    BY <1>4, <1>8, <2>1
<1>9. CASE pc = "start" /\ C!StartNext
  BY <1>1, <1>2, <1>3, <1>9 DEF C!StartNext, C!Goto, StoppedFirst, C!Exists
<1>10. CASE pc = "poll" /\ C!Poll /\ UNCHANGED <<C!engineVars, faults>>
  <2>1. CASE UNCHANGED <<pc, prev, base, next, result>>
    BY <1>1, <1>10, <2>1 DEF C!engineVars, StoppedFirst, C!Exists
  <2> QED
    BY <1>5, <1>10, <2>1 DEF C!Poll
<1>11. CASE pc = "stop-previous" /\ C!StopReplaced
  <2>1. CASE state' = [state EXCEPT ![prev] = "stopped"] /\ C!Goto("remove-previous")
             /\ UNCHANGED <<name, always, works>>
    BY <1>1, <1>3, <2>1 DEF C!Goto, StoppedFirst, C!Exists
  <2>2. CASE C!Return("ok") /\ UNCHANGED C!engineVars
    BY <1>1, <2>2, ReturnKeepsStopped DEF C!engineVars, C!Exists
  <2> QED
    BY <1>11, <2>1, <2>2 DEF C!StopReplaced
<1>12. CASE pc = "remove-previous" /\ C!RemoveReplaced
  <2>1. /\ C!Return("ok") /\ UNCHANGED <<state, always>>
        /\ \A c \in Container : c # prev => name'[c] = name[c]
        /\ \A c \in Container : C!Exists(c)' => C!Exists(c)
    BY <1>1, <1>3, <1>12 DEF C!RemoveReplaced, C!Exists
  <2> QED
    BY <1>1, <1>12, <2>1, ReturnKeepsStopped
<1>13. CASE pc = "logs" /\ C!ShowLogs
  BY <1>4, <1>5, <1>13 DEF C!ShowLogs
<1>14. CASE pc = "stop-next" /\ C!StopNext
  <2>1. CASE state' = [state EXCEPT ![next] = "stopped"] /\ C!Goto("remove-next")
             /\ UNCHANGED <<name, always, works>>
    BY <1>1, <1>2, <1>3, <1>14, <2>1 DEF C!Goto, StoppedFirst, C!Exists
  <2> QED
    BY <1>5, <1>14, <2>1 DEF C!StopNext
<1>15. CASE pc = "remove-next" /\ C!RemoveNext
  <2>1. state[next] = "stopped"
    BY <1>15 DEF EngineInv, StoppedFirst
  <2> QED
    BY <1>1, <1>2, <1>3, <1>15, <2>1 DEF C!RemoveNext, C!Goto, StoppedFirst, C!Exists
<1>16. CASE pc = "rename-back" /\ C!RenameBack
  <2>1. CASE name' = [name EXCEPT ![prev] = base] /\ C!Goto("start-previous")
             /\ UNCHANGED <<state, always, works>>
    BY <1>1, <1>3, <1>16, <2>1 DEF C!Goto, StoppedFirst, C!Exists
  <2>2. CASE C!Return("error") /\ UNCHANGED C!engineVars
    BY <1>1, <2>2, ReturnKeepsStopped DEF C!engineVars, C!Exists
  <2> QED
    BY <1>4, <1>16, <2>1, <2>2 DEF C!RenameBack
<1>17. CASE pc = "start-previous" /\ C!StartPrevious
  <2>1. CASE C!Return("ok") /\ UNCHANGED <<name, always, works>>
    BY <1>1, <2>1, ReturnKeepsStopped DEF C!Exists
  <2> QED
    BY <1>4, <1>17, <2>1 DEF C!StartPrevious
<1> HIDE DEF C!Replacing, C!Trying, C!Cleanup, C!Reverting
<1> QED
  BY <1>1, <1>6, <1>7, <1>8, <1>9, <1>10, <1>11, <1>12, <1>13, <1>14, <1>15, <1>16, <1>17
     DEF C!Step

\* Every step of Clone, without a wait for the exit.
LEMMA EngineStays ==
  ASSUME TRUE \notin WaitForExit, EngineInv, [C!Next]_(C!vars)
  PROVE  EngineInv'
<1>1. C!TypeOK' /\ P!SingleInv'
  BY P!TypesStay, P!SingleStays, SameNext, SameTypes, SameAssumption DEF EngineInv
<1>2. StoppedFirst'
  <2>1. ASSUME C!Begin PROVE StoppedFirst'
    BY <2>1 DEF C!Begin, C!BeginOn, C!engineVars, EngineInv, StoppedFirst, C!Exists
  <2>2. ASSUME C!Step PROVE StoppedFirst'
    BY <2>2, StepKeepsStopped
  <2>3. ASSUME NEW c \in Container, C!Exit(c) \/ C!EngineRestarts(c) PROVE StoppedFirst'
    <3>1. (prev \in Container \/ pc = "idle") /\ (next \in Container \/ pc # "remove-next")
      BY DEF EngineInv, C!TypeOK, C!OrNone, C!Reverting
    <3>2. UNCHANGED <<name, always, pc, prev, next>>
      BY <2>3 DEF C!Exit, C!EngineRestarts, C!commandVars
    <3>3. \A d \in Container : state[d] = "stopped" => state'[d] = "stopped"
      BY <2>3 DEF C!Exit, C!EngineRestarts, C!Running, EngineInv, C!TypeOK
    <3> QED
      BY <3>1, <3>2, <3>3 DEF EngineInv, StoppedFirst, C!Exists
  <2>4. ASSUME C!Reboot PROVE StoppedFirst'
    BY <2>4, ReturnKeepsStopped
       DEF C!Reboot, C!commandVars, EngineInv, StoppedFirst, C!Exists
  <2>5. ASSUME C!Kill PROVE StoppedFirst'
    BY <2>5, ReturnKeepsStopped DEF C!Kill, C!engineVars, EngineInv, StoppedFirst, C!Exists
  <2>6. CASE UNCHANGED C!vars
    BY <2>6 DEF C!vars, C!engineVars, C!commandVars, EngineInv, StoppedFirst, C!Exists
  <2> QED
    BY <2>1, <2>2, <2>3, <2>4, <2>5, <2>6 DEF C!Next
<1> QED
  BY <1>1, <1>2 DEF EngineInv

-----------------------------------------------------------------------------
(***************************************************************************)
(* Request and updater                                                     *)
(***************************************************************************)

\* An item for the container itself has its name, and so has --container, if given.
SelfNamesMain ==
  /\ \A items \in Lists : \A i \in items : i.type = "self" => i.name = C!MainName
  /\ ContainerFlag \subseteq {C!MainName, None}

\* Who asks is up, and asks for itself; the steps of a request know the updater.
RequestInv ==
  request # None =>
    /\ C!Exists(request.host) /\ C!Running(request.host)
    /\ request.target \in {None, request.host}
    /\ request.target = None => request.wanted \in {C!MainName, name[request.host]}
    /\ request.step = "remove-fork" => fork # None /\ fork.state = "exited"
    /\ request.step = "create-fork" => fork = None
    /\ request.step = "start-fork" =>
         /\ fork # None /\ fork.state = "created"
         /\ fork.target = request.target /\ fork.wanted = request.wanted

\* What an updater is about to replace is up, or has the name.
ForkInv ==
  fork # None /\ fork.state = "running" =>
    IF fork.target # None
    THEN C!Exists(fork.target) => C!Up(fork.target)
    ELSE fork.wanted = C!MainName \/ \A c \in Container : name[c] = fork.wanted => C!Up(c)

IInv == TypeOK /\ EngineInv /\ RequestInv /\ ForkInv

\* What the updater finds it may replace.
LEMMA NamedMayBegin ==
  ASSUME IInv, fork # None, fork.state = "running", NEW c \in Named(fork)
  PROVE  c \in Container /\ (name[c] = C!MainName \/ C!Up(c))
BY DEF IInv, ForkInv, Named

\* A command that ends with its updater is one that was killed.
LEMMA EndsCommand ==
  ASSUME CommandEnds, UNCHANGED <<engineVars, faults, exits, reboots, runs>>
  PROVE  [C!Next]_(C!vars)
<1>1. CASE pc # "idle" /\ C!Return("killed")
  <2>1. C!Kill
    BY <1>1 DEF C!Kill, engineVars, C!engineVars, C!counters
  <2> QED
    BY <2>1 DEF C!Next
<1>2. CASE UNCHANGED commandVars
  BY <1>2 DEF commandVars, engineVars, C!vars, C!commandVars, C!engineVars, C!counters
<1> QED
  BY <1>1, <1>2 DEF CommandEnds

\* What changes nothing of Clone's is a stutter to it.
LEMMA CloneUnchanged ==
  ASSUME UNCHANGED cloneVars
  PROVE  UNCHANGED C!vars
BY DEF cloneVars, commandVars, engineVars, C!vars, C!commandVars, C!engineVars, C!counters

\* A step here is one of the command, a kill, a change of a container, a restart
\* of the machine, or nothing to Clone.
LEMMA StepImplements ==
  ASSUME IInv, [Next]_vars
  PROVE  [C!Next]_(C!vars)
<1>1. ASSUME NEW host \in Container, NEW items \in Lists, NEW self \in SelfName(host),
             Check(host, self, items)
      PROVE  [C!Next]_(C!vars)
  BY <1>1, CloneUnchanged DEF Check
<1>2. ASSUME SeeToImage PROVE [C!Next]_(C!vars)
  BY <1>2, CloneUnchanged DEF SeeToImage
<1>3. ASSUME StopFork PROVE [C!Next]_(C!vars)
  <2>1. CommandEnds \/ UNCHANGED commandVars
    BY <1>3 DEF StopFork
  <2>2. UNCHANGED <<engineVars, faults, exits, reboots, runs>>
    BY <1>3 DEF StopFork
  <2> QED
    BY <2>1, <2>2, EndsCommand, CloneUnchanged DEF cloneVars
<1>4. ASSUME Forking PROVE [C!Next]_(C!vars)
  BY <1>4, CloneUnchanged DEF Forking
<1>5. ASSUME UpdaterBegins PROVE [C!Next]_(C!vars)
  <2>1. CASE \E c \in Named(fork) : C!BeginOn(c)
    <3>1. fork # None /\ fork.state = "running"
      BY <1>5 DEF UpdaterBegins
    <3>2. C!Begin
      BY <2>1, <3>1, NamedMayBegin DEF C!Begin
    <3> QED
      BY <3>2 DEF C!Next
  <2>2. CASE UNCHANGED cloneVars
    BY <2>2, CloneUnchanged
  <2> QED
    BY <1>5, <2>1, <2>2 DEF UpdaterBegins
<1>6. ASSUME UpdaterSteps PROVE [C!Next]_(C!vars)
  BY <1>6 DEF UpdaterSteps, C!Next
<1>7. ASSUME UpdaterCrashes PROVE [C!Next]_(C!vars)
  BY <1>7, EndsCommand DEF UpdaterCrashes
<1>8. ASSUME ContainerChanges PROVE [C!Next]_(C!vars)
  BY <1>8 DEF ContainerChanges, C!Next
<1>9. ASSUME Reboot PROVE [C!Next]_(C!vars)
  BY <1>9 DEF Reboot, C!Next
<1>10. CASE UNCHANGED vars
  BY <1>10, CloneUnchanged DEF vars
<1> QED
  BY <1>1, <1>2, <1>3, <1>4, <1>5, <1>6, <1>7, <1>8, <1>9, <1>10 DEF Next

\* Configurations of clones are configurations.
LEMMA CloneConfigTyped ==
  ASSUME NEW ref \in Config, NEW read \in BOOLEAN, NEW noPull \in BOOLEAN
  PROVE  /\ CloneConfig(ref, ForkOptions(noPull), read) \in Config
         /\ CloneConfig(ref, UpdateOptions, read) \in Config
<1>1. ASSUME NEW ignoreEnv, NEW env \in SUBSET Setting, NEW labels \in SUBSET Label,
             NEW ports \in BOOLEAN, NEW network \in BOOLEAN
      PROVE  CloneConfig(ref, Options(ignoreEnv, env, labels, ports, network), read) \in Config
  BY DEF CloneConfig, Options, Config, Filtered
<1>2. {PullSetting(FALSE)} \in SUBSET Setting /\ {"fork"} \in SUBSET Label
  BY DEF Setting, Label
<1> QED
  BY <1>1, <1>2 DEF ForkOptions, UpdateOptions

\* The types of what is not Clone's.
OwnTypes ==
  /\ config \in [Container -> Config]
  /\ request = None \/ request \in Request
  /\ fork = None \/ fork \in Fork
  /\ handed \subseteq Item
  /\ misread \in BOOLEAN
  /\ refused \in 0..MaxRefused /\ crashes \in 0..MaxCrashes /\ requests \in 0..MaxRuns
  /\ pc # "idle" => fork # None /\ fork.state = "cloning"

\* A call that works or is refused.
LEMMA RefusedTyped ==
  ASSUME TypeOK, CallWorks \/ Refused
  PROVE  refused' \in 0..MaxRefused
BY SelfUpdateAssumption DEF CallWorks, Refused, TypeOK

\* Every step keeps the types.
LEMMA StepTyped ==
  ASSUME IInv, [Next]_vars, C!TypeOK'
  PROVE  TypeOK'
<1> SUFFICES OwnTypes'
  BY DEF OwnTypes, TypeOK
<1>0. OwnTypes
  BY DEF OwnTypes, IInv, TypeOK
<1>1. ASSUME NEW host \in Container, NEW items \in Lists, NEW self \in SelfName(host),
             Check(host, self, items)
      PROVE  OwnTypes'
  <2>1. UNCHANGED <<cloneVars, config, fork, misread, refused, crashes>>
    BY <1>1 DEF Check
  <2>2. items \subseteq Item
    BY SelfUpdateAssumption
  <2>3. handed' \subseteq Item
    BY <1>1, <2>2 DEF Check, OutputModules
  <2>4. requests' \in 0..MaxRuns
    BY <1>0, <1>1, CloneAssumed DEF Check, OwnTypes, C!CloneAssumption
  <2>5. request' = request \/ request' \in Request
    <3>1. CASE IsSelfUpdate(self, items)
      <4>1. PICK i \in items, byName \in BOOLEAN, noPull \in BOOLEAN :
              request' = [step |-> "image", host |-> host,
                          target |-> IF byName THEN None ELSE host,
                          wanted |-> i.name, noPull |-> noPull, ref |-> config[host]]
        BY <1>1, <3>1 DEF Check
      <4>2. i.name \in C!Name /\ config[host] \in Config
        BY <1>0, <2>2 DEF Item, OwnTypes
      <4> QED
        BY <4>1, <4>2 DEF Request, C!OrNone
    <3> QED
      BY <1>1, <3>1 DEF Check
  <2> QED
    BY <1>0, <2>1, <2>3, <2>4, <2>5 DEF OwnTypes, cloneVars, commandVars
<1>2. ASSUME SeeToImage PROVE OwnTypes'
  <2>1. UNCHANGED <<cloneVars, config, handed, misread, crashes, requests, fork>>
        /\ refused' \in 0..MaxRefused
    BY <1>2, RefusedTyped DEF SeeToImage, CallFails, IInv
  <2>2. request' = None \/ \E c \in Container : request' = [request EXCEPT !.step = "stop-fork", !.ref = config[c]]
    BY <1>2 DEF SeeToImage, CallFails, Named
  <2>3. request \in Request
    BY <1>0, <1>2 DEF SeeToImage, OwnTypes
  <2>4. request' = None \/ request' \in Request
    BY <1>0, <2>2, <2>3 DEF OwnTypes, Request
  <2> QED
    BY <1>0, <2>1, <2>4 DEF OwnTypes, cloneVars, commandVars
<1>3. ASSUME StopFork PROVE OwnTypes'
  <2>1. UNCHANGED <<config, handed, misread, crashes, requests>>
        /\ refused' \in 0..MaxRefused
    BY <1>3, RefusedTyped DEF StopFork, CallFails, IInv
  <2>2. request \in Request
    BY <1>0, <1>3 DEF StopFork, OwnTypes
  <2>3. request' = None \/ request' \in Request
    BY <1>3, <2>2 DEF StopFork, Proceed, CallFails, Request
  <2>4. \/ fork' = fork /\ UNCHANGED commandVars
        \/ fork # None /\ fork' = [fork EXCEPT !.state = "exited"] /\ CommandEnds
    BY <1>3 DEF StopFork, CallFails
  <2>5. /\ fork' = None \/ fork' \in Fork
        /\ pc' # "idle" => fork' # None /\ fork'.state = "cloning"
    BY <1>0, <2>4 DEF CommandEnds, C!Return, commandVars, OwnTypes, Fork
  <2> QED
    BY <1>0, <2>1, <2>3, <2>5 DEF OwnTypes
<1>4. ASSUME Forking PROVE OwnTypes'
  <2>1. UNCHANGED <<cloneVars, config, handed, misread, crashes, requests>>
        /\ refused' \in 0..MaxRefused
    BY <1>4, RefusedTyped
       DEF Forking, CallFails, RemoveFork, CreateFork, StartFork, WaitForFork, IInv
  <2>2. request \in Request
    BY <1>0, <1>4 DEF Forking, OwnTypes
  <2>3. request' = None \/ request' \in Request
    BY <1>4, <2>2
       DEF Forking, CallFails, RemoveFork, CreateFork, StartFork, WaitForFork, Proceed, Request
  <2>4. CASE UNCHANGED fork
    BY <1>0, <2>1, <2>3, <2>4 DEF OwnTypes, cloneVars, commandVars
  <2>5. CASE request.step = "remove-fork" /\ RemoveFork
    <3>1. pc = "idle"
      BY <1>0, <1>4, <2>5 DEF IInv, RequestInv, OwnTypes, Forking
    <3> QED
      BY <1>0, <2>1, <2>3, <2>5, <3>1 DEF RemoveFork, OwnTypes, cloneVars, commandVars
  <2>6. CASE request.step = "create-fork" /\ CreateFork
    <3>1. pc = "idle"
      BY <1>0, <1>4, <2>6 DEF IInv, RequestInv, OwnTypes, Forking
    <3>2. request.noPull \in BOOLEAN /\ request.ref \in Config
          /\ request.target \in C!OrNone(Container) /\ request.wanted \in C!Name
      BY <2>2 DEF Request
    <3>3. fork' \in Fork
      BY <2>6, <3>2, CloneConfigTyped DEF CreateFork, Fork
    <3> QED
      BY <1>0, <2>1, <2>3, <3>1, <3>3 DEF OwnTypes, cloneVars, commandVars
  <2>7. CASE request.step = "start-fork" /\ StartFork
    <3>1. pc = "idle" /\ fork \in Fork
      BY <1>0, <1>4, <2>7 DEF IInv, RequestInv, OwnTypes, Forking
    <3>2. fork' \in Fork
      BY <2>7, <3>1 DEF StartFork, Fork
    <3> QED
      BY <1>0, <2>1, <2>3, <3>1, <3>2 DEF OwnTypes, cloneVars, commandVars
  <2> QED
    BY <1>4, <2>4, <2>5, <2>6, <2>7 DEF Forking, CallFails, WaitForFork
<1>5. ASSUME UpdaterBegins PROVE OwnTypes'
  <2>1. UNCHANGED <<config, request, handed, misread, crashes, requests>>
        /\ refused' \in 0..MaxRefused
    BY <1>5, RefusedTyped DEF UpdaterBegins, CallWorks, IInv
  <2>2. fork \in Fork /\ fork.state = "running" /\ pc = "idle"
    BY <1>0, <1>5 DEF UpdaterBegins, OwnTypes
  <2>3. \/ fork' = [fork EXCEPT !.state = "cloning", !.pulled = Pulls(fork)]
        \/ fork' = [fork EXCEPT !.state = "exited"] /\ UNCHANGED pc
    BY <1>5 DEF UpdaterBegins, cloneVars, commandVars
  <2>4. Pulls(fork) \in BOOLEAN
    BY DEF Pulls
  <2>5. fork' \in Fork /\ (pc' # "idle" => fork'.state = "cloning")
    BY <2>2, <2>3, <2>4 DEF Fork
  <2> QED
    BY <1>0, <2>1, <2>5, NoneAssumption DEF OwnTypes
<1>6. ASSUME UpdaterSteps PROVE OwnTypes'
  <2>1. UNCHANGED <<handed, refused, crashes, requests>> /\ fork \in Fork /\ fork # None
        /\ fork.state = "cloning"
    BY <1>0, <1>6 DEF UpdaterSteps, OwnTypes
  <2>2. fork' \in Fork /\ (pc' # "idle" => fork' = fork)
    BY <1>6, <2>1 DEF UpdaterSteps, Fork
  <2>3. request' = None \/ request' = request
    BY <1>6 DEF UpdaterSteps, Survivor
  <2>4. config' \in [Container -> Config] /\ misread' \in BOOLEAN
    <3>1. CASE pc = "create" /\ next' # None
      <4>1. PICK read \in BOOLEAN :
              /\ config' = [config EXCEPT ![next'] = CloneConfig(config[prev], UpdateOptions, read)]
              /\ misread' = (misread \/ ~read)
        BY <1>6, <3>1 DEF UpdaterSteps, Configured
      <4>2. prev \in Container
        BY <3>1 DEF IInv, TypeOK, C!TypeOK, C!OrNone
      <4>3. CloneConfig(config[prev], UpdateOptions, read) \in Config
        BY <1>0, <4>2, CloneConfigTyped DEF OwnTypes
      <4> QED
        BY <1>0, <4>1, <4>3 DEF OwnTypes
    <3> QED
      BY <1>0, <1>6, <3>1 DEF UpdaterSteps, Configured, OwnTypes
  <2> QED
    BY <1>0, <2>1, <2>2, <2>3, <2>4, NoneAssumption DEF OwnTypes
<1>7. ASSUME UpdaterCrashes PROVE OwnTypes'
  <2>1. UNCHANGED <<config, request, handed, misread, refused, requests>>
        /\ crashes' \in 0..MaxCrashes
    BY <1>0, <1>7, SelfUpdateAssumption DEF UpdaterCrashes, OwnTypes
  <2>2. fork' \in Fork /\ pc' = "idle"
    BY <1>0, <1>7 DEF UpdaterCrashes, CommandEnds, C!Return, commandVars, OwnTypes, Fork
  <2> QED
    BY <1>0, <2>1, <2>2 DEF OwnTypes
<1>8. ASSUME ContainerChanges PROVE OwnTypes'
  <2>1. UNCHANGED <<config, fork, handed, misread, refused, crashes, requests, pc>>
    BY <1>8 DEF ContainerChanges, C!Exit, C!EngineRestarts, C!commandVars
  <2>2. request' = None \/ request' = request
    BY <1>8 DEF ContainerChanges, Survivor
  <2> QED
    BY <1>0, <2>1, <2>2 DEF OwnTypes
<1>9. ASSUME Reboot PROVE OwnTypes'
  <2>1. UNCHANGED <<config, handed, misread, refused, crashes, requests>> /\ request' = None
    BY <1>9 DEF Reboot
  <2>2. pc' = "idle"
    BY <1>9 DEF Reboot, C!Reboot, C!Return, C!commandVars
  <2>3. fork' = None \/ fork' \in Fork
    BY <1>0, <1>9 DEF Reboot, OwnTypes, Fork
  <2> QED
    BY <1>0, <2>1, <2>2, <2>3 DEF OwnTypes
<1>10. CASE UNCHANGED vars
  BY <1>0, <1>10 DEF vars, cloneVars, commandVars, OwnTypes
<1> QED
  BY <1>1, <1>2, <1>3, <1>4, <1>5, <1>6, <1>7, <1>8, <1>9, <1>10 DEF Next

\* Requests and updaters keep what is said of them.
LEMMA StepKeepsRequest ==
  ASSUME IInv, [Next]_vars, SelfNamesMain, OwnTypes'
  PROVE  RequestInv' /\ ForkInv'
<1>0. OwnTypes /\ RequestInv /\ ForkInv /\ EngineInv
  BY DEF OwnTypes, IInv, TypeOK
<1>a. ASSUME UNCHANGED <<name, state, always>>, NEW c \in Container
      PROVE  /\ C!Exists(c)' = C!Exists(c) /\ C!Running(c)' = C!Running(c)
             /\ C!Up(c)' = C!Up(c) /\ name'[c] = name[c]
  BY <1>a DEF C!Exists, C!Running, C!Up
<1>b. fork # None => fork.target = None \/ fork.target \in Container
  BY <1>0 DEF OwnTypes, Fork, C!OrNone
<1>c. request # None => request.host \in Container
  BY <1>0 DEF OwnTypes, Request
<1>1. ASSUME NEW host \in Container, NEW items \in Lists, NEW self \in SelfName(host),
             Check(host, self, items)
      PROVE  RequestInv' /\ ForkInv'
  <2>1. UNCHANGED <<name, state, always, fork>>
    BY <1>1 DEF Check, cloneVars, engineVars
  <2>2. ForkInv'
    BY <1>0, <1>a, <1>b, <2>1 DEF ForkInv
  <2>3. CASE IsSelfUpdate(self, items)
    <3>1. PICK i \in items, byName \in BOOLEAN, noPull \in BOOLEAN :
            /\ i.type = "self" \/ Own(self, i)
            /\ request' = [step |-> "image", host |-> host,
                           target |-> IF byName THEN None ELSE host,
                           wanted |-> i.name, noPull |-> noPull, ref |-> config[host]]
      BY <1>1, <2>3 DEF Check
    <3>2. i.name \in {C!MainName, name[host]}
      <4>1. i.name # None
        <5>1. i.name \in C!Name /\ MaxRuns \in Nat
          BY SelfUpdateAssumption, CloneAssumed DEF Item, C!CloneAssumption
        <5> QED
          BY <5>1, CloneAssumed DEF C!Name, C!CloneAssumption
      <4> QED
        BY <3>1, <4>1 DEF SelfNamesMain, Own, SelfName
    <3>3. C!Exists(host)' /\ C!Running(host)' /\ name'[host] = name[host]
      BY <1>1, <1>a, <2>1 DEF Check
    <3> QED
      BY <2>2, <3>1, <3>2, <3>3 DEF RequestInv
  <2>4. CASE UNCHANGED request
    BY <1>0, <1>a, <1>c, <2>1, <2>2, <2>4 DEF RequestInv
  <2> QED
    BY <1>1, <2>3, <2>4 DEF Check
<1>2. ASSUME SeeToImage PROVE RequestInv' /\ ForkInv'
  <2>1. UNCHANGED <<name, state, always, fork>> /\ request \in Request /\ request # None
    BY <1>0, <1>2 DEF SeeToImage, CallFails, cloneVars, engineVars, OwnTypes
  <2>2. ForkInv'
    BY <1>0, <1>a, <1>b, <2>1 DEF ForkInv
  <2>3. \/ request' = None
        \/ \E c \in Container : request' = [request EXCEPT !.step = "stop-fork", !.ref = config[c]]
    BY <1>2 DEF SeeToImage, CallFails, Named
  <2>4. request' # None => /\ request'.host = request.host /\ request'.target = request.target
                           /\ request'.wanted = request.wanted /\ request'.step = "stop-fork"
    BY <2>1, <2>3 DEF Request
  <2> QED
    BY <1>0, <1>a, <1>c, <2>1, <2>2, <2>4 DEF RequestInv
<1>3. ASSUME StopFork PROVE RequestInv' /\ ForkInv'
  <2>1. UNCHANGED <<name, state, always>> /\ request \in Request /\ request # None
    BY <1>0, <1>3 DEF StopFork, engineVars, OwnTypes
  <2>2. CASE fork = None /\ Proceed("create-fork") /\ UNCHANGED fork
    BY <1>0, <1>a, <1>c, <2>1, <2>2 DEF Proceed, Request, RequestInv, ForkInv
  <2>3. CASE fork # None /\ Proceed("remove-fork") /\ fork' = [fork EXCEPT !.state = "exited"]
    <3>1. fork \in Fork /\ fork' \in Fork /\ fork'.state = "exited"
      BY <1>0, <2>3 DEF OwnTypes, Fork
    <3> QED
      BY <1>0, <1>a, <1>c, <2>1, <2>3, <3>1, NoneAssumption
         DEF Proceed, Request, RequestInv, ForkInv
  <2>4. CASE CallFails
    BY <1>0, <1>a, <1>b, <2>1, <2>4 DEF CallFails, RequestInv, ForkInv
  <2> QED
    BY <1>3, <2>2, <2>3, <2>4 DEF StopFork
<1>4. ASSUME Forking PROVE RequestInv' /\ ForkInv'
  <2>1. UNCHANGED <<name, state, always>> /\ request \in Request /\ request # None
    BY <1>0, <1>4 DEF Forking, cloneVars, engineVars, OwnTypes
  <2>2. CASE request' = None /\ UNCHANGED fork
    BY <1>0, <1>a, <1>b, <2>1, <2>2 DEF RequestInv, ForkInv
  <2>3. CASE request.step = "remove-fork" /\ RemoveFork
    BY <1>0, <1>a, <1>c, <2>1, <2>3 DEF RemoveFork, Proceed, Request, RequestInv, ForkInv
  <2>4. CASE request.step = "create-fork" /\ CreateFork
    <3>1. fork' # None /\ fork'.state = "created" /\ fork'.target = request.target
          /\ fork'.wanted = request.wanted
      <4>1. request.noPull \in BOOLEAN /\ request.ref \in Config
            /\ request.target \in C!OrNone(Container) /\ request.wanted \in C!Name
        BY <2>1 DEF Request
      <4>2. fork' \in Fork
        BY <2>4, <4>1, CloneConfigTyped DEF CreateFork, Fork
      <4>3. fork' # None
        BY <4>2, NoneAssumption
      <4>4. \E cfg : fork' = [state |-> "created", target |-> request.target,
                             wanted |-> request.wanted, noPull |-> request.noPull,
                             pulled |-> FALSE, config |-> cfg]
        BY <2>4 DEF CreateFork
      <4> QED
        BY <4>3, <4>4
    <3>2. Proceed("start-fork")
      BY <2>4 DEF CreateFork
    <3> QED
      BY <1>0, <1>a, <1>c, <2>1, <3>1, <3>2 DEF Proceed, Request, RequestInv, ForkInv
  <2>5. CASE request.step = "start-fork" /\ StartFork
    <3>1. fork \in Fork /\ fork # None /\ fork.target = request.target
          /\ fork.wanted = request.wanted
      BY <1>0, <2>1, <2>5 DEF RequestInv, OwnTypes
    <3>2. fork'.target = request.target /\ fork'.wanted = request.wanted
      BY <2>5, <3>1 DEF StartFork, Fork
    <3>3. \A c \in Container : name[c] = name[request.host] => c = request.host
      BY <1>0, <1>c, <2>1, SameInvariants DEF EngineInv, RequestInv, C!Exists
    <3>4. C!Up(request.host)
      BY <1>0, <2>1 DEF RequestInv, C!Up
    <3>5. ForkInv'
      BY <1>0, <1>a, <1>c, <2>1, <3>2, <3>3, <3>4 DEF RequestInv, ForkInv
    <3>6. RequestInv'
      BY <1>0, <1>a, <1>c, <2>1, <2>5 DEF StartFork, Proceed, Request, RequestInv
    <3> QED
      BY <3>5, <3>6
  <2> QED
    BY <1>4, <2>2, <2>3, <2>4, <2>5 DEF Forking, CallFails, WaitForFork
<1>5. ASSUME UpdaterBegins PROVE RequestInv' /\ ForkInv'
  <2>1. UNCHANGED <<name, state, always, request>> /\ fork \in Fork /\ fork # None
        /\ fork.state = "running"
    BY <1>0, <1>5 DEF UpdaterBegins, C!BeginOn, C!engineVars, cloneVars, engineVars, OwnTypes
  <2>2. fork'.state \in {"cloning", "exited"}
    BY <1>5, <2>1 DEF UpdaterBegins, Fork
  <2> QED
    BY <1>0, <1>a, <1>c, <2>1, <2>2 DEF RequestInv, ForkInv
<1>6. ASSUME UpdaterSteps PROVE RequestInv' /\ ForkInv'
  <2>1. fork \in Fork /\ fork # None /\ fork.state = "cloning" /\ C!Step
    BY <1>0, <1>6 DEF UpdaterSteps, OwnTypes
  <2>2. fork'.state \in {"cloning", "exited"}
    BY <1>6, <2>1 DEF UpdaterSteps, Fork
  <2>3. \A c \in Container : C!Exists(c) /\ state'[c] = "running" => name'[c] = name[c]
    BY <1>0, <2>1, StepKeepsStopped
  <2>4. request' # None => request # None /\ request' = request /\ state'[request.host] = "running"
    BY <1>6 DEF UpdaterSteps, Survivor
  <2> QED
    BY <1>0, <1>c, <2>1, <2>2, <2>3, <2>4 DEF RequestInv, ForkInv, C!Exists, C!Running
<1>7. ASSUME UpdaterCrashes PROVE RequestInv' /\ ForkInv'
  <2>1. UNCHANGED <<name, state, always, request>> /\ fork \in Fork /\ fork # None
        /\ fork.state \in {"running", "cloning"}
    BY <1>0, <1>7 DEF UpdaterCrashes, engineVars, OwnTypes
  <2>2. fork'.state = "exited"
    BY <1>7, <2>1 DEF UpdaterCrashes, Fork
  <2> QED
    BY <1>0, <1>a, <1>c, <2>1, <2>2 DEF RequestInv, ForkInv
<1>8. ASSUME ContainerChanges PROVE RequestInv' /\ ForkInv'
  <2>1. UNCHANGED <<name, always, fork>>
    BY <1>8 DEF ContainerChanges, C!Exit, C!EngineRestarts
  <2>2. request' # None => request # None /\ request' = request /\ state'[request.host] = "running"
    BY <1>8 DEF ContainerChanges, Survivor
  <2>3. \A c \in Container : C!Exists(c) /\ C!Up(c) => C!Up(c)'
    <3>1. PICK d \in Container : C!Exit(d) \/ C!EngineRestarts(d)
      BY <1>8 DEF ContainerChanges
    <3>2. \A c \in Container : C!Exists(c) => c \in always
      BY <1>0 DEF EngineInv, StoppedFirst
    <3> QED
      BY <1>0, <3>1, <3>2
         DEF C!Exit, C!EngineRestarts, C!Up, C!Running, EngineInv, C!TypeOK
  <2>4. RequestInv'
    BY <1>0, <1>c, <2>1, <2>2 DEF RequestInv, C!Exists, C!Running
  <2>5. ForkInv'
    BY <1>0, <1>b, <2>1, <2>3, CloneAssumed DEF ForkInv, C!Exists, OwnTypes, Fork, C!CloneAssumption, C!Name
  <2> QED
    BY <2>4, <2>5
<1>9. ASSUME Reboot PROVE RequestInv' /\ ForkInv'
  <2>1. request' = None /\ (fork' # None => fork'.state # "running")
    BY <1>0, <1>9 DEF Reboot, OwnTypes, Fork
  <2> QED
    BY <2>1 DEF RequestInv, ForkInv
<1>10. CASE UNCHANGED vars
  BY <1>0, <1>a, <1>b, <1>c, <1>10 DEF vars, cloneVars, engineVars, RequestInv, ForkInv
<1> QED
  BY <1>1, <1>2, <1>3, <1>4, <1>5, <1>6, <1>7, <1>8, <1>9, <1>10 DEF Next

\* The invariant is inductive.
LEMMA InvHolds ==
  ASSUME TRUE \notin WaitForExit, SelfNamesMain
  PROVE  Spec => []IInv
<1>1. Init => IInv
  <2> SUFFICES ASSUME Init PROVE IInv
    OBVIOUS
  <2>1. C!TypeOK
    BY CloneAssumed
       DEF Init, C!Init, C!TypeOK, C!CloneAssumption, C!OrNone, C!Name, C!MainName,
           C!Replacing, C!Trying, C!Cleanup, C!Reverting
  <2>2. P!SingleInv /\ StoppedFirst
    BY CloneAssumed
       DEF Init, C!Init, C!CloneAssumption, P!SingleInv, P!NamesApart, P!OnlyNamedUp,
           P!Exists, P!Up, P!Running, P!MainName, C!MainName, StoppedFirst, C!Exists
  <2>3. config \in [Container -> Config]
    <3>1. UserEnv \in SUBSET Setting
      BY SelfUpdateAssumption DEF Setting, UserEnv
    <3>2. {"image", "user"} \in SUBSET Label
      BY DEF Label
    <3> QED
      BY <3>1, <3>2 DEF Init, Config
  <2>4. pc = "idle" /\ request = None /\ fork = None
    BY DEF Init, C!Init
  <2>5. TypeOK
    <3>1. MaxRuns \in Nat /\ MaxRefused \in Nat /\ MaxCrashes \in Nat
      BY SelfUpdateAssumption, CloneAssumed DEF C!CloneAssumption
    <3>2. /\ handed \subseteq Item /\ misread \in BOOLEAN
          /\ refused = 0 /\ crashes = 0 /\ requests = 0
      BY DEF Init
    <3> QED
      BY <2>1, <2>3, <2>4, <3>1, <3>2 DEF TypeOK
  <2> QED
    BY <2>1, <2>2, <2>4, <2>5 DEF IInv, EngineInv, RequestInv, ForkInv
<1>2. IInv /\ [Next]_vars => IInv'
  <2> SUFFICES ASSUME IInv, [Next]_vars PROVE IInv'
    OBVIOUS
  <2>1. EngineInv'
    BY StepImplements, EngineStays DEF IInv
  <2>2. TypeOK'
    BY <2>1, StepTyped DEF EngineInv
  <2>3. RequestInv' /\ ForkInv'
    BY <2>2, StepKeepsRequest DEF TypeOK, OwnTypes
  <2> QED
    BY <2>1, <2>2, <2>3 DEF IInv
<1> QED
  BY <1>1, <1>2, PTL DEF Spec

\* Request and updater have their types, and the command of Clone runs in an
\* updater at work only.
THEOREM TypeCorrect ==
  ASSUME TRUE \notin WaitForExit, SelfNamesMain
  PROVE  Spec => []TypeOK
<1>1. IInv => TypeOK
  BY DEF IInv
<1> QED
  BY <1>1, InvHolds, PTL

\* Requests, updaters that are stopped, removed or crash at any point, and
\* containers that exit: all of it is a run of Clone.  An updater only begins with
\* a container that is up or has the name.
THEOREM CloneImplemented ==
  ASSUME TRUE \notin WaitForExit, SelfNamesMain
  PROVE  Spec => ImplementsClone
<1>1. Init => C!Init
  BY DEF Init
<1>2. IInv /\ [Next]_vars => [C!Next]_(C!vars)
  BY StepImplements
<1> QED
  BY <1>1, <1>2, InvHolds, PTL DEF Spec, ImplementsClone, C!Spec

\* So a working copy of the own container survives every self update, however many
\* are asked for at the same time.
THEOREM OwnCopySurvives ==
  ASSUME TRUE \notin WaitForExit, SelfNamesMain, HasCheck
  PROVE  Spec => []WorkingCopySurvives
BY CloneImplemented, CopySurvives, PTL DEF ImplementsClone

\* A check that has the name of its container, as it was found or is given, leaves no
\* item to the other plugins that names a container that runs: there is but one, the
\* one that asked.
THEOREM OwnKept ==
  ASSUME TRUE \notin WaitForExit, SelfNamesMain
  PROVE  Spec => OwnNotHandedOver
<1> DEFINE Kept1 ==
      \A host \in Container, items \in Lists :
        Check(host, name[host], items) /\ reboots = 0 =>
          \A i \in handed' : \A c \in Container :
            C!Exists(c) /\ C!Running(c) => name[c] # i.name
<1>1. C!Spec => []C!OneAtATime
  <2>1. P!Spec => []P!OneAtATime
    BY P!OneRuns, SameAssumption
  <2>2. P!OneAtATime <=> C!OneAtATime
    BY SameInvariants
  <2> QED
    BY <2>1, <2>2, SameSpec, PTL
<1>2. ASSUME C!OneAtATime PROVE Kept1
  <2> SUFFICES ASSUME NEW host \in Container, NEW items \in Lists,
                      Check(host, name[host], items), reboots = 0,
                      NEW i \in handed', NEW c \in Container, C!Exists(c), C!Running(c)
               PROVE  name[c] # i.name
    OBVIOUS
  <2>1. c = host
    BY <1>2 DEF Check, C!OneAtATime
  <2>2. i \in Item /\ i.type # "self" /\ ~Own(name[host], i)
    BY SelfUpdateAssumption DEF Check, OutputModules
  <2>3. i.type = "container"
    BY <2>2 DEF Item
  <2> QED
    BY <2>1, <2>2, <2>3 DEF Own
<1>3. C!OneAtATime => [Kept1]_vars
  BY <1>2
<1> QED
  BY <1>1, <1>3, CloneImplemented, PTL DEF ImplementsClone, OwnNotHandedOver

-----------------------------------------------------------------------------
(***************************************************************************)
(* The name is held                                                        *)
(***************************************************************************)

\* A container under the name, up or about to be.
HoldsName == \E c \in Container : name[c] = C!MainName /\ C!Up(c)

\* Who has the name while the command is at work: the next container from its
\* creation until it is removed, then nobody, then the previous one again.
HeldInv ==
  faults = 0 /\ crashes = 0 /\ reboots = 0 =>
    /\ pc = "idle" => HoldsName
    /\ pc \in C!Trying \cup C!Cleanup \cup {"logs", "stop-next", "remove-next"} => name[next] = base
    /\ pc \in C!Cleanup => C!Up(next)
    /\ pc = "rename-back" => C!NameFree(base)

\* What is known of the command and of who is up, as long as the machine does not
\* restart.
LEMMA KnownOfCommand ==
  ASSUME EngineInv, reboots = 0
  PROVE  /\ \A c \in Container : C!Exists(c) /\ C!Up(c) => name[c] = C!MainName
         /\ \A c \in Container : C!Exists(c) => c \in always
         /\ pc # "idle" => base = C!MainName /\ prev \in Container
         /\ pc = "start-previous" => name[prev] = base
         /\ pc \notin {"disable", "wait"}
BY SameInvariants
   DEF EngineInv, StoppedFirst, P!SingleInv, P!OnlyNamedUp, P!Exists, P!Up, P!Running, P!MainName,
       C!Exists, C!Up, C!Running, C!MainName, C!TypeOK, C!OrNone

\* A step of the command leaves the name with the next container or the previous
\* one, unless a call fails.
LEMMA StepHoldsName ==
  ASSUME EngineInv, HeldInv, C!Step, UNCHANGED crashes
  PROVE  HeldInv'
<1> SUFFICES ASSUME faults' = 0, crashes' = 0, reboots' = 0
             PROVE  HeldInv'
  BY DEF HeldInv
<1> USE DEF C!Trying, C!Cleanup
<1>1. /\ name \in [Container -> C!OrNone(C!Name)]
      /\ state \in [Container -> {"created", "running", "exited", "stopped"}]
      /\ faults \in Nat
  BY DEF EngineInv, C!TypeOK
<1>2. /\ faults = 0 /\ crashes = 0 /\ reboots = 0 /\ \A call : ~C!Fails(call)
      /\ \A call : ~C!OrReturn(call)
  BY <1>1 DEF C!Step, C!Works, C!Fails, C!OrReturn, C!DisablePolicy, C!StopPrevious,
              C!RenamePrevious, C!CreateNext, C!StartNext, C!StopReplaced, C!RemoveReplaced,
              C!ShowLogs, C!StopNext, C!RemoveNext, C!RenameBack, C!StartPrevious
<1>3. /\ pc # "idle" /\ prev \in Container /\ base = C!MainName
      /\ pc = "start-previous" => name[prev] = base
      /\ pc \notin {"disable", "wait"}
      /\ \A c \in Container : C!Exists(c) => c \in always
  BY <1>2, KnownOfCommand DEF C!Step
<1>4. pc \in C!Trying \cup C!Cleanup \cup {"logs", "stop-next", "remove-next"} =>
        next \in Container /\ next # prev /\ name[next] = base
  BY <1>2, SameInvariants DEF HeldInv, EngineInv, C!TypeOK, C!OrNone, C!Reverting
<1>5. CASE pc \in {"stop", "rename"}
  BY <1>2, <1>5 DEF C!Step, C!StopPrevious, C!RenamePrevious, C!Goto, HeldInv
<1>6. CASE pc = "create"
  BY <1>1, <1>2, <1>6 DEF C!Step, C!CreateNext, HeldInv
<1>7. CASE pc = "start"
  BY <1>2, <1>4, <1>7 DEF C!Step, C!StartNext, C!Goto, HeldInv
<1>8. CASE pc = "poll"
  BY <1>2, <1>4, <1>8 DEF C!Step, C!Poll, C!Healthy, C!Up, C!Running, C!engineVars, C!Goto, HeldInv
<1>9. CASE pc = "stop-previous"
  <2>1. state' = [state EXCEPT ![prev] = "stopped"] /\ C!Goto("remove-previous")
        /\ UNCHANGED <<name, always>>
    BY <1>2, <1>9 DEF C!Step, C!StopReplaced
  <2>2. C!Up(next)
    BY <1>2, <1>9 DEF HeldInv
  <2>3. C!Up(next)' /\ next' = next /\ name'[next] = base /\ base' = base
    BY <1>1, <1>4, <1>9, <2>1, <2>2 DEF C!Up, C!Running, C!Goto
  <2> QED
    BY <2>1, <2>3 DEF C!Goto, HeldInv
<1>10. CASE pc = "remove-previous"
  <2>1. name' = [name EXCEPT ![prev] = None] /\ C!Return("ok") /\ UNCHANGED <<state, always>>
    BY <1>2, <1>10 DEF C!Step, C!RemoveReplaced
  <2>2. C!Up(next)
    BY <1>2, <1>10 DEF HeldInv
  <2>3. PICK c \in Container : c = next
    BY <1>4, <1>10
  <2>4. name'[c] = C!MainName /\ C!Up(c)'
    BY <1>1, <1>3, <1>4, <1>10, <2>1, <2>2, <2>3 DEF C!Up, C!Running
  <2> QED
    BY <2>1, <2>4 DEF C!Return, HeldInv, HoldsName, C!MainName
<1>11. CASE pc = "logs"
  BY <1>2, <1>4, <1>11 DEF C!Step, C!ShowLogs, C!Goto, C!engineVars, HeldInv
<1>12. CASE pc = "stop-next"
  BY <1>2, <1>4, <1>12 DEF C!Step, C!StopNext, C!Goto, HeldInv
<1>13. CASE pc = "remove-next"
  <2>1. name' = [name EXCEPT ![next] = None] /\ C!Goto("rename-back")
    BY <1>2, <1>13 DEF C!Step, C!RemoveNext
  <2>2. base # None
    BY <1>3, CloneAssumed DEF C!CloneAssumption, C!Name, C!MainName
  <2>3. \A c \in Container : c # next => name[c] # base
    BY <1>4, <1>13, <2>2, SameInvariants DEF EngineInv, C!Exists
  <2>4. C!NameFree(base)'
    BY <1>1, <1>4, <1>13, <2>1, <2>2, <2>3 DEF C!NameFree, C!Goto
  <2> QED
    BY <2>1, <2>4 DEF C!Goto, HeldInv
<1>14. CASE pc = "rename-back"
  <2>1. C!NameFree(base)
    BY <1>2, <1>14 DEF HeldInv
  <2>2. C!Goto("start-previous")
    BY <1>2, <1>14, <2>1 DEF C!Step, C!RenameBack
  <2> QED
    BY <2>2 DEF C!Goto, HeldInv
<1>15. CASE pc = "start-previous"
  <2>1. state' = [state EXCEPT ![prev] = "running"] /\ C!Return("ok") /\ UNCHANGED name
    BY <1>2, <1>15 DEF C!Step, C!StartPrevious
  <2>2. PICK c \in Container : c = prev
    BY <1>3
  <2>3. name'[c] = C!MainName /\ C!Up(c)'
    BY <1>1, <1>3, <1>15, <2>1, <2>2 DEF C!Up, C!Running
  <2> QED
    BY <2>1, <2>3 DEF C!Return, HeldInv, HoldsName, C!MainName
<1> HIDE DEF C!Trying, C!Cleanup
<1> QED
  BY <1>3, <1>5, <1>6, <1>7, <1>8, <1>9, <1>10, <1>11, <1>12, <1>13, <1>14, <1>15 DEF C!Step

\* Unless something fails, a container is up under the name whenever no updater is
\* at work, though a second request may end one at any point of a replacement: who
\* asks is up, and only what has the name is up.
THEOREM NameIsHeld ==
  ASSUME TRUE \notin WaitForExit, SelfNamesMain
  PROVE  Spec => []NameHeld
<1>1. Init => HeldInv
  <2> SUFFICES ASSUME Init PROVE HeldInv
    OBVIOUS
  <2>1. /\ Original \in Container /\ pc = "idle"
        /\ name[Original] = C!MainName /\ state[Original] = "running"
    BY CloneAssumed DEF Init, C!Init, C!CloneAssumption
  <2> QED
    BY <2>1 DEF HeldInv, HoldsName, C!Up, C!Running, C!Trying, C!Cleanup
<1>2. IInv /\ HeldInv /\ [Next]_vars => HeldInv'
  <2> SUFFICES ASSUME IInv, HeldInv, [Next]_vars PROVE HeldInv'
    OBVIOUS
  <2>1. ASSUME UNCHANGED <<engineVars, commandVars, faults, reboots, crashes>> PROVE HeldInv'
    BY <2>1 DEF engineVars, commandVars, HeldInv, HoldsName, C!Up, C!Running, C!NameFree
  <2>2. ASSUME NEW host \in Container, NEW items \in Lists, NEW self \in SelfName(host),
               Check(host, self, items)
        PROVE  HeldInv'
    BY <2>1, <2>2 DEF Check, cloneVars
  <2>3. ASSUME SeeToImage \/ Forking \/ UNCHANGED vars PROVE HeldInv'
    <3>1. UNCHANGED cloneVars /\ UNCHANGED crashes
      BY <2>3, Zenon DEF SeeToImage, Forking, vars
    <3> QED
      BY <2>1, <3>1 DEF cloneVars
  <2>4. ASSUME StopFork PROVE HeldInv'
    <3>1. CASE pc # "idle" /\ C!Return("killed")
      <4> SUFFICES ASSUME reboots' = 0 PROVE HeldInv'
        BY DEF HeldInv
      <4>1. PICK c \in Container : c = request.host
        BY <2>4 DEF StopFork, IInv, TypeOK, Request
      <4>2. reboots = 0 /\ UNCHANGED <<name, state, always>>
        BY <2>4 DEF StopFork, engineVars
      <4>3. C!Exists(c) /\ C!Running(c)
        BY <2>4, <4>1 DEF StopFork, IInv, RequestInv
      <4>4. name[c] = C!MainName /\ C!Up(c)
        BY <4>2, <4>3, KnownOfCommand DEF IInv, C!Up
      <4>5. HoldsName'
        BY <4>2, <4>4 DEF HoldsName, C!Up, C!Running
      <4> QED
        BY <3>1, <4>5 DEF C!Return, HeldInv, C!Trying, C!Cleanup
    <3>2. CASE UNCHANGED commandVars
      BY <2>1, <2>4, <3>2 DEF StopFork
    <3> QED
      BY <2>4, <3>1, <3>2 DEF StopFork, CommandEnds
  <2>5. ASSUME UpdaterBegins PROVE HeldInv'
    <3>1. CASE \E c \in Named(fork) : C!BeginOn(c)
      <4>1. pc' = "stop"
        <5>1. TRUE \notin WaitForExit
          OBVIOUS
        <5> QED
          BY <3>1, <5>1, CloneAssumed DEF C!BeginOn, C!CloneAssumption
      <4> QED
        BY <4>1 DEF HeldInv, C!Trying, C!Cleanup
    <3>2. CASE UNCHANGED cloneVars
      BY <2>1, <2>5, <3>2 DEF UpdaterBegins, cloneVars
    <3> QED
      BY <2>5, <3>1, <3>2 DEF UpdaterBegins
  <2>6. ASSUME UpdaterSteps PROVE HeldInv'
    BY <2>6, StepHoldsName DEF UpdaterSteps, IInv
  <2>7. ASSUME UpdaterCrashes PROVE HeldInv'
    BY <2>7, SelfUpdateAssumption DEF UpdaterCrashes, IInv, TypeOK, HeldInv
  <2>8. ASSUME ContainerChanges PROVE HeldInv'
    <3> SUFFICES ASSUME reboots = 0 PROVE HeldInv'
      BY <2>8 DEF ContainerChanges, C!Exit, C!EngineRestarts, C!counters, HeldInv
    <3>1. PICK c \in Container : C!Exit(c) \/ C!EngineRestarts(c)
      BY <2>8 DEF ContainerChanges
    <3>2. /\ UNCHANGED <<name, always, pc, prev, base, next, faults, reboots, crashes>>
          /\ state' = [state EXCEPT ![c] = "exited"] \/ state' = [state EXCEPT ![c] = "running"]
          /\ c \in always
      BY <2>8, <3>1, KnownOfCommand
         DEF ContainerChanges, C!Exit, C!EngineRestarts, C!commandVars, C!counters, IInv
    <3>3. \A d \in Container : C!Up(d) => C!Up(d)'
      BY <3>2 DEF C!Up, C!Running, IInv, TypeOK, C!TypeOK
    <3>4. pc \in C!Cleanup => next \in Container
      BY DEF IInv, TypeOK, C!TypeOK, C!OrNone, C!Cleanup
    <3> QED
      BY <3>2, <3>3, <3>4 DEF HeldInv, HoldsName, C!NameFree
  <2>9. ASSUME Reboot PROVE HeldInv'
    BY <2>9 DEF Reboot, C!Reboot, IInv, TypeOK, C!TypeOK, HeldInv
  <2> QED
    BY <2>2, <2>3, <2>4, <2>5, <2>6, <2>7, <2>8, <2>9 DEF Next
<1>3. HeldInv => NameHeld
  BY DEF HeldInv, HoldsName, NameHeld
<1> QED
  BY <1>1, <1>2, <1>3, InvHolds, PTL DEF Spec

-----------------------------------------------------------------------------
(***************************************************************************)
(* The configuration is kept                                               *)
(***************************************************************************)

\* The updater that must not pull does not have the setting to.
ConfigInv ==
  /\ \A c \in Container : C!Exists(c) => Kept(c)
  /\ fork # None /\ fork.noPull => ~fork.pulled /\ ~Pulls(fork)

\* The options of the last clone keep a configuration, those of the updater drop
\* the setting.
LEMMA OptionsKeep ==
  ASSUME NEW ref \in Config, NEW read \in BOOLEAN
  PROVE  LET clone == CloneConfig(ref, UpdateOptions, read)
         IN  /\ clone.ports = ref.ports /\ clone.network = ref.network
             /\ clone.env = Filtered(ref.env, IgnoreEnv)
             /\ "user" \in clone.labels <=> "user" \in ref.labels
             /\ "fork" \in clone.labels <=> "fork" \in ref.labels
             /\ clone.keepId = (ref.keepId /\ read)
<1>1. ref.ports \in BOOLEAN /\ ref.network \in BOOLEAN
  BY DEF Config
<1> QED
  BY <1>1 DEF CloneConfig, UpdateOptions, Options

\* An updater created without the setting to pull does not have it.
LEMMA UpdaterKeepsOff ==
  ASSUME NEW ref \in Config, NEW read \in BOOLEAN
  PROVE  PullSetting(TRUE) \notin CloneConfig(ref, ForkOptions(TRUE), read).env
<1>1. /\ PullSetting(TRUE)[1] = "CONTAINER_CONTAINER_ALWAYSPULL"
      /\ PullSetting(TRUE) # PullSetting(FALSE)
  BY DEF PullSetting
<1> DEFINE patterns == IgnoreEnv \cup {"CONTAINER_CONTAINER_ALWAYSPULL="}
<1>2. PullSetting(TRUE) \notin Filtered(ref.env, patterns)
  BY <1>1 DEF Filtered, Prefixes
<1>3. CloneConfig(ref, ForkOptions(TRUE), read).env
        = Filtered(ref.env, patterns) \cup {PullSetting(FALSE)}
  BY DEF CloneConfig, ForkOptions, Options
<1> QED
  BY <1>1, <1>2, <1>3

\* What is left of the settings of the user stays.
LEMMA FilteredStays ==
  ASSUME NEW env, Filtered(UserEnv, IgnoreEnv) \subseteq env, env \subseteq UserEnv
  PROVE  /\ Filtered(UserEnv, IgnoreEnv) \subseteq Filtered(env, IgnoreEnv)
         /\ Filtered(env, IgnoreEnv) \subseteq UserEnv
BY DEF Filtered

\* Containers that stay keep what they have.
LEMMA ConfigStays ==
  ASSUME ConfigInv, UNCHANGED <<config, misread>>,
         \A c \in Container : C!Exists(c)' => C!Exists(c)
  PROVE  \A c \in Container : C!Exists(c)' => Kept(c)'
BY DEF ConfigInv, Kept

\* Only the creation of the next container brings a new one.
LEMMA StepCreates ==
  ASSUME IInv, C!Step, ~(pc = "create" /\ next' # None)
  PROVE  \A c \in Container : C!Exists(c)' => C!Exists(c)
<1>1. name \in [Container -> C!OrNone(C!Name)] /\ prev \in Container /\ C!Exists(prev)
  BY SameInvariants DEF IInv, EngineInv, C!TypeOK, C!OrNone, C!Step
<1>2. ASSUME NEW c \in Container, NEW n, name' = [name EXCEPT ![c] = n], C!Exists(c) \/ n = None
      PROVE  \A d \in Container : C!Exists(d)' => C!Exists(d)
  BY <1>1, <1>2 DEF C!Exists
<1>3. CASE UNCHANGED name
  BY <1>3 DEF C!Exists
<1>4. CASE \E n : name' = [name EXCEPT ![prev] = n]
  BY <1>1, <1>2, <1>4
<1>5. CASE name' = [name EXCEPT ![next] = None]
  BY <1>1, <1>5 DEF C!Exists
<1>6. ASSUME pc = "create", C!CreateNext PROVE UNCHANGED name
  BY <1>6, CloneAssumed DEF C!CreateNext, C!OrReturn, C!engineVars, C!CloneAssumption
<1> QED
  BY <1>3, <1>4, <1>5, <1>6
     DEF C!Step, C!DisablePolicy, C!StopPrevious, C!RenamePrevious, C!StartNext,
         C!StopReplaced, C!RemoveReplaced, C!ShowLogs, C!StopNext, C!RemoveNext,
         C!RenameBack, C!StartPrevious, C!OrReturn, C!engineVars

\* Every step keeps the configuration.
LEMMA StepKeepsConfig ==
  ASSUME IInv, ConfigInv, [Next]_vars
  PROVE  ConfigInv'
<1>0. OwnTypes
  BY DEF OwnTypes, IInv, TypeOK
<1>1. ASSUME UNCHANGED <<name, config, misread>>
      PROVE  \A c \in Container : C!Exists(c)' => Kept(c)'
  BY <1>1, ConfigStays DEF C!Exists
<1>2. ASSUME NEW s, fork # None, fork' = [fork EXCEPT !.state = s]
      PROVE  fork'.noPull => ~fork'.pulled /\ ~Pulls(fork)'
  <2>1. fork \in Fork
    BY <1>0, <1>2 DEF OwnTypes
  <2>2. fork'.noPull = fork.noPull /\ fork'.pulled = fork.pulled /\ fork'.config = fork.config
    BY <1>2, <2>1 DEF Fork
  <2> QED
    BY <1>2, <2>2 DEF ConfigInv, Pulls
<1>3. CASE UNCHANGED fork /\ UNCHANGED <<name, config, misread>>
  BY <1>1, <1>3 DEF ConfigInv, Pulls
<1>4. ASSUME NEW host \in Container, NEW items \in Lists, NEW self \in SelfName(host),
             Check(host, self, items)
      PROVE  ConfigInv'
  BY <1>3, <1>4 DEF Check, cloneVars, engineVars
<1>5. ASSUME SeeToImage PROVE ConfigInv'
  BY <1>3, <1>5 DEF SeeToImage, CallFails, cloneVars, engineVars
<1>6. ASSUME StopFork PROVE ConfigInv'
  <2>1. UNCHANGED <<name, config, misread>>
    BY <1>6 DEF StopFork, engineVars
  <2>2. UNCHANGED fork \/ (fork # None /\ fork' = [fork EXCEPT !.state = "exited"])
    BY <1>6 DEF StopFork, CallFails
  <2> QED
    BY <1>1, <1>2, <1>3, <2>1, <2>2 DEF ConfigInv
<1>7. ASSUME Forking PROVE ConfigInv'
  <2>1. UNCHANGED <<name, config, misread>> /\ request # None /\ request \in Request
    BY <1>0, <1>7 DEF Forking, cloneVars, engineVars, OwnTypes
  <2>2. CASE UNCHANGED fork
    BY <1>3, <2>1, <2>2
  <2>3. CASE request.step = "remove-fork" /\ RemoveFork
    BY <1>1, <2>1, <2>3 DEF RemoveFork, ConfigInv
  <2>4. CASE request.step = "create-fork" /\ CreateFork
    <3>1. PICK read \in BOOLEAN :
            fork' = [state |-> "created", target |-> request.target, wanted |-> request.wanted,
                     noPull |-> request.noPull, pulled |-> FALSE,
                     config |-> CloneConfig(request.ref, ForkOptions(request.noPull), read)]
      BY <2>4 DEF CreateFork
    <3>2. request.ref \in Config /\ request.noPull \in BOOLEAN
      BY <2>1 DEF Request
    <3>3. /\ fork'.noPull = request.noPull /\ fork'.pulled = FALSE
          /\ fork'.config = CloneConfig(request.ref, ForkOptions(request.noPull), read)
      BY <3>1
    <3>4. fork'.noPull => ~Pulls(fork)'
      BY <3>2, <3>3, UpdaterKeepsOff DEF Pulls
    <3> QED
      BY <1>1, <2>1, <3>3, <3>4 DEF ConfigInv
  <2>5. CASE request.step = "start-fork" /\ StartFork
    <3>1. fork # None /\ fork' = [fork EXCEPT !.state = "running"]
      BY <2>1, <2>5 DEF StartFork, IInv, RequestInv
    <3> QED
      BY <1>1, <1>2, <2>1, <3>1 DEF ConfigInv
  <2> QED
    BY <1>7, <2>2, <2>3, <2>4, <2>5 DEF Forking, CallFails, WaitForFork
<1>8. ASSUME UpdaterBegins PROVE ConfigInv'
  <2>1. UNCHANGED <<name, config, misread>> /\ fork # None /\ fork \in Fork
    BY <1>0, <1>8 DEF UpdaterBegins, C!BeginOn, C!engineVars, cloneVars, engineVars, OwnTypes
  <2>2. CASE fork' = [fork EXCEPT !.state = "exited"]
    BY <1>1, <1>2, <2>1, <2>2 DEF ConfigInv
  <2>3. CASE fork' = [fork EXCEPT !.state = "cloning", !.pulled = Pulls(fork)]
    <3>1. fork'.noPull = fork.noPull /\ fork'.pulled = Pulls(fork) /\ fork'.config = fork.config
      BY <2>1, <2>3 DEF Fork
    <3>2. fork'.noPull => ~fork'.pulled /\ ~Pulls(fork)'
      BY <2>1, <3>1 DEF ConfigInv, Pulls
    <3> QED
      BY <1>1, <2>1, <3>2 DEF ConfigInv
  <2> QED
    BY <1>8, <2>2, <2>3 DEF UpdaterBegins
<1>9. ASSUME UpdaterSteps PROVE ConfigInv'
  <2>1. fork # None /\ C!Step
    BY <1>9 DEF UpdaterSteps
  <2>2. fork' # None /\ fork'.noPull => ~fork'.pulled /\ ~Pulls(fork)'
    BY <1>2, <1>9, <2>1 DEF UpdaterSteps, ConfigInv, Pulls
  <2>3. CASE ~(pc = "create" /\ next' # None)
    BY <1>9, <2>1, <2>2, <2>3, StepCreates, ConfigStays
       DEF UpdaterSteps, Configured, ConfigInv
  <2>4. CASE pc = "create" /\ next' # None
    <3>1. PICK read \in BOOLEAN :
            /\ config' = [config EXCEPT ![next'] = CloneConfig(config[prev], UpdateOptions, read)]
            /\ misread' = (misread \/ ~read)
      BY <1>9, <2>4 DEF UpdaterSteps, Configured
    <3>2. prev \in Container /\ C!Exists(prev) /\ misread \in BOOLEAN
          /\ config \in [Container -> Config] /\ name \in [Container -> C!OrNone(C!Name)]
      BY <2>4, SameInvariants DEF IInv, EngineInv, TypeOK, C!TypeOK, C!OrNone
    <3>3. next' \in Container /\ \A c \in Container : c # next' => name'[c] = name[c]
      BY <2>1, <2>4, <3>2 DEF C!Step, C!CreateNext, C!OrReturn, C!Return
    <3>4. Kept(prev)
      BY <3>2 DEF ConfigInv
    <3>6. config'[next'] = CloneConfig(config[prev], UpdateOptions, read)
          /\ config[prev] \in Config
      BY <3>1, <3>2, <3>3
    <3>7. Kept(next)'
      <4> DEFINE clone == CloneConfig(config[prev], UpdateOptions, read)
      <4>1. /\ clone.ports = config[prev].ports /\ clone.network = config[prev].network
            /\ clone.env = Filtered(config[prev].env, IgnoreEnv)
            /\ "user" \in clone.labels <=> "user" \in config[prev].labels
            /\ "fork" \in clone.labels <=> "fork" \in config[prev].labels
            /\ clone.keepId = (config[prev].keepId /\ read)
        BY <3>6, OptionsKeep
      <4> HIDE DEF clone
      <4>2. config'[next'] = clone
        BY <3>6 DEF clone
      <4>3. /\ clone.ports /\ clone.network
            /\ Filtered(UserEnv, IgnoreEnv) \subseteq clone.env /\ clone.env \subseteq UserEnv
            /\ "user" \in clone.labels /\ "fork" \notin clone.labels
        BY <3>4, <4>1, FilteredStays DEF Kept
      <4>4. clone.keepId \/ misread'
        BY <3>1, <3>4, <4>1, Zenon DEF Kept
      <4> QED
        BY <4>2, <4>3, <4>4 DEF Kept
    <3>8. ASSUME NEW c \in Container, C!Exists(c)', c # next' PROVE Kept(c)'
      <4>1. C!Exists(c) /\ config'[c] = config[c] /\ (misread => misread')
        BY <3>1, <3>2, <3>3, <3>8 DEF C!Exists
      <4> QED
        BY <4>1 DEF ConfigInv, Kept
    <3> QED
      BY <2>2, <3>7, <3>8 DEF ConfigInv
  <2> QED
    BY <2>3, <2>4
<1>10. ASSUME UpdaterCrashes PROVE ConfigInv'
  BY <1>1, <1>2, <1>10 DEF UpdaterCrashes, engineVars, ConfigInv
<1>11. ASSUME ContainerChanges PROVE ConfigInv'
  BY <1>3, <1>11 DEF ContainerChanges, C!Exit, C!EngineRestarts
<1>12. ASSUME Reboot PROVE ConfigInv'
  BY <1>1, <1>2, <1>3, <1>12 DEF Reboot, C!Reboot, ConfigInv
<1>13. CASE UNCHANGED vars
  BY <1>3, <1>13 DEF vars, cloneVars, engineVars
<1> QED
  BY <1>4, <1>5, <1>6, <1>7, <1>8, <1>9, <1>10, <1>11, <1>12, <1>13 DEF Next

\* However often it is updated, the container keeps its configuration but for the
\* settings that begin with a pattern of --ignore-env, and an updater told not to pull
\* does not.
THEOREM ConfigIsKept ==
  ASSUME TRUE \notin WaitForExit, SelfNamesMain
  PROVE  Spec => []ConfigKept
<1>1. Init => ConfigInv
  <2> SUFFICES ASSUME Init PROVE ConfigInv
    OBVIOUS
  <2>1. Filtered(UserEnv, IgnoreEnv) \subseteq UserEnv
    BY DEF Filtered
  <2> QED
    BY <2>1 DEF Init, ConfigInv, Kept
<1>2. IInv /\ ConfigInv /\ [Next]_vars => ConfigInv'
  BY StepKeepsConfig
<1>3. ConfigInv => ConfigKept
  BY DEF ConfigInv, ConfigKept
<1> QED
  BY <1>1, <1>2, <1>3, InvHolds, PTL DEF Spec

=============================================================================
