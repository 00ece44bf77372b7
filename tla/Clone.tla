------------------------------- MODULE Clone -------------------------------
(***************************************************************************)
(* Replacing a container by one with a new image (CloneContainer, the      *)
(* command "tools container-clone"): the previous container is stopped and *)
(* renamed, the next one is created under its name and started, and when   *)
(* it does not become healthy in time the previous one is brought back.    *)
(*                                                                         *)
(* Each call to the engine is a step of its own; between two of them       *)
(* containers exit and are restarted by their policy, calls fail, the      *)
(* command is killed, and the machine goes down with it.  A command that   *)
(* ended may be run again for what goes by the name then, or what runs.    *)
(***************************************************************************)
EXTENDS Naturals

CONSTANTS
  Container,    \* ids
  Original,     \* the container there is at first
  None,
  WaitForExit,  \* how --wait-for-exit may be set: wait until the container stops by itself
  HasCheck,     \* the containers have a health check
  MaxPolls,     \* polls of the next container before the time is over (3: 15s, 5s apart)
  FaultyCall,   \* calls to the engine that may fail
  MaxFaults,    \* bounds: failed calls,
  MaxExits,     \*   containers that exit,
  MaxReboots,   \*   restarts of the machine,
  MaxRuns       \*   runs of the command

Call == {"update", "stop", "rename", "create", "start", "logs", "remove"}

ASSUME CloneAssumption ==
  /\ Original \in Container
  /\ WaitForExit \subseteq BOOLEAN /\ HasCheck \in BOOLEAN
  /\ FaultyCall \subseteq Call
  /\ {MaxPolls, MaxFaults, MaxExits, MaxReboots, MaxRuns} \subseteq Nat
  /\ None \notin Container \cup (0..MaxRuns)

VARIABLES
  name,      \* per container 0, the name it is replaced under, or the number of
             \* the run that renamed it; None when it does not exist
  state,     \* per container
  always,    \* containers the engine restarts: their restart policy
  works,     \* containers whose image works
  pc,        \* where the command is
  prev,      \* prevContainer
  base,      \* containerName: the name it had
  next,      \* nextContainer
  polls,     \* polls of WaitForHealthy (runningCount, but for a health check)
  result,    \* of the last run: "none", "ok", "error" or "killed"
  faults, exits, reboots, runs  \* counters for the bounds

engineVars == <<name, state, always, works>>
commandVars == <<pc, prev, base, next, polls, result>>
counters == <<faults, exits, reboots, runs>>
vars == <<engineVars, commandVars, counters>>

MainName == 0
Name == 0..MaxRuns

Exists(c) == name[c] # None
Running(c) == state[c] = "running"
NameFree(n) == \A c \in Container : name[c] # n

Replacing == {"disable", "wait", "stop", "rename", "create"}
Trying == {"start", "poll"}
Cleanup == {"stop-previous", "remove-previous"}
Reverting == {"logs", "stop-next", "remove-next", "rename-back", "start-previous"}

OrNone(S) == S \cup {None}

TypeOK ==
  /\ name \in [Container -> OrNone(Name)]
  /\ state \in [Container -> {"created", "running", "exited", "stopped"}]
  /\ always \subseteq Container
  /\ works \subseteq Container
  /\ pc \in {"idle"} \cup Replacing \cup Trying \cup Cleanup \cup Reverting
  /\ prev \in OrNone(Container) /\ next \in OrNone(Container)
  /\ base \in OrNone(Name)
  /\ (pc = "idle") = (prev = None) /\ (pc = "idle") = (base = None)
  /\ (next # None) = (pc \in Trying \cup Cleanup \cup Reverting)
  /\ polls \in 0..MaxPolls
  /\ result \in {"none", "ok", "error", "killed"}
  /\ faults \in Nat /\ exits \in Nat /\ reboots \in Nat /\ runs \in 0..MaxRuns

Init ==
  /\ name = [c \in Container |-> IF c = Original THEN MainName ELSE None]
  /\ state = [c \in Container |-> IF c = Original THEN "running" ELSE "created"]
  /\ always = {Original}
  /\ works = {Original}
  /\ pc = "idle" /\ prev = None /\ base = None /\ next = None /\ polls = 0 /\ result = "none"
  /\ faults = 0 /\ exits = 0 /\ reboots = 0 /\ runs = 0

-----------------------------------------------------------------------------
(***************************************************************************)
(* The command                                                             *)
(***************************************************************************)

Works == UNCHANGED faults

Fails(call) ==
  /\ call \in FaultyCall
  /\ faults < MaxFaults
  /\ faults' = faults + 1

Goto(step) == pc' = step /\ UNCHANGED <<prev, base, next, polls, result>>

Return(res) ==
  /\ pc' = "idle" /\ prev' = None /\ base' = None /\ next' = None /\ polls' = 0
  /\ result' = res

\* A call that the engine refuses makes the command return.
OrReturn(call) ==
  /\ Fails(call)
  /\ Return("error")
  /\ UNCHANGED engineVars

\* Inspect the container; a backup of this run's name does not exist.
BeginOn(c) ==
  /\ pc = "idle"
  /\ runs < MaxRuns /\ runs' = runs + 1
  /\ Exists(c)
  /\ prev' = c /\ base' = name[c]
  /\ \E wait \in WaitForExit : pc' = IF wait THEN "disable" ELSE "stop"
  /\ UNCHANGED <<engineVars, next, polls, result, faults, exits, reboots>>

\* It runs, or the engine is about to start it again.
Up(c) == Running(c) \/ (state[c] = "exited" /\ c \in always)

\* The container is named, or is the one that asks for its own update: a previous
\* container that the engine started again goes by its backup's name.
Begin == \E c \in Container : (name[c] = MainName \/ Up(c)) /\ BeginOn(c)

\* A faulty variant: the restart policy stays as it is.
KeepPolicy == UNCHANGED <<always, faults>> /\ Goto("wait") /\ UNCHANGED <<name, state, works>>

\* The engine must not restart the container that is waited for.
DisablePolicy ==
  \/ /\ Works /\ always' = always \ {prev} /\ Goto("wait")
     /\ UNCHANGED <<name, state, works>>
  \/ OrReturn("update")

\* WaitForStop, or its timeout.
SeeStopped ==
  \/ ~Running(prev) /\ Goto("rename")
  \/ Return("error")

StopPrevious ==
  \/ /\ Works /\ state' = [state EXCEPT ![prev] = "stopped"] /\ Goto("rename")
     /\ UNCHANGED <<name, always, works>>
  \/ OrReturn("stop")

RenamePrevious ==
  \/ /\ Works /\ NameFree(runs) /\ name' = [name EXCEPT ![prev] = runs] /\ Goto("create")
     /\ UNCHANGED <<state, always, works>>
  \/ OrReturn("rename")

\* A faulty variant: it has no restart policy.
RestartNever(c) == always \ {c}

\* The next container restarts always, whatever the policy of the previous one.
RestartAlways(c) == always \cup {c}

CreateNext ==
  \/ /\ Works /\ NameFree(base)
     /\ \E c \in Container :
          /\ ~Exists(c)
          /\ name' = [name EXCEPT ![c] = base]
          /\ state' = [state EXCEPT ![c] = "created"]
          /\ always' = RestartAlways(c)
          /\ works' \in {works \cup {c}, works \ {c}}
          /\ next' = c
     /\ pc' = "start"
     /\ UNCHANGED <<prev, base, polls, result>>
  \/ OrReturn("create")

\* Whether it starts or not, its health is waited for.
StartNext ==
  /\ Goto("poll")
  /\ \/ Works /\ state' = [state EXCEPT ![next] = "running"]
     \/ Fails("start") /\ UNCHANGED state
  /\ UNCHANGED <<name, always, works>>

\* What WaitForHealthy accepts.  Without a health check the container must be
\* running, but the polls before do not look at that.
Healthy ==
  /\ Running(next)
  /\ IF HasCheck THEN next \in works ELSE polls > 1

Poll ==
  \/ Healthy /\ Goto("stop-previous")
  \/ ~Healthy /\ polls < MaxPolls /\ polls' = polls + 1 /\ UNCHANGED <<pc, prev, base, next, result>>
  \/ Goto("logs")

\* StopRemoveContainer for the previous container.  Failures are logged.
StopReplaced ==
  \/ /\ Works /\ state' = [state EXCEPT ![prev] = "stopped"] /\ Goto("remove-previous")
     /\ UNCHANGED <<name, always, works>>
  \/ Fails("stop") /\ Return("ok") /\ UNCHANGED engineVars

RemoveReplaced ==
  /\ Return("ok")
  /\ \/ Works /\ name' = [name EXCEPT ![prev] = None]
     \/ Fails("remove") /\ UNCHANGED name
  /\ UNCHANGED <<state, always, works>>

\* The logs of the next container are shown.  When they cannot be read to their
\* end the command returns.
ShowLogs ==
  \/ Works /\ Goto("stop-next") /\ UNCHANGED engineVars
  \/ OrReturn("logs")

\* StopRemoveContainer for the next container.  (That the previous container is
\* stopped once more before has no effect.)  Failures are logged.
StopNext ==
  \/ /\ Works /\ state' = [state EXCEPT ![next] = "stopped"] /\ Goto("remove-next")
     /\ UNCHANGED <<name, always, works>>
  \/ Fails("stop") /\ Goto("rename-back") /\ UNCHANGED engineVars

RemoveNext ==
  /\ Goto("rename-back")
  /\ \/ Works /\ name' = [name EXCEPT ![next] = None]
     \/ Fails("remove") /\ UNCHANGED name
  /\ UNCHANGED <<state, always, works>>

\* The engine refuses a name that is in use.
RenameBack ==
  \/ /\ Works /\ NameFree(base) /\ name' = [name EXCEPT ![prev] = base]
     /\ Goto("start-previous")
     /\ UNCHANGED <<state, always, works>>
  \/ /\ Works /\ ~NameFree(base)
     /\ Return("error") /\ UNCHANGED engineVars
  \/ OrReturn("rename")

\* A faulty variant: the previous container is left as it is.
RestoreWithoutStart == Works /\ Return("ok") /\ UNCHANGED engineVars

StartPrevious ==
  \/ /\ Works /\ state' = [state EXCEPT ![prev] = "running"] /\ Return("ok")
     /\ UNCHANGED <<name, always, works>>
  \/ OrReturn("start")

Step ==
  /\ \/ pc = "disable" /\ DisablePolicy
     \/ pc = "wait" /\ SeeStopped /\ UNCHANGED <<engineVars, faults>>
     \/ pc = "stop" /\ StopPrevious
     \/ pc = "rename" /\ RenamePrevious
     \/ pc = "create" /\ CreateNext
     \/ pc = "start" /\ StartNext
     \/ pc = "poll" /\ Poll /\ UNCHANGED <<engineVars, faults>>
     \/ pc = "stop-previous" /\ StopReplaced
     \/ pc = "remove-previous" /\ RemoveReplaced
     \/ pc = "logs" /\ ShowLogs
     \/ pc = "stop-next" /\ StopNext
     \/ pc = "remove-next" /\ RemoveNext
     \/ pc = "rename-back" /\ RenameBack
     \/ pc = "start-previous" /\ StartPrevious
  /\ UNCHANGED <<exits, reboots, runs>>

-----------------------------------------------------------------------------
(***************************************************************************)
(* The engine and the machine                                              *)
(***************************************************************************)

Exit(c) ==
  /\ Exists(c) /\ Running(c)
  /\ exits < MaxExits /\ exits' = exits + 1
  /\ state' = [state EXCEPT ![c] = "exited"]
  /\ UNCHANGED <<name, always, works, commandVars, faults, reboots, runs>>

\* A container that exited is restarted by its policy, one that was stopped by a
\* call is not.
EngineRestarts(c) ==
  /\ Exists(c) /\ state[c] = "exited" /\ c \in always
  /\ state' = [state EXCEPT ![c] = "running"]
  /\ UNCHANGED <<name, always, works, commandVars, counters>>

\* The machine restarts and the engine starts what was started before and has
\* the policy, stopped or not.  The command is not started again.
Reboot ==
  /\ reboots < MaxReboots /\ reboots' = reboots + 1
  /\ state' = [c \in Container |->
                 IF state[c] = "created" THEN "created"
                 ELSE IF c \in always THEN "running" ELSE "stopped"]
  /\ IF pc = "idle" THEN UNCHANGED commandVars ELSE Return("killed")
  /\ UNCHANGED <<name, always, works, faults, exits, runs>>

\* The process, or the container it runs in, is stopped.
Kill ==
  /\ pc # "idle"
  /\ Return("killed")
  /\ UNCHANGED <<engineVars, counters>>

Next ==
  \/ Begin
  \/ Step
  \/ Kill
  \/ \E c \in Container : Exit(c) \/ EngineRestarts(c)
  \/ Reboot

Spec == Init /\ [][Next]_vars

\* Calls return, waiting ends, and the engine restarts what exited.
Fairness == WF_vars(Step) /\ \A c \in Container : WF_vars(EngineRestarts(c))

FairSpec == Spec /\ Fairness

-----------------------------------------------------------------------------
(***************************************************************************)
(* Properties                                                              *)
(***************************************************************************)

\* A copy of the container that works, and that comes up with the machine.
Survives(c) == Exists(c) /\ c \in works /\ c \in always /\ state[c] # "created"

\* Whenever the command fails or the machine goes down, there is such a copy: the
\* previous container is given up only for a next one that became healthy.
WorkingCopySurvives == \E c \in Container : Survives(c)

\* The previous and the next container, which share ports and volumes, never
\* run at the same time, as long as the machine does not restart both.
OneAtATime ==
  reboots = 0 =>
    \A c, d \in Container : Exists(c) /\ Exists(d) /\ Running(c) /\ Running(d) => c = d

\* When the next container is not healthy, the run ends with the previous one
\* back under its name and started; and a run that reports success leaves a
\* container there that was started and not stopped, be it the next or the previous
\* one.  Both unless a call failed.
Restored == name'[prev] = base /\ state'[prev] = "running"

Reverted == pc \in Reverting

Left == \E c \in Container : name'[c] = base /\ state'[c] \in {"running", "exited"}

EndsInOrder ==
  [][pc # "idle" /\ pc' = "idle" /\ result' # "killed" /\ faults' = 0 =>
       (Reverted => Restored) /\ (result' = "ok" => Left)]_vars

\* However often a container is replaced, and however often it exits, one runs
\* under its name again and again, until a call fails, the command is
\* killed or --wait-for-exit has taken the restart policy away.
RunsAgain ==
  \/ []<>(\E c \in Container : name[c] = MainName /\ (Running(c) \/ c \notin always))
  \/ <>(faults > 0 \/ result = "killed")

=============================================================================
