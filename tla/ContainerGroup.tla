--------------------------- MODULE ContainerGroup ---------------------------
(***************************************************************************)
(* Compose projects as software modules: the commands install, remove and  *)
(* list of the container-group plugin, and the names under which the       *)
(* daemon shows a project and the log plugin finds it again.               *)
(*                                                                         *)
(* A module has a directory with its compose file and a version file that  *)
(* is written last.  The engine knows of projects only: what the compose   *)
(* file calls them, and the directory they were started from, as labels.   *)
(* Commands run one at a time; each call is a step, any of which may fail, *)
(* and between any two of them the command may be killed.                  *)
(***************************************************************************)
EXTENDS Naturals

CONSTANTS
  Module,     \* names of software modules, and of their directories
  Project,    \* names of compose projects; the default is that of the directory
  Artifact,   \* what can be installed: a version with its compose file
  Versions,   \* [Module -> SUBSET Artifact], the artifacts of a module
  FileOf,     \* [Artifact -> ComposeFile], the file that the artifact brings
  ProjectOf,  \* [Artifact -> Project], the project that the file declares
  Readable,   \* artifacts whose file is a compose file at all
  Torn,       \* what is left of a file whose writing was cut short
  None,
  FaultyCall, \* calls that may fail
  MaxFaults,  \* bounds: failed calls,
  MaxKills    \*   killed commands

\* A text file is stored under the first name, an archive may bring either.
ComposeFile == {"yaml", "yml"}

Call == {"mkdir", "write", "network", "up", "version", "list", "stop", "down", "rmdir"}

\* The containers of a project: the directory and the artifact they are from.
Containers == [dir: Module, artifact: Artifact]

ASSUME GroupAssumption ==
  /\ Module \subseteq Project
  /\ Versions \in [Module -> SUBSET Artifact]
  /\ FileOf \in [Artifact -> ComposeFile]
  /\ ProjectOf \in [Artifact -> Project]
  /\ Readable \subseteq Artifact /\ Torn \in Artifact \ Readable
  /\ FaultyCall \subseteq Call
  /\ {MaxFaults, MaxKills} \subseteq Nat
  /\ None \notin Module \cup Project \cup Artifact \cup Containers

VARIABLES
  dirs,      \* modules that have a directory
  file,      \* per module: the artifact each compose file is from, or None
  version,   \* per module: the artifact named by the version file, or None
  deployed,  \* per project: its containers' directory and artifact, or None
  running,   \* projects whose containers run
  pc,        \* where the command is
  target,    \* the module to install, or the name to remove as list shows it
  artifact,  \* the artifact to install
  workingDir,\* of remove: the module whose directory it works in, or None
  failed,    \* of remove: whether errs has an error
  result,    \* of the last command: "none", "ok", "error" or "killed"
  faults, kills

diskVars == <<dirs, file, version>>
engineVars == <<deployed, running>>
commandVars == <<target, artifact, workingDir, failed>>
vars == <<diskVars, engineVars, pc, commandVars, result, faults, kills>>

OrNone(S) == S \cup {None}

Installing == {"mkdir", "write", "read", "network", "up", "version"}
Removing == {"find", "stop", "down", "rmdir", "return"}

TypeOK ==
  /\ dirs \subseteq Module
  /\ file \in [Module -> [ComposeFile -> OrNone(Artifact)]]
  /\ version \in [Module -> OrNone(Artifact)]
  /\ deployed \in [Project -> OrNone(Containers)]
  /\ running \subseteq Project
  /\ pc \in {"idle"} \cup Installing \cup Removing
  /\ target \in OrNone(Project)
  /\ pc \in Installing => target \in Module /\ artifact \in Versions[target]
  /\ artifact \in OrNone(Artifact)
  /\ workingDir \in OrNone(Module)
  /\ pc \in {"stop", "down", "rmdir"} => workingDir # None
  /\ failed \in BOOLEAN
  /\ result \in {"none", "ok", "error", "killed"}
  /\ faults \in Nat /\ kills \in Nat

Init ==
  /\ dirs = {}
  /\ file = [m \in Module |-> [f \in ComposeFile |-> None]]
  /\ version = [m \in Module |-> None]
  /\ deployed = [p \in Project |-> None]
  /\ running = {}
  /\ pc = "idle" /\ target = None /\ artifact = None /\ workingDir = None /\ failed = FALSE
  /\ result = "none"
  /\ faults = 0 /\ kills = 0

-----------------------------------------------------------------------------
(***************************************************************************)
(* Names                                                                   *)
(***************************************************************************)

Deployed(p) == deployed[p] # None

\* The module name in the version file in the directory of the containers, or
\* the name of the project without one.
ShownName(p) ==
  IF version[deployed[p].dir] # None THEN deployed[p].dir ELSE p

\* What list prints: modules with their versions ("latest" is None).
Listing == {<<ShownName(p), version[deployed[p].dir]>> : p \in {q \in Project : Deployed(q)}}

\* A faulty variant: the name is taken for that of a project.
ResolveDirectly(name) == {name}

\* Projects that the log plugin takes a name for: a running one of that name,
\* or else any whose version file has it as its module.
ResolveComposeProjectName(name) ==
  LET stored == {p \in Project : Deployed(p) /\ version[deployed[p].dir] # None
                                 /\ deployed[p].dir = name}
  IN  IF (name \in Project /\ Deployed(name) /\ name \in running) \/ stored = {}
      THEN {name}
      ELSE stored

\* The compose file that compose finds in a directory, and the one that install
\* looks at: they disagree when there are two.
Chosen(m) == IF file[m]["yml"] # None THEN file[m]["yml"] ELSE file[m]["yaml"]
ReadBack(m) == IF file[m]["yaml"] # None THEN file[m]["yaml"] ELSE file[m]["yml"]

-----------------------------------------------------------------------------
(***************************************************************************)
(* Commands                                                                *)
(***************************************************************************)

Works == UNCHANGED faults

Fails(call) ==
  /\ call \in FaultyCall
  /\ faults < MaxFaults
  /\ faults' = faults + 1

Return(res) ==
  /\ pc' = "idle" /\ target' = None /\ artifact' = None /\ workingDir' = None
  /\ failed' = FALSE
  /\ result' = res

Goto(step) == pc' = step /\ UNCHANGED <<commandVars, result>>

Written == [file EXCEPT ![target][FileOf[artifact]] = artifact]

\* The file of the artifact is cut short, or it is an archive that cannot be
\* unpacked, which is then taken for a text file; what it brought stays.
HalfWritten ==
  {[file EXCEPT ![target][FileOf[artifact]] = Torn]}
  \cup {[f EXCEPT ![target]["yaml"] = Torn] : f \in {file, Written}}

\* What RemoveAll leaves of a directory.
HalfRemoved ==
  {[file EXCEPT ![workingDir] = [f \in ComposeFile |-> IF f \in left THEN @[f] ELSE None]] :
     left \in SUBSET ComposeFile}

\* The containers that compose creates, or removes.
Deploy(p) ==
  deployed' = [deployed EXCEPT ![p] = [dir |-> target, artifact |-> Chosen(target)]]
Undeploy(p) == deployed' = [deployed EXCEPT ![p] = None] /\ running' = running \ {p}

\* What a call leaves that fails or is cut short: nothing, or a part of its work.
Partly ==
  \/ UNCHANGED <<diskVars, engineVars>>
  \/ /\ pc = "write" /\ file' \in HalfWritten
     /\ UNCHANGED <<dirs, version, engineVars>>
  \/ /\ pc = "up" /\ Chosen(target) \in Readable
     /\ LET p == ProjectOf[Chosen(target)] IN Deploy(p) /\ running' = running \ {p}
     /\ UNCHANGED diskVars
  \/ /\ pc = "version" /\ version' = [version EXCEPT ![target] = None]
     /\ UNCHANGED <<dirs, file, engineVars>>
  \/ /\ pc = "down" /\ Chosen(workingDir) \in Readable
     /\ Undeploy(ProjectOf[Chosen(workingDir)])
     /\ UNCHANGED diskVars
  \/ /\ pc = "rmdir" /\ file' \in HalfRemoved
     /\ version' \in {version, [version EXCEPT ![workingDir] = None]}
     /\ UNCHANGED <<dirs, engineVars>>

\* A call that fails makes install return its error.
OrReturn(call) == Fails(call) /\ Return("error") /\ Partly

Install(m, a) ==
  /\ pc = "idle" /\ a \in Versions[m]
  /\ pc' = "mkdir" /\ target' = m /\ artifact' = a
  /\ UNCHANGED <<diskVars, engineVars, workingDir, failed, result, faults, kills>>

MakeDir ==
  \/ /\ Works /\ dirs' = dirs \cup {target} /\ Goto("write")
     /\ UNCHANGED <<file, version, engineVars>>
  \/ OrReturn("mkdir")

\* What is in the directory already stays there.
WriteFiles ==
  \/ /\ Works /\ Goto("read")
     /\ file' = Written
     /\ UNCHANGED <<dirs, version, engineVars>>
  \/ OrReturn("write")

\* The images of the compose file are read, and pulled; that pulling fails is
\* logged only.
ReadFiles ==
  /\ IF ReadBack(target) \in Readable THEN Goto("network") ELSE Return("error")
  /\ UNCHANGED <<diskVars, engineVars, faults>>

\* Hosts are added to the compose file afterwards, as far as that is possible.
CreateNetwork ==
  \/ Works /\ Goto("up") /\ UNCHANGED <<diskVars, engineVars>>
  \/ OrReturn("network")

\* The project of the file in the directory gets its containers.
ComposeUp ==
  \/ /\ Chosen(target) \in Readable /\ Works
     /\ LET p == ProjectOf[Chosen(target)] IN Deploy(p) /\ running' = running \cup {p}
     /\ Goto("version")
     /\ UNCHANGED diskVars
  \/ /\ Chosen(target) \notin Readable /\ Works /\ Return("error")
     /\ UNCHANGED <<diskVars, engineVars>>
  \/ OrReturn("up")

\* A faulty variant: a version file that exists is left alone.
WriteVersionOnce ==
  /\ Works /\ Return("ok")
  /\ version' = [version EXCEPT ![target] = IF @ = None THEN artifact ELSE @]
  /\ UNCHANGED <<dirs, file, engineVars>>

WriteVersion ==
  \/ /\ Works /\ Return("ok")
     /\ version' = [version EXCEPT ![target] = artifact]
     /\ UNCHANGED <<dirs, file, engineVars>>
  \/ OrReturn("version")

\* Removal of what list shows.
Remove(name) ==
  /\ pc = "idle"
  /\ \E v \in OrNone(Artifact) : <<name, v>> \in Listing
  /\ pc' = "find" /\ target' = name
  /\ UNCHANGED <<diskVars, engineVars, artifact, workingDir, failed, result, faults, kills>>

\* A faulty variant: any running project is taken for the one that is asked for.
AnyDirectory(name, found) ==
  IF found /\ \E p \in running : Deployed(p)
  THEN deployed[CHOOSE p \in running : Deployed(p)].dir
  ELSE IF name \in dirs THEN name ELSE None

\* The directory of a running container of the project, or else the default one.
Directory(name, found) ==
  IF found /\ name \in running /\ Deployed(name) /\ deployed[name].dir \in dirs
  THEN deployed[name].dir
  ELSE IF name \in dirs THEN name ELSE None

\* Without a directory compose cannot be asked.
GoOn(dir) == IF dir = None THEN "return" ELSE "stop"

FindDirectory ==
  /\ \E found \in BOOLEAN :
       /\ IF found THEN Works ELSE Fails("list")
       /\ workingDir' = Directory(target, found)
       /\ failed' = (~found \/ workingDir' = None)
  /\ pc' = GoOn(workingDir')
  /\ UNCHANGED <<diskVars, engineVars, target, artifact, result>>

\* Compose stops the project of the directory first; that it fails is ignored.
ComposeStop ==
  /\ Goto("down")
  /\ \/ /\ Works
        /\ running' = IF Chosen(workingDir) \in Readable
                      THEN running \ {ProjectOf[Chosen(workingDir)]} ELSE running
     \/ Fails("stop") /\ UNCHANGED running
  /\ UNCHANGED <<diskVars, deployed>>

\* Faulty variants: the directory is removed although compose failed, and its
\* failure is logged only.
DownFailedButRemove == failed' = TRUE /\ pc' = "rmdir"
DownFailedAndIgnored == pc' = "return" /\ UNCHANGED failed

DownFailed == failed' = TRUE /\ pc' = "return"

ComposeDown ==
  /\ \/ /\ Chosen(workingDir) \in Readable /\ Works
        /\ Undeploy(ProjectOf[Chosen(workingDir)])
        /\ pc' = "rmdir" /\ UNCHANGED <<diskVars, failed>>
     \/ /\ Chosen(workingDir) \notin Readable /\ Works /\ DownFailed
        /\ UNCHANGED <<diskVars, engineVars>>
     \/ Fails("down") /\ DownFailed /\ Partly
  /\ UNCHANGED <<target, artifact, workingDir, result>>

\* That the directory cannot be removed is logged only.
RemoveDir ==
  /\ Goto("return")
  /\ \/ /\ Works
        /\ dirs' = dirs \ {workingDir}
        /\ file' = [file EXCEPT ![workingDir] = [f \in ComposeFile |-> None]]
        /\ version' = [version EXCEPT ![workingDir] = None]
        /\ UNCHANGED engineVars
     \/ Fails("rmdir") /\ Partly

ReturnErrors ==
  /\ Return(IF failed THEN "error" ELSE "ok")
  /\ UNCHANGED <<diskVars, engineVars, faults>>

Step ==
  /\ \/ pc = "mkdir" /\ MakeDir
     \/ pc = "write" /\ WriteFiles
     \/ pc = "read" /\ ReadFiles
     \/ pc = "network" /\ CreateNetwork
     \/ pc = "up" /\ ComposeUp
     \/ pc = "version" /\ WriteVersion
     \/ pc = "find" /\ FindDirectory
     \/ pc = "stop" /\ ComposeStop
     \/ pc = "down" /\ ComposeDown
     \/ pc = "rmdir" /\ RemoveDir
     \/ pc = "return" /\ ReturnErrors
  /\ UNCHANGED kills

-----------------------------------------------------------------------------
(***************************************************************************)
(* The surroundings                                                        *)
(***************************************************************************)

\* The agent stops or the machine restarts during a command.
Kill ==
  /\ pc # "idle"
  /\ kills < MaxKills /\ kills' = kills + 1
  /\ Return("killed")
  /\ Partly
  /\ UNCHANGED faults

\* Containers exit and are started again, at any time.
ExitOrStart(p) ==
  /\ Deployed(p)
  /\ running' \in {running \ {p}, running \cup {p}}
  /\ UNCHANGED <<diskVars, deployed, pc, commandVars, result, faults, kills>>

Next ==
  \/ \E m \in Module, a \in Artifact : Install(m, a)
  \/ \E name \in Project : Remove(name)
  \/ Step
  \/ Kill
  \/ \E p \in Project : ExitOrStart(p)

Spec == Init /\ [][Next]_vars

-----------------------------------------------------------------------------
(***************************************************************************)
(* Properties                                                              *)
(***************************************************************************)

\* A module keeps the name of its project from version to version, and does not
\* name it like another module.
ProjectsStay ==
  \A m \in Module : \A a, b \in Versions[m] :
    ProjectOf[a] = ProjectOf[b] /\ (ProjectOf[a] \in Module => ProjectOf[a] = m)

\* Different modules declare different projects.
ProjectsApart ==
  \A m, n \in Module : \A a \in Versions[m], b \in Versions[n] :
    ProjectOf[a] = ProjectOf[b] => m = n

\* What the containers of a directory are from.
DeployedFrom ==
  [m \in Module |->
     {deployed[p].artifact : p \in {q \in Project : Deployed(q) /\ deployed[q].dir = m}}]

\* An install that reports success leaves the module listed with its version,
\* and containers of that version and no other: the version says "which version
\* of the docker compose file is deployed" (README).  That is so while the versions
\* of a module have one form (FormsStay): a text file that follows an archive with a
\* docker-compose.yml is written beside it, and compose deploys the old one.
VersionIsDeployed ==
  [][pc' = "idle" /\ pc \in Installing /\ result' = "ok" =>
       version'[target] = artifact /\ DeployedFrom'[target] = {artifact}]_vars

\* A removal that reports success leaves no containers that list would show
\* under the name that was removed, or that came from its directory.
RemovedIsGone ==
  [][pc = "return" /\ pc' = "idle" /\ result' = "ok" =>
       \A p \in Project : Deployed(p) => ShownName(p) # target /\ deployed[p].dir # workingDir]_vars

\* Whatever failed and wherever commands were killed: what list shows by its
\* module name can be removed.  Its directory is still there, and the compose
\* file in it, unless an unreadable one was put in its place, is for the project
\* that runs.  The same goes for projects shown by their own name, while they run.
StillRemovable ==
  pc = "idle" =>
    \A p \in Project :
      Deployed(p) /\ (version[deployed[p].dir] # None \/ p \in running) =>
        LET m == Directory(ShownName(p), TRUE)
        IN  /\ m = deployed[p].dir
            /\ Chosen(m) # None
            /\ Chosen(m) \in Readable => ProjectOf[Chosen(m)] = p

\* The name under which a running project is shown leads the log plugin to it:
\* "Resolve it to the actual Docker project label so the container lookup works
\* regardless" (container_group_plugin).
LogsFound ==
  \A p \in Project :
    Deployed(p) /\ p \in running => ResolveComposeProjectName(ShownName(p)) = {p}

\* The entry of a module in what list prints: its version, while containers from
\* its directory are there.  (A project without one is listed by its own name, as
\* the latest version of nothing that was installed.)
Entries ==
  [m \in Module |->
     IF \E p \in Project : Deployed(p) /\ deployed[p].dir = m THEN version[m] ELSE None]

\* The module that a command is on, until the agent has its result, and what for.
On == IF pc = "idle" \/ target \notin Module THEN None ELSE target
Asked == IF pc \in Installing THEN artifact ELSE None

Reported ==
  IF pc # "idle" THEN "none" ELSE IF result = "killed" THEN "error" ELSE result

\* The list as SoftwareList has it: the agent is never misled.
List ==
  INSTANCE SoftwareList
  WITH Version <- Artifact, listed <- Entries, on <- On, asked <- Asked, result <- Reported,
       misled <- FALSE

\* The commands keep the promise of SoftwareList: one that says that it succeeded
\* has left the module as it was asked for, and none touches another module's
\* entry, whatever failed, and wherever one was killed.
KeepsList == List!Spec

=============================================================================
