----------------------- MODULE ContainerGroupProofs -----------------------
(***************************************************************************)
(* Proofs about ContainerGroup, for any number of modules, artifacts,      *)
(* failed calls and killed commands.                                       *)
(*                                                                         *)
(* The properties are about directories and names, and rest on what a      *)
(* directory and the containers started from it have in common: both are   *)
(* from artifacts of one module, which, by ProjectsStay, all declare the   *)
(* same project.  The directory of containers is not removed, as the       *)
(* containers are gone before compose down reports success.                *)
(***************************************************************************)
EXTENDS ContainerGroup, TLAPS

\* The artifacts of a module come in the same form.
FormsStay == \A m \in Module : \A a, b \in Versions[m] : FileOf[a] = FileOf[b]

\* What is in a directory is from its module.
FilesOfModule ==
  \A m \in Module : \A f \in ComposeFile : file[m][f] \in Versions[m] \cup {Torn, None}

\* Containers are from an artifact of the module of their directory, which is
\* there and has a compose file.
ContainersHaveDirectory ==
  \A p \in Project : Deployed(p) =>
    /\ deployed[p].artifact \in Versions[deployed[p].dir]
    /\ ProjectOf[deployed[p].artifact] = p
    /\ deployed[p].dir \in dirs
    /\ Chosen(deployed[p].dir) # None

\* An install has its directory, once made.
InstallHasDirectory == pc \in Installing \ {"mkdir"} => target \in dirs

\* A removal that met no failure works on the directory of its target, and
\* when compose down has succeeded no containers of the directory are left.
RemovalHasTarget ==
  /\ pc \in Removing => target \in Project
  /\ pc \in {"stop", "down", "rmdir", "return"} /\ ~failed =>
       /\ workingDir # None
       /\ target \in Module => workingDir = target
       /\ target \notin Module /\ Deployed(target) => deployed[target].dir = workingDir
DirectoryIsFree ==
  pc = "rmdir" \/ (pc = "return" /\ ~failed) =>
    \A p \in Project : Deployed(p) => deployed[p].dir # workingDir

IInv ==
  /\ TypeOK
  /\ FilesOfModule
  /\ ContainersHaveDirectory
  /\ InstallHasDirectory
  /\ RemovalHasTarget
  /\ DirectoryIsFree

\* A directory has a docker-compose.yml only of a module of that form, and an
\* install the file it has written, and then the containers of that.
OneForm ==
  /\ \A m \in Module : file[m]["yml"] # None => \A a \in Versions[m] : FileOf[a] = "yml"
  /\ pc \in {"read", "network", "up"} => file[target][FileOf[artifact]] = artifact
  /\ pc = "version" => deployed[ProjectOf[artifact]] = [dir |-> target, artifact |-> artifact]

-----------------------------------------------------------------------------
(***************************************************************************)
(* Types                                                                   *)
(***************************************************************************)

DiskTyped ==
  /\ dirs \subseteq Module
  /\ file \in [Module -> [ComposeFile -> OrNone(Artifact)]]
  /\ version \in [Module -> OrNone(Artifact)]
EngineTyped ==
  /\ deployed \in [Project -> OrNone(Containers)]
  /\ running \subseteq Project
CommandTyped ==
  /\ pc \in {"idle"} \cup Installing \cup Removing
  /\ target \in OrNone(Project)
  /\ pc \in Installing => target \in Module /\ artifact \in Versions[target]
  /\ artifact \in OrNone(Artifact)
  /\ workingDir \in OrNone(Module)
  /\ pc \in {"stop", "down", "rmdir"} => workingDir # None
  /\ failed \in BOOLEAN
  /\ result \in {"none", "ok", "error", "killed"}

\* The types, one conjunct at a time.
LEMMA TypeParts ==
  /\ TypeOK <=> DiskTyped /\ EngineTyped /\ CommandTyped /\ faults \in Nat /\ kills \in Nat
  /\ TypeOK' <=> DiskTyped' /\ EngineTyped' /\ CommandTyped' /\ faults' \in Nat /\ kills' \in Nat
BY DEF TypeOK, DiskTyped, EngineTyped, CommandTyped

\* The end of a command keeps the types.
LEMMA ReturnTyped ==
  ASSUME NEW res \in {"ok", "error", "killed"}, Return(res)
  PROVE  CommandTyped'
BY DEF Return, CommandTyped, OrNone, Installing

\* Faults are counted, or not.
LEMMA FaultsTyped ==
  /\ TypeOK /\ Works => faults' \in Nat
  /\ \A call \in Call : TypeOK /\ Fails(call) => faults' \in Nat
BY DEF TypeOK, Works, Fails

\* What compose chooses, and what install reads, is from the directory.
LEMMA ChosenTyped ==
  ASSUME TypeOK, NEW m \in Module
  PROVE  Chosen(m) \in OrNone(Artifact) /\ ReadBack(m) \in OrNone(Artifact)
BY DEF TypeOK, Chosen, ReadBack, ComposeFile

\* Which command is on, and on what.
LEMMA Working ==
  /\ TypeOK /\ pc \in Installing =>
       /\ target \in Module /\ artifact \in Artifact /\ artifact \in Versions[target]
       /\ FileOf[artifact] \in ComposeFile
  /\ TypeOK /\ pc \in {"stop", "down", "rmdir"} => workingDir \in Module
BY GroupAssumption DEF TypeOK, OrNone

\* Creation and removal of containers keep their types.
LEMMA DeployTyped ==
  ASSUME TypeOK, pc = "up", Chosen(target) \in Readable,
         Deploy(ProjectOf[Chosen(target)])
  PROVE  /\ deployed' \in [Project -> OrNone(Containers)]
         /\ ProjectOf[Chosen(target)] \in Project
<1>1. target \in Module
  BY Working DEF Installing
<1>2. Chosen(target) \in Artifact
  BY GroupAssumption
<1>3. [dir |-> target, artifact |-> Chosen(target)] \in Containers
  BY <1>1, <1>2 DEF Containers
<1>4. ProjectOf[Chosen(target)] \in Project
  BY <1>2, GroupAssumption
<1> QED
  BY <1>3, <1>4 DEF Deploy, TypeOK, OrNone

\* So does taking a project away.
LEMMA UndeployTyped ==
  ASSUME TypeOK, NEW p, Undeploy(p)
  PROVE  EngineTyped'
BY DEF Undeploy, TypeOK, EngineTyped, OrNone

\* Files are written, or put away, in one directory.
LEMMA WrittenTyped ==
  ASSUME TypeOK, pc = "write"
  PROVE  /\ Written \in [Module -> [ComposeFile -> OrNone(Artifact)]]
         /\ HalfWritten \subseteq [Module -> [ComposeFile -> OrNone(Artifact)]]
<1> DEFINE T == [Module -> [ComposeFile -> OrNone(Artifact)]]
<1>1. target \in Module /\ artifact \in Artifact /\ FileOf[artifact] \in ComposeFile
  BY Working DEF Installing
<1>2. ASSUME NEW f \in T, NEW g \in ComposeFile, NEW a \in Artifact
      PROVE  [f EXCEPT ![target][g] = a] \in T
  BY <1>1, <1>2 DEF OrNone
<1>3. file \in T /\ Torn \in Artifact /\ "yaml" \in ComposeFile
  BY GroupAssumption DEF TypeOK, ComposeFile
<1> HIDE DEF T
<1>4. Written \in T
  BY <1>1, <1>2, <1>3 DEF Written
<1>5. HalfWritten \subseteq T
  BY <1>1, <1>2, <1>3, <1>4 DEF HalfWritten
<1> QED
  BY <1>4, <1>5 DEF T

\* So does a removal cut short.
LEMMA HalfRemovedTyped ==
  ASSUME TypeOK, pc = "rmdir"
  PROVE  HalfRemoved \subseteq [Module -> [ComposeFile -> OrNone(Artifact)]]
<1>1. workingDir \in Module
  BY Working
<1>2. ASSUME NEW h \in HalfRemoved
      PROVE  h \in [Module -> [ComposeFile -> OrNone(Artifact)]]
  <2>1. PICK left \in SUBSET ComposeFile :
          h = [file EXCEPT ![workingDir] =
                 [f \in ComposeFile |-> IF f \in left THEN @[f] ELSE None]]
    BY <1>2 DEF HalfRemoved
  <2> DEFINE rest == [f \in ComposeFile |-> IF f \in left THEN file[workingDir][f] ELSE None]
  <2>2. rest \in [ComposeFile -> OrNone(Artifact)]
    BY <1>1 DEF TypeOK, OrNone
  <2>3. h = [file EXCEPT ![workingDir] = rest]
    BY <2>1
  <2> HIDE DEF rest
  <2> QED
    BY <2>2, <2>3 DEF TypeOK
<1> QED
  BY <1>2

\* So does what a killed command leaves.
LEMMA PartlyTyped ==
  ASSUME TypeOK, Partly
  PROVE  DiskTyped' /\ EngineTyped'
<1> USE DEF DiskTyped, EngineTyped
<1>1. CASE UNCHANGED <<diskVars, engineVars>>
  BY <1>1 DEF TypeOK, diskVars, engineVars
<1>2. CASE pc = "write" /\ file' \in HalfWritten /\ UNCHANGED <<dirs, version, engineVars>>
  BY <1>2, WrittenTyped DEF TypeOK, engineVars
<1>3. CASE /\ pc = "up" /\ Chosen(target) \in Readable
           /\ Deploy(ProjectOf[Chosen(target)])
           /\ running' = running \ {ProjectOf[Chosen(target)]}
           /\ UNCHANGED diskVars
  BY <1>3, DeployTyped DEF TypeOK, diskVars
<1>4. CASE /\ pc = "version" /\ version' = [version EXCEPT ![target] = None]
           /\ UNCHANGED <<dirs, file, engineVars>>
  BY <1>4 DEF TypeOK, engineVars, OrNone
<1>5. CASE Undeploy(ProjectOf[Chosen(workingDir)]) /\ UNCHANGED diskVars
  BY <1>5, UndeployTyped DEF TypeOK, diskVars
<1>6. CASE /\ pc = "rmdir" /\ file' \in HalfRemoved
           /\ version' \in {version, [version EXCEPT ![workingDir] = None]}
           /\ UNCHANGED <<dirs, engineVars>>
  BY <1>6, HalfRemovedTyped DEF TypeOK, engineVars, OrNone
<1> QED
  BY <1>1, <1>2, <1>3, <1>4, <1>5, <1>6 DEF Partly

\* So does a call that ends the command when it fails.
LEMMA OrReturnTyped ==
  ASSUME TypeOK, NEW call \in Call, OrReturn(call), UNCHANGED kills
  PROVE  TypeOK'
<1>1. DiskTyped' /\ EngineTyped'
  BY PartlyTyped DEF OrReturn
<1>2. CommandTyped'
  BY ReturnTyped DEF OrReturn
<1>3. faults' \in Nat /\ kills' \in Nat
  BY FaultsTyped DEF OrReturn, TypeOK
<1> QED
  BY <1>1, <1>2, <1>3, TypeParts

\* A step of install that goes on to the next.
LEMMA GotoTyped ==
  ASSUME TypeOK, NEW step, Goto(step), Works, UNCHANGED kills,
         DiskTyped', EngineTyped',
         \/ pc \in Installing /\ step \in Installing
         \/ pc \in {"stop", "down", "rmdir"} /\ step \in {"stop", "down", "rmdir", "return"}
  PROVE  TypeOK'
<1>1. CommandTyped'
  BY DEF TypeOK, Goto, commandVars, CommandTyped, Installing, Removing
<1>2. faults' \in Nat /\ kills' \in Nat
  BY DEF Works, TypeOK
<1> QED
  BY <1>1, <1>2, TypeParts

\* The steps of install keep the types.
LEMMA InstallTyped ==
  ASSUME TypeOK, UNCHANGED kills,
         \/ pc = "mkdir" /\ MakeDir
         \/ pc = "write" /\ WriteFiles
         \/ pc = "read" /\ ReadFiles
         \/ pc = "network" /\ CreateNetwork
         \/ pc = "up" /\ ComposeUp
         \/ pc = "version" /\ WriteVersion
  PROVE  TypeOK'
<1> USE DEF Installing, Call
<1>1. CASE pc = "mkdir" /\ MakeDir
  <2>1. CASE Works /\ dirs' = dirs \cup {target} /\ Goto("write")
             /\ UNCHANGED <<file, version, engineVars>>
    <3>1. DiskTyped' /\ EngineTyped'
      BY <1>1, <2>1, Working DEF TypeOK, DiskTyped, EngineTyped, engineVars
    <3> QED
      BY <1>1, <2>1, <3>1, GotoTyped
  <2> QED
    BY <1>1, <2>1, OrReturnTyped DEF MakeDir
<1>2. CASE pc = "write" /\ WriteFiles
  <2>1. CASE Works /\ Goto("read") /\ file' = Written
             /\ UNCHANGED <<dirs, version, engineVars>>
    <3>1. DiskTyped' /\ EngineTyped'
      BY <1>2, <2>1, WrittenTyped DEF TypeOK, DiskTyped, EngineTyped, engineVars
    <3> QED
      BY <1>2, <2>1, <3>1, GotoTyped
  <2> QED
    BY <1>2, <2>1, OrReturnTyped DEF WriteFiles
<1>3. CASE pc = "read" /\ ReadFiles
  <2>1. DiskTyped' /\ EngineTyped' /\ Works
    BY <1>3 DEF ReadFiles, TypeOK, DiskTyped, EngineTyped, diskVars, engineVars, Works
  <2>2. CASE Goto("network")
    BY <1>3, <2>1, <2>2, GotoTyped
  <2>3. CASE Return("error")
    BY <2>1, <2>3, ReturnTyped, FaultsTyped, TypeParts
  <2> QED
    BY <1>3, <2>2, <2>3 DEF ReadFiles
<1>4. CASE pc = "network" /\ CreateNetwork
  <2>1. CASE Works /\ Goto("up") /\ UNCHANGED <<diskVars, engineVars>>
    <3>1. DiskTyped' /\ EngineTyped'
      BY <2>1 DEF TypeOK, DiskTyped, EngineTyped, diskVars, engineVars
    <3> QED
      BY <1>4, <2>1, <3>1, GotoTyped
  <2> QED
    BY <1>4, <2>1, OrReturnTyped DEF CreateNetwork
<1>5. CASE pc = "up" /\ ComposeUp
  <2>1. CASE /\ Chosen(target) \in Readable /\ Works
             /\ Deploy(ProjectOf[Chosen(target)])
             /\ running' = running \cup {ProjectOf[Chosen(target)]}
             /\ Goto("version")
             /\ UNCHANGED diskVars
    <3>1. DiskTyped' /\ EngineTyped'
      BY <1>5, <2>1, DeployTyped DEF TypeOK, DiskTyped, EngineTyped, diskVars
    <3> QED
      BY <1>5, <2>1, <3>1, GotoTyped
  <2>2. CASE Works /\ Return("error") /\ UNCHANGED <<diskVars, engineVars>>
    <3>1. DiskTyped' /\ EngineTyped'
      BY <2>2 DEF TypeOK, DiskTyped, EngineTyped, diskVars, engineVars
    <3> QED
      BY <2>2, <3>1, ReturnTyped, FaultsTyped, TypeParts
  <2> QED
    BY <1>5, <2>1, <2>2, OrReturnTyped DEF ComposeUp
<1>6. CASE pc = "version" /\ WriteVersion
  <2>1. CASE Works /\ Return("ok") /\ version' = [version EXCEPT ![target] = artifact]
             /\ UNCHANGED <<dirs, file, engineVars>>
    <3>1. DiskTyped' /\ EngineTyped'
      BY <1>6, <2>1, Working DEF TypeOK, DiskTyped, EngineTyped, engineVars, OrNone
    <3> QED
      BY <2>1, <3>1, ReturnTyped, FaultsTyped, TypeParts
  <2> QED
    BY <1>6, <2>1, OrReturnTyped DEF WriteVersion
<1> QED
  BY <1>1, <1>2, <1>3, <1>4, <1>5, <1>6

\* The steps of remove keep the types.
LEMMA RemoveTyped ==
  ASSUME TypeOK, UNCHANGED kills,
         \/ pc = "find" /\ FindDirectory
         \/ pc = "stop" /\ ComposeStop
         \/ pc = "down" /\ ComposeDown
         \/ pc = "rmdir" /\ RemoveDir
         \/ pc = "return" /\ ReturnErrors
  PROVE  TypeOK'
<1> USE DEF Removing, Call
<1>1. CASE pc = "find" /\ FindDirectory
  <2>1. PICK found \in BOOLEAN :
          /\ IF found THEN Works ELSE Fails("list")
          /\ workingDir' = Directory(target, found)
          /\ failed' = (~found \/ workingDir' = None)
    BY <1>1 DEF FindDirectory
  <2>2. workingDir' \in OrNone(Module)
    <3>1. CASE found /\ target \in running /\ Deployed(target) /\ deployed[target].dir \in dirs
      BY <2>1, <3>1 DEF Directory, TypeOK, OrNone
    <3>2. CASE ~(found /\ target \in running /\ Deployed(target) /\ deployed[target].dir \in dirs)
      BY <2>1, <3>2 DEF Directory, TypeOK, OrNone
    <3> QED
      BY <3>1, <3>2
  <2>3. CommandTyped'
    BY <1>1, <2>1, <2>2 DEF FindDirectory, GoOn, TypeOK, CommandTyped, Installing
  <2>4. DiskTyped' /\ EngineTyped'
    BY <1>1 DEF FindDirectory, TypeOK, DiskTyped, EngineTyped, diskVars, engineVars
  <2>5. faults' \in Nat /\ kills' \in Nat
    BY <2>1, FaultsTyped DEF TypeOK
  <2> QED
    BY <2>3, <2>4, <2>5, TypeParts
<1>2. CASE pc = "stop" /\ ComposeStop
  <2>1. DiskTyped' /\ EngineTyped'
    BY <1>2 DEF ComposeStop, TypeOK, DiskTyped, EngineTyped, diskVars
  <2>2. CommandTyped'
    BY <1>2 DEF ComposeStop, Goto, commandVars, TypeOK, CommandTyped, Installing
  <2>3. faults' \in Nat /\ kills' \in Nat
    BY <1>2, FaultsTyped DEF ComposeStop, TypeOK
  <2> QED
    BY <2>1, <2>2, <2>3, TypeParts
<1>3. CASE pc = "down" /\ ComposeDown
  <2>1. CASE /\ Undeploy(ProjectOf[Chosen(workingDir)]) /\ Works
             /\ pc' = "rmdir" /\ UNCHANGED <<diskVars, failed>>
    <3>1. DiskTyped' /\ EngineTyped'
      BY <2>1, UndeployTyped DEF TypeOK, DiskTyped, diskVars
    <3>2. CommandTyped'
      BY <1>3, <2>1 DEF ComposeDown, TypeOK, CommandTyped, Installing
    <3> QED
      BY <2>1, <3>1, <3>2, FaultsTyped, TypeParts
  <2>2. CASE /\ Works /\ DownFailed /\ UNCHANGED <<diskVars, engineVars>>
    <3>1. DiskTyped' /\ EngineTyped'
      BY <2>2 DEF TypeOK, DiskTyped, EngineTyped, diskVars, engineVars
    <3>2. CommandTyped'
      BY <1>3, <2>2 DEF ComposeDown, DownFailed, TypeOK, CommandTyped, Installing
    <3> QED
      BY <2>2, <3>1, <3>2, FaultsTyped, TypeParts
  <2>3. CASE Fails("down") /\ DownFailed /\ Partly
    <3>1. CommandTyped'
      BY <1>3, <2>3 DEF ComposeDown, DownFailed, TypeOK, CommandTyped, Installing
    <3> QED
      BY <2>3, <3>1, PartlyTyped, FaultsTyped, TypeParts
  <2> QED
    BY <1>3, <2>1, <2>2, <2>3 DEF ComposeDown
<1>4. CASE pc = "rmdir" /\ RemoveDir
  <2>1. CommandTyped'
    BY <1>4 DEF RemoveDir, Goto, commandVars, TypeOK, CommandTyped, Installing
  <2>2. DiskTyped' /\ EngineTyped' /\ faults' \in Nat
    <3>1. CASE Fails("rmdir") /\ Partly
      BY <3>1, PartlyTyped, FaultsTyped
    <3>2. CASE /\ Works
               /\ dirs' = dirs \ {workingDir}
               /\ file' = [file EXCEPT ![workingDir] = [f \in ComposeFile |-> None]]
               /\ version' = [version EXCEPT ![workingDir] = None]
               /\ UNCHANGED engineVars
      <4>1. [f \in ComposeFile |-> None] \in [ComposeFile -> OrNone(Artifact)]
        BY DEF OrNone
      <4> QED
        BY <3>2, <4>1, FaultsTyped DEF TypeOK, DiskTyped, EngineTyped, engineVars, OrNone
    <3> QED
      BY <1>4, <3>1, <3>2 DEF RemoveDir
  <2> QED
    BY <2>1, <2>2, TypeParts DEF TypeOK
<1>5. CASE pc = "return" /\ ReturnErrors
  <2>1. DiskTyped' /\ EngineTyped' /\ faults' \in Nat
    BY <1>5 DEF ReturnErrors, TypeOK, DiskTyped, EngineTyped, diskVars, engineVars
  <2>2. CommandTyped'
    BY <1>5, ReturnTyped DEF ReturnErrors
  <2> QED
    BY <2>1, <2>2, TypeParts DEF TypeOK
<1> QED
  BY <1>1, <1>2, <1>3, <1>4, <1>5

\* The initial states have the types.
LEMMA TypeInit == Init => TypeOK
<1> SUFFICES ASSUME Init PROVE TypeOK
  OBVIOUS
<1> DEFINE empty == [f \in ComposeFile |-> None]
<1>1. empty \in [ComposeFile -> OrNone(Artifact)]
  BY DEF OrNone
<1>2. file = [m \in Module |-> empty]
  BY DEF Init
<1> HIDE DEF empty
<1>3. file \in [Module -> [ComposeFile -> OrNone(Artifact)]]
  BY <1>1, <1>2
<1>4. /\ dirs = {} /\ running = {}
      /\ version = [m \in Module |-> None] /\ deployed = [p \in Project |-> None]
      /\ pc = "idle" /\ target = None /\ artifact = None /\ workingDir = None
      /\ failed = FALSE /\ result = "none" /\ faults = 0 /\ kills = 0
  BY Zenon DEF Init
<1> QED
  BY <1>3, <1>4 DEF TypeOK, OrNone, Installing

\* Every step keeps them.
LEMMA TypeStep == TypeOK /\ [Next]_vars => TypeOK'
<1> SUFFICES ASSUME TypeOK, [Next]_vars PROVE TypeOK'
  OBVIOUS
<1>1. CASE UNCHANGED vars
  BY <1>1 DEF TypeOK, vars, diskVars, engineVars, commandVars
<1>2. ASSUME NEW m \in Module, NEW a \in Artifact, Install(m, a) PROVE TypeOK'
  BY <1>2, GroupAssumption
  DEF Install, TypeOK, diskVars, engineVars, OrNone, Installing, Removing
<1>3. ASSUME NEW name \in Project, Remove(name) PROVE TypeOK'
  BY <1>3 DEF Remove, TypeOK, diskVars, engineVars, OrNone, Installing, Removing
<1>4. CASE Step
  BY <1>4, InstallTyped, RemoveTyped DEF Step
<1>5. CASE Kill
  BY <1>5, PartlyTyped, ReturnTyped, TypeParts DEF Kill, TypeOK
<1>6. ASSUME NEW p \in Project, ExitOrStart(p) PROVE TypeOK'
  BY <1>6 DEF ExitOrStart, TypeOK, diskVars, commandVars
<1> QED
  BY <1>1, <1>2, <1>3, <1>4, <1>5, <1>6 DEF Next

\* The commands, the directories they work on and the containers they start
\* keep their types.
THEOREM TypeCorrect == Spec => []TypeOK
BY TypeInit, TypeStep, PTL DEF Spec

-----------------------------------------------------------------------------
(***************************************************************************)
(* Directories and containers                                              *)
(***************************************************************************)

\* What a step does to directories, files and containers is told by pc.
LEMMA StepEffects ==
  ASSUME TypeOK, [Next]_vars
  PROVE  /\ \/ file' = file
            \/ pc = "write" /\ file' \in {Written} \cup HalfWritten
            \/ pc = "rmdir" /\ file' \in HalfRemoved
         /\ \/ dirs' = dirs
            \/ pc = "mkdir" /\ dirs' = dirs \cup {target}
            \/ pc = "rmdir" /\ dirs' = dirs \ {workingDir}
         /\ \/ deployed' = deployed
            \/ pc = "up" /\ Chosen(target) \in Readable /\ Deploy(ProjectOf[Chosen(target)])
            \/ /\ pc = "down" /\ Chosen(workingDir) \in Readable
               /\ Undeploy(ProjectOf[Chosen(workingDir)])
<1> DEFINE Goal ==
      /\ \/ file' = file
         \/ pc = "write" /\ file' \in {Written} \cup HalfWritten
         \/ pc = "rmdir" /\ file' \in HalfRemoved
      /\ \/ dirs' = dirs
         \/ pc = "mkdir" /\ dirs' = dirs \cup {target}
         \/ pc = "rmdir" /\ dirs' = dirs \ {workingDir}
      /\ \/ deployed' = deployed
         \/ pc = "up" /\ Chosen(target) \in Readable /\ Deploy(ProjectOf[Chosen(target)])
         \/ /\ pc = "down" /\ Chosen(workingDir) \in Readable
            /\ Undeploy(ProjectOf[Chosen(workingDir)])
<1> SUFFICES Goal
  OBVIOUS
<1>1. UNCHANGED <<diskVars, engineVars>> => Goal
  BY DEF diskVars, engineVars
<1>2. Partly => Goal
  BY <1>1 DEF Partly, diskVars, engineVars
<1>3. CASE Step
  <2>1. pc = "mkdir" /\ MakeDir => Goal
    BY <1>2 DEF MakeDir, OrReturn, engineVars
  <2>2. pc = "write" /\ WriteFiles => Goal
    BY <1>2 DEF WriteFiles, OrReturn, engineVars
  <2>3. pc = "read" /\ ReadFiles => Goal
    BY <1>1 DEF ReadFiles
  <2>4. pc = "network" /\ CreateNetwork => Goal
    BY <1>1, <1>2 DEF CreateNetwork, OrReturn
  <2>5. pc = "up" /\ ComposeUp => Goal
    BY <1>1, <1>2 DEF ComposeUp, OrReturn, diskVars
  <2>6. pc = "version" /\ WriteVersion => Goal
    BY <1>2 DEF WriteVersion, OrReturn, engineVars
  <2>7. pc = "find" /\ FindDirectory => Goal
    BY <1>1 DEF FindDirectory
  <2>8. pc = "stop" /\ ComposeStop => Goal
    BY DEF ComposeStop, diskVars
  <2>9. pc = "down" /\ ComposeDown => Goal
    BY <1>1, <1>2 DEF ComposeDown, diskVars
  <2>10. pc = "rmdir" /\ RemoveDir => Goal
    <3>1. CASE Fails("rmdir") /\ Partly
      BY <1>2, <3>1
    <3>2. ASSUME pc = "rmdir", dirs' = dirs \ {workingDir},
                 file' = [file EXCEPT ![workingDir] = [f \in ComposeFile |-> None]],
                 UNCHANGED engineVars
          PROVE  Goal
      <4> DEFINE rest(left) ==
            [f \in ComposeFile |-> IF f \in left THEN file[workingDir][f] ELSE None]
      <4>1. rest({}) = [f \in ComposeFile |-> None]
        OBVIOUS
      <4>2. HalfRemoved = {[file EXCEPT ![workingDir] = rest(left)] : left \in SUBSET ComposeFile}
        BY Zenon DEF HalfRemoved
      <4>3. file' = [file EXCEPT ![workingDir] = rest({})]
        BY <3>2, <4>1
      <4> HIDE DEF rest
      <4>4. file' \in HalfRemoved
        BY <4>2, <4>3
      <4> QED
        BY <3>2, <4>4 DEF engineVars
    <3> QED
      BY <3>1, <3>2 DEF RemoveDir
  <2>11. pc = "return" /\ ReturnErrors => Goal
    BY <1>1 DEF ReturnErrors
  <2> HIDE DEF Goal
  <2> QED
    BY <1>3, <2>1, <2>2, <2>3, <2>4, <2>5, <2>6, <2>7, <2>8, <2>9, <2>10, <2>11 DEF Step
<1>4. CASE Kill
  BY <1>2, <1>4 DEF Kill
<1>5. CASE \/ \E m \in Module, a \in Artifact : Install(m, a)
           \/ \E name \in Project : Remove(name)
           \/ \E p \in Project : ExitOrStart(p)
           \/ UNCHANGED vars
  BY <1>5 DEF Install, Remove, ExitOrStart, vars, diskVars, engineVars
<1> HIDE DEF Goal
<1> QED
  BY <1>3, <1>4, <1>5 DEF Next

\* Writing touches the file of the artifact and docker-compose.yaml, and takes
\* no file away; removing only takes files away.
LEMMA WrittenFrom ==
  ASSUME TypeOK, pc = "write", NEW h \in {Written} \cup HalfWritten,
         NEW m \in Module, NEW f \in ComposeFile
  PROVE  \/ h[m][f] = file[m][f]
         \/ /\ m = target /\ h[m][f] \in {artifact, Torn}
            /\ f \in {FileOf[artifact], "yaml"}
<1>1. target \in Module /\ FileOf[artifact] \in ComposeFile /\ "yaml" \in ComposeFile
  BY Working DEF Installing, ComposeFile
<1>2. /\ file \in [Module -> [ComposeFile -> OrNone(Artifact)]]
      /\ Written \in [Module -> [ComposeFile -> OrNone(Artifact)]]
  BY WrittenTyped DEF TypeOK
<1>3. \/ Written[m][f] = file[m][f]
      \/ m = target /\ Written[m][f] = artifact /\ f = FileOf[artifact]
  BY <1>1, <1>2 DEF Written
<1>4. ASSUME NEW g \in [Module -> [ComposeFile -> OrNone(Artifact)]], NEW e \in ComposeFile,
             h = [g EXCEPT ![target][e] = Torn]
      PROVE  h[m][f] = g[m][f] \/ (m = target /\ f = e /\ h[m][f] = Torn)
  BY <1>1, <1>4
<1>5. \/ h = Written
      \/ h = [file EXCEPT ![target][FileOf[artifact]] = Torn]
      \/ h = [file EXCEPT ![target]["yaml"] = Torn]
      \/ h = [Written EXCEPT ![target]["yaml"] = Torn]
  BY DEF HalfWritten
<1> QED
  BY <1>1, <1>2, <1>3, <1>4, <1>5

\* What is left of a directory is from the directory.
LEMMA LeftFrom ==
  ASSUME TypeOK, pc = "rmdir", NEW h \in HalfRemoved,
         NEW m \in Module, NEW f \in ComposeFile
  PROVE  h[m][f] = file[m][f] \/ (m = workingDir /\ h[m][f] = None)
<1>1. PICK left \in SUBSET ComposeFile :
        h = [file EXCEPT ![workingDir] =
               [g \in ComposeFile |-> IF g \in left THEN @[g] ELSE None]]
  BY DEF HalfRemoved
<1>2. workingDir \in Module
  BY Working
<1> QED
  BY <1>1, <1>2 DEF TypeOK

\* Every step keeps files from their module.
LEMMA FilesStep == TypeOK /\ FilesOfModule /\ [Next]_vars => FilesOfModule'
<1> SUFFICES ASSUME TypeOK, FilesOfModule, [Next]_vars,
                    NEW m \in Module, NEW f \in ComposeFile
             PROVE  file'[m][f] \in Versions[m] \cup {Torn, None}
  BY DEF FilesOfModule
<1>1. file[m][f] \in Versions[m] \cup {Torn, None}
  BY DEF FilesOfModule
<1>2. CASE pc = "write" /\ file' \in {Written} \cup HalfWritten
  <2>1. artifact \in Versions[target]
    BY <1>2, Working DEF Installing
  <2> QED
    BY <1>1, <1>2, <2>1, WrittenFrom
<1>3. CASE pc = "rmdir" /\ file' \in HalfRemoved
  BY <1>1, <1>3, LeftFrom
<1> QED
  BY <1>1, <1>2, <1>3, StepEffects

\* A readable file is from an artifact of the module.
LEMMA ReadableIsOwn ==
  ASSUME TypeOK, FilesOfModule, NEW m \in Module, Chosen(m) \in Readable
  PROVE  Chosen(m) \in Versions[m] /\ Chosen(m) \in Artifact
BY GroupAssumption DEF FilesOfModule, Chosen, ComposeFile

\* A directory with a compose file has one after it was written to.
LEMMA StillChosen ==
  ASSUME TypeOK, pc = "write", file' \in {Written} \cup HalfWritten,
         NEW m \in Module, Chosen(m) # None
  PROVE  Chosen(m)' # None
<1>1. artifact # None /\ Torn # None
  BY Working, GroupAssumption DEF Installing
<1>2. \A f \in ComposeFile : file[m][f] # None => file'[m][f] # None
  BY <1>1, WrittenFrom
<1> QED
  BY <1>2 DEF Chosen, ComposeFile

\* Containers keep their directory, with a compose file.
LEMMA ContainersStep ==
  ASSUME TypeOK, FilesOfModule, ContainersHaveDirectory, InstallHasDirectory,
         DirectoryIsFree, [Next]_vars
  PROVE  ContainersHaveDirectory'
<1> SUFFICES ASSUME NEW p \in Project, Deployed(p)'
             PROVE  /\ deployed'[p].artifact \in Versions[deployed'[p].dir]
                    /\ ProjectOf[deployed'[p].artifact] = p
                    /\ deployed'[p].dir \in dirs'
                    /\ Chosen(deployed[p].dir)' # None
  BY DEF ContainersHaveDirectory
<1> USE DEF Deployed
<1>1. ASSUME deployed'[p] = deployed[p]
      PROVE  /\ deployed[p].artifact \in Versions[deployed[p].dir]
             /\ ProjectOf[deployed[p].artifact] = p
             /\ deployed[p].dir \in dirs
             /\ Chosen(deployed[p].dir) # None
             /\ deployed[p].dir \in Module
  BY <1>1 DEF ContainersHaveDirectory, TypeOK
<1>2. CASE file' = file /\ dirs \subseteq dirs' /\ deployed'[p] = deployed[p]
  BY <1>1, <1>2 DEF Chosen
<1>3. CASE pc = "write" /\ file' \in {Written} \cup HalfWritten /\ dirs' = dirs
           /\ deployed'[p] = deployed[p]
  BY <1>1, <1>3, StillChosen
<1>4. CASE pc = "rmdir" /\ deployed'[p] = deployed[p]
  <2>1. deployed[p].dir # workingDir
    BY <1>4 DEF DirectoryIsFree
  <2>2. deployed[p].dir \in dirs'
    BY <1>1, <1>4, <2>1, StepEffects
  <2>3. \A f \in ComposeFile : file'[deployed[p].dir][f] = file[deployed[p].dir][f]
    BY <1>1, <1>4, <2>1, LeftFrom, StepEffects
  <2> QED
    BY <1>1, <1>4, <2>2, <2>3 DEF Chosen, ComposeFile
<1>5. CASE /\ pc = "up" /\ Chosen(target) \in Readable /\ p = ProjectOf[Chosen(target)]
           /\ Deploy(p) /\ file' = file /\ dirs' = dirs
  <2>1. deployed'[p] = [dir |-> target, artifact |-> Chosen(target)]
    BY <1>5 DEF Deploy, TypeOK
  <2>2. target \in Module /\ target \in dirs
    BY <1>5, Working DEF InstallHasDirectory, Installing
  <2>3. Chosen(target) \in Versions[target] /\ Chosen(target) # None
    BY <1>5, <2>2, ReadableIsOwn, GroupAssumption
  <2> QED
    BY <1>5, <2>1, <2>2, <2>3 DEF Chosen
<1>6. CASE pc = "up" /\ file' = file /\ dirs' = dirs
  BY <1>2, <1>5, <1>6, StepEffects DEF Deploy, TypeOK
<1>7. CASE pc = "down" /\ file' = file /\ dirs' = dirs
  <2>1. deployed'[p] = deployed[p]
    BY <1>7, StepEffects DEF Undeploy, TypeOK
  <2> QED
    BY <1>2, <1>7, <2>1
<1> QED
  BY <1>2, <1>3, <1>4, <1>6, <1>7, StepEffects

\* Every step keeps the directory of an install.
LEMMA InstallDirectoryStep ==
  TypeOK /\ InstallHasDirectory /\ [Next]_vars => InstallHasDirectory'
<1> SUFFICES ASSUME TypeOK, InstallHasDirectory, [Next]_vars, pc' \in Installing \ {"mkdir"}
             PROVE  target' \in dirs'
  BY DEF InstallHasDirectory
<1> USE DEF Installing
<1>1. CASE pc \in Installing \ {"mkdir"} /\ target' = target
  BY <1>1, StepEffects DEF InstallHasDirectory
<1>2. CASE pc = "mkdir" /\ MakeDir
  BY <1>2 DEF MakeDir, Goto, commandVars, OrReturn, Return
<1>3. CASE Step
  <2>1. CASE pc \in Installing
    BY <1>1, <1>2, <1>3, <2>1
    DEF Step, WriteFiles, ReadFiles, CreateNetwork, ComposeUp, WriteVersion, Goto,
        commandVars, OrReturn, Return
  <2>2. CASE pc \in Removing
    BY <1>3, <2>2
    DEF Step, FindDirectory, ComposeStop, ComposeDown, DownFailed, RemoveDir,
        ReturnErrors, GoOn, Goto, Return, Removing
  <2> QED
    BY <1>3, <2>1, <2>2 DEF Step, Removing
<1>4. CASE UNCHANGED <<pc, commandVars>>
  BY <1>1, <1>4 DEF commandVars
<1> QED
  BY <1>3, <1>4 DEF Next, vars, Install, Remove, Kill, Return, ExitOrStart, commandVars

\* Of the projects of which containers are in a directory, only that of the
\* module may be called like a module.
LEMMA DefaultProject ==
  ASSUME ProjectsStay, TypeOK, ContainersHaveDirectory, NEW p \in Project, Deployed(p)
  PROVE  /\ deployed[p].dir \in Module
         /\ p \in Module => deployed[p].dir = p
BY DEF ProjectsStay, ContainersHaveDirectory, TypeOK, Deployed, OrNone, Containers

\* All containers of a directory are of one project, also that of its file.
LEMMA OneProject ==
  ASSUME ProjectsStay, TypeOK, FilesOfModule, ContainersHaveDirectory,
         NEW p \in Project, Deployed(p)
  PROVE  /\ \A q \in Project : Deployed(q) /\ deployed[q].dir = deployed[p].dir => q = p
         /\ Chosen(deployed[p].dir) \in Readable => ProjectOf[Chosen(deployed[p].dir)] = p
<1> DEFINE d == deployed[p].dir
<1>1. d \in Module /\ deployed[p].artifact \in Versions[d] /\ ProjectOf[deployed[p].artifact] = p
  BY DefaultProject DEF ContainersHaveDirectory
<1>2. ASSUME NEW q \in Project, Deployed(q), deployed[q].dir = d
      PROVE  q = p
  BY <1>1, <1>2 DEF ContainersHaveDirectory, ProjectsStay
<1>3. ASSUME Chosen(d) \in Readable
      PROVE  ProjectOf[Chosen(d)] = p
  BY <1>1, <1>3, ReadableIsOwn DEF ProjectsStay
<1> QED
  BY <1>2, <1>3

\* Every step keeps the directory of a removal.
LEMMA RemovalTargetStep ==
  ASSUME ProjectsStay, IInv, [Next]_vars
  PROVE  RemovalHasTarget'
<1> USE DEF IInv, Removing
<1>1. CASE /\ pc \in {"stop", "down", "rmdir", "return"}
           /\ target' = target /\ workingDir' = workingDir /\ (failed => failed')
  <2>1. target \in Project /\ target' \in Project
    BY <1>1 DEF RemovalHasTarget
  <2>2. Deployed(target)' => Deployed(target) /\ deployed'[target] = deployed[target]
    BY <1>1, <2>1, StepEffects DEF Deployed, Undeploy, TypeOK
  <2> QED
    BY <1>1, <2>1, <2>2 DEF RemovalHasTarget
<1>2. CASE pc = "find" /\ FindDirectory
  <2>1. target' = target /\ target \in Project /\ deployed' = deployed
    BY <1>2 DEF FindDirectory, RemovalHasTarget, engineVars
  <2>2. ASSUME ~failed'
        PROVE  workingDir' # None /\ workingDir' = Directory(target, TRUE)
    BY <1>2, <2>2 DEF FindDirectory
  <2>3. ASSUME ~failed', target \in Module
        PROVE  workingDir' = target
    <3>1. CASE target \in running /\ Deployed(target) /\ deployed[target].dir \in dirs
      BY <2>1, <2>2, <2>3, <3>1, DefaultProject DEF Directory
    <3>2. CASE ~(target \in running /\ Deployed(target) /\ deployed[target].dir \in dirs)
      BY <2>2, <2>3, <3>2 DEF Directory
    <3> QED
      BY <3>1, <3>2
  <2>4. ASSUME ~failed', target \notin Module, Deployed(target)
        PROVE  deployed[target].dir = workingDir'
    BY <2>2, <2>4 DEF Directory, TypeOK
  <2> QED
    BY <2>1, <2>2, <2>3, <2>4 DEF RemovalHasTarget, Deployed
<1>3. CASE Step
  <2>1. CASE pc \in {"stop", "down", "rmdir"}
    BY <1>1, <1>3, <2>1
    DEF Step, ComposeStop, ComposeDown, DownFailed, RemoveDir, Goto, commandVars
  <2>2. CASE pc \in Installing \cup {"return"}
    BY <1>3, <2>2
    DEF Step, MakeDir, WriteFiles, ReadFiles, CreateNetwork, ComposeUp, WriteVersion,
        ReturnErrors, Goto, OrReturn, Return, Installing, RemovalHasTarget
  <2> QED
    BY <1>2, <1>3, <2>1, <2>2 DEF Step, Installing
<1>4. CASE \E name \in Project : Remove(name)
  BY <1>4 DEF Remove, RemovalHasTarget
<1>5. CASE (\E m \in Module, a \in Artifact : Install(m, a)) \/ Kill
  BY <1>5 DEF Install, Kill, Return, RemovalHasTarget
<1>6. CASE (\E p \in Project : ExitOrStart(p)) \/ UNCHANGED vars
  <2>1. UNCHANGED <<pc, commandVars, deployed>>
    BY <1>6 DEF ExitOrStart, vars, engineVars
  <2> QED
    BY <2>1 DEF commandVars, RemovalHasTarget, Deployed
<1> QED
  BY <1>3, <1>4, <1>5, <1>6 DEF Next

\* Every step keeps a directory free that is about to be removed.
LEMMA DirectoryFreeStep ==
  ASSUME ProjectsStay, IInv, [Next]_vars
  PROVE  DirectoryIsFree'
<1> USE DEF IInv, Removing
<1> SUFFICES ASSUME pc' = "rmdir" \/ (pc' = "return" /\ ~failed'),
                    NEW p \in Project, Deployed(p)'
             PROVE  deployed'[p].dir # workingDir'
  BY DEF DirectoryIsFree
<1>1. CASE /\ pc = "rmdir" \/ (pc = "return" /\ ~failed)
           /\ deployed' = deployed /\ workingDir' = workingDir
  BY <1>1 DEF DirectoryIsFree, Deployed
<1>2. CASE pc = "down" /\ ComposeDown
  <2>1. /\ Chosen(workingDir) \in Readable
        /\ Undeploy(ProjectOf[Chosen(workingDir)])
        /\ workingDir' = workingDir
    BY <1>2 DEF ComposeDown, DownFailed
  <2>2. Deployed(p) /\ deployed'[p] = deployed[p] /\ p # ProjectOf[Chosen(workingDir)]
    BY <2>1 DEF Undeploy, Deployed, TypeOK
  <2> QED
    BY <2>1, <2>2, OneProject
<1>3. CASE Step
  <2>1. CASE pc = "rmdir"
    BY <1>1, <1>3, <2>1, StepEffects DEF Step, RemoveDir, Goto, commandVars
  <2>2. CASE pc \in {"find", "stop"}
    BY <1>3, <2>2 DEF Step, FindDirectory, GoOn, ComposeStop, Goto
  <2>3. CASE pc \in Installing \cup {"return"}
    BY <1>3, <2>3
    DEF Step, MakeDir, WriteFiles, ReadFiles, CreateNetwork, ComposeUp, WriteVersion,
        ReturnErrors, Goto, OrReturn, Return, Installing
  <2> QED
    BY <1>2, <1>3, <2>1, <2>2, <2>3 DEF Step, Installing
<1>4. CASE \/ \E m \in Module, a \in Artifact : Install(m, a)
           \/ \E name \in Project : Remove(name)
           \/ Kill
  BY <1>4 DEF Install, Remove, Kill, Return
<1>5. CASE (\E q \in Project : ExitOrStart(q)) \/ UNCHANGED vars
  <2>1. UNCHANGED <<pc, commandVars, deployed>>
    BY <1>5 DEF ExitOrStart, vars, engineVars
  <2> QED
    BY <1>1, <2>1 DEF commandVars
<1> QED
  BY <1>3, <1>4, <1>5 DEF Next

\* At the start there are no files and no containers.
LEMMA InvInit == Init => IInv
<1> SUFFICES ASSUME Init PROVE IInv
  OBVIOUS
<1>1. \A m \in Module : \A f \in ComposeFile : file[m][f] = None
  BY DEF Init
<1>2. pc = "idle" /\ \A p \in Project : deployed[p] = None
  BY DEF Init
<1> QED
  BY <1>1, <1>2, TypeInit
  DEF IInv, FilesOfModule, ContainersHaveDirectory, InstallHasDirectory, RemovalHasTarget,
      DirectoryIsFree, Deployed, Installing, Removing

\* Every step keeps the invariant.
LEMMA InvStep == ProjectsStay /\ IInv /\ [Next]_vars => IInv'
BY TypeStep, FilesStep, ContainersStep, InstallDirectoryStep, RemovalTargetStep,
   DirectoryFreeStep DEF IInv

\* The invariant holds throughout.
LEMMA Invariant ==
  ASSUME ProjectsStay
  PROVE  Spec => []IInv
<1>1. IInv /\ [Next]_vars => IInv'
  BY InvStep
<1> QED
  BY <1>1, InvInit, PTL DEF Spec

-----------------------------------------------------------------------------
(***************************************************************************)
(* Theorems                                                                *)
(***************************************************************************)

\* Whatever calls failed and wherever commands were killed, what list shows by
\* its module name, or while it runs by its own, is found by remove: in the
\* directory its containers are from, with its compose file or an unreadable one.
THEOREM RemovableStays ==
  ASSUME ProjectsStay
  PROVE  Spec => []StillRemovable
<1>1. IInv => StillRemovable
  <2> SUFFICES ASSUME IInv, NEW p \in Project, Deployed(p),
                      version[deployed[p].dir] # None \/ p \in running
               PROVE  LET m == Directory(ShownName(p), TRUE)
                      IN  /\ m = deployed[p].dir
                          /\ Chosen(m) # None
                          /\ Chosen(m) \in Readable => ProjectOf[Chosen(m)] = p
    BY DEF StillRemovable
  <2> DEFINE d == deployed[p].dir
  <2>1. d \in Module /\ d \in dirs /\ Chosen(d) # None
    BY DefaultProject DEF IInv, ContainersHaveDirectory
  <2>2. Directory(ShownName(p), TRUE) = d
    <3>1. CASE version[d] = None
      BY <2>1, <3>1 DEF ShownName, Directory
    <3>2. CASE version[d] # None
      <4>1. ShownName(p) = d
        BY <3>2 DEF ShownName
      <4>2. Deployed(d) => deployed[d].dir = d
        BY <2>1, DefaultProject, GroupAssumption DEF IInv
      <4> QED
        BY <2>1, <4>1, <4>2 DEF Directory
    <3> QED
      BY <3>1, <3>2
  <2> QED
    BY <2>1, <2>2, OneProject DEF IInv
<1> QED
  BY <1>1, Invariant, PTL

\* The log plugin resolves the name of every running project to that project.
THEOREM LogsAreFound ==
  ASSUME ProjectsStay
  PROVE  Spec => []LogsFound
<1>1. IInv => LogsFound
  <2> SUFFICES ASSUME IInv, NEW p \in Project, Deployed(p), p \in running
               PROVE  ResolveComposeProjectName(ShownName(p)) = {p}
    BY DEF LogsFound
  <2> DEFINE d == deployed[p].dir
             stored == {q \in Project : Deployed(q) /\ version[deployed[q].dir] # None
                                        /\ deployed[q].dir = d}
  <2>1. CASE version[d] = None
    BY <2>1 DEF ShownName, ResolveComposeProjectName
  <2>2. CASE version[d] # None
    <3>1. ShownName(p) = d /\ d \in Module /\ d \in Project
      BY <2>2, DefaultProject, GroupAssumption DEF ShownName, IInv
    <3>2. stored = {p}
      BY <2>2, OneProject DEF IInv
    <3>3. ASSUME Deployed(d)
          PROVE  d = p
      BY <3>1, <3>3, DefaultProject, OneProject DEF IInv
    <3> QED
      BY <3>1, <3>2, <3>3 DEF ResolveComposeProjectName
  <2> QED
    BY <2>1, <2>2
<1> QED
  BY <1>1, Invariant, PTL

\* A removal that reports success has removed all that was shown under the name.
THEOREM RemovalsRemove ==
  ASSUME ProjectsStay
  PROVE  Spec => RemovedIsGone
<1> DEFINE A == pc = "return" /\ pc' = "idle" /\ result' = "ok" =>
                  \A p \in Project :
                    Deployed(p) => ShownName(p) # target /\ deployed[p].dir # workingDir
<1>1. IInv /\ [Next]_vars => [A]_vars
  <2> SUFFICES ASSUME IInv, Next, pc = "return", pc' = "idle", result' = "ok",
                      NEW p \in Project, Deployed(p)
               PROVE  ShownName(p) # target /\ deployed[p].dir # workingDir
    OBVIOUS
  <2>1. ~failed
    BY DEF Next, Install, Remove, Step, ReturnErrors, Return, Kill, ExitOrStart, commandVars
  <2>2. deployed[p].dir # workingDir
    BY <2>1 DEF IInv, DirectoryIsFree
  <2>3. /\ deployed[p].dir \in Module
        /\ target \in Module => workingDir = target
        /\ target \notin Module /\ Deployed(target) => deployed[target].dir = workingDir
    BY <2>1, DefaultProject DEF IInv, RemovalHasTarget
  <2>4. CASE ShownName(p) = deployed[p].dir
    BY <2>2, <2>3, <2>4
  <2>5. CASE ShownName(p) = p
    BY <2>2, <2>3, <2>5, DefaultProject DEF IInv
  <2> QED
    BY <2>2, <2>4, <2>5 DEF ShownName
<1>2. Spec => [][A]_vars
  BY <1>1, Invariant, PTL DEF Spec
<1> QED
  BY <1>2 DEF RemovedIsGone

-----------------------------------------------------------------------------
(***************************************************************************)
(* Versions                                                                *)
(***************************************************************************)

\* While the artifacts of a module keep their form, compose chooses the file
\* that install has just written.
LEMMA OneFormStep ==
  ASSUME FormsStay, IInv, OneForm, [Next]_vars
  PROVE  OneForm'
<1> USE DEF IInv
<1>1. ASSUME NEW m \in Module, file'[m]["yml"] # None, NEW a \in Versions[m]
      PROVE  FileOf[a] = "yml"
  <2> USE DEF ComposeFile
  <2>1. CASE file'[m]["yml"] = file[m]["yml"]
    BY <1>1, <2>1 DEF OneForm
  <2>2. CASE /\ pc = "write" /\ file' \in {Written} \cup HalfWritten
             /\ file'[m]["yml"] # file[m]["yml"]
    <3>1. m = target /\ FileOf[artifact] = "yml"
      BY <2>2, WrittenFrom
    <3> QED
      BY <2>2, <3>1, Working DEF FormsStay, Installing
  <2>3. CASE pc = "rmdir" /\ file' \in HalfRemoved
    BY <1>1, <2>1, <2>3, LeftFrom
  <2> QED
    BY <2>1, <2>2, <2>3, StepEffects
<1>2. ASSUME pc' \in {"read", "network", "up"}
      PROVE  file'[target'][FileOf[artifact']] = artifact'
  <2>1. CASE pc = "write" /\ WriteFiles
    <3>1. file' = Written /\ target' = target /\ artifact' = artifact
      BY <1>2, <2>1 DEF WriteFiles, OrReturn, Return, Goto, commandVars
    <3>2. target \in Module /\ FileOf[artifact] \in ComposeFile
      BY <2>1, Working DEF Installing
    <3> QED
      BY <3>1, <3>2 DEF Written, TypeOK
  <2>2. CASE UNCHANGED <<file, commandVars>> /\ pc \in {"read", "network", "up"}
    BY <2>2 DEF commandVars, OneForm
  <2>3. CASE Step
    <3>1. CASE pc \in {"mkdir", "write", "read", "network", "up", "version"}
      BY <1>2, <2>1, <2>2, <2>3, <3>1
      DEF Step, MakeDir, ReadFiles, CreateNetwork, ComposeUp, WriteVersion, Goto,
          OrReturn, Return, diskVars
    <3>2. CASE pc \in Removing
      BY <1>2, <2>3, <3>2
      DEF Step, FindDirectory, ComposeStop, ComposeDown, DownFailed, RemoveDir,
          ReturnErrors, GoOn, Goto, Return, Removing
    <3> QED
      BY <2>3, <3>1, <3>2 DEF Step, Removing
  <2>4. CASE ~Step
    BY <1>2, <2>2, <2>4
    DEF Next, Install, Remove, Kill, Return, ExitOrStart, vars, diskVars
  <2> QED
    BY <2>3, <2>4
<1>3. ASSUME pc' = "version"
      PROVE  deployed'[ProjectOf[artifact']] = [dir |-> target', artifact |-> artifact']
  <2>1. CASE pc = "up" /\ ComposeUp
    <3>1. /\ Chosen(target) \in Readable /\ Deploy(ProjectOf[Chosen(target)])
          /\ target' = target /\ artifact' = artifact
      BY <1>3, <2>1 DEF ComposeUp, OrReturn, Return, Goto, commandVars
    <3>2. /\ target \in Module /\ artifact \in Versions[target] /\ artifact # None
          /\ FileOf[artifact] \in ComposeFile
      BY <2>1, Working, GroupAssumption DEF Installing
    <3>3. Chosen(target) = artifact
      BY <2>1, <3>2 DEF OneForm, Chosen, ComposeFile
    <3>4. ProjectOf[artifact] \in Project
      BY <2>1, Working, GroupAssumption DEF Installing
    <3> QED
      BY <3>1, <3>3, <3>4 DEF Deploy, TypeOK
  <2>2. CASE UNCHANGED <<deployed, commandVars>> /\ pc = "version"
    BY <2>2 DEF commandVars, OneForm
  <2>3. CASE Step
    <3>1. CASE pc \in {"mkdir", "write", "read", "network", "up", "version"}
      BY <1>3, <2>1, <2>3, <3>1
      DEF Step, MakeDir, WriteFiles, ReadFiles, CreateNetwork, WriteVersion, Goto,
          OrReturn, Return
    <3>2. CASE pc \in Removing
      BY <1>3, <2>3, <3>2
      DEF Step, FindDirectory, ComposeStop, ComposeDown, DownFailed, RemoveDir,
          ReturnErrors, GoOn, Goto, Return, Removing
    <3> QED
      BY <2>3, <3>1, <3>2 DEF Step, Removing
  <2>4. CASE ~Step
    BY <1>3, <2>2, <2>4
    DEF Next, Install, Remove, Kill, Return, ExitOrStart, vars, engineVars
  <2> QED
    BY <2>3, <2>4
<1> QED
  BY <1>1, <1>2, <1>3 DEF OneForm

\* At first there are no files of two forms.
LEMMA OneFormInit == Init => OneForm
<1> SUFFICES ASSUME Init PROVE OneForm
  OBVIOUS
<1>1. pc = "idle" /\ \A m \in Module : file[m]["yml"] = None
  BY DEF Init, ComposeFile
<1> QED
  BY <1>1 DEF OneForm

\* While the artifacts of a module keep their project and their form, an
\* install that reports success has deployed the version it writes down, and
\* nothing else runs from its directory.
THEOREM VersionsAreTrue ==
  ASSUME ProjectsStay, FormsStay
  PROVE  Spec => VersionIsDeployed
<1> DEFINE A == pc' = "idle" /\ pc \in Installing /\ result' = "ok" =>
                  version'[target] = artifact /\ DeployedFrom'[target] = {artifact}
<1>1. IInv /\ OneForm /\ IInv' /\ [Next]_vars => [A]_vars
  <2> SUFFICES ASSUME IInv, OneForm, IInv', Next,
                      pc' = "idle", pc \in Installing, result' = "ok"
               PROVE  version'[target] = artifact /\ DeployedFrom'[target] = {artifact}
    OBVIOUS
  <2>1. pc = "version" /\ WriteVersion
    BY DEF Next, Install, Remove, Step, MakeDir, WriteFiles, ReadFiles, CreateNetwork,
           ComposeUp, OrReturn, Return, Goto, Kill, ExitOrStart, Installing, commandVars
  <2>2. version' = [version EXCEPT ![target] = artifact] /\ UNCHANGED engineVars
    BY <2>1 DEF WriteVersion, OrReturn, Return
  <2>3. target \in Module /\ artifact \in Artifact
    BY Working DEF IInv
  <2> DEFINE p == ProjectOf[artifact]
  <2>4. /\ p \in Project
        /\ deployed' = deployed /\ deployed[p] = [dir |-> target, artifact |-> artifact]
    BY <2>1, <2>2, <2>3, GroupAssumption DEF OneForm, engineVars
  <2>5. Deployed(p) /\ deployed[p].dir = target /\ deployed[p].artifact = artifact
    <3>1. deployed[p].dir = target /\ deployed[p].artifact = artifact
      BY <2>4
    <3>2. [dir |-> target, artifact |-> artifact] \in Containers
      BY <2>3 DEF Containers
    <3> QED
      BY <2>4, <3>1, <3>2, GroupAssumption DEF Deployed
  <2>6. \A q \in Project : Deployed(q) /\ deployed[q].dir = target => q = p
    BY <2>4, <2>5, OneProject DEF IInv
  <2>7. DeployedFrom'[target] = {artifact}
    BY <2>3, <2>4, <2>5, <2>6 DEF DeployedFrom, Deployed
  <2> QED
    BY <2>2, <2>3, <2>7 DEF IInv, TypeOK
<1>2. Spec => [](IInv /\ OneForm)
  <2>1. IInv /\ OneForm /\ [Next]_vars => (IInv /\ OneForm)'
    BY InvStep, OneFormStep
  <2> QED
    BY <2>1, InvInit, OneFormInit, PTL DEF Spec
<1>3. Spec => [][A]_vars
  BY <1>1, <1>2, PTL DEF Spec
<1> QED
  BY <1>3 DEF VersionIsDeployed

-----------------------------------------------------------------------------
(***************************************************************************)
(* The list that the agent gets                                            *)
(***************************************************************************)

Undoing == {"stop", "down", "rmdir"}

\* Before the version is written there are containers from the directory.  A
\* removal of a module, also one that had a failure, works in the directory of the
\* module; one of a project by its own name in one that has no version.
ListInv ==
  /\ pc = "version" =>
       LET p == ProjectOf[artifact] IN Deployed(p) /\ deployed[p].dir = target
  /\ pc \in Undoing /\ target \in Module => workingDir = target
  /\ pc \in Undoing /\ target \notin Module => version[workingDir] = None
  /\ pc \in Removing /\ target \notin Module /\ Deployed(target)
       => version[deployed[target].dir] = None

\* What a step does to version files.
LEMMA VersionEffects ==
  ASSUME [Next]_vars
  PROVE  \/ UNCHANGED version
         \/ pc = "version" /\ \E v : version' = [version EXCEPT ![target] = v]
         \/ pc = "rmdir" /\ version' = [version EXCEPT ![workingDir] = None]
<1> DEFINE Goal == \/ UNCHANGED version
                   \/ pc = "version" /\ \E v : version' = [version EXCEPT ![target] = v]
                   \/ pc = "rmdir" /\ version' = [version EXCEPT ![workingDir] = None]
<1>1. Partly => Goal
  BY DEF Partly, diskVars
<1>2. CASE Step
  <2>1. CASE pc \in {"mkdir", "write", "read", "network", "up"}
    BY <1>1, <1>2, <2>1
    DEF Step, MakeDir, WriteFiles, ReadFiles, CreateNetwork, ComposeUp, OrReturn, diskVars
  <2>2. CASE pc = "version"
    BY <1>1, <1>2, <2>2 DEF Step, WriteVersion, OrReturn
  <2>3. CASE pc \in {"find", "stop", "down", "return"}
    BY <1>1, <1>2, <2>3
    DEF Step, FindDirectory, ComposeStop, ComposeDown, ReturnErrors, diskVars
  <2>4. CASE pc = "rmdir"
    BY <1>1, <1>2, <2>4 DEF Step, RemoveDir
  <2> QED
    BY <1>2, <2>1, <2>2, <2>3, <2>4 DEF Step
<1>3. CASE Kill
  BY <1>1, <1>3 DEF Kill
<1> QED
  BY <1>2, <1>3 DEF Next, Install, Remove, ExitOrStart, vars, diskVars

\* A command goes on with what it was asked for, or returns; success is that of
\* the last step.
LEMMA CommandEffects ==
  ASSUME TypeOK, Step \/ Kill
  PROVE  /\ pc # "idle"
         /\ \/ /\ pc' # "idle" /\ UNCHANGED <<target, artifact, result>>
               /\ pc' \in Installing <=> pc \in Installing
            \/ pc' = "idle" /\ result' \in {"error", "killed"}
            \/ /\ pc = "version" /\ pc' = "idle" /\ result' = "ok"
               /\ version' = [version EXCEPT ![target] = artifact] /\ UNCHANGED deployed
            \/ /\ pc = "return" /\ ~failed /\ pc' = "idle" /\ result' = "ok"
               /\ UNCHANGED <<version, deployed>>
<1> USE DEF Installing, Goto, commandVars
<1>1. CASE Step
  <2>1. CASE pc \in {"mkdir", "write", "read", "network", "up"}
    BY <1>1, <2>1
    DEF Step, MakeDir, WriteFiles, ReadFiles, CreateNetwork, ComposeUp, OrReturn, Return
  <2>2. CASE pc = "version"
    BY <1>1, <2>2 DEF Step, WriteVersion, OrReturn, Return, engineVars
  <2>3. CASE pc \in {"find", "stop", "down", "rmdir"}
    BY <1>1, <2>3 DEF Step, FindDirectory, GoOn, ComposeStop, ComposeDown, DownFailed, RemoveDir
  <2>4. CASE pc = "return"
    BY <1>1, <2>4 DEF Step, ReturnErrors, Return, diskVars, engineVars
  <2> QED
    BY <1>1, <2>1, <2>2, <2>3, <2>4 DEF Step
<1>2. CASE Kill
  BY <1>2 DEF Kill, Return
<1> QED
  BY <1>1, <1>2

\* Modules whose artifacts declare different projects share no containers.
LEMMA ProjectIsOwn ==
  ASSUME ProjectsApart, IInv, NEW m \in Module, Chosen(m) \in Readable,
         Deployed(ProjectOf[Chosen(m)])
  PROVE  deployed[ProjectOf[Chosen(m)]].dir = m
<1> DEFINE p == ProjectOf[Chosen(m)]
<1>1. Chosen(m) \in Versions[m] /\ p \in Project
  BY ReadableIsOwn, GroupAssumption DEF IInv
<1>2. /\ deployed[p].dir \in Module /\ deployed[p].artifact \in Versions[deployed[p].dir]
      /\ ProjectOf[deployed[p].artifact] = p
  BY <1>1 DEF IInv, ContainersHaveDirectory, TypeOK, Deployed, OrNone, Containers
<1> QED
  BY <1>1, <1>2 DEF ProjectsApart

\* Where remove works, as it finds the directory.
LEMMA FoundDirectory ==
  ASSUME ProjectsStay, IInv, ListInv, FindDirectory, pc = "find", workingDir' # None
  PROVE  /\ target \in Module => workingDir' = target
         /\ target \notin Module => version[workingDir'] = None
<1>1. PICK found \in BOOLEAN : workingDir' = Directory(target, found)
  BY DEF FindDirectory
<1>2. target \in Project /\ dirs \subseteq Module
  BY DEF IInv, RemovalHasTarget, Removing, TypeOK
<1>3. CASE target \in dirs /\ workingDir' = target
  BY <1>2, <1>3
<1>4. CASE Deployed(target) /\ workingDir' = deployed[target].dir
  <2>1. target \in Module => workingDir' = target
    BY <1>2, <1>4, DefaultProject DEF IInv
  <2>2. target \notin Module => version[workingDir'] = None
    BY <1>4 DEF ListInv, Removing
  <2> QED
    BY <2>1, <2>2
<1> QED
  BY <1>1, <1>3, <1>4 DEF Directory

\* A command step keeps it.
LEMMA ListInvCommand ==
  ASSUME ProjectsStay, IInv, ListInv, Step \/ Kill
  PROVE  ListInv'
<1> USE DEF Undoing, Removing
<1>0. /\ pc # "idle" /\ TypeOK /\ [Next]_vars
      /\ pc' # "idle" => Step /\ target' = target /\ artifact' = artifact
  BY CommandEffects DEF IInv, Kill, Return, Next
<1>1. CASE pc' = "idle"
  BY <1>1 DEF ListInv
<1>2. CASE pc \in Installing /\ pc' # "idle"
  <2>1. pc' \in Installing /\ (pc' = "version" => pc = "up" /\ ComposeUp)
    BY <1>0, <1>2 DEF Step, MakeDir, WriteFiles, ReadFiles, CreateNetwork, ComposeUp,
      WriteVersion, Goto, OrReturn, Return, Installing
  <2>2. CASE pc' = "version"
    <3>1. Deploy(ProjectOf[Chosen(target)]) /\ Chosen(target) \in Readable /\ pc = "up"
      BY <2>1, <2>2 DEF ComposeUp, OrReturn, Return
    <3>2. target \in Module /\ artifact \in Versions[target] /\ artifact \in Artifact
      BY <1>0, <1>2, Working
    <3>3. Chosen(target) \in Versions[target] /\ Chosen(target) \in Artifact
      BY <3>1, <3>2, ReadableIsOwn DEF IInv
    <3>4. ProjectOf[Chosen(target)] = ProjectOf[artifact] /\ ProjectOf[artifact] \in Project
      BY <3>2, <3>3, GroupAssumption DEF ProjectsStay
    <3>5. deployed'[ProjectOf[artifact]] = [dir |-> target, artifact |-> Chosen(target)]
      BY <1>0, <3>1, <3>4 DEF Deploy, TypeOK
    <3>6. [dir |-> target, artifact |-> Chosen(target)] \in Containers
      BY <3>2, <3>3 DEF Containers
    <3>7. Deployed(ProjectOf[artifact])' /\ deployed'[ProjectOf[artifact]].dir = target
      BY <1>0, <2>2, <3>5, <3>6, GroupAssumption DEF Deployed
    <3> QED
      BY <1>0, <2>2, <3>7 DEF ListInv
  <2> QED
    BY <2>1, <2>2 DEF ListInv, Installing
<1>3. CASE pc \in Removing /\ pc' # "idle"
  <2>1. /\ pc' \in Removing
        /\ pc' \in Undoing => (pc = "find" /\ FindDirectory /\ workingDir' # None)
                             \/ (pc \in Undoing /\ workingDir' = workingDir)
    BY <1>0, <1>3 DEF Step, FindDirectory, GoOn, ComposeStop, ComposeDown, DownFailed,
      RemoveDir, ReturnErrors, Return, Goto, commandVars
  <2>2. \/ UNCHANGED version
        \/ pc = "rmdir" /\ version' = [version EXCEPT ![workingDir] = None]
    BY <1>0, <1>3, VersionEffects
  <2>3. \A m \in Module : version[m] = None => version'[m] = None
    BY <1>0, <2>2 DEF TypeOK
  <2>4. ASSUME pc' \in Undoing
        PROVE  /\ target \in Module => workingDir' = target
               /\ target \notin Module => version'[workingDir'] = None
    <3>1. workingDir' \in Module
      <4>1. workingDir' \in OrNone(Module) /\ workingDir' # None
        BY <1>0, <2>4, TypeStep DEF IInv, TypeOK
      <4> QED
        BY <4>1 DEF OrNone
    <3>2. CASE pc = "find"
      BY <2>1, <2>3, <2>4, <3>1, <3>2, FoundDirectory
    <3>3. CASE pc \in Undoing
      BY <2>1, <2>3, <2>4, <3>1, <3>3 DEF ListInv
    <3> QED
      BY <2>1, <2>4, <3>2, <3>3
  <2>5. ASSUME target \notin Module, Deployed(target)'
        PROVE  version'[deployed'[target].dir] = None
    <3>1. target \in Project
      BY <1>3 DEF IInv, RemovalHasTarget
    <3>2. Deployed(target) /\ deployed'[target] = deployed[target]
      BY <1>0, <1>3, <2>5, <3>1, StepEffects DEF Deployed, Undeploy, TypeOK
    <3>3. deployed[target].dir \in Module
      BY <3>1, <3>2, DefaultProject DEF IInv
    <3> QED
      BY <1>3, <2>3, <2>5, <3>2, <3>3 DEF ListInv
  <2> QED
    BY <1>0, <1>3, <2>1, <2>4, <2>5 DEF ListInv
<1> QED
  BY <1>0, <1>1, <1>2, <1>3 DEF TypeOK

\* So does every step.
LEMMA ListInvStep == ProjectsStay /\ IInv /\ ListInv /\ [Next]_vars => ListInv'
<1> SUFFICES ASSUME ProjectsStay, IInv, ListInv, [Next]_vars PROVE ListInv'
  OBVIOUS
<1>1. CASE \E m \in Module, a \in Artifact : Install(m, a)
  BY <1>1 DEF Install, ListInv, Undoing, Removing
<1>2. ASSUME NEW name \in Project, Remove(name)
      PROVE  ListInv'
  <2>1. pc' = "find" /\ target' = name /\ UNCHANGED <<version, deployed>>
    BY <1>2 DEF Remove, diskVars, engineVars
  <2>2. ASSUME name \notin Module, Deployed(name)
        PROVE  version[deployed[name].dir] = None
    <3>1. PICK q \in Project : Deployed(q) /\ ShownName(q) = name
      BY <1>2 DEF Remove, Listing
    <3>2. deployed[q].dir \in Module
      BY <3>1, DefaultProject DEF IInv
    <3> QED
      BY <2>2, <3>1, <3>2 DEF ShownName
  <2> QED
    BY <2>1, <2>2 DEF ListInv, Undoing, Removing, Deployed
<1>3. CASE Step \/ Kill
  BY <1>3, ListInvCommand
<1>4. CASE (\E p \in Project : ExitOrStart(p)) \/ UNCHANGED vars
  <2>1. UNCHANGED <<pc, target, artifact, workingDir, version, deployed>>
    BY <1>4 DEF ExitOrStart, vars, diskVars, engineVars, commandVars
  <2> QED
    BY <2>1 DEF ListInv, Deployed
<1> QED
  BY <1>1, <1>2, <1>3, <1>4 DEF Next

\* There are containers from the directory of the module.
Runs(m) == \E p \in Project : Deployed(p) /\ deployed[p].dir = m

\* The entry of a module, in short.
LEMMA EntryOf ==
  /\ \A m \in Module : Entries[m] = IF Runs(m) THEN version[m] ELSE None
  /\ \A m \in Module : Entries'[m] = IF Runs(m)' THEN version'[m] ELSE None
BY DEF Entries, Runs, Deployed

\* A step changes the entry of the module of the command, and no other; one of no
\* command, or of one on a name that is not a module's, changes none.
LEMMA EntriesFrame ==
  ASSUME ProjectsStay, ProjectsApart, IInv, ListInv, [Next]_vars,
         NEW n \in Module, pc = "idle" \/ target # n
  PROVE  Entries'[n] = Entries[n]
<1> USE DEF IInv
<1>1. \/ version'[n] = version[n]
      \/ pc = "version" /\ target = n
      \/ pc = "rmdir" /\ workingDir = n
  BY VersionEffects DEF TypeOK
<1>2. ASSUME pc = "rmdir" \/ pc = "down", workingDir = n
      PROVE  version[n] = None
  BY <1>2 DEF ListInv, Undoing
<1>3. ASSUME version[n] = None
      PROVE  Entries'[n] = Entries[n]
  <2>1. version'[n] = None
    BY <1>3, VersionEffects DEF TypeOK
  <2> QED
    BY <1>3, <2>1, EntryOf
<1>4. ASSUME version'[n] = version[n], \A p \in Project :
               (Deployed(p)' /\ deployed'[p].dir = n) <=> (Deployed(p) /\ deployed[p].dir = n)
      PROVE  Entries'[n] = Entries[n]
  <2>1. Runs(n)' <=> Runs(n)
    BY <1>4 DEF Runs
  <2> QED
    BY <1>4, <2>1, EntryOf
<1>5. CASE version'[n] = version[n] /\ deployed' = deployed
  BY <1>4, <1>5 DEF Deployed
<1>6. CASE pc = "up" /\ Chosen(target) \in Readable /\ Deploy(ProjectOf[Chosen(target)])
  <2> DEFINE q == ProjectOf[Chosen(target)]
  <2>1. target \in Module /\ target # n
    BY <1>6, Working DEF Installing
  <2>2. q \in Project /\ deployed'[q].dir = target
    BY <1>6, DeployTyped DEF Deploy, TypeOK
  <2>3. Deployed(q) => deployed[q].dir = target
    BY <1>6, <2>1, ProjectIsOwn
  <2>4. \A p \in Project : p # q => deployed'[p] = deployed[p]
    BY <1>6 DEF Deploy, TypeOK
  <2>5. version'[n] = version[n]
    BY <1>1, <1>6
  <2> QED
    BY <1>4, <2>1, <2>2, <2>3, <2>4, <2>5 DEF Deployed
<1>7. CASE pc = "down" /\ Chosen(workingDir) \in Readable /\ Undeploy(ProjectOf[Chosen(workingDir)])
  <2> DEFINE q == ProjectOf[Chosen(workingDir)]
  <2>1. CASE workingDir = n
    BY <1>2, <1>3, <1>7, <2>1
  <2>2. CASE workingDir # n
    <3>1. workingDir \in Module
      BY <1>7, Working
    <3>2. Deployed(q) => deployed[q].dir = workingDir
      BY <1>7, <3>1, ProjectIsOwn
    <3>3. \A p \in Project : p # q => deployed'[p] = deployed[p]
      BY <1>7 DEF Undeploy, TypeOK
    <3>4. \A p \in Project : p = q => ~Deployed(p)'
      BY <1>7 DEF Undeploy, TypeOK, Deployed
    <3>5. version'[n] = version[n]
      BY <1>1, <1>7
    <3> QED
      BY <1>4, <2>2, <3>2, <3>3, <3>4, <3>5 DEF Deployed
  <2> QED
    BY <2>1, <2>2
<1> QED
  BY <1>1, <1>2, <1>3, <1>5, <1>6, <1>7, StepEffects

\* The list has entries.
LEMMA EntriesTyped ==
  /\ TypeOK => Entries \in [Module -> Artifact \cup {None}]
  /\ TypeOK' => Entries' \in [Module -> Artifact \cup {None}]
BY DEF TypeOK, Entries, OrNone

\* What a step that leaves entries alone does to the list.
LEMMA EntriesSame ==
  ASSUME TypeOK, TypeOK', \A n \in Module : Entries'[n] = Entries[n]
  PROVE  Entries' = Entries
BY EntriesTyped

\* The entry of the module after success.
LEMMA SuccessEntry ==
  ASSUME ProjectsStay, IInv, ListInv, Step \/ Kill,
         NEW m \in Module, m = target, pc' = "idle", result' = "ok"
  PROVE  Entries'[m] = Asked
<1> USE DEF IInv
<1>1. CASE /\ pc = "version"
           /\ version' = [version EXCEPT ![target] = artifact] /\ UNCHANGED deployed
  <2>1. artifact \in Artifact /\ version'[m] = artifact
    BY <1>1, Working DEF TypeOK, Installing
  <2>2. ProjectOf[artifact] \in Project
    BY <2>1, GroupAssumption
  <2>3. Runs(m)'
    BY <1>1, <2>2 DEF ListInv, Runs, Deployed
  <2> QED
    BY <1>1, <2>1, <2>3, EntryOf DEF Asked, Installing
<1>2. CASE pc = "return" /\ ~failed /\ UNCHANGED <<version, deployed>>
  <2>1. workingDir = target
    BY <1>2 DEF RemovalHasTarget
  <2>2. ~Runs(m)'
    BY <1>2, <2>1 DEF DirectoryIsFree, Runs, Deployed
  <2> QED
    BY <1>2, <2>2, EntryOf DEF Asked, Installing
<1> QED
  BY <1>1, <1>2, CommandEffects

\* What the step of a command is for the list.
LEMMA CommandKeepsList ==
  ASSUME ProjectsStay, ProjectsApart, IInv, ListInv, Step \/ Kill
  PROVE  List!Next \/ UNCHANGED List!vars
<1>0. TypeOK /\ [Next]_vars /\ TypeOK'
  BY TypeStep DEF Next, IInv
<1>1. /\ pc # "idle" /\ Reported = "none"
      /\ pc' # "idle" => Reported' = "none"
      /\ pc' = "idle" /\ result' = "ok" => Reported' = "ok"
      /\ pc' = "idle" /\ result' # "ok" => Reported' = "error"
  BY <1>0, CommandEffects DEF Reported
<1>2. CASE target \notin Module
  <2>1. On = None /\ On' = None /\ Asked = None /\ Asked' = None
    BY <1>0, <1>2, CommandEffects DEF On, Asked, TypeOK, Installing
  <2>2. Entries' = Entries
    BY <1>0, <1>2, EntriesFrame, EntriesSame
  <2> QED
    BY <1>1, <2>1, <2>2 DEF List!Next, List!Other
<1>3. CASE target \in Module
  <2>1. On = target /\ On # None
    BY <1>1, <1>3, GroupAssumption DEF On
  <2>2. List!Changes
    BY <1>0, <1>3, <2>1, EntriesTyped, EntriesFrame DEF List!Changes, List!Entry
  <2>3. CASE pc' # "idle"
    <3>1. On' = On /\ Asked' = Asked
      BY <1>0, <1>3, <2>1, <2>3, CommandEffects DEF On, Asked
    <3> QED
      BY <1>1, <2>2, <2>3, <3>1 DEF List!Next, List!Work
  <2>4. CASE pc' = "idle"
    <3>1. On' = None /\ Asked' = None
      BY <2>4 DEF On, Asked, Installing
    <3>2. CASE result' = "ok"
      BY <1>1, <1>3, <2>1, <2>2, <2>4, <3>1, <3>2, SuccessEntry DEF List!Next, List!Succeed
    <3>3. CASE result' # "ok"
      BY <1>1, <2>2, <2>4, <3>1, <3>3 DEF List!Next, List!Fail
    <3> QED
      BY <3>2, <3>3
  <2> QED
    BY <2>3, <2>4
<1> QED
  BY <1>2, <1>3

\* Other steps begin a command, or are none for the list.
LEMMA OthersKeepList ==
  ASSUME ProjectsStay, ProjectsApart, IInv, ListInv, [Next]_vars, ~Step, ~Kill
  PROVE  List!Next \/ UNCHANGED List!vars
<1>0. TypeOK /\ TypeOK'
  BY TypeStep DEF IInv
<1>1. ASSUME NEW m \in Module, NEW a \in Artifact, Install(m, a)
      PROVE  List!Begin
  <2>1. pc = "idle" /\ pc' = "mkdir" /\ target' = m /\ artifact' = a
    BY <1>1 DEF Install
  <2>2. Entries' = Entries
    BY <1>0, <2>1, EntriesFrame, EntriesSame
  <2>3. On = None /\ On' = m /\ Asked' = a /\ Reported' = "none"
    BY <2>1 DEF On, Asked, Reported, Installing
  <2> QED
    BY <2>2, <2>3 DEF List!Begin, List!Entry
<1>2. ASSUME NEW name \in Project, Remove(name)
      PROVE  List!Begin \/ List!Other
  <2>1. pc = "idle" /\ pc' = "find" /\ target' = name
    BY <1>2 DEF Remove
  <2>2. Entries' = Entries
    BY <1>0, <2>1, EntriesFrame, EntriesSame
  <2>3. On = None /\ Asked = None /\ Asked' = None /\ Reported' = "none"
    BY <2>1 DEF On, Asked, Reported, Installing
  <2>4. IF name \in Module THEN On' = name ELSE On' = None
    BY <2>1 DEF On
  <2> QED
    BY <2>2, <2>3, <2>4 DEF List!Begin, List!Other, List!Entry
<1>3. CASE (\E p \in Project : ExitOrStart(p)) \/ UNCHANGED vars
  <2>1. UNCHANGED <<pc, target, artifact, result, version, deployed>>
    BY <1>3 DEF ExitOrStart, vars, diskVars, engineVars, commandVars
  <2>2. UNCHANGED List!vars
    BY <2>1 DEF List!vars, Entries, Deployed, On, Asked, Reported
  <2> QED
    BY <2>2
<1> QED
  BY <1>1, <1>2, <1>3 DEF Next, List!Next

\* The commands implement SoftwareList, while a module keeps the name of its project
\* and shares it with no other: what they report is true, and what they change is
\* their own module's entry, whatever failed, and wherever they were killed.
THEOREM ListIsKept ==
  ASSUME ProjectsStay, ProjectsApart
  PROVE  Spec => KeepsList
<1>1. Init => List!Init /\ ListInv
  <2> SUFFICES ASSUME Init PROVE List!Init /\ ListInv
    OBVIOUS
  <2>1. pc = "idle" /\ result = "none" /\ \A p \in Project : ~Deployed(p)
    BY DEF Init, Deployed
  <2>2. Entries = [m \in Module |-> None]
    BY <2>1 DEF Entries
  <2> QED
    BY <2>1, <2>2
    DEF List!Init, On, Asked, Reported, ListInv, Installing, Removing, Undoing
<1>2. IInv /\ ListInv /\ [Next]_vars => [List!Next]_(List!vars)
  BY CommandKeepsList, OthersKeepList
<1>3. IInv /\ ListInv /\ [Next]_vars => ListInv'
  BY ListInvStep
<1> QED
  BY <1>1, <1>2, <1>3, Invariant, PTL DEF Spec, KeepsList, List!Spec

===========================================================================
