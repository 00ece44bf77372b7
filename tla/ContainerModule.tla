-------------------------- MODULE ContainerModule --------------------------
(***************************************************************************)
(* Containers and images as software modules: the commands of the plugins  *)
(* container and container-image, and the tool image-install, which a      *)
(* workflow runs beside them.                                              *)
(*                                                                         *)
(* The agent runs the commands of the plugins one at a time, the workflow  *)
(* its own at the same time.  Each call to the engine is a step, any of    *)
(* which may fail.  What they share is the engine: its containers, and the *)
(* images that it has under each reference.  A reference is the sequence   *)
(* of its parts between colons: a name, perhaps with a port, and a tag.    *)
(***************************************************************************)
EXTENDS Naturals, Sequences

CONSTANTS
  Module,     \* names of containers, which are the modules
  Part,       \* parts of references
  PortPart,   \* parts that begin with a port ("5000/app")
  Latest,     \* the tag that the engine takes when there is none
  FullName,   \* [Part -> Part], a name with its registry and "library/" spelled out
  Image,      \* full references that the engine may have an image under
  RepoTag,    \* [Image -> Seq(Part)], how the engine spells a reference in its list
  Build,      \* images proper
  Stock,      \* [Image -> OrNone(Build)], what the registry has at first
  Private,    \* images that are only pulled with valid credentials
  Contents,   \* [Archive -> [ref, build]], what is in an archive, in order
  Containers, \* requests to install a container: [module, version, file]
  Images,     \* requests to install an image: [name, version, file]
  Tools,      \* images that the workflow installs: [name, version, file]
  AlwaysPull, \* what container.alwaysPull may be when a command reads it
  Libpod,     \* the engine is podman and has its own interface too
  MaxAttempts,\* attempts to pull (2 in the code)
  None,
  FaultyCall, \* calls that may fail
  MaxFaults,  \* bounds: failed calls,
  MaxChanges  \*   changes of the registry and of the credentials

Process == {"agent", "workflow"}
Call == {"load", "read", "decode", "network", "inspect", "auth", "libpod", "docker", "stop",
         "remove", "create", "start", "untag", "prune"}

\* The credentials at hand are valid; or are not, and the helper that gave them gets
\* new ones when it is asked to refresh; or are not, and nothing does, as when they
\* are from a file.
Credentials == {"valid", "stale", "void"}
Archive == DOMAIN Contents
Ref == Seq(Part)
OrNone(S) == S \cup {None}

-----------------------------------------------------------------------------
(***************************************************************************)
(* References                                                              *)
(***************************************************************************)

\* expandForComparison
Expand(ref) == IF ref = <<>> THEN ref ELSE <<FullName[ref[1]]>> \o Tail(ref)

ImageRefsEqual(a, b) == Expand(a) = Expand(b)

\* A name has a tag if its last part is neither the only one nor a path behind
\* a port.
HasTag(name) == Len(name) > 1 /\ name[Len(name)] \notin PortPart

\* Where the engine looks a reference up.
Lookup(ref) == IF HasTag(ref) THEN Expand(ref) ELSE Expand(ref) \o <<Latest>>

\* The version is ignored if the name includes a tag.
BuildImageRef(name, version) ==
  IF version = <<>> \/ HasTag(name) THEN name ELSE name \o version

\* A faulty variant: what is behind a second colon is lost.
CutBetweenColons(tag) == [name |-> <<tag[1]>>, version |-> <<tag[2]>>]

\* What list prints for a tag: name and version, cut at the first colon.
CutTag(tag) == [name |-> <<tag[1]>>, version |-> Tail(tag)]

\* What remove takes a name and version for: always the two joined.
RemovalRef(name, version) == name \o version

ASSUME ModuleAssumption ==
  /\ PortPart \subseteq Part
  /\ Latest \in Part
  /\ FullName \in [Part -> Part]
  /\ Image \subseteq Ref /\ Private \subseteq Image
  /\ RepoTag \in [Image -> Ref \ {<<>>}]
  /\ Stock \in [Image -> OrNone(Build)]
  /\ \A a \in Archive : Contents[a] \in Seq([ref : Ref, build : Build])
  /\ \A a \in Archive : \A k \in DOMAIN Contents[a] : Lookup(Contents[a][k].ref) \in Image
  /\ Containers \subseteq [module : Module, version : Ref, file : OrNone(Archive)]
  /\ Images \cup Tools \subseteq [name : Ref, version : Ref, file : OrNone(Archive)]
  /\ AlwaysPull \subseteq BOOLEAN /\ Libpod \in BOOLEAN
  /\ MaxAttempts \in Nat \ {0}
  /\ None \notin Module \cup Build \cup Archive
  /\ FaultyCall \subseteq Call
  /\ {MaxFaults, MaxChanges} \subseteq Nat

-----------------------------------------------------------------------------
VARIABLES
  store,    \* per image: the build the engine has, or None
  registry, \* per image: the build the registry has, or None
  credentials,
  network,  \* the shared network exists
  con,      \* per module: its container, or None
  cmd,      \* per process: the command, its step and what it works with
  last,     \* the agent's last command and its outcome
  faults, changes

worldVars == <<registry, credentials>>
engineVars == <<store, network, con>>
counters == <<faults, changes>>
vars == <<worldVars, engineVars, cmd, last, counters>>

\* A container: the version in its label, the reference it was created with, its
\* image, and whether it was started (and not stopped).
Container == [label : Ref, ref : Ref, image : Build, up : BOOLEAN]

ASSUME NoneAssumption == None \notin Container

Op == {"install", "remove", "image-install", "image-remove", "finalize"}
Step == {"idle", "load", "network", "look", "pull", "docker", "verify", "stop", "rm", "create",
         "start", "untag", "prune"}

\* auth: this attempt has valid credentials;
\* unseen: the engine's answer on a file was not read, so the image is not known;
\* excused: a call failed, or what was asked for is not to be had.
Command == [step : Step, op : Op, module : OrNone(Module), version : Ref, ref : Ref,
            file : OrNone(Archive), attempt : 1..MaxAttempts, auth : BOOLEAN,
            unseen : BOOLEAN, excused : BOOLEAN]

\* A command as it begins.
New(op, step, module, version, ref, file) ==
  [step |-> step, op |-> op, module |-> module, version |-> version, ref |-> ref, file |-> file,
   attempt |-> 1, auth |-> FALSE, unseen |-> FALSE, excused |-> FALSE]

Nothing == New("finalize", "idle", None, <<>>, <<>>, None)

\* result: what the agent gets, the exit status;
\* unread: the command went no further, for it could not read the engine's answer on
\* a file (history: the agent does not get to know).
Outcome == [op : Op, module : OrNone(Module), version : Ref, file : OrNone(Archive),
            result : {"none", "ok", "error"}, excused : BOOLEAN, unread : BOOLEAN]

NoOutcome == [op |-> "finalize", module |-> None, version |-> <<>>, file |-> None,
              result |-> "none", excused |-> FALSE, unread |-> FALSE]

TypeOK ==
  /\ store \in [Image -> OrNone(Build)]
  /\ registry \in [Image -> OrNone(Build)]
  /\ credentials \in Credentials
  /\ network \in BOOLEAN
  /\ con \in [Module -> OrNone(Container)]
  /\ cmd \in [Process -> Command]
  /\ \A p \in Process : cmd[p].step \in {"stop", "rm", "create", "start"} => cmd[p].module \in Module
  /\ last \in Outcome
  /\ faults \in Nat /\ changes \in Nat

Init ==
  /\ store = [i \in Image |-> None]
  /\ registry = Stock
  /\ credentials = "valid"
  /\ network = FALSE
  /\ con = [m \in Module |-> None]
  /\ cmd = [p \in Process |-> Nothing]
  /\ last = NoOutcome
  /\ faults = 0 /\ changes = 0

-----------------------------------------------------------------------------
(***************************************************************************)
(* Steps of a command                                                      *)
(***************************************************************************)

Fails(call) ==
  /\ call \in FaultyCall
  /\ faults < MaxFaults
  /\ faults' = faults + 1

Works == UNCHANGED faults

At(p, step) == cmd[p].step = step

Has(ref) == Lookup(ref) \in Image /\ store[Lookup(ref)] # None

Published(ref) == Lookup(ref) \in Image /\ registry[Lookup(ref)] # None

\* There are credentials for it to be had, or it takes none.
Obtainable(ref) == Published(ref) /\ (credentials # "void" \/ Lookup(ref) \notin Private)

\* A command has an excuse once a call failed, or the image that it was asked for
\* was not to be had when it pulled it.
Excused(p) ==
  \/ cmd[p].excused
  \/ faults' # faults
  \/ cmd[p].step \in {"pull", "docker"} /\ ~Obtainable(cmd[p].ref)

Goto(p, step) ==
  /\ cmd' = [cmd EXCEPT ![p].step = step, ![p].excused = Excused(p)]
  /\ UNCHANGED last

Conclude(p, result, blameless, unread) ==
  /\ cmd' = [cmd EXCEPT ![p] = Nothing]
  /\ last' = IF p = "agent"
             THEN [op |-> cmd[p].op, module |-> cmd[p].module, version |-> cmd[p].version,
                   file |-> cmd[p].file, result |-> result,
                   excused |-> Excused(p) \/ blameless, unread |-> unread]
             ELSE last

\* The command is over; blameless says that its error is one of the circumstances.
End(p, result, blameless) == Conclude(p, result, blameless, FALSE)

Begin(p, command) ==
  /\ At(p, "idle")
  /\ cmd' = [cmd EXCEPT ![p] = command]
  /\ last' = IF p = "agent" THEN NoOutcome ELSE last
  /\ UNCHANGED <<worldVars, engineVars, counters>>

\* With a file nothing is pulled.
BeginInstall ==
  \E r \in Containers :
    Begin("agent", New("install", IF r.file # None THEN "load" ELSE "network",
                       r.module, r.version, r.version, r.file))

BeginRemove ==
  \E m \in Module : Begin("agent", New("remove", "stop", m, <<>>, <<>>, None))

BeginImageInstall(p, requests) ==
  \E r \in requests :
    Begin(p, New("image-install", IF r.file # None THEN "load" ELSE "look",
                 None, r.version, BuildImageRef(r.name, r.version), r.file))

\* What is removed was listed.
BeginImageRemove ==
  \E i \in Image :
    /\ store[i] # None
    /\ LET listed == CutTag(RepoTag[i])
       IN  Begin("agent", New("image-remove", "untag", None, listed.version,
                              RemovalRef(listed.name, listed.version), None))

BeginFinalize == Begin("agent", New("finalize", "prune", None, <<>>, <<>>, None))

-----------------------------------------------------------------------------
(***************************************************************************)
(* Images from a file                                                      *)
(***************************************************************************)

Loaded(a) ==
  [i \in Image |->
     IF \E k \in DOMAIN Contents[a] : Lookup(Contents[a][k].ref) = i
     THEN Contents[a][CHOOSE k \in DOMAIN Contents[a] :
                        /\ Lookup(Contents[a][k].ref) = i
                        /\ \A l \in DOMAIN Contents[a] :
                             Lookup(Contents[a][l].ref) = i => l <= k].build
     ELSE store[i]]

\* The first image of an archive that is the requested one, under the name that
\* the engine gives it.
Match(a, ref) ==
  LET equal == {k \in DOMAIN Contents[a] : ImageRefsEqual(Contents[a][k].ref, ref)}
  IN  IF equal = {} THEN 0 ELSE CHOOSE k \in equal : \A l \in equal : k <= l

\* A container is made of another image if the requested one is not in the file,
\* an image is not.
ToUse(c) ==
  LET k == Match(c.file, c.ref)
  IN  Contents[c.file][IF k = 0 THEN 1 ELSE k].ref

\* What follows an image that is there.
AfterImage(c) == IF c.op = "install" THEN "stop" ELSE "idle"

Proceed(p, next, ref, unseen) ==
  /\ cmd' = [cmd EXCEPT ![p].step = next, ![p].ref = ref, ![p].unseen = unseen]
  /\ UNCHANGED last

\* An answer that cannot be read is an error, but the container plugin does not
\* return it: it reports success without a container.  One that cannot be decoded is
\* returned by either.
Load(p) ==
  /\ At(p, "load")
  /\ LET c == cmd[p]
         isInstall == c.op = "install"
     IN  \/ /\ Fails("load")
            /\ End(p, "error", FALSE)
            /\ UNCHANGED store
         \/ /\ store' = Loaded(c.file)
            /\ \/ /\ Fails("read")
                  /\ IF isInstall THEN Conclude(p, "ok", FALSE, TRUE) ELSE End(p, "error", FALSE)
               \/ Fails("decode") /\ End(p, "error", FALSE)
               \/ /\ Works
                  /\ IF Match(c.file, c.ref) # 0 \/ (isInstall /\ Contents[c.file] # <<>>)
                     THEN IF isInstall THEN Proceed(p, "network", ToUse(c), FALSE)
                                       ELSE End(p, "ok", FALSE)
                     ELSE End(p, "error", TRUE)
               \/ /\ Works   \* an answer that is not JSON is not looked at
                  /\ IF isInstall THEN Proceed(p, "network", c.ref, TRUE)
                                  ELSE End(p, "ok", FALSE)
  /\ UNCHANGED <<worldVars, network, con, changes>>

-----------------------------------------------------------------------------
(***************************************************************************)
(* Images from a registry                                                  *)
(***************************************************************************)

\* A faulty variant: nothing is pulled.
NeverPull(c) == "stop"

AfterNetwork(c) == IF c.file # None THEN "stop" ELSE "look"

CreateSharedNetwork(p) ==
  /\ At(p, "network")
  /\ \/ Works /\ network' = TRUE /\ Goto(p, AfterNetwork(cmd[p]))
     \/ Fails("network") /\ End(p, "error", FALSE) /\ UNCHANGED network
  /\ UNCHANGED <<worldVars, store, con, changes>>

\* The image is there: the command goes on or is done.
ImageFound(p) ==
  IF AfterImage(cmd[p]) = "idle"
  THEN End(p, "ok", FALSE)
  ELSE Proceed(p, AfterImage(cmd[p]), cmd[p].ref, FALSE)

\* An error says that the image is not there.
Look(p) ==
  /\ At(p, "look")
  /\ \/ /\ Works
        /\ \E always \in AlwaysPull :
             IF Has(cmd[p].ref) /\ ~always THEN ImageFound(p) ELSE Goto(p, "pull")
     \/ Fails("inspect") /\ Goto(p, "pull")
  /\ UNCHANGED <<worldVars, engineVars, changes>>

\* Faulty variants: the cached credentials are never renewed; an attempt is not
\* counted.
NeverRefresh(attempt) == FALSE

RefreshAfterFailure(attempt) == attempt > 1

RetryUncounted(p) ==
  /\ cmd' = [cmd EXCEPT ![p].step = "pull", ![p].excused = Excused(p)]
  /\ UNCHANGED last

AttemptFailed(p) ==
  IF cmd[p].attempt < MaxAttempts
  THEN /\ cmd' = [cmd EXCEPT ![p].step = "pull", ![p].attempt = @ + 1,
                             ![p].excused = Excused(p)]
       /\ UNCHANGED last
  ELSE End(p, "error", FALSE)

Pulled(ref) == store' = [store EXCEPT ![Lookup(ref)] = registry[Lookup(ref)]]

Permitted(p, auth) == Published(cmd[p].ref) /\ (auth \/ Lookup(cmd[p].ref) \notin Private)

Authorized(p, step, auth) ==
  /\ cmd' = [cmd EXCEPT ![p].step = step, ![p].auth = auth, ![p].excused = Excused(p)]
  /\ UNCHANGED last

\* The credentials for this attempt, and podman's own interface.  What goes wrong
\* with either is ignored.  Podman may also answer without an error and without an
\* image: what went wrong is in the answer, which is not read.
Pull(p) ==
  /\ At(p, "pull")
  /\ LET valid == \/ credentials = "valid"
                  \/ credentials = "stale" /\ RefreshAfterFailure(cmd[p].attempt)
         Refresh == credentials' = IF valid THEN "valid" ELSE credentials
         Unpulled(auth) ==
           /\ Authorized(p, "docker", auth) \/ (Libpod /\ Authorized(p, "verify", auth))
           /\ UNCHANGED store
         Try(auth) ==
           \/ Libpod /\ Permitted(p, auth) /\ Pulled(cmd[p].ref) /\ Authorized(p, "verify", auth)
           \/ Authorized(p, "docker", auth) /\ UNCHANGED store
           \/ ~Permitted(p, auth) /\ Unpulled(auth)
     IN  \/ Works /\ Refresh /\ Try(valid)
         \/ Libpod /\ Fails("libpod") /\ Refresh /\ Unpulled(valid)
         \/ Fails("auth") /\ UNCHANGED credentials /\ Try(FALSE)
  /\ UNCHANGED <<registry, network, con, changes>>

\* Docker's interface.  A pull that is refused may look as if it had worked.
DockerPull(p) ==
  /\ At(p, "docker")
  /\ \/ /\ Works /\ Permitted(p, cmd[p].auth)
        /\ Pulled(cmd[p].ref)
        /\ Goto(p, "verify")
     \/ /\ Works /\ ~Permitted(p, cmd[p].auth)
        /\ Goto(p, "verify") \/ AttemptFailed(p)
        /\ UNCHANGED store
     \/ Fails("docker") /\ (Goto(p, "verify") \/ AttemptFailed(p)) /\ UNCHANGED store
  /\ UNCHANGED <<worldVars, network, con, changes>>

\* The image must be there after it was pulled.
Verify(p) ==
  /\ At(p, "verify")
  /\ \/ Works /\ IF Has(cmd[p].ref) THEN ImageFound(p) ELSE AttemptFailed(p)
     \/ Fails("inspect") /\ AttemptFailed(p)
  /\ UNCHANGED <<worldVars, engineVars, changes>>

-----------------------------------------------------------------------------
(***************************************************************************)
(* The container                                                           *)
(***************************************************************************)

\* What follows when the old container is gone, or there was none.
AfterRemoval(p) == IF cmd[p].op = "install" THEN Goto(p, "create") ELSE End(p, "ok", FALSE)

Stop(p) ==
  /\ At(p, "stop")
  /\ LET m == cmd[p].module
     IN  \/ Works /\ con[m] = None /\ AfterRemoval(p) /\ UNCHANGED con
         \/ Works /\ con[m] # None /\ con' = [con EXCEPT ![m].up = FALSE] /\ Goto(p, "rm")
         \/ Fails("stop") /\ End(p, "error", FALSE) /\ UNCHANGED con
  /\ UNCHANGED <<worldVars, store, network, changes>>

\* A faulty variant: that the container cannot be removed is logged only.
RemoveAnyway(p) ==
  /\ At(p, "rm")
  /\ \/ Works /\ con' = [con EXCEPT ![cmd[p].module] = None] /\ AfterRemoval(p)
     \/ Fails("remove") /\ AfterRemoval(p) /\ UNCHANGED con
  /\ UNCHANGED <<worldVars, store, network, changes>>

Remove(p) ==
  /\ At(p, "rm")
  /\ \/ Works /\ con' = [con EXCEPT ![cmd[p].module] = None] /\ AfterRemoval(p)
     \/ Fails("remove") /\ End(p, "error", FALSE) /\ UNCHANGED con
  /\ UNCHANGED <<worldVars, store, network, changes>>

\* The engine refuses a name that is taken, and an image or a network that it does
\* not have.
Create(p) ==
  /\ At(p, "create")
  /\ LET c == cmd[p]
         accepted == con[c.module] = None /\ Has(c.ref) /\ network
     IN  \/ /\ Works /\ accepted
            /\ con' = [con EXCEPT ![c.module] =
                         [label |-> c.version, ref |-> c.ref, image |-> store[Lookup(c.ref)],
                          up |-> FALSE]]
            /\ Goto(p, "start")
         \/ Works /\ ~accepted /\ End(p, "error", c.unseen) /\ UNCHANGED con
         \/ Fails("create") /\ End(p, "error", FALSE) /\ UNCHANGED con
  /\ UNCHANGED <<worldVars, store, network, changes>>

StartFailed(p) == End(p, "error", FALSE)

Start(p) ==
  /\ At(p, "start")
  /\ \/ Works /\ con' = [con EXCEPT ![cmd[p].module].up = TRUE] /\ End(p, "ok", FALSE)
     \/ Fails("start") /\ StartFailed(p) /\ UNCHANGED con
  /\ UNCHANGED <<worldVars, store, network, changes>>

-----------------------------------------------------------------------------
(***************************************************************************)
(* Removing images                                                         *)
(***************************************************************************)

InUse(build) == \E m \in Module : con[m] # None /\ con[m].image = build

\* The engine keeps an image that a container uses, unless it has another name.
Untag(p) ==
  /\ At(p, "untag")
  /\ LET i == Lookup(cmd[p].ref)
         needed == /\ InUse(store[i])
                   /\ ~\E j \in Image \ {i} : store[j] = store[i]
     IN  \/ Works /\ ~Has(cmd[p].ref) /\ End(p, "ok", FALSE) /\ UNCHANGED store
         \/ /\ Works /\ Has(cmd[p].ref)
            /\ IF needed THEN End(p, "error", TRUE) /\ UNCHANGED store
                         ELSE End(p, "ok", FALSE) /\ store' = [store EXCEPT ![i] = None]
         \/ Fails("untag") /\ End(p, "error", FALSE) /\ UNCHANGED store
  /\ UNCHANGED <<worldVars, network, con, changes>>

\* Docker's prune, or else podman's, whose errors are ignored.
Prune(p) ==
  /\ At(p, "prune")
  /\ \/ /\ Works \/ Fails("prune")
        /\ store' = [i \in Image |-> IF InUse(store[i]) THEN store[i] ELSE None]
     \/ Fails("prune") /\ UNCHANGED store
  /\ End(p, "ok", FALSE)
  /\ UNCHANGED <<worldVars, network, con, changes>>

-----------------------------------------------------------------------------
(***************************************************************************)
(* The world around                                                        *)
(***************************************************************************)

Changes == changes < MaxChanges /\ changes' = changes + 1

\* An image is published again, or withdrawn.
Publish ==
  /\ Changes
  /\ \E i \in Image, b \in OrNone(Build) :
       registry[i] # b /\ registry' = [registry EXCEPT ![i] = b]
  /\ UNCHANGED <<credentials, engineVars, cmd, last, faults>>

\* The registry takes new credentials only, which the helper, if there is one, gets.
RenewCredentials ==
  /\ Changes
  /\ credentials = "valid" /\ credentials' \in {"stale", "void"}
  /\ UNCHANGED <<registry, engineVars, cmd, last, faults>>

CommandStep(p) ==
  \/ Load(p) \/ CreateSharedNetwork(p)
  \/ Look(p) \/ Pull(p) \/ DockerPull(p) \/ Verify(p)
  \/ Stop(p) \/ Remove(p) \/ Create(p) \/ Start(p)
  \/ Untag(p) \/ Prune(p)

Next ==
  \/ BeginInstall
  \/ BeginRemove
  \/ BeginImageInstall("agent", Images)
  \/ BeginImageInstall("workflow", Tools)
  \/ BeginImageRemove
  \/ BeginFinalize
  \/ \E p \in Process : CommandStep(p)
  \/ Publish
  \/ RenewCredentials

Spec == Init /\ [][Next]_vars

\* A command that was given goes on: calls return.
FairSpec == Spec /\ \A p \in Process : WF_vars(CommandStep(p))

-----------------------------------------------------------------------------
(***************************************************************************)
(* Properties                                                              *)
(***************************************************************************)

\* An install takes the old container away only for an image that the engine has,
\* and has still when the new one is created, whatever the workflow does to the
\* images meanwhile.  (Only when the engine's answer on a file was not JSON is the
\* image not known.)
ReplacedForImage ==
  LET c == cmd["agent"]
  IN  c.step \in {"stop", "rm", "create"} /\ c.op = "install" /\ ~c.unseen => Has(c.ref)

\* The result of a command is true, with one exception.  A successful install leaves
\* the container running, reports the version that was asked for, and has made it of
\* the image of that version, or of one from the file, unless it could not read the
\* engine's answer on the file: then it reports success and has done nothing.  And a
\* command fails only when a call failed or the image was not to be had: not for what
\* earlier failed commands left behind, not because credentials were cached.
InstalledAsAsked ==
  /\ con[last.module] # None
  /\ con[last.module].up
  /\ con[last.module].label = last.version
  /\ \/ ImageRefsEqual(con[last.module].ref, last.version)
     \/ \E k \in DOMAIN Contents[last.file] : con[last.module].ref = Contents[last.file][k].ref

ReportsTruly ==
  /\ last.op = "install" /\ last.result = "ok" /\ ~last.unread => InstalledAsAsked
  /\ last.result = "error" => last.excused

\* What was listed and successfully removed is not listed any more.
RemovedIsUnlisted ==
  [][cmd["agent"].op = "image-remove" /\ last'.result = "ok" =>
       \A i \in Image :
         store'[i] # None =>
           RemovalRef(CutTag(RepoTag[i]).name, CutTag(RepoTag[i]).version) # cmd["agent"].ref]_vars

\* The entry of a module in what list prints: the version in the label of its
\* container, whether it runs or not.
Entries == [m \in Module |-> IF con[m] = None THEN None ELSE con[m].label]

\* The container that the agent's command is on, until it has its result, and what
\* for.
On == IF cmd["agent"].op \in {"install", "remove"} THEN cmd["agent"].module ELSE None
Asked == IF cmd["agent"].op = "install" THEN cmd["agent"].version ELSE None

Reported == IF cmd["agent"].step # "idle" THEN "none" ELSE last.result

\* The list as SoftwareList has it.  The agent is misled by an install that could not
\* read the engine's answer, and by nothing else.
List ==
  INSTANCE SoftwareList
  WITH Version <- Ref, listed <- Entries, on <- On, asked <- Asked, result <- Reported,
       misled <- last.unread

\* The commands keep the promise of SoftwareList: one that says that it succeeded
\* has left the container as it was asked for, or misleads the agent and has left it
\* as it was, and none touches another, whatever fails, and whatever the workflow
\* installs meanwhile.
KeepsList == List!Spec

\* Every command comes to an end.
CommandsEnd == \A p \in Process : []<>At(p, "idle")

=============================================================================
