----------------------- MODULE ContainerModuleProofs -----------------------
(***************************************************************************)
(* Proofs about ContainerModule, for any number of containers, images,     *)
(* archives, attempts, failed calls and changes of the registry.           *)
(*                                                                         *)
(* The agent and the workflow share the engine's images.  The properties   *)
(* rest on what either may do to them: only the agent takes images away,   *)
(* at the end of a command, so what an install has found stays until it    *)
(* is over.                                                                *)
(***************************************************************************)
EXTENDS ContainerModule, WellFoundedInduction, TLAPS

-----------------------------------------------------------------------------
(***************************************************************************)
(* The images of an archive                                                *)
(***************************************************************************)

\* A set of numbers that is not empty has a least one,
LEMMA LeastNumber ==
  ASSUME NEW S \in SUBSET Nat, S # {}
  PROVE  \E k \in S : \A l \in S : k <= l
<1> DEFINE Less == {p \in Nat \X Nat : p[1] < p[2]}
<1>1. IsWellFoundedOn(Less, Nat)
  BY NatLessThanWellFounded DEF OpToRel
<1>2. PICK k \in S : \A l \in S : <<l, k>> \notin Less
  <2> HIDE DEF Less
  <2> QED
    BY <1>1, WFMin, Zenon
<1>3. ASSUME NEW l \in S PROVE k <= l
  <2>1. l \in Nat /\ k \in Nat
    OBVIOUS
  <2>2. ~(l < k)
    BY <1>2, <2>1
  <2> QED
    BY <2>1, <2>2
<1> QED
  BY <1>3

\* and one below a bound a greatest one.
LEMMA GreatestNumber ==
  ASSUME NEW n \in Nat, NEW S \in SUBSET (0..n), S # {}
  PROVE  \E k \in S : \A l \in S : l <= k
<1> DEFINE T == {n - k : k \in S}
<1>1. T \in SUBSET Nat /\ T # {}
  <2>1. ASSUME NEW k \in S PROVE n - k \in Nat
    <3>1. k \in 0..n
      OBVIOUS
    <3> QED
      BY <3>1
  <2> QED
    BY <2>1
<1>2. PICK t \in T : \A u \in T : t <= u
  BY <1>1, LeastNumber
<1>3. PICK k \in S : t = n - k
  OBVIOUS
<1>4. \A l \in S : l <= k
  <2>1. ASSUME NEW l \in S PROVE l <= k
    <3>1. n - k <= n - l
      BY <1>2, <1>3
    <3> QED
      BY <3>1
  <2> QED
    BY <2>1
<1> QED
  BY <1>4

-----------------------------------------------------------------------------
(***************************************************************************)
(* Archives and references                                                 *)
(***************************************************************************)

\* The types of what is in an archive.
LEMMA ContentsTyped ==
  ASSUME NEW a \in Archive
  PROVE  /\ Len(Contents[a]) \in Nat
         /\ DOMAIN Contents[a] = 1..Len(Contents[a])
         /\ \A k \in DOMAIN Contents[a] :
              /\ Contents[a][k].ref \in Ref
              /\ Contents[a][k].build \in Build
              /\ Lookup(Contents[a][k].ref) \in Image
         /\ Contents[a] # <<>> => 1 \in DOMAIN Contents[a]
<1>1. Contents[a] \in Seq([ref : Ref, build : Build])
  BY ModuleAssumption
<1>2. /\ Len(Contents[a]) \in Nat
      /\ DOMAIN Contents[a] = 1..Len(Contents[a])
      /\ Contents[a] # <<>> => 1 \in DOMAIN Contents[a]
  BY <1>1
<1>3. \A k \in DOMAIN Contents[a] : Contents[a][k] \in [ref : Ref, build : Build]
  <2> DEFINE R == [ref : Ref, build : Build]
  <2>1. Contents[a] \in Seq(R)
    BY <1>1
  <2> HIDE DEF R
  <2>2. \A k \in DOMAIN Contents[a] : Contents[a][k] \in R
    BY <2>1
  <2> QED
    BY <2>2 DEF R
<1>4. \A k \in DOMAIN Contents[a] : Lookup(Contents[a][k].ref) \in Image
  BY ModuleAssumption
<1> QED
  BY <1>2, <1>3, <1>4

\* A match is the number of an image in the archive.
LEMMA MatchFound ==
  ASSUME NEW a \in Archive, NEW ref, Match(a, ref) # 0
  PROVE  Match(a, ref) \in DOMAIN Contents[a]
<1> DEFINE equal == {k \in DOMAIN Contents[a] : ImageRefsEqual(Contents[a][k].ref, ref)}
<1>1. equal # {}
  BY DEF Match
<1>2. equal \in SUBSET Nat
  BY ContentsTyped
<1>3. \E k \in equal : \A l \in equal : k <= l
  BY <1>1, <1>2, LeastNumber
<1>4. Match(a, ref) \in equal
  <2> HIDE DEF equal
  <2>1. Match(a, ref) = CHOOSE k \in equal : \A l \in equal : k <= l
    BY <1>1 DEF Match, equal
  <2> QED
    BY <1>3, <2>1
<1> QED
  BY <1>4

\* After an archive is loaded, the engine has what is in it, and what it had.
LEMMA LoadedHas ==
  ASSUME store \in [Image -> OrNone(Build)], NEW a \in Archive
  PROVE  /\ Loaded(a) \in [Image -> OrNone(Build)]
         /\ \A i \in Image : store[i] # None => Loaded(a)[i] # None
         /\ \A k \in DOMAIN Contents[a] : Loaded(a)[Lookup(Contents[a][k].ref)] # None
<1> DEFINE holds(i) == {k \in DOMAIN Contents[a] : Lookup(Contents[a][k].ref) = i}
           chosen(i) == CHOOSE k \in holds(i) : \A l \in holds(i) : l <= k
<1>1. ASSUME NEW i \in Image, holds(i) # {}
      PROVE  chosen(i) \in DOMAIN Contents[a] /\ Loaded(a)[i] = Contents[a][chosen(i)].build
  <2>1. PICK greatest \in holds(i) : \A l \in holds(i) : l <= greatest
    <3>1. Len(Contents[a]) \in Nat /\ holds(i) \in SUBSET (0..Len(Contents[a]))
      BY ContentsTyped
    <3> HIDE DEF holds
    <3> QED
      BY <1>1, <3>1, GreatestNumber
  <2>2. chosen(i) \in holds(i)
    <3> HIDE DEF holds
    <3> QED
      BY <2>1
  <2>3. (CHOOSE k \in DOMAIN Contents[a] :
           /\ Lookup(Contents[a][k].ref) = i
           /\ \A l \in DOMAIN Contents[a] : Lookup(Contents[a][l].ref) = i => l <= k)
        \in DOMAIN Contents[a]
    BY <2>1
  <2> QED
    BY <1>1, <2>2, <2>3 DEF Loaded
<1>2. ASSUME NEW i \in Image
      PROVE  /\ Loaded(a)[i] \in OrNone(Build)
             /\ store[i] # None \/ holds(i) # {} => Loaded(a)[i] # None
  <2>1. CASE holds(i) # {}
    <3>1. Loaded(a)[i] \in Build
      <4> HIDE DEF chosen
      <4> QED
        BY <1>1, <2>1, ContentsTyped
    <3> QED
      BY <3>1, ModuleAssumption DEF OrNone
  <2>2. CASE holds(i) = {}
    <3>1. Loaded(a)[i] = store[i]
      BY <2>2 DEF Loaded
    <3> QED
      BY <2>2, <3>1
  <2> QED
    BY <2>1, <2>2
<1>3. ASSUME NEW k \in DOMAIN Contents[a]
      PROVE  Lookup(Contents[a][k].ref) \in Image /\ holds(Lookup(Contents[a][k].ref)) # {}
  BY ContentsTyped
<1>4. Loaded(a) \in [Image -> OrNone(Build)]
  <2> DEFINE value(i) ==
               IF \E k \in DOMAIN Contents[a] : Lookup(Contents[a][k].ref) = i
               THEN Contents[a][CHOOSE k \in DOMAIN Contents[a] :
                                  /\ Lookup(Contents[a][k].ref) = i
                                  /\ \A l \in DOMAIN Contents[a] :
                                       Lookup(Contents[a][l].ref) = i => l <= k].build
               ELSE store[i]
  <2>1. Loaded(a) = [i \in Image |-> value(i)]
    BY DEF Loaded
  <2> HIDE DEF value
  <2>2. \A i \in Image : value(i) \in OrNone(Build)
    BY <1>2, <2>1
  <2> QED
    BY <2>1, <2>2
<1> HIDE DEF holds
<1> QED
  BY <1>2, <1>3, <1>4

\* References are put together of references.
LEMMA Join ==
  ASSUME NEW a \in Ref, NEW b \in Ref
  PROVE  a \o b \in Ref
BY DEF Ref

\* What is built of a name and a version is a reference.
LEMMA BuiltRef ==
  ASSUME NEW name \in Ref, NEW version \in Ref
  PROVE  BuildImageRef(name, version) \in Ref
BY Join DEF BuildImageRef

\* So are what list shows of an image and what remove makes of it.
LEMMA ListedRef ==
  ASSUME NEW i \in Image
  PROVE  /\ CutTag(RepoTag[i]).version \in Ref
         /\ RemovalRef(CutTag(RepoTag[i]).name, CutTag(RepoTag[i]).version) \in Ref
<1>1. RepoTag[i] \in Ref /\ RepoTag[i] # <<>>
  BY ModuleAssumption
<1>2. RepoTag[i][1] \in Part /\ Tail(RepoTag[i]) \in Ref
  BY <1>1 DEF Ref
<1>3. <<RepoTag[i][1]>> \in Ref
  BY <1>2 DEF Ref
<1> QED
  BY <1>2, <1>3, Join DEF CutTag, RemovalRef

-----------------------------------------------------------------------------
(***************************************************************************)
(* Types                                                                   *)
(***************************************************************************)

\* Which step belongs to which command.
Shape(c) ==
  /\ c.step = "load" => c.file # None
  /\ c.step \in {"load", "look", "pull", "docker", "verify"} => c.op \in {"install", "image-install"}
  /\ c.step \in {"network", "create", "start"} => c.op = "install"
  /\ c.step \in {"stop", "rm"} => c.op \in {"install", "remove"}
  /\ c.step = "untag" => c.op = "image-remove"
  /\ c.step = "prune" => c.op = "finalize"
  /\ c.op = "image-remove" => c.step = "untag"
  /\ c.step # "idle" /\ c.op \in {"install", "remove"} => c.module \in Module

CommandsTyped ==
  /\ cmd \in [Process -> Command]
  /\ \A p \in Process : Shape(cmd[p])
  /\ last \in Outcome

RestTyped ==
  /\ store \in [Image -> OrNone(Build)]
  /\ registry \in [Image -> OrNone(Build)]
  /\ credentials \in Credentials
  /\ network \in BOOLEAN
  /\ faults \in Nat /\ changes \in Nat

\* The types of all but the containers.
TypeInv == CommandsTyped /\ RestTyped

\* One command becomes another.
LEMMA CommandChanged ==
  ASSUME CommandsTyped, NEW p \in Process, NEW d \in Command, Shape(d),
         cmd' = [cmd EXCEPT ![p] = d], last' \in Outcome
  PROVE  CommandsTyped'
<1>1. cmd' \in [Process -> Command]
  BY DEF CommandsTyped
<1>2. \A q \in Process : Shape(cmd'[q])
  BY DEF CommandsTyped
<1>3. \A q \in Process : Shape(cmd[q])'
  BY <1>2 DEF Shape
<1> QED
  BY <1>1, <1>3 DEF CommandsTyped

\* A process that has nothing to do has its types and its shape.
LEMMA NothingTyped == Nothing \in Command /\ Shape(Nothing) /\ NoOutcome \in Outcome
<1>1. <<>> \in Ref
  BY DEF Ref
<1>2. 1 \in 1..MaxAttempts
  BY ModuleAssumption
<1>3. Nothing \in Command
  BY <1>1, <1>2 DEF Nothing, New, Command, Step, Op, OrNone
<1> QED
  BY <1>1, <1>3 DEF Nothing, New, NoOutcome, Outcome, Shape, Op, OrNone

\* The end of a command keeps the types.
LEMMA ConcludeTyped ==
  ASSUME CommandsTyped, NEW p \in Process, NEW result \in {"none", "ok", "error"},
         NEW blameless \in BOOLEAN, NEW unread \in BOOLEAN,
         Conclude(p, result, blameless, unread)
  PROVE  CommandsTyped'
<1>1. (Excused(p) \/ blameless) \in BOOLEAN
  OBVIOUS
<1>2. cmd[p] \in Command
  BY DEF CommandsTyped
<1>3. last' \in Outcome
  <2> DEFINE e == Excused(p) \/ blameless
  <2>1. e \in BOOLEAN
    BY <1>1
  <2>2. last' = last \/ last' = [op |-> cmd[p].op, module |-> cmd[p].module,
                                 version |-> cmd[p].version, file |-> cmd[p].file,
                                 result |-> result, excused |-> e, unread |-> unread]
    BY DEF Conclude
  <2> HIDE DEF e
  <2> QED
    BY <1>2, <2>1, <2>2 DEF Outcome, Command, CommandsTyped
<1> QED
  BY <1>3, NothingTyped, CommandChanged DEF Conclude

LEMMA EndTyped ==
  ASSUME CommandsTyped, NEW p \in Process, NEW result \in {"none", "ok", "error"},
         NEW blameless \in BOOLEAN, End(p, result, blameless)
  PROVE  CommandsTyped'
BY ConcludeTyped DEF End

\* A step that changes what a command works with.
LEMMA StepTyped ==
  ASSUME CommandsTyped, NEW p \in Process, NEW step \in Step, NEW ref \in Ref,
         NEW attempt \in 1..MaxAttempts, NEW auth \in BOOLEAN, NEW unseen \in BOOLEAN,
         NEW excused \in BOOLEAN, UNCHANGED last,
         cmd' = [cmd EXCEPT ![p] = [step |-> step, op |-> cmd[p].op, module |-> cmd[p].module,
                                    version |-> cmd[p].version, ref |-> ref,
                                    file |-> cmd[p].file, attempt |-> attempt, auth |-> auth,
                                    unseen |-> unseen, excused |-> excused]],
         Shape(cmd'[p])
  PROVE  CommandsTyped'
<1>1. cmd[p] \in Command
  BY DEF CommandsTyped
<1>2. cmd'[p] \in Command /\ cmd' = [cmd EXCEPT ![p] = cmd'[p]]
  BY <1>1 DEF Command, CommandsTyped
<1> QED
  BY <1>2, CommandChanged DEF CommandsTyped

\* The fields of a command.
LEMMA Fields ==
  ASSUME CommandsTyped, NEW p \in Process
  PROVE  /\ cmd[p] \in Command /\ Shape(cmd[p])
         /\ cmd[p].step \in Step /\ cmd[p].op \in Op /\ cmd[p].ref \in Ref
         /\ cmd[p].version \in Ref /\ cmd[p].file \in OrNone(Archive)
         /\ cmd[p].attempt \in 1..MaxAttempts
         /\ cmd[p].auth \in BOOLEAN /\ cmd[p].unseen \in BOOLEAN /\ cmd[p].excused \in BOOLEAN
BY DEF CommandsTyped, Command

\* A command with some fields changed, spelled out.
Changed(c, step, ref, attempt, auth, unseen, excused) ==
  [step |-> step, op |-> c.op, module |-> c.module, version |-> c.version, ref |-> ref,
   file |-> c.file, attempt |-> attempt, auth |-> auth, unseen |-> unseen,
   excused |-> excused]

\* What a change of step and excuse leaves of the commands.
LEMMA ExceptExcused ==
  ASSUME NEW c \in Command, NEW step, NEW excused
  PROVE  [c EXCEPT !.step = step, !.excused = excused]
         = Changed(c, step, c.ref, c.attempt, c.auth, c.unseen, excused)
<1>1. [c EXCEPT !.step = step] = Changed(c, step, c.ref, c.attempt, c.auth, c.unseen, c.excused)
  BY DEF Command, Changed
<1>2. [Changed(c, step, c.ref, c.attempt, c.auth, c.unseen, c.excused) EXCEPT !.excused = excused]
        = Changed(c, step, c.ref, c.attempt, c.auth, c.unseen, excused)
  BY DEF Changed
<1> QED
  BY <1>1, <1>2

\* What a change of the reference leaves of them.
LEMMA ExceptRef ==
  ASSUME NEW c \in Command, NEW step, NEW ref, NEW unseen
  PROVE  [c EXCEPT !.step = step, !.ref = ref, !.unseen = unseen]
         = Changed(c, step, ref, c.attempt, c.auth, unseen, c.excused)
<1>1. [c EXCEPT !.step = step] = Changed(c, step, c.ref, c.attempt, c.auth, c.unseen, c.excused)
  BY DEF Command, Changed
<1>2. [Changed(c, step, c.ref, c.attempt, c.auth, c.unseen, c.excused) EXCEPT !.ref = ref]
        = Changed(c, step, ref, c.attempt, c.auth, c.unseen, c.excused)
  BY DEF Changed
<1>3. [Changed(c, step, ref, c.attempt, c.auth, c.unseen, c.excused) EXCEPT !.unseen = unseen]
        = Changed(c, step, ref, c.attempt, c.auth, unseen, c.excused)
  BY DEF Changed
<1> QED
  BY <1>1, <1>2, <1>3

\* What one more attempt leaves of them.
LEMMA ExceptAttempt ==
  ASSUME NEW c \in Command, NEW step, NEW excused
  PROVE  [c EXCEPT !.step = step, !.attempt = @ + 1, !.excused = excused]
         = Changed(c, step, c.ref, c.attempt + 1, c.auth, c.unseen, excused)
<1>1. [c EXCEPT !.step = step] = Changed(c, step, c.ref, c.attempt, c.auth, c.unseen, c.excused)
  BY DEF Command, Changed
<1>2. [Changed(c, step, c.ref, c.attempt, c.auth, c.unseen, c.excused) EXCEPT !.attempt = @ + 1]
        = Changed(c, step, c.ref, c.attempt + 1, c.auth, c.unseen, c.excused)
  BY DEF Changed
<1>3. [Changed(c, step, c.ref, c.attempt + 1, c.auth, c.unseen, c.excused) EXCEPT !.excused = excused]
        = Changed(c, step, c.ref, c.attempt + 1, c.auth, c.unseen, excused)
  BY DEF Changed
<1> QED
  BY <1>1, <1>2, <1>3

\* Goto changes the step and the excuse of one process.
LEMMA GotoChanges ==
  ASSUME CommandsTyped, NEW p \in Process, NEW step, Goto(p, step)
  PROVE  cmd' = [cmd EXCEPT ![p] = Changed(cmd[p], step, cmd[p].ref, cmd[p].attempt,
                                           cmd[p].auth, cmd[p].unseen, Excused(p))]
<1>1. [cmd[p] EXCEPT !.step = step, !.excused = Excused(p)]
        = Changed(cmd[p], step, cmd[p].ref, cmd[p].attempt, cmd[p].auth, cmd[p].unseen, Excused(p))
  <2> DEFINE c == cmd[p]
             e == Excused(p)
  <2>1. c \in Command
    BY Fields
  <2> HIDE DEF c, e
  <2>2. [c EXCEPT !.step = step, !.excused = e]
        = Changed(c, step, c.ref, c.attempt, c.auth, c.unseen, e)
    BY <2>1, ExceptExcused
  <2> QED
    BY <2>2 DEF c, e
<1>2. cmd' = [cmd EXCEPT ![p] = [cmd[p] EXCEPT !.step = step, !.excused = Excused(p)]]
  BY DEF Goto, CommandsTyped
<1> QED
  BY <1>1, <1>2

\* Proceed changes the step, the reference and whether the answer was read.
LEMMA ProceedChanges ==
  ASSUME CommandsTyped, NEW p \in Process, NEW step, NEW ref, NEW unseen,
         Proceed(p, step, ref, unseen)
  PROVE  cmd' = [cmd EXCEPT ![p] = Changed(cmd[p], step, ref, cmd[p].attempt,
                                           cmd[p].auth, unseen, cmd[p].excused)]
<1>1. [cmd[p] EXCEPT !.step = step, !.ref = ref, !.unseen = unseen]
        = Changed(cmd[p], step, ref, cmd[p].attempt, cmd[p].auth, unseen, cmd[p].excused)
  BY Fields, ExceptRef, Zenon
<1>2. cmd' = [cmd EXCEPT ![p] = [cmd[p] EXCEPT !.step = step, !.ref = ref, !.unseen = unseen]]
  BY DEF Proceed, CommandsTyped
<1> QED
  BY <1>1, <1>2

\* A failed attempt goes back to the pull, or ends the command.
LEMMA RetryChanges ==
  ASSUME CommandsTyped, NEW p \in Process, AttemptFailed(p), cmd[p].attempt < MaxAttempts
  PROVE  cmd' = [cmd EXCEPT ![p] = Changed(cmd[p], "pull", cmd[p].ref, cmd[p].attempt + 1,
                                           cmd[p].auth, cmd[p].unseen, Excused(p))]
<1>1. [cmd[p] EXCEPT !.step = "pull", !.attempt = @ + 1, !.excused = Excused(p)]
        = Changed(cmd[p], "pull", cmd[p].ref, cmd[p].attempt + 1, cmd[p].auth, cmd[p].unseen,
                  Excused(p))
  <2> DEFINE c == cmd[p]
             e == Excused(p)
  <2>1. c \in Command
    BY Fields
  <2> HIDE DEF c, e
  <2>2. [c EXCEPT !.step = "pull", !.attempt = @ + 1, !.excused = e]
        = Changed(c, "pull", c.ref, c.attempt + 1, c.auth, c.unseen, e)
    BY <2>1, ExceptAttempt
  <2> QED
    BY <2>2 DEF c, e
<1>2. cmd' = [cmd EXCEPT ![p] = [cmd[p] EXCEPT !.step = "pull", !.attempt = @ + 1,
                                               !.excused = Excused(p)]]
  BY DEF AttemptFailed, CommandsTyped
<1> QED
  BY <1>1, <1>2

\* Authorized changes the step and the credentials.
LEMMA AuthorizedChanges ==
  ASSUME CommandsTyped, NEW p \in Process, NEW step, NEW auth, Authorized(p, step, auth)
  PROVE  cmd' = [cmd EXCEPT ![p] = Changed(cmd[p], step, cmd[p].ref, cmd[p].attempt,
                                           auth, cmd[p].unseen, Excused(p))]
<1>1. [cmd[p] EXCEPT !.step = step, !.auth = auth, !.excused = Excused(p)]
        = Changed(cmd[p], step, cmd[p].ref, cmd[p].attempt, auth, cmd[p].unseen, Excused(p))
  <2> DEFINE c == cmd[p]
             e == Excused(p)
  <2>1. c \in Command
    BY Fields
  <2> HIDE DEF c, e
  <2>2. [c EXCEPT !.step = step]
        = Changed(c, step, c.ref, c.attempt, c.auth, c.unseen, c.excused)
    BY <2>1 DEF Command, Changed
  <2>3. [Changed(c, step, c.ref, c.attempt, c.auth, c.unseen, c.excused) EXCEPT !.auth = auth]
        = Changed(c, step, c.ref, c.attempt, auth, c.unseen, c.excused)
    BY DEF Changed
  <2>4. [Changed(c, step, c.ref, c.attempt, auth, c.unseen, c.excused) EXCEPT !.excused = e]
        = Changed(c, step, c.ref, c.attempt, auth, c.unseen, e)
    BY DEF Changed
  <2>5. [c EXCEPT !.step = step, !.auth = auth, !.excused = e]
        = Changed(c, step, c.ref, c.attempt, auth, c.unseen, e)
    BY <2>2, <2>3, <2>4
  <2> QED
    BY <2>5 DEF c, e
<1>2. cmd' = [cmd EXCEPT ![p] = [cmd[p] EXCEPT !.step = step, !.auth = auth,
                                               !.excused = Excused(p)]]
  BY DEF Authorized, CommandsTyped
<1> QED
  BY <1>1, <1>2

\* Goto keeps the types.
LEMMA GotoTyped ==
  ASSUME CommandsTyped, NEW p \in Process, NEW step \in Step, Goto(p, step),
         Shape(Changed(cmd[p], step, cmd[p].ref, cmd[p].attempt, cmd[p].auth, cmd[p].unseen,
                       Excused(p)))
  PROVE  CommandsTyped'
<1>1. Excused(p) \in BOOLEAN
  BY DEF Excused
<1>2. UNCHANGED last
  BY DEF Goto
<1> QED
  BY <1>1, <1>2, GotoChanges, Fields, StepTyped DEF Changed, CommandsTyped

\* Authorized keeps the types.
LEMMA AuthorizedTyped ==
  ASSUME CommandsTyped, NEW p \in Process, NEW step \in Step, NEW auth \in BOOLEAN,
         Authorized(p, step, auth),
         Shape(Changed(cmd[p], step, cmd[p].ref, cmd[p].attempt, auth, cmd[p].unseen,
                       Excused(p)))
  PROVE  CommandsTyped'
<1>1. Excused(p) \in BOOLEAN
  BY DEF Excused
<1>2. UNCHANGED last
  BY DEF Authorized
<1> QED
  BY <1>1, <1>2, AuthorizedChanges, Fields, StepTyped DEF Changed, CommandsTyped

\* Proceed keeps the types.
LEMMA ProceedTyped ==
  ASSUME CommandsTyped, NEW p \in Process, NEW step \in Step, NEW ref \in Ref,
         NEW unseen \in BOOLEAN, Proceed(p, step, ref, unseen),
         Shape(Changed(cmd[p], step, ref, cmd[p].attempt, cmd[p].auth, unseen, cmd[p].excused))
  PROVE  CommandsTyped'
<1>1. UNCHANGED last
  BY DEF Proceed
<1> QED
  BY <1>1, ProceedChanges, Fields, StepTyped DEF Changed, CommandsTyped

\* A failed attempt keeps the types.
LEMMA AttemptFailedTyped ==
  ASSUME CommandsTyped, NEW p \in Process, AttemptFailed(p),
         cmd[p].op \in {"install", "image-install"},
         cmd[p].op = "install" => cmd[p].module \in Module
  PROVE  CommandsTyped'
<1>1. CASE cmd[p].attempt < MaxAttempts
  <2>1. Excused(p) \in BOOLEAN
    BY DEF Excused
  <2>2. UNCHANGED last /\ cmd[p].attempt + 1 \in 1..MaxAttempts
    BY <1>1, Fields, ModuleAssumption DEF AttemptFailed
  <2>3. Shape(Changed(cmd[p], "pull", cmd[p].ref, cmd[p].attempt + 1, cmd[p].auth,
                      cmd[p].unseen, Excused(p)))
    BY DEF Shape, Changed
  <2> QED
    BY <1>1, <2>1, <2>2, <2>3, RetryChanges, Fields, StepTyped DEF Changed, CommandsTyped, Step
<1>2. CASE ~(cmd[p].attempt < MaxAttempts)
  BY <1>2, EndTyped DEF AttemptFailed
<1> QED
  BY <1>1, <1>2

\* A new command.
LEMMA BeginTyped ==
  ASSUME TypeInv, NEW p \in Process, NEW command \in Command, Shape(command), Begin(p, command)
  PROVE  TypeInv'
<1>1. last' \in Outcome /\ cmd' = [cmd EXCEPT ![p] = command]
  BY NothingTyped DEF Begin, TypeInv, CommandsTyped
<1>2. CommandsTyped'
  BY <1>1, CommandChanged DEF TypeInv
<1>3. RestTyped'
  BY DEF Begin, worldVars, engineVars, counters, TypeInv, RestTyped
<1> QED
  BY <1>2, <1>3 DEF TypeInv

\* The new commands are commands.
LEMMA BeginsTyped ==
  ASSUME TypeInv,
         \/ BeginInstall \/ BeginRemove \/ BeginImageRemove \/ BeginFinalize
         \/ BeginImageInstall("agent", Images) \/ BeginImageInstall("workflow", Tools)
  PROVE  TypeInv'
<1> USE DEF Process
<1>0. <<>> \in Ref /\ 1 \in 1..MaxAttempts
  BY ModuleAssumption DEF Ref
<1>1. ASSUME BeginInstall PROVE TypeInv'
  <2>1. PICK r \in Containers :
          Begin("agent", [step |-> IF r.file # None THEN "load" ELSE "network", op |-> "install",
                          module |-> r.module, version |-> r.version, ref |-> r.version,
                          file |-> r.file, attempt |-> 1, auth |-> FALSE, unseen |-> FALSE,
                          excused |-> FALSE])
    BY <1>1 DEF BeginInstall, New
  <2>2. r.module \in Module /\ r.version \in Ref /\ r.file \in OrNone(Archive)
    BY ModuleAssumption
  <2> QED
    BY <1>0, <2>1, <2>2, BeginTyped DEF Command, Step, Op, OrNone, Shape
<1>2. ASSUME BeginRemove PROVE TypeInv'
  <2>1. PICK m \in Module :
          Begin("agent", [step |-> "stop", op |-> "remove", module |-> m, version |-> <<>>,
                          ref |-> <<>>, file |-> None, attempt |-> 1, auth |-> FALSE,
                          unseen |-> FALSE, excused |-> FALSE])
    BY <1>2 DEF BeginRemove, New
  <2> QED
    BY <1>0, <2>1, BeginTyped DEF Command, Step, Op, OrNone, Shape
<1>3. ASSUME BeginImageRemove PROVE TypeInv'
  <2>1. PICK i \in Image :
          Begin("agent", [step |-> "untag", op |-> "image-remove", module |-> None,
                          version |-> CutTag(RepoTag[i]).version,
                          ref |-> RemovalRef(CutTag(RepoTag[i]).name, CutTag(RepoTag[i]).version),
                          file |-> None, attempt |-> 1, auth |-> FALSE, unseen |-> FALSE,
                          excused |-> FALSE])
    BY <1>3 DEF BeginImageRemove, New
  <2> QED
    BY <1>0, <2>1, ListedRef, BeginTyped DEF Command, Step, Op, OrNone, Shape
<1>4. ASSUME BeginFinalize PROVE TypeInv'
  <2>1. Begin("agent", [step |-> "prune", op |-> "finalize", module |-> None, version |-> <<>>,
                        ref |-> <<>>, file |-> None, attempt |-> 1, auth |-> FALSE,
                        unseen |-> FALSE, excused |-> FALSE])
    BY <1>4 DEF BeginFinalize, New
  <2> QED
    BY <1>0, <2>1, BeginTyped DEF Command, Step, Op, OrNone, Shape
<1>5. ASSUME NEW p \in Process, NEW requests \in SUBSET (Images \cup Tools),
             BeginImageInstall(p, requests)
      PROVE  TypeInv'
  <2>1. PICK r \in requests :
          Begin(p, [step |-> IF r.file # None THEN "load" ELSE "look", op |-> "image-install",
                    module |-> None, version |-> r.version,
                    ref |-> BuildImageRef(r.name, r.version), file |-> r.file, attempt |-> 1,
                    auth |-> FALSE, unseen |-> FALSE, excused |-> FALSE])
    BY <1>5 DEF BeginImageInstall, New
  <2>2. r.name \in Ref /\ r.version \in Ref /\ r.file \in OrNone(Archive)
    BY ModuleAssumption
  <2>3. BuildImageRef(r.name, r.version) \in Ref
    BY <2>2, BuiltRef
  <2> QED
    BY <1>0, <2>1, <2>2, <2>3, BeginTyped DEF Command, Step, Op, OrNone, Shape
<1> QED
  BY <1>1, <1>2, <1>3, <1>4, <1>5

\* Calls that work or fail are counted.
LEMMA CallTyped ==
  ASSUME TypeInv, Works \/ (\E call \in Call : Fails(call))
  PROVE  faults' \in Nat
BY DEF TypeInv, RestTyped, Works, Fails

\* What is used of a file is a reference of an image in it.
LEMMA UsedFromFile ==
  ASSUME NEW c, c.file \in Archive, Match(c.file, c.ref) # 0 \/ Contents[c.file] # <<>>
  PROVE  \E k \in DOMAIN Contents[c.file] :
           /\ ToUse(c) = Contents[c.file][k].ref
           /\ ToUse(c) \in Ref
<1>1. PICK k \in DOMAIN Contents[c.file] : ToUse(c) = Contents[c.file][k].ref
  BY MatchFound, ContentsTyped DEF ToUse
<1> QED
  BY <1>1, ContentsTyped

\* An image from a file keeps the types.
LEMMA LoadTyped ==
  ASSUME TypeInv, NEW p \in Process, Load(p)
  PROVE  TypeInv'
<1>1. /\ cmd[p].step = "load" /\ cmd[p].file \in Archive
      /\ cmd[p].op \in {"install", "image-install"}
      /\ cmd[p].op = "install" => cmd[p].module \in Module
  BY Fields DEF Load, At, Shape, TypeInv, OrNone
<1>2. store' \in [Image -> OrNone(Build)]
  BY <1>1, LoadedHas DEF Load, TypeInv, RestTyped
<1>3. faults' \in Nat
  BY CallTyped DEF Load, Call
<1>4. RestTyped'
  BY <1>2, <1>3 DEF Load, worldVars, TypeInv, RestTyped
<1>5. \/ End(p, "error", FALSE) \/ Conclude(p, "ok", FALSE, TRUE) \/ End(p, "ok", FALSE)
      \/ End(p, "error", TRUE)
      \/ /\ cmd[p].op = "install"
         /\ Match(cmd[p].file, cmd[p].ref) # 0 \/ Contents[cmd[p].file] # <<>>
         /\ Proceed(p, "network", ToUse(cmd[p]), FALSE)
      \/ /\ cmd[p].op = "install"
         /\ Proceed(p, "network", cmd[p].ref, TRUE)
  BY DEF Load
<1>6. CommandsTyped'
  <2>1. ASSUME NEW ref \in Ref, NEW unseen \in BOOLEAN, Proceed(p, "network", ref, unseen),
               cmd[p].op = "install"
        PROVE  CommandsTyped'
    BY <1>1, <2>1, ProceedTyped DEF Shape, Changed, Step, TypeInv
  <2>2. cmd[p].ref \in Ref
    BY Fields DEF TypeInv
  <2>3. Match(cmd[p].file, cmd[p].ref) # 0 \/ Contents[cmd[p].file] # <<>> => ToUse(cmd[p]) \in Ref
    BY <1>1, UsedFromFile
  <2> QED
    BY <1>5, <2>1, <2>2, <2>3, EndTyped, ConcludeTyped DEF TypeInv
<1> QED
  BY <1>4, <1>6 DEF TypeInv

\* An image that is there keeps the types.
LEMMA ImageFoundTyped ==
  ASSUME CommandsTyped, NEW p \in Process, ImageFound(p),
         cmd[p].op \in {"install", "image-install"},
         cmd[p].op = "install" => cmd[p].module \in Module
  PROVE  CommandsTyped'
<1>1. CASE cmd[p].op = "install"
  <2>1. Proceed(p, "stop", cmd[p].ref, FALSE) /\ cmd[p].ref \in Ref
    BY <1>1, Fields DEF ImageFound, AfterImage
  <2> QED
    BY <1>1, <2>1, ProceedTyped DEF Shape, Changed, Step
<1>2. CASE cmd[p].op # "install"
  BY <1>2, EndTyped DEF ImageFound, AfterImage
<1> QED
  BY <1>1, <1>2

\* The steps that see to an image.
LEMMA ImageStepsTyped ==
  ASSUME TypeInv, NEW p \in Process,
         CreateSharedNetwork(p) \/ Look(p) \/ Pull(p) \/ DockerPull(p) \/ Verify(p)
  PROVE  TypeInv'
<1>1. CommandsTyped /\ RestTyped /\ Shape(cmd[p])
  BY Fields DEF TypeInv
<1>2. faults' \in Nat
  BY CallTyped DEF CreateSharedNetwork, Look, Pull, DockerPull, Verify, Call
<1>3. ASSUME CreateSharedNetwork(p) PROVE TypeInv'
  <2>1. cmd[p].op = "install" /\ cmd[p].module \in Module
    BY <1>1, <1>3 DEF CreateSharedNetwork, At, Shape
  <2>2. Goto(p, "stop") \/ Goto(p, "look") \/ End(p, "error", FALSE)
    BY <1>3 DEF CreateSharedNetwork, AfterNetwork
  <2>3. CommandsTyped'
    BY <1>1, <2>1, <2>2, GotoTyped, EndTyped DEF Shape, Changed, Step
  <2> QED
    BY <1>1, <1>2, <1>3, <2>3 DEF CreateSharedNetwork, worldVars, RestTyped, TypeInv
<1>4. ASSUME Look(p) \/ Pull(p) \/ DockerPull(p) \/ Verify(p)
      PROVE  /\ cmd[p].op \in {"install", "image-install"}
             /\ cmd[p].op = "install" => cmd[p].module \in Module
  BY <1>1, <1>4 DEF Look, Pull, DockerPull, Verify, At, Shape
<1>5. ASSUME Look(p) PROVE TypeInv'
  <2>1. ImageFound(p) \/ Goto(p, "pull")
    BY <1>5 DEF Look
  <2>2. CommandsTyped'
    BY <1>1, <1>4, <1>5, <2>1, ImageFoundTyped, GotoTyped DEF Shape, Changed, Step
  <2> QED
    BY <1>1, <1>2, <1>5, <2>2 DEF Look, worldVars, engineVars, RestTyped, TypeInv
<1>6. ASSUME Pull(p) PROVE TypeInv'
  <2>1. store' \in [Image -> OrNone(Build)] /\ credentials' \in Credentials
    BY <1>1, <1>6 DEF Pull, Pulled, Permitted, Published, Credentials, RestTyped
  <2>2. UNCHANGED <<registry, network, con, changes>>
    BY <1>6 DEF Pull
  <2>3. RestTyped'
    BY <1>1, <1>2, <2>1, <2>2 DEF RestTyped
  <2>4. PICK step \in {"verify", "docker"}, auth \in BOOLEAN : Authorized(p, step, auth)
    BY <1>1, <1>6 DEF Pull
  <2>5. CommandsTyped'
    <3>1. Shape(Changed(cmd[p], step, cmd[p].ref, cmd[p].attempt, auth, cmd[p].unseen,
                        Excused(p)))
      BY <1>4, <1>6 DEF Shape, Changed
    <3>2. step \in Step
      BY DEF Step
    <3> QED
      BY <1>1, <2>4, <3>1, <3>2, AuthorizedTyped, Zenon
  <2> QED
    BY <2>3, <2>5 DEF TypeInv
<1>7. ASSUME DockerPull(p) PROVE TypeInv'
  <2>1. Goto(p, "verify") \/ AttemptFailed(p)
    BY <1>7 DEF DockerPull
  <2>2. CommandsTyped'
    BY <1>1, <1>4, <1>7, <2>1, AttemptFailedTyped, GotoTyped DEF Shape, Changed, Step
  <2>3. store' \in [Image -> OrNone(Build)]
    BY <1>1, <1>7 DEF DockerPull, Pulled, Permitted, Published, RestTyped
  <2> QED
    BY <1>1, <1>2, <1>7, <2>2, <2>3 DEF DockerPull, worldVars, RestTyped, TypeInv
<1>8. ASSUME Verify(p) PROVE TypeInv'
  <2>1. ImageFound(p) \/ AttemptFailed(p)
    BY <1>8 DEF Verify
  <2>2. CommandsTyped'
    BY <1>1, <1>4, <1>8, <2>1, AttemptFailedTyped, ImageFoundTyped
  <2> QED
    BY <1>1, <1>2, <1>8, <2>2 DEF Verify, worldVars, engineVars, RestTyped, TypeInv
<1> QED
  BY <1>3, <1>5, <1>6, <1>7, <1>8

\* The steps on the container.
LEMMA ContainerStepsTyped ==
  ASSUME TypeInv, NEW p \in Process, Stop(p) \/ Remove(p) \/ Create(p) \/ Start(p)
  PROVE  TypeInv'
<1>1. /\ CommandsTyped /\ RestTyped /\ cmd[p].module \in Module /\ cmd[p].ref \in Ref
      /\ cmd[p].version \in Ref
      /\ cmd[p].op \in {"install", "remove"}
  BY Fields DEF TypeInv, Stop, Remove, Create, Start, At, Shape
<1>2. faults' \in Nat
  BY CallTyped DEF Stop, Remove, Create, Start, Call
<1>3. UNCHANGED <<worldVars, store, network, changes>>
  BY DEF Stop, Remove, Create, Start
<1>4. CommandsTyped'
  <2>1. CASE Stop(p) \/ Remove(p)
    <3>1. \/ Goto(p, "rm") \/ (cmd[p].op = "install" /\ Goto(p, "create"))
          \/ End(p, "ok", FALSE) \/ End(p, "error", FALSE)
      BY <2>1 DEF Stop, Remove, AfterRemoval
    <3> QED
      BY <1>1, <3>1, GotoTyped, EndTyped DEF Shape, Changed, Step
  <2>2. CASE Create(p)
    <3>1. cmd[p].op = "install"
      BY <1>1, <2>2, Fields DEF Create, At, Shape
    <3>2. Goto(p, "start") \/ End(p, "error", cmd[p].unseen) \/ End(p, "error", FALSE)
      BY <2>2 DEF Create
    <3> QED
      BY <1>1, <3>1, <3>2, Fields, GotoTyped, EndTyped DEF Shape, Changed, Step
  <2>3. CASE Start(p)
    BY <1>1, <2>3, EndTyped DEF Start, StartFailed
  <2> QED
    BY <2>1, <2>2, <2>3
<1> QED
  BY <1>1, <1>2, <1>3, <1>4 DEF TypeInv, RestTyped, worldVars

\* The steps that remove images.
LEMMA RemovalsTyped ==
  ASSUME TypeInv, NEW p \in Process, Untag(p) \/ Prune(p)
  PROVE  TypeInv'
<1>1. faults' \in Nat
  BY CallTyped DEF Untag, Prune, Call
<1>2. store' \in [Image -> OrNone(Build)]
  BY DEF Untag, Prune, Has, TypeInv, RestTyped, OrNone
<1>3. UNCHANGED <<worldVars, network, con, changes>>
  BY DEF Untag, Prune
<1>4. CommandsTyped'
  BY EndTyped DEF Untag, Prune, TypeInv
<1> QED
  BY <1>1, <1>2, <1>3, <1>4 DEF TypeInv, RestTyped, worldVars

\* The types hold at first, and every step keeps them.
LEMMA TypeInvInit == Init => TypeInv
<1> SUFFICES ASSUME Init PROVE TypeInv
  OBVIOUS
<1>1. RestTyped
  BY ModuleAssumption DEF Init, RestTyped, Credentials, OrNone
<1>2. CommandsTyped
  BY NothingTyped DEF Init, CommandsTyped
<1> QED
  BY <1>1, <1>2 DEF TypeInv

\* Every step keeps the types.
LEMMA TypeInvStep == TypeInv /\ [Next]_vars => TypeInv'
<1> SUFFICES ASSUME TypeInv, [Next]_vars PROVE TypeInv'
  OBVIOUS
<1>1. ASSUME NEW p \in Process, CommandStep(p) PROVE TypeInv'
  BY <1>1, LoadTyped, ImageStepsTyped, ContainerStepsTyped, RemovalsTyped DEF CommandStep
<1>2. ASSUME Publish \/ RenewCredentials PROVE TypeInv'
  <2>1. registry' \in [Image -> OrNone(Build)]
    BY <1>2 DEF Publish, RenewCredentials, TypeInv, RestTyped
  <2>2. changes' \in Nat /\ UNCHANGED <<engineVars, cmd, last, faults>>
    BY <1>2 DEF Publish, RenewCredentials, Changes, TypeInv, RestTyped
  <2>5. credentials' \in Credentials
    BY <1>2 DEF Publish, RenewCredentials, Credentials, TypeInv, RestTyped
  <2>3. RestTyped'
    BY <2>1, <2>2, <2>5 DEF engineVars, TypeInv, RestTyped
  <2>4. CommandsTyped'
    BY <2>2 DEF TypeInv, CommandsTyped, Shape
  <2> QED
    BY <2>3, <2>4 DEF TypeInv
<1>3. CASE UNCHANGED vars
  BY <1>3 DEF vars, worldVars, engineVars, counters, TypeInv, CommandsTyped, RestTyped, Shape
<1> QED
  BY <1>1, <1>2, <1>3, BeginsTyped DEF Next

-----------------------------------------------------------------------------
(***************************************************************************)
(* What a step does to the commands                                        *)
(***************************************************************************)

\* What a command keeps while it goes on.
SameRequest(c, d) ==
  d.op = c.op /\ d.module = c.module /\ d.version = c.version /\ d.file = c.file

\* Its fields after each kind of step.
LEMMA AfterGoto ==
  ASSUME CommandsTyped, NEW p \in Process, NEW step, Goto(p, step)
  PROVE  /\ SameRequest(cmd[p], cmd'[p]) /\ UNCHANGED last
         /\ cmd'[p].step = step /\ cmd'[p].ref = cmd[p].ref
         /\ cmd'[p].attempt = cmd[p].attempt
         /\ cmd'[p].auth = cmd[p].auth /\ cmd'[p].unseen = cmd[p].unseen
         /\ cmd'[p].excused = Excused(p)
         /\ \A q \in Process : q # p => cmd'[q] = cmd[q]
<1>1. cmd'[p] = Changed(cmd[p], step, cmd[p].ref, cmd[p].attempt, cmd[p].auth, cmd[p].unseen,
                        Excused(p))
      /\ \A q \in Process : q # p => cmd'[q] = cmd[q]
  BY GotoChanges DEF CommandsTyped
<1> QED
  <2> DEFINE d == cmd'[p]
             e == Excused(p)
  <2>1. d = Changed(cmd[p], step, cmd[p].ref, cmd[p].attempt, cmd[p].auth, cmd[p].unseen, e)
    BY <1>1
  <2>2. UNCHANGED last
    BY DEF Goto
  <2> HIDE DEF d, e
  <2>3. /\ SameRequest(cmd[p], d)
        /\ d.step = step /\ d.ref = cmd[p].ref /\ d.attempt = cmd[p].attempt
        /\ d.auth = cmd[p].auth /\ d.unseen = cmd[p].unseen /\ d.excused = e
    BY <2>1 DEF Changed, SameRequest
  <2> QED
    BY <1>1, <2>2, <2>3 DEF d, e

\* The fields after Proceed.
LEMMA AfterProceed ==
  ASSUME CommandsTyped, NEW p \in Process, NEW step, NEW ref, NEW unseen,
         Proceed(p, step, ref, unseen)
  PROVE  /\ SameRequest(cmd[p], cmd'[p]) /\ UNCHANGED last
         /\ cmd'[p].step = step /\ cmd'[p].ref = ref
         /\ cmd'[p].unseen = unseen
         /\ \A q \in Process : q # p => cmd'[q] = cmd[q]
<1>1. cmd'[p] = Changed(cmd[p], step, ref, cmd[p].attempt, cmd[p].auth, unseen,
                        cmd[p].excused)
      /\ \A q \in Process : q # p => cmd'[q] = cmd[q]
  BY ProceedChanges DEF CommandsTyped
<1> QED
  <2> DEFINE d == cmd'[p]
  <2>1. d = Changed(cmd[p], step, ref, cmd[p].attempt, cmd[p].auth, unseen, cmd[p].excused)
    BY <1>1
  <2>2. UNCHANGED last
    BY DEF Proceed
  <2> HIDE DEF d
  <2>3. /\ SameRequest(cmd[p], d)
        /\ d.step = step /\ d.ref = ref /\ d.unseen = unseen
    BY <2>1 DEF Changed, SameRequest
  <2> QED
    BY <1>1, <2>2, <2>3 DEF d

\* The fields after Authorized.
LEMMA AfterAuthorized ==
  ASSUME CommandsTyped, NEW p \in Process, NEW step, NEW auth, Authorized(p, step, auth)
  PROVE  /\ SameRequest(cmd[p], cmd'[p]) /\ UNCHANGED last
         /\ cmd'[p].step = step /\ cmd'[p].ref = cmd[p].ref
         /\ cmd'[p].attempt = cmd[p].attempt
         /\ cmd'[p].auth = auth /\ cmd'[p].unseen = cmd[p].unseen
         /\ cmd'[p].excused = Excused(p)
         /\ \A q \in Process : q # p => cmd'[q] = cmd[q]
<1>1. cmd'[p] = Changed(cmd[p], step, cmd[p].ref, cmd[p].attempt, auth, cmd[p].unseen,
                        Excused(p))
      /\ \A q \in Process : q # p => cmd'[q] = cmd[q]
  BY AuthorizedChanges DEF CommandsTyped
<1> QED
  <2> DEFINE d == cmd'[p]
             e == Excused(p)
  <2>1. d = Changed(cmd[p], step, cmd[p].ref, cmd[p].attempt, auth, cmd[p].unseen, e)
    BY <1>1
  <2>2. UNCHANGED last
    BY DEF Authorized
  <2> HIDE DEF d, e
  <2>3. /\ SameRequest(cmd[p], d)
        /\ d.step = step /\ d.ref = cmd[p].ref /\ d.attempt = cmd[p].attempt
        /\ d.auth = auth /\ d.unseen = cmd[p].unseen /\ d.excused = e
    BY <2>1 DEF Changed, SameRequest
  <2> QED
    BY <1>1, <2>2, <2>3 DEF d, e

\* A command whose attempt failed pulls again or is over.
LEMMA AfterAttempt ==
  ASSUME CommandsTyped, NEW p \in Process, AttemptFailed(p)
  PROVE  \/ /\ cmd[p].attempt = MaxAttempts
            /\ End(p, "error", FALSE)
         \/ /\ SameRequest(cmd[p], cmd'[p]) /\ UNCHANGED last
            /\ cmd'[p].step = "pull" /\ cmd'[p].ref = cmd[p].ref
            /\ \A q \in Process : q # p => cmd'[q] = cmd[q]
<1>1. CASE cmd[p].attempt < MaxAttempts
  <2>1. cmd'[p] = Changed(cmd[p], "pull", cmd[p].ref, cmd[p].attempt + 1, cmd[p].auth,
                          cmd[p].unseen, Excused(p))
        /\ \A q \in Process : q # p => cmd'[q] = cmd[q]
    BY <1>1, RetryChanges DEF CommandsTyped
  <2> QED
    <3>1. UNCHANGED last
      BY <1>1 DEF AttemptFailed
    <3> DEFINE d == cmd'[p]
               e == Excused(p)
    <3>2. d = Changed(cmd[p], "pull", cmd[p].ref, cmd[p].attempt + 1, cmd[p].auth,
                      cmd[p].unseen, e)
      BY <2>1
    <3> HIDE DEF d, e
    <3>3. SameRequest(cmd[p], d) /\ d.step = "pull" /\ d.ref = cmd[p].ref
      BY <3>2 DEF Changed, SameRequest
    <3> QED
      BY <2>1, <3>1, <3>3 DEF d
<1>2. CASE ~(cmd[p].attempt < MaxAttempts)
  <2>1. cmd[p].attempt \in 1..MaxAttempts
    BY Fields
  <2>2. cmd[p].attempt = MaxAttempts
    BY <1>2, <2>1, ModuleAssumption
  <2> QED
    BY <1>2, <2>2 DEF AttemptFailed
<1> QED
  BY <1>1, <1>2

\* A process whose command has ended is idle; the other goes on.
LEMMA AfterConclude ==
  ASSUME CommandsTyped, NEW p \in Process, NEW result, NEW blameless, NEW unread,
         Conclude(p, result, blameless, unread)
  PROVE  /\ cmd'[p].step = "idle" /\ cmd'[p].op = "finalize"
         /\ \A q \in Process : q # p => cmd'[q] = cmd[q]
         /\ p # "agent" => UNCHANGED last
BY DEF Conclude, CommandsTyped, Nothing, New

LEMMA AfterEnd ==
  ASSUME CommandsTyped, NEW p \in Process, NEW result, NEW blameless, End(p, result, blameless)
  PROVE  /\ cmd'[p].step = "idle" /\ cmd'[p].op = "finalize"
         /\ \A q \in Process : q # p => cmd'[q] = cmd[q]
         /\ p # "agent" => UNCHANGED last
BY AfterConclude DEF End

\* What the agent gets of a command that has ended.
LEMMA ResultOfEnd ==
  ASSUME NEW result, NEW blameless, NEW unread, Conclude("agent", result, blameless, unread)
  PROVE  /\ last'.op = cmd["agent"].op /\ last'.module = cmd["agent"].module
         /\ last'.version = cmd["agent"].version /\ last'.file = cmd["agent"].file
         /\ last'.result = result /\ last'.unread = unread
         /\ Excused("agent") \/ blameless => last'.excused
<1> DEFINE c == cmd["agent"]
           e == Excused("agent") \/ blameless
<1>1. last' = [op |-> c.op, module |-> c.module, version |-> c.version,
               file |-> c.file, result |-> result, excused |-> e, unread |-> unread]
  BY DEF Conclude
<1>2. /\ last'.op = c.op /\ last'.module = c.module /\ last'.version = c.version
      /\ last'.file = c.file /\ last'.result = result /\ last'.unread = unread
      /\ last'.excused = e
  <2> HIDE DEF c, e
  <2> QED
    BY <1>1
<1> QED
  BY <1>2

\* A command keeps what it is, and the other's stays.
LEMMA CommandFrame ==
  ASSUME TypeInv, NEW p \in Process, CommandStep(p)
  PROVE  /\ cmd[p].step # "idle"
         /\ cmd'[p].step = "idle" \/ SameRequest(cmd[p], cmd'[p])
         /\ \A q \in Process : q # p => cmd'[q] = cmd[q]
         /\ p # "agent" => UNCHANGED last
<1>1. CommandsTyped
  BY DEF TypeInv
<1>2. cmd[p].step # "idle"
  BY DEF CommandStep, Load, CreateSharedNetwork, Look, Pull, DockerPull, Verify, Stop, Remove,
         Create, Start, Untag, Prune, At
<1>3. \/ \E step : Goto(p, step)
      \/ \E step, ref, unseen : Proceed(p, step, ref, unseen)
      \/ \E step, auth : Authorized(p, step, auth)
      \/ AttemptFailed(p)
      \/ \E result, blameless : End(p, result, blameless)
      \/ Conclude(p, "ok", FALSE, TRUE)
  BY DEF CommandStep, Load, CreateSharedNetwork, Look, Pull, DockerPull, Verify, Stop, Remove,
         Create, Start, Untag, Prune, ImageFound, AfterRemoval, StartFailed
<1> QED
  BY <1>1, <1>2, <1>3, AfterGoto, AfterProceed, AfterAuthorized, AfterAttempt, AfterEnd, AfterConclude

-----------------------------------------------------------------------------
(***************************************************************************)
(* The workflow beside the agent                                           *)
(***************************************************************************)

\* The workflow installs images.
WorkflowInstalls == cmd["workflow"].step # "idle" => cmd["workflow"].op = "image-install"

\* The engine keeps all the images that it has.
KeepsImages == \A i \in Image : store[i] # None => store'[i] # None

\* A pull takes no image away.
LEMMA PulledKeeps ==
  ASSUME RestTyped, NEW ref, Published(ref), Pulled(ref)
  PROVE  KeepsImages /\ Has(ref)'
<1>1. Lookup(ref) \in Image /\ registry[Lookup(ref)] # None
  BY DEF Published
<1>2. store' = [store EXCEPT ![Lookup(ref)] = registry[Lookup(ref)]]
  BY DEF Pulled
<1>3. KeepsImages
  BY <1>1, <1>2 DEF KeepsImages, RestTyped
<1>4. store'[Lookup(ref)] # None
  BY <1>1, <1>2 DEF RestTyped
<1> QED
  BY <1>1, <1>3, <1>4 DEF Has

\* Installing an image takes none away, and is all that the workflow does.
LEMMA WorkflowKeeps ==
  ASSUME TypeInv, WorkflowInstalls, CommandStep("workflow")
  PROVE  KeepsImages /\ UNCHANGED <<network, con, last>> /\ cmd'["agent"] = cmd["agent"]
<1> DEFINE p == "workflow"
<1>0. p \in Process /\ "agent" \in Process
  BY DEF Process
<1>1. UNCHANGED last /\ cmd'["agent"] = cmd["agent"] /\ cmd[p].op = "image-install"
  BY <1>0, CommandFrame DEF WorkflowInstalls
<1>2. Load(p) \/ Look(p) \/ Pull(p) \/ DockerPull(p) \/ Verify(p)
  BY <1>0, <1>1, Fields DEF CommandStep, CreateSharedNetwork, Stop, Remove, Create, Start, Untag,
                           Prune, At, Shape, TypeInv
<1>3. UNCHANGED <<network, con>>
  BY <1>2 DEF Load, Look, Pull, DockerPull, Verify, engineVars
<1>4. KeepsImages
  <2>1. CASE store' = store
    BY <2>1 DEF KeepsImages
  <2>2. CASE Load(p) /\ store' # store
    <3>1. cmd[p].file \in Archive /\ store' = Loaded(cmd[p].file)
      BY <1>0, <2>2, Fields DEF Load, At, Shape, OrNone, TypeInv
    <3> QED
      BY <3>1, LoadedHas DEF KeepsImages, TypeInv, RestTyped
  <2>3. CASE (Pull(p) \/ DockerPull(p)) /\ store' # store
    <3>1. Published(cmd[p].ref) /\ Pulled(cmd[p].ref)
      BY <2>3 DEF Pull, DockerPull, Permitted
    <3> QED
      BY <3>1, PulledKeeps DEF TypeInv
  <2>4. Look(p) \/ Verify(p) => store' = store
    BY DEF Look, Verify, engineVars
  <2> QED
    BY <1>2, <2>1, <2>2, <2>3, <2>4
<1> QED
  BY <1>1, <1>3, <1>4

\* Every step keeps the workflow to that.
LEMMA WorkflowStep ==
  ASSUME TypeInv, WorkflowInstalls, [Next]_vars
  PROVE  WorkflowInstalls'
<1>0. "workflow" \in Process /\ "agent" \in Process
  BY DEF Process
<1>1. ASSUME NEW command, Begin("agent", command) PROVE WorkflowInstalls'
  BY <1>1 DEF Begin, WorkflowInstalls, TypeInv, CommandsTyped
<1>2. ASSUME BeginImageInstall("workflow", Tools) PROVE WorkflowInstalls'
  BY <1>0, <1>2 DEF BeginImageInstall, Begin, New, WorkflowInstalls, TypeInv, CommandsTyped
<1>3. ASSUME NEW p \in Process, CommandStep(p) PROVE WorkflowInstalls'
  BY <1>0, <1>3, CommandFrame DEF SameRequest, WorkflowInstalls
<1>4. CASE UNCHANGED cmd
  BY <1>4 DEF WorkflowInstalls
<1>5. BeginInstall \/ BeginRemove \/ BeginImageInstall("agent", Images) \/ BeginImageRemove
        \/ BeginFinalize => \E command : Begin("agent", command)
  BY DEF BeginInstall, BeginRemove, BeginImageInstall, BeginImageRemove, BeginFinalize
<1> QED
  BY <1>1, <1>2, <1>3, <1>4, <1>5 DEF Next, Publish, RenewCredentials, vars

-----------------------------------------------------------------------------
(***************************************************************************)
(* The agent's command                                                     *)
(***************************************************************************)

\* What the container is made of was asked for, or is in the file.
FromRequest(c) ==
  \/ c.ref = c.version
  \/ \E k \in DOMAIN Contents[c.file] : c.ref = Contents[c.file][k].ref

\* The image of an install: it is there from when it is found or loaded.
ImageInv ==
  LET c == cmd["agent"]
  IN  c.op = "install" /\ c.step # "idle" =>
        /\ FromRequest(c)
        /\ c.step \in {"stop", "rm", "create", "start"} \/ (c.step = "network" /\ c.file # None)
             => c.unseen \/ Has(c.ref)

\* Its network, and the container that it replaces and the one that it makes.
ContainerInv ==
  LET c == cmd["agent"]
  IN  /\ con \in [Module -> OrNone(Container)]
      /\ c.op = "install" /\ c.step \notin {"idle", "load", "network"} => network
      /\ c.step = "create" => con[c.module] = None
      /\ c.step = "start" =>
           /\ con[c.module] # None
           /\ con[c.module].label = c.version /\ con[c.module].ref = c.ref

\* The attempts to pull: from the second one on, the credentials are renewed.
PullInv ==
  LET c == cmd["agent"]
  IN  /\ c.step = "docker" =>
           c.auth \/ Lookup(c.ref) \notin Private \/ c.excused \/ c.attempt = 1
      /\ c.step = "verify" => Has(c.ref) \/ c.excused \/ c.attempt = 1

\* The outcome of the last command, while there is no other.  With one attempt
\* there is none with new credentials.
OutcomeInv ==
  /\ cmd["agent"].step # "idle" => last = NoOutcome
  /\ last.op = "install" /\ last.result = "ok" /\ ~last.unread => InstalledAsAsked
  /\ last.unread => last.result = "ok" /\ last.op = "install"
  /\ MaxAttempts > 1 /\ last.result = "error" => last.excused

\* Other steps leave all this.
LEMMA AgentKept ==
  ASSUME ImageInv, ContainerInv, PullInv, OutcomeInv,
         cmd'["agent"] = cmd["agent"], UNCHANGED <<network, con, last>>, KeepsImages
  PROVE  ImageInv' /\ ContainerInv' /\ PullInv' /\ OutcomeInv'
<1>1. \A ref : Has(ref) => Has(ref)'
  BY DEF Has, KeepsImages
<1>2. ImageInv' /\ PullInv'
  BY <1>1 DEF ImageInv, PullInv, FromRequest
<1>3. ContainerInv' /\ OutcomeInv'
  BY DEF ContainerInv, OutcomeInv, InstalledAsAsked
<1> QED
  BY <1>2, <1>3

\* A command that ends leaves its outcome.
LEMMA AgentConcludes ==
  ASSUME TypeInv, NEW result, NEW blameless, NEW unread \in BOOLEAN,
         Conclude("agent", result, blameless, unread),
         con' \in [Module -> OrNone(Container)],
         MaxAttempts > 1 /\ result = "error" => Excused("agent") \/ blameless,
         unread => result = "ok" /\ cmd["agent"].op = "install",
         result = "ok" /\ cmd["agent"].op = "install" /\ ~unread =>
           LET c == cmd["agent"]
           IN  /\ FromRequest(c)
               /\ con'[c.module] # None /\ con'[c.module].up
               /\ con'[c.module].label = c.version /\ con'[c.module].ref = c.ref
  PROVE  ImageInv' /\ ContainerInv' /\ PullInv' /\ OutcomeInv'
<1> DEFINE c == cmd["agent"]
<1>0. "agent" \in Process
  BY DEF Process
<1>1. cmd'["agent"].step = "idle" /\ cmd'["agent"].op = "finalize"
  BY <1>0, AfterConclude DEF TypeInv
<1>2. ImageInv' /\ ContainerInv' /\ PullInv'
  BY <1>1 DEF ImageInv, ContainerInv, PullInv
<1>3. /\ last'.op = c.op /\ last'.module = c.module /\ last'.version = c.version
      /\ last'.file = c.file /\ last'.result = result /\ last'.unread = unread
      /\ MaxAttempts > 1 /\ last'.result = "error" => last'.excused
  BY ResultOfEnd
<1>4. last'.op = "install" /\ last'.result = "ok" /\ ~last'.unread => InstalledAsAsked'
  BY <1>3 DEF InstalledAsAsked, FromRequest, ImageRefsEqual
<1>5. last'.unread => last'.result = "ok" /\ last'.op = "install"
  BY <1>3
<1> QED
  BY <1>1, <1>2, <1>3, <1>4, <1>5 DEF OutcomeInv

LEMMA AgentEnds ==
  ASSUME TypeInv, NEW result, NEW blameless, End("agent", result, blameless),
         con' \in [Module -> OrNone(Container)],
         MaxAttempts > 1 /\ result = "error" => Excused("agent") \/ blameless,
         result = "ok" /\ cmd["agent"].op = "install" =>
           LET c == cmd["agent"]
           IN  /\ FromRequest(c)
               /\ con'[c.module] # None /\ con'[c.module].up
               /\ con'[c.module].label = c.version /\ con'[c.module].ref = c.ref
  PROVE  ImageInv' /\ ContainerInv' /\ PullInv' /\ OutcomeInv'
BY AgentConcludes DEF End

AgentInv == ImageInv /\ ContainerInv /\ PullInv /\ OutcomeInv

\* A new command.
LEMMA AgentBegins ==
  ASSUME TypeInv, AgentInv,
         \/ BeginInstall \/ BeginRemove \/ BeginImageRemove \/ BeginFinalize
         \/ BeginImageInstall("agent", Images)
  PROVE  AgentInv'
<1>0. "agent" \in Process
  BY DEF Process
<1>1. PICK op, step, module, version, ref, file :
        /\ op \in Op /\ step \in Step
        /\ Begin("agent", New(op, step, module, version, ref, file))
        /\ op = "install" => step \in {"load", "network"} /\ ref = version
                             /\ (step = "network" => file = None)
        /\ step \in {"load", "network", "look", "stop", "untag", "prune"}
  <2>1. CASE BeginInstall
    BY <2>1 DEF BeginInstall, Op, Step
  <2>2. CASE BeginRemove
    BY <2>2 DEF BeginRemove, Op, Step
  <2>3. CASE BeginImageRemove
    BY <2>3 DEF BeginImageRemove, Op, Step
  <2>4. CASE BeginFinalize
    BY <2>4 DEF BeginFinalize, Op, Step
  <2>5. CASE BeginImageInstall("agent", Images)
    BY <2>5 DEF BeginImageInstall, Op, Step
  <2> QED
    BY <2>1, <2>2, <2>3, <2>4, <2>5
<1>2. /\ cmd'["agent"] = New(op, step, module, version, ref, file)
      /\ last' = NoOutcome
      /\ UNCHANGED <<store, network, con>>
  BY <1>0, <1>1 DEF Begin, TypeInv, CommandsTyped, engineVars
<1>3. /\ cmd'["agent"].op = op /\ cmd'["agent"].step = step /\ cmd'["agent"].version = version
      /\ cmd'["agent"].ref = ref /\ cmd'["agent"].file = file
  BY <1>2 DEF New
<1>4. ImageInv'
  BY <1>1, <1>3 DEF ImageInv, FromRequest
<1>5. ContainerInv' /\ PullInv'
  BY <1>1, <1>2, <1>3 DEF ContainerInv, PullInv, AgentInv
<1>6. OutcomeInv'
  BY <1>2 DEF OutcomeInv, NoOutcome
<1> QED
  BY <1>4, <1>5, <1>6 DEF AgentInv

\* An image that is found ends the command, or takes an install to its container.
LEMMA AgentFinds ==
  ASSUME TypeInv, AgentInv, ImageFound("agent"), Has(cmd["agent"].ref),
         cmd["agent"].step \notin {"idle", "load", "network"}, UNCHANGED <<store, network, con>>
  PROVE  AgentInv'
<1>0. "agent" \in Process /\ CommandsTyped
  BY DEF Process, TypeInv
<1>1. CASE cmd["agent"].op = "install"
  <2>1. Proceed("agent", "stop", cmd["agent"].ref, FALSE)
    BY <1>1 DEF ImageFound, AfterImage
  <2>2. /\ SameRequest(cmd["agent"], cmd'["agent"]) /\ UNCHANGED last
        /\ cmd'["agent"].step = "stop" /\ cmd'["agent"].ref = cmd["agent"].ref
    BY <1>0, <2>1, AfterProceed
  <2>3. ImageInv'
    BY <1>1, <2>2 DEF ImageInv, AgentInv, SameRequest, FromRequest, Has
  <2>4. ContainerInv' /\ PullInv'
    BY <1>1, <2>2 DEF ContainerInv, PullInv, AgentInv, SameRequest
  <2>5. OutcomeInv'
    BY <2>2 DEF OutcomeInv, AgentInv, NoOutcome
  <2> QED
    BY <2>3, <2>4, <2>5 DEF AgentInv
<1>2. CASE cmd["agent"].op # "install"
  <2>1. End("agent", "ok", FALSE)
    BY <1>2 DEF ImageFound, AfterImage
  <2> QED
    BY <1>2, <2>1, AgentEnds DEF AgentInv, ContainerInv
<1> QED
  BY <1>1, <1>2

\* A failed attempt is followed by another, or the command has an excuse.
LEMMA AgentRetries ==
  ASSUME TypeInv, AgentInv, AttemptFailed("agent"), cmd["agent"].attempt # 1 => Excused("agent"),
         cmd["agent"].step \in {"docker", "verify"}, UNCHANGED <<store, network, con>>
  PROVE  AgentInv'
<1>0. "agent" \in Process /\ CommandsTyped
  BY DEF Process, TypeInv
<1>1. CASE cmd["agent"].attempt = MaxAttempts /\ End("agent", "error", FALSE)
  <2>1. MaxAttempts > 1 => Excused("agent")
    BY <1>1
  <2> QED
    BY <1>1, <2>1, AgentEnds DEF AgentInv, ContainerInv
<1>2. CASE /\ SameRequest(cmd["agent"], cmd'["agent"]) /\ UNCHANGED last
           /\ cmd'["agent"].step = "pull" /\ cmd'["agent"].ref = cmd["agent"].ref
  <2>1. ImageInv'
    BY <1>2 DEF ImageInv, AgentInv, SameRequest, FromRequest
  <2>2. ContainerInv' /\ PullInv'
    BY <1>2 DEF ContainerInv, PullInv, AgentInv, SameRequest
  <2>3. OutcomeInv'
    BY <1>2 DEF OutcomeInv, AgentInv, NoOutcome
  <2> QED
    BY <2>1, <2>2, <2>3 DEF AgentInv
<1> QED
  BY <1>0, <1>1, <1>2, AfterAttempt

\* A call that fails is an excuse.
LEMMA FailsExcuses ==
  ASSUME TypeInv, NEW call, Fails(call), NEW p
  PROVE  Excused(p)
BY DEF Fails, Excused, TypeInv, RestTyped

\* The agent's steps.
LEMMA AgentLoads ==
  ASSUME TypeInv, AgentInv, Load("agent")
  PROVE  AgentInv'
<1> DEFINE c == cmd["agent"]
<1>0. "agent" \in Process /\ CommandsTyped /\ UNCHANGED <<network, con>>
  BY DEF Process, TypeInv, Load
<1>1. c.step = "load" /\ c.file \in Archive
  BY <1>0, Fields DEF Load, At, Shape, OrNone
<1>2. ASSUME NEW ref, NEW unseen, Proceed("agent", "network", ref, unseen),
             \/ ref = c.version
             \/ \E k \in DOMAIN Contents[c.file] : ref = Contents[c.file][k].ref,
             unseen \/ (Lookup(ref) \in Image /\ store'[Lookup(ref)] # None)
      PROVE  AgentInv'
  <2>1. /\ SameRequest(c, cmd'["agent"]) /\ UNCHANGED last
        /\ cmd'["agent"].step = "network" /\ cmd'["agent"].ref = ref
        /\ cmd'["agent"].unseen = unseen
    BY <1>0, <1>2, AfterProceed
  <2>3. ImageInv'
    BY <1>2, <2>1 DEF ImageInv, SameRequest, FromRequest, Has
  <2>4. ContainerInv' /\ PullInv'
    BY <1>0, <2>1 DEF ContainerInv, PullInv, AgentInv
  <2>5. OutcomeInv'
    BY <1>1, <2>1 DEF OutcomeInv, AgentInv, NoOutcome
  <2> QED
    BY <2>3, <2>4, <2>5 DEF AgentInv
<1>3. con' \in [Module -> OrNone(Container)]
  BY <1>0 DEF AgentInv, ContainerInv
<1>4. CASE Fails("load") /\ End("agent", "error", FALSE)
  BY <1>3, <1>4, FailsExcuses, AgentEnds DEF AgentInv
<1>5. CASE c.op = "install" /\ Conclude("agent", "ok", FALSE, TRUE)
  BY <1>3, <1>5, AgentConcludes DEF AgentInv
<1>9. CASE (Fails("read") \/ Fails("decode")) /\ End("agent", "error", FALSE)
  BY <1>3, <1>9, FailsExcuses, AgentEnds DEF AgentInv
<1>6. CASE \/ c.op # "install" /\ End("agent", "ok", FALSE)
           \/ End("agent", "error", TRUE)
  BY <1>3, <1>6, AgentEnds DEF AgentInv
<1>7. CASE /\ store' = Loaded(c.file)
           /\ Match(c.file, c.ref) # 0 \/ Contents[c.file] # <<>>
           /\ Proceed("agent", "network", ToUse(c), FALSE)
  <2>1. PICK k \in DOMAIN Contents[c.file] : ToUse(c) = Contents[c.file][k].ref
    BY <1>1, <1>7, UsedFromFile
  <2>2. Lookup(ToUse(c)) \in Image /\ store'[Lookup(ToUse(c))] # None
    BY <1>1, <1>7, <2>1, ContentsTyped, LoadedHas DEF TypeInv, RestTyped
  <2> QED
    BY <1>2, <1>7, <2>1, <2>2
<1>8. CASE c.op = "install" /\ Proceed("agent", "network", c.ref, TRUE)
  <2>1. FromRequest(c)
    BY <1>1, <1>8 DEF AgentInv, ImageInv
  <2> QED
    BY <1>2, <1>8, <2>1 DEF FromRequest
<1> QED
  <2> DEFINE isInstall == c.op = "install"
  <2>1. \/ Fails("load") /\ End("agent", "error", FALSE)
        \/ isInstall /\ Conclude("agent", "ok", FALSE, TRUE)
        \/ (Fails("read") \/ Fails("decode")) /\ End("agent", "error", FALSE)
        \/ ~isInstall /\ End("agent", "ok", FALSE)
        \/ End("agent", "error", TRUE)
        \/ /\ store' = Loaded(c.file)
           /\ Match(c.file, c.ref) # 0 \/ Contents[c.file] # <<>>
           /\ Proceed("agent", "network", ToUse(c), FALSE)
        \/ isInstall /\ Proceed("agent", "network", c.ref, TRUE)
    BY DEF Load
  <2> QED
    BY <1>4, <1>5, <1>6, <1>7, <1>8, <1>9, <2>1

\* A step that goes on with the same reference.
Goes(d) == /\ SameRequest(cmd["agent"], d) /\ UNCHANGED last
           /\ d.ref = cmd["agent"].ref /\ d.unseen = cmd["agent"].unseen

\* The network is made: the agent's invariant is kept.
LEMMA AgentNetwork ==
  ASSUME TypeInv, AgentInv, CreateSharedNetwork("agent")
  PROVE  AgentInv'
<1> DEFINE c == cmd["agent"]
<1>0. /\ "agent" \in Process /\ CommandsTyped
      /\ c.step = "network" /\ UNCHANGED <<store, con>>
  BY DEF Process, TypeInv, CreateSharedNetwork, At
<1>1. CASE network' = TRUE /\ Goto("agent", AfterNetwork(c))
  <2>1. Goes(cmd'["agent"]) /\ cmd'["agent"].step = IF c.file # None THEN "stop" ELSE "look"
    BY <1>0, <1>1, AfterGoto DEF Goes, AfterNetwork
  <2>2. ImageInv'
    BY <1>0, <2>1 DEF ImageInv, AgentInv, Goes, SameRequest, FromRequest, Has
  <2>3. ContainerInv' /\ PullInv'
    BY <1>0, <1>1, <2>1 DEF ContainerInv, PullInv, AgentInv
  <2>4. OutcomeInv'
    BY <1>0, <2>1 DEF OutcomeInv, AgentInv, NoOutcome, Goes
  <2> QED
    BY <2>2, <2>3, <2>4 DEF AgentInv
<1>2. CASE Fails("network") /\ End("agent", "error", FALSE)
  BY <1>0, <1>2, FailsExcuses, AgentEnds DEF AgentInv, ContainerInv
<1> QED
  BY <1>1, <1>2 DEF CreateSharedNetwork

\* Between looking for an image and using it nothing but the step and the
\* attempt matter.
LEMMA AgentPulls ==
  ASSUME AgentInv, KeepsImages, UNCHANGED <<network, con>>,
         cmd["agent"].step \in {"look", "pull", "docker"},
         Goes(cmd'["agent"]), cmd'["agent"].step \in {"pull", "docker", "verify"}, PullInv'
  PROVE  AgentInv'
<1>1. ImageInv'
  BY DEF ImageInv, AgentInv, Goes, SameRequest, FromRequest
<1>2. ContainerInv'
  BY DEF ContainerInv, AgentInv, Goes, SameRequest
<1>3. OutcomeInv'
  BY DEF OutcomeInv, AgentInv, NoOutcome, Goes
<1> QED
  BY <1>1, <1>2, <1>3 DEF AgentInv

\* Looking for the image keeps it.
LEMMA AgentLooks ==
  ASSUME TypeInv, AgentInv, Look("agent")
  PROVE  AgentInv'
<1>0. /\ "agent" \in Process /\ CommandsTyped /\ KeepsImages
      /\ cmd["agent"].step = "look" /\ UNCHANGED <<store, network, con>>
  BY DEF Process, TypeInv, Look, At, KeepsImages, engineVars
<1>1. CASE Has(cmd["agent"].ref) /\ ImageFound("agent")
  BY <1>0, <1>1, AgentFinds
<1>2. CASE Goto("agent", "pull")
  <2>1. Goes(cmd'["agent"]) /\ cmd'["agent"].step = "pull"
    BY <1>0, <1>2, AfterGoto DEF Goes
  <2>2. PullInv'
    BY <2>1 DEF PullInv
  <2> QED
    BY <1>0, <2>1, <2>2, AgentPulls
<1> QED
  BY <1>1, <1>2 DEF Look

\* A pull by podman's interface keeps it.
LEMMA AgentPull ==
  ASSUME TypeInv, AgentInv, Pull("agent")
  PROVE  AgentInv'
<1> DEFINE c == cmd["agent"]
<1>0. /\ "agent" \in Process /\ CommandsTyped /\ RestTyped
      /\ c.step = "pull" /\ UNCHANGED <<network, con>> /\ c.attempt \in 1..MaxAttempts
  BY Fields DEF Process, TypeInv, Pull, At
<1> DEFINE Pulls(auth) ==
             /\ Permitted("agent", auth) /\ Pulled(c.ref)
             /\ Authorized("agent", "verify", auth)
           Falls(auth) == Authorized("agent", "docker", auth) /\ UNCHANGED store
           Passes(auth) == Authorized("agent", "verify", auth) /\ UNCHANGED store
<1>1. PICK auth \in BOOLEAN :
        /\ \/ Pulls(auth) \/ Falls(auth)
           \/ Passes(auth) /\ (~Permitted("agent", auth) \/ Fails("libpod"))
        /\ auth \/ Fails("auth") \/ credentials = "void" \/ ~(c.attempt > 1)
  <2> DEFINE valid == credentials = "valid" \/ (credentials = "stale" /\ c.attempt > 1)
  <2>1. valid \in BOOLEAN /\ (valid \/ credentials = "void" \/ ~(c.attempt > 1))
    BY <1>0 DEF RestTyped, Credentials
  <2>2. \/ Pulls(valid) \/ Falls(valid) \/ (Passes(valid) /\ ~Permitted("agent", valid))
        \/ Fails("libpod") /\ (Falls(valid) \/ Passes(valid))
        \/ /\ Fails("auth")
           /\ \/ Pulls(FALSE) \/ Falls(FALSE)
              \/ Passes(FALSE) /\ ~Permitted("agent", FALSE)
    BY DEF Pull, RefreshAfterFailure
  <2> HIDE DEF valid, Pulls, Falls, Passes
  <2> QED
    BY <2>1, <2>2
<1>2. \/ auth \/ Excused("agent") \/ c.attempt = 1
      \/ Lookup(c.ref) \notin Private
  <2>1. credentials = "void" /\ Lookup(c.ref) \in Private => Excused("agent")
    BY <1>0 DEF Excused, Obtainable
  <2> QED
    BY <1>0, <1>1, <2>1, FailsExcuses, ModuleAssumption
<1>5. CASE Passes(auth) /\ (~Permitted("agent", auth) \/ Fails("libpod"))
  <2>1. Goes(cmd'["agent"]) /\ cmd'["agent"].step = "verify"
        /\ cmd'["agent"].attempt = c.attempt
    BY <1>0, <1>5, AfterAuthorized DEF Goes
  <2>2. Excused("agent") => cmd'["agent"].excused
    BY <1>0, <1>5, AfterAuthorized
  <2>3. Excused("agent") \/ c.attempt = 1
    <3>1. ~Published(c.ref) => Excused("agent")
      BY <1>0 DEF Excused, Obtainable
    <3> QED
      BY <1>2, <1>5, <3>1, FailsExcuses DEF Permitted
  <2>4. PullInv' /\ KeepsImages
    BY <1>5, <2>1, <2>2, <2>3 DEF PullInv, KeepsImages
  <2> QED
    BY <1>0, <2>1, <2>4, AgentPulls
<1>3. CASE Published(c.ref) /\ Pulled(c.ref) /\ Authorized("agent", "verify", auth)
  <2>1. Goes(cmd'["agent"]) /\ cmd'["agent"].step = "verify"
    BY <1>0, <1>3, AfterAuthorized DEF Goes
  <2>2. KeepsImages /\ Lookup(c.ref) \in Image /\ store'[Lookup(c.ref)] # None
    BY <1>0, <1>3 DEF Pulled, Published, KeepsImages, RestTyped
  <2>3. PullInv'
    BY <2>1, <2>2 DEF PullInv, Goes, Has
  <2> QED
    BY <1>0, <2>1, <2>2, <2>3, AgentPulls
<1>4. CASE Authorized("agent", "docker", auth) /\ UNCHANGED store
  <2>1. Goes(cmd'["agent"]) /\ cmd'["agent"].step = "docker"
    BY <1>0, <1>4, AfterAuthorized DEF Goes
  <2>2. cmd'["agent"].auth = auth /\ cmd'["agent"].attempt = c.attempt
    BY <1>0, <1>4, AfterAuthorized
  <2>3. Excused("agent") => cmd'["agent"].excused
    BY <1>0, <1>4, AfterAuthorized
  <2>4. PullInv'
    BY <1>2, <2>1, <2>2, <2>3 DEF PullInv, Goes
  <2>5. KeepsImages
    BY <1>4 DEF KeepsImages
  <2> QED
    BY <1>0, <2>1, <2>4, <2>5, AgentPulls
<1> QED
  BY <1>1, <1>3, <1>4, <1>5 DEF Permitted

\* A pull by docker's interface keeps it.
LEMMA AgentDocker ==
  ASSUME TypeInv, AgentInv, DockerPull("agent")
  PROVE  AgentInv'
<1> DEFINE c == cmd["agent"]
<1>0. /\ "agent" \in Process /\ CommandsTyped /\ RestTyped
      /\ c.step = "docker" /\ UNCHANGED <<network, con>>
  BY DEF Process, TypeInv, DockerPull, At
<1>1. c.auth \/ Lookup(c.ref) \notin Private \/ c.excused \/ c.attempt = 1
  BY <1>0 DEF AgentInv, PullInv
<1>2. CASE Published(c.ref) /\ Pulled(c.ref) /\ Goto("agent", "verify")
  <2>1. Goes(cmd'["agent"]) /\ cmd'["agent"].step = "verify"
    BY <1>0, <1>2, AfterGoto DEF Goes
  <2>2. KeepsImages /\ Lookup(c.ref) \in Image /\ store'[Lookup(c.ref)] # None
    BY <1>0, <1>2 DEF Pulled, Published, KeepsImages, RestTyped
  <2>3. PullInv'
    BY <2>1, <2>2 DEF PullInv, Goes, Has
  <2> QED
    BY <1>0, <2>1, <2>2, <2>3, AgentPulls
<1>3. ~Permitted("agent", c.auth) => Excused("agent") \/ c.attempt = 1
  BY <1>0, <1>1 DEF Permitted, Obtainable, Excused
<1>4. CASE /\ ~Permitted("agent", c.auth) \/ Fails("docker")
           /\ Goto("agent", "verify") /\ UNCHANGED store
  <2>1. Goes(cmd'["agent"]) /\ cmd'["agent"].step = "verify"
        /\ cmd'["agent"].attempt = c.attempt
    BY <1>0, <1>4, AfterGoto DEF Goes
  <2>2. Excused("agent") => cmd'["agent"].excused
    BY <1>0, <1>4, AfterGoto
  <2>3. PullInv' /\ KeepsImages
    BY <1>3, <1>4, <2>1, <2>2, FailsExcuses DEF PullInv, KeepsImages
  <2> QED
    BY <1>0, <2>1, <2>3, AgentPulls
<1>5. CASE /\ ~Permitted("agent", c.auth) \/ Fails("docker")
           /\ AttemptFailed("agent") /\ UNCHANGED store
  BY <1>0, <1>3, <1>5, FailsExcuses, AgentRetries
<1> QED
  BY <1>2, <1>4, <1>5 DEF DockerPull, Permitted

\* Verifying the pull keeps it.
LEMMA AgentVerifies ==
  ASSUME TypeInv, AgentInv, Verify("agent")
  PROVE  AgentInv'
<1> DEFINE c == cmd["agent"]
<1>0. c.step = "verify" /\ UNCHANGED <<store, network, con>>
  BY DEF Verify, At, engineVars
<1>1. CASE Has(c.ref) /\ ImageFound("agent")
  BY <1>0, <1>1, AgentFinds
<1>2. CASE ~Has(c.ref) /\ AttemptFailed("agent")
  <2>1. c.attempt # 1 => Excused("agent")
    BY <1>0, <1>2 DEF AgentInv, PullInv, Excused
  <2> QED
    BY <1>0, <1>2, <2>1, AgentRetries
<1>3. CASE Fails("inspect") /\ AttemptFailed("agent")
  BY <1>0, <1>3, FailsExcuses, AgentRetries
<1> QED
  BY <1>1, <1>2, <1>3 DEF Verify

\* The old container goes, and the new one is created once it has gone.
LEMMA AgentStops ==
  ASSUME TypeInv, AgentInv, Stop("agent") \/ Remove("agent")
  PROVE  AgentInv'
<1> DEFINE c == cmd["agent"]
<1>0. /\ "agent" \in Process /\ CommandsTyped
      /\ c.step \in {"stop", "rm"} /\ c.module \in Module /\ UNCHANGED <<store, network>>
      /\ con \in [Module -> OrNone(Container)]
  BY Fields DEF Process, TypeInv, Stop, Remove, At, Shape, AgentInv, ContainerInv
<1>1. con' \in [Module -> OrNone(Container)]
  <2>1. \/ con' = con
        \/ con[c.module] # None /\ con' = [con EXCEPT ![c.module].up = FALSE]
        \/ con' = [con EXCEPT ![c.module] = None]
    BY DEF Stop, Remove
  <2>2. CASE con[c.module] # None /\ con' = [con EXCEPT ![c.module].up = FALSE]
    <3>1. con[c.module] \in Container
      BY <1>0, <2>2 DEF OrNone
    <3>2. [con[c.module] EXCEPT !.up = FALSE] \in Container
      BY <3>1 DEF Container
    <3> QED
      BY <1>0, <2>2, <3>2 DEF OrNone
  <2> QED
    BY <1>0, <2>1, <2>2 DEF OrNone
<1>2. ASSUME NEW step \in {"rm", "create"}, Goto("agent", step),
             step = "create" => c.op = "install" /\ con'[c.module] = None
      PROVE  AgentInv'
  <2>1. Goes(cmd'["agent"]) /\ cmd'["agent"].step = step
    BY <1>0, <1>2, AfterGoto DEF Goes
  <2>2. ImageInv'
    BY <1>0, <2>1 DEF ImageInv, AgentInv, Goes, SameRequest, FromRequest, Has
  <2>3. ContainerInv' /\ PullInv'
    BY <1>0, <1>1, <1>2, <2>1 DEF ContainerInv, PullInv, AgentInv, Goes, SameRequest
  <2>4. OutcomeInv'
    BY <1>0, <2>1 DEF OutcomeInv, AgentInv, NoOutcome, Goes
  <2> QED
    BY <2>2, <2>3, <2>4 DEF AgentInv
<1>3. CASE AfterRemoval("agent") /\ con'[c.module] = None
  <2>1. CASE c.op = "install"
    BY <1>2, <1>3, <2>1 DEF AfterRemoval
  <2>2. CASE c.op # "install" /\ End("agent", "ok", FALSE)
    BY <1>1, <2>2, AgentEnds DEF AgentInv
  <2> QED
    BY <1>3, <2>1, <2>2 DEF AfterRemoval
<1>4. CASE Goto("agent", "rm")
  BY <1>2, <1>4
<1>5. CASE (Fails("stop") \/ Fails("remove")) /\ End("agent", "error", FALSE)
  BY <1>1, <1>5, FailsExcuses, AgentEnds DEF AgentInv
<1> QED
  BY <1>0, <1>3, <1>4, <1>5 DEF Stop, Remove

\* The new one is created unless a call fails or its image is not known.
LEMMA AgentCreates ==
  ASSUME TypeInv, AgentInv, Create("agent")
  PROVE  AgentInv'
<1> DEFINE c == cmd["agent"]
           new == [label |-> c.version, ref |-> c.ref, image |-> store[Lookup(c.ref)],
                   up |-> FALSE]
<1>0. /\ "agent" \in Process /\ CommandsTyped
      /\ c.step = "create" /\ c.op = "install" /\ c.module \in Module
      /\ c.ref \in Ref /\ c.version \in Ref /\ UNCHANGED <<store, network>>
  BY Fields DEF Process, TypeInv, Create, At, Shape
<1>1. /\ con \in [Module -> OrNone(Container)] /\ network /\ con[c.module] = None
      /\ c.unseen \/ Has(c.ref)
  BY <1>0 DEF AgentInv, ContainerInv, ImageInv
<1>2. CASE Has(c.ref) /\ con' = [con EXCEPT ![c.module] = new] /\ Goto("agent", "start")
  <2>1. Goes(cmd'["agent"]) /\ cmd'["agent"].step = "start"
    BY <1>0, <1>2, AfterGoto DEF Goes
  <2>2. new \in Container
    BY <1>0, <1>2 DEF Has, Container, TypeInv, RestTyped, OrNone
  <2>3. /\ con' \in [Module -> OrNone(Container)]
        /\ con'[c.module] # None /\ con'[c.module] = new
    <3> HIDE DEF new
    <3> QED
      BY <1>0, <1>1, <1>2, <2>2, NoneAssumption DEF OrNone
  <2>4. ImageInv'
    BY <1>0, <2>1 DEF ImageInv, AgentInv, Goes, SameRequest, FromRequest, Has
  <2>5. ContainerInv' /\ PullInv'
    BY <1>0, <1>1, <2>1, <2>3 DEF ContainerInv, PullInv, Goes, SameRequest
  <2>6. OutcomeInv'
    BY <1>0, <2>1 DEF OutcomeInv, AgentInv, NoOutcome, Goes
  <2> QED
    BY <2>4, <2>5, <2>6 DEF AgentInv
<1>3. CASE c.unseen /\ End("agent", "error", c.unseen) /\ UNCHANGED con
  BY <1>1, <1>3, AgentEnds DEF AgentInv
<1>4. CASE Fails("create") /\ End("agent", "error", FALSE) /\ UNCHANGED con
  BY <1>1, <1>4, FailsExcuses, AgentEnds DEF AgentInv
<1> QED
  BY <1>1, <1>2, <1>3, <1>4 DEF Create

\* Starting the container keeps it.
LEMMA AgentStarts ==
  ASSUME TypeInv, AgentInv, Start("agent")
  PROVE  AgentInv'
<1> DEFINE c == cmd["agent"]
<1>0. /\ "agent" \in Process /\ c.step = "start" /\ c.op = "install" /\ c.module \in Module
  BY Fields DEF Process, TypeInv, Start, At, Shape
<1>1. /\ con \in [Module -> OrNone(Container)] /\ con[c.module] # None
      /\ con[c.module].label = c.version /\ con[c.module].ref = c.ref
      /\ FromRequest(c)
  BY <1>0 DEF AgentInv, ContainerInv, ImageInv
<1>2. CASE con' = [con EXCEPT ![c.module].up = TRUE] /\ End("agent", "ok", FALSE)
  <2> DEFINE new == [con[c.module] EXCEPT !.up = TRUE]
  <2>1. con[c.module] \in Container
    BY <1>0, <1>1 DEF OrNone
  <2>2. new \in Container /\ new.up /\ new.label = c.version /\ new.ref = c.ref
    BY <1>1, <2>1 DEF Container
  <2>3. con' = [con EXCEPT ![c.module] = new]
    BY <1>0, <1>1, <1>2
  <2>4. con' \in [Module -> OrNone(Container)] /\ con'[c.module] = new /\ new # None
    <3> HIDE DEF new
    <3> QED
      BY <1>0, <1>1, <2>2, <2>3, NoneAssumption DEF OrNone
  <2> QED
    BY <1>1, <1>2, <2>2, <2>4, AgentEnds DEF AgentInv
<1>3. CASE Fails("start") /\ End("agent", "error", FALSE) /\ UNCHANGED con
  BY <1>1, <1>3, FailsExcuses, AgentEnds DEF AgentInv
<1> QED
  BY <1>2, <1>3 DEF Start, StartFailed

\* Images are only removed by a command that is over then, and is no install.
LEMMA AgentRemovesImages ==
  ASSUME TypeInv, AgentInv, Untag("agent") \/ Prune("agent")
  PROVE  AgentInv'
<1>0. "agent" \in Process /\ UNCHANGED con /\ con \in [Module -> OrNone(Container)]
  BY DEF Process, Untag, Prune, AgentInv, ContainerInv
<1>1. cmd["agent"].op # "install"
  BY <1>0, Fields DEF Untag, Prune, At, Shape, TypeInv
<1>2. \/ End("agent", "ok", FALSE) \/ End("agent", "error", TRUE)
      \/ Fails("untag") /\ End("agent", "error", FALSE)
  BY DEF Untag, Prune
<1> QED
  BY <1>0, <1>1, <1>2, FailsExcuses, AgentEnds DEF AgentInv

\* Every step of the agent keeps it.
LEMMA AgentStep ==
  ASSUME TypeInv, WorkflowInstalls, AgentInv, [Next]_vars
  PROVE  AgentInv'
<1>1. ASSUME CommandStep("agent") PROVE AgentInv'
  BY <1>1, AgentLoads, AgentNetwork, AgentLooks, AgentPull, AgentDocker, AgentVerifies,
     AgentStops, AgentCreates, AgentStarts, AgentRemovesImages DEF CommandStep
<1>2. ASSUME CommandStep("workflow") PROVE AgentInv'
  BY <1>2, WorkflowKeeps, AgentKept DEF AgentInv
<1>3. ASSUME BeginImageInstall("workflow", Tools) PROVE AgentInv'
  <2>1. cmd'["agent"] = cmd["agent"] /\ UNCHANGED <<network, con, last>> /\ KeepsImages
    BY <1>3 DEF BeginImageInstall, Begin, engineVars, KeepsImages, TypeInv, CommandsTyped, Process
  <2> QED
    BY <2>1, AgentKept DEF AgentInv
<1>4. ASSUME Publish \/ RenewCredentials \/ UNCHANGED vars PROVE AgentInv'
  <2>1. UNCHANGED <<network, con, last, cmd>> /\ KeepsImages
    BY <1>4 DEF Publish, RenewCredentials, vars, engineVars, KeepsImages
  <2> QED
    BY <2>1, AgentKept DEF AgentInv
<1> QED
  BY <1>1, <1>2, <1>3, <1>4, AgentBegins DEF Next, Process

\* All of it together.
IInv == TypeInv /\ WorkflowInstalls /\ AgentInv

\* The initial states satisfy the invariant.
LEMMA InvInit == Init => IInv
<1> SUFFICES ASSUME Init PROVE IInv
  OBVIOUS
<1>1. /\ cmd["agent"].step = "idle" /\ cmd["workflow"].step = "idle"
      /\ last = NoOutcome /\ con \in [Module -> OrNone(Container)]
  BY DEF Init, Nothing, New, Process, OrNone
<1>2. cmd["agent"].op = "finalize"
  BY DEF Init, Nothing, New, Process
<1> QED
  BY <1>1, <1>2, TypeInvInit
     DEF IInv, WorkflowInstalls, AgentInv, ImageInv, ContainerInv, PullInv, OutcomeInv, NoOutcome

\* The invariant holds throughout.
LEMMA Invariant == Spec => []IInv
<1>1. IInv /\ [Next]_vars => IInv'
  BY TypeInvStep, WorkflowStep, AgentStep DEF IInv
<1> QED
  BY <1>1, InvInit, PTL DEF Spec

-----------------------------------------------------------------------------
(***************************************************************************)
(* Theorems                                                                *)
(***************************************************************************)

\* The state of images, containers and commands stays of its type.
THEOREM TypeCorrect == Spec => []TypeOK
<1>1. IInv => TypeOK
  BY DEF IInv, TypeInv, CommandsTyped, RestTyped, AgentInv, ContainerInv, TypeOK, Shape
<1> QED
  BY <1>1, Invariant, PTL

\* While an install takes the old container away and creates the new one, the
\* engine has its image, whatever a workflow does meanwhile.
THEOREM ImageIsThere == Spec => []ReplacedForImage
<1>1. IInv => ReplacedForImage
  BY DEF IInv, AgentInv, ImageInv, ReplacedForImage
<1> QED
  BY <1>1, Invariant, PTL

\* With more than one attempt to pull, success and failure are reported for what
\* they are, but for an install that could not read the engine's answer on a file,
\* which reports success.
THEOREM OutcomesAreTrue ==
  ASSUME MaxAttempts > 1
  PROVE  Spec => []ReportsTruly
<1>1. IInv => ReportsTruly
  BY DEF IInv, AgentInv, OutcomeInv, ReportsTruly
<1> QED
  BY <1>1, Invariant, PTL

\* The engine has an image under the name that it lists.
ListsItself == \A i \in Image : Lookup(RepoTag[i]) = i

\* A tag that is cut and put together again is the same.
LEMMA CutAndJoined ==
  ASSUME NEW tag \in Ref, tag # <<>>
  PROVE  RemovalRef(CutTag(tag).name, CutTag(tag).version) = tag
<1>1. Len(tag) \in Nat /\ Len(tag) > 0 /\ tag = [k \in 1..Len(tag) |-> tag[k]]
  BY DEF Ref
<1>2. <<tag[1]>> \o Tail(tag) = tag
  BY <1>1 DEF Ref
<1> QED
  BY <1>2 DEF RemovalRef, CutTag

\* What was listed and successfully removed is not listed any more.
THEOREM RemovalsUnlist ==
  ASSUME ListsItself
  PROVE  Spec => RemovedIsUnlisted
<1> DEFINE c == cmd["agent"]
           Listed(i) == RemovalRef(CutTag(RepoTag[i]).name, CutTag(RepoTag[i]).version)
           Unlisted == c.op = "image-remove" /\ last'.result = "ok" =>
                         \A i \in Image : store'[i] # None => Listed(i) # c.ref
<1>1. IInv /\ [Next]_vars => [Unlisted]_vars
  <2> SUFFICES ASSUME IInv, Next, c.op = "image-remove", last'.result = "ok",
                      NEW i \in Image, store'[i] # None, Listed(i) = c.ref
               PROVE  FALSE
    OBVIOUS
  <2>1. "agent" \in Process /\ c.step = "untag" /\ last = NoOutcome
    BY Fields DEF IInv, TypeInv, AgentInv, OutcomeInv, Process, Shape
  <2>2. Lookup(c.ref) = i
    BY CutAndJoined, ModuleAssumption DEF ListsItself
  <2>3. last' # last
    BY <2>1 DEF NoOutcome
  <2>4. CommandStep("agent")
    <3>1. ~\E command : Begin("agent", command)
      BY <2>1 DEF Begin, At
    <3>2. CommandStep("workflow") => UNCHANGED last
      BY WorkflowKeeps DEF IInv
    <3> QED
      BY <2>3, <3>1, <3>2
         DEF Next, BeginInstall, BeginRemove, BeginImageRemove, BeginFinalize, BeginImageInstall,
             Begin, Publish, RenewCredentials, Process
  <2>5. Untag("agent")
    BY <2>1, <2>4 DEF CommandStep, Load, CreateSharedNetwork, Look, Pull, DockerPull, Verify,
                      Stop, Remove, Create, Start, Prune, At
  <2>6. \A result, blameless : End("agent", result, blameless) => last'.result = result
    BY ResultOfEnd DEF End
  <2>7. \/ ~Has(c.ref) /\ UNCHANGED store
        \/ store' = [store EXCEPT ![i] = None]
    BY <2>2, <2>5, <2>6 DEF Untag
  <2> QED
    BY <2>2, <2>7 DEF Has, IInv, TypeInv, RestTyped
<1> QED
  BY <1>1, Invariant, PTL DEF Spec, RemovedIsUnlisted

-----------------------------------------------------------------------------
(***************************************************************************)
(* The list that the agent gets                                            *)
(***************************************************************************)

\* A process without a command has no op on a container either.
IdleInv == cmd["agent"].step = "idle" => cmd["agent"].op = "finalize"

\* A step of the agent's command goes on with the same request, or is the last.
LEMMA AgentGoesOrEnds ==
  ASSUME TypeInv, CommandStep("agent")
  PROVE  /\ cmd["agent"].step # "idle"
         /\ \/ /\ cmd'["agent"].step # "idle" /\ SameRequest(cmd["agent"], cmd'["agent"])
               /\ UNCHANGED last
            \/ \E result \in {"ok", "error"} : \E blameless : End("agent", result, blameless)
            \/ /\ Conclude("agent", "ok", FALSE, TRUE)
               /\ cmd["agent"].op = "install" /\ UNCHANGED con
<1>0. "agent" \in Process /\ CommandsTyped
  BY DEF Process, TypeInv
<1>1. \/ \E step \in Step \ {"idle"} : Goto("agent", step)
      \/ \E step \in Step \ {"idle"} : \E ref, unseen : Proceed("agent", step, ref, unseen)
      \/ \E step \in Step \ {"idle"} : \E auth : Authorized("agent", step, auth)
      \/ AttemptFailed("agent")
      \/ \E result \in {"ok", "error"} : \E blameless : End("agent", result, blameless)
      \/ /\ Conclude("agent", "ok", FALSE, TRUE)
         /\ cmd["agent"].op = "install" /\ UNCHANGED con
  <2> USE DEF Step
  <2>1. CASE Load("agent")
    BY <2>1 DEF Load
  <2>2. CASE CreateSharedNetwork("agent")
    BY <2>2 DEF CreateSharedNetwork, AfterNetwork
  <2>3. CASE Look("agent") \/ Verify("agent")
    BY <2>3 DEF Look, Verify, ImageFound, AfterImage
  <2>4. CASE Pull("agent") \/ DockerPull("agent")
    BY <2>4 DEF Pull, DockerPull
  <2>5. CASE Stop("agent") \/ Remove("agent") \/ Create("agent") \/ Start("agent")
    BY <2>5 DEF Stop, Remove, Create, Start, AfterRemoval, StartFailed
  <2>6. CASE Untag("agent") \/ Prune("agent")
    BY <2>6 DEF Untag, Prune
  <2> QED
    BY <2>1, <2>2, <2>3, <2>4, <2>5, <2>6 DEF CommandStep
<1>2. ASSUME NEW step \in Step \ {"idle"},
             \/ Goto("agent", step)
             \/ \E ref, unseen : Proceed("agent", step, ref, unseen)
             \/ \E auth : Authorized("agent", step, auth)
      PROVE  /\ cmd'["agent"].step # "idle" /\ SameRequest(cmd["agent"], cmd'["agent"])
             /\ UNCHANGED last
  BY <1>0, <1>2, AfterGoto, AfterProceed, AfterAuthorized
<1>3. ASSUME AttemptFailed("agent")
      PROVE  \/ /\ cmd'["agent"].step # "idle" /\ SameRequest(cmd["agent"], cmd'["agent"])
                /\ UNCHANGED last
             \/ End("agent", "error", FALSE)
  BY <1>0, <1>3, AfterAttempt
<1> QED
  BY <1>0, <1>1, <1>2, <1>3, CommandFrame

\* It touches the container of the request only, and none without one.
LEMMA AgentFrame ==
  ASSUME TypeInv, AgentInv, CommandStep("agent"), NEW n \in Module, On # n
  PROVE  con'[n] = con[n]
<1> DEFINE c == cmd["agent"]
<1>0. "agent" \in Process /\ con \in [Module -> OrNone(Container)]
  BY DEF Process, AgentInv, ContainerInv
<1>1. CASE Stop("agent") \/ Remove("agent") \/ Create("agent") \/ Start("agent")
  <2>1. c.op \in {"install", "remove"} /\ c.module # n
    BY <1>0, <1>1, Fields DEF Stop, Remove, Create, Start, At, Shape, TypeInv, On
  <2>2. UNCHANGED con \/ \E d : con' = [con EXCEPT ![c.module] = d]
    BY <1>1 DEF Stop, Remove, Create, Start
  <2> QED
    BY <1>0, <2>1, <2>2
<1>2. CASE ~(Stop("agent") \/ Remove("agent") \/ Create("agent") \/ Start("agent"))
  BY <1>2 DEF CommandStep, Load, CreateSharedNetwork, Look, Pull, DockerPull, Verify,
              Untag, Prune, engineVars
<1> QED
  BY <1>1, <1>2

\* When it says that it has succeeded, the entry is what was asked for.
LEMMA AgentSucceeds ==
  ASSUME TypeInv, AgentInv, AgentInv', CommandStep("agent"), NEW blameless,
         End("agent", "ok", blameless), NEW m \in Module, On = m
  PROVE  Entries'[m] = Asked
<1> DEFINE c == cmd["agent"]
<1>0. /\ "agent" \in Process /\ last'.result = "ok"
      /\ cmd'["agent"].step = "idle"
      /\ con \in [Module -> OrNone(Container)]
  BY AfterEnd, ResultOfEnd DEF Process, AgentInv, ContainerInv, End, TypeInv
<1>1. c.op \in {"install", "remove"} /\ c.module = m
  BY NoneAssumption, ModuleAssumption DEF On
<1>2. /\ last'.op = c.op /\ last'.module = c.module /\ last'.version = c.version
      /\ ~last'.unread
  BY ResultOfEnd DEF End
<1>3. CASE c.op = "install"
  <2>1. con'[m] # None /\ con'[m].label = c.version
    BY <1>0, <1>1, <1>2, <1>3 DEF AgentInv, OutcomeInv, InstalledAsAsked
  <2> QED
    BY <1>3, <2>1 DEF Entries, Asked
<1>4. CASE c.op = "remove"
  <2>1. Stop("agent") \/ Remove("agent")
    BY <1>0, <1>4, Fields
    DEF CommandStep, Load, CreateSharedNetwork, Look, Pull, DockerPull, Verify, Create, Start,
        Untag, Prune, At, Shape, TypeInv
  <2>2. \A step : Goto("agent", step) => step = "idle"
    BY <1>0, AfterGoto DEF TypeInv
  <2>3. \A b : ~End("agent", "error", b)
    <3>1. ASSUME NEW b, End("agent", "error", b)
          PROVE  last'.result = "error"
      BY <3>1, ResultOfEnd DEF End
    <3> QED
      BY <1>0, <3>1
  <2>4. con'[m] = None
    BY <1>0, <1>1, <2>1, <2>2, <2>3 DEF Stop, Remove
  <2> QED
    BY <1>4, <2>4 DEF Entries, Asked
<1> QED
  BY <1>1, <1>3, <1>4

\* The list has entries.
LEMMA EntriesTyped ==
  /\ AgentInv => Entries \in [Module -> Ref \cup {None}]
  /\ AgentInv' => Entries' \in [Module -> Ref \cup {None}]
BY DEF AgentInv, ContainerInv, Entries, OrNone, Container

\* Containers that are not touched keep their entries.
LEMMA EntriesFrame ==
  ASSUME NEW n \in Module, con'[n] = con[n]
  PROVE  Entries'[n] = Entries[n]
BY DEF Entries

\* What a step of the agent's command is for the list.
LEMMA CommandKeepsList ==
  ASSUME IInv, IdleInv, IInv', CommandStep("agent")
  PROVE  List!Next \/ UNCHANGED List!vars
<1> DEFINE c == cmd["agent"]
<1>0. /\ "agent" \in Process /\ TypeInv /\ AgentInv /\ AgentInv'
      /\ c.step # "idle" /\ Reported = "none" /\ last.unread = FALSE
  BY AgentGoesOrEnds DEF Process, IInv, Reported, AgentInv, OutcomeInv, NoOutcome
<1>1. ASSUME NEW n \in Module, On # n
      PROVE  Entries'[n] = Entries[n]
  BY <1>0, <1>1, AgentFrame, EntriesFrame
<1>2. On = None => Entries' = Entries
  <2>1. ASSUME On = None
        PROVE  \A n \in Module : Entries'[n] = Entries[n]
    BY <1>1, <2>1, ModuleAssumption
  <2> QED
    BY <1>0, <2>1, EntriesTyped
<1>3. On # None => On \in Module /\ List!Changes
  BY <1>0, <1>1, Fields, EntriesTyped DEF On, Shape, TypeInv, List!Changes, List!Entry
<1>4. CASE /\ cmd'["agent"].step # "idle" /\ SameRequest(c, cmd'["agent"])
           /\ UNCHANGED last
  <2>1. UNCHANGED <<On, Asked, last>> /\ Reported' = "none"
    BY <1>4 DEF SameRequest, On, Asked, Reported
  <2>2. CASE On = None
    BY <1>0, <1>2, <2>1, <2>2 DEF List!vars
  <2>3. CASE On # None
    BY <1>0, <1>3, <2>1, <2>3 DEF List!Next, List!Work
  <2> QED
    BY <2>2, <2>3
<1>5. ASSUME NEW res \in {"ok", "error"}, NEW blameless,
             End("agent", res, blameless)
      PROVE  List!Next
  <2>1. cmd'["agent"].step = "idle" /\ cmd'["agent"].op = "finalize"
    BY <1>0, <1>5, AfterEnd DEF TypeInv
  <2>2. last'.result = res /\ last'.unread = FALSE
    BY <1>5, ResultOfEnd DEF End
  <2>3. On' = None /\ Asked' = None /\ Reported' = res
    BY <2>1, <2>2 DEF On, Asked, Reported
  <2>4. CASE On = None
    <3>1. Asked = None
      BY <1>0, <2>4, Fields, ModuleAssumption DEF On, Asked, Shape, TypeInv
    <3> QED
      BY <1>2, <2>2, <2>3, <2>4, <3>1 DEF List!Next, List!Other
  <2>5. CASE On # None /\ res = "ok"
    <3>1. On \in Module /\ Entries'[On] = Asked
      <4>1. PICK m \in Module : On = m
        BY <1>3, <2>5
      <4>2. Entries'[m] = Asked
        BY <1>0, <1>5, <2>5, <4>1, AgentSucceeds
      <4> QED
        BY <4>1, <4>2
    <3> QED
      BY <1>3, <2>2, <2>3, <2>5, <3>1 DEF List!Next, List!Succeed
  <2>6. CASE On # None /\ res # "ok"
    BY <1>3, <2>2, <2>3, <2>6 DEF List!Next, List!Fail
  <2> QED
    BY <2>4, <2>5, <2>6
<1>6. CASE Conclude("agent", "ok", FALSE, TRUE) /\ c.op = "install" /\ UNCHANGED con
  <2>1. cmd'["agent"].step = "idle" /\ cmd'["agent"].op = "finalize"
    BY <1>0, <1>6, AfterConclude DEF TypeInv
  <2>2. last'.result = "ok" /\ last'.unread = TRUE
    BY <1>6, ResultOfEnd
  <2>3. On' = None /\ Asked' = None /\ Reported' = "ok"
    BY <2>1, <2>2 DEF On, Asked, Reported
  <2>4. On # None
    BY <1>0, <1>6, Fields, ModuleAssumption DEF On, Shape, TypeInv
  <2>5. Entries' = Entries
    BY <1>6 DEF Entries
  <2> QED
    BY <2>2, <2>3, <2>4, <2>5 DEF List!Next, List!Mislead
<1> QED
  BY <1>0, <1>4, <1>5, <1>6, AgentGoesOrEnds

\* Other steps begin a command of the agent, or are none for the list.
LEMMA OthersKeepList ==
  ASSUME IInv, IdleInv, [Next]_vars, ~CommandStep("agent")
  PROVE  List!Next \/ UNCHANGED List!vars
<1>0. "agent" \in Process /\ TypeInv
  BY DEF Process, IInv
<1>1. ASSUME NEW op, NEW step \in Step \ {"idle"}, NEW module, NEW version, NEW ref, NEW file,
             Begin("agent", New(op, step, module, version, ref, file)),
             op \in {"install", "remove"} => module \in Module,
             op = "install" => version \in Ref
      PROVE  List!Next
  <2>1. /\ cmd["agent"].step = "idle" /\ UNCHANGED con
        /\ cmd'["agent"] = New(op, step, module, version, ref, file)
    BY <1>0, <1>1 DEF Begin, At, TypeInv, CommandsTyped, engineVars
  <2>2. cmd["agent"].op = "finalize"
    BY <2>1 DEF IdleInv
  <2>3. /\ cmd'["agent"].op = op /\ cmd'["agent"].step = step
        /\ cmd'["agent"].module = module /\ cmd'["agent"].version = version
    BY <2>1 DEF New
  <2>4. /\ On = None /\ Asked = None /\ Entries' = Entries /\ Reported' = "none"
        /\ last'.unread = FALSE
    BY <1>1, <2>1, <2>2, <2>3 DEF On, Asked, Entries, Reported, Begin, NoOutcome
  <2>5. CASE op \in {"install", "remove"}
    BY <1>1, <2>3, <2>4, <2>5 DEF On, Asked, List!Next, List!Begin, List!Entry
  <2>6. CASE op \notin {"install", "remove"}
    BY <2>3, <2>4, <2>6 DEF On, Asked, List!Next, List!Other
  <2> QED
    BY <2>5, <2>6
<1>2. ASSUME BeginInstall \/ BeginRemove \/ BeginImageRemove \/ BeginFinalize
               \/ BeginImageInstall("agent", Images)
      PROVE  List!Next
  <2>1. CASE BeginInstall
    <3>1. PICK r \in Containers :
            Begin("agent", New("install", IF r.file # None THEN "load" ELSE "network",
                               r.module, r.version, r.version, r.file))
      BY <2>1 DEF BeginInstall
    <3>2. r.module \in Module /\ r.version \in Ref
      BY ModuleAssumption
    <3> QED
      BY <1>1, <3>1, <3>2 DEF Step
  <2>2. CASE BeginRemove
    BY <1>1, <2>2 DEF BeginRemove, Step
  <2>3. CASE BeginImageRemove
    BY <1>1, <2>3 DEF BeginImageRemove, Step
  <2>4. CASE BeginFinalize
    BY <1>1, <2>4 DEF BeginFinalize, Step
  <2>5. CASE BeginImageInstall("agent", Images)
    BY <1>1, <2>5 DEF BeginImageInstall, Step
  <2> QED
    BY <1>2, <2>1, <2>2, <2>3, <2>4, <2>5
<1>3. ASSUME \/ CommandStep("workflow") \/ BeginImageInstall("workflow", Tools)
             \/ Publish \/ RenewCredentials \/ UNCHANGED vars
      PROVE  UNCHANGED List!vars
  <2>1. cmd'["agent"] = cmd["agent"] /\ UNCHANGED <<con, last>>
    <3>1. CASE CommandStep("workflow")
      BY <3>1, WorkflowKeeps DEF IInv
    <3>2. CASE BeginImageInstall("workflow", Tools)
      BY <1>0, <3>2 DEF BeginImageInstall, Begin, engineVars, TypeInv, CommandsTyped
    <3>3. CASE Publish \/ RenewCredentials \/ UNCHANGED vars
      BY <3>3 DEF Publish, RenewCredentials, vars, engineVars
    <3> QED
      BY <1>3, <3>1, <3>2, <3>3
  <2> QED
    BY <2>1 DEF List!vars, Entries, On, Asked, Reported
<1> QED
  BY <1>2, <1>3 DEF Next, Process

\* Every step keeps an idle process without a request.
LEMMA IdleStep ==
  ASSUME IInv, IdleInv, [Next]_vars
  PROVE  IdleInv'
<1>0. "agent" \in Process /\ "workflow" \in Process /\ TypeInv
  BY DEF Process, IInv
<1>1. CASE CommandStep("agent")
  BY <1>0, <1>1, AgentGoesOrEnds, AfterEnd, AfterConclude DEF IdleInv, TypeInv
<1>2. CASE CommandStep("workflow")
  BY <1>2, WorkflowKeeps DEF IdleInv, IInv
<1>3. ASSUME NEW p \in Process, NEW op, NEW step \in Step \ {"idle"}, NEW module, NEW version,
             NEW ref, NEW file, Begin(p, New(op, step, module, version, ref, file))
      PROVE  IdleInv'
  BY <1>0, <1>3 DEF Begin, New, IdleInv, TypeInv, CommandsTyped
<1>4. CASE Publish \/ RenewCredentials \/ UNCHANGED vars
  BY <1>4 DEF Publish, RenewCredentials, vars, IdleInv
<1>5. CASE \/ BeginInstall \/ BeginRemove \/ BeginImageRemove \/ BeginFinalize
           \/ BeginImageInstall("agent", Images) \/ BeginImageInstall("workflow", Tools)
  <2> USE <1>0, <1>3 DEF Step
  <2>1. CASE BeginInstall
    BY <2>1 DEF BeginInstall
  <2>2. CASE BeginRemove
    BY <2>2 DEF BeginRemove
  <2>3. CASE BeginImageRemove
    BY <2>3 DEF BeginImageRemove
  <2>4. CASE BeginFinalize
    BY <2>4 DEF BeginFinalize
  <2>5. ASSUME NEW p \in Process, NEW requests, BeginImageInstall(p, requests)
        PROVE  IdleInv'
    BY <2>5 DEF BeginImageInstall
  <2> QED
    BY <1>5, <2>1, <2>2, <2>3, <2>4, <2>5
<1> QED
  BY <1>1, <1>2, <1>4, <1>5 DEF Next, Process

\* Only an answer that could not be read misleads the agent.
UnreadInv == last.unread => "read" \in FaultyCall

\* While reading the engine's answers does not fail, the agent is not misled: what
\* is reported is then true without an exception.
THEOREM NotMisled == Spec => [](last.unread => "read" \in FaultyCall)
<1>1. Init => UnreadInv
  BY DEF Init, NoOutcome, UnreadInv
<1>2. ASSUME IInv, UnreadInv, [Next]_vars PROVE UnreadInv'
  <2>1. ASSUME NEW command, Begin("agent", command) PROVE UnreadInv'
    BY <2>1 DEF Begin, NoOutcome, UnreadInv
  <2>2. CASE UNCHANGED last
    BY <1>2, <2>2 DEF UnreadInv
  <2>3. CASE CommandStep("agent")
    <3>1. ASSUME NEW result, NEW blameless, End("agent", result, blameless) PROVE UnreadInv'
      BY <3>1, ResultOfEnd DEF End, UnreadInv
    <3>2. CASE Load("agent")
      <4>1. \/ "read" \in FaultyCall
            \/ \E result, blameless : End("agent", result, blameless)
            \/ UNCHANGED last
        BY <3>2 DEF Load, Fails, Proceed
      <4> QED
        BY <2>2, <3>1, <4>1 DEF UnreadInv
    <3>3. CASE ~Load("agent")
      <4>1. \/ \E result, blameless : End("agent", result, blameless)
            \/ UNCHANGED last
        BY <2>3, <3>3
        DEF CommandStep, CreateSharedNetwork, Look, Pull, DockerPull, Verify, Stop, Remove,
            Create, Start, Untag, Prune, ImageFound, AfterRemoval, StartFailed, Goto, Proceed,
            Authorized, AttemptFailed
      <4> QED
        BY <2>2, <3>1, <4>1
    <3> QED
      BY <3>2, <3>3
  <2>4. CASE CommandStep("workflow")
    BY <1>2, <2>2, <2>4, WorkflowKeeps DEF IInv
  <2>5. CASE BeginImageInstall("workflow", Tools) \/ Publish \/ RenewCredentials \/ UNCHANGED vars
    BY <2>2, <2>5 DEF BeginImageInstall, Begin, Publish, RenewCredentials, vars
  <2>6. BeginInstall \/ BeginRemove \/ BeginImageInstall("agent", Images) \/ BeginImageRemove
          \/ BeginFinalize => \E command : Begin("agent", command)
    BY DEF BeginInstall, BeginRemove, BeginImageInstall, BeginImageRemove, BeginFinalize
  <2> QED
    BY <1>2, <2>1, <2>3, <2>4, <2>5, <2>6 DEF Next, Process
<1> QED
  BY <1>1, <1>2, Invariant, PTL DEF Spec, UnreadInv

\* The container plugin implements SoftwareList: what a command reports is true of
\* its container, but for an install that could not read the engine's answer on a
\* file, which misleads the agent and leaves the container; and it touches no other,
\* whatever calls fail and whatever a workflow does to the images meanwhile.
THEOREM ListIsKept == Spec => KeepsList
<1>1. Init => List!Init /\ IdleInv
  <2> SUFFICES ASSUME Init PROVE List!Init /\ IdleInv
    OBVIOUS
  <2>1. cmd["agent"] = Nothing /\ last.result = "none" /\ last.unread = FALSE
    BY DEF Init, Process, NoOutcome
  <2>2. cmd["agent"].op = "finalize" /\ cmd["agent"].step = "idle"
    BY <2>1 DEF Nothing, New
  <2>3. Entries = [m \in Module |-> None]
    BY DEF Init, Entries
  <2> QED
    BY <2>1, <2>2, <2>3 DEF List!Init, On, Asked, Reported, IdleInv
<1>2. IInv /\ IdleInv /\ IInv' /\ [Next]_vars => [List!Next]_(List!vars)
  BY CommandKeepsList, OthersKeepList
<1>3. IInv /\ IdleInv /\ [Next]_vars => IdleInv'
  BY IdleStep
<1> QED
  BY <1>1, <1>2, <1>3, Invariant, PTL DEF Spec, KeepsList, List!Spec

=============================================================================
