---------------------------- MODULE CloneProofs ----------------------------
(***************************************************************************)
(* Theorems about the replacement of containers, for any number of         *)
(* containers, runs, polls, failed calls and restarts of the machine.      *)
(***************************************************************************)
EXTENDS Clone, TLAPS

-----------------------------------------------------------------------------
(***************************************************************************)
(* Types                                                                   *)
(***************************************************************************)

\* The engine's part of the state, and the bounds, have their types.
EngineTyped ==
  /\ name \in [Container -> OrNone(Name)]
  /\ state \in [Container -> {"created", "running", "exited", "stopped"}]
  /\ always \subseteq Container
  /\ works \subseteq Container
  /\ faults \in Nat /\ exits \in Nat /\ reboots \in Nat /\ runs \in 0..MaxRuns

\* What the ends of a run have in common.
LEMMA ReturnTyped ==
  ASSUME TypeOK, NEW res \in {"ok", "error", "killed"}, Return(res), EngineTyped'
  PROVE  TypeOK'
BY CloneAssumption
   DEF Return, TypeOK, EngineTyped, OrNone, Replacing, Trying, Cleanup, Reverting

\* The steps from one point of a run to another.
LEMMA GotoTyped ==
  ASSUME TypeOK,
         NEW step \in Replacing \cup Trying \cup Cleanup \cup Reverting, Goto(step),
         pc # "idle", (next # None) = (step \in Trying \cup Cleanup \cup Reverting),
         EngineTyped'
  PROVE  TypeOK'
BY DEF Goto, TypeOK, EngineTyped, Replacing, Trying, Cleanup, Reverting

\* The outcome of a call: the count of failed calls stays a number.
LEMMA FaultsTyped ==
  ASSUME TypeOK, Works \/ \E call \in Call : Fails(call)
  PROVE  faults' \in Nat
BY DEF Works, Fails, TypeOK

\* A call that is refused ends the run.
LEMMA OrReturnTyped ==
  ASSUME TypeOK, NEW call \in Call, OrReturn(call), UNCHANGED <<exits, reboots, runs>>
  PROVE  TypeOK'
<1>1. EngineTyped'
  BY FaultsTyped DEF OrReturn, Fails, TypeOK, EngineTyped, engineVars
<1> QED
  BY <1>1, ReturnTyped DEF OrReturn

\* Every step of the specification keeps the types.
LEMMA TypesStay ==
  ASSUME TypeOK, [Next]_vars
  PROVE  TypeOK'
<1> USE DEF Replacing, Trying, Cleanup, Reverting
<1>1. ASSUME Begin PROVE TypeOK'
  <2>0. PICK c \in Container : BeginOn(c)
    BY <1>1 DEF Begin
  <2>1. prev' \in Container /\ prev' # None /\ pc' \in {"disable", "stop"}
    BY <2>0, CloneAssumption DEF BeginOn
  <2>5. base' \in Name /\ base' # None
    BY <2>0 DEF BeginOn, Exists, TypeOK, OrNone
  <2>2. pc = "idle" /\ next = None
    BY <2>0 DEF BeginOn, TypeOK
  <2>3. runs' \in 0..MaxRuns
    BY <2>0, CloneAssumption DEF BeginOn, TypeOK
  <2>4. UNCHANGED <<name, state, always, works, next, polls, result>>
        /\ UNCHANGED <<faults, exits, reboots>>
    BY <2>0 DEF BeginOn, engineVars
  <2> QED
    BY <2>1, <2>2, <2>3, <2>4, <2>5 DEF TypeOK, OrNone
<1>2. ASSUME Step PROVE TypeOK'
  <2>1. UNCHANGED <<exits, reboots, runs>>
    BY <1>2 DEF Step
  <2>2. prev \in Container \/ pc = "idle"
    BY DEF TypeOK, OrNone
  <2>3. next \in Container \/ pc \notin Trying \cup Cleanup \cup Reverting
    BY DEF TypeOK, OrNone
  <2>4. ASSUME NEW c \in Container, NEW n \in OrNone(Name),
               name' = [name EXCEPT ![c] = n], Works,
               UNCHANGED <<state, always, works>>
        PROVE  EngineTyped'
    BY <2>1, <2>4 DEF TypeOK, EngineTyped, Works
  <2>5. ASSUME NEW c \in Container,
               NEW s \in {"created", "running", "exited", "stopped"},
               state' = [state EXCEPT ![c] = s], Works,
               UNCHANGED <<name, always, works>>
        PROVE  EngineTyped'
    BY <2>1, <2>5 DEF TypeOK, EngineTyped, Works
  <2>6. ASSUME Works \/ \E call \in Call : Fails(call), UNCHANGED engineVars
        PROVE  EngineTyped'
    <3>1. faults' \in Nat
      BY <2>6, FaultsTyped
    <3> QED
      BY <2>1, <2>6, <3>1 DEF TypeOK, EngineTyped, engineVars
  <2>7. /\ base \in OrNone(Name) /\ None \in OrNone(Name) /\ runs \in OrNone(Name)
        /\ base # None \/ pc = "idle"
    BY CloneAssumption DEF OrNone, Name, TypeOK
  <2>8. CASE pc = "disable" /\ DisablePolicy
    <3>1. CASE OrReturn("update")
      BY <2>1, <3>1, OrReturnTyped DEF Call
    <3>2. CASE Works /\ always' = always \ {prev} /\ Goto("wait")
               /\ UNCHANGED <<name, state, works>>
      <4>1. EngineTyped'
        BY <2>1, <3>2 DEF TypeOK, EngineTyped, Works
      <4> QED
        BY <2>8, <3>2, <4>1, GotoTyped DEF TypeOK
    <3> QED
      BY <2>8, <3>1, <3>2 DEF DisablePolicy
  <2>9. CASE pc = "wait" /\ SeeStopped /\ UNCHANGED <<engineVars, faults>>
    <3>1. EngineTyped'
      BY <2>6, <2>9 DEF Works
    <3> QED
      BY <2>9, <3>1, GotoTyped, ReturnTyped DEF SeeStopped, TypeOK
  <2>10. CASE pc = "stop" /\ StopPrevious
    <3>1. CASE OrReturn("stop")
      BY <2>1, <3>1, OrReturnTyped DEF Call
    <3>2. CASE Works /\ state' = [state EXCEPT ![prev] = "stopped"] /\ Goto("rename")
               /\ UNCHANGED <<name, always, works>>
      <4>1. EngineTyped'
        BY <2>2, <2>5, <2>10, <3>2
      <4> QED
        BY <2>10, <3>2, <4>1, GotoTyped DEF TypeOK
    <3> QED
      BY <2>10, <3>1, <3>2 DEF StopPrevious
  <2>11. CASE pc = "rename" /\ RenamePrevious
    <3>1. CASE OrReturn("rename")
      BY <2>1, <3>1, OrReturnTyped DEF Call
    <3>2. CASE Works /\ name' = [name EXCEPT ![prev] = runs] /\ Goto("create")
               /\ UNCHANGED <<state, always, works>>
      <4>1. EngineTyped'
        BY <2>2, <2>4, <2>7, <2>11, <3>2
      <4> QED
        BY <2>11, <3>2, <4>1, GotoTyped DEF TypeOK
    <3> QED
      BY <2>11, <3>1, <3>2 DEF RenamePrevious
  <2>12. CASE pc = "create" /\ CreateNext
    <3>1. CASE OrReturn("create")
      BY <2>1, <3>1, OrReturnTyped DEF Call
    <3>2. CASE ~OrReturn("create")
      <4>1. PICK c \in Container :
              /\ name' = [name EXCEPT ![c] = base]
              /\ state' = [state EXCEPT ![c] = "created"]
              /\ always' = RestartAlways(c)
              /\ works' \in {works \cup {c}, works \ {c}}
              /\ next' = c
        BY <2>12, <3>2 DEF CreateNext
      <4>2. pc' = "start" /\ UNCHANGED <<prev, base, polls, result>> /\ Works
        BY <2>12, <3>2 DEF CreateNext
      <4>3. next' \in Container /\ next' # None
        BY <4>1, CloneAssumption
      <4>4. EngineTyped'
        BY <2>1, <2>7, <4>1, <4>2 DEF TypeOK, EngineTyped, Works, RestartAlways
      <4> QED
        BY <2>12, <4>2, <4>3, <4>4 DEF TypeOK, EngineTyped, OrNone
    <3> QED
      BY <3>1, <3>2
  <2>13. CASE pc = "start" /\ StartNext
    <3>1. EngineTyped'
      <4>1. CASE Works /\ state' = [state EXCEPT ![next] = "running"]
        BY <2>3, <2>5, <2>13, <4>1 DEF StartNext
      <4>2. CASE Fails("start") /\ UNCHANGED state
        BY <2>6, <2>13, <4>2 DEF StartNext, Call, engineVars
      <4> QED
        BY <2>13, <4>1, <4>2 DEF StartNext
    <3> QED
      BY <2>13, <3>1, GotoTyped DEF StartNext, TypeOK
  <2>14. CASE pc = "poll" /\ Poll /\ UNCHANGED <<engineVars, faults>>
    <3>1. EngineTyped'
      BY <2>6, <2>14 DEF Works
    <3>2. CASE polls < MaxPolls /\ polls' = polls + 1 /\ UNCHANGED <<pc, prev, base, next, result>>
      <4>1. polls' \in 0..MaxPolls
        BY <3>2, CloneAssumption DEF TypeOK
      <4> QED
        BY <3>1, <3>2, <4>1 DEF TypeOK, EngineTyped
    <3> QED
      BY <2>14, <3>1, <3>2, GotoTyped DEF Poll, TypeOK
  <2>15. CASE pc = "stop-previous" /\ StopReplaced
    <3>1. CASE Fails("stop") /\ Return("ok") /\ UNCHANGED engineVars
      BY <2>6, <3>1, ReturnTyped DEF Call
    <3>2. CASE Works /\ state' = [state EXCEPT ![prev] = "stopped"]
               /\ Goto("remove-previous") /\ UNCHANGED <<name, always, works>>
      <4>1. EngineTyped'
        BY <2>2, <2>5, <2>15, <3>2
      <4> QED
        BY <2>15, <3>2, <4>1, GotoTyped DEF TypeOK
    <3> QED
      BY <2>15, <3>1, <3>2 DEF StopReplaced
  <2>16. CASE pc = "remove-previous" /\ RemoveReplaced
    <3>1. EngineTyped'
      <4>1. CASE Works /\ name' = [name EXCEPT ![prev] = None]
        BY <2>2, <2>4, <2>7, <2>16, <4>1 DEF RemoveReplaced
      <4>2. CASE Fails("remove") /\ UNCHANGED name
        BY <2>6, <2>16, <4>2 DEF RemoveReplaced, Call, engineVars
      <4> QED
        BY <2>16, <4>1, <4>2 DEF RemoveReplaced
    <3> QED
      BY <2>16, <3>1, ReturnTyped DEF RemoveReplaced
  <2>17. CASE pc = "logs" /\ ShowLogs
    <3>1. CASE OrReturn("logs")
      BY <2>1, <3>1, OrReturnTyped DEF Call
    <3>2. CASE Works /\ Goto("stop-next") /\ UNCHANGED engineVars
      BY <2>6, <2>17, <3>2, GotoTyped DEF TypeOK
    <3> QED
      BY <2>17, <3>1, <3>2 DEF ShowLogs
  <2>18. CASE pc = "stop-next" /\ StopNext
    <3>1. CASE Fails("stop") /\ Goto("rename-back") /\ UNCHANGED engineVars
      BY <2>6, <2>18, <3>1, GotoTyped DEF TypeOK, Call
    <3>2. CASE Works /\ state' = [state EXCEPT ![next] = "stopped"]
               /\ Goto("remove-next") /\ UNCHANGED <<name, always, works>>
      <4>1. EngineTyped'
        BY <2>3, <2>5, <2>18, <3>2
      <4> QED
        BY <2>18, <3>2, <4>1, GotoTyped DEF TypeOK
    <3> QED
      BY <2>18, <3>1, <3>2 DEF StopNext
  <2>19. CASE pc = "remove-next" /\ RemoveNext
    <3>1. EngineTyped'
      <4>1. CASE Works /\ name' = [name EXCEPT ![next] = None]
        BY <2>3, <2>4, <2>7, <2>19, <4>1 DEF RemoveNext
      <4>2. CASE Fails("remove") /\ UNCHANGED name
        BY <2>6, <2>19, <4>2 DEF RemoveNext, Call, engineVars
      <4> QED
        BY <2>19, <4>1, <4>2 DEF RemoveNext
    <3> QED
      BY <2>19, <3>1, GotoTyped DEF RemoveNext, TypeOK
  <2>20. CASE pc = "rename-back" /\ RenameBack
    <3>1. CASE OrReturn("rename")
      BY <2>1, <3>1, OrReturnTyped DEF Call
    <3>2. CASE Works /\ Return("error") /\ UNCHANGED engineVars
      BY <2>6, <3>2, ReturnTyped
    <3>3. CASE Works /\ name' = [name EXCEPT ![prev] = base] /\ Goto("start-previous")
               /\ UNCHANGED <<state, always, works>>
      <4>1. EngineTyped'
        BY <2>2, <2>4, <2>7, <2>20, <3>3
      <4> QED
        BY <2>20, <3>3, <4>1, GotoTyped DEF TypeOK
    <3> QED
      BY <2>20, <3>1, <3>2, <3>3 DEF RenameBack
  <2>21. CASE pc = "start-previous" /\ StartPrevious
    <3>1. CASE OrReturn("start")
      BY <2>1, <3>1, OrReturnTyped DEF Call
    <3>2. CASE Works /\ state' = [state EXCEPT ![prev] = "running"] /\ Return("ok")
               /\ UNCHANGED <<name, always, works>>
      BY <2>2, <2>5, <2>21, <3>2, ReturnTyped
    <3> QED
      BY <2>21, <3>1, <3>2 DEF StartPrevious
  <2> HIDE DEF Replacing, Trying, Cleanup, Reverting
  <2> QED
    BY <1>2, <2>8, <2>9, <2>10, <2>11, <2>12, <2>13, <2>14, <2>15, <2>16, <2>17,
       <2>18, <2>19, <2>20, <2>21 DEF Step
<1>3. ASSUME NEW c \in Container, Exit(c) PROVE TypeOK'
  BY <1>3 DEF Exit, TypeOK, commandVars
<1>4. ASSUME NEW c \in Container, EngineRestarts(c) PROVE TypeOK'
  BY <1>4 DEF EngineRestarts, TypeOK, commandVars, counters
<1>5. ASSUME Reboot PROVE TypeOK'
  <2>1. EngineTyped'
    BY <1>5 DEF Reboot, TypeOK, EngineTyped
  <2>2. CASE UNCHANGED commandVars
    BY <2>1, <2>2 DEF TypeOK, EngineTyped, commandVars
  <2> QED
    BY <1>5, <2>1, <2>2, ReturnTyped DEF Reboot
<1>6. CASE UNCHANGED vars
  BY <1>6 DEF vars, engineVars, commandVars, counters, TypeOK
<1>7. ASSUME Kill PROVE TypeOK'
  <2>1. EngineTyped'
    BY <1>7 DEF Kill, TypeOK, EngineTyped, engineVars, counters
  <2> QED
    BY <1>7, <2>1, ReturnTyped DEF Kill
<1> QED
  BY <1>1, <1>2, <1>3, <1>4, <1>5, <1>6, <1>7 DEF Next

\* The state of the command and of the containers it works on stays of its type;
\* in particular it knows a next container exactly from its creation on.
THEOREM TypeCorrect == Spec => []TypeOK
<1>1. Init => TypeOK
  BY CloneAssumption
     DEF Init, TypeOK, OrNone, Name, MainName, Replacing, Trying, Cleanup, Reverting
<1>2. TypeOK /\ [Next]_vars => TypeOK'
  BY TypesStay
<1> QED
  BY <1>1, <1>2, PTL DEF Spec

-----------------------------------------------------------------------------
(***************************************************************************)
(* A working copy survives                                                 *)
(***************************************************************************)

\* While the previous container is replaced, a copy other than the next one
\* survives; once it is given up, the next one does.
SurvivorInv ==
  /\ pc \notin {"disable", "wait"}
  /\ pc \in Replacing => Exists(prev)
  /\ pc \in Trying \cup Cleanup => next # prev /\ Exists(next) /\ next \in always
  /\ IF pc \in Cleanup THEN Survives(next)
     ELSE \E c \in Container : c # next /\ Survives(c)

\* The end of a run leaves nothing to show but the copy.
LEMMA ReturnKeepsCopy ==
  ASSUME NEW res, Return(res), NEW c \in Container, Survives(c)'
  PROVE  SurvivorInv'
BY CloneAssumption DEF Return, SurvivorInv, Survives, Exists, Replacing, Trying, Cleanup

\* A copy survives a step that keeps it as it is, or only changes its name.
LEMMA CopyKept ==
  ASSUME NEW c \in Container, Survives(c), name'[c] # None, state'[c] # "created",
         always \subseteq always', works \cap {c} \subseteq works'
  PROVE  Survives(c)'
BY DEF Survives, Exists

\* A refused call ends the run, and changes no container.
LEMMA OrReturnKeepsCopy ==
  ASSUME SurvivorInv, NEW call, OrReturn(call), pc \notin Cleanup
  PROVE  SurvivorInv'
<1>1. PICK c \in Container : Survives(c)
  BY DEF SurvivorInv
<1>2. Survives(c)'
  BY <1>1 DEF OrReturn, engineVars, Survives, Exists
<1> QED
  BY <1>2, ReturnKeepsCopy DEF OrReturn

\* Every step of a command that does not wait for an exit, with a health check.
LEMMA StepKeepsCopy ==
  ASSUME TypeOK, HasCheck, SurvivorInv, Step
  PROVE  SurvivorInv'
<1> USE DEF Replacing, Trying, Cleanup, Reverting
<1>1. pc # "idle" /\ prev \in Container
  BY DEF Step, TypeOK, OrNone
<1>2. pc \in Trying \cup Cleanup \cup Reverting => next \in Container
  BY DEF TypeOK, OrNone
<1>3. name \in [Container -> OrNone(Name)]
      /\ state \in [Container -> {"created", "running", "exited", "stopped"}]
  BY DEF TypeOK
<1>4. runs # None /\ base # None
  BY <1>1, CloneAssumption DEF TypeOK
<1>5. pc \notin Cleanup => \E c \in Container : c # next /\ Survives(c)
  BY DEF SurvivorInv
<1>6. CASE pc = "stop" /\ StopPrevious
  <2>1. CASE OrReturn("stop")
    BY <1>6, <2>1, OrReturnKeepsCopy
  <2>2. CASE state' = [state EXCEPT ![prev] = "stopped"] /\ Goto("rename")
             /\ UNCHANGED <<name, always, works>>
    <3>1. PICK c \in Container : c # next /\ Survives(c)
      BY <1>5, <1>6
    <3>2. name'[c] # None /\ state'[c] # "created"
      BY <1>3, <2>2, <3>1 DEF Survives, Exists
    <3>3. Survives(c)'
      BY <2>2, <3>1, <3>2, CopyKept
    <3> QED
      BY <1>6, <2>2, <3>1, <3>3 DEF Goto, SurvivorInv, Exists
  <2> QED
    BY <1>6, <2>1, <2>2 DEF StopPrevious
<1>7. CASE pc = "rename" /\ RenamePrevious
  <2>1. CASE OrReturn("rename")
    BY <1>7, <2>1, OrReturnKeepsCopy
  <2>2. CASE name' = [name EXCEPT ![prev] = runs] /\ Goto("create")
             /\ UNCHANGED <<state, always, works>>
    <3>1. PICK c \in Container : c # next /\ Survives(c)
      BY <1>5, <1>7
    <3>2. name'[c] # None /\ state'[c] # "created" /\ name'[prev] # None
      BY <1>1, <1>3, <1>4, <2>2, <3>1 DEF Survives, Exists
    <3>3. Survives(c)'
      BY <2>2, <3>1, <3>2, CopyKept
    <3> QED
      BY <1>7, <2>2, <3>1, <3>2, <3>3 DEF Goto, SurvivorInv, Exists
  <2> QED
    BY <1>7, <2>1, <2>2 DEF RenamePrevious
<1>8. CASE pc = "create" /\ CreateNext
  <2>1. CASE OrReturn("create")
    BY <1>8, <2>1, OrReturnKeepsCopy
  <2>2. CASE ~OrReturn("create")
    <3>1. PICK d \in Container :
            /\ ~Exists(d)
            /\ name' = [name EXCEPT ![d] = base]
            /\ state' = [state EXCEPT ![d] = "created"]
            /\ always' = RestartAlways(d)
            /\ works' \in {works \cup {d}, works \ {d}}
            /\ next' = d
      BY <1>8, <2>2 DEF CreateNext
    <3>2. pc' = "start" /\ prev' = prev
      BY <1>8, <2>2 DEF CreateNext
    <3>3. PICK c \in Container : c # next /\ Survives(c)
      BY <1>5, <1>8
    <3>4. c # d /\ prev # d
      BY <1>8, <3>1, <3>3 DEF SurvivorInv, Survives
    <3>5. name'[c] # None /\ state'[c] # "created" /\ name'[d] # None
      BY <1>3, <1>4, <3>1, <3>3, <3>4 DEF Survives, Exists
    <3>6. Survives(c)'
      BY <3>1, <3>3, <3>4, <3>5, CopyKept DEF RestartAlways
    <3> QED
      BY <3>1, <3>2, <3>4, <3>5, <3>6 DEF SurvivorInv, Exists, RestartAlways
  <2> QED
    BY <2>1, <2>2
<1>9. CASE pc = "start" /\ StartNext
  <2>1. PICK c \in Container : c # next /\ Survives(c)
    BY <1>5, <1>9
  <2>2. name'[c] # None /\ state'[c] # "created"
    BY <1>3, <1>9, <2>1 DEF StartNext, Survives, Exists
  <2>3. Survives(c)'
    BY <1>9, <2>1, <2>2, CopyKept DEF StartNext
  <2> QED
    BY <1>9, <2>1, <2>3 DEF StartNext, Goto, SurvivorInv, Exists
<1>10. CASE pc = "poll" /\ Poll /\ UNCHANGED <<engineVars, faults>>
  <2>1. CASE Healthy /\ Goto("stop-previous")
    <3>1. Survives(next)
      BY <1>10, <2>1 DEF Healthy, Running, Survives, SurvivorInv
    <3> QED
      BY <1>10, <2>1, <3>1 DEF Goto, SurvivorInv, Survives, Exists, engineVars
  <2>2. CASE ~(Healthy /\ Goto("stop-previous"))
    <3>1. pc' \in {"poll", "logs"} /\ UNCHANGED <<prev, next>>
      BY <1>10, <2>2 DEF Poll, Goto
    <3> QED
      BY <1>5, <1>10, <3>1 DEF SurvivorInv, Survives, Exists, engineVars
  <2> QED
    BY <2>1, <2>2
<1>11. CASE pc = "stop-previous" /\ StopReplaced
  <2>1. PICK c \in Container : c = next /\ c # prev /\ c \in always /\ Survives(c)
    BY <1>2, <1>11 DEF SurvivorInv
  <2>2. UNCHANGED <<name, always, works>> /\ state'[c] = state[c]
    BY <1>3, <1>11, <2>1 DEF StopReplaced, engineVars
  <2>3. Survives(c)'
    BY <2>1, <2>2 DEF Survives, Exists
  <2>4. CASE Return("ok")
    BY <2>3, <2>4, ReturnKeepsCopy
  <2>5. CASE Goto("remove-previous")
    BY <2>1, <2>3, <2>5 DEF Goto, SurvivorInv, Survives
  <2> QED
    BY <1>11, <2>4, <2>5 DEF StopReplaced
<1>12. CASE pc = "remove-previous" /\ RemoveReplaced
  <2>1. PICK c \in Container : c # prev /\ Survives(c)
    BY <1>2, <1>12 DEF SurvivorInv
  <2>2. UNCHANGED <<state, always, works>> /\ name'[c] = name[c]
    BY <1>3, <1>12, <2>1 DEF RemoveReplaced
  <2>3. Survives(c)'
    BY <2>1, <2>2 DEF Survives, Exists
  <2> QED
    BY <1>12, <2>3, ReturnKeepsCopy DEF RemoveReplaced
<1>13. CASE pc = "logs" /\ ShowLogs
  <2>1. CASE OrReturn("logs")
    BY <1>13, <2>1, OrReturnKeepsCopy
  <2>2. CASE Goto("stop-next") /\ UNCHANGED engineVars
    BY <1>5, <1>13, <2>2 DEF Goto, SurvivorInv, Survives, Exists, engineVars
  <2> QED
    BY <1>13, <2>1, <2>2 DEF ShowLogs
<1>14. CASE pc = "stop-next" /\ StopNext
  <2>1. PICK c \in Container : c # next /\ Survives(c)
    BY <1>5, <1>14
  <2>2. UNCHANGED <<name, always, works>> /\ state'[c] = state[c]
    BY <1>3, <1>14, <2>1 DEF StopNext, engineVars
  <2>3. Survives(c)'
    BY <2>1, <2>2 DEF Survives, Exists
  <2>4. pc' \in {"remove-next", "rename-back"} /\ UNCHANGED <<prev, next>>
    BY <1>14 DEF StopNext, Goto
  <2> QED
    BY <2>1, <2>3, <2>4 DEF SurvivorInv
<1>15. CASE pc = "remove-next" /\ RemoveNext
  <2>1. PICK c \in Container : c # next /\ Survives(c)
    BY <1>5, <1>15
  <2>2. UNCHANGED <<state, always, works>> /\ name'[c] = name[c]
    BY <1>3, <1>15, <2>1 DEF RemoveNext
  <2>3. Survives(c)'
    BY <2>1, <2>2 DEF Survives, Exists
  <2>4. pc' = "rename-back" /\ UNCHANGED <<prev, next>>
    BY <1>15 DEF RemoveNext, Goto
  <2> QED
    BY <2>1, <2>3, <2>4 DEF SurvivorInv
<1>16. CASE pc = "rename-back" /\ RenameBack
  <2>1. PICK c \in Container : c # next /\ Survives(c)
    BY <1>5, <1>16
  <2>2. UNCHANGED <<state, always, works>> /\ name'[c] # None
    BY <1>3, <1>4, <1>16, <2>1 DEF RenameBack, OrReturn, engineVars, Survives, Exists
  <2>3. Survives(c)'
    BY <2>1, <2>2 DEF Survives, Exists
  <2>4. CASE pc' = "start-previous" /\ UNCHANGED <<prev, next>>
    BY <2>1, <2>3, <2>4 DEF SurvivorInv
  <2>5. CASE Return("error")
    BY <2>3, <2>5, ReturnKeepsCopy
  <2> QED
    BY <1>16, <2>4, <2>5 DEF RenameBack, OrReturn, Goto
<1>17. CASE pc = "start-previous" /\ StartPrevious
  <2>1. PICK c \in Container : c # next /\ Survives(c)
    BY <1>5, <1>17
  <2>2. UNCHANGED <<name, always, works>> /\ state'[c] # "created"
    BY <1>3, <1>17, <2>1 DEF StartPrevious, OrReturn, engineVars, Survives
  <2>3. Survives(c)'
    BY <2>1, <2>2 DEF Survives, Exists
  <2> QED
    BY <1>17, <2>3, ReturnKeepsCopy DEF StartPrevious, OrReturn
<1>18. pc \notin {"disable", "wait"}
  BY DEF SurvivorInv
<1> HIDE DEF Replacing, Trying, Cleanup, Reverting
<1> QED
  BY <1>6, <1>7, <1>8, <1>9, <1>10, <1>11, <1>12, <1>13, <1>14, <1>15, <1>16, <1>17, <1>18
     DEF Step

\* However many runs, failed calls, exits and restarts of the machine: a copy of
\* the container that works and comes up with the machine always exists, provided
\* health is observed by a check and no run waits for an exit (which takes the
\* restart policy away and does not give it back).
THEOREM CopySurvives ==
  ASSUME TRUE \notin WaitForExit, HasCheck
  PROVE  Spec => []WorkingCopySurvives
<1>1. Init => SurvivorInv
  BY CloneAssumption
     DEF Init, SurvivorInv, Survives, Exists, MainName, Replacing, Trying, Cleanup
<1>2. TypeOK /\ SurvivorInv /\ [Next]_vars => SurvivorInv'
  <2> SUFFICES ASSUME TypeOK, SurvivorInv, [Next]_vars PROVE SurvivorInv'
    OBVIOUS
  <2>1. ASSUME Begin PROVE SurvivorInv'
    <3>1. pc' = "stop" /\ next' = next /\ UNCHANGED engineVars /\ pc = "idle"
      BY <2>1 DEF Begin, BeginOn
    <3>2. name[prev'] # None
      BY <2>1 DEF Begin, BeginOn, Exists
    <3> QED
      BY <3>1, <3>2
         DEF SurvivorInv, Survives, Exists, engineVars, Replacing, Trying, Cleanup
  <2>2. ASSUME Step PROVE SurvivorInv'
    BY <2>2, StepKeepsCopy
  <2>3. ASSUME NEW d \in Container, state' = [state EXCEPT ![d] = "exited"]
                                    \/ state' = [state EXCEPT ![d] = "running"],
               UNCHANGED <<name, always, works, commandVars>>
        PROVE  SurvivorInv'
    <3>1. ASSUME NEW c \in Container, Survives(c) PROVE Survives(c)'
      BY <2>3, <3>1 DEF Survives, Exists, TypeOK
    <3>2. next \in Container \/ pc \notin Cleanup
      BY DEF TypeOK, OrNone, Cleanup
    <3> QED
      BY <2>3, <3>1, <3>2 DEF SurvivorInv, Survives, Exists, commandVars
  <2>4. ASSUME Reboot PROVE SurvivorInv'
    <3>1. ASSUME NEW c \in Container, Survives(c) PROVE Survives(c)'
      BY <2>4, <3>1 DEF Reboot, Survives, Exists
    <3>2. PICK c \in Container : Survives(c) /\ (pc \notin Cleanup => c # next)
      BY DEF SurvivorInv, TypeOK, OrNone, Cleanup
    <3>3. CASE Return("killed")
      BY <3>1, <3>2, <3>3, ReturnKeepsCopy
    <3>4. CASE pc = "idle" /\ UNCHANGED commandVars
      BY <3>1, <3>2, <3>4 DEF SurvivorInv, commandVars, Replacing, Trying, Cleanup
    <3> QED
      BY <2>4, <3>3, <3>4 DEF Reboot
  <2>5. CASE UNCHANGED vars
    BY <2>5 DEF vars, engineVars, commandVars, SurvivorInv, Survives, Exists
  <2>6. ASSUME Kill PROVE SurvivorInv'
    <3>1. PICK c \in Container : Survives(c)
      BY DEF SurvivorInv, TypeOK, OrNone, Cleanup
    <3>2. Survives(c)'
      BY <2>6, <3>1 DEF Kill, engineVars, Survives, Exists
    <3> QED
      BY <2>6, <3>2, ReturnKeepsCopy DEF Kill
  <2> QED
    BY <2>1, <2>2, <2>3, <2>4, <2>5, <2>6 DEF Next, Exit, EngineRestarts
<1>3. TypeOK /\ SurvivorInv => WorkingCopySurvives
  BY DEF SurvivorInv, WorkingCopySurvives, TypeOK, OrNone, Cleanup
<1> QED
  BY <1>1, <1>2, <1>3, TypeCorrect, PTL DEF Spec

-----------------------------------------------------------------------------
(***************************************************************************)
(* One container runs                                                      *)
(***************************************************************************)

\* The engine gives a name to one container only; the command replaces one that
\* is there by another one.
NamesApart ==
  /\ \A c, d \in Container : Exists(c) /\ name[c] = name[d] => c = d
  /\ pc # "idle" => Exists(prev)
  /\ next # None => next # prev

\* As long as the machine does not restart, only what has the name comes up: the
\* previous container is down before it loses the name, and stays so until it has
\* the name again.
OnlyNamedUp ==
  /\ \A c \in Container : Exists(c) /\ Up(c) => name[c] = MainName
  /\ pc # "idle" => base = MainName
  /\ pc = "wait" => prev \notin always
  /\ pc \notin {"idle", "disable", "wait", "stop"} => ~Up(prev)
  /\ pc = "start" => name[next] = base
  /\ pc = "start-previous" => name[prev] = base

SingleInv == NamesApart /\ (reboots = 0 => OnlyNamedUp)

\* A step that changes neither names nor what is up, and ends the run or goes on
\* to a point about which nothing new is claimed.
LEMMA UpKept ==
  ASSUME UNCHANGED engineVars, NEW c \in Container
  PROVE  Up(c)' = Up(c) /\ Exists(c)' = Exists(c) /\ name'[c] = name[c]
BY DEF engineVars, Up, Running, Exists

\* The end of a run keeps the invariant if what it did to the containers does.
LEMMA ReturnKeepsSingle ==
  ASSUME SingleInv, NEW res, Return(res), UNCHANGED reboots,
         \A c, d \in Container : Exists(c)' /\ name'[c] = name'[d] => c = d,
         reboots = 0 => \A c \in Container : Exists(c)' /\ Up(c)' => name'[c] = MainName
  PROVE  SingleInv'
BY DEF SingleInv, NamesApart, OnlyNamedUp, Return

\* A refused call ends the run, and changes no container.
LEMMA OrReturnKeepsSingle ==
  ASSUME SingleInv, NEW call, OrReturn(call), UNCHANGED reboots
  PROVE  SingleInv'
BY ReturnKeepsSingle, UpKept DEF OrReturn, SingleInv, NamesApart, OnlyNamedUp, engineVars, Exists

\* Every step of a command.
LEMMA StepKeepsSingle ==
  ASSUME TypeOK, SingleInv, Step
  PROVE  SingleInv'
<1> USE DEF Replacing, Trying, Cleanup, Reverting
<1>1. pc # "idle" /\ prev \in Container /\ Exists(prev) /\ prev # None
  BY CloneAssumption DEF Step, TypeOK, OrNone, SingleInv, NamesApart
<1>2. /\ pc \in Trying \cup Cleanup \cup Reverting => next \in Container /\ next # prev
      /\ pc \notin Trying \cup Cleanup \cup Reverting => next = None
  BY DEF TypeOK, OrNone, SingleInv, NamesApart
<1>3. name \in [Container -> OrNone(Name)]
      /\ state \in [Container -> {"created", "running", "exited", "stopped"}]
  BY DEF TypeOK
<1>4. runs # None /\ base # None /\ base \in Name
  BY <1>1, CloneAssumption DEF TypeOK, OrNone
<1>5. UNCHANGED reboots
  BY DEF Step
<1>6. ASSUME UNCHANGED engineVars, NEW step, Goto(step),
             step \notin {"wait", "start", "start-previous"},
             step \in {"disable", "stop"} \/ (reboots = 0 => ~Up(prev))
      PROVE  SingleInv'
  BY <1>1, <1>5, <1>6, UpKept DEF Goto, SingleInv, NamesApart, OnlyNamedUp
<1>7. ASSUME NEW c \in Container, state' = [state EXCEPT ![c] = "stopped"],
             UNCHANGED <<name, always, works>>
      PROVE  /\ \A d \in Container : Exists(d)' = Exists(d) /\ name'[d] = name[d]
             /\ \A d \in Container : Up(d)' => d # c /\ Up(d)
             /\ ~Up(c)'
  BY <1>3, <1>7 DEF Up, Running, Exists
<1>8. CASE pc = "disable" /\ DisablePolicy
  <2>1. CASE OrReturn("update")
    BY <1>5, <2>1, OrReturnKeepsSingle
  <2>2. CASE always' = always \ {prev} /\ Goto("wait") /\ UNCHANGED <<name, state, works>>
    <3>1. \A c \in Container : (Up(c)' => Up(c)) /\ Exists(c)' = Exists(c)
      BY <2>2 DEF Up, Running, Exists
    <3> QED
      BY <1>1, <1>5, <1>8, <2>2, <3>1 DEF Goto, SingleInv, NamesApart, OnlyNamedUp
  <2> QED
    BY <1>8, <2>1, <2>2 DEF DisablePolicy
<1>9. CASE pc = "wait" /\ SeeStopped /\ UNCHANGED <<engineVars, faults>>
  <2>1. CASE Return("error")
    BY <1>5, <1>9, <2>1, ReturnKeepsSingle, UpKept
       DEF SingleInv, NamesApart, OnlyNamedUp, engineVars, Exists
  <2>2. CASE ~Running(prev) /\ Goto("rename")
    <3>1. reboots = 0 => ~Up(prev)
      BY <1>9, <2>2 DEF SingleInv, OnlyNamedUp, Up
    <3> QED
      BY <1>6, <1>9, <2>2, <3>1
  <2> QED
    BY <1>9, <2>1, <2>2 DEF SeeStopped
<1>10. CASE pc = "stop" /\ StopPrevious
  <2>1. CASE OrReturn("stop")
    BY <1>5, <2>1, OrReturnKeepsSingle
  <2>2. CASE state' = [state EXCEPT ![prev] = "stopped"] /\ Goto("rename")
             /\ UNCHANGED <<name, always, works>>
    BY <1>1, <1>5, <1>7, <1>10, <2>2 DEF Goto, SingleInv, NamesApart, OnlyNamedUp
  <2> QED
    BY <1>10, <2>1, <2>2 DEF StopPrevious
<1>11. CASE pc = "rename" /\ RenamePrevious
  <2>1. CASE OrReturn("rename")
    BY <1>5, <2>1, OrReturnKeepsSingle
  <2>2. CASE NameFree(runs) /\ name' = [name EXCEPT ![prev] = runs] /\ Goto("create")
             /\ UNCHANGED <<state, always, works>>
    <3>1. \A c \in Container : /\ Up(c)' = Up(c)
                               /\ Exists(c)' = Exists(c)
                               /\ c # prev => name'[c] = name[c] /\ name[c] # runs
      BY <1>1, <1>3, <1>4, <2>2 DEF Up, Running, Exists, NameFree
    <3>2. name'[prev] = runs /\ pc' = "create" /\ UNCHANGED <<prev, base, next>>
      BY <1>1, <1>3, <2>2 DEF Goto
    <3>3. NamesApart'
      BY <1>1, <3>1, <3>2 DEF SingleInv, NamesApart
    <3>4. reboots = 0 => OnlyNamedUp'
      BY <1>1, <1>11, <3>1, <3>2 DEF SingleInv, OnlyNamedUp
    <3> QED
      BY <1>5, <3>3, <3>4 DEF SingleInv
  <2> QED
    BY <1>11, <2>1, <2>2 DEF RenamePrevious
<1>12. CASE pc = "create" /\ CreateNext
  <2>1. CASE OrReturn("create")
    BY <1>5, <2>1, OrReturnKeepsSingle
  <2>2. CASE ~OrReturn("create")
    <3>1. PICK d \in Container :
            /\ ~Exists(d)
            /\ name' = [name EXCEPT ![d] = base]
            /\ state' = [state EXCEPT ![d] = "created"]
            /\ always' = RestartAlways(d)
            /\ next' = d
      BY <1>12, <2>2 DEF CreateNext
    <3>2. pc' = "start" /\ UNCHANGED <<prev, base>> /\ NameFree(base)
      BY <1>12, <2>2 DEF CreateNext
    <3>3. \A c \in Container : c # d => /\ Up(c)' = Up(c)
                                        /\ Exists(c)' = Exists(c)
                                        /\ name'[c] = name[c] /\ name[c] # base
      BY <1>3, <3>1, <3>2 DEF Up, Running, Exists, NameFree, RestartAlways
    <3>4. ~Up(d)' /\ name'[d] = base /\ d # prev
      BY <1>1, <1>3, <3>1 DEF Up, Running
    <3>5. NamesApart'
      BY <1>1, <3>1, <3>2, <3>3, <3>4 DEF SingleInv, NamesApart
    <3>6. reboots = 0 => OnlyNamedUp'
      BY <1>1, <1>12, <3>1, <3>2, <3>3, <3>4 DEF SingleInv, OnlyNamedUp
    <3> QED
      BY <1>5, <3>5, <3>6 DEF SingleInv
  <2> QED
    BY <2>1, <2>2
<1>13. CASE pc = "start" /\ StartNext
  <2>1. Goto("poll") /\ UNCHANGED <<name, always>> /\ next \in Container /\ next # prev
    BY <1>2, <1>13 DEF StartNext
  <2>2. \A c \in Container : c # next => Up(c)' = Up(c)
    BY <1>3, <1>13 DEF StartNext, Up, Running
  <2>3. reboots = 0 => name[next] = MainName /\ ~Up(prev)
    BY <1>13 DEF SingleInv, OnlyNamedUp
  <2>4. NamesApart'
    BY <1>1, <2>1 DEF SingleInv, NamesApart, Goto, Exists
  <2>5. reboots = 0 => OnlyNamedUp'
    BY <1>1, <1>13, <2>1, <2>2, <2>3 DEF SingleInv, OnlyNamedUp, Goto, Exists
  <2> QED
    BY <1>5, <2>4, <2>5 DEF SingleInv
<1>14. CASE pc = "poll" /\ Poll /\ UNCHANGED <<engineVars, faults>>
  <2>1. reboots = 0 => ~Up(prev)
    BY <1>14 DEF SingleInv, OnlyNamedUp
  <2>2. CASE UNCHANGED <<pc, prev, base, next>>
    BY <1>1, <1>5, <1>14, <2>2, UpKept DEF SingleInv, NamesApart, OnlyNamedUp
  <2>3. CASE Goto("stop-previous") \/ Goto("logs")
    BY <1>6, <1>14, <2>1, <2>3
  <2> QED
    BY <1>14, <2>2, <2>3 DEF Poll
<1>15. CASE pc = "stop-previous" /\ StopReplaced
  <2>1. CASE Return("ok") /\ UNCHANGED engineVars
    BY <1>5, <2>1, ReturnKeepsSingle, UpKept
       DEF SingleInv, NamesApart, OnlyNamedUp, engineVars, Exists
  <2>2. CASE state' = [state EXCEPT ![prev] = "stopped"] /\ Goto("remove-previous")
             /\ UNCHANGED <<name, always, works>>
    BY <1>1, <1>5, <1>7, <1>15, <2>2 DEF Goto, SingleInv, NamesApart, OnlyNamedUp
  <2> QED
    BY <1>15, <2>1, <2>2 DEF StopReplaced
<1>16. CASE pc = "remove-previous" /\ RemoveReplaced
  <2>1. \A c \in Container : /\ Up(c)' = Up(c)
                             /\ Exists(c)' => Exists(c) /\ name'[c] = name[c]
    BY <1>1, <1>3, <1>16 DEF RemoveReplaced, Up, Running, Exists
  <2>2. Return("ok")
    BY <1>16 DEF RemoveReplaced
  <2> QED
    BY <1>5, <2>1, <2>2, ReturnKeepsSingle DEF SingleInv, NamesApart, OnlyNamedUp, Exists
<1>17. CASE pc = "logs" /\ ShowLogs
  <2>1. CASE OrReturn("logs")
    BY <1>5, <2>1, OrReturnKeepsSingle
  <2>2. CASE Goto("stop-next") /\ UNCHANGED engineVars
    BY <1>6, <1>17, <2>2 DEF SingleInv, OnlyNamedUp
  <2> QED
    BY <1>17, <2>1, <2>2 DEF ShowLogs
<1>18. CASE pc = "stop-next" /\ StopNext
  <2>1. CASE Goto("rename-back") /\ UNCHANGED engineVars
    BY <1>6, <1>18, <2>1 DEF SingleInv, OnlyNamedUp
  <2>2. CASE state' = [state EXCEPT ![next] = "stopped"] /\ Goto("remove-next")
             /\ UNCHANGED <<name, always, works>>
    <3>1. next \in Container /\ prev # next
      BY <1>2, <1>18
    <3> QED
      BY <1>1, <1>5, <1>7, <1>18, <2>2, <3>1 DEF Goto, SingleInv, NamesApart, OnlyNamedUp
  <2> QED
    BY <1>18, <2>1, <2>2 DEF StopNext
<1>19. CASE pc = "remove-next" /\ RemoveNext
  <2>1. next \in Container /\ prev # next
    BY <1>2, <1>19
  <2>2. \A c \in Container : /\ Up(c)' = Up(c)
                             /\ Exists(c)' => Exists(c) /\ name'[c] = name[c]
                             /\ c # next => name'[c] = name[c]
    BY <1>3, <1>19, <2>1 DEF RemoveNext, Up, Running, Exists
  <2>3. Goto("rename-back")
    BY <1>19 DEF RemoveNext
  <2>4. NamesApart'
    BY <1>1, <2>1, <2>2, <2>3 DEF SingleInv, NamesApart, Goto, Exists
  <2>5. reboots = 0 => OnlyNamedUp'
    BY <1>1, <1>19, <2>2, <2>3 DEF SingleInv, OnlyNamedUp, Goto
  <2> QED
    BY <1>5, <2>4, <2>5 DEF SingleInv
<1>20. CASE pc = "rename-back" /\ RenameBack
  <2>1. CASE OrReturn("rename")
    BY <1>5, <2>1, OrReturnKeepsSingle
  <2>2. CASE Return("error") /\ UNCHANGED engineVars
    BY <1>5, <2>2, ReturnKeepsSingle, UpKept
       DEF SingleInv, NamesApart, OnlyNamedUp, engineVars, Exists
  <2>3. CASE NameFree(base) /\ name' = [name EXCEPT ![prev] = base] /\ Goto("start-previous")
             /\ UNCHANGED <<state, always, works>>
    <3>1. \A c \in Container : /\ Up(c)' = Up(c)
                               /\ Exists(c)' = Exists(c)
                               /\ c # prev => name'[c] = name[c] /\ name[c] # base
      BY <1>1, <1>3, <1>4, <2>3 DEF Up, Running, Exists, NameFree
    <3>2. name'[prev] = base /\ pc' = "start-previous" /\ UNCHANGED <<prev, base, next>>
      BY <1>1, <1>3, <2>3 DEF Goto
    <3>3. NamesApart'
      BY <1>1, <3>1, <3>2 DEF SingleInv, NamesApart
    <3>4. reboots = 0 => OnlyNamedUp'
      BY <1>1, <1>20, <3>1, <3>2 DEF SingleInv, OnlyNamedUp
    <3> QED
      BY <1>5, <3>3, <3>4 DEF SingleInv
  <2> QED
    BY <1>20, <2>1, <2>2, <2>3 DEF RenameBack
<1>21. CASE pc = "start-previous" /\ StartPrevious
  <2>1. CASE OrReturn("start")
    BY <1>5, <2>1, OrReturnKeepsSingle
  <2>2. CASE state' = [state EXCEPT ![prev] = "running"] /\ Return("ok")
             /\ UNCHANGED <<name, always, works>>
    <3>1. \A c \in Container : /\ Exists(c)' = Exists(c) /\ name'[c] = name[c]
                               /\ c # prev => Up(c)' = Up(c)
      BY <1>3, <2>2 DEF Up, Running, Exists
    <3>2. reboots = 0 => name[prev] = MainName
      BY <1>1, <1>21 DEF SingleInv, OnlyNamedUp
    <3> QED
      BY <1>5, <2>2, <3>1, <3>2, ReturnKeepsSingle DEF SingleInv, NamesApart, OnlyNamedUp
  <2> QED
    BY <1>21, <2>1, <2>2 DEF StartPrevious
<1> HIDE DEF Replacing, Trying, Cleanup, Reverting
<1> QED
  BY <1>8, <1>9, <1>10, <1>11, <1>12, <1>13, <1>14, <1>15, <1>16, <1>17, <1>18, <1>19,
     <1>20, <1>21 DEF Step

\* Every step of the specification.
LEMMA SingleStays ==
  ASSUME TypeOK, SingleInv, [Next]_vars
  PROVE  SingleInv'
<1>1. ASSUME Begin PROVE SingleInv'
  <2>1. PICK c \in Container : (name[c] = MainName \/ Up(c)) /\ BeginOn(c)
    BY <1>1 DEF Begin
  <2>2. /\ pc = "idle" /\ Exists(c) /\ prev' = c /\ base' = name[c] /\ pc' \in {"disable", "stop"}
        /\ UNCHANGED <<name, state, always, works, next, reboots>>
    BY <2>1 DEF BeginOn, engineVars
  <2>3. next = None
    BY <2>2 DEF TypeOK, Trying, Cleanup, Reverting
  <2>4. NamesApart'
    BY <2>2, <2>3 DEF SingleInv, NamesApart, Exists
  <2>5. reboots = 0 => OnlyNamedUp'
    BY <2>1, <2>2 DEF SingleInv, OnlyNamedUp, Up, Running, Exists
  <2> QED
    BY <2>2, <2>4, <2>5 DEF SingleInv
<1>2. ASSUME Step PROVE SingleInv'
  BY <1>2, StepKeepsSingle
<1>3. ASSUME NEW c \in Container, Exit(c) \/ EngineRestarts(c) PROVE SingleInv'
  <2>1. UNCHANGED <<name, always, pc, prev, base, next, reboots>>
    BY <1>3 DEF Exit, EngineRestarts, commandVars, counters
  <2>2. \A d \in Container : Up(d)' => Up(d)
    BY <1>3 DEF Exit, EngineRestarts, Up, Running, TypeOK
  <2>3. prev \in Container \/ pc = "idle"
    BY DEF TypeOK, OrNone
  <2> QED
    BY <2>1, <2>2, <2>3 DEF SingleInv, NamesApart, OnlyNamedUp, Exists
<1>4. ASSUME Reboot PROVE SingleInv'
  <2>1. reboots' # 0 /\ UNCHANGED name
    BY <1>4 DEF Reboot, TypeOK
  <2>2. CASE UNCHANGED commandVars
    BY <2>1, <2>2 DEF commandVars, SingleInv, NamesApart, Exists
  <2>3. CASE Return("killed")
    BY <2>1, <2>3 DEF Return, SingleInv, NamesApart, Exists
  <2> QED
    BY <1>4, <2>2, <2>3 DEF Reboot
<1>5. ASSUME Kill PROVE SingleInv'
  BY <1>5, ReturnKeepsSingle, UpKept
     DEF Kill, counters, SingleInv, NamesApart, OnlyNamedUp, engineVars, Exists
<1>6. CASE UNCHANGED vars
  BY <1>6, UpKept
     DEF vars, engineVars, commandVars, counters, SingleInv, NamesApart, OnlyNamedUp,
         Up, Running, Exists
<1> QED
  BY <1>1, <1>2, <1>3, <1>4, <1>5, <1>6 DEF Next

\* The invariant holds throughout.
LEMMA SingleHolds == Spec => []SingleInv
<1>1. Init => SingleInv
  BY CloneAssumption
     DEF Init, SingleInv, NamesApart, OnlyNamedUp, Exists, Up, Running, MainName
<1>2. TypeOK /\ SingleInv /\ [Next]_vars => SingleInv'
  BY SingleStays
<1> QED
  BY <1>1, <1>2, TypeCorrect, PTL DEF Spec

\* Two containers never run at the same time as long as the machine does not
\* restart: with or without a wait for the exit, whatever fails and wherever the
\* command is killed.
THEOREM OneRuns == Spec => []OneAtATime
<1>1. SingleInv => OneAtATime
  BY DEF SingleInv, NamesApart, OnlyNamedUp, OneAtATime, Up
<1> QED
  BY <1>1, SingleHolds, PTL

-----------------------------------------------------------------------------
(***************************************************************************)
(* How a run ends                                                          *)
(***************************************************************************)

\* Who has the name, unless a call failed: the next container from its creation
\* until it is removed, then nobody, then the previous one again.  The previous one
\* is only taken away when the next one has run.
PlaceInv ==
  faults = 0 =>
    /\ pc \in Trying \cup Cleanup \cup {"logs", "stop-next", "remove-next"} => name[next] = base
    /\ pc \in Cleanup => state[next] \in {"running", "exited"}
    /\ pc = "rename-back" => NameFree(base)
    /\ pc = "start-previous" => name[prev] = base

\* A run that ends in order.
Ordered ==
  pc' = "idle" /\ result' # "killed" /\ faults' = 0 =>
    (Reverted => Restored) /\ (result' = "ok" => Left)

\* Every step of a command keeps the name in its place, and the last one leaves a
\* container there.
LEMMA StepKeepsPlace ==
  ASSUME TypeOK, NamesApart, PlaceInv, Step
  PROVE  PlaceInv' /\ Ordered
<1> SUFFICES ASSUME faults' = 0
             PROVE  PlaceInv' /\ Ordered
  BY DEF PlaceInv, Ordered
<1> USE DEF Trying, Cleanup, Reverting
<1>1. /\ name \in [Container -> OrNone(Name)]
      /\ state \in [Container -> {"created", "running", "exited", "stopped"}]
      /\ faults \in Nat
  BY DEF TypeOK
<1>2. /\ faults = 0 /\ \A call : ~Fails(call)
      /\ \A call : ~OrReturn(call)
  BY <1>1 DEF Step, Works, Fails, OrReturn, DisablePolicy, StopPrevious, RenamePrevious,
              CreateNext, StartNext, StopReplaced, RemoveReplaced, ShowLogs, StopNext,
              RemoveNext, RenameBack, StartPrevious
<1>3. pc # "idle" /\ prev \in Container /\ base # None
  BY CloneAssumption DEF Step, TypeOK, OrNone
<1>4. pc \in Trying \cup Cleanup \cup {"logs", "stop-next", "remove-next"} =>
        next \in Container /\ next # prev /\ name[next] = base
  BY <1>2 DEF PlaceInv, NamesApart, TypeOK, OrNone
<1>5. CASE pc \in {"disable", "wait", "stop", "rename"}
  BY <1>2, <1>5
     DEF Step, DisablePolicy, SeeStopped, StopPrevious, RenamePrevious, Goto, Return, PlaceInv,
         Ordered, Reverted
<1>6. CASE pc = "create"
  BY <1>1, <1>2, <1>6 DEF Step, CreateNext, PlaceInv, Ordered
<1>7. CASE pc = "start"
  BY <1>2, <1>4, <1>7 DEF Step, StartNext, Goto, PlaceInv, Ordered
<1>8. CASE pc = "poll"
  BY <1>2, <1>4, <1>8 DEF Step, Poll, Healthy, Running, engineVars, Goto, PlaceInv, Ordered
<1>9. CASE pc = "stop-previous"
  <2>1. state' = [state EXCEPT ![prev] = "stopped"] /\ Goto("remove-previous") /\ UNCHANGED name
    BY <1>2, <1>9 DEF Step, StopReplaced
  <2>2. state'[next] = state[next] /\ state[next] \in {"running", "exited"}
    BY <1>1, <1>2, <1>4, <1>9, <2>1 DEF PlaceInv
  <2> QED
    BY <1>4, <1>9, <2>1, <2>2 DEF Goto, PlaceInv, Ordered
<1>10. CASE pc = "remove-previous"
  <2>1. name' = [name EXCEPT ![prev] = None] /\ Return("ok") /\ UNCHANGED state
    BY <1>2, <1>10 DEF Step, RemoveReplaced
  <2>2. name'[next] = base /\ state'[next] \in {"running", "exited"}
    BY <1>1, <1>2, <1>4, <1>10, <2>1 DEF PlaceInv
  <2> QED
    BY <1>4, <1>10, <2>1, <2>2 DEF Return, PlaceInv, Ordered, Reverted, Left
<1>11. CASE pc = "logs"
  BY <1>2, <1>4, <1>11 DEF Step, ShowLogs, Goto, engineVars, PlaceInv, Ordered
<1>12. CASE pc = "stop-next"
  BY <1>2, <1>4, <1>12 DEF Step, StopNext, Goto, PlaceInv, Ordered
<1>13. CASE pc = "remove-next"
  <2>1. name' = [name EXCEPT ![next] = None] /\ Goto("rename-back")
    BY <1>2, <1>13 DEF Step, RemoveNext
  <2>2. \A c \in Container : c # next => name[c] # base
    BY <1>3, <1>4, <1>13 DEF NamesApart, Exists
  <2>3. NameFree(base)'
    BY <1>1, <1>3, <1>4, <1>13, <2>1, <2>2 DEF NameFree, Goto
  <2> QED
    BY <2>1, <2>3 DEF Goto, PlaceInv, Ordered
<1>14. CASE pc = "rename-back"
  <2>1. NameFree(base)
    BY <1>2, <1>14 DEF PlaceInv
  <2>2. Goto("start-previous") /\ name' = [name EXCEPT ![prev] = base]
    BY <1>2, <1>14, <2>1 DEF Step, RenameBack
  <2> QED
    BY <1>1, <1>3, <2>2 DEF Goto, PlaceInv, Ordered
<1>15. CASE pc = "start-previous"
  <2>1. state' = [state EXCEPT ![prev] = "running"] /\ Return("ok") /\ UNCHANGED name
    BY <1>2, <1>15 DEF Step, StartPrevious
  <2>2. name'[prev] = base /\ state'[prev] = "running"
    BY <1>1, <1>2, <1>3, <1>15, <2>1 DEF PlaceInv
  <2> QED
    BY <1>3, <2>1, <2>2 DEF Return, PlaceInv, Ordered, Restored, Left
<1> HIDE DEF Trying, Cleanup, Reverting
<1> QED
  BY <1>3, <1>5, <1>6, <1>7, <1>8, <1>9, <1>10, <1>11, <1>12, <1>13, <1>14, <1>15 DEF Step

\* Unless a call fails, a replacement that is not healthy is taken back, and
\* success means that a container is left under the name that was started and not
\* stopped, also when containers exit and the machine restarts meanwhile.
THEOREM RunsEndInOrder == Spec => EndsInOrder
<1>1. Init => PlaceInv
  BY DEF Init, PlaceInv, Trying, Cleanup
<1>2. TypeOK /\ SingleInv /\ PlaceInv /\ [Next]_vars => PlaceInv'
  <2> SUFFICES ASSUME TypeOK, SingleInv, PlaceInv, [Next]_vars PROVE PlaceInv'
    OBVIOUS
  <2>1. ASSUME Begin PROVE PlaceInv'
    <3>1. pc' \in {"disable", "stop"}
      BY <2>1 DEF Begin, BeginOn
    <3> QED
      BY <3>1 DEF PlaceInv, Trying, Cleanup
  <2>2. ASSUME Step PROVE PlaceInv'
    BY <2>2, StepKeepsPlace DEF SingleInv
  <2>3. ASSUME NEW c \in Container, Exit(c) \/ EngineRestarts(c) PROVE PlaceInv'
    <3>1. UNCHANGED <<name, pc, prev, base, next, faults>>
      BY <2>3 DEF Exit, EngineRestarts, commandVars, counters
    <3>2. \A d \in Container :
            state[d] \in {"running", "exited"} => state'[d] \in {"running", "exited"}
      BY <2>3 DEF Exit, EngineRestarts, TypeOK
    <3>3. pc \in Cleanup => next \in Container
      BY DEF TypeOK, OrNone, Cleanup
    <3> QED
      BY <3>1, <3>2, <3>3 DEF PlaceInv, NameFree
  <2>4. ASSUME Reboot \/ Kill PROVE PlaceInv'
    <3>1. CASE Return("killed")
      BY <3>1 DEF Return, PlaceInv, Trying, Cleanup
    <3>2. CASE pc = "idle" /\ UNCHANGED commandVars
      BY <3>2 DEF commandVars, PlaceInv, Trying, Cleanup
    <3> QED
      BY <2>4, <3>1, <3>2 DEF Reboot, Kill
  <2>5. CASE UNCHANGED vars
    BY <2>5 DEF vars, engineVars, commandVars, counters, PlaceInv, NameFree
  <2> QED
    BY <2>1, <2>2, <2>3, <2>4, <2>5 DEF Next
<1>3. TypeOK /\ SingleInv /\ PlaceInv /\ [Next]_vars =>
        [pc # "idle" /\ pc' = "idle" /\ result' # "killed" /\ faults' = 0 =>
           (Reverted => Restored) /\ (result' = "ok" => Left)]_vars
  <2> SUFFICES ASSUME TypeOK, SingleInv, PlaceInv, Next,
                      pc # "idle", pc' = "idle", result' # "killed", faults' = 0
               PROVE  (Reverted => Restored) /\ (result' = "ok" => Left)
    OBVIOUS
  <2>1. Step
    BY DEF Next, Begin, BeginOn, Exit, EngineRestarts, Reboot, Kill, Return, commandVars
  <2> QED
    BY <2>1, StepKeepsPlace DEF SingleInv, Ordered
<1> QED
  BY <1>1, <1>2, <1>3, SingleHolds, TypeCorrect, PTL DEF Spec, EndsInOrder

============================================================================
