-------------------------- MODULE CrashLoopProofs --------------------------
(***************************************************************************)
(* Theorems about crash loop detection, for any number of containers and   *)
(* publishers, any threshold and number of attempts, and any bounds.       *)
(***************************************************************************)
EXTENDS CrashLoop, TLAPS

-----------------------------------------------------------------------------
(***************************************************************************)
(* Types                                                                   *)
(***************************************************************************)

\* The engine's steps: those of one container and what they share.
LEMMA EmitsTyped ==
  ASSUME TypeOK, NEW c \in Container, NEW kind \in Kind, Emits(c, kind),
         engine' \in [Container -> Status],
         count' \in [Container -> Nat], sinceHealthy' \in [Container -> Nat]
  PROVE  TypeOK'
<1>1. [name |-> c, kind |-> kind] \in Event
  BY DEF Event
<1>2. evtCh' \in Seq(Event) /\ changes' \in Nat
  BY <1>1 DEF Emits, TypeOK
<1> QED
  BY <1>2 DEF Emits, TypeOK, monitorVars, thinEdgeVars

\* The steps of a publisher, and of Raise, keep the type of the publishers.
LEMMA PublisherTyped ==
  ASSUME TypeOK, NEW p \in Publisher, publisher[p] # None
  PROVE  /\ publisher[p] \in Publishing
         /\ \A next \in {"register", "down", "check", "send"} :
              Continue(p, next) => publisher' \in [Publisher -> Publishing \cup {None}]
         /\ Return(p) => publisher' \in [Publisher -> Publishing \cup {None}]
         /\ AttemptFailed(p) => publisher' \in [Publisher -> Publishing \cup {None}]
<1>1. publisher[p] \in Publishing
  BY DEF TypeOK
<1>2. ASSUME NEW next \in {"register", "down", "check", "send"}, Continue(p, next)
      PROVE  publisher' \in [Publisher -> Publishing \cup {None}]
  <2>1. [publisher[p] EXCEPT !.step = next] \in Publishing
    BY <1>1 DEF Publishing
  <2> QED
    BY <1>2, <2>1 DEF Continue, TypeOK
<1>3. ASSUME Return(p) PROVE publisher' \in [Publisher -> Publishing \cup {None}]
  BY <1>3 DEF Return, TypeOK
<1>4. ASSUME AttemptFailed(p) PROVE publisher' \in [Publisher -> Publishing \cup {None}]
  <2>1. CASE publisher[p].attempt < MaxAttempts
    <3>1. [publisher[p] EXCEPT !.step = "check", !.attempt = @ + 1] \in Publishing
      <4>1. publisher[p].attempt + 1 \in 1..MaxAttempts
        BY <1>1, <2>1, CrashLoopAssumption DEF Publishing
      <4> QED
        BY <1>1, <4>1 DEF Publishing
    <3> QED
      <4> DEFINE next == [publisher[p] EXCEPT !.step = "check",
                                              !.attempt = publisher[p].attempt + 1]
      <4>1. publisher' = [publisher EXCEPT ![p] = next]
        BY <1>4, <2>1 DEF AttemptFailed, TryAgain
      <4>2. next \in Publishing
        BY <3>1
      <4> HIDE DEF next
      <4> QED
        BY <4>1, <4>2 DEF TypeOK
  <2>2. CASE ~(publisher[p].attempt < MaxAttempts)
    BY <1>3, <1>4, <2>2 DEF AttemptFailed
  <2> QED
    BY <2>1, <2>2
<1> QED
  BY <1>1, <1>2, <1>3, <1>4

\* Raising an alarm keeps the types.
LEMMA RaiseTyped ==
  ASSUME TypeOK, NEW c \in Container, Raise(c)
  PROVE  marked' \subseteq Container /\ publisher' \in [Publisher -> Publishing \cup {None}]
<1>1. [name |-> c, step |-> "register", attempt |-> 1] \in Publishing
  BY CrashLoopAssumption DEF Publishing
<1> QED
  BY <1>1 DEF Raise, TypeOK

LEMMA NoWorkTyped == NoWork \in Work
BY DEF NoWork, Work, Status

\* The state of crash loop detection stays of its type; in particular the monitor
\* is idle exactly when it handles no event, and no alarm is tried more often
\* than the attempts allow.
THEOREM TypeCorrect == Spec => []TypeOK
<1>1. Init => TypeOK
  <2> SUFFICES ASSUME Init PROVE TypeOK
    OBVIOUS
  <2>1. /\ engine \in [Container -> Status] /\ health \in [Container -> Status]
        /\ count \in [Container -> Nat] /\ sinceHealthy \in [Container -> Nat]
        /\ baseline \in [Container -> Nat \cup {-1}]
        /\ publisher \in [Publisher -> Publishing \cup {None}]
    BY DEF Init, Status
  <2>2. work \in Work
    BY NoWorkTyped DEF Init
  <2>3. evtCh \in Seq(Event)
    BY DEF Init
  <2>4. asked \subseteq Scope
    BY DEF Init, Scope
  <2> QED
    BY <2>1, <2>2, <2>3, <2>4 DEF Init, TypeOK
<1>2. TypeOK /\ [Next]_vars => TypeOK'
  <2> SUFFICES ASSUME TypeOK, [Next]_vars PROVE TypeOK'
    OBVIOUS
  <2>1. ASSUME NEW c \in Container, Create(c) PROVE TypeOK'
    <3>1. /\ engine' \in [Container -> Status]
          /\ count' \in [Container -> Nat] /\ sinceHealthy' \in [Container -> Nat]
      BY <2>1 DEF Create, TypeOK, Status
    <3> QED
      BY <2>1, <3>1, EmitsTyped DEF Create, Kind
  <2>2. ASSUME NEW c \in Container, Die(c) PROVE TypeOK'
    <3>1. /\ engine' \in [Container -> Status]
          /\ count' \in [Container -> Nat] /\ sinceHealthy' \in [Container -> Nat]
      BY <2>2 DEF Die, TypeOK, Status
    <3> QED
      BY <2>2, <3>1, EmitsTyped DEF Die, Kind
  <2>3. ASSUME NEW c \in Container, DaemonRestart(c) PROVE TypeOK'
    <3>1. /\ engine' \in [Container -> Status]
          /\ count' \in [Container -> Nat] /\ sinceHealthy' \in [Container -> Nat]
      BY <2>3 DEF DaemonRestart, TypeOK, Status
    <3> QED
      BY <2>3, <3>1, EmitsTyped DEF DaemonRestart, Kind
  <2>4. ASSUME NEW c \in Container, BecomeHealthy(c) PROVE TypeOK'
    <3>1. /\ engine' \in [Container -> Status]
          /\ count' \in [Container -> Nat] /\ sinceHealthy' \in [Container -> Nat]
      BY <2>4 DEF BecomeHealthy, TypeOK, Status
    <3> QED
      BY <2>4, <3>1, EmitsTyped DEF BecomeHealthy, Kind
  <2>5. ASSUME NEW c \in Container, Destroy(c) PROVE TypeOK'
    <3>1. /\ engine' \in [Container -> Status]
          /\ count' \in [Container -> Nat] /\ sinceHealthy' \in [Container -> Nat]
      BY <2>5 DEF Destroy, TypeOK, Status
    <3> QED
      BY <2>5, <3>1, EmitsTyped DEF Destroy, Kind
  <2>6. ASSUME TakeEvent PROVE TypeOK'
    <3>1. Head(evtCh) \in Event /\ evtCh' \in Seq(Event) /\ handling' = Head(evtCh)
      BY <2>6 DEF TakeEvent, TypeOK
    <3>2. Head(evtCh) # None
      BY <3>1, NoneAssumption
    <3>3. /\ step' \in {"inspect", "clear", "report"}
          /\ asked' \subseteq Scope
          /\ baseline' \in [Container -> Nat \cup {-1}]
          /\ marked' \subseteq Container
          /\ recent' \subseteq Key
      BY <2>6, <3>1 DEF TakeEvent, EnqueueAndReport, ScopeOf, Scope, Unmark, ForgetEvents, Remove,
                        Event, TypeOK
    <3> QED
      BY <2>6, <3>1, <3>2, <3>3 DEF TakeEvent, TypeOK, thinEdgeVars, counters
  <2>7. ASSUME Inspect PROVE TypeOK'
    <3>1. handling \in Event /\ handling.name \in Container /\ handling' = handling
      BY <2>7 DEF Inspect, TypeOK, Event
    <3>2. faults' \in Nat
      BY <2>7 DEF Inspect, Works, Fails, TypeOK
    <3>3. /\ step' \in {"clear", "report"}
          /\ asked' \subseteq Scope
          /\ recent' \subseteq Key
      BY <2>7, <3>1 DEF Inspect, Recover, EnqueueAndReport, ScopeOf, Scope, Unmark, ForgetEvents,
                        Remove, TypeOK
    <3>4. baseline' \in [Container -> Nat \cup {-1}]
      BY <2>7, <3>1 DEF Inspect, Recover, CheckRestarts, TypeOK
    <3>5. marked' \subseteq Container /\ publisher' \in [Publisher -> Publishing \cup {None}]
      <4>1. CASE Raise(handling.name)
        BY <3>1, <4>1, RaiseTyped
      <4>2. CASE ~Raise(handling.name)
        BY <2>7, <3>1, <4>2 DEF Inspect, Recover, Unmark, CheckRestarts, TypeOK
      <4> QED
        BY <4>1, <4>2
    <3>6. handling # None
      BY <3>1, NoneAssumption
    <3>7. missed' \subseteq Container
      BY <2>7, <3>1 DEF Inspect, Recover, TypeOK
    <3> QED
      BY <2>7, <3>1, <3>2, <3>3, <3>4, <3>5, <3>6, <3>7 DEF Inspect, TypeOK, engineVars,
         thinEdgeVars
  <2>8. ASSUME ClearAlarm PROVE TypeOK'
    <3>1. faults' \in Nat /\ alarm' \subseteq Container
      BY <2>8 DEF ClearAlarm, Works, Fails, TypeOK
    <3>2. step' = "report" /\ asked' \subseteq Scope /\ handling # None
      BY <2>8 DEF ClearAlarm, EnqueueAndReport, ScopeOf, Scope, Event, TypeOK
    <3> QED
      BY <2>8, <3>1, <3>2 DEF ClearAlarm, TypeOK, engineVars
  <2>9. ASSUME Report PROVE TypeOK'
    <3>1. <<handling.name, handling.kind>> \in Key
      BY <2>9 DEF Report, TypeOK, Event, Key
    <3>2. recent' \subseteq Key
      <4>1. CASE recent' = recent
        BY <4>1 DEF TypeOK
      <4>2. CASE recent' = recent \cup {<<handling.name, handling.kind>>}
        BY <3>1, <4>2 DEF TypeOK
      <4> QED
        BY <2>9, <4>1, <4>2 DEF Report
    <3> QED
      BY <2>9, <3>2 DEF Report, TypeOK, engineVars, thinEdgeVars, counters
  <2>10. ASSUME NEW key \in recent, WindowOver(key) PROVE TypeOK'
    BY <2>10 DEF WindowOver, TypeOK, engineVars, thinEdgeVars, counters
  <2>11. ASSUME NEW p \in Publisher, PreRegister(p) PROVE TypeOK'
    <3>1. publisher' \in [Publisher -> Publishing \cup {None}] /\ publisher[p].name \in Container
      BY <2>11, PublisherTyped DEF PreRegister, At, Publishing
    <3> QED
      BY <2>11, <3>1 DEF PreRegister, Works, Fails, TypeOK, engineVars, monitorVars
  <2>12. ASSUME NEW p \in Publisher, ShowDown(p) PROVE TypeOK'
    <3>1. publisher' \in [Publisher -> Publishing \cup {None}] /\ publisher[p].name \in Container
      BY <2>12, PublisherTyped DEF ShowDown, At, Publishing
    <3>2. health' \in [Container -> Status]
      BY <2>12, <3>1 DEF ShowDown, Status, TypeOK
    <3>3. faults' \in Nat
      BY <2>12 DEF ShowDown, Works, Fails, TypeOK
    <3> QED
      BY <2>12, <3>1, <3>2, <3>3 DEF ShowDown, TypeOK, engineVars, monitorVars
  <2>13. ASSUME NEW p \in Publisher, CheckMark(p) PROVE TypeOK'
    <3>1. publisher' \in [Publisher -> Publishing \cup {None}]
      BY <2>13, PublisherTyped DEF CheckMark, At
    <3> QED
      BY <2>13, <3>1 DEF CheckMark, TypeOK, engineVars, monitorVars, thinEdgeVars, counters
  <2>14. ASSUME NEW p \in Publisher, SendAlarm(p) PROVE TypeOK'
    <3>1. publisher' \in [Publisher -> Publishing \cup {None}] /\ publisher[p].name \in Container
      BY <2>14, PublisherTyped DEF SendAlarm, At, Publishing
    <3>2. alarm' \subseteq Container /\ marked' \subseteq Container /\ faults' \in Nat
      BY <2>14, <3>1 DEF SendAlarm, AttemptFailed, Works, Fails, TypeOK
    <3> QED
      BY <2>14, <3>1, <3>2 DEF SendAlarm, TypeOK, engineVars, monitorVars
  <2>15. ASSUME NEW scope \in SUBSET asked, BeginUpdate(scope) PROVE TypeOK'
    <3>1. work' \in Work
      <4>1. CASE work' = NoWork
        BY <4>1, NoWorkTyped
      <4>2. ASSUME NEW known \in SUBSET entities,
                   work' = [NoWork EXCEPT !.step = "list", !.scope = scope, !.existing = known]
            PROVE  work' \in Work
        BY <4>2, NoWorkTyped DEF Work, TypeOK
      <4> QED
        BY <2>15, <4>1, <4>2 DEF BeginUpdate
    <3>2. faults' \in Nat /\ asked' \subseteq Scope
      <4>1. faults' = faults \/ faults' = faults + 1
        BY <2>15, Zenon DEF BeginUpdate, Works, Fails
      <4>2. asked' = asked \ scope
        BY <2>15 DEF BeginUpdate
      <4> QED
        BY <4>1, <4>2 DEF TypeOK
    <3>3. UNCHANGED <<engineVars, monitorVars, marked, publisher, thinEdgeVars, missed, changes>>
      BY <2>15 DEF BeginUpdate
    <3> QED
      BY <3>1, <3>2, <3>3 DEF TypeOK, engineVars, monitorVars, thinEdgeVars
  <2>16. ASSUME ListContainers PROVE TypeOK'
    <3>1. work' \in Work
      <4>1. CASE work' = NoWork
        BY <4>1, NoWorkTyped
      <4>2. CASE work' # NoWork
        <5> DEFINE Seen(c) == engine[c] # "absent" /\ work.scope \cap {All, c} # {}
                   listed == {c \in Container : Seen(c)}
                   items == [c \in Container |-> IF Seen(c) THEN engine[c] ELSE "absent"]
                   existing == Stale(listed)
        <5>1. work' = [work EXCEPT !.step = "loop", !.scope = {}, !.existing = existing,
                                   !.register = listed, !.items = items]
          BY <2>16, <4>2 DEF ListContainers
        <5>2. existing \subseteq Container /\ listed \subseteq Container
          BY DEF Stale, TypeOK, Work
        <5>3. items \in [Container -> Status]
          BY DEF Status, TypeOK
        <5> HIDE DEF items, listed, existing
        <5> QED
          BY <5>1, <5>2, <5>3 DEF Work, TypeOK
      <4> QED
        BY <4>1, <4>2
    <3>2. faults' \in Nat
      BY <2>16 DEF ListContainers, Works, Fails, TypeOK
    <3> QED
      BY <2>16, <3>1, <3>2 DEF ListContainers, TypeOK, engineVars, monitorVars, thinEdgeVars
  <2>17. ASSUME NEW c \in Container, Register(c) \/ ReadMark(c) \/ RemoveStale(c) PROVE TypeOK'
    <3>1. work' \in Work
      <4>1. CASE Register(c)
        BY <4>1 DEF Register, Work, TypeOK
      <4>2. CASE ReadMark(c)
        <5>1. StatusToShow(c) \in Status
          BY DEF StatusToShow, Work, Status, TypeOK
        <5>2. [work.items EXCEPT ![c] = "absent"] \in [Container -> Status]
          BY DEF Work, Status, TypeOK
        <5> QED
          BY <4>2, <5>1, <5>2 DEF ReadMark, Work, TypeOK
      <4>3. CASE RemoveStale(c)
        <5>1. work.existing \ {c} \in SUBSET Container
          BY DEF Work, TypeOK
        <5>2. work' \in {[work EXCEPT !.step = "clear", !.target = c, !.existing = @ \ {c}],
                        [work EXCEPT !.existing = @ \ {c}, !.failed = TRUE]}
          BY <4>3 DEF RemoveStale
        <5>3. [work EXCEPT !.step = "clear", !.target = c, !.existing = @ \ {c}] \in Work
          BY <5>1 DEF Work, TypeOK
        <5>4. [work EXCEPT !.existing = @ \ {c}, !.failed = TRUE] \in Work
          BY <5>1 DEF Work, TypeOK
        <5> QED
          BY <5>2, <5>3, <5>4
      <4> QED
        BY <2>17, <4>1, <4>2, <4>3
    <3>2. faults' \in Nat /\ entities' \subseteq Container
      BY <2>17 DEF Register, ReadMark, RemoveStale, Works, Fails, TypeOK, counters, thinEdgeVars
    <3> QED
      BY <2>17, <3>1, <3>2 DEF Register, ReadMark, RemoveStale, TypeOK, engineVars, monitorVars,
                               thinEdgeVars, counters
  <2>18. ASSUME PublishHealth \/ ClearHealth PROVE TypeOK'
    <3>1. work' \in Work
      <4>1. CASE PublishHealth
        BY <4>1 DEF PublishHealth, Work, Status, TypeOK
      <4>2. CASE ClearHealth
        BY <4>2 DEF ClearHealth, Work, TypeOK
      <4> QED
        BY <2>18, <4>1, <4>2
    <3>2. health' \in [Container -> Status]
      BY <2>18 DEF PublishHealth, ClearHealth, Work, Status, TypeOK
    <3>3. faults' \in Nat
      BY <2>18 DEF PublishHealth, ClearHealth, Works, Fails, TypeOK
    <3> QED
      BY <2>18, <3>1, <3>2, <3>3 DEF PublishHealth, ClearHealth, TypeOK, engineVars, monitorVars
  <2>19. ASSUME Deregister \/ EndUpdate PROVE TypeOK'
    <3>1. work' \in Work
      BY <2>19, NoWorkTyped DEF Deregister, EndUpdate, Work, TypeOK
    <3>2. faults' \in Nat /\ entities' \subseteq Container /\ asked' \subseteq Scope
      BY <2>19 DEF Deregister, EndUpdate, Works, Fails, Scope, TypeOK, counters, thinEdgeVars
    <3> QED
      BY <2>19, <3>1, <3>2 DEF Deregister, EndUpdate, TypeOK, engineVars, monitorVars, thinEdgeVars,
                               counters
  <2>20. ASSUME Reconcile \/ (\E scope \in SUBSET asked : Drop(scope)) PROVE TypeOK'
    BY <2>20 DEF Reconcile, Drop, Fails, Scope, TypeOK, engineVars, monitorVars, thinEdgeVars,
       counters
  <2>21. ASSUME Restart PROVE TypeOK'
    BY <2>21, NoWorkTyped DEF Restart, Scope, TypeOK, thinEdgeVars
  <2>22. ASSUME UNCHANGED vars PROVE TypeOK'
    BY <2>22 DEF vars, TypeOK, engineVars, monitorVars, thinEdgeVars, counters
  <2> QED
    BY <2>1, <2>2, <2>3, <2>4, <2>5, <2>6, <2>7, <2>8, <2>9, <2>10, <2>11, <2>12, <2>13, <2>14,
       <2>15, <2>16, <2>17, <2>18, <2>19, <2>20, <2>21, <2>22
       DEF Next, EngineStep, Monitor, Publish, Worker
<1> QED
  BY <1>1, <1>2, PTL DEF Spec

-----------------------------------------------------------------------------
(***************************************************************************)
(* Marks and alarms                                                        *)
(***************************************************************************)

\* What makes MarkHasAlarm inductive: when the monitor is about to take an alarm
\* away, the mark is gone already, and nobody else sets one.
MarkInv ==
  /\ MarkHasAlarm
  /\ step = "clear" => handling.name \notin marked

\* Steps that at most take marks away.
LEMMA MarksOnlyFall ==
  ASSUME MarkInv, marked' \subseteq marked, alarm' = alarm, publisher' = publisher,
         \/ step' # "clear"
         \/ step' = step /\ handling' = handling
         \/ handling'.name \notin marked'
  PROVE  MarkInv'
BY DEF MarkInv, MarkHasAlarm, Raising

\* Steps that move the publisher p but go on with its alarm.
LEMMA PublisherGoesOn ==
  ASSUME TypeOK, MarkInv, NEW p \in Publisher, publisher[p] # None,
         NEW next \in Publishing, next.name = publisher[p].name,
         publisher' = [publisher EXCEPT ![p] = next],
         UNCHANGED <<marked, alarm, step, handling>>
  PROVE  MarkInv'
<1>1. ASSUME NEW c, Raising(c) PROVE Raising(c)'
  <2>1. PICK q \in Publisher : publisher[q] # None /\ publisher[q].name = c
    BY <1>1 DEF Raising
  <2>2. publisher'[q] # None /\ publisher'[q].name = c
    <3>1. CASE q = p
      BY <2>1, <3>1, NoneAssumption DEF TypeOK
    <3>2. CASE q # p
      BY <2>1, <3>2 DEF TypeOK
    <3> QED
      BY <3>1, <3>2
  <2> QED
    BY <2>2 DEF Raising
<1> QED
  BY <1>1 DEF MarkInv, MarkHasAlarm

\* A publisher at work goes on or has published.
LEMMA PublisherContinues ==
  ASSUME TypeOK, MarkInv, NEW p \in Publisher, publisher[p] # None,
         NEW next \in {"register", "down", "check", "send"}, Continue(p, next),
         UNCHANGED <<marked, alarm, step, handling>>
  PROVE  MarkInv'
<1> DEFINE r == [publisher[p] EXCEPT !.step = next]
<1>1. publisher[p] \in Publishing
  BY DEF TypeOK
<1>2. r \in Publishing /\ r.name = publisher[p].name
  BY <1>1 DEF Publishing
<1>3. publisher' = [publisher EXCEPT ![p] = r]
  BY DEF Continue
<1> HIDE DEF r
<1> QED
  BY <1>2, <1>3, PublisherGoesOn

\* Steps in which the publisher p is done, for its alarm is retained or its
\* container is not marked.
LEMMA PublisherDone ==
  ASSUME TypeOK, MarkInv, NEW p \in Publisher, publisher[p] # None, Return(p),
         marked' \subseteq marked, alarm \subseteq alarm',
         publisher[p].name \in alarm' \/ publisher[p].name \notin marked',
         UNCHANGED <<step, handling>>
  PROVE  MarkInv'
<1>1. ASSUME NEW c, Raising(c), c # publisher[p].name PROVE Raising(c)'
  <2>1. PICK q \in Publisher : publisher[q] # None /\ publisher[q].name = c
    BY <1>1 DEF Raising
  <2>2. publisher'[q] = publisher[q]
    BY <1>1, <2>1 DEF Return, TypeOK
  <2> QED
    BY <2>1, <2>2 DEF Raising
<1> QED
  BY <1>1 DEF MarkInv, MarkHasAlarm

\* A new publisher for what Raise marks.
LEMMA RaiseHasPublisher ==
  ASSUME TypeOK, MarkInv, NEW c \in Container, Raise(c), alarm' = alarm, step' = "report"
  PROVE  MarkInv'
<1>1. CASE c \in marked
  BY <1>1 DEF Raise, MarkInv, MarkHasAlarm, Raising
<1>2. CASE c \notin marked
  <2> DEFINE new == [name |-> c, step |-> "register", attempt |-> 1]
  <2>1. new \in Publishing /\ new.name = c
    BY CrashLoopAssumption DEF Publishing
  <2>2. PICK p \in Publisher : publisher[p] = None /\ publisher' = [publisher EXCEPT ![p] = new]
    BY <1>2 DEF Raise
  <2>3. marked' = marked \cup {c}
    BY <1>2 DEF Raise
  <2> HIDE DEF new
  <2>4. publisher'[p] = new /\ new # None
    BY <2>1, <2>2, NoneAssumption DEF TypeOK
  <2>5. Raising(c)'
    BY <2>1, <2>4 DEF Raising
  <2>6. ASSUME NEW d, Raising(d) PROVE Raising(d)'
    <3>1. PICK q \in Publisher : publisher[q] # None /\ publisher[q].name = d
      BY <2>6 DEF Raising
    <3>2. publisher'[q] = publisher[q]
      BY <2>2, <3>1 DEF TypeOK
    <3> QED
      BY <3>1, <3>2 DEF Raising
  <2> QED
    BY <2>3, <2>5, <2>6 DEF MarkInv, MarkHasAlarm
<1> QED
  BY <1>1, <1>2

\* Attempts that fail, alarms cleared while they are raised and processes started
\* again never leave a mark on its own: the marked containers, whose events are
\* held back and that are shown as down, have an alarm retained or a publisher
\* that still raises it.
THEOREM MarksHaveAlarms == Spec => []MarkHasAlarm
<1>1. Init => MarkInv
  BY DEF Init, MarkInv, MarkHasAlarm
<1>2. TypeOK /\ MarkInv /\ [Next]_vars => MarkInv'
  <2> SUFFICES ASSUME TypeOK, MarkInv, [Next]_vars PROVE MarkInv'
    OBVIOUS
  <2>1. ASSUME EngineStep PROVE MarkInv'
    BY <2>1, MarksOnlyFall
       DEF EngineStep, Create, Die, DaemonRestart, BecomeHealthy, Destroy, Emits, monitorVars,
           thinEdgeVars
  <2>2. ASSUME TakeEvent PROVE MarkInv'
    <3>1. /\ marked' \subseteq marked
          /\ step' = "clear" => handling'.name \notin marked'
      BY <2>2 DEF TakeEvent, Unmark, EnqueueAndReport
    <3> QED
      BY <2>2, <3>1, MarksOnlyFall DEF TakeEvent, thinEdgeVars
  <2>3. ASSUME Inspect PROVE MarkInv'
    <3>1. handling.name \in Container /\ alarm' = alarm /\ handling' = handling
      BY <2>3, NoneAssumption DEF Inspect, TypeOK, Event, thinEdgeVars
    <3>2. CASE Recover(handling.name)
      <4>1. marked' \subseteq marked /\ publisher' = publisher
        BY <3>2 DEF Recover, Unmark
      <4>2. handling'.name \notin marked'
        BY <3>1, <3>2 DEF Recover, Unmark
      <4> QED
        BY <3>1, <4>1, <4>2, MarksOnlyFall
    <3>3. CASE Raise(handling.name) /\ step' = "report"
      BY <3>1, <3>3, RaiseHasPublisher
    <3>4. CASE UNCHANGED <<marked, publisher>> /\ step' = "report"
      BY <3>1, <3>4, MarksOnlyFall
    <3> QED
      BY <2>3, <3>2, <3>3, <3>4 DEF Inspect, CheckRestarts, EnqueueAndReport
  <2>4. ASSUME ClearAlarm PROVE MarkInv'
    <3>1. /\ step = "clear" /\ step' = "report"
          /\ marked' = marked /\ publisher' = publisher
          /\ alarm \ {handling.name} \subseteq alarm'
      BY <2>4 DEF ClearAlarm, EnqueueAndReport
    <3> QED
      BY <3>1 DEF MarkInv, MarkHasAlarm, Raising
  <2>5. ASSUME Report PROVE MarkInv'
    BY <2>5, MarksOnlyFall DEF Report, thinEdgeVars
  <2>6. ASSUME NEW key \in recent, WindowOver(key) PROVE MarkInv'
    BY <2>6, MarksOnlyFall DEF WindowOver, thinEdgeVars
  <2>7. ASSUME NEW p \in Publisher, PreRegister(p) PROVE MarkInv'
    BY <2>7, PublisherContinues DEF PreRegister, At, monitorVars
  <2>8. ASSUME NEW p \in Publisher, ShowDown(p) PROVE MarkInv'
    BY <2>8, PublisherContinues DEF ShowDown, At, monitorVars
  <2>9. ASSUME NEW p \in Publisher, CheckMark(p) PROVE MarkInv'
    <3>1. CASE publisher[p].name \in marked
      BY <2>9, <3>1, PublisherContinues DEF CheckMark, At, monitorVars, thinEdgeVars
    <3>2. CASE publisher[p].name \notin marked
      BY <2>9, <3>2, PublisherDone DEF CheckMark, At, monitorVars, thinEdgeVars
    <3> QED
      BY <3>1, <3>2
  <2>10. ASSUME NEW p \in Publisher, SendAlarm(p) PROVE MarkInv'
    <3>1. publisher[p] # None /\ UNCHANGED <<step, handling>> /\ publisher[p] \in Publishing
      BY <2>10 DEF SendAlarm, At, monitorVars, TypeOK
    <3>2. CASE Return(p) /\ alarm' = alarm \cup {publisher[p].name} /\ marked' = marked
      BY <3>1, <3>2, PublisherDone
    <3>3. CASE TryAgain(p) /\ UNCHANGED <<marked, alarm>> /\ publisher[p].attempt < MaxAttempts
      <4> DEFINE next == [publisher[p] EXCEPT !.step = "check",
                                              !.attempt = publisher[p].attempt + 1]
      <4>1. publisher' = [publisher EXCEPT ![p] = next]
        BY <3>3 DEF TryAgain
      <4>2. publisher[p].attempt + 1 \in 1..MaxAttempts
        BY <3>1, <3>3, CrashLoopAssumption DEF Publishing
      <4>3. next \in Publishing /\ next.name = publisher[p].name
        BY <3>1, <4>2 DEF Publishing
      <4> HIDE DEF next
      <4> QED
        BY <3>1, <3>3, <4>1, <4>3, PublisherGoesOn
    <3>4. CASE Return(p) /\ marked' = marked \ {publisher[p].name} /\ alarm' = alarm
      BY <3>1, <3>4, PublisherDone
    <3> QED
      BY <2>10, <3>2, <3>3, <3>4 DEF SendAlarm, AttemptFailed
  <2>11. ASSUME Worker PROVE MarkInv'
    BY <2>11, MarksOnlyFall
       DEF Worker, BeginUpdate, ListContainers, Register, ReadMark, RemoveStale, PublishHealth,
           ClearHealth, Deregister, EndUpdate, monitorVars, thinEdgeVars
  <2>12. ASSUME Reconcile \/ (\E scope \in SUBSET asked : Drop(scope)) PROVE MarkInv'
    BY <2>12, MarksOnlyFall DEF Reconcile, Drop, monitorVars, thinEdgeVars
  <2>13. ASSUME Restart PROVE MarkInv'
    BY <2>13 DEF Restart, MarkInv, MarkHasAlarm
  <2>14. ASSUME UNCHANGED vars PROVE MarkInv'
    BY <2>14, MarksOnlyFall DEF vars, monitorVars, thinEdgeVars
  <2> QED
    BY <2>1, <2>2, <2>3, <2>4, <2>5, <2>6, <2>7, <2>8, <2>9, <2>10, <2>11, <2>12, <2>13, <2>14
       DEF Next, Monitor, Publish
<1>3. MarkInv => MarkHasAlarm
  BY DEF MarkInv
<1> QED
  BY <1>1, <1>2, <1>3, TypeCorrect, PTL DEF Spec

-----------------------------------------------------------------------------
(***************************************************************************)
(* Counts                                                                  *)
(***************************************************************************)

\* The monitor still has to hear that c became healthy or went.
Pending(c) ==
  \/ \E i \in 1..Len(evtCh) : evtCh[i].name = c /\ evtCh[i].kind \in {"healthy", "destroy"}
  \/ step = "inspect" /\ handling.name = c /\ handling.kind = "healthy"

\* What makes NoFalseAlarm inductive: unless such an event is to come, or the count
\* was missed, the baseline leaves at most the restarts since then to be counted,
\* and a marked container is there and was restarted often enough.
Counted(c) ==
  c \notin missed /\ ~Pending(c) =>
    /\ baseline[c] # -1 => count[c] - baseline[c] <= sinceHealthy[c]
    /\ c \in marked => engine[c] # "absent" /\ sinceHealthy[c] >= Threshold

CountInv == \A c \in Container : Counted(c)

\* An event that is sent waits behind those that do already.
LEMMA EmittedIsPending ==
  ASSUME TypeOK, NEW c \in Container, NEW kind \in Kind, Emits(c, kind)
  PROVE  /\ \A d : Pending(d) => Pending(d)'
         /\ kind \in {"healthy", "destroy"} => Pending(c)'
<1> DEFINE e == [name |-> c, kind |-> kind]
<1>1. evtCh \in Seq(Event) /\ evtCh' = Append(evtCh, e) /\ UNCHANGED <<step, handling>>
  BY DEF Emits, TypeOK, monitorVars
<1>2. e.name = c /\ e.kind = kind
  OBVIOUS
<1> HIDE DEF e
<1>3. /\ Len(evtCh') = Len(evtCh) + 1 /\ Len(evtCh) \in Nat
      /\ evtCh'[Len(evtCh) + 1] = e
      /\ \A i \in 1..Len(evtCh) : evtCh'[i] = evtCh[i]
  BY <1>1
<1> QED
  BY <1>1, <1>2, <1>3 DEF Pending

\* A step of the engine, but for what it does to the counts of its container.
LEMMA EngineKeepsCounts ==
  ASSUME TypeOK, CountInv, NEW c \in Container, NEW kind \in Kind, Emits(c, kind),
         \A d \in Container \ {c} : /\ engine'[d] = engine[d] /\ count'[d] = count[d]
                                    /\ sinceHealthy'[d] = sinceHealthy[d],
         Counted(c)'
  PROVE  CountInv'
<1>1. ASSUME NEW d \in Container, d # c PROVE Counted(d)'
  BY <1>1, EmittedIsPending DEF CountInv, Counted, Emits, monitorVars
<1> QED
  BY <1>1 DEF CountInv

\* Steps that leave the engine, the events and the counts alone, and mark nothing.
LEMMA CountsStay ==
  ASSUME CountInv, UNCHANGED <<engineVars, handling, baseline, missed>>, marked' \subseteq marked,
         step' = step \/ step # "inspect"
  PROVE  CountInv'
BY DEF CountInv, Counted, Pending, engineVars

\* The steps of the engine.
LEMMA EngineCounts ==
  ASSUME TypeOK, CountInv, EngineStep
  PROVE  CountInv'
<1>1. ASSUME NEW c \in Container, Create(c) PROVE CountInv'
  <2>1. Emits(c, "start") /\ "start" \in Kind
    BY <1>1 DEF Create, Kind
  <2>2. Counted(c) /\ engine[c] = "absent" /\ (Pending(c) => Pending(c)')
    BY <1>1, <2>1, EmittedIsPending DEF Create, CountInv
  <2>3. count'[c] = 0 /\ sinceHealthy'[c] = 0 /\ baseline'[c] \in Nat \cup {-1}
        /\ UNCHANGED <<marked, missed>>
    BY <1>1, <2>1 DEF Create, Emits, TypeOK, monitorVars
  <2>4. Counted(c)'
    BY <2>2, <2>3 DEF Counted
  <2> QED
    BY <1>1, <2>1, <2>4, EngineKeepsCounts DEF Create, TypeOK
<1>2. ASSUME NEW c \in Container, Die(c) PROVE CountInv'
  <2>1. Emits(c, "die") /\ "die" \in Kind
    BY <1>2 DEF Die, Kind
  <2>2. Counted(c) /\ (Pending(c) => Pending(c)')
    BY <1>2, <2>1, EmittedIsPending DEF CountInv
  <2>3. UNCHANGED <<count, sinceHealthy, baseline, marked, missed>> /\ engine'[c] = "down"
    BY <1>2, <2>1 DEF Die, Emits, TypeOK, monitorVars
  <2>4. Counted(c)'
    BY <2>2, <2>3 DEF Counted
  <2> QED
    BY <1>2, <2>1, <2>3, <2>4, EngineKeepsCounts DEF Die, TypeOK
<1>3. ASSUME NEW c \in Container, DaemonRestart(c) PROVE CountInv'
  <2>1. Emits(c, "start") /\ "start" \in Kind
    BY <1>3 DEF DaemonRestart, Kind
  <2>2. Counted(c) /\ (Pending(c) => Pending(c)')
    BY <1>3, <2>1, EmittedIsPending DEF CountInv
  <2>3. /\ count'[c] = count[c] + 1 /\ sinceHealthy'[c] = sinceHealthy[c] + 1
        /\ engine'[c] = "up" /\ UNCHANGED <<baseline, marked, missed>>
        /\ {count[c], sinceHealthy[c]} \subseteq Nat /\ baseline[c] \in Nat \cup {-1}
    BY <1>3, <2>1 DEF DaemonRestart, Emits, TypeOK, monitorVars
  <2>4. Counted(c)'
    BY <2>2, <2>3, CrashLoopAssumption DEF Counted
  <2> QED
    BY <1>3, <2>1, <2>4, EngineKeepsCounts DEF DaemonRestart, TypeOK
<1>4. ASSUME NEW c \in Container, BecomeHealthy(c) \/ Destroy(c) PROVE CountInv'
  <2>1. PICK kind \in {"healthy", "destroy"} : Emits(c, kind)
    BY <1>4 DEF BecomeHealthy, Destroy
  <2>2. kind \in Kind
    BY DEF Kind
  <2>3. Counted(c)'
    BY <2>1, <2>2, EmittedIsPending DEF Counted
  <2> QED
    BY <1>4, <2>1, <2>2, <2>3, EngineKeepsCounts DEF BecomeHealthy, Destroy, TypeOK
<1> QED
  BY <1>1, <1>2, <1>3, <1>4 DEF EngineStep

\* An event that is taken is either handled or takes mark and baseline away.
LEMMA TakenIsCounted ==
  ASSUME TypeOK, CountInv, TakeEvent
  PROVE  CountInv'
<1> DEFINE e == Head(evtCh)
<1>1. /\ evtCh \in Seq(Event) /\ evtCh # <<>> /\ e \in Event
      /\ e = evtCh[1] /\ evtCh' = Tail(evtCh) /\ handling' = e /\ step = "idle"
      /\ UNCHANGED <<engine, count, sinceHealthy>>
  BY DEF TakeEvent, TypeOK
<1>2. \/ e.kind \in {"start", "healthy"} /\ step' = "inspect" /\ UNCHANGED <<baseline, marked, missed>>
      \/ e.kind = "die" /\ UNCHANGED <<baseline, marked, missed>>
      \/ /\ e.kind = "destroy"
         /\ baseline' = [baseline EXCEPT ![e.name] = -1]
         /\ missed' = missed \ {e.name} /\ marked' = marked \ {e.name}
  BY DEF TakeEvent, Unmark
<1> HIDE DEF e
<1>3. /\ Len(evtCh) \in Nat /\ Len(evtCh') = Len(evtCh) - 1
      /\ \A i \in 2..Len(evtCh) : evtCh'[i - 1] = evtCh[i] /\ i - 1 \in 1..Len(evtCh')
  BY <1>1
<1>4. ASSUME NEW c \in Container PROVE Counted(c)'
  <2>1. CASE e.kind = "destroy" /\ e.name = c
    BY <1>1, <1>2, <2>1 DEF Counted, TypeOK
  <2>2. CASE ~(e.kind = "destroy" /\ e.name = c)
    <3>1. ASSUME Pending(c) PROVE Pending(c)'
      <4>1. PICK i \in 1..Len(evtCh) :
               evtCh[i].name = c /\ evtCh[i].kind \in {"healthy", "destroy"}
        BY <1>1, <3>1 DEF Pending
      <4>2. CASE i = 1
        BY <1>1, <1>2, <2>2, <4>1, <4>2 DEF Pending
      <4>3. CASE i # 1
        <5>1. i \in 2..Len(evtCh)
          BY <1>3, <4>3
        <5> QED
          BY <1>3, <4>1, <5>1 DEF Pending
      <4> QED
        BY <4>2, <4>3
    <3>2. /\ baseline'[c] = baseline[c]
          /\ c \in missed' <=> c \in missed
          /\ c \in marked' => c \in marked
      BY <1>2, <2>2 DEF TypeOK
    <3> QED
      BY <1>1, <3>1, <3>2 DEF CountInv, Counted
  <2> QED
    BY <2>1, <2>2
<1> QED
  BY <1>4 DEF CountInv

\* The count of a container that started is compared with its baseline, and that of
\* one that became healthy is its baseline.
LEMMA InspectedIsCounted ==
  ASSUME TypeOK, CountInv, Inspect, Threshold > 0
  PROVE  CountInv'
<1>0. PICK c \in Container : c = handling.name
  BY DEF Inspect, TypeOK, Event
<1>1. /\ step = "inspect" /\ step' # "inspect"
      /\ UNCHANGED <<evtCh, engine, count, sinceHealthy, handling>>
      /\ count[c] \in Nat /\ sinceHealthy[c] \in Nat /\ baseline[c] \in Nat \cup {-1}
  BY DEF Inspect, Recover, Unmark, EnqueueAndReport, engineVars, TypeOK
<1>2. \A d \in Container \ {c} :
        /\ baseline'[d] = baseline[d]
        /\ d \in missed' <=> d \in missed
        /\ d \in marked' <=> d \in marked
  BY <1>0, <1>1 DEF Inspect, Recover, Unmark, CheckRestarts, Raise, TypeOK
<1>3. ASSUME NEW d \in Container, d # c PROVE Counted(d)'
  <2>1. Pending(d)' <=> Pending(d)
    BY <1>0, <1>1, <1>3 DEF Pending
  <2> QED
    BY <1>1, <1>2, <1>3, <2>1 DEF CountInv, Counted
<1>4. CASE handling.kind = "healthy"
  <2>1. c \notin marked' /\ (c \in missed' \/ baseline'[c] = count[c])
    BY <1>0, <1>1, <1>4 DEF Inspect, Recover, Unmark, TypeOK
  <2>2. Counted(c)'
    BY <1>1, <2>1 DEF Counted
  <2> QED
    BY <1>3, <2>2 DEF CountInv
<1>5. CASE handling.kind = "start"
  <2>1. missed' = missed /\ (Pending(c)' <=> Pending(c)) /\ Counted(c)
    BY <1>0, <1>1, <1>5 DEF Inspect, Pending, CountInv
  <2>2. \/ UNCHANGED <<baseline, marked>>
        \/ baseline'[c] = count[c] /\ marked' = marked
        \/ /\ UNCHANGED baseline /\ marked' \subseteq marked \cup {c}
           /\ engine[c] # "absent" /\ baseline[c] # -1 /\ count[c] - baseline[c] >= Threshold
    BY <1>0, <1>1, <1>5 DEF Inspect, CheckRestarts, Raise, TypeOK
  <2>3. Counted(c)'
    BY <1>1, <2>1, <2>2, CrashLoopAssumption DEF Counted
  <2> QED
    BY <1>3, <2>3 DEF CountInv
<1> QED
  BY <1>4, <1>5 DEF Inspect

\* However late the monitor reads a count after the event it reads it for, and in
\* whatever order containers restart, recover, go and come back, only one that was
\* restarted as often as required is marked once the events are handled.  (The code
\* does not keep to the default of a threshold of 0.)
THEOREM NoAlarmIsFalse ==
  ASSUME Threshold > 0
  PROVE  Spec => []NoFalseAlarm
<1>1. Init => CountInv
  BY DEF Init, CountInv, Counted
<1>2. TypeOK /\ CountInv /\ [Next]_vars => CountInv'
  <2> SUFFICES ASSUME TypeOK, CountInv, [Next]_vars PROVE CountInv'
    OBVIOUS
  <2>1. ASSUME ClearAlarm \/ Report PROVE CountInv'
    <3>1. step \in {"clear", "report"} /\ marked' = marked
      BY <2>1 DEF ClearAlarm, Report
    <3>2. \A c : Pending(c) => Pending(c)'
      BY <2>1, <3>1 DEF ClearAlarm, Report, Pending, engineVars
    <3> QED
      BY <2>1, <3>1, <3>2 DEF ClearAlarm, Report, engineVars, counters, CountInv, Counted
  <2>2. ASSUME NEW p \in Publisher, Publish(p) PROVE CountInv'
    <3>1. marked' \subseteq marked
      BY <2>2 DEF Publish, PreRegister, ShowDown, CheckMark, SendAlarm, AttemptFailed
    <3>2. UNCHANGED <<engineVars, monitorVars, missed>>
      BY <2>2 DEF Publish, PreRegister, ShowDown, CheckMark, SendAlarm, counters
    <3> QED
      BY <3>1, <3>2, CountsStay DEF monitorVars
  <2>3. ASSUME Worker \/ Reconcile \/ (\E scope \in SUBSET asked : Drop(scope)) \/ UNCHANGED vars
        PROVE  CountInv'
    <3>1. UNCHANGED <<engineVars, monitorVars, marked, missed>>
      BY <2>3 DEF Worker, BeginUpdate, ListContainers, Register, ReadMark, RemoveStale,
         PublishHealth,
                  ClearHealth, Deregister, EndUpdate, Reconcile, Drop, vars, counters
    <3> QED
      BY <3>1, CountsStay DEF monitorVars
  <2>4. ASSUME NEW key \in recent, WindowOver(key) PROVE CountInv'
    BY <2>4, CountsStay DEF WindowOver, counters
  <2>5. ASSUME Restart PROVE CountInv'
    BY <2>5 DEF Restart, CountInv, Counted
  <2> QED
    BY <2>1, <2>2, <2>3, <2>4, <2>5, EngineCounts, TakenIsCounted, InspectedIsCounted
       DEF Next, Monitor
<1>3. TypeOK /\ CountInv => NoFalseAlarm
  <2> SUFFICES ASSUME TypeOK, CountInv, NEW c \in marked \ missed, Settled(c)
               PROVE  sinceHealthy[c] >= Required
    BY DEF NoFalseAlarm
  <2>1. c \in Container /\ ~Pending(c)
    BY DEF TypeOK, Settled, Pending
  <2> QED
    BY <2>1, CrashLoopAssumption DEF CountInv, Counted, Required
<1> QED
  BY <1>1, <1>2, <1>3, TypeCorrect, PTL DEF Spec

-----------------------------------------------------------------------------
(***************************************************************************)
(* Marks and the update                                                    *)
(***************************************************************************)

\* Nothing is left of an update between updates, one that is to list the containers has
\* nothing but its scope and its copy of the entities, and one that removes services is
\* through with the list.
WorkInv ==
  /\ work.step = "idle" => work = NoWork
  /\ work.step = "list" =>
       ~work.failed /\ work.register = {} /\ \A c \in Container : work.items[c] = "absent"
  /\ work.step \in {"clear", "deregister"} => work.register = {}

\* An update that begins.
LEMMA BegunWork ==
  ASSUME NEW scope \in SUBSET asked, BeginUpdate(scope)
  PROVE  \/ work' = NoWork
         \/ /\ work'.step = "list" /\ work'.scope = scope /\ work'.register = {}
            /\ work'.items = NoWork.items /\ ~work'.failed
<1>1. ASSUME NEW known,
             work' = [NoWork EXCEPT !.step = "list", !.scope = scope, !.existing = known]
      PROVE  /\ work'.step = "list" /\ work'.scope = scope /\ work'.register = {}
             /\ work'.items = NoWork.items /\ ~work'.failed
  BY <1>1 DEF NoWork
<1> QED
  BY <1>1 DEF BeginUpdate

\* An update that lists the containers.
LEMMA ListedWork ==
  ASSUME TypeOK, ListContainers, work' # NoWork, NEW c \in Container
  PROVE  /\ work'.step = "loop" /\ work'.existing = Stale(work'.register)
         /\ work'.failed = work.failed
         /\ c \in work'.register <=> engine[c] # "absent" /\ work.scope \cap {All, c} # {}
         /\ work'.items[c] # "absent" <=> c \in work'.register
<1> DEFINE Seen(d) == engine[d] # "absent" /\ work.scope \cap {All, d} # {}
           listed == {d \in Container : Seen(d)}
           items == [d \in Container |-> IF Seen(d) THEN engine[d] ELSE "absent"]
           existing == Stale(listed)
<1>1. work' = [work EXCEPT !.step = "loop", !.scope = {}, !.existing = existing,
                           !.register = listed, !.items = items]
  BY DEF ListContainers
<1>2. c \in listed <=> engine[c] # "absent" /\ work.scope \cap {All, c} # {}
  OBVIOUS
<1>3. items[c] # "absent" <=> c \in listed
  OBVIOUS
<1>4. existing = Stale(listed)
  OBVIOUS
<1> HIDE DEF items, listed, existing
<1>5. /\ work'.step = "loop" /\ work'.existing = existing /\ work'.register = listed
      /\ work'.items = items /\ work'.failed = work.failed
  BY <1>1 DEF TypeOK, Work
<1> QED
  BY <1>2, <1>3, <1>4, <1>5

LEMMA WorkStep ==
  ASSUME TypeOK, WorkInv, [Next]_vars
  PROVE  WorkInv'
<1>1. ASSUME NEW scope \in SUBSET asked, BeginUpdate(scope) PROVE WorkInv'
  BY <1>1, BegunWork DEF WorkInv, NoWork
<1>2. CASE ListContainers
  <2>1. work' = NoWork \/ work'.step = "loop"
    BY <1>2 DEF ListContainers, TypeOK, Work
  <2> QED
    BY <2>1 DEF WorkInv, NoWork
<1>3. ASSUME NEW c \in Container, Register(c) \/ ReadMark(c) \/ RemoveStale(c) PROVE WorkInv'
  BY <1>3 DEF Register, ReadMark, RemoveStale, ListDone, WorkInv, TypeOK, Work
<1>4. CASE PublishHealth \/ ClearHealth \/ Deregister
  BY <1>4 DEF PublishHealth, ClearHealth, Deregister, WorkInv, TypeOK, Work
<1>5. CASE EndUpdate \/ Restart
  BY <1>5 DEF EndUpdate, Restart, WorkInv, NoWork
<1>6. CASE \/ EngineStep \/ Monitor \/ (\E p \in Publisher : Publish(p)) \/ Reconcile
           \/ (\E scope \in SUBSET asked : Drop(scope))
           \/ (\E key \in recent : WindowOver(key)) \/ UNCHANGED vars
  <2>1. work' = work
    BY <1>6 DEF EngineStep, Create, Die, DaemonRestart, BecomeHealthy, Destroy, Emits, Monitor,
      TakeEvent, Inspect, ClearAlarm, Report, Publish, PreRegister, ShowDown, CheckMark, SendAlarm,
      Drop, WindowOver, Reconcile, vars
  <2>2. NoWork' = NoWork
    BY DEF NoWork
  <2> QED
    BY <2>1, <2>2 DEF WorkInv
<1> QED
  BY <1>1, <1>2, <1>3, <1>4, <1>5, <1>6 DEF Next, Worker

\* An event that is sent makes its container due, if it ended or is there.
LEMMA EmittedIsDue ==
  ASSUME TypeOK, NEW c \in Container, NEW kind \in Kind, Emits(c, kind), NEW d \in Container,
         d # c => engine'[d] = engine[d],
         kind \in {"start", "healthy"} => engine'[c] # "absent"
  PROVE  (d = c \/ Due(d)) => Due(d)'
<1> DEFINE e == [name |-> c, kind |-> kind]
<1>1. /\ evtCh \in Seq(Event) /\ evtCh' = Append(evtCh, e)
      /\ UNCHANGED <<step, handling, asked, work, entities>>
  BY DEF Emits, TypeOK, monitorVars, thinEdgeVars
<1>2. e.name = c /\ ScopeOf(e) \in Covering(c)'
  BY DEF ScopeOf, Covering, Kind
<1> HIDE DEF e
<1>3. /\ DOMAIN evtCh = 1..Len(evtCh) /\ DOMAIN evtCh' = 1..Len(evtCh')
      /\ Len(evtCh') = Len(evtCh) + 1 /\ Len(evtCh) \in Nat
      /\ evtCh'[Len(evtCh) + 1] = e
      /\ \A i \in 1..Len(evtCh) : evtCh'[i] = evtCh[i]
  BY <1>1
<1>4. CASE d = c
  BY <1>1, <1>2, <1>3, <1>4 DEF Due, Tells
<1>5. CASE d # c /\ Due(d)
  <2>1. Covering(d)' = Covering(d)
    BY <1>5 DEF Covering
  <2> QED
    BY <1>1, <1>3, <1>5, <2>1 DEF Due, Tells
<1> QED
  BY <1>4, <1>5

\* A step of the engine is one of a container, whose event it sends.
LEMMA EngineEmits ==
  ASSUME TypeOK, EngineStep
  PROVE  \E c \in Container, kind \in Kind :
           /\ Emits(c, kind)
           /\ \A d \in Container \ {c} : engine'[d] = engine[d]
           /\ kind \in {"start", "healthy"} => engine'[c] # "absent"
<1> DEFINE OfOne(c, kind) ==
             /\ Emits(c, kind)
             /\ \A d \in Container \ {c} : engine'[d] = engine[d]
             /\ kind \in {"start", "healthy"} => engine'[c] # "absent"
<1>1. ASSUME NEW c \in Container, Create(c) \/ DaemonRestart(c) PROVE OfOne(c, "start")
  BY <1>1 DEF Create, DaemonRestart, TypeOK
<1>2. ASSUME NEW c \in Container, Die(c) PROVE OfOne(c, "die")
  BY <1>2 DEF Die, TypeOK
<1>3. ASSUME NEW c \in Container, BecomeHealthy(c) PROVE OfOne(c, "healthy")
  BY <1>3 DEF BecomeHealthy, TypeOK
<1>4. ASSUME NEW c \in Container, Destroy(c) PROVE OfOne(c, "destroy")
  BY <1>4 DEF Destroy, TypeOK
<1> HIDE DEF OfOne
<1>5. \E c \in Container, kind \in Kind : OfOne(c, kind)
  BY <1>1, <1>2, <1>3, <1>4 DEF EngineStep, Kind
<1> QED
  BY <1>5 DEF OfOne

\* An event that is taken keeps its container due until the update is asked for.
LEMMA TakenIsDue ==
  ASSUME TypeOK, TakeEvent, NEW d \in Container, Due(d)
  PROVE  Due(d)'
<1> DEFINE e == Head(evtCh)
<1>1. /\ evtCh \in Seq(Event) /\ evtCh # <<>> /\ e \in Event
      /\ e = evtCh[1] /\ evtCh' = Tail(evtCh) /\ handling' = e /\ handling = None /\ e # None
      /\ UNCHANGED <<engine, work>>
  BY NoneAssumption DEF TakeEvent, TypeOK
<1>2. asked \subseteq asked' /\ (ScopeOf(e) \in asked' \/ step' # "report")
  BY DEF TakeEvent, EnqueueAndReport, Unmark
<1> HIDE DEF e
<1>3. /\ Len(evtCh) \in Nat /\ DOMAIN evtCh = 1..Len(evtCh)
      /\ \A i \in 2..Len(evtCh) : evtCh'[i - 1] = evtCh[i] /\ i - 1 \in DOMAIN evtCh'
      /\ Covering(d)' = Covering(d)
  BY <1>1 DEF Covering
<1>4. ASSUME NEW i \in DOMAIN evtCh, Tells(evtCh[i], d)
      PROVE  Due(d)'
  <2>1. CASE i = 1
    BY <1>1, <1>2, <1>3, <1>4, <2>1 DEF Due, Tells
  <2>2. CASE i # 1
    <3>1. i \in 2..Len(evtCh)
      BY <1>3, <2>2
    <3> QED
      BY <1>3, <1>4, <3>1 DEF Due, Tells
  <2> QED
    BY <2>1, <2>2
<1> QED
  BY <1>1, <1>2, <1>3, <1>4 DEF Due

\* The other steps of the monitor keep c due as well, and a mark that is set makes it due.
LEMMA MonitorKeepsDue ==
  ASSUME TypeOK, Monitor, NEW c \in Container
  PROVE  /\ UNCHANGED <<engine, health, entities, work>>
         /\ Due(c) => Due(c)'
         /\ c \in marked' => c \in marked \/ engine[c] = "absent" \/ Due(c)'
<1>1. CASE TakeEvent
  BY <1>1, TakenIsDue DEF TakeEvent, Unmark, thinEdgeVars
<1>2. CASE Inspect
  <2>1. /\ UNCHANGED <<engine, evtCh, handling, health, entities, work>>
        /\ asked \subseteq asked'
        /\ ScopeOf(handling) \in asked' \/ step' # "report"
        /\ marked' \subseteq marked \/ (/\ marked' \subseteq marked \cup {handling.name}
                                       /\ handling.kind = "start" /\ step' = "report")
    BY <1>2 DEF Inspect, Recover, Unmark, CheckRestarts, Raise, EnqueueAndReport, engineVars,
                thinEdgeVars
  <2>2. Covering(c)' = Covering(c)
    BY <2>1 DEF Covering
  <2>3. Due(c) => Due(c)'
    BY <2>1, <2>2 DEF Due, Tells
  <2>4. ASSUME c \in marked', c \notin marked PROVE engine[c] = "absent" \/ Due(c)'
    <3>1. c \in asked'
      BY <2>1, <2>4 DEF ScopeOf
    <3> QED
      BY <2>1, <3>1 DEF Due, Covering
  <2> QED
    BY <2>1, <2>3, <2>4
<1>3. CASE ClearAlarm
  <2>1. /\ UNCHANGED <<engine, evtCh, handling, marked, health, entities, work>>
        /\ asked \subseteq asked' /\ ScopeOf(handling) \in asked'
    BY <1>3 DEF ClearAlarm, EnqueueAndReport, engineVars
  <2>2. Covering(c)' = Covering(c)
    BY <2>1 DEF Covering
  <2> QED
    BY <2>1, <2>2 DEF Due, Tells
<1>4. CASE Report
  <2>1. UNCHANGED <<engine, evtCh, asked, marked, health, entities, work>> /\ step = "report"
    BY <1>4 DEF Report, engineVars, thinEdgeVars
  <2>2. Covering(c)' = Covering(c)
    BY <2>1 DEF Covering
  <2> QED
    BY <2>1, <2>2 DEF Due, Tells
<1> QED
  BY <1>1, <1>2, <1>3, <1>4 DEF Monitor

\* What is due stays due while no update begins, lists the containers or ends.
LEMMA DueStays ==
  ASSUME NEW c \in Container, Due(c), UNCHANGED <<engine, evtCh, handling, step>>,
         asked \cap Covering(c) \subseteq asked', work.failed => work'.failed,
         work.step = "list" => UNCHANGED work
  PROVE  Due(c)'
<1>1. Covering(c)' = Covering(c)
  BY DEF Covering
<1> QED
  BY <1>1 DEF Due, Tells

\* An update that begins with c in its scope is to list it, save for one that is gone
\* and not registered.
LEMMA BegunIsDue ==
  ASSUME TypeOK, WorkInv, NEW c \in Container, ShownOrDue(c), ~Loses(c),
         NEW scope \in SUBSET asked, BeginUpdate(scope)
  PROVE  ShownOrDue(c)'
<1>1. /\ work.step = "idle" /\ work = NoWork /\ asked' = asked \ scope
      /\ UNCHANGED <<engine, evtCh, handling, step, marked, health, entities>>
  BY DEF BeginUpdate, WorkInv, engineVars, monitorVars, thinEdgeVars
<1>2. /\ work'.register = {} /\ work'.items = NoWork.items
      /\ work'.step \in {"idle", "list"}
      /\ work' # NoWork => work'.step = "list" /\ work'.scope = scope
  BY BegunWork DEF NoWork
<1>3. Covering(c)' = Covering(c)
  BY <1>1 DEF Covering
<1>4. CASE scope \cap Covering(c) = {}
  <2>1. CASE Due(c)
    <3>1. asked \cap Covering(c) \subseteq asked' /\ ~work.failed /\ work.step # "list"
      BY <1>1, <1>4 DEF NoWork
    <3>2. Due(c)'
      BY <1>1, <2>1, <3>1, DueStays
    <3> QED
      BY <3>2 DEF ShownOrDue
  <2>2. CASE ~Due(c)
    BY <1>1, <1>2, <2>2 DEF ShownOrDue, Shown, Gone, Removing, NoWork
  <2> QED
    BY <2>1, <2>2
<1>5. CASE scope \cap Covering(c) # {}
  <2>1. work' # NoWork /\ (engine[c] = "absent" /\ c \in entities => c \in work'.existing)
    BY <1>5 DEF Loses, LosesUpdate
  <2>2. Due(c)' \/ (engine[c] = "absent" /\ c \notin entities)
    BY <1>1, <1>2, <1>3, <1>5, <2>1 DEF Due
  <2> QED
    BY <1>1, <1>2, <2>2 DEF ShownOrDue, Gone
<1> QED
  BY <1>4, <1>5

\* An update that lists c shows or removes it.
LEMMA ListedIsSeenTo ==
  ASSUME TypeOK, WorkInv, NEW c \in Container, ShownOrDue(c), ~Loses(c), ListContainers
  PROVE  ShownOrDue(c)'
<1>1. /\ work.step = "list" /\ ~work.failed /\ work.register = {} /\ work.items[c] = "absent"
      /\ UNCHANGED <<engine, evtCh, handling, step, asked, marked, health, entities>>
  BY DEF ListContainers, WorkInv, engineVars, monitorVars, thinEdgeVars
<1>2. Covering(c)' = Covering(c)
  BY <1>1 DEF Covering
<1>3. CASE work' = NoWork
  <2>1. work.scope \cap Covering(c) = {}
    BY <1>3 DEF Loses, LosesUpdate
  <2>2. CASE Due(c)
    <3>1. Due(c)'
      BY <1>1, <1>2, <2>1, <2>2 DEF Due, Tells
    <3> QED
      BY <3>1 DEF ShownOrDue
  <2>3. CASE ~Due(c)
    BY <1>1, <1>3, <2>3 DEF ShownOrDue, Shown, Gone, Removing, NoWork
  <2> QED
    BY <2>2, <2>3
<1>4. CASE work' # NoWork
  <2>1. /\ work'.step = "loop" /\ work'.existing = Stale(work'.register)
        /\ work'.failed = work.failed
        /\ c \in work'.register <=> engine[c] # "absent" /\ work.scope \cap {All, c} # {}
        /\ work'.items[c] # "absent" <=> c \in work'.register
    BY <1>4, ListedWork
  <2>2. CASE Due(c) /\ ~(work.scope \cap Covering(c) # {}
                         /\ (engine[c] = "absent" => c \in work.existing))
    <3>1. Due(c)'
      BY <1>1, <1>2, <2>2 DEF Due, Tells
    <3> QED
      BY <3>1 DEF ShownOrDue
  <2>3. CASE engine[c] = "absent" /\ All \in work.scope /\ c \in work.existing
    <3>1. Removing(c)'
      BY <2>1, <2>3 DEF Removing, Stale
    <3> QED
      BY <1>1, <2>3, <3>1 DEF ShownOrDue, Gone
  <2>4. CASE engine[c] # "absent" /\ work.scope \cap {All, c} # {}
    <3>1. ~Removing(c)'
      BY <2>1, <2>4 DEF Removing, Stale
    <3> QED
      BY <1>1, <2>1, <2>4, <3>1 DEF ShownOrDue, Shown
  <2>5. CASE ~Due(c) /\ engine[c] = "absent"
    BY <1>1, <2>1, <2>5 DEF ShownOrDue, Gone, Removing
  <2>6. CASE ~Due(c) /\ engine[c] # "absent" /\ work.scope \cap {All, c} = {}
    <3>1. ~Removing(c)'
      BY <2>1, <2>6 DEF Removing, Stale
    <3> QED
      BY <1>1, <2>1, <2>6, <3>1 DEF ShownOrDue, Shown
  <2> QED
    BY <2>2, <2>3, <2>4, <2>5, <2>6 DEF Covering
<1> QED
  BY <1>3, <1>4

\* The steps of an update after it has listed the containers.
LEMMA WorkShows ==
  ASSUME TypeOK, WorkInv, NEW c \in Container, ShownOrDue(c), ~Loses(c),
         \/ \E d \in Container : Register(d) \/ ReadMark(d) \/ RemoveStale(d)
         \/ PublishHealth \/ ClearHealth \/ Deregister \/ EndUpdate
  PROVE  ShownOrDue(c)'
<1>1. /\ UNCHANGED <<engine, evtCh, handling, step, marked>>
      /\ asked \subseteq asked' /\ work.step \notin {"idle", "list"}
  BY DEF Register, ReadMark, RemoveStale, PublishHealth, ClearHealth, Deregister, EndUpdate,
         engineVars, monitorVars
<1>2. work.failed => work'.failed \/ (work' = NoWork /\ (RetryOn => All \in asked'))
  BY DEF Register, ReadMark, RemoveStale, PublishHealth, ClearHealth, Deregister, EndUpdate, TypeOK,
         Work
<1>3. Due(c) => Due(c)'
  <2>1. CASE work.failed /\ RetryOn /\ All \in asked'
    BY <2>1 DEF Due, Covering
  <2>2. CASE ~(work.failed /\ RetryOn /\ All \in asked')
    <3>1. Covering(c)' = Covering(c)
      BY <1>1 DEF Covering
    <3> QED
      BY <1>1, <1>2, <2>2, <3>1 DEF Due, Tells
  <2> QED
    BY <2>1, <2>2
<1> SUFFICES ASSUME ~Due(c) PROVE ShownOrDue(c)'
  BY <1>3 DEF ShownOrDue
<1> USE DEF TypeOK, Work
<1>4. ASSUME NEW d \in Container, Register(d) PROVE ShownOrDue(c)'
  <2>1. /\ work'.step = work.step /\ work'.existing = work.existing
        /\ work'.target = work.target /\ work'.items = work.items /\ work'.shown = work.shown
        /\ work'.register = work.register \ {d} /\ d \in work.register /\ health' = health
        /\ entities' \subseteq entities \cup {d}
    BY <1>4 DEF Register
  <2> QED
    BY <1>1, <2>1 DEF ShownOrDue, Shown, Gone, Removing
<1>5. ASSUME NEW d \in Container, ReadMark(d) PROVE ShownOrDue(c)'
  <2>1. /\ work.step = "loop" /\ work'.step = "publish" /\ work'.existing = work.existing
        /\ work'.target = d
        /\ d \in marked => work'.shown = "down"
        /\ work'.register = work.register /\ UNCHANGED <<entities, health>>
        /\ c # d => work'.items[c] = work.items[c]
    BY <1>5 DEF ReadMark, StatusToShow, thinEdgeVars
  <2> QED
    BY <1>1, <2>1 DEF ShownOrDue, Shown, Gone, Removing
<1>6. CASE PublishHealth
  <2>1. /\ work.step = "publish" /\ work'.step = "loop" /\ work'.existing = work.existing
        /\ work'.items = work.items /\ work'.register = work.register /\ entities' = entities
        /\ c = work.target => health'[c] = work.shown
        /\ c # work.target => health'[c] = health[c]
    <3>1. c = work.target => faults' = faults
      BY <1>6 DEF Loses
    <3>2. ~Fails("mqtt") \/ faults' # faults
      BY DEF Fails
    <3> QED
      BY <1>6, <3>1, <3>2 DEF PublishHealth
  <2> QED
    BY <1>1, <2>1 DEF ShownOrDue, Shown, Gone, Removing
<1>7. ASSUME NEW d \in Container, RemoveStale(d) PROVE ShownOrDue(c)'
  <2>1. /\ work.step = "loop" /\ work'.existing = work.existing \ {d} /\ d \in work.existing
        /\ work'.items = work.items /\ work'.register = work.register
        /\ UNCHANGED <<entities, health>>
        /\ \/ work'.step = "clear" /\ work'.target = d
           \/ work'.step = "loop" /\ work'.failed /\ faults' # faults
    <3>1. Fails("cloud") => faults' # faults
      BY DEF Fails
    <3>2. /\ work.step = "loop" /\ d \in work.existing
          /\ UNCHANGED <<entities, health>>
          /\ \/ work' = [work EXCEPT !.step = "clear", !.target = d, !.existing = @ \ {d}]
             \/ /\ faults' # faults
                /\ work' = [work EXCEPT !.existing = @ \ {d}, !.failed = TRUE]
      BY <1>7, <3>1 DEF RemoveStale, thinEdgeVars
    <3> QED
      BY <3>2
  <2>2. CASE work'.step = "clear"
    BY <1>1, <2>1, <2>2 DEF ShownOrDue, Shown, Gone, Removing
  <2>3. CASE work'.step = "loop" /\ RetryOn
    BY <2>1, <2>3 DEF ShownOrDue, Due
  <2>4. CASE work'.step = "loop" /\ ~RetryOn
    <3>1. c # d
      BY <1>7, <2>1, <2>4 DEF Loses
    <3> QED
      BY <1>1, <2>1, <2>4, <3>1 DEF ShownOrDue, Shown, Gone, Removing
  <2> QED
    BY <2>1, <2>2, <2>3, <2>4
<1>8. CASE ClearHealth
  <2>1. /\ work.step = "clear" /\ work'.step = "deregister" /\ work'.existing = work.existing
        /\ work'.target = work.target /\ work'.items = work.items
        /\ work'.register = work.register /\ entities' = entities
        /\ c # work.target => health'[c] = health[c]
    BY <1>8 DEF ClearHealth
  <2> QED
    BY <1>1, <2>1 DEF ShownOrDue, Shown, Gone, Removing
<1>9. CASE Deregister
  <2>1. /\ work.step = "deregister" /\ work'.step = "loop" /\ work'.existing = work.existing
        /\ work'.items = work.items /\ work'.register = work.register /\ work.register = {}
        /\ UNCHANGED health /\ entities' \subseteq entities
        /\ c = work.target => c \notin entities'
    <3>1. c = work.target => faults' = faults
      BY <1>9 DEF Loses
    <3>2. ~Fails("thin-edge") \/ faults' # faults
      BY DEF Fails
    <3> QED
      BY <1>9, <3>1, <3>2 DEF Deregister, WorkInv
  <2> QED
    BY <1>1, <2>1 DEF ShownOrDue, Shown, Gone, Removing
<1>10. CASE EndUpdate
  <2>1. /\ work.step = "loop" /\ work.items[c] = "absent" /\ work.existing = {}
        /\ work' = NoWork /\ UNCHANGED <<entities, health>>
    BY <1>10 DEF EndUpdate, ListDone, thinEdgeVars
  <2> QED
    BY <1>1, <2>1 DEF ShownOrDue, Shown, Gone, Removing, NoWork
<1> QED
  BY <1>4, <1>5, <1>6, <1>7, <1>8, <1>9, <1>10

\* No step but those that lose it leaves a container unseen to.
LEMMA MarkStep ==
  ASSUME TypeOK, WorkInv, [Next]_vars, NEW c \in Container, ShownOrDue(c), ~Loses(c)
  PROVE  ShownOrDue(c)'
<1>1. CASE EngineStep
  <2>1. PICK d \in Container, kind \in Kind :
          /\ Emits(d, kind)
          /\ \A e \in Container \ {d} : engine'[e] = engine[e]
          /\ kind \in {"start", "healthy"} => engine'[d] # "absent"
    BY <1>1, EngineEmits
  <2>2. d = c \/ Due(c) => Due(c)'
    BY <2>1, EmittedIsDue
  <2>3. UNCHANGED <<marked, health, entities, work>>
    BY <2>1 DEF Emits, thinEdgeVars
  <2> QED
    BY <2>1, <2>2, <2>3 DEF ShownOrDue, Shown, Gone, Removing
<1>2. CASE Monitor
  BY <1>2, MonitorKeepsDue DEF ShownOrDue, Shown, Gone, Removing
<1>3. ASSUME NEW p \in Publisher, Publish(p) PROVE ShownOrDue(c)'
  <2>1. /\ UNCHANGED <<engine, evtCh, handling, step, asked, work>> /\ marked' \subseteq marked
        /\ c \in entities' => c \in entities
        /\ health[c] = "down" => health'[c] = "down"
    BY <1>3 DEF Publish, PreRegister, ShowDown, CheckMark, SendAlarm, AttemptFailed, Loses, TypeOK,
      engineVars, monitorVars, thinEdgeVars
  <2>2. Due(c) => Due(c)'
    BY <2>1, DueStays
  <2> QED
    BY <2>1, <2>2 DEF ShownOrDue, Shown, Gone, Removing
<1>4. ASSUME NEW scope \in SUBSET asked, Drop(scope) PROVE ShownOrDue(c)'
  <2>1. /\ UNCHANGED <<engine, evtCh, handling, step, work, marked, health, entities>>
        /\ asked' = asked \ scope /\ scope \cap Covering(c) = {}
    BY <1>4 DEF Drop, Loses, LosesUpdate, engineVars, monitorVars, thinEdgeVars
  <2>2. Due(c) => Due(c)'
    BY <2>1, DueStays
  <2> QED
    BY <2>1, <2>2 DEF ShownOrDue, Shown, Gone, Removing
<1>5. CASE Reconcile \/ Restart
  <2>1. All \in asked'
    BY <1>5 DEF Reconcile, Restart
  <2> QED
    BY <2>1 DEF ShownOrDue, Due, Covering
<1>6. CASE (\E key \in recent : WindowOver(key)) \/ UNCHANGED vars
  <2>1. UNCHANGED <<engine, evtCh, handling, step, asked, work, marked, health, entities>>
    BY <1>6 DEF WindowOver, vars, engineVars, monitorVars, thinEdgeVars
  <2>2. Due(c) => Due(c)'
    BY <2>1, DueStays
  <2> QED
    BY <2>1, <2>2 DEF ShownOrDue, Shown, Gone, Removing
<1> QED
  BY <1>1, <1>2, <1>3, <1>4, <1>5, <1>6, BegunIsDue, ListedIsSeenTo, WorkShows DEF Next, Worker

LEMMA UpdateInitially ==
  ASSUME Init
  PROVE  WorkInv /\ \A c \in Container : ShownOrDue(c)
BY DEF Init, WorkInv, ShownOrDue, Due, Covering, NoWork

\* However raising and clearing alarms overlap with an update that has read some of the
\* marks, whatever becomes of containers after it has listed them, and whichever
\* registration or retried deletion fails: a marked container comes to be shown as down
\* and one that is gone to be deregistered, or an update is due that sees to it, save
\* for the losses that Loses names (an update that is dropped, returns early or misses
\* an entity, a call for the container itself that fails, and a late registration).
THEOREM MarksShown == Spec => MarksAreShown
<1>1. Init => WorkInv
  BY UpdateInitially
<1>2. TypeOK /\ WorkInv /\ [Next]_vars => WorkInv'
  BY WorkStep
<1>3. TypeOK /\ WorkInv /\ [Next]_vars =>
        [\A c \in Container : ShownOrDue(c) => ShownOrDue(c)' \/ Loses(c)]_vars
  BY MarkStep
<1> QED
  BY <1>1, <1>2, <1>3, TypeCorrect, PTL DEF Spec, MarksAreShown

\* Nothing is asked for, on its way or under way.  Publishers may still be at it.
AtRest == asked = {} /\ evtCh = <<>> /\ step = "idle" /\ work.step = "idle"

\* What the broker and thin-edge.io show agrees with the marks and the engine.
AllShown ==
  \A c \in Container :
    /\ c \in marked /\ engine[c] # "absent" => health[c] = "down"
    /\ engine[c] = "absent" => c \notin entities

\* So when the monitor and the worker have nothing left to do, every marked container
\* is shown as down and none that is gone is registered, without any help of the
\* reconcile loop, when no step lost an update, a call for one of them, or a race with a
\* publisher.
THEOREM RestIsShown ==
  Spec /\ [][\A c \in Container : ~Loses(c)]_vars => [](AtRest => AllShown)
<1> DEFINE Seen == \A c \in Container : ShownOrDue(c)
           Kept == \A c \in Container : ~Loses(c)
<1>1. Init => WorkInv /\ Seen
  BY UpdateInitially
<1>2. TypeOK /\ WorkInv /\ Seen /\ [Next]_vars /\ [Kept]_vars => WorkInv' /\ Seen'
  <2> SUFFICES ASSUME TypeOK, WorkInv, Seen, [Next]_vars, [Kept]_vars
               PROVE  WorkInv' /\ Seen'
    OBVIOUS
  <2>1. WorkInv'
    BY WorkStep
  <2>2. ASSUME NEW c \in Container PROVE ShownOrDue(c)'
    <3>1. CASE UNCHANGED vars
      BY <3>1 DEF vars, engineVars, monitorVars, thinEdgeVars, ShownOrDue, Shown, Gone, Removing,
                  Due, Tells, Covering
    <3>2. CASE Kept
      BY <3>2, MarkStep
    <3> QED
      BY <3>1, <3>2
  <2> QED
    BY <2>1, <2>2
<1>3. TypeOK /\ WorkInv /\ Seen => (AtRest => AllShown)
  <2> SUFFICES ASSUME TypeOK, WorkInv, Seen, AtRest PROVE AllShown
    OBVIOUS
  <2>1. work = NoWork /\ handling = None
    BY DEF AtRest, WorkInv, TypeOK
  <2>2. ASSUME NEW c \in Container PROVE ~Due(c) /\ ShownOrDue(c)
    BY <2>1, <2>2 DEF AtRest, Due, NoWork
  <2> QED
    BY <2>1, <2>2 DEF AllShown, ShownOrDue, Shown, Gone, Removing, NoWork
<1> HIDE DEF Seen
<1> QED
  BY <1>1, <1>2, <1>3, TypeCorrect, PTL DEF Spec

============================================================================
