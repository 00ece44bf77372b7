---------------------------- MODULE DaemonProofs ----------------------------
(***************************************************************************)
(* Theorems about the service process, for any number of sockets, ticks of *)
(* the metrics and attempts to reconnect, and any capacity of the worker's *)
(* queue.                                                                  *)
(***************************************************************************)
EXTENDS Daemon, WellFoundedInduction, TLAPS

-----------------------------------------------------------------------------
(***************************************************************************)
(* The socket that is found                                                *)
(***************************************************************************)

\* Of the sockets that are present there is a first one,
LEMMA FirstSocket ==
  ASSUME NEW S \in SUBSET (1..Sockets), S # {}
  PROVE  \E s \in S : \A t \in S : s <= t
<1> DEFINE Before == {p \in Nat \X Nat : p[1] < p[2]}
<1>1. IsWellFoundedOn(Before, Nat)
  BY NatLessThanWellFounded DEF OpToRel
<1>2. S \subseteq Nat
  BY DaemonAssumption
<1>3. PICK s \in S : \A t \in S : <<t, s>> \notin Before
  <2> HIDE DEF Before
  <2> QED
    BY <1>1, <1>2, WFMin, Zenon
<1>4. ASSUME NEW t \in S PROVE s <= t
  <2>1. t \in Nat /\ s \in Nat
    BY <1>2
  <2>2. ~(t < s)
    BY <1>3, <2>1
  <2> QED
    BY <2>1, <2>2
<1> QED
  BY <1>4

\* so that findContainerEngineSocket gives a socket, the one pinned in the
\* process's environment, or none.
LEMMA LookedTyped ==
  ASSUME TypeOK
  PROVE  Looked \in 0..Sockets
<1> DEFINE present == {s \in 1..Sockets : sockets[s] # "absent"}
<1>1. {env, host} \subseteq 0..Sockets /\ Sockets \in Nat
  BY DaemonAssumption DEF TypeOK
<1>2. CASE env = 0 /\ present # {}
  <2>1. (CHOOSE s \in present : \A t \in present : s <= t) \in present
    BY <1>2, FirstSocket
  <2> QED
    BY <1>1, <1>2, <2>1 DEF Looked, Found
<1>3. CASE ~(env = 0 /\ present # {})
  BY <1>1, <1>3 DEF Looked, Found
<1> QED
  BY <1>2, <1>3

-----------------------------------------------------------------------------
(***************************************************************************)
(* Types                                                                   *)
(***************************************************************************)

\* The types of the parts, for steps that leave most of them alone.
MainTypeOK ==
  /\ main \in {"client", "connect", "identity", "running", "stopping", "ended"}
  /\ cancelled \in BOOLEAN

ClientTypeOK ==
  /\ {env, host} \subseteq 0..Sockets
  /\ attempts \in 0..(Attempts - 1)
  /\ libpod \in BOOLEAN

MonitorTypeOK ==
  /\ monitor \in {"off", "open", "update", "listen", "sleep", "reconnect", "done"}
  /\ stream \in {"none", "open", "broken"}

WorkTypeOK ==
  /\ request \in [Caller -> {"idle", "send", "wait"}]
  /\ queue \in Seq(Caller \cup {"nobody"}) /\ Len(queue) <= QueueSize
  /\ worker \in {"none", "select", "update", "metrics", "stats"}
  /\ serving \in Caller \cup {"nobody"}

BrokerTypeOK ==
  /\ conn \in {"off", "greeting", "on"}
  /\ health \in {"none", "up", "down"}
  /\ once \in {"none", "on", "ended", "killed"}

SocketsTypeOK == sockets \in [1..Sockets -> SocketState]

\* The parts are the whole, before a step and after it.
LEMMA TypeParts ==
  LET Parts == /\ MainTypeOK /\ ClientTypeOK /\ MonitorTypeOK /\ WorkTypeOK
               /\ StatsTypeOK /\ BrokerTypeOK /\ SocketsTypeOK
  IN  (TypeOK <=> Parts) /\ (TypeOK' <=> Parts')
<1>1. {libpod, cancelled} \subseteq BOOLEAN <=> libpod \in BOOLEAN /\ cancelled \in BOOLEAN
  OBVIOUS
<1>2. {libpod', cancelled'} \subseteq BOOLEAN <=> libpod' \in BOOLEAN /\ cancelled' \in BOOLEAN
  OBVIOUS
<1> QED
  BY <1>1, <1>2 DEF TypeOK, MainTypeOK, ClientTypeOK, MonitorTypeOK, WorkTypeOK, BrokerTypeOK,
                    SocketsTypeOK

\* Steps that leave a part alone keep its types.
LEMMA PartsUnchanged ==
  /\ MainTypeOK /\ UNCHANGED mainVars => MainTypeOK'
  /\ ClientTypeOK /\ UNCHANGED clientVars => ClientTypeOK'
  /\ MonitorTypeOK /\ UNCHANGED monitorVars => MonitorTypeOK'
  /\ WorkTypeOK /\ UNCHANGED <<request, workerVars>> => WorkTypeOK'
  /\ StatsTypeOK /\ UNCHANGED statsVars => StatsTypeOK'
  /\ BrokerTypeOK /\ UNCHANGED brokerVars => BrokerTypeOK'
  /\ SocketsTypeOK /\ UNCHANGED sockets => SocketsTypeOK'
BY DEF MainTypeOK, ClientTypeOK, MonitorTypeOK, WorkTypeOK, StatsTypeOK, BrokerTypeOK,
       SocketsTypeOK, mainVars, clientVars, monitorVars, workerVars, statsVars, brokerVars

\* A caller keeps its types when it asks, and when it is answered.
LEMMA AsksTyped ==
  ASSUME WorkTypeOK, NEW c \in Caller, Asks(c), UNCHANGED workerVars
  PROVE  WorkTypeOK'
BY DEF WorkTypeOK, Asks, workerVars

LEMMA SendResultTyped ==
  ASSUME WorkTypeOK, SendResult
  PROVE  WorkTypeOK'
BY DEF WorkTypeOK, SendResult

\* Looking for the engine: a host that was found is kept for the next attempt,
\* and an attempt that works pins it.
LEMMA ConnectedTyped ==
  ASSUME TypeOK, Connected
  PROVE  ClientTypeOK'
<1>1. env' \in 0..Sockets /\ libpod' \in BOOLEAN
  BY LookedTyped DEF Connected
<1>2. host' \in 0..Sockets /\ attempts' \in 0..(Attempts - 1)
  BY DaemonAssumption DEF Connected, Forgotten
<1> QED
  BY <1>1, <1>2 DEF ClientTypeOK

\* The process ends: everything it kept is gone.
LEMMA EndsTyped ==
  ASSUME TypeOK, Ends
  PROVE  TypeOK'
<1>1. MainTypeOK'
  BY DEF Ends, MainTypeOK
<1>2. ClientTypeOK'
  <2>1. /\ env' = 0 /\ host' = ContainerHost /\ attempts' = 0 /\ libpod' = FALSE
        /\ 0 \in 0..Sockets /\ 0 \in 0..(Attempts - 1)
    BY DaemonAssumption DEF Ends, Forgotten
  <2> QED
    BY <2>1, DaemonAssumption DEF ClientTypeOK
<1>3. MonitorTypeOK'
  BY DEF Ends, MonitorTypeOK
<1>4. WorkTypeOK'
  <2>1. queue' \in Seq(Caller \cup {"nobody"}) /\ Len(queue') <= QueueSize
    BY DaemonAssumption DEF Ends
  <2> QED
    BY <2>1 DEF Ends, WorkTypeOK
<1>5. StatsTypeOK'
  BY DEF Ends, Returned, StatsTypeOK, AnswerKind
<1>6. BrokerTypeOK' /\ SocketsTypeOK'
  BY TypeParts DEF Ends, BrokerTypeOK, SocketsTypeOK
<1> QED
  BY <1>1, <1>2, <1>3, <1>4, <1>5, <1>6, TypeParts

\* The steps of reading statistics.
LEMMA StatsTyped ==
  ASSUME StatsTypeOK
  PROVE  /\ Collect => StatsTypeOK'
         /\ Read => StatsTypeOK'
         /\ GetStats => StatsTypeOK'
<1> USE DEF StatsTypeOK
<1>1. RequestStats => StatsTypeOK'
  BY StatsAssumption DEF RequestStats, Returned, AnswerKind
<1>2. TimeOut => StatsTypeOK'
  BY DEF TimeOut, Returned, AnswerKind
<1>3. Take => StatsTypeOK'
  BY DEF Take, Returned, AnswerKind
<1>4. Read => StatsTypeOK'
  BY DEF Read
<1>5. GetStats => StatsTypeOK'
  BY DEF GetStats
<1> QED
  BY <1>1, <1>2, <1>3, <1>4, <1>5 DEF Collect

\* The steps of the process's life.
LEMMA MainTyped ==
  ASSUME TypeOK,
         \/ FindEngine \/ StartTimesOut \/ Connect \/ Identify \/ Signal \/ Stop
         \/ Crash \/ Restart
  PROVE  TypeOK'
<1>1. CASE FindEngine
  <2>1. MainTypeOK'
    BY <1>1, TypeParts DEF FindEngine, MainTypeOK
  <2>2. ClientTypeOK'
    <3>1. CASE Connected
      BY <3>1, ConnectedTyped
    <3>2. CASE Unanswered /\ host' = Looked /\ UNCHANGED attempts
      BY <3>2, LookedTyped, TypeParts DEF Unanswered, ClientTypeOK
    <3> QED
      BY <1>1, <3>1, <3>2 DEF FindEngine
  <2> QED
    BY <1>1, <2>1, <2>2, TypeParts, PartsUnchanged DEF FindEngine
<1>2. CASE StartTimesOut \/ Stop \/ Crash
  BY <1>2, EndsTyped DEF StartTimesOut, Stop, Crash
<1>3. CASE Connect
  <2>1. CASE Ends
    BY <2>1, EndsTyped
  <2>2. CASE ~Ends
    <3>1. /\ main' = "identity" /\ conn' = "greeting"
          /\ UNCHANGED <<cancelled, clientVars, monitorVars, request, workerVars,
                         statsVars, health, once, sockets>>
      BY <1>3, <2>2 DEF Connect
    <3>2. MainTypeOK' /\ BrokerTypeOK'
      BY <3>1, TypeParts DEF MainTypeOK, BrokerTypeOK
    <3> QED
      BY <3>1, <3>2, TypeParts, PartsUnchanged
  <2> QED
    BY <2>1, <2>2
<1>4. CASE Identify
  <2>1. MainTypeOK' /\ MonitorTypeOK' /\ WorkTypeOK'
    BY <1>4, TypeParts DEF Identify, MainTypeOK, MonitorTypeOK, WorkTypeOK
  <2> QED
    BY <1>4, <2>1, TypeParts, PartsUnchanged DEF Identify
<1>5. CASE Signal \/ Restart
  <2>1. MainTypeOK'
    BY <1>5, TypeParts DEF Signal, Restart, MainTypeOK
  <2> QED
    BY <1>5, <2>1, TypeParts, PartsUnchanged DEF Signal, Restart
<1> QED
  BY <1>1, <1>2, <1>3, <1>4, <1>5

\* The steps of the broker and of what is around the process.
LEMMA AroundTyped ==
  ASSUME TypeOK,
         \/ OnConnect \/ LoseConnection \/ AutoReconnect \/ OtherProcess
         \/ \E s \in 1..Sockets : SocketChanges(s)
  PROVE  TypeOK'
<1>1. CASE OnConnect \/ LoseConnection \/ AutoReconnect \/ OtherProcess
  <2>1. BrokerTypeOK'
    BY <1>1, TypeParts DEF OnConnect, LoseConnection, AutoReconnect, OtherProcess, RunOnce,
                           StopOnce, CleanStop, KillOnce, BrokerTypeOK
  <2> QED
    BY <1>1, <2>1, TypeParts, PartsUnchanged
       DEF OnConnect, LoseConnection, AutoReconnect, OtherProcess
<1>2. ASSUME NEW s \in 1..Sockets, SocketChanges(s) PROVE TypeOK'
  <2>1. SocketsTypeOK' /\ MonitorTypeOK'
    BY <1>2, TypeParts DEF SocketChanges, SocketsTypeOK, MonitorTypeOK
  <2> QED
    BY <1>2, <2>1, TypeParts, PartsUnchanged DEF SocketChanges
<1> QED
  BY <1>1, <1>2

\* The steps of the monitor.
LEMMA MonitorTyped ==
  ASSUME TypeOK, Monitor
  PROVE  TypeOK'
<1>1. MonitorTypeOK'
  BY TypeParts
     DEF Monitor, Subscribe, Listen, Break, Wake, Reconnect, GivesUp, TriesAgain, MonitorTypeOK,
         monitorVars
<1>2. ClientTypeOK'
  <2>1. CASE Connected
    BY <2>1, ConnectedTyped
  <2>2. CASE Unanswered /\ GivesUp
    <3>1. /\ UNCHANGED <<env, libpod>> /\ host' = ContainerHost /\ attempts' = 0
          /\ 0 \in 0..(Attempts - 1)
      BY <2>2, DaemonAssumption DEF Unanswered, GivesUp, Forgotten
    <3> QED
      BY <3>1, DaemonAssumption, TypeParts DEF ClientTypeOK
  <2>3. CASE Unanswered /\ ~LastAttempt /\ TriesAgain
    <3>1. attempts + 1 \in 0..(Attempts - 1)
      BY <2>3, DaemonAssumption, TypeParts DEF LastAttempt, ClientTypeOK
    <3> QED
      BY <2>3, <3>1, LookedTyped, TypeParts DEF Unanswered, TriesAgain, ClientTypeOK
  <2>4. CASE UNCHANGED clientVars
    BY <2>4, TypeParts, PartsUnchanged
  <2> QED
    BY <2>1, <2>2, <2>3, <2>4 DEF Monitor, Subscribe, Listen, Break, Wake, Reconnect
<1>3. WorkTypeOK'
  <2>1. CASE Asks("monitor") /\ UNCHANGED workerVars
    BY <2>1, TypeParts, AsksTyped DEF Caller
  <2>2. CASE UNCHANGED <<request, workerVars>>
    BY <2>2, TypeParts, PartsUnchanged
  <2> QED
    BY <2>1, <2>2 DEF Monitor, Subscribe, Listen, Break, Wake, Reconnect
<1> QED
  BY <1>1, <1>2, <1>3, TypeParts, PartsUnchanged DEF Monitor

\* The steps of the worker and of those who ask it.
LEMMA WorkTyped ==
  ASSUME TypeOK,
         \/ \E c \in Caller : Ticks(c) \/ Submit(c)
         \/ Dispatch \/ Worker \/ Collecting \/ Reading
  PROVE  TypeOK'
<1>1. ASSUME NEW c \in Caller, Ticks(c) PROVE TypeOK'
  <2>1. WorkTypeOK'
    BY <1>1, TypeParts, AsksTyped DEF Ticks
  <2> QED
    BY <1>1, <2>1, TypeParts, PartsUnchanged DEF Ticks
<1>2. ASSUME NEW c \in Caller, Submit(c) PROVE TypeOK'
  <2>1. WorkTypeOK'
    BY <1>2, DaemonAssumption, TypeParts DEF Submit, WorkTypeOK
  <2> QED
    BY <1>2, <2>1, TypeParts, PartsUnchanged DEF Submit
<1>3. CASE Dispatch
  <2>1. WorkTypeOK'
    BY <1>3, DaemonAssumption, TypeParts DEF Dispatch, WorkTypeOK
  <2> QED
    BY <1>3, <2>1, TypeParts, PartsUnchanged DEF Dispatch
<1>4. CASE Worker
  <2>1. WorkTypeOK' /\ StatsTypeOK'
    <3>1. CASE Receive
      BY <1>4, <3>1, DaemonAssumption, TypeParts, PartsUnchanged DEF Receive, Dequeue, WorkTypeOK
    <3>2. CASE SendResult /\ UNCHANGED statsVars
      BY <3>2, TypeParts, SendResultTyped, PartsUnchanged
    <3>3. CASE GetStats /\ worker' = "stats" /\ UNCHANGED <<request, queue, serving>>
      BY <3>3, TypeParts, StatsTyped DEF WorkTypeOK
    <3> QED
      BY <1>4, <3>1, <3>2, <3>3 DEF Worker, DoUpdate, List, UpdateMetrics
  <2> QED
    BY <1>4, <2>1, TypeParts, PartsUnchanged DEF Worker
<1>5. CASE Collecting \/ Reading
  <2>1. StatsTypeOK'
    BY <1>5, TypeParts, StatsTyped DEF Collecting, Reading
  <2> QED
    BY <1>5, <2>1, TypeParts, PartsUnchanged DEF Collecting, Reading, OthersUnchanged
<1> QED
  BY <1>1, <1>2, <1>3, <1>4, <1>5

\* The state of the process and of what surrounds it stays of its type; in
\* particular the queue never holds more than its capacity, and a reconnect ends
\* after its attempts.
THEOREM TypeCorrect == Spec => []TypeOK
<1>1. Init => TypeOK
  <2> SUFFICES ASSUME Init PROVE TypeOK
    OBVIOUS
  <2>1. MainTypeOK /\ MonitorTypeOK /\ BrokerTypeOK /\ SocketsTypeOK
    BY DEF Init, MainTypeOK, MonitorTypeOK, BrokerTypeOK, SocketsTypeOK
  <2>2. ClientTypeOK
    <3>1. /\ env = 0 /\ host = ContainerHost /\ attempts = 0 /\ libpod = FALSE
          /\ 0 \in 0..Sockets /\ 0 \in 0..(Attempts - 1)
      BY DaemonAssumption DEF Init
    <3> QED
      BY <3>1, DaemonAssumption DEF ClientTypeOK
  <2>3. WorkTypeOK
    <3>1. queue \in Seq(Caller \cup {"nobody"}) /\ Len(queue) <= QueueSize
      BY DaemonAssumption DEF Init
    <3> QED
      BY <3>1 DEF Init, WorkTypeOK
  <2>4. StatsTypeOK
    BY DEF Init, StatsInit, StatsTypeOK, AnswerKind
  <2> QED
    BY <2>1, <2>2, <2>3, <2>4, TypeParts
<1>2. TypeOK /\ [Next]_vars => TypeOK'
  <2> SUFFICES ASSUME TypeOK, [Next]_vars PROVE TypeOK'
    OBVIOUS
  <2>1. CASE UNCHANGED vars
    BY <2>1, TypeParts, PartsUnchanged DEF vars
  <2> QED
    BY <2>1, MainTyped, AroundTyped, MonitorTyped, WorkTyped DEF Next
<1> QED
  BY <1>1, <1>2, PTL DEF Spec

-----------------------------------------------------------------------------
(***************************************************************************)
(* The health that is shown                                                *)
(***************************************************************************)

\* What makes HealthShown inductive: it holds wherever the process is, since a
\* connection that is lost takes the health with it, and the process has none
\* when it is gone.
HealthInv ==
  /\ conn = "on" /\ once # "killed" => health = "up"
  /\ conn = "off" /\ once = "none" => health # "up"
  /\ conn # "off" => main \in {"identity", "running", "stopping"}

\* Steps that leave the broker and the place of the process alone.
LEMMA HealthUnchanged ==
  ASSUME HealthInv, UNCHANGED <<main, brokerVars>>
  PROVE  HealthInv'
BY DEF HealthInv, brokerVars

\* However often the connection is lost and made again, wherever the process ends,
\* and whatever a process does that runs once beside it, as long as that one is not
\* killed: a service that is connected is shown as up, one that is gone is not.
THEOREM HealthIsShown == Spec => []HealthShown
<1>1. Init => HealthInv
  BY DEF Init, HealthInv
<1>2. TypeOK /\ HealthInv /\ [Next]_vars => HealthInv'
  <2> SUFFICES ASSUME TypeOK, HealthInv, [Next]_vars PROVE HealthInv'
    OBVIOUS
  <2>1. CASE Ends
    BY <2>1 DEF Ends, HealthInv
  <2>2. CASE FindEngine \/ Identify \/ Signal \/ Restart
    BY <2>2 DEF FindEngine, Identify, Signal, Restart, HealthInv, brokerVars
  <2>3. CASE Connect
    BY <2>1, <2>3 DEF Connect, HealthInv
  <2>4. CASE OnConnect
    BY <2>4 DEF OnConnect, HealthInv, mainVars
  <2>5. CASE LoseConnection
    BY <2>5 DEF LoseConnection, HealthInv, mainVars
  <2>6. CASE AutoReconnect
    BY <2>6 DEF AutoReconnect, HealthInv, mainVars
  <2>7. CASE OtherProcess
    BY <2>7 DEF OtherProcess, RunOnce, StopOnce, CleanStop, KillOnce, HealthInv, mainVars
  <2>8. CASE Monitor
    BY <2>8, HealthUnchanged DEF Monitor, mainVars
  <2>9. ASSUME NEW s \in 1..Sockets, SocketChanges(s) PROVE HealthInv'
    BY <2>9, HealthUnchanged DEF SocketChanges, mainVars
  <2>10. ASSUME NEW c \in Caller, Ticks(c) \/ Submit(c) PROVE HealthInv'
    BY <2>10, HealthUnchanged DEF Ticks, Submit, mainVars
  <2>11. CASE Dispatch \/ Worker \/ Collecting \/ Reading
    BY <2>11, HealthUnchanged
       DEF Dispatch, Worker, Collecting, Reading, OthersUnchanged, mainVars
  <2>12. CASE UNCHANGED vars
    BY <2>12, HealthUnchanged DEF vars, mainVars
  <2> QED
    BY <2>1, <2>2, <2>3, <2>4, <2>5, <2>6, <2>7, <2>8, <2>9, <2>10, <2>11, <2>12
       DEF Next, StartTimesOut, Stop, Crash
<1>3. HealthInv => HealthShown
  BY DEF HealthInv, HealthShown
<1> QED
  BY <1>1, <1>2, <1>3, TypeCorrect, PTL DEF Spec

-----------------------------------------------------------------------------
(***************************************************************************)
(* Requests to the worker                                                  *)
(***************************************************************************)

\* What makes OneRequest inductive, with StartedInv below: the worker has put down
\* what it had before it receives another request.
RequestInv ==
  /\ OneRequest
  /\ worker \in {"none", "select"} => serving = "nobody"

\* Steps that leave the requests alone.
LEMMA RequestsUnchanged ==
  ASSUME RequestInv, UNCHANGED <<request, queue, serving>>,
         worker' = worker \/ worker' \notin {"none", "select"}
  PROVE  RequestInv'
BY DEF RequestInv, OneRequest, Places

\* A caller that asks has no request yet.
LEMMA AsksKeepsRequests ==
  ASSUME TypeOK, RequestInv, NEW c \in Caller, request[c] # "wait", Asks(c),
         UNCHANGED workerVars
  PROVE  RequestInv'
<1>1. ASSUME NEW d \in Caller
      PROVE  (request'[d] = "wait" <=> request[d] = "wait") /\ Places(d)' = Places(d)
  BY DEF TypeOK, Asks, Places, workerVars
<1> QED
  BY <1>1 DEF RequestInv, OneRequest, workerVars

\* A request that is appended to the queue is there once.
LEMMA AppendedIsThere ==
  ASSUME TypeOK, NEW e \in Caller \cup {"nobody"}, queue' = Append(queue, e),
         UNCHANGED serving, NEW c
  PROVE  Places(c)' = Places(c) \cup (IF c = e THEN {Len(queue)'} ELSE {})
<1>1. /\ Len(queue) \in Nat /\ Len(queue') = Len(queue) + 1
      /\ queue'[Len(queue) + 1] = e
      /\ \A i \in 1..Len(queue) : queue'[i] = queue[i]
  BY DEF TypeOK
<1> QED
  BY <1>1 DEF Places

\* Receiving moves each request up by one place; the first is in hand.
LEMMA ReceivedMovesUp ==
  ASSUME TypeOK, queue # <<>>, Dequeue, NEW c, c # serving
  PROVE  Places(c)' = {i - 1 : i \in Places(c)}
<1>1. /\ Len(queue) \in Nat \ {0} /\ Len(queue') = Len(queue) - 1
      /\ serving' = queue[1]
      /\ \A i \in 1..Len(queue') : queue'[i] = queue[i + 1]
  BY DEF TypeOK, Dequeue
<1>2. ASSUME NEW i \in Places(c)' PROVE i \in {j - 1 : j \in Places(c)}
  <2>1. i \in 0..Len(queue') /\ i + 1 \in 1..Len(queue) /\ c = queue[i + 1]
    BY <1>1, <1>2 DEF Places
  <2>2. i + 1 \in Places(c) /\ i = (i + 1) - 1
    BY <1>1, <2>1 DEF Places
  <2> QED
    BY <2>2
<1>3. ASSUME NEW i \in Places(c) PROVE i - 1 \in Places(c)'
  <2>1. i \in 1..Len(queue) /\ c = queue[i]
    BY <1>3 DEF Places
  <2>2. i - 1 \in 0..Len(queue')
    BY <1>1, <2>1
  <2>3. c = IF i - 1 = 0 THEN serving' ELSE queue'[i - 1]
    BY <1>1, <2>1, <2>2
  <2> QED
    BY <2>2, <2>3 DEF Places
<1> QED
  BY <1>2, <1>3

\* Goroutines run only between the start of RunE and the end of the process, and
\* the monitor waits for the worker at one place of its loop.
StartedInv ==
  /\ main \notin {"running", "stopping"} =>
       worker = "none" /\ monitor = "off" /\ \A c \in Caller : request[c] = "idle"
  /\ request["monitor"] # "idle" => monitor = "update"

\* Steps that leave the goroutines alone, unless they start them.
LEMMA StartedUnchanged ==
  ASSUME StartedInv, UNCHANGED <<worker, request, monitor>>,
         main \in {"running", "stopping"} => main' \in {"running", "stopping"}
  PROVE  StartedInv'
BY DEF StartedInv

\* The worker, and those who ask it, run only while the service does.
LEMMA Started ==
  ASSUME TypeOK, StartedInv, [Next]_vars
  PROVE  StartedInv'
<1>0. "monitor" \in Caller
  BY DEF Caller
<1>1. CASE Ends
  BY <1>0, <1>1 DEF Ends, StartedInv
<1>2. CASE Identify
  BY <1>0, <1>2 DEF Identify, StartedInv
<1>3. CASE FindEngine \/ Connect \/ Signal \/ Restart
  BY <1>1, <1>3, StartedUnchanged
     DEF FindEngine, Connect, Signal, Restart, monitorVars, workerVars
<1>4. CASE OnConnect \/ LoseConnection \/ AutoReconnect \/ OtherProcess
  BY <1>4, StartedUnchanged
     DEF OnConnect, LoseConnection, AutoReconnect, OtherProcess, mainVars, monitorVars,
         workerVars
<1>5. CASE Monitor
  <2>1. CASE Subscribe
    BY <1>0, <1>5, <2>1 DEF Monitor, Subscribe, Asks, StartedInv, mainVars, workerVars
  <2>2. CASE Listen \/ Break \/ Wake \/ Reconnect
    BY <1>0, <1>5, <2>2
       DEF Monitor, Listen, Break, Wake, Reconnect, Connected, Unanswered, GivesUp,
           TriesAgain, StartedInv, mainVars, workerVars
  <2> QED
    BY <1>5, <2>1, <2>2 DEF Monitor
<1>6. ASSUME NEW s \in 1..Sockets, SocketChanges(s) PROVE StartedInv'
  BY <1>6, StartedUnchanged DEF SocketChanges, mainVars, workerVars
<1>7. ASSUME NEW c \in Caller, Ticks(c) \/ Submit(c) PROVE StartedInv'
  BY <1>0, <1>7
     DEF Ticks, Submit, Asks, StartedInv, TypeOK, mainVars, monitorVars, workerVars
<1>8. CASE Dispatch \/ Collecting \/ Reading \/ UNCHANGED vars
  BY <1>8, StartedUnchanged
     DEF Dispatch, Collecting, Reading, OthersUnchanged, vars, mainVars, monitorVars,
         workerVars
<1>9. CASE Worker
  <2>1. worker # "none" /\ UNCHANGED <<main, monitor>>
    BY <1>9
       DEF Worker, Receive, DoUpdate, List, UpdateMetrics, mainVars, monitorVars
  <2>2. \A c \in Caller : request'[c] \in {request[c], "idle"}
    BY <1>9
       DEF Worker, Receive, DoUpdate, List, UpdateMetrics, SendResult
  <2> QED
    BY <1>0, <2>1, <2>2 DEF StartedInv
<1> QED
  BY <1>1, <1>2, <1>3, <1>4, <1>5, <1>6, <1>7, <1>8, <1>9
     DEF Next, StartTimesOut, Stop, Crash

\* Whoever waits for the worker has exactly one request, queued or in the worker's
\* hands, and nobody else has one, for any number of callers and any capacity, also
\* with the debouncer's requests in between and across restarts: no answer is lost,
\* and none is given twice.
THEOREM RequestsAreSingle == Spec => []OneRequest
<1>0. "nobody" \notin Caller
  BY DaemonAssumption DEF Caller
<1>1. Init => RequestInv
  BY <1>0 DEF Init, RequestInv, OneRequest, Places
<1>2. TypeOK /\ StartedInv /\ RequestInv /\ [Next]_vars => RequestInv'
  <2> SUFFICES ASSUME TypeOK, StartedInv, RequestInv, [Next]_vars PROVE RequestInv'
    OBVIOUS
  <2>1. CASE Ends
    BY <1>0, <2>1 DEF Ends, RequestInv, OneRequest, Places
  <2>2. CASE Identify
    BY <2>2 DEF Identify, StartedInv, RequestInv, OneRequest, Places
  <2>3. CASE UNCHANGED <<request, workerVars>>
    BY <2>3, RequestsUnchanged DEF workerVars
  <2>4. CASE Subscribe /\ UNCHANGED workerVars
    BY <2>4, AsksKeepsRequests DEF Subscribe, StartedInv, Caller
  <2>5. ASSUME NEW c \in Caller, Ticks(c) PROVE RequestInv'
    BY <2>5, AsksKeepsRequests DEF Ticks
  <2>6. ASSUME NEW c \in Caller, Submit(c) PROVE RequestInv'
    <3>1. ASSUME NEW d \in Caller
          PROVE  /\ request'[d] = IF d = c THEN "wait" ELSE request[d]
                 /\ Places(d)' = Places(d) \cup (IF d = c THEN {Len(queue)'} ELSE {})
      BY <2>6, AppendedIsThere DEF Submit, TypeOK
    <3>2. request[c] = "send" /\ UNCHANGED <<worker, serving>>
          /\ Len(queue') \in Nat /\ Len(queue') = Len(queue) + 1 /\ Len(queue) \in Nat
      BY <2>6 DEF Submit, TypeOK
    <3>3. Places(c) = {}
      BY <3>2 DEF RequestInv, OneRequest
    <3>4. Places(c)' = {Len(queue')} /\ Len(queue') \in 0..Len(queue')
      BY <3>1, <3>2, <3>3
    <3>5. ASSUME NEW d \in Caller, d # c
          PROVE  request'[d] = request[d] /\ Places(d)' = Places(d)
      BY <3>1, <3>5
    <3>6. 0..Len(queue) \subseteq 0..Len(queue')
      BY <3>2
    <3>7. ASSUME NEW d \in Caller
          PROVE  IF request'[d] = "wait" THEN \E i \in 0..Len(queue') : Places(d)' = {i}
                                         ELSE Places(d)' = {}
      <4>1. CASE d = c
        BY <3>1, <3>4, <4>1
      <4>2. CASE d # c
        BY <3>5, <3>6, <4>2 DEF RequestInv, OneRequest
      <4> QED
        BY <4>1, <4>2
    <3> QED
      BY <3>2, <3>7 DEF RequestInv, OneRequest
  <2>7. CASE Dispatch
    <3>1. ASSUME NEW d \in Caller PROVE Places(d)' = Places(d)
      BY <1>0, <2>7, AppendedIsThere DEF Dispatch
    <3>2. UNCHANGED <<request, worker, serving>> /\ Len(queue') = Len(queue) + 1
          /\ Len(queue) \in Nat
      BY <2>7 DEF Dispatch, TypeOK
    <3> QED
      BY <3>1, <3>2 DEF RequestInv, OneRequest
  <2>8. CASE Receive
    <3>1. ASSUME NEW d \in Caller PROVE Places(d)' = {i - 1 : i \in Places(d)}
      BY <1>0, <2>8, ReceivedMovesUp DEF Receive, RequestInv
    <3>2. ASSUME NEW d \in Caller, NEW i \in 0..Len(queue), Places(d) = {i}
          PROVE  i - 1 \in 0..Len(queue')
      <4>1. i # 0
        BY <1>0, <2>8, <3>2 DEF Receive, RequestInv, Places
      <4>2. Len(queue') = Len(queue) - 1 /\ Len(queue) \in Nat
        BY <2>8 DEF Receive, Dequeue, TypeOK
      <4> QED
        BY <4>1, <4>2
    <3>3. request' = request /\ worker' \notin {"none", "select"}
      BY <2>8 DEF Receive
    <3> QED
      BY <3>1, <3>2, <3>3 DEF RequestInv, OneRequest
  <2>9. CASE SendResult
    <3>1. ASSUME NEW d \in Caller
          PROVE  /\ request'[d] = IF d = serving THEN "idle" ELSE request[d]
                 /\ Places(d)' = Places(d) \ {0}
                 /\ d = serving => 0 \in Places(d)
                 /\ d # serving => 0 \notin Places(d)
      <4>1. Len(queue) \in Nat
        BY DEF TypeOK
      <4> QED
        BY <1>0, <2>9, <3>1, <4>1 DEF SendResult, Places
    <3>2. UNCHANGED queue /\ serving' = "nobody"
      BY <2>9 DEF SendResult
    <3> QED
      BY <3>1, <3>2 DEF RequestInv, OneRequest
  <2>10. CASE Worker
    <3>1. CASE UNCHANGED <<request, queue, serving>> /\ worker' = "stats"
      BY <3>1, RequestsUnchanged
    <3> QED
      BY <2>8, <2>9, <2>10, <3>1 DEF Worker, DoUpdate, List, UpdateMetrics
  <2>11. CASE Monitor
    BY <2>3, <2>4, <2>11 DEF Monitor, Listen, Break, Wake, Reconnect
  <2>12. CASE \E s \in 1..Sockets : SocketChanges(s)
    BY <2>3, <2>12 DEF SocketChanges
  <2>13. CASE FindEngine \/ Connect \/ Signal \/ Restart
    BY <2>1, <2>3, <2>13 DEF FindEngine, Connect, Signal, Restart
  <2>14. CASE OnConnect \/ LoseConnection \/ AutoReconnect \/ OtherProcess
    BY <2>3, <2>14 DEF OnConnect, LoseConnection, AutoReconnect, OtherProcess
  <2>15. CASE Collecting \/ Reading \/ UNCHANGED vars
    BY <2>3, <2>15 DEF Collecting, Reading, OthersUnchanged, vars
  <2> QED
    BY <2>1, <2>2, <2>5, <2>6, <2>7, <2>10, <2>11, <2>12, <2>13, <2>14, <2>15
       DEF Next, StartTimesOut, Stop, Crash
<1>3. RequestInv => OneRequest
  BY DEF RequestInv
<1>4. Init => StartedInv
  BY <1>0 DEF Init, StartedInv, Caller
<1>5. TypeOK /\ StartedInv /\ [Next]_vars => StartedInv'
  BY Started
<1> QED
  BY <1>1, <1>2, <1>3, <1>4, <1>5, TypeCorrect, PTL DEF Spec

=============================================================================
