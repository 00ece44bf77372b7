------------------------------- MODULE Daemon -------------------------------
(***************************************************************************)
(* The life of the service process (command run): it finds the engine,     *)
(* connects to the broker, starts its goroutines, and stops on a signal.   *)
(* The goroutines (the worker, the monitor's loop, the reconcile loop, the *)
(* metrics of each tick) meet at the worker's queue, at the shutdown       *)
(* channel, and where the worker reads statistics.  Around the process are *)
(* the engine's sockets, the broker, systemd and a second process that     *)
(* runs once.  What an update does is in Reconciler, what the monitor does *)
(* with an event in CrashLoop.                                             *)
(***************************************************************************)
EXTENDS Stats, Sequences

CONSTANTS
  Sockets,        \* the places where a socket is looked for, in order
  Podman,         \* the sockets on which podman answers
  ContainerHost,  \* the configured host, 0 for none
  Attempts,       \* attempts of a reconnect: 5 in the code
  Loop,           \* {"reconcile"}, or {} when its interval is 0
  Tick,           \* the goroutines that refresh metrics at the same time
  QueueSize       \* places in the worker's queue: 8 in the code

ASSUME DaemonAssumption ==
  /\ Sockets \in Nat \ {0}
  /\ Podman \subseteq 1..Sockets
  /\ ContainerHost \in 0..Sockets
  /\ {Attempts, QueueSize} \subseteq Nat \ {0}
  /\ Loop \subseteq {"reconcile"}
  /\ Tick \cap {"monitor", "reconcile", "nobody"} = {}

VARIABLES
  main,       \* where NewApp, then RunE, is
  sockets,    \* "absent", "stale" (a file that nobody serves) or "alive"
  env,        \* DOCKER_HOST and CONTAINER_HOST, and so the socket of the client:
              \* they are set together; 0 before
  host,       \* options.Host of the NewContainerClient that runs
  attempts,   \* its attempts so far
  libpod,     \* its LibPod is set
  monitor,    \* where the monitor's loop is
  stream,     \* the stream of events: "none", "open" or "broken"
  request,    \* each caller of the worker: "idle", "send" or "wait"
  queue,      \* updateRequests: who waits for the answer, or "nobody"
  worker,     \* "none", "select", "update", "metrics" or "stats"
  serving,    \* whose request the worker has
  cancelled,  \* the context of the goroutines
  conn,       \* the broker's connection: "off", "greeting" or "on"
  health,     \* the retained health of the service: "none", "up" or "down"
  once        \* a process that runs once: "none", "on", "ended" or "killed";
              \* "ended" as well once the service has said "up" again

Caller == {"monitor"} \cup Loop \cup Tick

clientVars  == <<env, host, attempts, libpod>>
monitorVars == <<monitor, stream>>
workerVars  == <<queue, worker, serving>>
brokerVars  == <<conn, health, once>>
mainVars    == <<main, cancelled>>
vars == <<mainVars, clientVars, monitorVars, request, workerVars, statsVars,
          brokerVars, sockets>>

SocketState == {"absent", "stale", "alive"}

\* Every variable has its type.
TypeOK ==
  /\ StatsTypeOK
  /\ main \in {"client", "connect", "identity", "running", "stopping", "ended"}
  /\ sockets \in [1..Sockets -> SocketState]
  /\ {env, host} \subseteq 0..Sockets
  /\ attempts \in 0..(Attempts - 1)
  /\ {libpod, cancelled} \subseteq BOOLEAN
  /\ monitor \in {"off", "open", "update", "listen", "sleep", "reconnect", "done"}
  /\ stream \in {"none", "open", "broken"}
  /\ request \in [Caller -> {"idle", "send", "wait"}]
  /\ queue \in Seq(Caller \cup {"nobody"}) /\ Len(queue) <= QueueSize
  /\ worker \in {"none", "select", "update", "metrics", "stats"}
  /\ serving \in Caller \cup {"nobody"}
  /\ conn \in {"off", "greeting", "on"}
  /\ health \in {"none", "up", "down"}
  /\ once \in {"none", "on", "ended", "killed"}

Init ==
  /\ main = "client" /\ cancelled = FALSE
  /\ env = 0 /\ host = ContainerHost /\ attempts = 0 /\ libpod = FALSE
  /\ monitor = "off" /\ stream = "none"
  /\ request = [c \in Caller |-> "idle"] /\ queue = <<>>
  /\ worker = "none" /\ serving = "nobody"
  /\ StatsInit
  /\ sockets \in [1..Sockets -> SocketState]
  /\ conn = "off" /\ health = "none" /\ once = "none"

(***************************************************************************)
(* The engine's client.                                                    *)
(***************************************************************************)

\* findContainerEngineSocket: the variables of the process, or the first
\* socket whose file exists.
Found ==
  LET present == {s \in 1..Sockets : sockets[s] # "absent"}
  IN  IF env # 0 THEN env
      ELSE IF present = {} THEN 0
      ELSE CHOOSE s \in present : \A t \in present : s <= t

\* The host that is found first stays in the options for the next attempts.
Looked == IF host # 0 THEN host ELSE Found

Answers == Looked # 0 /\ ~cancelled /\ sockets[Looked] = "alive"

\* NewContainerClient ends; the next one starts from the configured host.
Forgotten == host' = ContainerHost /\ attempts' = 0

\* newContainerClient: the engine answers, and only now are the variables of
\* the process set.  The probe for libpod may fail without an effect but this.
Connected ==
  /\ Answers
  /\ env' = Looked
  /\ libpod' \in (IF Looked \in Podman THEN BOOLEAN ELSE {FALSE})
  /\ Forgotten

Unanswered == ~Answers /\ UNCHANGED <<env, libpod>>

(***************************************************************************)
(* NewApp, RunE and Stop.                                                  *)
(***************************************************************************)

\* The process is gone; the broker publishes its will unless it disconnected,
\* which the service never does.
Ends ==
  /\ main' = "ended" /\ cancelled' = FALSE
  /\ env' = 0 /\ libpod' = FALSE /\ Forgotten
  /\ monitor' = "off" /\ stream' = "none"
  /\ request' = [c \in Caller |-> "idle"] /\ queue' = <<>>
  /\ worker' = "none" /\ serving' = "nobody"
  /\ Returned
  /\ conn' = "off"
  /\ health' = IF conn = "off" THEN health ELSE "down"
  /\ UNCHANGED <<once, sockets>>

\* NewApp tries without end...
FindEngine ==
  /\ main = "client"
  /\ \/ Connected /\ main' = "connect"
     \/ Unanswered /\ host' = Looked /\ UNCHANGED <<main, attempts>>
  /\ UNCHANGED <<cancelled, monitorVars, request, workerVars, statsVars,
                 brokerVars, sockets>>

\* ... until its context of 300 seconds is over.
StartTimesOut == main = "client" /\ ~Answers /\ Ends

\* The registration before it is only logged when it fails.
Connect ==
  /\ main = "connect"
  /\ \/ /\ main' = "identity" /\ conn' = "greeting"
        /\ UNCHANGED <<cancelled, clientVars, monitorVars, request, workerVars,
                       statsVars, health, once, sockets>>
     \/ Ends

\* The external id is known, at once or after any number of calls; then the
\* worker, and RunE's goroutines, start.
Identify ==
  /\ main = "identity"
  /\ main' = "running" /\ worker' = "select" /\ monitor' = "open"
  /\ UNCHANGED <<cancelled, clientVars, stream, request, queue, serving,
                 statsVars, brokerVars, sockets>>

Signal ==
  /\ main = "running"
  /\ main' = "stopping" /\ cancelled' = TRUE
  /\ UNCHANGED <<clientVars, monitorVars, request, workerVars, statsVars,
                 brokerVars, sockets>>

\* Stop: the worker takes the shutdown when it is in its select, and returns.
Stop == main = "stopping" /\ worker = "select" /\ Ends

Crash == main # "ended" /\ Ends

\* systemd: Restart=always.
Restart ==
  /\ main = "ended"
  /\ main' = "client"
  /\ UNCHANGED <<cancelled, clientVars, monitorVars, request, workerVars,
                 statsVars, brokerVars, sockets>>

(***************************************************************************)
(* The broker.                                                             *)
(***************************************************************************)

\* The handler of each connection: subscribe, and publish that it is up.
OnConnect ==
  /\ conn = "greeting"
  /\ conn' = "on" /\ health' = "up"
  /\ once' = IF once = "killed" THEN "ended" ELSE once
  /\ UNCHANGED <<mainVars, clientVars, monitorVars, request,
                 workerVars, statsVars, sockets>>

LoseConnection ==
  /\ conn # "off"
  /\ conn' = "off" /\ health' = "down"
  /\ UNCHANGED <<once, mainVars, clientVars, monitorVars, request,
                 workerVars, statsVars, sockets>>

\* SetAutoReconnect.
AutoReconnect ==
  /\ conn = "off" /\ main \in {"identity", "running", "stopping"}
  /\ conn' = "greeting"
  /\ UNCHANGED <<health, once, mainVars, clientVars, monitorVars,
                 request, workerVars, statsVars, sockets>>

\* A process that runs once has a client id of its own, and the same health.
RunOnce ==
  /\ once = "none"
  /\ once' = "on" /\ health' = "up"
  /\ UNCHANGED conn

\* A faulty variant: a run that ends does not disconnect first.
StopOnly == once' = "ended" /\ health' = "down" /\ UNCHANGED conn

\* Stop(true) disconnects, so that the broker keeps its will to itself.
CleanStop == once' = "ended" /\ UNCHANGED <<conn, health>>

StopOnce == once = "on" /\ CleanStop

KillOnce ==
  /\ once = "on"
  /\ once' = "killed" /\ health' = "down"
  /\ UNCHANGED conn

OtherProcess ==
  /\ RunOnce \/ StopOnce \/ KillOnce
  /\ UNCHANGED <<mainVars, clientVars, monitorVars, request, workerVars, statsVars,
                 sockets>>

(***************************************************************************)
(* The monitor's loop.                                                     *)
(***************************************************************************)

Asks(c) == request' = [request EXCEPT ![c] = "send"]

\* Monitor: subscribe to the events, and ask for an update.
Subscribe ==
  /\ monitor = "open"
  /\ stream' = IF sockets[env] = "alive" /\ ~cancelled THEN "open" ELSE "broken"
  /\ monitor' = "update" /\ Asks("monitor")
  /\ UNCHANGED clientVars

Listen ==
  /\ monitor = "update" /\ request["monitor"] = "idle"
  /\ monitor' = "listen"
  /\ UNCHANGED <<stream, request, clientVars>>

\* The select has a choice when the context is cancelled: libpod's Events closes
\* the channel of errors as well, and that reads as a broken stream.
Break ==
  /\ monitor = "listen"
  /\ \/ cancelled /\ monitor' = "done"
     \/ (stream = "broken" \/ (cancelled /\ libpod)) /\ monitor' = "sleep"
  /\ stream' = "none"
  /\ UNCHANGED <<request, clientVars>>

Wake ==
  /\ monitor = "sleep"
  /\ monitor' = "reconnect"
  /\ UNCHANGED <<stream, request, clientVars>>

\* A faulty variant: the loop ends when a reconnect fails.
Quits == monitor' = "done" /\ Forgotten

\* A reconnect that fails is logged, and the loop goes on with the old client.
GivesUp == monitor' = "open" /\ Forgotten

TriesAgain == host' = Looked /\ attempts' = attempts + 1 /\ UNCHANGED monitor

\* A faulty variant: there is one attempt too many.
OneMoreAttempt == cancelled \/ attempts >= Attempts

LastAttempt == cancelled \/ attempts + 1 >= Attempts

Reconnect ==
  /\ monitor = "reconnect"
  /\ \/ Connected /\ monitor' = "open"
     \/ Unanswered /\ (IF LastAttempt THEN GivesUp ELSE TriesAgain)
  /\ UNCHANGED <<stream, request>>

Monitor ==
  /\ Subscribe \/ Listen \/ Break \/ Wake \/ Reconnect
  /\ UNCHANGED <<mainVars, workerVars, statsVars, brokerVars, sockets>>

\* The engine's sockets come and go, and take the stream with them.
SocketChanges(s) ==
  /\ \E state \in SocketState \ {sockets[s]} : sockets' = [sockets EXCEPT ![s] = state]
  /\ stream' = IF stream = "open" /\ env = s THEN "broken" ELSE stream
  /\ UNCHANGED <<mainVars, clientVars, monitor, request, workerVars, statsVars, brokerVars>>

(***************************************************************************)
(* The worker and those who ask it.                                        *)
(***************************************************************************)

\* The reconcile loop asks and waits; each tick of the metrics has a goroutine.
Ticks(c) ==
  /\ c # "monitor" /\ main = "running" /\ request[c] = "idle"
  /\ Asks(c)
  /\ UNCHANGED <<mainVars, clientVars, monitorVars, workerVars, statsVars,
                 brokerVars, sockets>>

\* Update and UpdateMetrics: block until the queue has a place.
Submit(c) ==
  /\ request[c] = "send" /\ Len(queue) < QueueSize
  /\ queue' = Append(queue, c)
  /\ request' = [request EXCEPT ![c] = "wait"]
  /\ UNCHANGED <<mainVars, clientVars, monitorVars, worker, serving, statsVars,
                 brokerVars, sockets>>

\* The debouncer's request, which is dropped when the queue is full.
Dispatch ==
  /\ main \in {"running", "stopping"} /\ Len(queue) < QueueSize
  /\ queue' = Append(queue, "nobody")
  /\ UNCHANGED <<mainVars, clientVars, monitorVars, request, worker, serving,
                 statsVars, brokerVars, sockets>>

Dequeue == serving' = Head(queue) /\ queue' = Tail(queue)

Receive ==
  /\ worker = "select" /\ queue # <<>>
  /\ Dequeue
  /\ worker' = IF Head(queue) \in Tick THEN "metrics" ELSE "update"
  /\ UNCHANGED <<request, statsVars>>

\* A faulty variant: a failure returns before the result is sent.
SendNoResult == serving' = "nobody" /\ worker' = "select" /\ UNCHANGED <<request, queue>>

\* sendResult, whether the work failed or not.
SendResult ==
  /\ request' = [c \in Caller |-> IF c = serving THEN "idle" ELSE request[c]]
  /\ serving' = "nobody" /\ worker' = "select"
  /\ UNCHANGED queue

DoUpdate == worker = "update" /\ SendResult /\ UNCHANGED statsVars

\* The list fails, or has nothing whose entity is registered; or there are
\* statistics to read (of one container: the readers share nothing).
List ==
  /\ worker = "metrics"
  /\ \/ SendResult /\ UNCHANGED statsVars
     \/ GetStats /\ worker' = "stats" /\ UNCHANGED <<request, queue, serving>>

UpdateMetrics == worker = "stats" /\ call = "none" /\ SendResult /\ UNCHANGED statsVars

Worker ==
  /\ Receive \/ DoUpdate \/ List \/ UpdateMetrics
  /\ UNCHANGED <<mainVars, clientVars, monitorVars, brokerVars, sockets>>

OthersUnchanged ==
  UNCHANGED <<mainVars, clientVars, monitorVars, request, workerVars, brokerVars, sockets>>

Collecting == Collect /\ OthersUnchanged
Reading    == Read /\ OthersUnchanged

Next ==
  \/ FindEngine \/ StartTimesOut \/ Connect \/ Identify \/ Signal \/ Stop
  \/ Crash \/ Restart
  \/ OnConnect \/ LoseConnection \/ AutoReconnect \/ OtherProcess
  \/ Monitor
  \/ \E s \in 1..Sockets : SocketChanges(s)
  \/ \E c \in Caller : Ticks(c) \/ Submit(c)
  \/ Dispatch \/ Worker
  \/ Collecting \/ Reading

Spec == Init /\ [][Next]_vars

\* Each goroutine goes on when it can.  A caller that is blocked at the queue is
\* served in order (Go wakes them first in, first out), and the worker's select
\* chooses among its channels at random, so it takes the shutdown in the end.
Fairness ==
  /\ WF_vars(Monitor) /\ WF_vars(Worker)
  /\ WF_vars(Collecting) /\ WF_vars(Reading)
  /\ SF_vars(Stop)
  /\ \A c \in Caller : SF_vars(Submit(c))

FairSpec == Spec /\ Fairness

(***************************************************************************)
(* Properties.                                                             *)
(***************************************************************************)

\* While the service runs and its connection is greeted, its retained health
\* is "up", whatever a process that runs once next to it does (unless that one
\* is killed); and when the service is gone it is not left "up".
HealthShown ==
  /\ main = "running" /\ conn = "on" /\ once # "killed" => health = "up"
  /\ main = "ended" /\ once = "none" => health # "up"

\* Where requests of a caller are: at a place of the queue, or at 0 in the hands of
\* the worker.
Places(c) == {i \in 0..Len(queue) : c = IF i = 0 THEN serving ELSE queue[i]}

\* Whoever waits for the worker has one request, queued or in its hands, and no
\* other caller has any: the answer of each update and of each reading of metrics
\* goes to the goroutine that is blocked for it, and to nobody twice.
OneRequest ==
  \A c \in Caller :
    IF request[c] = "wait" THEN \E i \in 0..Len(queue) : Places(c) = {i} ELSE Places(c) = {}

\* Whoever asks the worker is answered while the service runs.  A broken stream
\* is followed by another one, when the socket that was found first answers
\* again.  And a signal ends the process, whatever is queued.
GoesOn ==
  /\ \A c \in Caller : request[c] # "idle" ~> request[c] = "idle" \/ main # "running"
  /\ main = "running" ~>
       (monitor = "listen" /\ stream = "open") \/ main # "running" \/ sockets[env] # "alive"
  /\ main = "stopping" ~> main = "ended"

=============================================================================
