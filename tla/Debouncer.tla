----------------------------- MODULE Debouncer -----------------------------
(***************************************************************************)
(* The update debouncer with its timers.                                   *)
(*                                                                         *)
(* time.AfterFunc runs the callback on a goroutine of its own, so Stop on  *)
(* a timer whose callback has started and waits for the lock does not stop *)
(* it.  A timer is therefore armed, then expired (the callback waits for   *)
(* the lock), then in hand-off (the lock is released, the request not yet  *)
(* sent).  The field d.timer only remembers the last one started.          *)
(*                                                                         *)
(* Time is abstract: an armed timer may expire at any moment.  Timers are  *)
(* named by tickets that are used again once their callback is over.       *)
(***************************************************************************)
EXTENDS UpdateQueue

CONSTANTS
  Ticket,      \* names for the timers and their callbacks
  Cli,         \* the filter of the configuration file
  Source       \* who asks: a subset of RequestSource

RequestSource == {"event", "removal", "full", "health-check", "caller"}

ASSUME DebouncerAssumption ==
  /\ Cli \in FilterOptions
  /\ Source \subseteq RequestSource
  /\ None \notin Ticket

VARIABLES
  timer,       \* d.timer: the ticket of the timer last started, or None
  armed,       \* timers that have not expired
  expired,     \* timers whose callback waits for the lock
  handoff,     \* per callback, the request it took and has not yet dispatched
  wanted,      \* history: containers some request asked to update, and that no
               \* update admits yet (a dropped request gives up on its own)
  wantsFull    \* history: the same for an update without any scope, the only
               \* kind that removes stale services

timerVars == <<timer, armed, expired, handoff>>
vars == <<queueVars, timerVars, wanted, wantsFull>>

\* The containers the configured filter lets through.
Monitored == Admitted(Cli)

\* What the callers of Enqueue ask for: an engine event about a container, the
\* end of a container, a bridge that came online or a retry, and a health check
\* command for one service.
Requests ==
  (IF "event" \in Source THEN {[Cli EXCEPT !.ids = {c}] : c \in Container} ELSE {})
  \cup (IF "removal" \in Source THEN {Cli} ELSE {})
  \cup (IF "full" \in Source THEN {Everything} ELSE {})
  \cup (IF "health-check" \in Source
        THEN {[Everything EXCEPT !.names = {n}] : n \in Name} ELSE {})

TypeOK ==
  /\ QueueTypeOK
  /\ timer \in Ticket \cup {None}
  /\ armed \subseteq Ticket
  /\ expired \subseteq Ticket
  /\ handoff \in [Ticket -> FilterOptions \cup {None}]
  /\ wanted \subseteq Container
  /\ wantsFull \in BOOLEAN

Init ==
  /\ QueueInit
  /\ timer = None
  /\ armed = {}
  /\ expired = {}
  /\ handoff = [t \in Ticket |-> None]
  /\ wanted = {}
  /\ wantsFull = FALSE

\* A faulty variant: the running timer is stopped and none is started.
StopOrStartTimer(t) ==
  /\ timer' = IF pending = None THEN t ELSE None
  /\ armed' = (armed \ {timer}) \cup (IF pending = None THEN {t} ELSE {})

\* Stop the timer last started, if it has not expired, and start a new one.
StartTimer(t) ==
  /\ timer' = t
  /\ armed' = (armed \ {timer}) \cup {t}

\* Enqueue: merge the request with the pending one and start the quiet period
\* anew (ticket t).
Enqueue(t, fo) ==
  /\ t \notin expired /\ handoff[t] = None /\ t \notin armed \ {timer}
  /\ Coalesce(fo)
  /\ StartTimer(t)
  /\ wanted' = wanted \cup (Admitted(fo) \cap Monitored)
  /\ wantsFull' = (wantsFull \/ IsEmpty(fo))
  /\ UNCHANGED <<expired, handoff, queue, running>>

\* The delay of a timer is over: its callback starts and wants the lock.
Expire(t) ==
  /\ t \in armed
  /\ armed' = armed \ {t}
  /\ expired' = expired \cup {t}
  /\ UNCHANGED <<queueVars, timer, handoff, wanted, wantsFull>>

\* fire, between Lock and Unlock.  A callback that finds no pending request has
\* nothing to dispatch.
Fire(t) ==
  /\ t \in expired
  /\ expired' = expired \ {t}
  /\ timer' = None
  /\ handoff' = [handoff EXCEPT ![t] = pending]
  /\ pending' = None
  /\ UNCHANGED <<queue, running, armed, wanted, wantsFull>>

\* fire, after Unlock: dispatch.
Dispatch(t) ==
  /\ handoff[t] # None
  /\ Offer(handoff[t])
  /\ handoff' = [handoff EXCEPT ![t] = None]
  /\ wanted' = IF QueueFull THEN wanted \ Admitted(handoff[t]) ELSE wanted
  /\ wantsFull' = (wantsFull /\ ~(QueueFull /\ IsEmpty(handoff[t])))
  /\ UNCHANGED <<pending, running, timer, armed, expired>>

\* Update (monitor, reconcile loop) and UpdateMetrics (metrics ticker).
Call ==
  /\ "caller" \in Source
  /\ \E action \in {"UpdateAll", "UpdateMetrics"} :
       Submit([action |-> action, options |-> Cli, caller |-> "reconcile"])
  /\ UNCHANGED <<timerVars, wanted, wantsFull>>

\* The worker begins a request.  An update lists the containers after this.
Begin ==
  /\ Receive
  /\ LET update == Head(queue).action = "UpdateAll"
         fo     == Head(queue).options
     IN  /\ wanted' = IF update THEN wanted \ Admitted(fo) ELSE wanted
         /\ wantsFull' = (wantsFull /\ ~(update /\ IsEmpty(fo)))
  /\ UNCHANGED timerVars

Finish == Complete /\ UNCHANGED <<timerVars, wanted, wantsFull>>

Next ==
  \/ \E t \in Ticket : \/ \E fo \in Requests : Enqueue(t, fo)
                       \/ Expire(t)
                       \/ Fire(t)
                       \/ Dispatch(t)
  \/ Call
  \/ Begin
  \/ Finish

\* Timers expire, callbacks and the worker are scheduled, an update ends.  That
\* some timer expires assumes that requests pause for the quiet period now and
\* then: the debouncer has no upper bound on the delay.
Fairness ==
  /\ WF_vars(\E t \in Ticket : Expire(t))
  /\ \A t \in Ticket : WF_vars(Fire(t)) /\ WF_vars(Dispatch(t))
  /\ WF_vars(Begin)
  /\ WF_vars(Finish)

Spec == Init /\ [][Next]_vars
FairSpec == Spec /\ Fairness

-----------------------------------------------------------------------------
(***************************************************************************)
(* Properties                                                              *)
(***************************************************************************)

\* Options of the updates that were asked for and not yet begun.
Outstanding ==
  ({pending} \cup {handoff[t] : t \in Ticket}
     \cup {queue[i].options : i \in {j \in DOMAIN queue : queue[j].action = "UpdateAll"}})
  \ {None}

\* A pending request has a timer: d.timer is set and its callback has not yet
\* run, even when an older callback that Stop came too late for ran in between.
\* Otherwise the request would wait until the next engine event.
PendingHasTimer ==
  pending # None => timer # None /\ timer \in armed \cup expired

\* A container that a request asked for is admitted by some update still to be
\* begun, in whatever way requests were merged, callbacks overtook each other
\* and the queue filled.
NothingForgotten ==
  \A c \in wanted : \E fo \in Outstanding : Admits(fo, c)

\* A request for a full update (the bridge came online, a retry of the cloud
\* sync) leads to an update that removes stale services: it is not absorbed by
\* one that does not.
FullScanKept ==
  wantsFull => \E fo \in Outstanding : IsEmpty(fo)

\* Every container asked for is eventually handed to an update or given up with
\* a request that found the queue full.
EventuallyBegun ==
  \A c \in Container : c \in wanted ~> c \notin wanted

=============================================================================
