---------------------------- MODULE UpdateQueue ----------------------------
(***************************************************************************)
(* How a request for an update reaches the worker of the application:      *)
(*                                                                         *)
(*   Enqueue --> pending --> queue --> running                             *)
(*                                                                         *)
(* Event driven requests go through the debouncer: they are merged into    *)
(* the one pending request, which a timer callback takes and offers to the *)
(* bounded channel of the worker; when the channel is full the request is  *)
(* dropped.  Update and UpdateMetrics put their request on the channel     *)
(* themselves: they wait for a free slot and then for the result.          *)
(*                                                                         *)
(* This module has the steps on the three variables; Debouncer adds the    *)
(* timers and callbacks, Reconciler adds the work.                         *)
(***************************************************************************)
EXTENDS FilterOptions, Naturals, Sequences

CONSTANTS
  QueueCap,    \* capacity of the worker's channel (8 in the code)
  None         \* nil: no request

ASSUME QueueAssumption ==
  /\ QueueCap \in Nat \ {0}
  /\ None \notin FilterOptions

VARIABLES
  pending,     \* the debouncer's merged request, or None
  queue,       \* the worker's channel
  running      \* the request the worker is processing, or None

queueVars == <<pending, queue, running>>

\* Who waits for the result of a request; nobody does for a debounced one.
Caller == {"nobody", "monitor", "reconcile", "metrics"}

ActionRequest ==
  [action: {"UpdateAll", "UpdateMetrics"}, options: FilterOptions, caller: Caller]

ASSUME RequestAssumption == None \notin ActionRequest

Debounced(fo) ==
  [action |-> "UpdateAll", options |-> fo, caller |-> "nobody"]

QueueTypeOK ==
  /\ pending \in FilterOptions \cup {None}
  /\ queue \in Seq(ActionRequest)
  /\ Len(queue) <= QueueCap
  /\ running \in ActionRequest \cup {None}

QueueInit ==
  /\ pending = None
  /\ queue = <<>>
  /\ running = None

QueueFull == Len(queue) = QueueCap

\* Enqueue, the part on the pending request.  Only UpdateAll requests are ever
\* debounced, so mergeRequests comes down to the merge of their options.
Coalesce(fo) ==
  pending' = IF pending = None THEN fo ELSE MergeFilterOptions(pending, fo)

\* The debouncer's dispatch function, given to it by NewApp: a non-blocking send.
Offer(fo) ==
  queue' = IF QueueFull THEN queue ELSE Append(queue, Debounced(fo))

\* Update and UpdateMetrics: the blocking send.
Submit(request) ==
  /\ ~QueueFull
  /\ queue' = Append(queue, request)
  /\ UNCHANGED <<pending, running>>

\* The worker receives the next request.
Receive ==
  /\ running = None
  /\ queue # <<>>
  /\ running' = Head(queue)
  /\ queue' = Tail(queue)
  /\ UNCHANGED pending

\* The worker has processed the request and delivers its result, if wanted.
Complete ==
  /\ running # None
  /\ running' = None
  /\ UNCHANGED <<pending, queue>>

=============================================================================
