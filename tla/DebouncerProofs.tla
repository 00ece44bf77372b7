--------------------------- MODULE DebouncerProofs ---------------------------
(***************************************************************************)
(* Theorems about the update debouncer, for any number of containers,      *)
(* timers and requests, and any capacity of the worker's channel.          *)
(***************************************************************************)
EXTENDS Debouncer, TLAPS

-----------------------------------------------------------------------------
(***************************************************************************)
(* The queue                                                               *)
(***************************************************************************)

\* A merged filter is a filter (mergeFilterOptions).
LEMMA MergeTyped ==
  ASSUME NEW a \in FilterOptions, NEW b \in FilterOptions
  PROVE  MergeFilterOptions(a, b) \in FilterOptions
BY DEF MergeFilterOptions, FilterOptions

\* Offer, the non-blocking send, keeps the channel within its capacity.
LEMMA OfferTyped ==
  ASSUME QueueTypeOK, NEW fo \in FilterOptions, Offer(fo)
  PROVE  queue' \in Seq(ActionRequest) /\ Len(queue') <= QueueCap
<1>1. Debounced(fo) \in ActionRequest
  BY DEF Debounced, ActionRequest, Caller
<1> QED
  BY <1>1, QueueAssumption DEF QueueTypeOK, Offer, QueueFull

\* The blocking send waits for a free slot.
LEMMA SubmitTyped ==
  ASSUME QueueTypeOK, NEW request \in ActionRequest, Submit(request)
  PROVE  QueueTypeOK'
BY QueueAssumption DEF QueueTypeOK, Submit, QueueFull

\* Receiving keeps the types.
LEMMA ReceiveTyped ==
  ASSUME QueueTypeOK, Receive
  PROVE  /\ QueueTypeOK'
         /\ Head(queue) \in ActionRequest
         /\ running' = Head(queue)
BY QueueAssumption DEF QueueTypeOK, Receive

-----------------------------------------------------------------------------
(***************************************************************************)
(* Filters                                                                 *)
(***************************************************************************)

\* What the callers of Enqueue ask for are filters.
LEMMA RequestsTyped == Requests \subseteq FilterOptions
<1> SUFFICES ASSUME NEW fo \in Requests PROVE fo \in FilterOptions
  OBVIOUS
<1>1. Cli \in FilterOptions
  BY DebouncerAssumption
<1>2. Everything \in FilterOptions
  BY DEF Everything, FilterOptions
<1>3. CASE \E c \in Container : fo = [Cli EXCEPT !.ids = {c}]
  BY <1>1, <1>3 DEF FilterOptions
<1>4. CASE \E n \in Name : fo = [Everything EXCEPT !.names = {n}]
  BY <1>2, <1>4 DEF FilterOptions
<1> QED
  BY <1>1, <1>2, <1>3, <1>4 DEF Requests

-----------------------------------------------------------------------------
(***************************************************************************)
(* Types                                                                   *)
(***************************************************************************)

\* The state of the debouncer and of the worker's channel stays of its type; in
\* particular the channel never holds more than its capacity.
THEOREM TypeCorrect == Spec => []TypeOK
<1>1. Init => TypeOK
  <2> SUFFICES ASSUME Init PROVE TypeOK
    OBVIOUS
  <2>1. queue \in Seq(ActionRequest) /\ Len(queue) <= QueueCap
    BY QueueAssumption DEF Init, QueueInit
  <2>2. pending \in FilterOptions \cup {None} /\ running \in ActionRequest \cup {None}
    BY DEF Init, QueueInit
  <2> QED
    BY <2>1, <2>2 DEF Init, TypeOK, QueueTypeOK
<1>2. TypeOK /\ [Next]_vars => TypeOK'
  <2> SUFFICES ASSUME TypeOK, [Next]_vars PROVE TypeOK'
    OBVIOUS
  <2> USE DEF TypeOK
  <2>1. ASSUME NEW t \in Ticket, NEW fo \in Requests, Enqueue(t, fo) PROVE TypeOK'
    <3>1. fo \in FilterOptions
      BY RequestsTyped
    <3>2. pending' \in FilterOptions \cup {None}
      BY <2>1, <3>1, MergeTyped DEF Enqueue, Coalesce, QueueTypeOK
    <3>3. wantsFull' \in BOOLEAN
      BY <2>1 DEF Enqueue
    <3>4. wanted' \subseteq Container
      BY <2>1 DEF Enqueue, Admitted
    <3>5. timer' \in Ticket \cup {None} /\ armed' \subseteq Ticket
      BY <2>1 DEF Enqueue, StartTimer
    <3> QED
      BY <2>1, <3>2, <3>3, <3>4, <3>5 DEF Enqueue, QueueTypeOK
  <2>2. ASSUME NEW t \in Ticket, Expire(t) PROVE TypeOK'
    BY <2>2 DEF Expire, queueVars, QueueTypeOK
  <2>3. ASSUME NEW t \in Ticket, Fire(t) PROVE TypeOK'
    BY <2>3 DEF Fire, QueueTypeOK
  <2>4. ASSUME NEW t \in Ticket, Dispatch(t) PROVE TypeOK'
    <3>1. handoff[t] \in FilterOptions
      BY <2>4 DEF Dispatch
    <3>2. queue' \in Seq(ActionRequest) /\ Len(queue') <= QueueCap
      BY <2>4, <3>1, OfferTyped DEF Dispatch
    <3> QED
      BY <2>4, <3>2 DEF Dispatch, QueueTypeOK
  <2>5. ASSUME Call PROVE TypeOK'
    <3>1. PICK action \in {"UpdateAll", "UpdateMetrics"} :
            Submit([action |-> action, options |-> Cli, caller |-> "reconcile"])
      BY <2>5 DEF Call
    <3>2. [action |-> action, options |-> Cli, caller |-> "reconcile"] \in ActionRequest
      BY DebouncerAssumption DEF ActionRequest, Caller
    <3>3. QueueTypeOK'
      BY <3>1, <3>2, SubmitTyped
    <3> QED
      BY <2>5, <3>3 DEF Call, timerVars
  <2>6. ASSUME Begin PROVE TypeOK'
    <3>1. QueueTypeOK'
      BY <2>6, ReceiveTyped DEF Begin
    <3> QED
      BY <2>6, <3>1 DEF Begin, timerVars
  <2>7. ASSUME Finish PROVE TypeOK'
    BY <2>7 DEF Finish, Complete, timerVars, QueueTypeOK
  <2>8. ASSUME UNCHANGED vars PROVE TypeOK'
    BY <2>8 DEF vars, queueVars, timerVars, QueueTypeOK
  <2> QED
    BY <2>1, <2>2, <2>3, <2>4, <2>5, <2>6, <2>7, <2>8 DEF Next
<1> QED
  BY <1>1, <1>2, PTL DEF Spec

-----------------------------------------------------------------------------
(***************************************************************************)
(* A pending request has a timer                                           *)
(***************************************************************************)

\* A pending request always has a timer whose callback is still to run, so that
\* it is dispatched without waiting for another event: Enqueue starts one even
\* when Stop came too late for the last one, and fire takes the request along.
THEOREM PendingIsTimed == Spec => []PendingHasTimer
<1>1. Init => PendingHasTimer
  BY DEF Init, QueueInit, PendingHasTimer
<1>2. TypeOK /\ PendingHasTimer /\ [Next]_vars => PendingHasTimer'
  <2> SUFFICES ASSUME TypeOK, PendingHasTimer, [Next]_vars PROVE PendingHasTimer'
    OBVIOUS
  <2> USE DEF PendingHasTimer
  <2>1. ASSUME NEW t \in Ticket, NEW fo \in Requests, Enqueue(t, fo)
        PROVE  PendingHasTimer'
    BY <2>1, DebouncerAssumption DEF Enqueue, StartTimer
  <2>2. ASSUME NEW t \in Ticket, Expire(t) PROVE PendingHasTimer'
    BY <2>2 DEF Expire, queueVars
  <2>3. ASSUME NEW t \in Ticket, Fire(t) PROVE PendingHasTimer'
    BY <2>3 DEF Fire
  <2>4. ASSUME NEW t \in Ticket, Dispatch(t) PROVE PendingHasTimer'
    BY <2>4 DEF Dispatch
  <2>5. CASE Call
    BY <2>5 DEF Call, Submit, timerVars
  <2>6. CASE Begin
    BY <2>6 DEF Begin, Receive, timerVars
  <2>7. CASE Finish
    BY <2>7 DEF Finish, Complete, timerVars
  <2>8. CASE UNCHANGED vars
    BY <2>8 DEF vars, queueVars, timerVars
  <2> QED
    BY <2>1, <2>2, <2>3, <2>4, <2>5, <2>6, <2>7, <2>8 DEF Next
<1> QED
  BY <1>1, <1>2, TypeCorrect, PTL DEF Spec

-----------------------------------------------------------------------------
(***************************************************************************)
(* Nothing asked for is forgotten                                          *)
(*                                                                         *)
(* The argument follows a request from Enqueue to the worker: lemma Steps  *)
(* says how a step changes the set of outstanding filters, and the lemmas  *)
(* on MergeFilterOptions that a merge admits what its parts admit.         *)
(***************************************************************************)

\* Options of the full updates in a queue.
Asked(q) == {q[i].options : i \in {j \in DOMAIN q : q[j].action = "UpdateAll"}}

OptionsOf(request) == IF request.action = "UpdateAll" THEN {request.options} ELSE {}

\* What a queue asks for, with one more request.
LEMMA AskedAppend ==
  ASSUME NEW q \in Seq(ActionRequest), NEW request \in ActionRequest
  PROVE  Asked(Append(q, request)) = Asked(q) \cup OptionsOf(request)
<1> DEFINE r == Append(q, request)
<1>1. /\ DOMAIN r = 1..(Len(q) + 1)
      /\ DOMAIN q = 1..Len(q)
      /\ \A i \in 1..Len(q) : r[i] = q[i]
      /\ r[Len(q) + 1] = request
      /\ Len(q) \in Nat
  OBVIOUS
<1>2. ASSUME NEW fo \in Asked(r) PROVE fo \in Asked(q) \cup OptionsOf(request)
  <2>1. PICK i \in DOMAIN r : r[i].action = "UpdateAll" /\ fo = r[i].options
    BY DEF Asked
  <2>2. i \in DOMAIN q \/ i = Len(q) + 1
    BY <1>1
  <2> QED
    BY <1>1, <2>1, <2>2 DEF Asked, OptionsOf
<1>3. ASSUME NEW fo \in Asked(q) PROVE fo \in Asked(r)
  <2>1. PICK i \in DOMAIN q : q[i].action = "UpdateAll" /\ fo = q[i].options
    BY DEF Asked
  <2> QED
    BY <1>1, <2>1 DEF Asked
<1>4. ASSUME NEW fo \in OptionsOf(request) PROVE fo \in Asked(r)
  BY <1>1 DEF Asked, OptionsOf
<1> QED
  BY <1>2, <1>3, <1>4

\* What a queue asks for, with its first request taken.
LEMMA AskedTail ==
  ASSUME NEW q \in Seq(ActionRequest), q # <<>>
  PROVE  Asked(q) = Asked(Tail(q)) \cup OptionsOf(Head(q))
<1> DEFINE r == Tail(q)
<1>1. /\ DOMAIN q = 1..Len(q)
      /\ DOMAIN r = 1..(Len(q) - 1)
      /\ \A i \in 1..(Len(q) - 1) : r[i] = q[i + 1]
      /\ Head(q) = q[1]
      /\ Len(q) \in Nat /\ Len(q) >= 1
  OBVIOUS
<1>2. ASSUME NEW fo \in Asked(q) PROVE fo \in Asked(r) \cup OptionsOf(Head(q))
  <2>1. PICK i \in DOMAIN q : q[i].action = "UpdateAll" /\ fo = q[i].options
    BY DEF Asked
  <2>2. CASE i = 1
    BY <1>1, <2>1, <2>2 DEF OptionsOf
  <2>3. CASE i # 1
    <3>1. i - 1 \in DOMAIN r /\ r[i - 1] = q[i]
      BY <1>1, <2>3
    <3> QED
      BY <2>1, <3>1 DEF Asked
  <2> QED
    BY <2>2, <2>3
<1>3. ASSUME NEW fo \in Asked(r) PROVE fo \in Asked(q)
  <2>1. PICK i \in DOMAIN r : r[i].action = "UpdateAll" /\ fo = r[i].options
    BY DEF Asked
  <2>2. i + 1 \in DOMAIN q /\ q[i + 1] = r[i]
    BY <1>1
  <2> QED
    BY <2>1, <2>2 DEF Asked
<1>4. ASSUME NEW fo \in OptionsOf(Head(q)) PROVE fo \in Asked(q)
  BY <1>1 DEF Asked, OptionsOf
<1> QED
  BY <1>2, <1>3, <1>4

\* A ticket in use by a timer is not used by a callback that dispatches.
TicketsApart ==
  /\ armed \cap expired = {}
  /\ \A t \in armed \cup expired : handoff[t] = None

\* A ticket is in one place at a time.
LEMMA TicketsStayApart == Spec => []TicketsApart
<1>1. Init => TicketsApart
  BY DEF Init, TicketsApart
<1>2. TypeOK /\ TicketsApart /\ [Next]_vars => TicketsApart'
  <2> SUFFICES ASSUME TypeOK, TicketsApart, [Next]_vars PROVE TicketsApart'
    OBVIOUS
  <2> USE DEF TicketsApart
  <2>1. ASSUME NEW t \in Ticket, NEW fo \in Requests, Enqueue(t, fo) PROVE TicketsApart'
    BY <2>1 DEF Enqueue, StartTimer
  <2>2. ASSUME NEW t \in Ticket, Expire(t) PROVE TicketsApart'
    BY <2>2 DEF Expire
  <2>3. ASSUME NEW t \in Ticket, Fire(t) PROVE TicketsApart'
    BY <2>3 DEF Fire, TypeOK
  <2>4. ASSUME NEW t \in Ticket, Dispatch(t) PROVE TicketsApart'
    BY <2>4 DEF Dispatch, TypeOK
  <2>5. CASE Call
    BY <2>5 DEF Call, timerVars
  <2>6. CASE Begin
    BY <2>6 DEF Begin, timerVars
  <2>7. CASE Finish
    BY <2>7 DEF Finish, timerVars
  <2>8. CASE UNCHANGED vars
    BY <2>8 DEF vars, timerVars
  <2> QED
    BY <2>1, <2>2, <2>3, <2>4, <2>5, <2>6, <2>7, <2>8 DEF Next
<1> QED
  BY <1>1, <1>2, TypeCorrect, PTL DEF Spec

\* What a step may do to the outstanding filters and to what is wanted of them.
Asks(fo) ==
  /\ pending' = IF pending = None THEN fo ELSE MergeFilterOptions(pending, fo)
  /\ Outstanding \subseteq Outstanding' \cup {pending}
  /\ Outstanding' \subseteq Outstanding \cup {pending'}
  /\ pending' \in Outstanding'
  /\ wanted' = wanted \cup (Admitted(fo) \cap Monitored)
  /\ wantsFull' = (wantsFull \/ IsEmpty(fo))

Settles(fo) ==
  /\ Outstanding \subseteq Outstanding' \cup {fo}
  /\ Outstanding' \subseteq Outstanding
  /\ wanted' = wanted \ Admitted(fo)
  /\ wantsFull' = (wantsFull /\ ~IsEmpty(fo))

Keeps ==
  /\ Outstanding \subseteq Outstanding'
  /\ Outstanding' \subseteq Outstanding \cup {Cli}
  /\ wanted' = wanted
  /\ wantsFull' = wantsFull

\* Every step keeps what was asked for outstanding.
LEMMA Steps ==
  ASSUME TypeOK, TicketsApart, [Next]_vars
  PROVE  \/ \E fo \in Requests : Asks(fo)
         \/ \E fo \in FilterOptions : Settles(fo)
         \/ Keeps
<1> DEFINE Taken == {handoff[t] : t \in Ticket}
<1>0. Outstanding = ({pending} \cup Taken \cup Asked(queue)) \ {None}
  BY DEF Outstanding, Asked
<1>1. ASSUME NEW t \in Ticket, NEW fo \in Requests, Enqueue(t, fo) PROVE Asks(fo)
  <2>1. pending' = IF pending = None THEN fo ELSE MergeFilterOptions(pending, fo)
    BY <1>1 DEF Enqueue, Coalesce
  <2>2. pending' # None
    BY <2>1, RequestsTyped, MergeTyped, QueueAssumption DEF TypeOK, QueueTypeOK
  <2>3. Outstanding' = ({pending'} \cup Taken \cup Asked(queue)) \ {None}
    BY <1>1 DEF Outstanding, Enqueue, Asked
  <2> QED
    BY <1>0, <1>1, <2>1, <2>2, <2>3 DEF Asks, Enqueue
<1>2. ASSUME NEW t \in Ticket, Expire(t) PROVE Keeps
  BY <1>2 DEF Expire, queueVars, Outstanding, Keeps
<1>3. ASSUME NEW t \in Ticket, Fire(t) PROVE Keeps
  <2>1. handoff[t] = None /\ handoff'[t] = pending /\ pending' = None
    BY <1>3 DEF Fire, TicketsApart, TypeOK
  <2>2. \A u \in Ticket \ {t} : handoff'[u] = handoff[u]
    BY <1>3 DEF Fire, TypeOK
  <2>3. {handoff'[u] : u \in Ticket} = {pending} \cup {handoff[u] : u \in Ticket \ {t}}
    BY <2>1, <2>2
  <2>4. Taken = {None} \cup {handoff[u] : u \in Ticket \ {t}}
    BY <2>1
  <2>5. Outstanding' = ({None} \cup {handoff'[u] : u \in Ticket} \cup Asked(queue)) \ {None}
    BY <1>3, <2>1 DEF Outstanding, Fire, Asked
  <2>6. Outstanding' = Outstanding
    BY <1>0, <2>3, <2>4, <2>5
  <2> QED
    BY <1>3, <2>6 DEF Fire, Keeps
<1>4. ASSUME NEW t \in Ticket, Dispatch(t) PROVE Settles(handoff[t]) \/ Keeps
  <2>1. /\ handoff'[t] = None
        /\ \A u \in Ticket \ {t} : handoff'[u] = handoff[u]
        /\ handoff[t] \in FilterOptions
    BY <1>4 DEF Dispatch, TypeOK
  <2>2. Taken = {handoff[t]} \cup {handoff[u] : u \in Ticket \ {t}}
    OBVIOUS
  <2>3. {handoff'[u] : u \in Ticket} = {None} \cup {handoff[u] : u \in Ticket \ {t}}
    BY <2>1
  <2>4. Outstanding' = ({pending} \cup {handoff'[u] : u \in Ticket} \cup Asked(queue')) \ {None}
    BY <1>4 DEF Outstanding, Dispatch, Asked
  <2>5. CASE QueueFull
    <3>1. Asked(queue') = Asked(queue)
      BY <1>4, <2>5 DEF Dispatch, Offer
    <3>2. Outstanding \subseteq Outstanding' \cup {handoff[t]} /\ Outstanding' \subseteq Outstanding
      BY <1>0, <2>2, <2>3, <2>4, <3>1
    <3>3. wanted' = wanted \ Admitted(handoff[t])
      BY <1>4, <2>5 DEF Dispatch
    <3>4. wantsFull' = (wantsFull /\ ~IsEmpty(handoff[t]))
      BY <1>4, <2>5 DEF Dispatch
    <3> QED
      BY <3>2, <3>3, <3>4 DEF Settles
  <2>6. CASE ~QueueFull
    <3>1. Debounced(handoff[t]) \in ActionRequest
      BY <2>1 DEF Debounced, ActionRequest, Caller
    <3>2. Asked(queue') = Asked(queue) \cup {handoff[t]}
      BY <1>4, <2>6, <3>1, AskedAppend
         DEF Dispatch, Offer, TypeOK, QueueTypeOK, OptionsOf, Debounced
    <3>3. Outstanding' = Outstanding
      BY <1>0, <2>2, <2>3, <2>4, <3>2
    <3>4. wanted' = wanted /\ wantsFull' = (wantsFull /\ ~FALSE)
      BY <1>4, <2>6 DEF Dispatch
    <3>5. wantsFull' = wantsFull
      BY <3>4 DEF TypeOK
    <3> QED
      BY <3>3, <3>4, <3>5 DEF Keeps
  <2> QED
    BY <2>5, <2>6
<1>5. ASSUME Call PROVE Keeps
  <2>1. PICK action \in {"UpdateAll", "UpdateMetrics"} :
          Submit([action |-> action, options |-> Cli, caller |-> "reconcile"])
    BY <1>5 DEF Call
  <2>2. [action |-> action, options |-> Cli, caller |-> "reconcile"] \in ActionRequest
    BY DebouncerAssumption DEF ActionRequest, Caller
  <2>3. Asked(queue') = Asked(queue)
          \cup OptionsOf([action |-> action, options |-> Cli, caller |-> "reconcile"])
    BY <2>1, <2>2, AskedAppend DEF Submit, TypeOK, QueueTypeOK
  <2>4. OptionsOf([action |-> action, options |-> Cli, caller |-> "reconcile"]) \subseteq {Cli}
    BY DEF OptionsOf
  <2>5. Cli # None
    BY DebouncerAssumption, QueueAssumption
  <2>6. Outstanding' = ({pending} \cup Taken \cup Asked(queue')) \ {None}
    BY <1>5, <2>1 DEF Call, Submit, timerVars, Outstanding, Asked
  <2>7. Outstanding \subseteq Outstanding' /\ Outstanding' \subseteq Outstanding \cup {Cli}
    BY <1>0, <2>3, <2>4, <2>5, <2>6
  <2> QED
    BY <1>5, <2>7 DEF Call, Keeps
<1>6. ASSUME Begin PROVE (\E fo \in FilterOptions : Settles(fo)) \/ Keeps
  <2>1. /\ queue # <<>> /\ queue \in Seq(ActionRequest) /\ queue' = Tail(queue)
        /\ Head(queue) \in ActionRequest
    BY <1>6 DEF Begin, Receive, TypeOK, QueueTypeOK
  <2>2. Asked(queue) = Asked(queue') \cup OptionsOf(Head(queue))
    BY <2>1, AskedTail
  <2>3. Outstanding' = ({pending} \cup Taken \cup Asked(queue')) \ {None}
    BY <1>6 DEF Begin, Receive, timerVars, Outstanding, Asked
  <2>4. Head(queue).options \in FilterOptions
    BY <2>1 DEF ActionRequest
  <2>5. CASE Head(queue).action = "UpdateAll"
    <3>1. wanted' = wanted \ Admitted(Head(queue).options)
      BY <1>6, <2>5 DEF Begin
    <3>2. wantsFull' = (wantsFull /\ ~IsEmpty(Head(queue).options))
      BY <1>6, <2>5 DEF Begin
    <3>3. /\ Outstanding \subseteq Outstanding' \cup {Head(queue).options}
          /\ Outstanding' \subseteq Outstanding
      BY <1>0, <2>2, <2>3, <2>5 DEF OptionsOf
    <3> QED
      BY <2>4, <3>1, <3>2, <3>3 DEF Settles
  <2>6. CASE Head(queue).action # "UpdateAll"
    <3>1. wanted' = wanted /\ wantsFull' = (wantsFull /\ ~FALSE)
      BY <1>6, <2>6 DEF Begin
    <3>2. wantsFull' = wantsFull
      BY <3>1 DEF TypeOK
    <3>3. Outstanding' = Outstanding
      BY <1>0, <2>2, <2>3, <2>6 DEF OptionsOf
    <3> QED
      BY <3>1, <3>2, <3>3 DEF Keeps
  <2> QED
    BY <2>5, <2>6
<1>7. ASSUME Finish PROVE Keeps
  BY <1>7 DEF Finish, Complete, timerVars, Outstanding, Keeps
<1>8. ASSUME UNCHANGED vars PROVE Keeps
  BY <1>8 DEF vars, queueVars, timerVars, Outstanding, Keeps
<1>9. \A t \in Ticket : Dispatch(t) => handoff[t] \in FilterOptions
  BY DEF Dispatch, TypeOK
<1> QED
  BY <1>1, <1>2, <1>3, <1>4, <1>5, <1>6, <1>7, <1>8, <1>9 DEF Next

\* Without include labels in the configuration, no filter has one.
NoLabels == \A fo \in Outstanding : fo \in FilterOptions /\ ~fo.labels

\* Requests carry no labels unless the configuration does.
LEMMA RequestsWithoutLabels ==
  ASSUME ~Cli.labels, NEW fo \in Requests
  PROVE  ~fo.labels
<1>1. Cli \in FilterOptions /\ Everything \in FilterOptions
  BY DebouncerAssumption DEF Everything, FilterOptions
<1> QED
  BY <1>1 DEF Requests, Everything, FilterOptions

\* A full update survives its merge with any other request.
LEMMA MergeKeepsFullScan ==
  ASSUME NEW a \in FilterOptions, NEW b \in FilterOptions, ~a.labels, ~b.labels
  PROVE  /\ ~MergeFilterOptions(a, b).labels
         /\ IsEmpty(a) \/ IsEmpty(b) => IsEmpty(MergeFilterOptions(a, b))
BY DEF MergeFilterOptions, Scoped, IsEmpty, FilterOptions

\* A request for a full update, after the bridge came online or as a retry of
\* the cloud sync, is never absorbed by a scoped one, provided that the
\* configuration has no include labels (Debouncer has the run with one).
THEOREM FullScansAreKept ==
  ASSUME ~Cli.labels
  PROVE  Spec => []FullScanKept
<1>1. Init => NoLabels /\ FullScanKept
  <2> SUFFICES ASSUME Init PROVE NoLabels /\ FullScanKept
    OBVIOUS
  <2>1. Outstanding = {}
    BY DEF Init, QueueInit, Outstanding
  <2> QED
    BY <2>1 DEF Init, NoLabels, FullScanKept
<1>2. TypeOK /\ TicketsApart /\ NoLabels /\ FullScanKept /\ [Next]_vars
        => NoLabels' /\ FullScanKept'
  <2> SUFFICES ASSUME TypeOK, TicketsApart, NoLabels, FullScanKept, [Next]_vars
               PROVE  NoLabels' /\ FullScanKept'
    OBVIOUS
  <2>1. ASSUME NEW fo \in Requests, Asks(fo) PROVE NoLabels' /\ FullScanKept'
    <3>1. fo \in FilterOptions /\ ~fo.labels
      BY RequestsTyped, RequestsWithoutLabels
    <3>2. pending # None => pending \in Outstanding
      BY DEF Outstanding
    <3>3. pending # None => pending \in FilterOptions /\ ~pending.labels
      BY <3>2 DEF NoLabels
    <3>4. pending' \in FilterOptions /\ ~pending'.labels
      BY <2>1, <3>1, <3>3, MergeTyped, MergeKeepsFullScan DEF Asks
    <3>5. NoLabels'
      BY <2>1, <3>4 DEF NoLabels, Asks
    <3>6. pending # None /\ IsEmpty(pending) => IsEmpty(pending')
      BY <2>1, <3>1, <3>3, MergeKeepsFullScan DEF Asks
    <3>7. IsEmpty(fo) => IsEmpty(pending')
      BY <2>1, <3>1, <3>3, MergeKeepsFullScan DEF Asks
    <3>8. ASSUME wantsFull PROVE \E gg \in Outstanding' : IsEmpty(gg)
      <4>1. PICK gg \in Outstanding : IsEmpty(gg)
        BY <3>8 DEF FullScanKept
      <4>2. gg # None
        BY DEF Outstanding
      <4> QED
        BY <2>1, <3>6, <4>1, <4>2 DEF Asks
    <3>9. ASSUME IsEmpty(fo) PROVE \E gg \in Outstanding' : IsEmpty(gg)
      BY <2>1, <3>7, <3>9 DEF Asks
    <3>10. FullScanKept'
      BY <2>1, <3>8, <3>9 DEF FullScanKept, Asks
    <3> QED
      BY <3>5, <3>10
  <2>2. ASSUME NEW fo \in FilterOptions, Settles(fo) PROVE NoLabels' /\ FullScanKept'
    <3>1. NoLabels'
      BY <2>2 DEF Settles, NoLabels
    <3>2. ASSUME wantsFull, ~IsEmpty(fo) PROVE \E gg \in Outstanding' : IsEmpty(gg)
      BY <2>2, <3>2 DEF Settles, FullScanKept
    <3>3. FullScanKept'
      BY <2>2, <3>2 DEF Settles, FullScanKept
    <3> QED
      BY <3>1, <3>3
  <2>3. CASE Keeps
    <3>1. NoLabels'
      BY <2>3, DebouncerAssumption DEF Keeps, NoLabels
    <3>2. FullScanKept'
      BY <2>3 DEF Keeps, FullScanKept
    <3> QED
      BY <3>1, <3>2
  <2> QED
    BY <2>1, <2>2, <2>3, Steps
<1> QED
  BY <1>1, <1>2, TypeCorrect, TicketsStayApart, PTL DEF Spec

\* Without configured ids and names, and without health checks of one service,
\* each filter is the configured one, or that for some ids, or no filter.
Narrowed(ids) == [Cli EXCEPT !.ids = ids]

Uniform == \A fo \in Outstanding :
             fo = Everything \/ \E ids \in SUBSET Container : fo = Narrowed(ids)

\* A configuration without ids and names makes the filters that narrow by ids.
LEMMA UniformFilters ==
  ASSUME Cli.ids = {}, Cli.names = {}
  PROVE  /\ Cli = Narrowed({})
         /\ Everything \in FilterOptions
         /\ \A ids \in SUBSET Container :
              /\ Narrowed(ids) \in FilterOptions
              /\ Narrowed(ids).ids = ids
              /\ Narrowed(ids).names = {}
              /\ \A c \in Monitored : ids = {} \/ c \in ids => Admits(Narrowed(ids), c)
         /\ \A c \in Container : Admits(Everything, c)
<1>1. Cli \in FilterOptions
  BY DebouncerAssumption
<1>2. Cli = Narrowed({}) /\ Everything \in FilterOptions
  BY <1>1 DEF Narrowed, FilterOptions, Everything
<1>3. ASSUME NEW ids \in SUBSET Container
      PROVE  /\ Narrowed(ids) \in FilterOptions
             /\ Narrowed(ids).ids = ids /\ Narrowed(ids).names = {}
             /\ Narrowed(ids).labels = Cli.labels /\ Narrowed(ids).client = Cli.client
  BY <1>1 DEF Narrowed, FilterOptions
<1>4. ASSUME NEW ids \in SUBSET Container, NEW c \in Monitored, ids = {} \/ c \in ids
      PROVE  Admits(Narrowed(ids), c)
  BY <1>3, <1>4 DEF Monitored, Admitted, Admits
<1>5. \A c \in Container : Admits(Everything, c)
  BY DEF Admits, Everything
<1> QED
  BY <1>2, <1>3, <1>4, <1>5

\* A merge of such filters is one of them, and admits what either part admits.
LEMMA MergeAdmitsBoth ==
  ASSUME Cli.ids = {}, Cli.names = {},
         NEW a, a = Everything \/ \E ids \in SUBSET Container : a = Narrowed(ids),
         NEW b, b = Everything \/ \E ids \in SUBSET Container : b = Narrowed(ids)
  PROVE  LET m == MergeFilterOptions(a, b)
         IN  /\ m = Everything \/ \E ids \in SUBSET Container : m = Narrowed(ids)
             /\ \A c \in Monitored : Admits(a, c) \/ Admits(b, c) => Admits(m, c)
<1> DEFINE m == MergeFilterOptions(a, b)
<1>0. Monitored \subseteq Container
  BY DEF Monitored, Admitted
<1>1. ASSUME NEW f, f = Everything \/ \E ids \in SUBSET Container : f = Narrowed(ids), ~Scoped(f)
      PROVE  \A c \in Monitored : Admits(f, c)
  <2>1. CASE f = Everything
    BY <2>1, <1>0, UniformFilters
  <2>2. CASE \E ids \in SUBSET Container : f = Narrowed(ids)
    <3>1. PICK ids \in SUBSET Container : f = Narrowed(ids)
      BY <2>2
    <3>2. ids = {}
      BY <1>1, <3>1, UniformFilters DEF Scoped
    <3> QED
      BY <3>1, <3>2, UniformFilters
  <2> QED
    BY <1>1, <2>1, <2>2
<1>2. CASE ~Scoped(a)
  BY <1>1, <1>2 DEF MergeFilterOptions
<1>3. CASE Scoped(a) /\ ~Scoped(b)
  BY <1>1, <1>3 DEF MergeFilterOptions
<1>4. CASE Scoped(a) /\ Scoped(b)
  <2>1. ~Scoped(Everything)
    BY DEF Scoped, Everything
  <2>2. PICK s \in SUBSET Container : a = Narrowed(s)
    BY <1>4, <2>1
  <2>3. PICK t \in SUBSET Container : b = Narrowed(t)
    BY <1>4, <2>1
  <2>4. a.ids = s /\ a.names = {} /\ b.ids = t /\ b.names = {}
    BY <2>2, <2>3, UniformFilters
  <2>5. m = Narrowed(s \cup t)
    BY <1>4, <2>2, <2>4, DebouncerAssumption DEF MergeFilterOptions, Narrowed, FilterOptions
  <2>6. s # {} /\ t # {}
    BY <1>4, <2>4 DEF Scoped
  <2>7. ASSUME NEW c \in Monitored, Admits(a, c) \/ Admits(b, c) PROVE Admits(m, c)
    <3>1. c \in s \cup t
      BY <2>4, <2>6, <2>7 DEF Admits
    <3> QED
      BY <2>5, <3>1, UniformFilters
  <2>8. s \cup t \in SUBSET Container
    OBVIOUS
  <2> QED
    BY <2>5, <2>7, <2>8
<1> QED
  BY <1>2, <1>3, <1>4

\* A container that an event or a full update asked for is admitted by an update
\* still to be begun, however requests were merged and callbacks overlapped,
\* provided that the configuration asks for no ids or names and that no health
\* check of one service mixes in (Debouncer has the run with one).
THEOREM NothingIsForgotten ==
  ASSUME Cli.ids = {}, Cli.names = {}, "health-check" \notin Source
  PROVE  Spec => []NothingForgotten
<1> DEFINE Kept == wanted \subseteq Monitored /\ Uniform /\ NothingForgotten
<1>1. Init => Kept
  <2> SUFFICES ASSUME Init PROVE Kept
    OBVIOUS
  <2>1. Outstanding = {}
    BY DEF Init, QueueInit, Outstanding
  <2> QED
    BY <2>1 DEF Init, Uniform, NothingForgotten
<1>2. ASSUME NEW fo \in Requests
      PROVE  fo = Everything \/ \E ids \in SUBSET Container : fo = Narrowed(ids)
  <2>1. fo = Cli \/ fo = Everything \/ \E c \in Container : fo = Narrowed({c})
    BY DEF Requests, Narrowed
  <2> QED
    BY <2>1, UniformFilters
<1>3. TypeOK /\ TicketsApart /\ Kept /\ [Next]_vars => Kept'
  <2> SUFFICES ASSUME TypeOK, TicketsApart, Kept, [Next]_vars PROVE Kept'
    OBVIOUS
  <2>1. ASSUME NEW fo \in Requests, Asks(fo) PROVE Kept'
    <3>1. fo = Everything \/ \E ids \in SUBSET Container : fo = Narrowed(ids)
      BY <1>2
    <3>2. pending # None => pending \in Outstanding
      BY DEF Outstanding
    <3>3. pending # None =>
            pending = Everything \/ \E ids \in SUBSET Container : pending = Narrowed(ids)
      BY <3>2 DEF Uniform
    <3>4. /\ pending' = Everything \/ \E ids \in SUBSET Container : pending' = Narrowed(ids)
          /\ \A c \in Monitored : Admits(fo, c) => Admits(pending', c)
          /\ pending # None => \A c \in Monitored : Admits(pending, c) => Admits(pending', c)
      BY <2>1, <3>1, <3>3, MergeAdmitsBoth DEF Asks
    <3>5. Uniform'
      <4> SUFFICES ASSUME NEW gg \in Outstanding'
                   PROVE  gg = Everything \/ \E ids \in SUBSET Container : gg = Narrowed(ids)
        BY DEF Uniform, Narrowed
      <4>1. gg \in Outstanding \/ gg = pending'
        BY <2>1 DEF Asks
      <4> QED
        BY <3>4, <4>1 DEF Uniform
    <3>6. wanted' \subseteq Monitored
      BY <2>1 DEF Asks
    <3>7. ASSUME NEW c \in wanted' PROVE \E gg \in Outstanding' : Admits(gg, c)
      <4>1. CASE c \in wanted
        <5>1. PICK gg \in Outstanding : Admits(gg, c)
          BY <4>1 DEF NothingForgotten
        <5>2. gg # None /\ c \in Monitored
          BY <4>1 DEF Outstanding
        <5> QED
          BY <2>1, <3>4, <5>1, <5>2 DEF Asks
      <4>2. CASE c \in Admitted(fo) \cap Monitored
        BY <2>1, <3>4, <4>2 DEF Asks, Admitted
      <4> QED
        BY <2>1, <3>7, <4>1, <4>2 DEF Asks
    <3> QED
      BY <3>5, <3>6, <3>7 DEF NothingForgotten, Monitored, Admitted, Admits
  <2>2. ASSUME NEW fo \in FilterOptions, Settles(fo) PROVE Kept'
    <3>1. Uniform'
      BY <2>2 DEF Settles, Uniform, Narrowed
    <3>2. ASSUME NEW c \in wanted' PROVE \E gg \in Outstanding' : Admits(gg, c)
      <4>1. c \in wanted /\ c \notin Admitted(fo) /\ c \in Container
        BY <2>2, <3>2 DEF Settles, TypeOK
      <4>2. PICK gg \in Outstanding : Admits(gg, c)
        BY <4>1 DEF NothingForgotten
      <4> QED
        BY <2>2, <4>1, <4>2 DEF Settles, Admitted
    <3> QED
      BY <2>2, <3>1, <3>2 DEF Settles, NothingForgotten, Monitored, Admitted, Admits
  <2>3. CASE Keeps
    <3>1. Uniform'
      <4>1. Cli = Narrowed({}) /\ {} \in SUBSET Container
        BY UniformFilters
      <4> QED
        BY <2>3, <4>1 DEF Keeps, Uniform, Narrowed
    <3>2. NothingForgotten'
      BY <2>3 DEF Keeps, NothingForgotten, Admits
    <3> QED
      BY <2>3, <3>1, <3>2 DEF Keeps, Monitored, Admitted, Admits
  <2> QED
    BY <2>1, <2>2, <2>3, Steps
<1>4. Kept => NothingForgotten
  OBVIOUS
<1> QED
  BY <1>1, <1>3, <1>4, TypeCorrect, TicketsStayApart, PTL DEF Spec

=============================================================================
