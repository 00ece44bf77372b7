------------------------------- MODULE Stats -------------------------------
(***************************************************************************)
(* Reading the statistics of a container (GetStats): collect asks the      *)
(* engine, a goroutine decodes the answer and passes on each outcome over  *)
(* a channel with one place, and collect waits for the first of them or a  *)
(* timer, which it starts again for each wait.  GetStats waits until       *)
(* collect has released the wait group.                                    *)
(*                                                                         *)
(* The steps are on one call, which Daemon's worker makes.  A reader that  *)
(* is left behind by a collect that returned is not followed further: it   *)
(* fills the channel that nobody reads any more, and stops there.          *)
(***************************************************************************)
EXTENDS Naturals

CONSTANTS
  Answer   \* what the engine's answers may be: a subset of AnswerKind

\* A sample, a body that ends without one, one that never comes, or one that
\* cannot be decoded (it is not JSON, or was cut off).
AnswerKind == {"sample", "end", "silence", "broken"}

ASSUME StatsAssumption == Answer \subseteq AnswerKind

VARIABLES
  call,      \* collect: "none", "request" or "select"
  answer,    \* the body of the response
  reader,    \* the goroutine runs
  channel,   \* u: the outcome that was sent, or "empty"
  group      \* the wait group's counter

statsVars == <<call, answer, reader, channel, group>>

StatsTypeOK ==
  /\ call \in {"none", "request", "select"}
  /\ answer \in AnswerKind
  /\ reader \in BOOLEAN
  /\ channel \in {"empty", "nil", "EOF", "error"}
  /\ group \in {0, 1}
  /\ call = "none" => ~reader /\ channel = "empty" /\ group = 0

StatsInit ==
  call = "none" /\ answer = "silence" /\ reader = FALSE /\ channel = "empty" /\ group = 0

\* collect returns; its deferred function releases the group if nothing else has.
Returned ==
  call' = "none" /\ answer' = "silence" /\ reader' = FALSE /\ channel' = "empty" /\ group' = 0

\* GetStats, to its wait: the group counts one, and the request is sent.
GetStats ==
  /\ call = "none"
  /\ call' = "request" /\ group' = 1
  /\ UNCHANGED <<answer, reader, channel>>

RequestStats ==
  /\ call = "request"
  /\ \/ Returned
     \/ /\ answer' \in Answer
        /\ call' = "select" /\ reader' = TRUE
        /\ UNCHANGED <<channel, group>>

\* The reader decodes (what it reads is kept in the statistics), and sends the
\* outcome when the channel has room.  Without streaming it ends after a sample,
\* and at the end of the body.  After any other error it sleeps and decodes what
\* is left, with the same outcome.
Read ==
  /\ reader /\ answer # "silence" /\ channel = "empty"
  /\ channel' = CASE answer = "sample" -> "nil" [] answer = "end" -> "EOF" [] OTHER -> "error"
  /\ reader' = (answer = "broken")
  /\ UNCHANGED <<call, answer, group>>

\* select: the timer.
TimeOut == call = "select" /\ channel = "empty" /\ Returned

\* select: the channel.  An error is kept, and waiting goes on with a new timer.
Take ==
  /\ call = "select" /\ channel # "empty"
  /\ \/ channel # "error" /\ Returned
     \/ channel = "error" /\ channel' = "empty" /\ UNCHANGED <<call, answer, reader, group>>

Collect == RequestStats \/ TimeOut \/ Take

\* "If error happens and we get nothing of stats, release wait group whatever":
\* who waits for the statistics of a container is released.
GroupIsReleased == group = 1 ~> group = 0

=============================================================================
