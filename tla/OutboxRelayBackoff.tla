-------------------------- MODULE OutboxRelayBackoff --------------------------
(***************************************************************************)
(* The outbox relay against rows that SQS never accepts.  There is no      *)
(* limit on publish_attempts: such a row is retried for ever, always ahead *)
(* of the younger ones, and only its back-off lets them through.  Here the *)
(* processes and the database do not fail and a tick is one poll_seconds:  *)
(* every relay makes one attempt per tick.                                 *)
(*                                                                         *)
(* With the default settings a tick is 2 s and RetryTicks about 7, so the  *)
(* assumption says that fewer than seven rows are failing at a time.       *)
(***************************************************************************)
EXTENDS OutboxRelay, FiniteSets

CONSTANT Poison  \* rows whose publication always fails

ASSUME PoisonAssumption ==
    /\ Poison \subseteq Messages
    /\ Cardinality(Poison) < RetryTicks

\* Every sleep(poll_seconds) ends; no relay sleeps through a tick.
PollTick ==
    /\ \A r \in Relays : relay[r].pc = "asleep"
    /\ age' = Older
    /\ relay' = [r \in Relays |-> [pc |-> "polling", msg |-> None]]
    /\ UNCHANGED <<row, attempted, holder, copies, faulted>>

BackoffNext ==
    \/ \E m \in Messages : Create(m)
    \/ \E r \in Relays : FindNothing(r)
    \/ \E r \in Relays, m \in Messages :
         \/ LockNext(r, m)
         \/ m \notin Poison /\ SendAccepted(r, m)
         \/ SendRejected(r, m)
         \/ MarkPublished(r, m)
         \/ MarkFailed(r, m)
    \/ PollTick

\* Every relay runs to the end of its attempt; a row that is not poisoned is
\* accepted if it is tried often enough.
BackoffFairness ==
    /\ WF_vars(PollTick)
    /\ \A r \in Relays :
         /\ WF_vars(FindNothing(r))
         /\ WF_vars(\E m \in Messages : LockNext(r, m))
         /\ WF_vars(\E m \in Messages : SendRejected(r, m))
         /\ WF_vars(\E m \in Messages : MarkPublished(r, m))
         /\ WF_vars(\E m \in Messages : MarkFailed(r, m))
    /\ \A m \in Messages \ Poison :
         SF_vars(\E r \in Relays : SendAccepted(r, m))

BackoffSpec == Init /\ [][BackoffNext]_vars /\ BackoffFairness

\* Rows that fail for ever do not keep the younger rows of the table from
\* being published, as long as fewer of them fail than fit in one back-off.
HealthyRowsPublished ==
    \A m \in Messages \ Poison : row[m] = "PENDING" ~> row[m] = "PUBLISHED"
=============================================================================
