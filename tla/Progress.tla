-------------------------------- MODULE Progress --------------------------------
(***************************************************************************)
(* What goes on although something fails for ever: the outbox relay with   *)
(* rows that SQS never accepts, the reconciler with tasks whose            *)
(* transaction never commits, and the requests of users while the incident *)
(* service hangs.                                                          *)
(*                                                                         *)
(* The three share no state.  They run side by side, but only one of them  *)
(* is given anything to do: the others go on polling.                      *)
(***************************************************************************)
EXTENDS OutboxRelayBackoff

CONSTANTS
    Tasks, Reconcilers, Tokens, LeaseTicks, BatchSize, PoisonTasks,
    Users, PoolSize, ReadMaxAttempts

ASSUME PoisonTasksAssumption ==
    /\ PoisonTasks \subseteq Tasks
    /\ Cardinality(PoisonTasks) < BatchSize

ASSUME RequestAssumption == {PoolSize, ReadMaxAttempts} \subseteq Nat \ {0}

VARIABLES
    exec, gone, completions, rec, interrupted,
    call, answer, notified, remote, lookup, change, incidents, done, tasks, service, lost

reconciliation == <<exec, gone, completions, rec, interrupted>>

requests == <<call, answer, notified, remote, lookup, change, incidents, done, tasks, service,
              lost>>

Reconciler == INSTANCE TaskReconciliationHeadOfLine WITH Poison <- PoisonTasks

Requests == INSTANCE IncidentRequests

NoRows == \A m \in Messages : row[m] = "ABSENT"

NoTasks == gone = {} /\ \A t \in Tasks : exec[t].status = "ABSENT"

NoRequests == service /\ \A u \in Users : call[u].pc = "idle"

ProgressNext ==
    \/ /\ BackoffNext /\ UNCHANGED <<reconciliation, requests>>
       /\ NoRows' \/ (NoTasks /\ NoRequests)
    \/ /\ Reconciler!HeadOfLineNext /\ UNCHANGED <<vars, requests>>
       /\ NoTasks' \/ (NoRows /\ NoRequests)
    \/ /\ Requests!Next /\ UNCHANGED <<vars, reconciliation>>
       /\ NoRequests' \/ (NoRows /\ NoTasks)

ProgressSpec ==
    /\ Init /\ Reconciler!Init /\ Requests!Init
    /\ [][ProgressNext]_<<vars, reconciliation, requests>>
    /\ BackoffFairness /\ Reconciler!HeadOfLineFairness /\ Requests!Fairness

\* The properties of the two instances.
HealthyTasksSettle == Reconciler!HealthyTasksSettle
AnswersAreTrue == Requests!AnswersAreTrue
EveryRequestIsAnswered == Requests!EveryRequestIsAnswered
=============================================================================
