-------------------------- MODULE TaskReconciliation --------------------------
(***************************************************************************)
(* The reconciler of the incident service                                  *)
(* (incident-service/app/workers/incident_task_reconciler.py): processes   *)
(* that poll the DynamoDB task-execution table, claim tasks under a lease  *)
(* with a fresh token, apply each task's effect in one PostgreSQL          *)
(* transaction together with a completion-outbox row, and mark the task    *)
(* in DynamoDB under the condition that they still own it.                 *)
(*                                                                         *)
(* The two stores share no transaction: a process may die, lose a reply or *)
(* outlive its lease between any two of their steps.  There is no          *)
(* heartbeat, so a lease can run out under a live process.                 *)
(*                                                                         *)
(* A task stands for its incident too: every incident is created with      *)
(* exactly one task.  What the transaction does to the incident's fields   *)
(* is IncidentLifecycle's subject.                                         *)
(***************************************************************************)
EXTENDS Integers, FiniteSets

CONSTANTS
    Tasks,        \* task executions, numbered in created_at order
    Reconcilers,  \* reconciler processes
    Tokens,       \* values uuid4() can return for reconciliation_token
    None,         \* no token
    LeaseTicks,   \* lease_seconds, in ticks
    BatchSize     \* batch_size

ASSUME TasksAssumption == Tasks \subseteq Nat
ASSUME TokensAssumption == None \notin Tokens
ASSUME LeaseAssumption == LeaseTicks \in Nat \ {0}
ASSUME BatchAssumption == BatchSize \in Nat \ {0}

VARIABLES
    exec,         \* exec[t]: the DynamoDB item of the task
    gone,         \* tasks whose incident has been deleted from PostgreSQL
    completions,  \* completions[t]: transactions that committed the task's effect and
                  \* its completion event; 2 is "two or more"
    rec,          \* rec[w]: the reconciler's place in its cycle
    interrupted   \* history: tasks whose lease has run out, or whose commit went
                  \* unanswered

vars == <<exec, gone, completions, rec, interrupted>>

\* READY is READY_FOR_INCIDENT_SERVICE, PROCESSING is
\* INCIDENT_SERVICE_PROCESSING; ABSENT is a task not yet accepted.
Status == {"ABSENT", "READY", "PROCESSING", "SUCCEEDED", "FAILED"}

\* idle      between two cycles
\* scanning  about to claim the oldest candidate of its batch
\* claimed   about to read the incident
\* found     the incident was read, the transaction is open
\* done      PostgreSQL has committed, mark_succeeded is next
\* retry     RetryableIncidentTaskProcessingError, mark_retryable_failure next
\* missing   IncidentNotFoundError, mark_failed is next
Phases == {"idle", "scanning", "claimed", "found", "done", "retry", "missing"}

TypeOK ==
    /\ exec \in [Tasks -> [status : Status,
                           token : Tokens \cup {None},
                           lease : 0..LeaseTicks]]
    /\ gone \in SUBSET Tasks
    /\ completions \in [Tasks -> 0..2]
    /\ rec \in [Reconcilers -> [pc : Phases,
                                batch : SUBSET Tasks,
                                token : Tokens \cup {None}]]
    /\ interrupted \in SUBSET Tasks

Idle == [pc |-> "idle", batch |-> {}, token |-> None]

\* An item that no reconciler holds: the lease and the token are removed.
Released(status) == [status |-> status, token |-> None, lease |-> 0]

Init ==
    /\ exec = [t \in Tasks |-> Released("ABSENT")]
    /\ gone = {}
    /\ completions = [t \in Tasks |-> 0]
    /\ rec = [w \in Reconcilers |-> Idle]
    /\ interrupted = {}

-----------------------------------------------------------------------------
\* Helpers.

\* Definitions named Faulty... are variants with one plausible mistake.  Nothing
\* uses them; each is substituted for the definition it precedes to see that a
\* property notices.

\* The limit is off by one.
FaultyOldest(S, k) == {t \in S : Cardinality({u \in S : u < t}) + 1 < k}

\* The first k tasks of S in created_at order: a query with a Limit.
Oldest(S, k) == {t \in S : Cardinality({u \in S : u < t}) < k}

HavingStatus(status) == {t \in Tasks : exec[t].status = status}

\* Tasks left PROCESSING by a crash are not listed.
FaultyCandidates == Oldest(HavingStatus("READY"), BatchSize)

\* list_reconcilable: READY items first; whatever room they leave goes to the
\* oldest PROCESSING items, from which the filter then keeps the expired ones
\* (DynamoDB applies Limit before FilterExpression).
Candidates ==
    LET ready == Oldest(HavingStatus("READY"), BatchSize)
        room  == BatchSize - Cardinality(ready)
    IN  ready \cup {t \in Oldest(HavingStatus("PROCESSING"), room) :
                      exec[t].lease = 0}

\* The candidate a reconciler is working on: they are taken oldest first.
Current(w, t) == t \in rec[w].batch /\ \A u \in rec[w].batch : t <= u

\* The lease is not looked at.
FaultyClaimableUnexpired(t) == exec[t].status \in {"READY", "PROCESSING"}

\* The ConditionExpression of claim.
Claimable(t) ==
    \/ exec[t].status = "READY"
    \/ exec[t].status = "PROCESSING" /\ exec[t].lease = 0

\* A uuid4 differs from every token still stored or held anywhere.
FreshTokens ==
    {k \in Tokens : /\ \A t \in Tasks : exec[t].token # k
                    /\ \A w \in Reconcilers : rec[w].token # k}

\* The ConditionExpression of _update_owned_execution.
Owns(w, t) ==
    /\ exec[t].status = "PROCESSING"
    /\ exec[t].token = rec[w].token

\* INSERT ... ON CONFLICT (task_id) DO NOTHING: the first transaction makes the
\* row of the completion outbox, a later one finds it and commits all the same.
Recorded(n) == IF n < 2 THEN n + 1 ELSE n

MoveTo(w, pc) == rec' = [rec EXCEPT ![w].pc = pc]

\* The reconciler has finished with t and goes on with its batch.
GoOn(w, t) ==
    LET rest == rec[w].batch \ {t}
    IN  rec' = [rec EXCEPT ![w] =
                  [pc    |-> IF rest = {} THEN "idle" ELSE "scanning",
                   batch |-> rest,
                   token |-> None]]

-----------------------------------------------------------------------------
\* The task worker's conditional put: attribute_not_exists(task_id).
Accept(t) ==
    /\ exec[t].status = "ABSENT"
    /\ exec' = [exec EXCEPT ![t] = Released("READY")]
    /\ UNCHANGED <<gone, completions, rec, interrupted>>

\* DELETE /incidents/{id} commits.
DeleteIncident(t) ==
    /\ t \notin gone
    /\ gone' = gone \cup {t}
    /\ UNCHANGED <<exec, completions, rec, interrupted>>

\* A cycle without candidates goes straight back to sleep.
List(w) ==
    /\ rec[w].pc = "idle"
    /\ rec' = [rec EXCEPT ![w] =
                 IF Candidates = {} THEN Idle
                 ELSE [pc |-> "scanning", batch |-> Candidates, token |-> None]]
    /\ UNCHANGED <<exec, gone, completions, interrupted>>

\* claim's update, whatever becomes of the reply.
TakeLease(t, k) ==
    /\ Claimable(t)
    /\ exec' = [exec EXCEPT ![t] =
                  [status |-> "PROCESSING", token |-> k, lease |-> LeaseTicks]]

Claim(w, t) ==
    /\ rec[w].pc = "scanning" /\ Current(w, t)
    /\ \E k \in FreshTokens :
         /\ TakeLease(t, k)
         /\ rec' = [rec EXCEPT ![w].pc = "claimed", ![w].token = k]
    /\ UNCHANGED <<gone, completions, interrupted>>

\* Another reconciler was faster: the condition fails, claim returns None.
Skip(w, t) ==
    /\ rec[w].pc = "scanning" /\ Current(w, t)
    /\ ~Claimable(t)
    /\ GoOn(w, t)
    /\ UNCHANGED <<exec, gone, completions, interrupted>>

\* The claim is applied but its reply is lost.  botocore sends it again, and
\* the second one is refused: the task stays PROCESSING under a token that
\* nobody knows, until its lease runs out.
ClaimReplyLost(w, t) ==
    /\ rec[w].pc = "scanning" /\ Current(w, t)
    /\ \E k \in FreshTokens : TakeLease(t, k)
    /\ GoOn(w, t)
    /\ UNCHANGED <<gone, completions, interrupted>>

FindIncident(w, t) ==
    /\ rec[w].pc = "claimed" /\ Current(w, t)
    /\ t \notin gone
    /\ MoveTo(w, "found")
    /\ UNCHANGED <<exec, gone, completions, interrupted>>

\* IncidentNotFoundError: rollback.
MissIncident(w, t) ==
    /\ rec[w].pc = "claimed" /\ Current(w, t)
    /\ t \in gone
    /\ MoveTo(w, "missing")
    /\ UNCHANGED <<exec, gone, completions, interrupted>>

\* The incident update, the completion row and session.commit().  The incident
\* may have been deleted since it was read: a transaction that has nothing to
\* change in the incident commits all the same.
Commit(w, t) ==
    /\ rec[w].pc = "found" /\ Current(w, t)
    /\ completions' = [completions EXCEPT ![t] = Recorded(@)]
    /\ MoveTo(w, "done")
    /\ UNCHANGED <<exec, gone, interrupted>>

\* PostgreSQL commits but the connection breaks before it says so.
CommitReplyLost(w, t) ==
    /\ rec[w].pc = "found" /\ Current(w, t)
    /\ completions' = [completions EXCEPT ![t] = Recorded(@)]
    /\ interrupted' = interrupted \cup {t}
    /\ MoveTo(w, "retry")
    /\ UNCHANGED <<exec, gone>>

\* SQLAlchemyError anywhere in the transaction: rollback.
ProcessingFails(w) ==
    /\ rec[w].pc \in {"claimed", "found"}
    /\ MoveTo(w, "retry")
    /\ UNCHANGED <<exec, gone, completions, interrupted>>

\* _update_owned_execution with its condition met.  A lost reply changes
\* nothing: the reconciler logs the error and goes on.
Mark(w, t, pc, status) ==
    /\ rec[w].pc = pc /\ Current(w, t)
    /\ Owns(w, t)
    /\ exec' = [exec EXCEPT ![t] = Released(status)]
    /\ GoOn(w, t)
    /\ UNCHANGED <<gone, completions, interrupted>>

\* When the mark fails, the task is handed back as after a failed transaction.
FaultyMarkSucceeded(w, t) == \E status \in {"SUCCEEDED", "READY"} : Mark(w, t, "done", status)

MarkSucceeded(w, t) == Mark(w, t, "done", "SUCCEEDED")

MarkRetryable(w, t) == Mark(w, t, "retry", "READY")

MarkFailed(w, t) == Mark(w, t, "missing", "FAILED")

\* ExecutionStateOwnershipLostError, or an error before the write reached
\* DynamoDB: logged, and the item is left as it is.
MarkNotApplied(w, t) ==
    /\ rec[w].pc \in {"done", "retry", "missing"} /\ Current(w, t)
    /\ GoOn(w, t)
    /\ UNCHANGED <<exec, gone, completions, interrupted>>

\* The process dies: killed, or by an error nothing catches (a failed query, a
\* ClientError on claim, LookupError when the incident disappears between the
\* read and the update).  Its transaction is rolled back, its lease remains.
Crash(w) ==
    /\ rec[w].pc # "idle"
    /\ rec' = [rec EXCEPT ![w] = Idle]
    /\ UNCHANGED <<exec, gone, completions, interrupted>>

Sooner == [t \in Tasks |->
             IF exec[t].lease > 0
             THEN [exec[t] EXCEPT !.lease = @ - 1] ELSE exec[t]]

Tick ==
    /\ \E t \in Tasks : exec[t].lease > 0
    /\ exec' = Sooner
    /\ interrupted' = interrupted \cup {t \in Tasks : exec[t].lease = 1}
    /\ UNCHANGED <<gone, completions, rec>>

Work(w, t) ==
    \/ Claim(w, t)
    \/ Skip(w, t)
    \/ ClaimReplyLost(w, t)
    \/ FindIncident(w, t)
    \/ MissIncident(w, t)
    \/ Commit(w, t)
    \/ CommitReplyLost(w, t)
    \/ MarkSucceeded(w, t)
    \/ MarkRetryable(w, t)
    \/ MarkFailed(w, t)
    \/ MarkNotApplied(w, t)

Next ==
    \/ \E t \in Tasks : Accept(t) \/ DeleteIncident(t)
    \/ \E w \in Reconcilers : List(w) \/ ProcessingFails(w) \/ Crash(w)
    \/ \E w \in Reconcilers, t \in Tasks : Work(w, t)
    \/ Tick

Safety == Init /\ [][Next]_vars

-----------------------------------------------------------------------------
(***************************************************************************)
(* Fairness.  A running reconciler takes its next step and time passes:    *)
(* weak fairness.  Faults (crashes, lost replies, failed transactions, a   *)
(* lease that runs out under its owner) may strike any number of times,    *)
(* but not every attempt: a step of a task that is tried again and again   *)
(* under a valid claim is completed at some point.                         *)
(***************************************************************************)
StepFairness ==
    /\ WF_vars(Tick)
    /\ \A w \in Reconcilers :
         /\ WF_vars(List(w))
         /\ WF_vars(ProcessingFails(w))
         /\ WF_vars(\E t \in Tasks : Skip(w, t) \/ Claim(w, t))
         /\ WF_vars(\E t \in Tasks : MarkNotApplied(w, t))

AttemptFairness(S) ==
    \A t \in S :
      /\ SF_vars(\E w \in Reconcilers : Claim(w, t))
      /\ SF_vars(\E w \in Reconcilers :
                   Owns(w, t) /\ (FindIncident(w, t) \/ MissIncident(w, t)))
      /\ SF_vars(\E w \in Reconcilers : Owns(w, t) /\ Commit(w, t))
      /\ SF_vars(\E w \in Reconcilers : MarkSucceeded(w, t) \/ MarkFailed(w, t))

Spec == Safety /\ StepFairness /\ AttemptFairness(Tasks)

-----------------------------------------------------------------------------
\* Properties.

\* DynamoDB says SUCCEEDED only after PostgreSQL committed the effect and its
\* completion event, although the two commits are independent.
SucceededWasApplied ==
    \A t \in Tasks : exec[t].status = "SUCCEEDED" => completions[t] > 0

\* A task is given up only because its incident does not exist any more.
FailedOnlyIfDeleted ==
    \A t \in Tasks : exec[t].status = "FAILED" => t \in gone

\* The effect of a task is committed again only when its claim was interrupted: a
\* lease ran out before the task was settled, or the answer to the commit was
\* lost.  Neither a crowd of reconcilers, nor one that answers late, nor a
\* transaction that failed makes a second one of it.
WorkIsRepeatedForAReason ==
    \A t \in Tasks : completions[t] = 2 => t \in interrupted

\* A reconciler that has lost its lease cannot reopen or relabel a task that
\* another one has settled.
SettledIsFinal ==
    [][\A t \in Tasks :
         exec[t].status \in {"SUCCEEDED", "FAILED"} =>
           exec'[t].status = exec[t].status]_vars

\* As long as its lease runs, a reconciler keeps its claim: no other process,
\* current or stale, takes the task or releases it under its feet.
ClaimHoldsForTheLease ==
    [][\A w \in Reconcilers, t \in Tasks :
         Owns(w, t) /\ exec[t].lease > 0 /\ rec'[w] = rec[w] =>
           exec'[t].status = "PROCESSING" /\ exec'[t].token = exec[t].token]_vars

\* Every accepted task is settled, once, and settled right.
Lifecycle == INSTANCE TaskLifecycle WITH
    accepted <- {t \in Tasks : exec[t].status # "ABSENT"},
    applied  <- {t \in Tasks : completions[t] > 0},
    deleted  <- gone,
    outcome  <- [t \in Tasks |->
                   IF exec[t].status \in {"SUCCEEDED", "FAILED"}
                   THEN exec[t].status ELSE "none"]

SettlesEveryTask == Lifecycle!Spec
=============================================================================
