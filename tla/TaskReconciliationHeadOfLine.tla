--------------------- MODULE TaskReconciliationHeadOfLine ---------------------
(***************************************************************************)
(* The reconciler against tasks whose transaction fails every time.        *)
(* reconciliation_attempts is counted but never compared with anything, a  *)
(* failed task returns to READY under its old created_at, and a batch      *)
(* always starts with the oldest READY tasks: only the room such tasks     *)
(* leave in a batch serves the others.                                     *)
(***************************************************************************)
EXTENDS TaskReconciliation

CONSTANT Poison  \* tasks whose PostgreSQL transaction never commits: fewer than BatchSize

\* Everything but Crash: a process that died on the same task in every cycle
\* would serve nobody else once the cycle takes as long as the lease.
HeadOfLineNext ==
    \/ \E t \in Tasks : Accept(t) \/ DeleteIncident(t)
    \/ \E w \in Reconcilers : List(w) \/ ProcessingFails(w)
    \/ \E w \in Reconcilers, t \in Tasks :
         Work(w, t) /\ \A p \in Poison : completions'[p] = 0
    \/ Tick

HeadOfLineFairness == StepFairness /\ AttemptFairness(Tasks \ Poison)

HeadOfLineSpec == Init /\ [][HeadOfLineNext]_vars /\ HeadOfLineFairness

\* A few tasks that fail for ever do not keep the younger ones from being
\* settled, lost replies and deleted incidents included.
HealthyTasksSettle ==
    \A t \in Tasks \ Poison :
      exec[t].status = "READY" ~> exec[t].status \in {"SUCCEEDED", "FAILED"}
=============================================================================
