---------------------------- MODULE TaskLifecycle ----------------------------
(***************************************************************************)
(* What the asynchronous processing of incident tasks promises, without    *)
(* workers, leases or retries: an accepted task is settled exactly once,   *)
(* as SUCCEEDED only if its business effect has been applied, as FAILED    *)
(* only if its incident has been deleted.  The effect of a task that ends  *)
(* FAILED may still have been applied: the incident can be deleted between *)
(* the effect and the settlement.                                          *)
(*                                                                         *)
(* TaskReconciliation implements it.                                       *)
(***************************************************************************)
CONSTANT Tasks

VARIABLES
    accepted,  \* tasks with a durable execution record
    applied,   \* tasks whose business effect is committed
    deleted,   \* tasks whose incident no longer exists
    outcome    \* outcome[t]: "none" until the task is settled

vars == <<accepted, applied, deleted, outcome>>

Init ==
    /\ accepted = {}
    /\ applied = {}
    /\ deleted = {}
    /\ outcome = [t \in Tasks |-> "none"]

Accept(t) ==
    /\ accepted' = accepted \cup {t}
    /\ UNCHANGED <<applied, deleted, outcome>>

Delete(t) ==
    /\ deleted' = deleted \cup {t}
    /\ UNCHANGED <<accepted, applied, outcome>>

\* A worker whose lease has run out may still apply the effect of a task that
\* another one has settled.
Apply(t) ==
    /\ t \in accepted
    /\ applied' = applied \cup {t}
    /\ UNCHANGED <<accepted, deleted, outcome>>

Succeed(t) ==
    /\ t \in applied
    /\ outcome[t] = "none"
    /\ outcome' = [outcome EXCEPT ![t] = "SUCCEEDED"]
    /\ UNCHANGED <<accepted, applied, deleted>>

Fail(t) ==
    /\ t \in accepted \cap deleted
    /\ outcome[t] = "none"
    /\ outcome' = [outcome EXCEPT ![t] = "FAILED"]
    /\ UNCHANGED <<accepted, applied, deleted>>

Next ==
    \E t \in Tasks :
      Accept(t) \/ Delete(t) \/ Apply(t) \/ Succeed(t) \/ Fail(t)

\* The safety half, which the proofs show TaskReconciliation to implement.
Safety == Init /\ [][Next]_vars

Progress(t) ==
    /\ outcome[t] = "none"
    /\ Apply(t) \/ Succeed(t) \/ Fail(t)

Spec == Safety /\ \A t \in Tasks : WF_vars(Progress(t))
=============================================================================
