-------------------------- MODULE IncidentLifecycle --------------------------
(***************************************************************************)
(* One incident of the incident service and the PostgreSQL transactions    *)
(* that write it: attempts of the reconciler to process its task           *)
(* (IncidentTaskProcessingService.process; several may overlap once a      *)
(* lease has run out), PATCH requests (IncidentService.update) and DELETE. *)
(*                                                                         *)
(* Every writer works in READ COMMITTED without a row lock or a version:   *)
(*   read    get_by_id loads the row and a new value is computed from it;  *)
(*   reread  repository.update loads the row once more (the session has    *)
(*           dropped the first copy: its identity map is weak) and assigns *)
(*           every field of the new value;                                 *)
(*   commit  the flush writes the fields that differ from the second load. *)
(* What other transactions commit between the three is not noticed.        *)
(*                                                                         *)
(* Each transaction happens once.  A timestamp taken by a transaction is   *)
(* represented by the transaction's name: it differs from all the others.  *)
(***************************************************************************)
CONSTANTS
    Attempts,     \* reconciler transactions for the incident's task
    Requests,     \* PATCH requests
    Payloads,     \* the bodies a PATCH may carry
    InitialRows,  \* the incident as IncidentService.create wrote it
    Client,       \* a timestamp chosen by a client
    None,         \* SQL NULL; a transaction that has loaded nothing
    Unset,        \* a field absent from a PATCH body
    Gone          \* the incident has been deleted

Transactions == Attempts \cup Requests
Status == {"OPEN", "INVESTIGATING", "MONITORING", "RESOLVED"}
Stamps == Transactions \cup {Client, None}
Rows == [status : Status, acknowledged_at : Stamps, resolved_at : Stamps]
Bodies == [status : Status \cup {Unset},
           acknowledged_at : {Unset, None, Client},
           resolved_at : {None, Client}]

\* create() stamps resolved_at exactly when the incident is born resolved.
ASSUME InitialRowsAssumption ==
    /\ InitialRows \subseteq Rows
    /\ \A r \in InitialRows : r.status = "RESOLVED" <=> r.resolved_at # None

ASSUME PayloadsAssumption == Payloads \subseteq Bodies

\* A transaction is of one kind, and no name stands for two things.
ASSUME NamesAssumption ==
    /\ Attempts \cap Requests = {}
    /\ None \notin Transactions \cup {Client, Gone} \cup Rows
    /\ None \notin [status : Status, acknowledged_at : Stamps]
    /\ Gone \notin Rows
    /\ Unset \notin Status \cup {Client, None}

VARIABLES
    row,    \* the incident in PostgreSQL
    event,  \* the task's completion-outbox row: what it reports, or None
    tx,     \* tx[x]: how far x has come, the value it writes, its second load
    overlap \* history: a transaction began while another was in flight

vars == <<row, event, tx, overlap>>

\* ready      not begun
\* read       get_by_id has returned, the new value is computed
\* reread     repository.update has assigned the new value
\* unchanged  process found nothing to change
\* committed, aborted
Phases == {"ready", "read", "reread", "unchanged", "committed", "aborted"}

TypeOK ==
    /\ row \in Rows \cup {Gone}
    /\ event \in [status : Status, acknowledged_at : Stamps] \cup {None}
    /\ tx \in [Transactions -> [pc : Phases,
                                new : Rows \cup {None},
                                loaded : Rows \cup {None}]]
    /\ overlap \in BOOLEAN

Init ==
    /\ row \in InitialRows
    /\ event = None
    /\ tx = [x \in Transactions |-> [pc |-> "ready", new |-> None, loaded |-> None]]
    /\ overlap = FALSE

-----------------------------------------------------------------------------
\* Helpers.

Or(value, default) == IF value = Unset THEN default ELSE value

\* Definitions named Faulty... are variants with one plausible mistake.  Nothing
\* uses them; each is substituted for the definition it precedes to see that a
\* property notices.

\* An open incident is left unacknowledged.
FaultyProcessedUnacknowledged(x, r) ==
    IF r.status = "OPEN" THEN [r EXCEPT !.status = "INVESTIGATING"] ELSE r

\* The business effect of the task on r, computed by x.
Processed(x, r) ==
    IF r.status \in {"OPEN", "INVESTIGATING"}
    THEN [r EXCEPT !.status = "INVESTIGATING",
                   !.acknowledged_at = IF @ = None THEN x ELSE @]
    ELSE r

\* A reopened incident keeps its timestamp.
FaultyResolvedAt(x, r, body, status) ==
    IF body.resolved_at # None THEN body.resolved_at
    ELSE IF status = "RESOLVED" /\ r.resolved_at = None THEN x
    ELSE r.resolved_at

\* _resolve_timestamp.
ResolvedAt(x, r, body, status) ==
    CASE status # "RESOLVED" -> None
      [] status = "RESOLVED" /\ body.resolved_at # None -> body.resolved_at
      [] status = "RESOLVED" /\ body.resolved_at = None ->
           IF r.resolved_at # None THEN r.resolved_at ELSE x

\* The value IncidentService.update computes from r.
Patched(x, r, body) ==
    LET status == Or(body.status, r.status)
    IN  [status |-> status,
         acknowledged_at |-> Or(body.acknowledged_at, r.acknowledged_at),
         resolved_at |-> ResolvedAt(x, r, body, status)]

\* The UPDATE names the assigned fields that differ from what was loaded.
Flushed(x, r) ==
    [f \in DOMAIN r |->
       IF tx[x].new[f] # tx[x].loaded[f] THEN tx[x].new[f] ELSE r[f]]

\* The event is built from the incident as it was before the update.
FaultyReported(x) ==
    LET r == IF tx[x].loaded = None THEN tx[x].new ELSE tx[x].loaded
    IN  [status |-> r.status, acknowledged_at |-> r.acknowledged_at]

\* IncidentProcessingResult, as the completion message repeats it.
Reported(x) ==
    [status |-> tx[x].new.status, acknowledged_at |-> tx[x].new.acknowledged_at]

\* INSERT ... ON CONFLICT (task_id) DO NOTHING.
Record(x) == event' = IF event = None THEN Reported(x) ELSE event

MoveTo(x, pc) == tx' = [tx EXCEPT ![x].pc = pc]

InFlight == {x \in Transactions : tx[x].pc \in {"read", "reread", "unchanged"}}

Begin == overlap' = (overlap \/ InFlight # {})

-----------------------------------------------------------------------------
\* The reconciler's transaction reads the incident.
ProcessRead(x) ==
    /\ x \in Attempts
    /\ tx[x].pc = "ready"
    /\ row # Gone
    /\ tx' = [tx EXCEPT ![x].pc  = IF Processed(x, row) = row
                                   THEN "unchanged" ELSE "read",
                        ![x].new = Processed(x, row)]
    /\ Begin
    /\ UNCHANGED <<row, event>>

\* A PATCH request reads the incident.
PatchRead(x) ==
    /\ x \in Requests
    /\ tx[x].pc = "ready"
    /\ row # Gone
    /\ \E body \in Payloads :
         tx' = [tx EXCEPT ![x].pc = "read", ![x].new = Patched(x, row, body)]
    /\ Begin
    /\ UNCHANGED <<row, event>>

\* repository.update: the second load and the assignments.
Reread(x) ==
    /\ tx[x].pc = "read"
    /\ row # Gone
    /\ tx' = [tx EXCEPT ![x].pc = "reread", ![x].loaded = row]
    /\ UNCHANGED <<row, event, overlap>>

\* Flush and commit of a PATCH.
PatchCommit(x) ==
    /\ x \in Requests
    /\ tx[x].pc = "reread"
    /\ row # Gone
    /\ row' = Flushed(x, row)
    /\ MoveTo(x, "committed")
    /\ UNCHANGED <<event, overlap>>

\* Flush, completion row and commit of a processing attempt.
ProcessCommit(x) ==
    /\ x \in Attempts
    /\ tx[x].pc = "reread"
    /\ row # Gone
    /\ row' = Flushed(x, row)
    /\ Record(x)
    /\ MoveTo(x, "committed")
    /\ UNCHANGED overlap

\* Nothing to change: the attempt commits the completion row alone, even when
\* the incident has been changed or deleted since.
UnchangedCommit(x) ==
    /\ tx[x].pc = "unchanged"
    /\ Record(x)
    /\ MoveTo(x, "committed")
    /\ UNCHANGED <<row, overlap>>

\* A 404 or IncidentNotFoundError, LookupError from update, StaleDataError from
\* the flush (these three once the incident is gone), a database error or the
\* death of the process: the transaction is rolled back.
Abort(x) ==
    /\ \/ tx[x].pc \in {"read", "reread", "unchanged"}
       \/ tx[x].pc = "ready" /\ row = Gone
    /\ MoveTo(x, "aborted")
    /\ UNCHANGED <<row, event, overlap>>

\* DELETE /incidents/{id} commits.
Delete ==
    /\ row # Gone
    /\ row' = Gone
    /\ UNCHANGED <<event, tx, overlap>>

Next ==
    \/ \E x \in Transactions :
         \/ ProcessRead(x)
         \/ PatchRead(x)
         \/ Reread(x)
         \/ PatchCommit(x)
         \/ ProcessCommit(x)
         \/ UnchangedCommit(x)
         \/ Abort(x)
    \/ Delete

\* Any interleaving: what the deployed service allows.
Spec == Init /\ [][Next]_vars

-----------------------------------------------------------------------------
\* Properties.

Commits(x) == tx[x].pc # "committed" /\ tx'[x].pc = "committed"

HasEffect(r) ==
    /\ r.status # "OPEN"
    /\ r.status = "INVESTIGATING" => r.acknowledged_at # None

\* "Resolved incidents receive a timestamp. Reopened incidents have that
\* timestamp cleared" (IncidentService._resolve_timestamp): true of every
\* sequence of transactions of which no two overlap.
ResolvedTimestampLifecycle ==
    /\ TypeOK
    /\ ~overlap /\ row # Gone => (row.status = "RESOLVED" <=> row.resolved_at # None)

\* "MONITORING / RESOLVED: -> never regressed by asynchronous processing"
\* (IncidentTaskProcessingService), whatever overlaps.
NeverRegressed ==
    [][\A x \in Attempts :
         Commits(x) /\ row # Gone /\ row.status \in {"MONITORING", "RESOLVED"} =>
           row'.status = row.status]_vars

\* The completion event reports the incident as it was committed with it: the
\* event's fields come from the value process() computed, the row's from the
\* flush, which agree unless another transaction came between.
EventReportsTheCommit ==
    [][event = None /\ event' # None /\ row' # Gone /\ ~overlap =>
         /\ event'.status = row'.status
         /\ event'.acknowledged_at = row'.acknowledged_at]_vars

\* Attempts that overlap after an expired lease still leave the incident under
\* investigation and acknowledged once one of them has reported completion, as
\* long as no PATCH is committed.
EffectIsReached ==
    event # None /\ row # Gone /\ (\A x \in Requests : tx[x].pc # "committed") =>
      HasEffect(row)
=============================================================================
