--------------------------- MODULE IncidentRequests ---------------------------
(***************************************************************************)
(* A user's way to an incident: POST /incidents at the backend, which      *)
(* forwards it to the incident service, which asks the backend in turn     *)
(* whether the service exists; then one more request about the incident:   *)
(* its notification, which reads the incident back and publishes a task, a *)
(* look at it or at a page of incidents, a change of it or its removal.    *)
(*                                                                         *)
(* The backend takes a database connection for the user of a request and   *)
(* returns it after the response, so a request holds its connection while  *)
(* it waits for the incident service; the lookup that the incident service *)
(* sends back needs a connection of the same pool.  What cuts the circle   *)
(* are the timeouts of the two HTTP clients and of the pool.               *)
(*                                                                         *)
(* get_db_session commits after the response has been sent: a user can be  *)
(* told of an incident that is not there yet, or will never be.            *)
(*                                                                         *)
(* The circuit breaker and the credentials have modules of their own; a    *)
(* call they stop is one that fails here (Unreachable, Refused,            *)
(* LookupFails).  A change leaves the incident at its service.             *)
(***************************************************************************)
EXTENDS Naturals, FiniteSets

CONSTANTS
    Users,            \* each creates one incident and may make one more request about it
    PoolSize,         \* connections of the backend, overflow included
    ReadMaxAttempts   \* read_max_attempts

VARIABLES
    call,       \* the user's request at the backend
    answer,     \* what the user has been told of the creation
    notified,   \* what the user has been told of the second request
    remote,     \* the incident service's handler of the creation
    lookup,     \* the lookup of that handler, at the backend
    change,     \* the incident service's handler of a change or a removal
    incidents,  \* users whose incident is committed, with its task in the outbox
    done,       \* users whose change, or removal, is committed
    tasks,      \* users whose notification task is published
    service,    \* the service of the incidents exists
    lost        \* history: users with a handler whose commit failed after the response

vars == <<call, answer, notified, remote, lookup, change, incidents, done, tasks, service, lost>>

changes == <<change, done>>

\* idle
\* queued      waits for a connection, to create
\* calling     holds one; the POST has been sent
\* told        answered
\* a want      waits for a connection, for the second request
\* reading     holds one; GET the incident, for its notification
\* publishing  holds one; the incident was found
\* looking     holds one; GET the incident
\* listing     holds one; GET a page of incidents
\* changing    holds one; PATCH or DELETE the incident
\* over
Wants == {"notification", "look", "list", "change", "removal"}

Connected == {"calling", "reading", "publishing", "looking", "listing", "changing"}

Calls == {"idle", "queued", "told", "over"} \cup Wants \cup Connected

\* none, over
\* arrived
\* looking     in service_exists
\* flushed     the incident and its task are written, not committed
\* denied, unavailable   404, 503
\* committing  the response has been sent
Handlers == {"none", "arrived", "looking", "flushed", "denied", "unavailable", "committing",
             "over"}

CallType == [pc : Calls, attempt : 1 .. ReadMaxAttempts]

\* A handler of PATCH or DELETE.
ChangeType == [verb : {"PATCH", "DELETE"}, pc : {"arrived", "committing", "over"}]

NoChange == [verb |-> "none", pc |-> "none"]

Answers == {"created", "no such service", "unavailable", "error", "forbidden"}
Notices == {"accepted", "found", "changed", "not found", "unavailable", "error", "forbidden"}

TypeOK ==
    /\ call \in [Users -> CallType]
    /\ answer \in [Users -> Answers \cup {"none"}]
    /\ notified \in [Users -> Notices \cup {"none"}]
    /\ remote \in [Users -> Handlers]
    /\ lookup \in [Users -> {"none", "queued", "running"}]
    /\ change \in [Users -> ChangeType \cup {NoChange}]
    /\ incidents \subseteq Users
    /\ done \subseteq Users
    /\ tasks \subseteq Users
    /\ service \in BOOLEAN
    /\ lost \subseteq Users

Init ==
    /\ call = [u \in Users |-> [pc |-> "idle", attempt |-> 1]]
    /\ answer = [u \in Users |-> "none"]
    /\ notified = [u \in Users |-> "none"]
    /\ remote = [u \in Users |-> "none"]
    /\ lookup = [u \in Users |-> "none"]
    /\ change = [u \in Users |-> NoChange]
    /\ incidents = {}
    /\ done = {}
    /\ tasks = {}
    /\ service = TRUE
    /\ lost = {}

-----------------------------------------------------------------------------
\* Helpers.

\* The connections in use: of user requests, and of lookups.
InUse ==
    Cardinality({u \in Users : call[u].pc \in Connected})
    + Cardinality({u \in Users : lookup[u] = "running"})

Free == InUse < PoolSize

\* The creation is over for the user.
Tell(u, text) ==
    /\ call' = [call EXCEPT ![u].pc = "told"]
    /\ answer' = [answer EXCEPT ![u] = text]

Close(u, text) ==
    /\ call' = [call EXCEPT ![u] = [pc |-> "over", attempt |-> 1]]
    /\ notified' = [notified EXCEPT ![u] = text]

\* Definitions named Faulty... are variants with one plausible mistake.  Nothing
\* uses them; each is substituted for the definition it precedes to see that a
\* property notices.

-----------------------------------------------------------------------------
\* The creation, at the backend.

Ask(u) ==
    /\ call[u].pc = "idle"
    /\ call' = [call EXCEPT ![u].pc = "queued"]
    /\ UNCHANGED <<answer, notified, remote, lookup, incidents, changes, tasks, service, lost>>

\* get_current_user has its connection; the permission is granted and the POST is sent.
Forward(u) ==
    /\ call[u].pc = "queued" /\ Free
    /\ call' = [call EXCEPT ![u].pc = "calling"]
    /\ \/ remote' = [remote EXCEPT ![u] = "arrived"]
       \/ UNCHANGED remote
    /\ UNCHANGED <<answer, notified, lookup, incidents, changes, tasks, service, lost>>

\* The pool has nothing within its timeout: 500.
NoConnection(u) ==
    /\ ~Free
    /\ \/ call[u].pc = "queued" /\ Tell(u, "error") /\ UNCHANGED notified
       \/ call[u].pc \in Wants /\ Close(u, "error") /\ UNCHANGED answer
    /\ UNCHANGED <<remote, lookup, incidents, changes, tasks, service, lost>>

\* The role of the user does not have the permission of the route: 403.
Denied(u) ==
    /\ Free
    /\ \/ call[u].pc = "queued" /\ Tell(u, "forbidden") /\ UNCHANGED notified
       \/ call[u].pc \in Wants /\ Close(u, "forbidden") /\ UNCHANGED answer
    /\ UNCHANGED <<remote, lookup, incidents, changes, tasks, service, lost>>

\* The client waits as long as the connection is open.
FaultyGatewayTimeout(u) ==
    /\ \/ /\ call[u].pc = "calling" /\ remote[u] = "none"
          /\ Tell(u, "unavailable") /\ UNCHANGED notified
       \/ call[u].pc = "changing" /\ Close(u, "unavailable") /\ UNCHANGED answer
    /\ UNCHANGED <<remote, lookup, incidents, changes, tasks, service, lost>>

\* TimeoutException, whatever the handler is doing.  "Mutating operations are attempted
\* exactly once" (HttpIncidentGateway): nothing is sent again.
GatewayTimeout(u) ==
    /\ \/ call[u].pc = "calling" /\ Tell(u, "unavailable") /\ UNCHANGED notified
       \/ call[u].pc = "changing" /\ Close(u, "unavailable") /\ UNCHANGED answer
    /\ UNCHANGED <<remote, lookup, incidents, changes, tasks, service, lost>>

\* No connection, no credential, an open circuit.
Unreachable(u) ==
    /\ \/ /\ call[u].pc = "calling" /\ remote[u] \in {"none", "over"}
          /\ Tell(u, "unavailable") /\ UNCHANGED notified
       \/ /\ call[u].pc = "changing" /\ change[u].pc \in {"none", "over"}
          /\ Close(u, "unavailable") /\ UNCHANGED answer
    /\ UNCHANGED <<remote, lookup, incidents, changes, tasks, service, lost>>

\* IncidentGatewayProtocolError: an answer that is none of the route's, as when the incident
\* service refuses the credential.  No handler has run.
Refused(u) ==
    /\ \/ /\ call[u].pc = "calling" /\ remote[u] = "none"
          /\ Tell(u, "error") /\ UNCHANGED notified
       \/ /\ \/ call[u].pc \in {"reading", "looking", "listing"}
             \/ call[u].pc = "changing" /\ change[u] = NoChange
          /\ Close(u, "error") /\ UNCHANGED answer
    /\ UNCHANGED <<remote, lookup, incidents, changes, tasks, service, lost>>

-----------------------------------------------------------------------------
\* The creation, at the incident service.

\* _ensure_service_exists comes first.
Look(u) ==
    /\ remote[u] = "arrived"
    /\ remote' = [remote EXCEPT ![u] = "looking"]
    /\ lookup' = [lookup EXCEPT ![u] = "queued"]
    /\ UNCHANGED <<call, answer, notified, incidents, changes, tasks, service, lost>>

\* The lookup has a connection of the backend.
LookupRuns(u) ==
    /\ lookup[u] = "queued" /\ Free
    /\ lookup' = [lookup EXCEPT ![u] = "running"]
    /\ UNCHANGED <<call, answer, notified, remote, incidents, changes, tasks, service, lost>>

\* It has its answer, and so has the handler if it still waits: the incident and its
\* task are flushed, or IncidentServiceReferenceError.
LookupEnds(u) ==
    /\ lookup[u] = "running"
    /\ lookup' = [lookup EXCEPT ![u] = "none"]
    /\ remote' = [remote EXCEPT ![u] =
                    CASE @ = "looking" /\ service -> "flushed"
                      [] @ = "looking" /\ ~service -> "denied"
                      [] @ # "looking" -> @]
    /\ UNCHANGED <<call, answer, notified, incidents, changes, tasks, service, lost>>

\* ServiceCatalogUnavailableError: the timeout of the client or of the pool, a refused
\* credential, an unusable answer.  The backend may still be at it.
LookupFails(u) ==
    /\ remote[u] = "looking"
    /\ remote' = [remote EXCEPT ![u] = "unavailable"]
    /\ lookup' \in {lookup, [lookup EXCEPT ![u] = "none"]}
    /\ UNCHANGED <<call, answer, notified, incidents, changes, tasks, service, lost>>

\* The transaction of a request that failed is committed with the rest.
FaultyRespond(u) ==
    /\ remote[u] \in {"flushed", "denied", "unavailable"}
    /\ remote' = [remote EXCEPT ![u] = "committing"]
    /\ IF call[u].pc = "calling"
       THEN Tell(u, CASE remote[u] = "flushed" -> "created"
                      [] remote[u] = "denied" -> "no such service"
                      [] remote[u] = "unavailable" -> "unavailable")
       ELSE UNCHANGED <<call, answer>>
    /\ UNCHANGED <<notified, lookup, incidents, changes, tasks, service, lost>>

\* The response: 201 before the commit, or 404 or 503 as the exception leaves the route
\* and the transaction is rolled back.  It reaches a gateway that still waits, which makes
\* of the 503 what it makes of a timeout (_require_status): the user cannot tell.
Respond(u) ==
    /\ remote[u] \in {"flushed", "denied", "unavailable"}
    /\ remote' = [remote EXCEPT ![u] = IF @ = "flushed" THEN "committing" ELSE "over"]
    /\ IF call[u].pc = "calling"
       THEN Tell(u, CASE remote[u] = "flushed" -> "created"
                      [] remote[u] = "denied" -> "no such service"
                      [] remote[u] = "unavailable" -> "unavailable")
       ELSE UNCHANGED <<call, answer>>
    /\ UNCHANGED <<notified, lookup, incidents, changes, tasks, service, lost>>

\* session.commit(), which may fail.
Commit(u) ==
    /\ remote[u] = "committing"
    /\ remote' = [remote EXCEPT ![u] = "over"]
    /\ \/ incidents' = incidents \cup {u} /\ UNCHANGED lost
       \/ lost' = lost \cup {u} /\ UNCHANGED incidents
    /\ UNCHANGED <<call, answer, notified, lookup, changes, tasks, service>>

\* The incident service is restarted: its handlers are gone, and their transactions.
Crash ==
    /\ \E u \in Users : {remote[u], change[u].pc} \ {"none", "over"} # {}
    /\ remote' = [u \in Users |-> IF remote[u] = "none" THEN "none" ELSE "over"]
    /\ change' = [u \in Users |->
                    IF change[u] = NoChange THEN NoChange ELSE [change[u] EXCEPT !.pc = "over"]]
    /\ lost' = lost \cup {u \in Users : "committing" \in {remote[u], change[u].pc}}
    /\ UNCHANGED <<call, answer, notified, lookup, incidents, done, tasks, service>>

\* DELETE /services/{id} at the backend: no incident of the incident service is touched.
DeleteService ==
    /\ service
    /\ service' = FALSE
    /\ UNCHANGED <<call, answer, notified, remote, lookup, incidents, changes, tasks, lost>>

-----------------------------------------------------------------------------
\* The second request, at the backend.

AskAgain(u) ==
    /\ call[u].pc = "told" /\ answer[u] = "created"
    /\ \E want \in Wants :
         call' = [call EXCEPT ![u].pc = want]
    /\ UNCHANGED <<answer, notified, remote, lookup, incidents, changes, tasks, service, lost>>

\* get_current_user has its connection; the permission is granted.
Take(u, want, pc) ==
    /\ call[u].pc = want /\ Free
    /\ call' = [call EXCEPT ![u].pc = pc]
    /\ UNCHANGED <<answer, notified, remote, lookup, incidents, done, tasks, service, lost>>

ForwardNotification(u) == Take(u, "notification", "reading") /\ UNCHANGED change

ForwardLook(u) == Take(u, "look", "looking") /\ UNCHANGED change

ForwardList(u) == Take(u, "list", "listing") /\ UNCHANGED change

\* The request is sent once, and arrives or not.
Sent(u, verb) ==
    change' \in {change, [change EXCEPT ![u] = [verb |-> verb, pc |-> "arrived"]]}

ForwardChange(u) == Take(u, "change", "changing") /\ Sent(u, "PATCH")

ForwardRemoval(u) == Take(u, "removal", "changing") /\ Sent(u, "DELETE")

\* An attempt fails; a read has several (_RETRYABLE_RESPONSE_STATUSES, a timeout).
AttemptFails(u) ==
    \/ /\ call[u].attempt < ReadMaxAttempts
       /\ call' = [call EXCEPT ![u].attempt = @ + 1] /\ UNCHANGED notified
    \/ call[u].attempt = ReadMaxAttempts /\ Close(u, "unavailable")

\* get_by_id: found, not found, or the attempt fails.
ReadBack(u) ==
    /\ \/ /\ call[u].pc = "reading" /\ u \in incidents
          /\ call' = [call EXCEPT ![u].pc = "publishing"] /\ UNCHANGED notified
       \/ call[u].pc = "looking" /\ u \in incidents /\ Close(u, "found")
       \/ /\ call[u].pc \in {"reading", "looking"}
          /\ (u \notin incidents /\ Close(u, "not found")) \/ AttemptFails(u)
    /\ UNCHANGED <<answer, remote, lookup, incidents, changes, tasks, service, lost>>

\* What the filters, the offset and the limit may leave of the incidents.
Pages == SUBSET incidents

\* What a page says of the user's incident.
Shown(u) == {IF u \in page THEN "found" ELSE "not found" : page \in Pages}

ReadList(u) ==
    /\ call[u].pc = "listing"
    /\ \/ \E text \in Shown(u) : Close(u, text)
       \/ AttemptFails(u)
    /\ UNCHANGED <<answer, remote, lookup, incidents, changes, tasks, service, lost>>

\* TaskPublicationService.publish; a publication that reports an error may have happened.
Publish(u) ==
    /\ call[u].pc = "publishing"
    /\ \/ Close(u, "accepted") /\ tasks' = tasks \cup {u}
       \/ Close(u, "unavailable") /\ tasks' \in {tasks, tasks \cup {u}}
    /\ UNCHANGED <<answer, remote, lookup, incidents, changes, service, lost>>

-----------------------------------------------------------------------------
\* The change or the removal, at the incident service.

\* What the gateway makes of the answer, if it still waits for it.
ChangeAnswered(u, text) ==
    IF call[u].pc = "changing" THEN Close(u, text) ELSE UNCHANGED <<call, notified>>

\* get_by_id finds nothing: the creation is not committed yet, or never.
ChangeMissing(u) ==
    /\ change[u].pc = "arrived" /\ u \notin incidents
    /\ change' = [change EXCEPT ![u].pc = "over"]
    /\ ChangeAnswered(u, "not found")
    /\ UNCHANGED <<answer, remote, lookup, incidents, done, tasks, service, lost>>

\* The row is written, or deleted, and flushed; 200 or 204 is sent before the commit.
ChangeResponds(u) ==
    /\ change[u].pc = "arrived" /\ u \in incidents
    /\ change' = [change EXCEPT ![u].pc = "committing"]
    /\ ChangeAnswered(u, "changed")
    /\ UNCHANGED <<answer, remote, lookup, incidents, done, tasks, service, lost>>

\* What is left of the incidents by a change or a removal.
Left(u) == IF change[u].verb = "DELETE" THEN incidents \ {u} ELSE incidents

\* The commit, which may fail.
ChangeCommits(u) ==
    /\ change[u].pc = "committing"
    /\ change' = [change EXCEPT ![u].pc = "over"]
    /\ \/ incidents' = Left(u) /\ done' = done \cup {u} /\ UNCHANGED lost
       \/ lost' = lost \cup {u} /\ UNCHANGED <<incidents, done>>
    /\ UNCHANGED <<call, answer, notified, remote, lookup, tasks, service>>

-----------------------------------------------------------------------------

\* What a timer or the backend itself sees to.
Served(u) ==
    \/ Forward(u) \/ Denied(u) \/ NoConnection(u) \/ GatewayTimeout(u)
    \/ ForwardNotification(u) \/ ForwardLook(u) \/ ForwardList(u)
    \/ ForwardChange(u) \/ ForwardRemoval(u)
    \/ ReadBack(u) \/ ReadList(u) \/ Publish(u)

Handle(u) ==
    \/ Look(u) \/ LookupRuns(u) \/ LookupEnds(u) \/ LookupFails(u)
    \/ Respond(u) \/ Commit(u)
    \/ ChangeMissing(u) \/ ChangeResponds(u) \/ ChangeCommits(u)

Next ==
    \/ \E u \in Users :
         \/ Ask(u) \/ AskAgain(u) \/ Served(u) \/ Unreachable(u) \/ Refused(u) \/ Handle(u)
    \/ Crash
    \/ DeleteService

\* The backend serves its requests and its timers run.  The incident service may hang.
Fairness == \A u \in Users : WF_vars(Served(u))

Spec == Init /\ [][Next]_vars /\ Fairness

-----------------------------------------------------------------------------
\* Properties.

Removed == {u \in done : change[u].verb = "DELETE"}

\* A user who was told 201 has an incident with its task until it is removed, or a commit is
\* under way or has failed - nothing else may make it missing (get_db_session); one who was
\* told 404 has none and gets none; one who was told 202 has a task (create_incident,
\* request_incident_notification); one whose change or removal was answered has it, or its
\* commit is under way or has failed (update_incident, delete_incident); what is removed
\* does not come back.  A 503 says nothing: the incident may exist, or come to exist later.
AnswersAreTrue ==
    /\ TypeOK
    /\ \A u \in Users :
         /\ answer[u] = "created" =>
              u \in incidents \cup Removed \cup lost \/ remote[u] = "committing"
         /\ answer[u] = "no such service" =>
              u \notin incidents /\ remote[u] # "committing"
         /\ notified[u] = "accepted" => u \in tasks
         /\ notified[u] = "found" => u \in incidents
         /\ notified[u] = "changed" => u \in done \cup lost \/ change[u].pc = "committing"
         /\ u \in Removed => u \notin incidents /\ remote[u] # "committing"

\* Whatever the incident service does, and though creations and lookups wait for the
\* same connections, every request gets an answer.
EveryRequestIsAnswered ==
    \A u \in Users : []<>(call[u].pc \in {"idle", "told", "over"})
=============================================================================
