----------------------------- MODULE OutboxRelay -----------------------------
(***************************************************************************)
(* The transactional outbox of the incident service and its relay workers  *)
(* (incident-service/app/workers/incident_outbox_relay.py).  An API        *)
(* request commits an incident together with one outbox row.  Any number   *)
(* of relay processes then loop: in ONE database transaction, lock the     *)
(* oldest publishable row (FOR UPDATE SKIP LOCKED), send it to SQS while   *)
(* holding the lock, record the outcome on the row, commit, sleep.         *)
(*                                                                         *)
(* The completion outbox (incident_task_completion_outbox_relay.py) is the *)
(* same machine over another table; its rows are created by the            *)
(* reconciler instead of a request.                                        *)
(*                                                                         *)
(* Time is counted in ticks.  A row's age is the number of ticks since its *)
(* updated_at, up to RetryTicks, after which the code cannot tell ages     *)
(* apart.                                                                  *)
(***************************************************************************)
EXTENDS Naturals

CONSTANTS
    Messages,    \* outbox rows, numbered in created_at order
    Relays,      \* relay worker processes
    None,        \* no lock holder, no message in hand
    RetryTicks   \* retry_seconds

ASSUME MessagesAssumption == Messages \subseteq Nat
ASSUME NoneAssumption == None \notin Messages \cup Relays
ASSUME RetryTicksAssumption == RetryTicks \in Nat \ {0}

VARIABLES
    row,        \* row[m]: publication_status, or "ABSENT" before the INSERT
    attempted,  \* attempted[m]: publish_attempts > 0
    age,        \* age[m]: ticks since updated_at, saturating at RetryTicks
    holder,     \* holder[m]: the relay whose session holds the row lock
    relay,      \* relay[r]: what the process is doing and with which row
    copies,     \* copies[m]: copies SQS has accepted; 2 stands for "two or more"
    faulted     \* history: a fault that can duplicate m has happened

vars == <<row, attempted, age, holder, relay, copies, faulted>>

RowStatus == {"ABSENT", "PENDING", "PUBLISHED"}

\* asleep   in sleep(poll_seconds)
\* polling  about to call relay_once
\* sending  lock_next_publishable returned a row, publish() is under way
\* acked    publish() returned a MessageId
\* failed   publish() raised TaskPublicationError
Phases == {"asleep", "polling", "sending", "acked", "failed"}

MoreCopies(n) == IF n < 2 THEN n + 1 ELSE 2

TypeOK ==
    /\ row \in [Messages -> RowStatus]
    /\ attempted \in [Messages -> BOOLEAN]
    /\ age \in [Messages -> 0..RetryTicks]
    /\ holder \in [Messages -> Relays \cup {None}]
    /\ relay \in [Relays -> [pc : Phases, msg : Messages \cup {None}]]
    /\ copies \in [Messages -> 0..2]
    /\ faulted \in [Messages -> BOOLEAN]

Asleep == [pc |-> "asleep", msg |-> None]

Init ==
    /\ row = [m \in Messages |-> "ABSENT"]
    /\ attempted = [m \in Messages |-> FALSE]
    /\ age = [m \in Messages |-> 0]
    /\ holder = [m \in Messages |-> None]
    /\ relay = [r \in Relays |-> Asleep]
    /\ copies = [m \in Messages |-> 0]
    /\ faulted = [m \in Messages |-> FALSE]

-----------------------------------------------------------------------------
\* Helpers.

\* Definitions named Faulty... are variants with one plausible mistake.  Nothing
\* uses them; each is substituted for the definition it precedes to see that a
\* property notices.

\* A failed attempt is never retried.
FaultyPublishable(m) ==
    /\ row[m] = "PENDING"
    /\ ~attempted[m]

\* The WHERE clause of lock_next_publishable.
Publishable(m) ==
    /\ row[m] = "PENDING"
    /\ ~attempted[m] \/ age[m] = RetryTicks

\* SELECT without FOR UPDATE SKIP LOCKED.
FaultyNextPublishable(m) ==
    /\ Publishable(m)
    /\ \A n \in Messages : Publishable(n) => m <= n

\* ORDER BY created_at LIMIT 1 FOR UPDATE SKIP LOCKED.
NextPublishable(m) ==
    /\ Publishable(m)
    /\ holder[m] = None
    /\ \A n \in Messages : Publishable(n) /\ holder[n] = None => m <= n

Holds(r, m) == relay[r].msg = m /\ holder[m] = r

\* What the end of r's transaction does to the locks: every one r has goes.
Unlocked(r) == [m \in Messages |-> IF holder[m] = r THEN None ELSE holder[m]]

MoveTo(r, pc) == relay' = [relay EXCEPT ![r].pc = pc]

-----------------------------------------------------------------------------
\* The request that creates an incident commits the incident and its row.
\* created_at is taken before the commit, so rows may appear out of order.
Create(m) ==
    /\ row[m] = "ABSENT"
    /\ row' = [row EXCEPT ![m] = "PENDING"]
    /\ age' = [age EXCEPT ![m] = 0]
    /\ UNCHANGED <<attempted, holder, relay, copies, faulted>>

\* sleep(poll_seconds) returns.
Wake(r) ==
    /\ relay[r].pc = "asleep"
    /\ MoveTo(r, "polling")
    /\ UNCHANGED <<row, attempted, age, holder, copies, faulted>>

LockNext(r, m) ==
    /\ relay[r].pc = "polling"
    /\ NextPublishable(m)
    /\ holder' = [holder EXCEPT ![m] = r]
    /\ relay' = [relay EXCEPT ![r] = [pc |-> "sending", msg |-> m]]
    /\ UNCHANGED <<row, attempted, age, copies, faulted>>

\* "no_pending_task".
FindNothing(r) ==
    /\ relay[r].pc = "polling"
    /\ \A m \in Messages : ~NextPublishable(m)
    /\ relay' = [relay EXCEPT ![r] = Asleep]
    /\ UNCHANGED <<row, attempted, age, holder, copies, faulted>>

SendAccepted(r, m) ==
    /\ relay[r] = [pc |-> "sending", msg |-> m]
    /\ copies' = [copies EXCEPT ![m] = MoreCopies(@)]
    /\ MoveTo(r, "acked")
    /\ UNCHANGED <<row, attempted, age, holder, faulted>>

SendRejected(r, m) ==
    /\ relay[r] = [pc |-> "sending", msg |-> m]
    /\ MoveTo(r, "failed")
    /\ UNCHANGED <<row, attempted, age, holder, copies, faulted>>

\* SQS takes the message but the answer is lost: the client sends it again by
\* itself (botocore's retries) or gives up with TaskPublicationError.
SendUncertain(r, m) ==
    /\ relay[r] = [pc |-> "sending", msg |-> m]
    /\ copies' = [copies EXCEPT ![m] = MoreCopies(@)]
    /\ \E pc \in {"sending", "failed"} : MoveTo(r, pc)
    /\ faulted' = [faulted EXCEPT ![m] = TRUE]
    /\ UNCHANGED <<row, attempted, age, holder>>

\* mark_published and the commit.  A session that lost its connection cannot
\* flush: the step needs the lock taken by LockNext.
MarkPublished(r, m) ==
    /\ relay[r].pc = "acked"
    /\ Holds(r, m)
    /\ row' = [row EXCEPT ![m] = "PUBLISHED"]
    /\ attempted' = [attempted EXCEPT ![m] = TRUE]
    /\ age' = [age EXCEPT ![m] = 0]
    /\ holder' = Unlocked(r)
    /\ relay' = [relay EXCEPT ![r] = Asleep]
    /\ UNCHANGED <<copies, faulted>>

\* The failure does not move updated_at.
FaultyBackoff(r, m) ==
    /\ relay[r].pc = "failed"
    /\ Holds(r, m)
    /\ row' = [row EXCEPT ![m] = "PENDING"]
    /\ attempted' = [attempted EXCEPT ![m] = TRUE]
    /\ holder' = Unlocked(r)
    /\ relay' = [relay EXCEPT ![r] = Asleep]
    /\ UNCHANGED <<age, copies, faulted>>

\* mark_publish_failed and the commit: the row stays PENDING and backs off.
MarkFailed(r, m) ==
    /\ relay[r].pc = "failed"
    /\ Holds(r, m)
    /\ row' = [row EXCEPT ![m] = "PENDING"]
    /\ attempted' = [attempted EXCEPT ![m] = TRUE]
    /\ age' = [age EXCEPT ![m] = 0]
    /\ holder' = Unlocked(r)
    /\ relay' = [relay EXCEPT ![r] = Asleep]
    /\ UNCHANGED <<copies, faulted>>

\* PostgreSQL drops r's connection: the transaction is rolled back and its
\* lock freed while the process is still talking to SQS.
LoseSession(r, m) ==
    /\ relay[r].pc \in {"sending", "acked", "failed"}
    /\ Holds(r, m)
    /\ holder' = Unlocked(r)
    /\ faulted' = [faulted EXCEPT ![m] = TRUE]
    /\ UNCHANGED <<row, attempted, age, relay, copies>>

\* The process dies, or SQLAlchemyError escapes relay_one (a lost session, a
\* failed flush or commit): rollback, and the container restarts it into main,
\* which polls at once.  A death outside the transaction changes nothing.
Abort(r) ==
    /\ relay[r].pc \in {"sending", "acked", "failed"}
    /\ holder' = Unlocked(r)
    /\ faulted' = [m \in Messages |->
                     \/ faulted[m]
                     \/ relay[r] = [pc |-> "acked", msg |-> m]]
    /\ relay' = [relay EXCEPT ![r] = [pc |-> "polling", msg |-> None]]
    /\ UNCHANGED <<row, attempted, age, copies>>

Older == [m \in Messages |->
            IF row[m] = "PENDING" /\ age[m] < RetryTicks
            THEN age[m] + 1 ELSE age[m]]

Tick ==
    /\ \E m \in Messages : row[m] = "PENDING" /\ age[m] < RetryTicks
    /\ age' = Older
    /\ UNCHANGED <<row, attempted, holder, relay, copies, faulted>>

Transmit(r, m) ==
    \/ LockNext(r, m)
    \/ SendAccepted(r, m)
    \/ SendRejected(r, m)
    \/ SendUncertain(r, m)
    \/ MarkPublished(r, m)
    \/ MarkFailed(r, m)
    \/ LoseSession(r, m)

Next ==
    \/ \E m \in Messages : Create(m)
    \/ \E r \in Relays : Wake(r) \/ FindNothing(r) \/ Abort(r)
    \/ \E r \in Relays, m \in Messages : Transmit(r, m)
    \/ Tick

Safety == Init /\ [][Next]_vars

-----------------------------------------------------------------------------
(***************************************************************************)
(* Fairness.  A running process keeps taking its own steps (the containers *)
(* are "restart: unless-stopped") and time passes: weak fairness.  A send  *)
(* that is tried again and again is accepted at some point, and a process  *)
(* that is tried again and again survives from the acknowledgement to the  *)
(* commit at some point: strong fairness, since a fault can disable either *)
(* step any number of times; the send that counts is made by a session     *)
(* that still holds the row.  Faults themselves get no fairness.           *)
(***************************************************************************)
RelayFairness ==
    /\ \A r \in Relays :
         /\ WF_vars(Wake(r))
         /\ WF_vars(FindNothing(r))
         /\ WF_vars(\E m \in Messages : LockNext(r, m))
         /\ WF_vars(\E m \in Messages : SendAccepted(r, m) \/ SendRejected(r, m))
         /\ WF_vars(\E m \in Messages : MarkFailed(r, m))
         /\ WF_vars(Abort(r) /\ \A m \in Messages : ~Holds(r, m))
    /\ WF_vars(Tick)

SendFairness(Sendable) ==
    \A m \in Sendable :
      /\ SF_vars(\E r \in Relays : Holds(r, m) /\ SendAccepted(r, m))
      /\ SF_vars(\E r \in Relays : MarkPublished(r, m))

Spec == Safety /\ RelayFairness /\ SendFairness(Messages)

-----------------------------------------------------------------------------
\* Properties.

\* A row is PUBLISHED only if SQS accepted the message: no crash, lost session
\* or competing relay can close a row whose message never left.
PublishedWasAccepted ==
    \A m \in Messages : row[m] = "PUBLISHED" => copies[m] > 0

\* Two relays polling the same table do not by themselves send a message
\* twice: a duplicate needs a lost answer, a lost session, or a crash between
\* the acknowledgement and the commit (README: at-least-once publication).
DuplicatesNeedAFault ==
    \A m \in Messages : copies[m] > 1 => faulted[m]

\* mark_publish_failed writes status PENDING whatever the row says; a relay
\* that lost its lock must not reopen a row another relay has published.
PublishedIsFinal ==
    [][\A m \in Messages : row[m] = "PUBLISHED" => row'[m] = "PUBLISHED"]_vars

\* The outbox delivers at least once, and every submitted message is settled.
Outbox == INSTANCE AtLeastOnceDelivery WITH
    submitted <- {m \in Messages : row[m] # "ABSENT"},
    delivered <- {m \in Messages : copies[m] > 0},
    settled   <- {m \in Messages : row[m] = "PUBLISHED"}

DeliversAtLeastOnce == Outbox!Spec

=============================================================================
