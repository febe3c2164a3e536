------------------------------ MODULE TaskWorker ------------------------------
(***************************************************************************)
(* The task worker Lambda between the task queue and the execution table.  *)
(* An invocation takes a batch of messages and works through it; each      *)
(* record is validated and then processed under an idempotency record of   *)
(* Powertools: INPROGRESS while the handler runs, COMPLETED when it has    *)
(* returned, deleted when it has raised.  The idempotency key is a field   *)
(* of its own: messages of different task_ids may carry the same one and   *)
(* stand for one business operation then.  Of the two handlers, that of    *)
(* incident.processing.requested inserts an execution record, that of      *)
(* incident.notification.requested leaves a line in the log and no record. *)
(* The answer of the invocation names the records that failed; they, and   *)
(* the whole batch of an invocation that dies, return to the queue until   *)
(* the redrive policy moves them to the dead-letter queue.                 *)
(*                                                                         *)
(* Copies of a task are messages of their own: the outbox relay and SQS    *)
(* both may send a task twice.  The visibility timeout (180 s) is longer   *)
(* than an invocation (30 s), so a message is with one invocation at most. *)
(***************************************************************************)
EXTENDS FiniteSets, Naturals

CONSTANTS
    Messages,
    Workers,      \* concurrent invocations
    Notifications,  \* those of type incident.notification.requested
    Keys,         \* idempotency_key
    Tasks,        \* task_id
    Contents,     \* what _validate_existing_record compares: the key, and more
    KeyOf,        \* the key, the task_id
    TaskOf,       \*   and
    ContentOf,    \*   the content of a message
    Traffics,     \* the sets of messages that may be sent
    BatchSize,
    MaxReceives,  \* redrive policy: maxReceiveCount
    None

ASSUME MessagesAssumption ==
    /\ Notifications \subseteq Messages
    /\ Traffics \subseteq SUBSET Messages
    /\ KeyOf \in [Messages -> Keys]
    /\ TaskOf \in [Messages -> Tasks]
    /\ ContentOf \in [Messages -> Contents]
    /\ \A m, n \in Messages : ContentOf[m] = ContentOf[n] => KeyOf[m] = KeyOf[n]

ASSUME NoneAssumption == None \notin Messages /\ None \notin Contents

ASSUME LimitsAssumption == BatchSize \in Nat \ {0} /\ MaxReceives \in Nat \ {0}

VARIABLES
    queue,        \* where each message is
    receives,     \* how often it has been received, counted up to MaxReceives
    idempotency,  \* the idempotency table
    execution,    \* the execution table: the content of the task
    worker,       \* the invocations
    notified,     \* history: the notification messages that have been handled
    effects       \* history: how often a handler took effect under a key (2 is two or
                  \* more) since the idempotency table last lost the key

tables == <<queue, receives, idempotency, execution>>
history == <<notified, effects>>
vars == <<tables, worker, history>>

\* idle
\* running   between two records
\* begun     the idempotency record of the current message is INPROGRESS
\* accepted  the handler has returned
\* refused   the handler has raised
Phases == {"idle", "running", "begun", "accepted", "refused"}

Places == {"unsent", "visible", "inflight", "acknowledged", "dead"}

TypeOK ==
    /\ queue \in [Messages -> Places]
    /\ receives \in [Messages -> 0 .. MaxReceives]
    /\ idempotency \in [Keys -> {"absent", "INPROGRESS", "COMPLETED"}]
    /\ execution \in [Tasks -> Contents \cup {None}]
    /\ notified \subseteq Notifications
    /\ effects \in [Keys -> 0 .. 2]
    /\ worker \in [Workers -> [pc : Phases,
                               batch : SUBSET Messages,   \* records received
                               left : SUBSET Messages,    \* not yet begun
                               failed : SUBSET Messages,  \* batchItemFailures
                               current : Messages \cup {None}]]

Idle == [pc |-> "idle", batch |-> {}, left |-> {}, failed |-> {}, current |-> None]

Init ==
    /\ \E sent \in Traffics :
         queue = [m \in Messages |-> IF m \in sent THEN "visible" ELSE "unsent"]
    /\ receives = [m \in Messages |-> 0]
    /\ idempotency = [k \in Keys |-> "absent"]
    /\ execution = [t \in Tasks |-> None]
    /\ worker = [w \in Workers |-> Idle]
    /\ notified = {}
    /\ effects = [k \in Keys |-> 0]

-----------------------------------------------------------------------------
\* Helpers.

\* Definitions named Faulty... are variants with one plausible mistake.  Nothing
\* uses them; each is substituted for the definition it precedes to see that a
\* property notices.

\* No redrive policy.
FaultyReturned(m) == "visible"

\* A message that was received often enough goes to the dead-letter queue.
Returned(m) == IF receives[m] >= MaxReceives THEN "dead" ELSE "visible"

\* An existing record is taken for the same task.
FaultySameTask(m) == TRUE

\* _validate_existing_record.
SameTask(m) == execution[TaskOf[m]] = ContentOf[m]

\* The current record is through; the next one may begin.
NextRecord(w) == [worker EXCEPT ![w].pc = "running", ![w].current = None]

\* lambda_handler catches whatever process_record raises.
FailRecord(w, m) ==
    worker' = [NextRecord(w) EXCEPT ![w].failed = @ \cup {m}]

Current(w) == worker[w].current

\* The handler takes effect once more.
TakeEffect(k) == effects' = [effects EXCEPT ![k] = IF @ < 2 THEN @ + 1 ELSE @]

\* The idempotency table has no record of the key any more.
Forget(k) ==
    /\ idempotency' = [idempotency EXCEPT ![k] = "absent"]
    /\ effects' = [effects EXCEPT ![k] = 0]

-----------------------------------------------------------------------------
\* The event source mapping hands a batch to an invocation.
Receive(w, batch) ==
    /\ worker[w].pc = "idle"
    /\ batch # {}
    /\ \A m \in batch : queue[m] = "visible"
    /\ queue' = [m \in Messages |-> IF m \in batch THEN "inflight" ELSE queue[m]]
    /\ receives' = [m \in Messages |->
                      IF m \in batch /\ receives[m] < MaxReceives
                      THEN receives[m] + 1 ELSE receives[m]]
    /\ worker' = [worker EXCEPT ![w] = [Idle EXCEPT !.pc = "running", !.batch = batch,
                                                    !.left = batch]]
    /\ UNCHANGED <<idempotency, execution, history>>

\* The next record of the batch is taken up.
Take(w, m) ==
    /\ worker[w].pc = "running"
    /\ worker[w].current = None
    /\ m \in worker[w].left
    /\ worker' = [worker EXCEPT ![w].left = @ \ {m}, ![w].current = m]
    /\ UNCHANGED <<tables, history>>

\* A body that is no JSON, an envelope the contract rejects, a key that is
\* INPROGRESS, or an error of the idempotency table.
Reject(w) ==
    /\ worker[w].pc = "running"
    /\ Current(w) # None
    /\ FailRecord(w, Current(w))
    /\ UNCHANGED <<tables, history>>

\* A record in progress does not stop the next invocation.
FaultyBegin(w) ==
    /\ worker[w].pc = "running"
    /\ Current(w) \in Messages
    /\ idempotency[KeyOf[Current(w)]] # "COMPLETED"
    /\ idempotency' = [idempotency EXCEPT ![KeyOf[Current(w)]] = "INPROGRESS"]
    /\ worker' = [worker EXCEPT ![w].pc = "begun"]
    /\ UNCHANGED <<queue, receives, execution, history>>

\* save_inprogress: the conditional put of the idempotency record.
Begin(w) ==
    /\ worker[w].pc = "running"
    /\ Current(w) \in Messages
    /\ idempotency[KeyOf[Current(w)]] = "absent"
    /\ idempotency' = [idempotency EXCEPT ![KeyOf[Current(w)]] = "INPROGRESS"]
    /\ worker' = [worker EXCEPT ![w].pc = "begun"]
    /\ UNCHANGED <<queue, receives, execution, history>>

\* The key is COMPLETED: the stored result stands for the handler's, though the
\* message may be of another task_id.
Repeat(w) ==
    /\ worker[w].pc = "running"
    /\ Current(w) \in Messages
    /\ idempotency[KeyOf[Current(w)]] = "COMPLETED"
    /\ worker' = NextRecord(w)
    /\ UNCHANGED <<tables, history>>

\* accept_incident_processing_task creates the record; its answer may be lost.
Create(w) ==
    /\ worker[w].pc = "begun"
    /\ Current(w) \notin Notifications
    /\ execution[TaskOf[Current(w)]] = None
    /\ execution' = [execution EXCEPT ![TaskOf[Current(w)]] = ContentOf[Current(w)]]
    /\ TakeEffect(KeyOf[Current(w)])
    /\ \E pc \in {"accepted", "refused"} : worker' = [worker EXCEPT ![w].pc = pc]
    /\ UNCHANGED <<queue, receives, idempotency, notified>>

\* It finds the very task accepted before.
FindAccepted(w) ==
    /\ worker[w].pc = "begun"
    /\ Current(w) \notin Notifications
    /\ execution[TaskOf[Current(w)]] # None
    /\ SameTask(Current(w))
    /\ worker' = [worker EXCEPT ![w].pc = "accepted"]
    /\ UNCHANGED <<tables, history>>

\* handle_incident_notification_requested.
Notify(w) ==
    /\ worker[w].pc = "begun"
    /\ Current(w) \in Notifications
    /\ notified' = notified \cup {Current(w)}
    /\ TakeEffect(KeyOf[Current(w)])
    /\ worker' = [worker EXCEPT ![w].pc = "accepted"]
    /\ UNCHANGED tables

\* The handler raises: TaskExecutionCollisionError or a DynamoDB error.
Refuse(w) ==
    /\ worker[w].pc = "begun"
    /\ worker' = [worker EXCEPT ![w].pc = "refused"]
    /\ UNCHANGED <<tables, history>>

\* save_success.
Complete(w) ==
    /\ worker[w].pc = "accepted"
    /\ idempotency' = [idempotency EXCEPT ![KeyOf[Current(w)]] = "COMPLETED"]
    /\ worker' = NextRecord(w)
    /\ UNCHANGED <<queue, receives, execution, history>>

\* delete_record, and the exception goes on to lambda_handler.
Undo(w) ==
    /\ worker[w].pc = "refused"
    /\ Forget(KeyOf[Current(w)])
    /\ FailRecord(w, Current(w))
    /\ UNCHANGED <<queue, receives, execution, notified>>

\* Either call fails: the idempotency record stays INPROGRESS.
LeaveInProgress(w) ==
    /\ worker[w].pc \in {"accepted", "refused"}
    /\ FailRecord(w, Current(w))
    /\ UNCHANGED <<tables, history>>

\* batchItemFailures.
Report(w) ==
    /\ worker[w].pc = "running"
    /\ Current(w) = None
    /\ worker[w].left = {}
    /\ queue' = [m \in Messages |->
                   IF m \notin worker[w].batch THEN queue[m]
                   ELSE IF m \in worker[w].failed THEN Returned(m)
                   ELSE "acknowledged"]
    /\ worker' = [worker EXCEPT ![w] = Idle]
    /\ UNCHANGED <<receives, idempotency, execution, history>>

\* The invocation times out or dies, or its answer or SQS's deletion is lost.
Die(w) ==
    /\ worker[w].pc # "idle"
    /\ queue' = [m \in Messages |-> IF m \in worker[w].batch THEN Returned(m) ELSE queue[m]]
    /\ worker' = [worker EXCEPT ![w] = Idle]
    /\ UNCHANGED <<receives, idempotency, execution, history>>

\* in_progress_expiration: the time left to the invocation that wrote the record,
\* so no invocation is under way with it any more.
Lapse(k) ==
    /\ idempotency[k] = "INPROGRESS"
    /\ \A w \in Workers : worker[w].pc \in {"begun", "accepted", "refused"} =>
                            KeyOf[Current(w)] # k
    /\ Forget(k)
    /\ UNCHANGED <<queue, receives, execution, worker, notified>>

\* expires_after_seconds, counted from the completion.
Expire(k) ==
    /\ idempotency[k] = "COMPLETED"
    /\ Forget(k)
    /\ UNCHANGED <<queue, receives, execution, worker, notified>>

Batches == {batch \in SUBSET Messages : Cardinality(batch) <= BatchSize}

ReceiveBatch(w) == \E batch \in Batches : Receive(w, batch)

Work(w) ==
    \/ \E m \in Messages : Take(w, m)
    \/ Reject(w)
    \/ Begin(w)
    \/ Repeat(w)
    \/ Create(w)
    \/ FindAccepted(w)
    \/ Notify(w)
    \/ Refuse(w)
    \/ Complete(w)
    \/ Undo(w)
    \/ LeaveInProgress(w)
    \/ Report(w)

Next ==
    \/ \E w \in Workers : ReceiveBatch(w) \/ Work(w) \/ Die(w)
    \/ \E k \in Keys : Lapse(k) \/ Expire(k)

Safety == Init /\ [][Next]_vars

\* Lambda polls the queue while it has messages, and an invocation goes on until
\* it answers or dies.
Spec ==
    /\ Safety
    /\ \A w \in Workers : WF_vars(ReceiveBatch(w)) /\ WF_vars(Work(w) \/ Die(w))

-----------------------------------------------------------------------------
\* Properties.

\* What a message asks for has been done for that very message.
Processed(m) ==
    IF m \in Notifications THEN m \in notified ELSE execution[TaskOf[m]] = ContentOf[m]

\* A message leaves the queue for good only when its business operation has been
\* carried out: it has been processed, or a message with its idempotency key has.
\* Nothing else will do, not an idempotency record that is still in progress or that a
\* refused task has left, another task under the same task_id, or a batch in which some
\* other record went well (lambda_handler).
AcknowledgedWasProcessed ==
    /\ TypeOK
    /\ \A m \in Messages :
         queue[m] = "acknowledged" =>
             \E n \in Messages : KeyOf[n] = KeyOf[m] /\ Processed(n)

\* "Consumers must use the idempotency key to prevent duplicate business side effects"
\* (contracts/tasks): messages of one key, of the same task_id or of others, in one
\* batch or with several invocations at once, take effect once between them, until
\* the idempotency table loses the key: the record expires, or it lapses after an
\* invocation died with it, or a handler that raised has it deleted.
OneEffectPerKey == \A k \in Keys : effects[k] <= 1

\* No message is stuck: it is acknowledged or ends in the dead-letter queue,
\* however invocations fail and idempotency records linger (redrive policy).
EveryMessageIsSettled ==
    \A m \in Messages : <>[](queue[m] \in {"unsent", "acknowledged", "dead"})
=============================================================================
