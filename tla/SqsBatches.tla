------------------------------ MODULE SqsBatches ------------------------------
(***************************************************************************)
(* What the two notifier Lambdas have in common: an SQS queue, an event    *)
(* source mapping that hands batches of it to invocations, a loop over the *)
(* records of a batch that catches what a record raises, an answer that    *)
(* names the records that failed (ReportBatchItemFailures), and a redrive  *)
(* policy.  The visibility timeout (180 s at least) is longer than an      *)
(* invocation (30 s), so a message is with one invocation at most.         *)
(***************************************************************************)
EXTENDS FiniteSets, Naturals

CONSTANTS
    Messages,
    Workers,      \* concurrent invocations
    BatchSize,
    MaxReceives,  \* maxReceiveCount
    None

VARIABLES
    queue,     \* where each message is
    receives,  \* how often it has been received
    batch      \* the batch of each invocation

sqs == <<queue, receives, batch>>

Places == {"unsent", "visible", "inflight", "acknowledged", "dead"}

NoBatch == [records |-> {}, left |-> {}, failed |-> {}, current |-> None]

BatchesTypeOK ==
    /\ queue \in [Messages -> Places]
    /\ receives \in [Messages -> 0 .. MaxReceives]
    /\ batch \in [Workers -> [records : SUBSET Messages,  \* the event's Records
                              left : SUBSET Messages,     \* not yet begun
                              failed : SUBSET Messages,   \* batchItemFailures
                              current : Messages \cup {None}]]

NoBatches(place) ==
    /\ queue = [m \in Messages |-> place]
    /\ receives = [m \in Messages |-> 0]
    /\ batch = [w \in Workers |-> NoBatch]

Current(w) == batch[w].current
Idle(w) == batch[w].records = {}

\* Definitions named Faulty... are variants with one plausible mistake.  Nothing
\* uses them; each is substituted for the definition it precedes to see that a
\* property notices.

\* A record whose failures reach the limit goes to the dead-letter queue.
Returned(m) == IF receives[m] >= MaxReceives THEN "dead" ELSE "visible"

\* SendMessage.
Arrive(ms) ==
    queue' = [m \in Messages |-> IF m \in ms /\ queue[m] = "unsent" THEN "visible" ELSE queue[m]]

\* The event source mapping hands a batch to an invocation.
ReceiveBatch(w, records) ==
    /\ Idle(w)
    /\ records # {}
    /\ Cardinality(records) <= BatchSize
    /\ \A m \in records : queue[m] = "visible"
    /\ queue' = [m \in Messages |-> IF m \in records THEN "inflight" ELSE queue[m]]
    /\ receives' = [m \in Messages |-> IF m \in records THEN receives[m] + 1 ELSE receives[m]]
    /\ batch' = [batch EXCEPT ![w] = [NoBatch EXCEPT !.records = records, !.left = records]]

\* The loop takes up the next record.
TakeUp(w, m) ==
    /\ Current(w) = None
    /\ m \in batch[w].left
    /\ batch' = [batch EXCEPT ![w].left = @ \ {m}, ![w].current = m]
    /\ UNCHANGED <<queue, receives>>

\* The current record is through.
PassRecord(w) ==
    /\ batch' = [batch EXCEPT ![w].current = None]
    /\ UNCHANGED <<queue, receives>>

\* The loop ends with the first record that fails.
FaultyFailRecord(w) ==
    /\ batch' = [batch EXCEPT ![w].current = None, ![w].left = {},
                              ![w].failed = @ \cup {Current(w)} \cup batch[w].left]
    /\ UNCHANGED <<queue, receives>>

\* The current record has raised: it is reported, and the loop goes on.
FailRecord(w) ==
    /\ batch' = [batch EXCEPT ![w].current = None, ![w].failed = @ \cup {Current(w)}]
    /\ UNCHANGED <<queue, receives>>

\* The mapping has no ReportBatchItemFailures: one failure returns the whole batch.
FaultyAnswer(w) ==
    /\ ~Idle(w) /\ Current(w) = None /\ batch[w].left = {}
    /\ queue' = [m \in Messages |->
                   IF m \notin batch[w].records THEN queue[m]
                   ELSE IF batch[w].failed # {} THEN Returned(m)
                   ELSE "acknowledged"]
    /\ batch' = [batch EXCEPT ![w] = NoBatch]
    /\ UNCHANGED receives

\* The invocation answers with batchItemFailures; SQS deletes the other records.
Answer(w) ==
    /\ ~Idle(w) /\ Current(w) = None /\ batch[w].left = {}
    /\ queue' = [m \in Messages |->
                   IF m \notin batch[w].records THEN queue[m]
                   ELSE IF m \in batch[w].failed THEN Returned(m)
                   ELSE "acknowledged"]
    /\ batch' = [batch EXCEPT ![w] = NoBatch]
    /\ UNCHANGED receives

\* The invocation raises, times out or dies, or its answer is lost: the whole
\* batch returns.
EndAbruptly(w) ==
    /\ ~Idle(w)
    /\ queue' = [m \in Messages |-> IF m \in batch[w].records THEN Returned(m) ELSE queue[m]]
    /\ batch' = [batch EXCEPT ![w] = NoBatch]
    /\ UNCHANGED receives

Settled(m) == queue[m] \in {"acknowledged", "dead"}
=============================================================================
