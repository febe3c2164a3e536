---------------------------- MODULE WebhookNotifier ----------------------------
(***************************************************************************)
(* The webhook notifier Lambda: each record of a batch is validated,       *)
(* signed and posted to one endpoint.  An execution environment loads its  *)
(* configuration (target and signing secret) once and keeps it for as long *)
(* as it is warm; a failed load is not kept.                               *)
(*                                                                         *)
(* Every failure of a record, retryable or not by its own classification,  *)
(* returns it to the queue: handleWebhookBatch does not look at retryable. *)
(***************************************************************************)
EXTENDS SqsBatches

CONSTANTS
    Malformed,  \* messages that do not parse or validate
    Secrets     \* versions of the signing secret

VARIABLES
    config,    \* cachedConfigPromise of each execution environment: a secret
    secret,    \* the version in Secrets Manager, which the endpoint verifies with
    received,  \* history: messages the endpoint has taken with a valid signature
    refusals,  \* history: how often a message has failed by itself
    cut        \* history: messages of invocations that ended abruptly

endpoint == <<config, secret, received, refusals, cut>>

WebhookTypeOK ==
    /\ BatchesTypeOK
    /\ config \in [Workers -> Secrets \cup {None}]
    /\ secret \in Secrets
    /\ received \subseteq Messages
    /\ refusals \in [Messages -> 0 .. MaxReceives]
    /\ cut \subseteq Messages

InitEndpoint ==
    /\ config = [w \in Workers |-> None]
    /\ secret \in Secrets
    /\ received = {}
    /\ refusals = [m \in Messages |-> 0]
    /\ cut = {}

-----------------------------------------------------------------------------
\* A batch arrives.
Invoke(w, records) ==
    /\ ReceiveBatch(w, records)
    /\ UNCHANGED endpoint

\* getConfig in a cold environment.
LoadConfig(w) ==
    /\ ~Idle(w)
    /\ config[w] = None
    /\ config' = [config EXCEPT ![w] = secret]
    /\ UNCHANGED <<sqs, secret, received, refusals, cut>>

\* processRecord begins.
ProcessRecord(w, m) ==
    /\ config[w] # None
    /\ TakeUp(w, m)
    /\ UNCHANGED endpoint

\* JSON.parse or validateWebhookNotification throws.
RejectRecord(w) ==
    /\ Current(w) \in Malformed
    /\ FailRecord(w)
    /\ refusals' = [refusals EXCEPT ![Current(w)] = @ + 1]
    /\ UNCHANGED <<config, secret, received, cut>>

\* Any answer counts as a delivery.
FaultyPost(w) ==
    /\ Current(w) \in Messages \ Malformed
    /\ received' = IF config[w] = secret THEN received \cup {Current(w)} ELSE received
    /\ PassRecord(w)
    /\ UNCHANGED <<config, secret, refusals, cut>>

\* sendWebhookRequest: an answer from 200 to 299.  The endpoint verifies the signature.
Post(w) ==
    /\ Current(w) \in Messages \ Malformed
    /\ config[w] = secret
    /\ received' = received \cup {Current(w)}
    /\ PassRecord(w)
    /\ UNCHANGED <<config, secret, refusals, cut>>

\* Any other answer, a network error or a timeout; the endpoint may have taken
\* the message all the same if its signature is valid.
PostFails(w) ==
    /\ Current(w) \in Messages \ Malformed
    /\ received' \in {received} \cup
                     IF config[w] = secret THEN {received \cup {Current(w)}} ELSE {}
    /\ FailRecord(w)
    /\ refusals' = [refusals EXCEPT ![Current(w)] = @ + 1]
    /\ UNCHANGED <<config, secret, cut>>

Respond(w) ==
    /\ config[w] # None
    /\ Answer(w)
    /\ UNCHANGED endpoint

\* Loading the configuration fails, the records take longer than the 30 s of an
\* invocation, or the environment dies.
Abort(w) ==
    /\ EndAbruptly(w)
    /\ cut' = cut \cup batch[w].records
    /\ \E kept \in {config[w], None} : config' = [config EXCEPT ![w] = kept]
    /\ UNCHANGED <<secret, received, refusals>>

\* An idle environment is given up.
Cool(w) ==
    /\ Idle(w) /\ config[w] # None
    /\ config' = [config EXCEPT ![w] = None]
    /\ UNCHANGED <<sqs, secret, received, refusals, cut>>

\* The secret is replaced, here and at the endpoint.
Rotate ==
    /\ secret' \in Secrets \ {secret}
    /\ UNCHANGED <<sqs, config, received, refusals, cut>>

Run(w) ==
    \/ LoadConfig(w)
    \/ \E m \in Messages : ProcessRecord(w, m)
    \/ RejectRecord(w)
    \/ Post(w)
    \/ PostFails(w)
    \/ Respond(w)
=============================================================================
