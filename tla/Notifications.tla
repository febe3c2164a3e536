----------------------------- MODULE Notifications -----------------------------
(***************************************************************************)
(* The notification pipeline: completion events, the realtime notifier,    *)
(* the queue between the Lambdas, the webhook notifier.  A hand-off of the *)
(* realtime notifier is a message of the webhook notifier's queue, named   *)
(* after its event and the receive of the event that sent it.              *)
(***************************************************************************)
EXTENDS RealtimeNotifier

CONSTANTS
    HookWorkers,  \* concurrent invocations of the webhook notifier
    Secrets       \* versions of the signing secret

VARIABLES
    hookQueue, hookReceives, hookBatch,        \* the webhook notifier's queue
    config, secret, received, refusals, cut    \* WebhookNotifier

hook == <<hookQueue, hookReceives, hookBatch, config, secret, received, refusals, cut>>
vars == <<sqs, channels, sockets, hook>>

Hook == INSTANCE WebhookNotifier WITH
          Messages <- Handoffs, Workers <- HookWorkers, Malformed <- Malformed \X (1 .. MaxReceives),
          queue <- hookQueue, receives <- hookReceives, batch <- hookBatch

ASSUME HandoffsAssumption == None \notin Handoffs

TypeOK == RealtimeTypeOK /\ Hook!WebhookTypeOK

\* The completion outbox has sent its events; no message has been handed off.
Init ==
    /\ NoBatches("visible")
    /\ InitChannels
    /\ Hook!NoBatches("unsent")
    /\ Hook!InitEndpoint

\* What an invocation hands off is in the webhook notifier's queue at once.
Send(w) ==
    /\ HandOff(w) \/ HandOffFails(w)
    /\ Hook!Arrive(handed')
    /\ UNCHANGED <<hookReceives, hookBatch, config, secret, received, refusals, cut>>

Receive(w) == \E records \in SUBSET Messages : ReceiveEvents(w, records)
HookReceive(w) == \E records \in SUBSET Handoffs : Hook!Invoke(w, records)

\* A step of the realtime notifier, and one of the webhook notifier.
Realtime ==
    \/ /\ SocketNext \/ \E w \in Workers : Receive(w) \/ Notify(w) \/ Break(w)
       /\ UNCHANGED hook
    \/ \E w \in Workers : Send(w)

Webhook ==
    /\ \/ \E w \in HookWorkers : HookReceive(w) \/ Hook!Run(w) \/ Hook!Abort(w) \/ Hook!Cool(w)
       \/ Hook!Rotate
    /\ UNCHANGED <<sqs, channels, sockets>>

Next == Realtime \/ Webhook

Spec == Init /\ [][Next]_vars

-----------------------------------------------------------------------------
\* Properties.

Handed(m) == \E n \in 1 .. MaxReceives : <<m, n>> \in handed

\* The open connections the last broadcast of m found have been told of it.
Told(m) == \A c \in owed[m] : socket[c] = "open" => m \in heard[c]

\* The record of an event is deleted only when both channels have it: the webhook
\* queue, and every connection the broadcast found that is still open
\* (dispatchIncidentTaskCompletedEvent, broadcastIncidentTaskCompletedEvent).
AcknowledgedWasAnnounced ==
    \A m \in Messages : queue[m] = "acknowledged" => Handed(m) /\ Told(m)

\* "WebSocket failure must not prevent webhook handoff. Webhook queue failure must
\* not prevent WebSocket delivery" (notificationDispatcher.ts): an event that ends in
\* the dead-letter queue over the failures of one channel has come through the other.
ChannelsAreIndependent ==
    \A m \in Messages \ Malformed :
        queue[m] = "dead" =>
            /\ "webhook" \in slips[m] \/ Handed(m)
            /\ "websocket" \in slips[m] \/ Told(m)

\* "The same logical event" is handed off again only after a failure of a channel or
\* of an invocation that had it (Duplicate delivery after partial fan-out).
RepeatsNeedAFailure ==
    \A m \in Messages : slips[m] = {} => Cardinality({h \in handed : h[1] = m}) <= 1

\* A GoneException removes the row it is about and no other (stale connections): the
\* rows of open sockets stay, unless a broadcast came before the handshake had ended.
OpenConnectionsAreListed ==
    \A c \in Connections : socket[c] = "open" => c \in connections \cup early

\* A webhook message is deleted only when the endpoint has taken it with a valid
\* signature, also when the secret was rotated under a warm environment.
DeliveredBeforeDeleted ==
    \A h \in Handoffs : hookQueue[h] = "acknowledged" => h \in received

\* Partial batch failure: a message uses up its receives by its own failures, not by
\* those of the messages in its batch, unless an invocation with it ended abruptly.
DeadByItsOwnFailures ==
    /\ TypeOK
    /\ \A h \in Handoffs \ cut : hookQueue[h] = "dead" => refusals[h] = MaxReceives
=============================================================================
