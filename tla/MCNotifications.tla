---------------------------- MODULE MCNotifications ----------------------------
(***************************************************************************)
(* Notifications for TLC.  The two Lambdas meet at one point, the arrival  *)
(* of a hand-off, and no step of the realtime notifier depends on what     *)
(* becomes of it.  So the halves are explored one at a time: the realtime  *)
(* notifier with its hand-offs piling up, and the webhook notifier with    *)
(* hand-offs that arrive at any time, whatever the other half may do.      *)
(* Every property of Notifications is about the variables of one half.     *)
(***************************************************************************)
EXTENDS Notifications

\* In the half of the webhook notifier no event is ever sent.
WebhookHalf == \A m \in Messages : queue[m] = "unsent"

MCInit ==
    /\ NoBatches("visible") \/ NoBatches("unsent")
    /\ InitChannels
    /\ Hook!NoBatches("unsent")
    /\ Hook!InitEndpoint

\* Two messages, of a sound and of a malformed event, are enough in this half: hand-offs
\* of the same event have nothing in common there.
SomeHandoffArrives ==
    /\ \E h \in Messages \X {1} :
         hookQueue[h] = "unsent" /\ Hook!Arrive({h})
    /\ UNCHANGED <<sqs, channels, sockets, hookReceives, hookBatch>>
    /\ UNCHANGED <<config, secret, received, refusals, cut>>

MCNext ==
    \/ ~WebhookHalf /\ Realtime
    \/ WebhookHalf /\ (Webhook \/ SomeHandoffArrives)

MCSpec == MCInit /\ [][MCNext]_vars
=============================================================================
