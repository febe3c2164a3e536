--------------------------- MODULE RealtimeNotifier ---------------------------
(***************************************************************************)
(* The realtime notifier Lambda.  Its SQS side takes completion events and *)
(* hands each to two channels at once: a broadcast over the WebSocket      *)
(* connections and the queue of the webhook notifier.  Both run to their   *)
(* end (Promise.allSettled); if either has failed the record fails and     *)
(* both are repeated with its next receive.  Its WebSocket side keeps the  *)
(* connection table, which a broadcast reads once and then works through.  *)
(*                                                                         *)
(* A connection id belongs to one socket and is never used again.  The     *)
(* TTL of a row (two hours at least, as long as API Gateway keeps a        *)
(* connection) removes rows of closed sockets only.                        *)
(***************************************************************************)
EXTENDS SqsBatches

CONSTANTS
    Malformed,    \* events that do not parse or validate
    Connections,  \* connection ids
    Established   \* the connections open when the model begins

ASSUME EstablishedAssumption == Established \subseteq Connections
ASSUME ReceivesAssumption == MaxReceives \in Nat \ {0}
ASSUME NoneAssumption == None \notin Messages
ASSUME MalformedAssumption == Malformed \subseteq Messages

VARIABLES
    socket,       \* API Gateway's side of each connection
    connections,  \* the connection table
    dispatch,     \* the two channels of each invocation's current record
    handed,       \* history: webhook messages sent, by event and receive
    heard,        \* history: who has been sent what
    owed,         \* history: the open connections an event's last broadcast found
    slips,        \* history: channels of an event that have failed
    early         \* history: rows deleted before their socket was open

channels == <<dispatch, handed, heard, owed, slips>>
sockets == <<socket, connections, early>>

Channels == {"websocket", "webhook"}
Handoffs == Messages \X (1 .. MaxReceives)

\* none, then listing the connections, then posting to those in todo
NoDispatch == [broadcast |-> "none", todo |-> {}, broken |-> FALSE, handoff |-> "none"]

RealtimeTypeOK ==
    /\ BatchesTypeOK
    /\ socket \in [Connections -> {"new", "opening", "open", "closed"}]
    /\ connections \subseteq Connections
    /\ dispatch \in [Workers -> [broadcast : {"none", "listing", "posting", "failed"},
                                 todo : SUBSET Connections,
                                 broken : BOOLEAN,
                                 handoff : {"none", "sending", "sent", "failed"}]]
    /\ handed \subseteq Handoffs
    /\ heard \in [Connections -> SUBSET Messages]
    /\ owed \in [Messages -> SUBSET Connections]
    /\ slips \in [Messages -> SUBSET Channels]
    /\ early \subseteq Connections

InitChannels ==
    /\ socket = [c \in Connections |-> IF c \in Established THEN "open" ELSE "new"]
    /\ connections = Established
    /\ dispatch = [w \in Workers |-> NoDispatch]
    /\ handed = {}
    /\ heard = [c \in Connections |-> {}]
    /\ owed = [m \in Messages |-> {}]
    /\ slips = [m \in Messages |-> {}]
    /\ early = {}

-----------------------------------------------------------------------------
\* The WebSocket side: each route is one call to the table.

\* $connect: saveConnection.  The socket opens when the route has answered.
SaveConnection(c) ==
    /\ socket[c] = "new"
    /\ connections' = connections \cup {c}
    /\ socket' = [socket EXCEPT ![c] = "opening"]
    /\ UNCHANGED <<early, sqs, channels>>

\* The handshake ends: the socket is open, or the answer or the client is lost.
EndHandshake(c) ==
    /\ socket[c] = "opening"
    /\ \E state \in {"open", "closed"} : socket' = [socket EXCEPT ![c] = state]
    /\ UNCHANGED <<connections, early, sqs, channels>>

\* The client goes.
Leave(c) ==
    /\ socket[c] = "open"
    /\ socket' = [socket EXCEPT ![c] = "closed"]
    /\ UNCHANGED <<connections, early, sqs, channels>>

\* $disconnect, which API Gateway may fail to deliver, or the TTL: deleteConnection.
Forget(c) ==
    /\ socket[c] = "closed" /\ c \in connections
    /\ connections' = connections \ {c}
    /\ UNCHANGED <<socket, early, sqs, channels>>

-----------------------------------------------------------------------------
\* The SQS side.

ReceiveEvents(w, records) ==
    /\ ReceiveBatch(w, records)
    /\ UNCHANGED <<channels, sockets>>

Slip(m, channel) == slips' = [slips EXCEPT ![m] = @ \cup {channel}]

\* handleSqsEvent takes up a record: dispatchIncidentTaskCompletedEvent starts
\* both channels.  A malformed record has no dispatch.
Dispatch(w, m) ==
    /\ TakeUp(w, m)
    /\ dispatch' = [dispatch EXCEPT ![w] =
                      IF m \in Malformed THEN NoDispatch
                      ELSE [NoDispatch EXCEPT !.broadcast = "listing", !.handoff = "sending"]]
    /\ UNCHANGED <<handed, heard, owed, slips, sockets>>

\* parseIncidentTaskCompletedEvent or the contract validation throws.
RejectEvent(w) ==
    /\ Current(w) \in Malformed
    /\ FailRecord(w)
    /\ UNCHANGED <<channels, sockets>>

\* listConnections: the connections of the moment.
List(w) ==
    /\ dispatch[w].broadcast = "listing"
    /\ dispatch' = [dispatch EXCEPT ![w].broadcast = "posting", ![w].todo = connections]
    /\ owed' = [owed EXCEPT ![Current(w)] = {c \in connections : socket[c] = "open"}]
    /\ UNCHANGED <<handed, heard, slips, sqs, sockets>>

\* The table cannot be read, or an item of it is malformed.
ListFails(w) ==
    /\ dispatch[w].broadcast = "listing"
    /\ dispatch' = [dispatch EXCEPT ![w].broadcast = "failed"]
    /\ Slip(Current(w), "websocket")
    /\ UNCHANGED <<handed, heard, owed, sqs, sockets>>

\* postToConnection reaches the client.
Post(w, c) ==
    /\ c \in dispatch[w].todo
    /\ socket[c] = "open"
    /\ dispatch' = [dispatch EXCEPT ![w].todo = @ \ {c}]
    /\ heard' = [heard EXCEPT ![c] = @ \cup {Current(w)}]
    /\ UNCHANGED <<handed, owed, slips, sqs, sockets>>

\* GoneException: no socket, or none yet.  The cleanup may fail.
PostGone(w, c) ==
    /\ c \in dispatch[w].todo
    /\ socket[c] \in {"opening", "closed"}
    /\ dispatch' = [dispatch EXCEPT ![w].todo = @ \ {c}]
    /\ \/ /\ connections' = connections \ {c}
          /\ early' = IF socket[c] = "opening" THEN early \cup {c} ELSE early
       \/ UNCHANGED <<connections, early>>
    /\ UNCHANGED <<handed, heard, owed, slips, socket, sqs>>

\* Any failed post counts as a stale connection.
FaultyPostFails(w, c) ==
    /\ c \in dispatch[w].todo
    /\ dispatch' = [dispatch EXCEPT ![w].todo = @ \ {c}, ![w].broken = TRUE]
    /\ connections' = connections \ {c}
    /\ Slip(Current(w), "websocket")
    /\ UNCHANGED <<handed, heard, owed, sqs, socket, early>>

\* The failure is logged like one of the cleanup.
FaultyPostFailsUnnoticed(w, c) ==
    /\ c \in dispatch[w].todo
    /\ dispatch' = [dispatch EXCEPT ![w].todo = @ \ {c}]
    /\ Slip(Current(w), "websocket")
    /\ UNCHANGED <<handed, heard, owed, sqs, sockets>>

\* Any other error, the message perhaps delivered; the loop goes on.
PostFails(w, c) ==
    /\ c \in dispatch[w].todo
    /\ dispatch' = [dispatch EXCEPT ![w].todo = @ \ {c}, ![w].broken = TRUE]
    /\ \/ UNCHANGED heard
       \/ socket[c] = "open" /\ heard' = [heard EXCEPT ![c] = @ \cup {Current(w)}]
    /\ Slip(Current(w), "websocket")
    /\ UNCHANGED <<handed, owed, sqs, sockets>>

Copy(w) == <<Current(w), receives[Current(w)]>>

\* enqueueWebhookNotification.
HandOff(w) ==
    /\ dispatch[w].handoff = "sending"
    /\ dispatch' = [dispatch EXCEPT ![w].handoff = "sent"]
    /\ handed' = handed \cup {Copy(w)}
    /\ UNCHANGED <<heard, owed, slips, sqs, sockets>>

\* SendMessage fails, the message perhaps accepted.
HandOffFails(w) ==
    /\ dispatch[w].handoff = "sending"
    /\ dispatch' = [dispatch EXCEPT ![w].handoff = "failed"]
    /\ handed' \in {handed, handed \cup {Copy(w)}}
    /\ Slip(Current(w), "webhook")
    /\ UNCHANGED <<heard, owed, sqs, sockets>>

Posted(w) == dispatch[w].broadcast = "posting" /\ dispatch[w].todo = {}
Broken(w) == dispatch[w].broadcast = "failed" \/ dispatch[w].broken \/ dispatch[w].handoff = "failed"

\* Promise.all: the record fails with the first channel that does.
FaultyBothEnded(w) ==
    \/ Broken(w)
    \/ dispatch[w].handoff = "sent" /\ Posted(w)

\* Promise.allSettled: both channels have come to their end.
BothEnded(w) ==
    /\ dispatch[w].handoff \in {"sent", "failed"}
    /\ Posted(w) \/ dispatch[w].broadcast = "failed"

\* The record is through if both channels are, and fails with either.
EndDispatch(w) ==
    /\ Current(w) # None /\ BothEnded(w)
    /\ IF Broken(w) THEN FailRecord(w) ELSE PassRecord(w)
    /\ dispatch' = [dispatch EXCEPT ![w] = NoDispatch]
    /\ UNCHANGED <<handed, heard, owed, slips, sockets>>

Reply(w) ==
    /\ Answer(w)
    /\ UNCHANGED <<channels, sockets>>

\* The invocation raises on a record without an identifier, times out or dies.
Break(w) ==
    /\ EndAbruptly(w)
    /\ dispatch' = [dispatch EXCEPT ![w] = NoDispatch]
    /\ slips' = [m \in Messages |-> IF m \in batch[w].records THEN Channels ELSE slips[m]]
    /\ UNCHANGED <<handed, heard, owed, sockets>>

Fanout(w) ==
    \/ List(w)
    \/ ListFails(w)
    \/ \E c \in Connections : Post(w, c) \/ PostGone(w, c) \/ PostFails(w, c)

Notify(w) ==
    \/ \E m \in Messages : Dispatch(w, m)
    \/ RejectEvent(w)
    \/ Fanout(w)
    \/ EndDispatch(w)
    \/ Reply(w)

SocketNext == \E c \in Connections : SaveConnection(c) \/ EndHandshake(c) \/ Leave(c) \/ Forget(c)
=============================================================================
