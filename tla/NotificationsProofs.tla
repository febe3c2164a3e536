------------------------- MODULE NotificationsProofs -------------------------
(***************************************************************************)
(* Proofs about Notifications, for any number of events, invocations and   *)
(* connections, any batch size and any limit on receives.                  *)
(*                                                                         *)
(* The argument follows a record through its invocation: while it is the   *)
(* current one, Underway says what each of its two channels has brought    *)
(* about so far; once the loop has left it behind, Outcomes keeps that as  *)
(* Through or Tried; and since no other invocation has the record          *)
(* (Batches), no later broadcast can change what its clients are owed.     *)
(***************************************************************************)
EXTENDS Notifications, TLAPS, FiniteSetTheorems

BatchType == [records : SUBSET Messages, left : SUBSET Messages, failed : SUBSET Messages,
              current : Messages \cup {None}]

DispatchType == [broadcast : {"none", "listing", "posting", "failed"},
                 todo : SUBSET Connections, broken : BOOLEAN,
                 handoff : {"none", "sending", "sent", "failed"}]

\* The records of a batch that the loop has left behind.
Done(w) == batch[w].records \ (batch[w].left \cup {Current(w)})

\* What an invocation has is in flight, and its dispatch belongs to a record.
Holds(w) ==
    /\ batch[w].left \subseteq batch[w].records
    /\ batch[w].failed \subseteq Done(w)
    /\ Current(w) \in (batch[w].records \ batch[w].left) \cup {None}
    /\ Current(w) \in Malformed \cup {None} => dispatch[w] = NoDispatch
    /\ \A m \in batch[w].records : queue[m] = "inflight"

\* A message is with one invocation at most.
Batches ==
    /\ \A w \in Workers : Holds(w)
    /\ \A v, w \in Workers : v # w => batch[v].records \cap batch[w].records = {}

\* A message in the queue has a receive left, one in flight has used one.
Receives ==
    \A m \in Messages :
        /\ queue[m] = "visible" => receives[m] < MaxReceives
        /\ queue[m] = "inflight" => receives[m] > 0

\* A socket that is open or opening has its row, and only open ones are owed anything.
Sockets ==
    /\ \A c \in Connections : socket[c] \in {"opening", "open"} => c \in connections \cup early
    /\ \A m \in Messages : \A c \in owed[m] : socket[c] \in {"open", "closed"}

\* The two channels of the current record, as far as they have come.
Underway(w) ==
    LET m == Current(w)
    IN  /\ dispatch[w].handoff = "sent" => Handed(m)
        /\ dispatch[w].handoff = "failed" => "webhook" \in slips[m]
        /\ dispatch[w].broken \/ dispatch[w].broadcast = "failed" => "websocket" \in slips[m]
        /\ dispatch[w].broadcast = "posting" /\ ~dispatch[w].broken =>
             \A c \in owed[m] \ dispatch[w].todo : socket[c] = "open" => m \in heard[c]

Through(m) == Handed(m) /\ Told(m)

\* Each channel has it or has failed.
Tried(m) ==
    /\ "webhook" \in slips[m] \/ Handed(m)
    /\ "websocket" \in slips[m] \/ Told(m)

\* Of the records an invocation has left behind, the failed ones and the others.
Left(w) ==
    /\ \A m \in Done(w) \ batch[w].failed : Through(m)
    /\ \A m \in batch[w].failed \ Malformed : slips[m] # {} /\ Tried(m)

\* What becomes of a message.
Ended(m) ==
    /\ queue[m] = "acknowledged" => Through(m)
    /\ queue[m] = "dead" => m \in Malformed \/ Tried(m)

Outcomes ==
    /\ \A w \in Workers : Underway(w) /\ Left(w)
    /\ \A m \in Messages : Ended(m)

\* What has not slipped is received once.
Once ==
    /\ \A m \in Messages \ Malformed : slips[m] = {} =>
         /\ receives[m] <= 1
         /\ queue[m] = "visible" => receives[m] = 0
    /\ \A h \in handed : 0 < h[2] /\ h[1] \notin Malformed /\ h[2] <= receives[h[1]]

IInv ==
    /\ RealtimeTypeOK
    /\ Batches /\ Receives /\ Sockets /\ Outcomes /\ Once

-----------------------------------------------------------------------------
\* What the operators of SqsBatches do to a batch, field by field.

LEMMA Returning ==
  ASSUME RealtimeTypeOK, NEW m \in Messages
  PROVE  /\ Returned(m) \in {"dead", "visible"}
         /\ Returned(m) = "visible" => receives[m] < MaxReceives
BY ReceivesAssumption DEF RealtimeTypeOK, BatchesTypeOK, Returned

\* Only the batch of w changes, to r.
LEMMA Replacing ==
  ASSUME RealtimeTypeOK, NEW w \in Workers, NEW r \in BatchType,
         batch' = [batch EXCEPT ![w] = r]
  PROVE  /\ batch' \in [Workers -> BatchType]
         /\ \A v \in Workers \ {w} : batch'[v] = batch[v]
         /\ batch'[w] = r
<1>1. batch \in [Workers -> BatchType]
  BY DEF RealtimeTypeOK, BatchesTypeOK, BatchType
<1> QED
  BY <1>1

LEMMA Receiving ==
  ASSUME RealtimeTypeOK, Receives, NEW w \in Workers, NEW records \in SUBSET Messages,
         ReceiveBatch(w, records)
  PROVE  /\ BatchesTypeOK' /\ batch[w].records = {}
         /\ \A v \in Workers \ {w} : batch'[v] = batch[v]
         /\ batch'[w].records = records /\ batch'[w].left = records
         /\ batch'[w].failed = {} /\ batch'[w].current = None
<1> DEFINE r == [NoBatch EXCEPT !.records = records, !.left = records]
<1>1. r \in BatchType
  BY DEF NoBatch, BatchType
<1>2. r.records = records /\ r.left = records /\ r.failed = {} /\ r.current = None
  BY DEF NoBatch
<1>3. batch' = [batch EXCEPT ![w] = r]
  BY DEF ReceiveBatch
<1> HIDE DEF r
<1>4. /\ batch' \in [Workers -> BatchType]
      /\ \A v \in Workers \ {w} : batch'[v] = batch[v]
      /\ batch'[w] = r
  BY <1>1, <1>3, Replacing
<1>5. \A m \in Messages : receives[m] \in 0 .. MaxReceives
  BY DEF RealtimeTypeOK, BatchesTypeOK
<1>6. \A m \in records : receives[m] < MaxReceives
  BY DEF ReceiveBatch, Receives
<1>7. receives' \in [Messages -> 0 .. MaxReceives]
  BY <1>5, <1>6, ReceivesAssumption DEF ReceiveBatch
<1>8. queue' \in [Messages -> Places]
  BY DEF ReceiveBatch, RealtimeTypeOK, BatchesTypeOK, Places
<1>9. BatchesTypeOK'
  BY <1>4, <1>7, <1>8 DEF BatchesTypeOK, BatchType
<1>10. batch[w].records = {}
  BY DEF ReceiveBatch, Idle
<1> QED
  BY <1>2, <1>4, <1>9, <1>10

LEMMA TakingUp ==
  ASSUME RealtimeTypeOK, NEW w \in Workers, NEW m \in Messages, TakeUp(w, m)
  PROVE  /\ BatchesTypeOK'
         /\ \A v \in Workers \ {w} : batch'[v] = batch[v]
         /\ batch[w].current = None /\ m \in batch[w].left
         /\ batch'[w].records = batch[w].records /\ batch'[w].failed = batch[w].failed
         /\ batch'[w].left = batch[w].left \ {m} /\ batch'[w].current = m
<1>1. batch \in [Workers -> BatchType]
  BY DEF RealtimeTypeOK, BatchesTypeOK, BatchType
<1>2. batch' \in [Workers -> BatchType]
  BY <1>1 DEF TakeUp, BatchType, Current
<1>3. BatchesTypeOK'
  BY <1>2 DEF TakeUp, RealtimeTypeOK, BatchesTypeOK, BatchType
<1> QED
  BY <1>1, <1>3 DEF TakeUp, BatchType, Current

LEMMA Passing ==
  ASSUME RealtimeTypeOK, NEW w \in Workers, PassRecord(w)
  PROVE  /\ BatchesTypeOK'
         /\ \A v \in Workers \ {w} : batch'[v] = batch[v]
         /\ batch'[w].records = batch[w].records /\ batch'[w].failed = batch[w].failed
         /\ batch'[w].left = batch[w].left /\ batch'[w].current = None
<1>1. batch \in [Workers -> BatchType]
  BY DEF RealtimeTypeOK, BatchesTypeOK, BatchType
<1>2. batch' \in [Workers -> BatchType]
  BY <1>1 DEF PassRecord, BatchType
<1>3. BatchesTypeOK'
  BY <1>2 DEF PassRecord, RealtimeTypeOK, BatchesTypeOK, BatchType
<1> QED
  BY <1>1, <1>3 DEF PassRecord, BatchType

LEMMA Failing ==
  ASSUME RealtimeTypeOK, NEW w \in Workers, Current(w) \in Messages, FailRecord(w)
  PROVE  /\ BatchesTypeOK'
         /\ \A v \in Workers \ {w} : batch'[v] = batch[v]
         /\ batch'[w].records = batch[w].records /\ batch'[w].left = batch[w].left
         /\ batch'[w].failed = batch[w].failed \cup {Current(w)} /\ batch'[w].current = None
<1>1. batch \in [Workers -> BatchType]
  BY DEF RealtimeTypeOK, BatchesTypeOK, BatchType
<1>2. batch' \in [Workers -> BatchType]
  BY <1>1 DEF FailRecord, BatchType, Current
<1>3. BatchesTypeOK'
  BY <1>2 DEF FailRecord, RealtimeTypeOK, BatchesTypeOK, BatchType
<1> QED
  BY <1>1, <1>3 DEF FailRecord, BatchType, Current

LEMMA Clearing ==
  ASSUME RealtimeTypeOK, NEW w \in Workers, Answer(w) \/ EndAbruptly(w)
  PROVE  /\ BatchesTypeOK'
         /\ \A v \in Workers \ {w} : batch'[v] = batch[v]
         /\ batch'[w].records = {} /\ batch'[w].failed = {}
         /\ batch'[w].left = {} /\ batch'[w].current = None
<1>1. batch' = [batch EXCEPT ![w] = NoBatch] /\ UNCHANGED receives
  BY DEF Answer, EndAbruptly
<1>2. NoBatch \in BatchType
  BY DEF NoBatch, BatchType
<1>3. queue' \in [Messages -> Places]
  <2>1. \A m \in Messages : queue[m] \in Places /\ Returned(m) \in Places
    BY Returning DEF RealtimeTypeOK, BatchesTypeOK, Places
  <2>2. CASE Answer(w)
    BY <2>1, <2>2 DEF Answer, Places
  <2>3. CASE EndAbruptly(w)
    BY <2>1, <2>3 DEF EndAbruptly
  <2> QED
    BY <2>2, <2>3
<1>4. /\ batch' \in [Workers -> BatchType]
      /\ \A v \in Workers \ {w} : batch'[v] = batch[v]
      /\ batch'[w] = NoBatch
  BY <1>1, <1>2, Replacing
<1>5. BatchesTypeOK'
  BY <1>1, <1>3, <1>4 DEF RealtimeTypeOK, BatchesTypeOK, BatchType
<1> QED
  BY <1>4, <1>5 DEF NoBatch

-----------------------------------------------------------------------------
\* The steps of the realtime notifier, and the steps that leave it alone.

RealtimeVars == <<sqs, channels, sockets>>

Step ==
    \/ SocketNext
    \/ \E w \in Workers : Receive(w) \/ Notify(w) \/ Break(w) \/ HandOff(w) \/ HandOffFails(w)

LEMMA NextIsAStep == Next => Step \/ UNCHANGED RealtimeVars
BY DEF Next, Realtime, Webhook, Send, Step, RealtimeVars

\* Who works on which record.
LEMMA CurrentIsARecord ==
  ASSUME RealtimeTypeOK, NEW w \in Workers
  PROVE  /\ Current(w) \in Messages \cup {None}
         /\ batch[w].records \subseteq Messages /\ batch[w].left \subseteq Messages
         /\ batch[w].failed \subseteq Messages
         /\ batch[w] \in BatchType /\ dispatch[w] \in DispatchType
BY DEF RealtimeTypeOK, BatchesTypeOK, BatchType, DispatchType, Current

LEMMA Busy ==
  ASSUME RealtimeTypeOK, Batches, NEW w \in Workers, dispatch[w] # NoDispatch
  PROVE  Current(w) \in Messages \ Malformed
BY CurrentIsARecord DEF Batches, Holds

LEMMA NoDispatchIsTyped == NoDispatch \in DispatchType
BY DEF NoDispatch, DispatchType

\* A dispatch that has begun differs from NoDispatch.
LEMMA Begun ==
  ASSUME RealtimeTypeOK, Batches, NEW w \in Workers,
         \/ dispatch[w].broadcast # "none"
         \/ dispatch[w].handoff # "none"
         \/ dispatch[w].todo # {}
         \/ dispatch[w].broken
  PROVE  Current(w) \in Messages \ Malformed
BY Busy DEF NoDispatch

\* A record that an invocation works on has been received.
LEMMA InFlight ==
  ASSUME IInv, NEW w \in Workers, Current(w) \in Messages
  PROVE  /\ Current(w) \in batch[w].records /\ queue[Current(w)] = "inflight"
         /\ Copy(w) \in Handoffs /\ Copy(w)[1] = Current(w) /\ Copy(w)[2] = receives[Current(w)]
<1>1. Current(w) \in batch[w].records /\ queue[Current(w)] = "inflight"
  BY NoneAssumption DEF IInv, Batches, Holds
<1>2. receives[Current(w)] \in 1 .. MaxReceives
  BY <1>1, ReceivesAssumption DEF IInv, Receives, RealtimeTypeOK, BatchesTypeOK
<1> QED
  BY <1>1, <1>2 DEF Copy, Handoffs

-----------------------------------------------------------------------------
\* Types.

LEMMA TypesStay == ASSUME IInv, Step PROVE RealtimeTypeOK'
<1> USE DEF IInv
<1>1. dispatch \in [Workers -> DispatchType]
  BY DEF RealtimeTypeOK, DispatchType
<1>2. ASSUME NEW c \in Connections,
             SaveConnection(c) \/ EndHandshake(c) \/ Leave(c) \/ Forget(c)
      PROVE  RealtimeTypeOK'
  <2> USE <1>2
  <2>1. socket' \in [Connections -> {"new", "opening", "open", "closed"}]
    BY DEF RealtimeTypeOK, SaveConnection, EndHandshake, Leave, Forget, sockets
  <2>2. connections' \subseteq Connections /\ UNCHANGED <<early, sqs, channels>>
    BY DEF RealtimeTypeOK, SaveConnection, EndHandshake, Leave, Forget
  <2> QED
    BY <2>1, <2>2 DEF RealtimeTypeOK, BatchesTypeOK, sqs, channels
<1>3. ASSUME NEW w \in Workers, Receive(w)
      PROVE  RealtimeTypeOK'
  <2>1. PICK records \in SUBSET Messages : ReceiveEvents(w, records)
    BY <1>3 DEF Receive
  <2>2. BatchesTypeOK'
    BY <2>1, Receiving DEF ReceiveEvents
  <2> QED
    BY <2>1, <2>2 DEF ReceiveEvents, RealtimeTypeOK, channels, sockets
<1>4. ASSUME NEW w \in Workers, NEW m \in Messages, Dispatch(w, m)
      PROVE  RealtimeTypeOK'
  <2>1. BatchesTypeOK'
    BY <1>4, TakingUp DEF Dispatch
  <2>2. [NoDispatch EXCEPT !.broadcast = "listing", !.handoff = "sending"] \in DispatchType
    BY DEF NoDispatch, DispatchType
  <2>3. dispatch' \in [Workers -> DispatchType]
    BY <1>1, <1>4, <2>2, NoDispatchIsTyped DEF Dispatch
  <2> QED
    BY <1>4, <2>1, <2>3 DEF Dispatch, RealtimeTypeOK, DispatchType, sockets
<1>5. ASSUME NEW w \in Workers, RejectEvent(w)
      PROVE  RealtimeTypeOK'
  <2>1. BatchesTypeOK'
    BY <1>5, Failing, MalformedAssumption DEF RejectEvent
  <2> QED
    BY <1>5, <2>1 DEF RejectEvent, RealtimeTypeOK, channels, sockets
<1>6. ASSUME NEW w \in Workers, List(w) \/ ListFails(w)
      PROVE  RealtimeTypeOK'
  <2>1. Current(w) \in Messages
    BY <1>6, Begun DEF List, ListFails
  <2>2. dispatch' \in [Workers -> DispatchType]
    BY <1>1, <1>6 DEF List, ListFails, DispatchType, RealtimeTypeOK
  <2>3. owed' \in [Messages -> SUBSET Connections]
    BY <1>6, <2>1 DEF List, ListFails, RealtimeTypeOK
  <2>4. slips' \in [Messages -> SUBSET Channels]
    BY <1>6, <2>1 DEF List, ListFails, Slip, Channels, RealtimeTypeOK
  <2>5. UNCHANGED <<handed, heard, sqs, sockets>>
    BY <1>6 DEF List, ListFails
  <2> QED
    BY <2>2, <2>3, <2>4, <2>5 DEF RealtimeTypeOK, BatchesTypeOK, DispatchType, sqs, sockets
<1>7. ASSUME NEW w \in Workers, NEW c \in Connections,
             Post(w, c) \/ PostGone(w, c) \/ PostFails(w, c)
      PROVE  RealtimeTypeOK'
  <2>1. Current(w) \in Messages
    BY <1>7, Begun DEF Post, PostGone, PostFails
  <2>2. dispatch' \in [Workers -> DispatchType]
    BY <1>1, <1>7 DEF Post, PostGone, PostFails, DispatchType
  <2>3. heard' \in [Connections -> SUBSET Messages]
    <3>1. heard \in [Connections -> SUBSET Messages] /\ heard[c] \cup {Current(w)} \in SUBSET Messages
      BY <2>1 DEF RealtimeTypeOK
    <3>2. heard' = heard \/ heard' = [heard EXCEPT ![c] = heard[c] \cup {Current(w)}]
      BY <1>7 DEF Post, PostGone, PostFails
    <3> QED
      BY <3>1, <3>2
  <2>4. slips' \in [Messages -> SUBSET Channels]
    BY <1>7, <2>1 DEF Post, PostGone, PostFails, Slip, Channels, RealtimeTypeOK
  <2>5. connections' \subseteq Connections /\ early' \subseteq Connections
    BY <1>7 DEF Post, PostGone, PostFails, RealtimeTypeOK, sockets
  <2>6. UNCHANGED <<handed, owed, socket, sqs>>
    BY <1>7 DEF Post, PostGone, PostFails, sockets
  <2> QED
    BY <2>2, <2>3, <2>4, <2>5, <2>6 DEF RealtimeTypeOK, BatchesTypeOK, DispatchType, sqs
<1>8. ASSUME NEW w \in Workers, HandOff(w) \/ HandOffFails(w)
      PROVE  RealtimeTypeOK'
  <2>1. Current(w) \in Messages
    BY <1>8, Begun DEF HandOff, HandOffFails
  <2>2. Copy(w) \in Handoffs
    BY <1>8, <2>1, InFlight DEF HandOff, HandOffFails
  <2>3. dispatch' \in [Workers -> DispatchType]
    BY <1>1, <1>8 DEF HandOff, HandOffFails, DispatchType
  <2>4. handed' \subseteq Handoffs
    BY <1>8, <2>2 DEF HandOff, HandOffFails, RealtimeTypeOK
  <2>5. slips' \in [Messages -> SUBSET Channels]
    BY <1>8, <2>1 DEF HandOff, HandOffFails, Slip, Channels, RealtimeTypeOK
  <2>6. UNCHANGED <<heard, owed, sqs, sockets>>
    BY <1>8 DEF HandOff, HandOffFails
  <2> QED
    BY <2>3, <2>4, <2>5, <2>6 DEF RealtimeTypeOK, BatchesTypeOK, DispatchType, sqs, sockets
<1>9. ASSUME NEW w \in Workers, EndDispatch(w)
      PROVE  RealtimeTypeOK'
  <2>1. BatchesTypeOK'
    BY <1>9, Failing, Passing, CurrentIsARecord DEF EndDispatch
  <2>2. dispatch' \in [Workers -> DispatchType]
    BY <1>1, <1>9, NoDispatchIsTyped DEF EndDispatch
  <2> QED
    BY <1>9, <2>1, <2>2 DEF EndDispatch, RealtimeTypeOK, DispatchType, sockets
<1>10. ASSUME NEW w \in Workers, Reply(w)
       PROVE  RealtimeTypeOK'
  <2>1. BatchesTypeOK'
    BY <1>10, Clearing DEF Reply
  <2> QED
    BY <1>10, <2>1 DEF Reply, RealtimeTypeOK, channels, sockets
<1>11. ASSUME NEW w \in Workers, Break(w)
       PROVE  RealtimeTypeOK'
  <2>1. BatchesTypeOK'
    BY <1>11, Clearing DEF Break
  <2>2. dispatch' \in [Workers -> DispatchType]
    BY <1>1, <1>11, NoDispatchIsTyped DEF Break
  <2>3. slips' \in [Messages -> SUBSET Channels]
    BY <1>11 DEF Break, RealtimeTypeOK
  <2> QED
    BY <1>11, <2>1, <2>2, <2>3 DEF Break, RealtimeTypeOK, DispatchType, sockets
<1> QED
  BY <1>2, <1>3, <1>4, <1>5, <1>6, <1>7, <1>8, <1>9, <1>10, <1>11
  DEF Step, SocketNext, Notify, Fanout

-----------------------------------------------------------------------------
\* Batches.

\* What w does to its own batch and records leaves the others' theirs.
LEMMA OneBatch ==
  ASSUME RealtimeTypeOK, Batches, NEW w \in Workers, Holds(w)',
         \A v \in Workers \ {w} : batch'[v] = batch[v] /\ dispatch'[v] = dispatch[v],
         \A m \in Messages \ batch[w].records : queue[m] = "inflight" => queue'[m] = "inflight",
         \A m \in batch'[w].records : m \in batch[w].records \/ queue[m] # "inflight"
  PROVE  Batches'
<1>1. ASSUME NEW v \in Workers, v # w
      PROVE  Holds(v)' /\ batch'[v].records \cap batch'[w].records = {}
  <2>1. /\ batch'[v] = batch[v] /\ dispatch'[v] = dispatch[v]
        /\ batch[v].records \subseteq Messages /\ batch[v].records \cap batch[w].records = {}
    BY <1>1, CurrentIsARecord DEF Batches
  <2>2. \A m \in batch[v].records : queue[m] = "inflight"
    BY DEF Batches, Holds
  <2>3. \A m \in batch'[v].records : queue'[m] = "inflight"
    BY <2>1, <2>2
  <2>4. Holds(v)'
    BY <2>1, <2>3 DEF Batches, Holds, Done, Current
  <2> QED
    BY <2>1, <2>2, <2>4
<1>2. \A u, v \in Workers \ {w} : u # v => batch'[u].records \cap batch'[v].records = {}
  BY DEF Batches
<1> QED
  BY <1>1, <1>2 DEF Batches

\* A step within a dispatch.
LEMMA SameBatches ==
  ASSUME RealtimeTypeOK, Batches, UNCHANGED sqs, NEW w \in Workers, Current(w) \in Messages \ Malformed,
         \A v \in Workers \ {w} : dispatch'[v] = dispatch[v]
  PROVE  Batches'
<1>1. Current(w)' = Current(w) /\ Current(w) \notin Malformed \cup {None}
  BY NoneAssumption DEF sqs, Current
<1>2. Holds(w)'
  BY <1>1 DEF Batches, Holds, sqs, Done
<1> QED
  BY <1>2, OneBatch DEF Batches, Holds, sqs

LEMMA BatchesStay == ASSUME IInv, Step PROVE Batches'
<1> USE DEF IInv
<1>1. dispatch \in [Workers -> DispatchType]
  BY DEF RealtimeTypeOK, DispatchType
<1>2. ASSUME NEW c \in Connections,
             SaveConnection(c) \/ EndHandshake(c) \/ Leave(c) \/ Forget(c)
      PROVE  Batches'
  <2>1. UNCHANGED <<sqs, channels>>
    BY <1>2 DEF SaveConnection, EndHandshake, Leave, Forget
  <2> QED
    BY <2>1 DEF Batches, Holds, Done, Current, sqs, channels
<1>3. ASSUME NEW w \in Workers, Receive(w)
      PROVE  Batches'
  <2>1. PICK records \in SUBSET Messages : ReceiveEvents(w, records)
    BY <1>3 DEF Receive
  <2>2. /\ batch[w].records = {} /\ \A v \in Workers \ {w} : batch'[v] = batch[v]
        /\ batch'[w].records = records /\ batch'[w].left = records
        /\ batch'[w].failed = {} /\ batch'[w].current = None
    BY <2>1, Receiving DEF ReceiveEvents
  <2>3. dispatch[w] = NoDispatch /\ dispatch' = dispatch
    BY <2>1, <2>2 DEF ReceiveEvents, Batches, Holds, channels
  <2>4. \A m \in Messages : queue'[m] = IF m \in records THEN "inflight" ELSE queue[m]
    BY <2>1 DEF ReceiveEvents, ReceiveBatch
  <2>5. \A m \in records : queue[m] = "visible"
    BY <2>1 DEF ReceiveEvents, ReceiveBatch
  <2>6. Holds(w)'
    BY <2>2, <2>3, <2>4 DEF Holds, Done, Current
  <2> QED
    BY <2>2, <2>3, <2>4, <2>5, <2>6, OneBatch
<1>4. ASSUME NEW w \in Workers, NEW m \in Messages, Dispatch(w, m)
      PROVE  Batches'
  <2>1. /\ \A v \in Workers \ {w} : batch'[v] = batch[v]
        /\ batch[w].current = None /\ m \in batch[w].left
        /\ batch'[w].records = batch[w].records /\ batch'[w].failed = batch[w].failed
        /\ batch'[w].left = batch[w].left \ {m} /\ batch'[w].current = m
    BY <1>4, TakingUp DEF Dispatch
  <2>2. /\ UNCHANGED queue /\ \A v \in Workers \ {w} : dispatch'[v] = dispatch[v]
        /\ m \in Malformed => dispatch'[w] = NoDispatch
    BY <1>1, <1>4 DEF Dispatch, TakeUp
  <2>3. batch[w].failed \subseteq batch[w].records \ batch[w].left
    BY DEF Batches, Holds, Done
  <2>4. /\ batch[w].left \subseteq batch[w].records
        /\ \A k \in batch[w].records : queue[k] = "inflight"
    BY DEF Batches, Holds
  <2>5. Holds(w)'
    BY <2>1, <2>2, <2>3, <2>4, NoneAssumption DEF Holds, Done, Current
  <2> QED
    BY <2>1, <2>2, <2>5, OneBatch
<1>5. ASSUME NEW w \in Workers, RejectEvent(w)
      PROVE  Batches'
  <2>1. /\ \A v \in Workers \ {w} : batch'[v] = batch[v]
        /\ batch'[w].records = batch[w].records /\ batch'[w].left = batch[w].left
        /\ batch'[w].failed = batch[w].failed \cup {Current(w)} /\ batch'[w].current = None
        /\ UNCHANGED <<queue, dispatch>>
    BY <1>5, Failing, MalformedAssumption DEF RejectEvent, FailRecord, channels
  <2>2. Holds(w) /\ Current(w) \in batch[w].records \ batch[w].left /\ dispatch[w] = NoDispatch
    BY <1>5, NoneAssumption, MalformedAssumption DEF RejectEvent, Batches, Holds
  <2>3. None \notin batch[w].records
    BY CurrentIsARecord, NoneAssumption
  <2>4. Holds(w)'
    BY <2>1, <2>2, <2>3 DEF Holds, Done, Current
  <2> QED
    BY <2>1, <2>4, OneBatch
<1>6. ASSUME NEW w \in Workers, Fanout(w) \/ HandOff(w) \/ HandOffFails(w)
      PROVE  Batches'
  <2>1. UNCHANGED sqs /\ \A v \in Workers \ {w} : dispatch'[v] = dispatch[v]
    BY <1>1, <1>6 DEF Fanout, List, ListFails, Post, PostGone, PostFails, HandOff, HandOffFails
  <2>2. Current(w) \in Messages \ Malformed
    BY <1>6, Begun DEF Fanout, List, ListFails, Post, PostGone, PostFails, HandOff, HandOffFails
  <2> QED
    BY <2>1, <2>2, SameBatches
<1>7. ASSUME NEW w \in Workers, EndDispatch(w)
      PROVE  Batches'
  <2>1. Current(w) \in Messages
    BY <1>7, CurrentIsARecord DEF EndDispatch
  <2>2. /\ \A v \in Workers \ {w} : batch'[v] = batch[v]
        /\ batch'[w].records = batch[w].records /\ batch'[w].left = batch[w].left
        /\ batch'[w].failed \in {batch[w].failed, batch[w].failed \cup {Current(w)}}
        /\ batch'[w].current = None
        /\ UNCHANGED queue
    BY <1>7, <2>1, Failing, Passing DEF EndDispatch, FailRecord, PassRecord
  <2>3. dispatch'[w] = NoDispatch /\ \A v \in Workers \ {w} : dispatch'[v] = dispatch[v]
    BY <1>1, <1>7 DEF EndDispatch
  <2>4. Holds(w) /\ Current(w) \in batch[w].records \ batch[w].left /\ None \notin batch[w].records
    BY <2>1, CurrentIsARecord, NoneAssumption DEF Batches, Holds
  <2>5. Holds(w)'
    BY <2>2, <2>3, <2>4 DEF Holds, Done, Current
  <2> QED
    BY <2>2, <2>3, <2>5, OneBatch
<1>8. ASSUME NEW w \in Workers, Reply(w) \/ Break(w)
      PROVE  Batches'
  <2>1. /\ \A v \in Workers \ {w} : batch'[v] = batch[v]
        /\ batch'[w].records = {} /\ batch'[w].failed = {}
        /\ batch'[w].left = {} /\ batch'[w].current = None
    BY <1>8, Clearing DEF Reply, Break
  <2>2. \A m \in Messages \ batch[w].records : queue'[m] = queue[m]
    BY <1>8 DEF Reply, Break, Answer, EndAbruptly
  <2>3. /\ \A v \in Workers \ {w} : dispatch'[v] = dispatch[v]
        /\ dispatch'[w] = NoDispatch
    BY <1>1, <1>8 DEF Reply, Break, Answer, channels, Batches, Holds
  <2>4. Holds(w)'
    BY <2>1, <2>3 DEF Holds, Done, Current
  <2> QED
    BY <2>1, <2>2, <2>3, <2>4, OneBatch
<1> QED
  BY <1>2, <1>3, <1>4, <1>5, <1>6, <1>7, <1>8 DEF Step, SocketNext, Notify

-----------------------------------------------------------------------------
\* Receives and sockets.

LEMMA ReceivesStay == ASSUME IInv, Step PROVE Receives'
<1> USE DEF IInv
<1>1. CASE UNCHANGED <<queue, receives>>
  BY <1>1 DEF Receives
<1>2. ASSUME NEW w \in Workers, Receive(w)
      PROVE  Receives'
  <2>1. PICK records \in SUBSET Messages : ReceiveEvents(w, records)
    BY <1>2 DEF Receive
  <2>2. \A m \in Messages :
          /\ queue'[m] = IF m \in records THEN "inflight" ELSE queue[m]
          /\ receives'[m] = IF m \in records THEN receives[m] + 1 ELSE receives[m]
          /\ receives[m] \in Nat
    BY <2>1, ReceivesAssumption DEF ReceiveEvents, ReceiveBatch, RealtimeTypeOK, BatchesTypeOK
  <2> QED
    BY <2>2 DEF Receives
<1>3. ASSUME NEW w \in Workers, Reply(w) \/ Break(w)
      PROVE  Receives'
  <2>1. \A m \in Messages : queue'[m] \in {queue[m], Returned(m), "acknowledged"}
    BY <1>3 DEF Reply, Break, Answer, EndAbruptly
  <2>2. UNCHANGED receives
    BY <1>3 DEF Reply, Break, Answer, EndAbruptly
  <2> QED
    BY <2>1, <2>2, Returning DEF Receives
<1>4. \/ UNCHANGED <<queue, receives>>
      \/ \E w \in Workers : Receive(w) \/ Reply(w) \/ Break(w)
  BY DEF Step, SocketNext, SaveConnection, EndHandshake, Leave, Forget, Notify, Dispatch, TakeUp,
         RejectEvent, FailRecord, Fanout, List, ListFails, Post, PostGone, PostFails,
         EndDispatch, PassRecord, HandOff, HandOffFails, sqs
<1> QED
  BY <1>1, <1>2, <1>3, <1>4

LEMMA SocketsStay == ASSUME RealtimeTypeOK, Sockets, Step PROVE Sockets'
<1>1. ASSUME NEW c \in Connections,
             SaveConnection(c) \/ EndHandshake(c) \/ Leave(c) \/ Forget(c)
      PROVE  Sockets'
  <2>1. UNCHANGED owed
    BY <1>1 DEF SaveConnection, EndHandshake, Leave, Forget, channels
  <2>2. \A d \in Connections \ {c} :
          socket'[d] = socket[d] /\ (d \in connections \cup early => d \in connections' \cup early')
    BY <1>1 DEF SaveConnection, EndHandshake, Leave, Forget, RealtimeTypeOK
  <2>3. socket'[c] \in {"opening", "open"} => c \in connections' \cup early'
    BY <1>1 DEF SaveConnection, EndHandshake, Leave, Forget, RealtimeTypeOK, Sockets
  <2>4. socket[c] \in {"open", "closed"} => socket'[c] \in {"open", "closed"}
    BY <1>1 DEF SaveConnection, EndHandshake, Leave, Forget, RealtimeTypeOK
  <2>5. \A m \in Messages : owed[m] \subseteq Connections
    BY DEF RealtimeTypeOK
  <2> QED
    BY <2>1, <2>2, <2>3, <2>4, <2>5 DEF Sockets
<1>2. ASSUME NEW w \in Workers, List(w)
      PROVE  Sockets'
  <2>1. \A m \in Messages : owed'[m] = owed[m] \/ \A c \in owed'[m] : socket[c] = "open"
    BY <1>2 DEF List, RealtimeTypeOK
  <2>2. UNCHANGED sockets
    BY <1>2 DEF List
  <2> QED
    BY <2>1, <2>2 DEF Sockets, sockets
<1>3. ASSUME NEW w \in Workers, NEW c \in Connections, PostGone(w, c)
      PROVE  Sockets'
  BY <1>3 DEF PostGone, Sockets
<1>4. CASE UNCHANGED <<socket, connections, early, owed>>
  BY <1>4 DEF Sockets
<1>5. \/ UNCHANGED <<socket, connections, early, owed>>
      \/ \E c \in Connections : SaveConnection(c) \/ EndHandshake(c) \/ Leave(c) \/ Forget(c)
      \/ \E w \in Workers : List(w) \/ \E c \in Connections : PostGone(w, c)
  BY DEF Step, SocketNext, Notify, Receive, ReceiveEvents, Dispatch, RejectEvent, Fanout,
     ListFails,
         Post, PostFails, EndDispatch, Reply, Break, HandOff, HandOffFails, sockets, channels
<1> QED
  BY <1>1, <1>2, <1>3, <1>4, <1>5

-----------------------------------------------------------------------------
\* What has been achieved stays achieved.

\* Nothing is unsent, unheard or forgiven; only an opening socket opens.
LEMMA Growing ==
  ASSUME RealtimeTypeOK, Step
  PROVE  /\ handed \subseteq handed'
         /\ \A c \in Connections : heard[c] \subseteq heard'[c]
         /\ \A m \in Messages : slips[m] \subseteq slips'[m]
         /\ \A c \in Connections : socket'[c] = "open" => socket[c] \in {"opening", "open"}
<1>1. handed \subseteq handed'
  BY DEF Step, SocketNext, SaveConnection, EndHandshake, Leave, Forget, Receive, ReceiveEvents,
     Notify,
         Dispatch, RejectEvent, Fanout, List, ListFails, Post, PostGone, PostFails, EndDispatch,
         Reply, Break, HandOff, HandOffFails, channels
<1>2. \A c \in Connections : heard[c] \subseteq heard'[c]
  <2>1. ASSUME NEW w \in Workers, NEW d \in Connections, Post(w, d) \/ PostFails(w, d)
        PROVE  \A c \in Connections : heard[c] \subseteq heard'[c]
    <3>1. heard \in [Connections -> SUBSET Messages]
      BY DEF RealtimeTypeOK
    <3>2. heard' = heard \/ heard' = [heard EXCEPT ![d] = heard[d] \cup {Current(w)}]
      BY <2>1 DEF Post, PostFails
    <3> QED
      BY <3>1, <3>2
  <2>2. \/ UNCHANGED heard
        \/ \E w \in Workers, d \in Connections : Post(w, d) \/ PostFails(w, d)
    BY DEF Step, SocketNext, SaveConnection, EndHandshake, Leave, Forget, Receive, ReceiveEvents,
       Notify,
           Dispatch, RejectEvent, Fanout, List, ListFails, PostGone, EndDispatch,
           Reply, Break, HandOff, HandOffFails, channels
  <2> QED
    BY <2>1, <2>2
<1>3. \A m \in Messages : slips[m] \subseteq slips'[m]
  <2>1. slips \in [Messages -> SUBSET Channels]
    BY DEF RealtimeTypeOK
  <2>2. ASSUME NEW w \in Workers, NEW channel \in Channels, Slip(Current(w), channel)
        PROVE  \A m \in Messages : slips[m] \subseteq slips'[m]
    BY <2>1, <2>2 DEF Slip
  <2>3. ASSUME NEW w \in Workers, Break(w)
        PROVE  \A m \in Messages : slips[m] \subseteq slips'[m]
    BY <2>1, <2>3 DEF Break
  <2>4. \/ UNCHANGED slips
        \/ \E w \in Workers : Break(w) \/ \E channel \in Channels : Slip(Current(w), channel)
    BY DEF Step, SocketNext, SaveConnection, EndHandshake, Leave, Forget, Receive, ReceiveEvents,
       Notify,
           Dispatch, RejectEvent, Fanout, List, ListFails, Post, PostGone, PostFails, EndDispatch,
           Reply, HandOff, HandOffFails, channels, Channels
  <2> QED
    BY <2>2, <2>3, <2>4
<1>4. \A c \in Connections : socket'[c] = "open" => socket[c] \in {"opening", "open"}
  <2>1. ASSUME NEW d \in Connections,
               SaveConnection(d) \/ EndHandshake(d) \/ Leave(d) \/ Forget(d)
        PROVE  \A c \in Connections : socket'[c] = "open" => socket[c] \in {"opening", "open"}
    BY <2>1 DEF SaveConnection, EndHandshake, Leave, Forget, RealtimeTypeOK
  <2>2. UNCHANGED socket \/ SocketNext
    BY DEF Step, Receive, ReceiveEvents, Notify, Dispatch, RejectEvent, Fanout, List, ListFails,
           Post, PostGone, PostFails, EndDispatch, Reply, Break, HandOff, HandOffFails, sockets
  <2> QED
    BY <2>1, <2>2 DEF SocketNext
<1> QED
  BY <1>1, <1>2, <1>3, <1>4

\* ... until the next broadcast of the event lists the connections anew.
LEMMA Lasting ==
  ASSUME RealtimeTypeOK, Sockets, Step, NEW m \in Messages,
         \A w \in Workers : List(w) => Current(w) # m
  PROVE  /\ Handed(m) => Handed(m)'
         /\ owed'[m] = owed[m]
         /\ \A c \in owed[m] : (socket[c] = "open" => m \in heard[c])
                                 => (socket'[c] = "open" => m \in heard'[c])
         /\ Told(m) => Told(m)'
         /\ Tried(m) => Tried(m)'
<1>1. Handed(m) => Handed(m)'
  BY Growing DEF Handed
<1>2. owed'[m] = owed[m]
  <2>1. ASSUME NEW w \in Workers, List(w)
        PROVE  owed'[m] = owed[m]
    BY <2>1 DEF List, RealtimeTypeOK
  <2>2. UNCHANGED owed \/ \E w \in Workers : List(w)
    BY DEF Step, SocketNext, SaveConnection, EndHandshake, Leave, Forget, Receive, ReceiveEvents,
       Notify,
           Dispatch, RejectEvent, Fanout, ListFails, Post, PostGone, PostFails, EndDispatch,
           Reply, Break, HandOff, HandOffFails, channels
  <2> QED
    BY <2>1, <2>2
<1>3. \A c \in owed[m] : c \in Connections /\ socket[c] \in {"open", "closed"}
  BY DEF RealtimeTypeOK, Sockets
<1>4. \A c \in owed[m] : (socket[c] = "open" => m \in heard[c])
                           => (socket'[c] = "open" => m \in heard'[c])
  BY <1>3, Growing
<1>5. Told(m) => Told(m)'
  BY <1>2, <1>4 DEF Told
<1>6. slips[m] \subseteq slips'[m]
  BY Growing
<1> QED
  BY <1>1, <1>2, <1>4, <1>5, <1>6 DEF Tried

-----------------------------------------------------------------------------
\* Outcomes.

\* An invocation that takes no step keeps what it has achieved.
LEMMA Bystander ==
  ASSUME IInv, Step, NEW v \in Workers, batch'[v] = batch[v], dispatch'[v] = dispatch[v], ~List(v)
  PROVE  Underway(v)' /\ Left(v)'
<1> USE DEF IInv
<1>1. \A w \in Workers : List(w) => w # v /\ Current(w) \in batch[w].records
  BY InFlight, Begun DEF List
<1>2. \A m \in batch[v].records : m \in Messages /\ \A w \in Workers : List(w) => Current(w) # m
  BY <1>1, CurrentIsARecord DEF Batches
<1>3. Left(v)'
  <2>1. /\ Done(v)' = Done(v) /\ Done(v) \subseteq batch[v].records
        /\ batch[v].failed \subseteq batch[v].records
    BY DEF Done, Current, Batches, Holds
  <2>2. \A m \in batch[v].records : /\ Through(m) => Through(m)'
                                    /\ Tried(m) => Tried(m)'
                                    /\ slips[m] \subseteq slips'[m]
    BY <1>2, Lasting, Growing DEF Through
  <2>3. \A m \in Done(v) \ batch[v].failed : Through(m)
    BY DEF Outcomes, Left
  <2>4. \A m \in batch[v].failed \ Malformed : slips[m] # {} /\ Tried(m)
    BY DEF Outcomes, Left
  <2>5. \A m \in Done(v)' \ batch'[v].failed : Through(m)'
    BY <2>1, <2>2, <2>3
  <2>6. \A m \in batch'[v].failed \ Malformed : slips'[m] # {} /\ Tried(m)'
    BY <2>1, <2>2, <2>4
  <2> QED
    BY <2>5, <2>6 DEF Left
<1>4. Underway(v)'
  <2>1. Current(v)' = Current(v)
    BY DEF Current
  <2>2. CASE dispatch[v] = NoDispatch
    BY <2>2 DEF Underway, NoDispatch
  <2>3. CASE dispatch[v] # NoDispatch
    <3>0. PICK m \in Messages : m = Current(v)
      BY <2>3, Busy
    <3>1. \A w \in Workers : List(w) => Current(w) # m
      BY <3>0, <1>2, InFlight
    <3>2. /\ Handed(m) => Handed(m)'
          /\ owed'[m] = owed[m]
          /\ \A c \in owed[m] : (socket[c] = "open" => m \in heard[c])
                                  => (socket'[c] = "open" => m \in heard'[c])
      BY <3>1, Lasting
    <3>3. slips[m] \subseteq slips'[m]
      BY <3>1, Growing
    <3>4. Underway(v)
      BY DEF Outcomes
    <3> QED
      BY <2>1, <3>0, <3>2, <3>3, <3>4 DEF Underway
  <2> QED
    BY <2>2, <2>3
<1> QED
  BY <1>3, <1>4

\* The records an invocation has left behind keep what they have.
LEMMA Behind ==
  ASSUME IInv, Step, NEW w \in Workers, NEW m \in Done(w) \cup batch[w].failed
  PROVE  /\ m \in Messages
         /\ Through(m) => Through(m)'
         /\ Tried(m) => Tried(m)'
         /\ slips[m] # {} => slips'[m] # {}
<1>1. m \in batch[w].records \ {Current(w)} /\ m \in Messages
  BY CurrentIsARecord DEF IInv, Batches, Holds, Done
<1>2. \A v \in Workers : List(v) => Current(v) \in batch[v].records
  BY InFlight, Begun DEF IInv, List
<1>3. \A v \in Workers : List(v) => Current(v) # m
  BY <1>1, <1>2 DEF IInv, Batches
<1> QED
  BY <1>1, <1>3, Lasting, Growing DEF IInv, Through

LEMMA LeftStays ==
  ASSUME IInv, Step, NEW w \in Workers, Done(w)' = Done(w), batch'[w].failed = batch[w].failed
  PROVE  Left(w)'
<1>1. Left(w)
  BY DEF IInv, Outcomes
<1>2. \A m \in Done(w)' \ batch'[w].failed : Through(m)'
  BY <1>1, Behind DEF Left
<1>3. \A m \in batch'[w].failed \ Malformed : slips'[m] # {} /\ Tried(m)'
  BY <1>1, Behind DEF Left
<1> QED
  BY <1>2, <1>3 DEF Left

\* A message out of every invocation's hands keeps its end.
LEMMA EndedStays ==
  ASSUME IInv, Step, NEW m \in Messages, queue'[m] = queue[m]
  PROVE  Ended(m)'
<1> USE DEF IInv
<1>1. CASE queue[m] \in {"acknowledged", "dead"}
  <2>1. \A w \in Workers : List(w) => queue[Current(w)] = "inflight"
    BY InFlight, Begun DEF List
  <2>2. /\ Through(m) => Through(m)'
        /\ Tried(m) => Tried(m)'
    BY <1>1, <2>1, Lasting DEF Through
  <2>3. Ended(m)
    BY DEF Outcomes
  <2> QED
    BY <2>2, <2>3 DEF Ended
<1>2. CASE queue[m] \notin {"acknowledged", "dead"}
  BY <1>2 DEF Ended
<1> QED
  BY <1>1, <1>2

LEMMA OneOutcome ==
  ASSUME IInv, Step, NEW w \in Workers, Underway(w)', Left(w)',
         \A v \in Workers \ {w} : batch'[v] = batch[v] /\ dispatch'[v] = dispatch[v],
         \A m \in Messages : queue'[m] = queue[m] \/ Ended(m)'
  PROVE  Outcomes'
<1>1. \A v \in Workers : dispatch'[v] = dispatch[v] => ~List(v)
  BY CurrentIsARecord DEF IInv, List, RealtimeTypeOK
<1>2. \A v \in Workers \ {w} : Underway(v)' /\ Left(v)'
  BY <1>1, Bystander
<1>3. \A m \in Messages : Ended(m)'
  BY EndedStays
<1> QED
  BY <1>2, <1>3 DEF Outcomes

\* The steps of a dispatch.
LEMMA UnderwayStays ==
  ASSUME IInv, Step, NEW w \in Workers, Fanout(w) \/ HandOff(w) \/ HandOffFails(w)
  PROVE  Underway(w)'
<1> USE DEF IInv
<1>1. PICK m \in Messages : m = Current(w)
  BY Begun DEF Fanout, List, ListFails, Post, PostGone, PostFails, HandOff, HandOffFails
<1>2. UNCHANGED sqs
  BY DEF Fanout, List, ListFails, Post, PostGone, PostFails, HandOff, HandOffFails
<1>3. Current(w)' = m
  BY <1>1, <1>2 DEF sqs, Current
<1>4. Underway(w)
  BY DEF Outcomes
<1>5. (Handed(m) => Handed(m)') /\ slips[m] \subseteq slips'[m]
  BY Growing DEF Handed
<1>6. dispatch[w] \in DispatchType /\ dispatch \in [Workers -> DispatchType]
  BY DEF RealtimeTypeOK, DispatchType
<1>7. slips \in [Messages -> SUBSET Channels] /\ owed \in [Messages -> SUBSET Connections]
  BY DEF RealtimeTypeOK
<1>8. CASE List(w)
  <2>1. /\ dispatch'[w].handoff = dispatch[w].handoff /\ dispatch'[w].broken = dispatch[w].broken
        /\ dispatch'[w].broadcast = "posting" /\ dispatch'[w].todo = connections
    BY <1>6, <1>8 DEF List, DispatchType
  <2>2. owed'[m] \subseteq connections
    BY <1>1, <1>7, <1>8 DEF List
  <2> QED
    BY <1>1, <1>3, <1>4, <1>5, <2>1, <2>2 DEF Underway
<1>9. CASE ListFails(w)
  <2>1. /\ dispatch'[w].handoff = dispatch[w].handoff
        /\ dispatch'[w].broadcast = "failed"
    BY <1>6, <1>9 DEF ListFails, DispatchType
  <2>2. "websocket" \in slips'[m]
    BY <1>1, <1>7, <1>9 DEF ListFails, Slip
  <2> QED
    BY <1>1, <1>3, <1>4, <1>5, <2>1, <2>2 DEF Underway
<1>10. ASSUME NEW c \in Connections, Post(w, c) \/ PostGone(w, c)
       PROVE  Underway(w)'
  <2>1. /\ dispatch'[w].handoff = dispatch[w].handoff /\ dispatch'[w].broken = dispatch[w].broken
        /\ dispatch'[w].broadcast = dispatch[w].broadcast
        /\ dispatch'[w].todo = dispatch[w].todo \ {c}
    BY <1>6, <1>10 DEF Post, PostGone, DispatchType
  <2>2. UNCHANGED <<owed, socket, slips>> /\ \A d \in Connections : heard[d] \subseteq heard'[d]
    BY <1>10, Growing DEF Post, PostGone, sockets
  <2>3. socket[c] = "open" => m \in heard'[c]
    BY <1>1, <1>10 DEF Post, PostGone, RealtimeTypeOK
  <2>4. owed[m] \subseteq Connections
    BY <1>7
  <2> QED
    BY <1>1, <1>3, <1>4, <1>5, <2>1, <2>2, <2>3, <2>4 DEF Underway
<1>11. ASSUME NEW c \in Connections, PostFails(w, c)
       PROVE  Underway(w)'
  <2>1. /\ dispatch'[w].handoff = dispatch[w].handoff /\ dispatch'[w].broken = TRUE
        /\ dispatch'[w].broadcast = dispatch[w].broadcast
    BY <1>6, <1>11 DEF PostFails, DispatchType
  <2>2. "websocket" \in slips'[m]
    BY <1>1, <1>7, <1>11 DEF PostFails, Slip
  <2> QED
    BY <1>1, <1>3, <1>4, <1>5, <2>1, <2>2 DEF Underway
<1>12. CASE HandOff(w) \/ HandOffFails(w)
  <2>1. /\ dispatch'[w].todo = dispatch[w].todo /\ dispatch'[w].broken = dispatch[w].broken
        /\ dispatch'[w].broadcast = dispatch[w].broadcast
    BY <1>6, <1>12 DEF HandOff, HandOffFails, DispatchType
  <2>2. UNCHANGED <<owed, socket, heard>>
    BY <1>12 DEF HandOff, HandOffFails, sockets
  <2>3. dispatch'[w].handoff = "sent" => Handed(m)'
    <3>1. Copy(w) = <<m, receives[m]>> /\ receives[m] \in 1 .. MaxReceives
      BY <1>1, InFlight DEF Copy, Handoffs
    <3>2. HandOff(w) => Handed(m)'
      BY <3>1 DEF HandOff, Handed
    <3>3. HandOffFails(w) => dispatch'[w].handoff = "failed"
      BY <1>6 DEF HandOffFails, DispatchType
    <3> QED
      BY <1>12, <3>2, <3>3
  <2>4. dispatch'[w].handoff = "failed" => "webhook" \in slips'[m]
    <3>1. HandOff(w) => dispatch'[w].handoff = "sent"
      BY <1>6 DEF HandOff, DispatchType
    <3>2. HandOffFails(w) => "webhook" \in slips'[m]
      BY <1>1, <1>7 DEF HandOffFails, Slip
    <3> QED
      BY <1>12, <3>1, <3>2
  <2> QED
    BY <1>1, <1>3, <1>4, <1>5, <2>1, <2>2, <2>3, <2>4 DEF Underway
<1> QED
  BY <1>8, <1>9, <1>10, <1>11, <1>12 DEF Fanout

\* Outside a dispatch there is nothing under way.
LEMMA NothingUnderway ==
  ASSUME NEW w \in Workers, dispatch'[w] = NoDispatch
  PROVE  Underway(w)'
BY DEF Underway, NoDispatch

\* The end of a dispatch: the record is through, or each channel has been tried.
LEMMA EndOfDispatch ==
  ASSUME IInv, NEW w \in Workers, NEW m \in Messages, m = Current(w), BothEnded(w)
  PROVE  /\ ~Broken(w) => Through(m)
         /\ Broken(w) => slips[m] # {} /\ Tried(m)
<1>1. Underway(w)
  BY DEF IInv, Outcomes
<1>2. Handed(m) \/ "webhook" \in slips[m]
  BY <1>1 DEF BothEnded, Underway
<1>3. ~dispatch[w].broken /\ dispatch[w].broadcast # "failed" => Told(m)
  BY <1>1 DEF BothEnded, Posted, Underway, Told
<1>4. dispatch[w].broken \/ dispatch[w].broadcast = "failed" => "websocket" \in slips[m]
  BY <1>1 DEF Underway
<1>5. dispatch[w].handoff = "failed" => "webhook" \in slips[m]
  BY <1>1 DEF Underway
<1>6. dispatch[w].handoff # "failed" => Handed(m)
  BY <1>1 DEF BothEnded, Underway
<1>7. ~Broken(w) => Through(m)
  BY <1>3, <1>6 DEF Broken, Through
<1>8. Broken(w) => slips[m] # {} /\ Tried(m)
  BY <1>2, <1>3, <1>4, <1>5 DEF Broken, Tried
<1> QED
  BY <1>7, <1>8

LEMMA OutcomesStay == ASSUME IInv, Step PROVE Outcomes'
<1> USE DEF IInv
<1>1. dispatch \in [Workers -> DispatchType]
  BY DEF RealtimeTypeOK, DispatchType
<1>2. CASE SocketNext
  <2>1. UNCHANGED <<sqs, channels>>
    BY <1>2 DEF SocketNext, SaveConnection, EndHandshake, Leave, Forget
  <2>2. \A v \in Workers : ~List(v)
    BY <2>1, CurrentIsARecord DEF List, channels, RealtimeTypeOK
  <2>3. \A v \in Workers : Underway(v)' /\ Left(v)'
    BY <2>1, <2>2, Bystander DEF sqs, channels
  <2>4. \A m \in Messages : Ended(m)'
    BY <2>1, EndedStays DEF sqs
  <2> QED
    BY <2>3, <2>4 DEF Outcomes
<1>3. ASSUME NEW w \in Workers, Receive(w)
      PROVE  Outcomes'
  <2>1. PICK records \in SUBSET Messages : ReceiveEvents(w, records)
    BY <1>3 DEF Receive
  <2>2. /\ batch[w].records = {} /\ \A v \in Workers \ {w} : batch'[v] = batch[v]
        /\ batch'[w].records = records /\ batch'[w].left = records
        /\ batch'[w].failed = {} /\ batch'[w].current = None
    BY <2>1, Receiving DEF ReceiveEvents
  <2>3. dispatch[w] = NoDispatch /\ dispatch' = dispatch
    BY <2>1, <2>2 DEF ReceiveEvents, Batches, Holds, channels
  <2>4. \A m \in Messages : queue'[m] = queue[m] \/ Ended(m)'
    BY <2>1 DEF ReceiveEvents, ReceiveBatch, Ended
  <2>5. Left(w)'
    BY <2>2 DEF Left, Done
  <2> QED
    BY <2>2, <2>3, <2>4, <2>5, NothingUnderway, OneOutcome
<1>4. ASSUME NEW w \in Workers, NEW m \in Messages, Dispatch(w, m)
      PROVE  Outcomes'
  <2>1. /\ \A v \in Workers \ {w} : batch'[v] = batch[v]
        /\ batch[w].current = None /\ m \in batch[w].left
        /\ batch'[w].records = batch[w].records /\ batch'[w].failed = batch[w].failed
        /\ batch'[w].left = batch[w].left \ {m} /\ batch'[w].current = m
    BY <1>4, TakingUp DEF Dispatch
  <2>2. Done(w)' = Done(w)
    BY <2>1, NoneAssumption, CurrentIsARecord DEF Done, Current
  <2>3. Left(w)'
    BY <2>1, <2>2, LeftStays
  <2>4. UNCHANGED queue /\ \A v \in Workers \ {w} : dispatch'[v] = dispatch[v]
    BY <1>1, <1>4 DEF Dispatch, TakeUp
  <2>5. Underway(w)'
    <3>1. \/ dispatch'[w] = NoDispatch
          \/ dispatch'[w] = [NoDispatch EXCEPT !.broadcast = "listing", !.handoff = "sending"]
      BY <1>1, <1>4 DEF Dispatch
    <3>2. /\ dispatch'[w].broken = FALSE /\ dispatch'[w].broadcast \in {"none", "listing"}
          /\ dispatch'[w].handoff \in {"none", "sending"}
      <4>1. CASE dispatch'[w] = NoDispatch
        BY <4>1 DEF NoDispatch
      <4>2. CASE dispatch'[w] = [NoDispatch EXCEPT !.broadcast = "listing", !.handoff = "sending"]
        BY <4>2 DEF NoDispatch
      <4> QED
        BY <3>1, <4>1, <4>2
    <3> QED
      BY <3>2 DEF Underway
  <2> QED
    BY <2>1, <2>3, <2>4, <2>5, OneOutcome
<1>5. ASSUME NEW w \in Workers, RejectEvent(w)
      PROVE  Outcomes'
  <2>1. /\ \A v \in Workers \ {w} : batch'[v] = batch[v]
        /\ batch'[w].records = batch[w].records /\ batch'[w].left = batch[w].left
        /\ batch'[w].failed = batch[w].failed \cup {Current(w)} /\ batch'[w].current = None
        /\ UNCHANGED <<queue, dispatch>>
    BY <1>5, Failing, MalformedAssumption DEF RejectEvent, FailRecord, channels
  <2>2. Current(w) \in Malformed /\ dispatch[w] = NoDispatch
    BY <1>5 DEF RejectEvent, Batches, Holds
  <2>3. Done(w)' \ batch'[w].failed \subseteq Done(w) \ batch[w].failed
    BY <2>1 DEF Done, Current
  <2>4. Left(w)
    BY DEF Outcomes
  <2>5. \A m \in Done(w)' \ batch'[w].failed : Through(m)'
    BY <2>3, <2>4, Behind DEF Left
  <2>6. batch'[w].failed \ Malformed = batch[w].failed \ Malformed
    BY <2>1, <2>2
  <2>7. \A m \in batch'[w].failed \ Malformed : slips'[m] # {} /\ Tried(m)'
    BY <2>4, <2>6, Behind DEF Left
  <2>8. Left(w)'
    BY <2>5, <2>7 DEF Left
  <2> QED
    BY <2>1, <2>2, <2>8, NothingUnderway, OneOutcome
<1>6. ASSUME NEW w \in Workers, Fanout(w) \/ HandOff(w) \/ HandOffFails(w)
      PROVE  Outcomes'
  <2>1. UNCHANGED sqs /\ \A v \in Workers \ {w} : dispatch'[v] = dispatch[v]
    BY <1>1, <1>6 DEF Fanout, List, ListFails, Post, PostGone, PostFails, HandOff, HandOffFails
  <2>2. Left(w)'
    BY <2>1, LeftStays DEF sqs, Done, Current
  <2> QED
    BY <1>6, <2>1, <2>2, UnderwayStays, OneOutcome DEF sqs
<1>7. ASSUME NEW w \in Workers, EndDispatch(w)
      PROVE  Outcomes'
  <2>1. PICK m \in Messages : m = Current(w)
    BY <1>7, CurrentIsARecord DEF EndDispatch
  <2>2. /\ \A v \in Workers \ {w} : batch'[v] = batch[v]
        /\ batch'[w].records = batch[w].records /\ batch'[w].left = batch[w].left
        /\ batch'[w].failed = IF Broken(w) THEN batch[w].failed \cup {m} ELSE batch[w].failed
        /\ batch'[w].current = None
        /\ UNCHANGED queue
    BY <1>7, <2>1, Failing, Passing DEF EndDispatch, FailRecord, PassRecord
  <2>3. dispatch'[w] = NoDispatch /\ \A v \in Workers \ {w} : dispatch'[v] = dispatch[v]
    BY <1>1, <1>7 DEF EndDispatch
  <2>4. Done(w)' \subseteq Done(w) \cup {m}
    BY <2>1, <2>2 DEF Done, Current
  <2>5. /\ ~Broken(w) => Through(m)
        /\ Broken(w) => slips[m] # {} /\ Tried(m)
    BY <1>7, <2>1, EndOfDispatch DEF EndDispatch
  <2>6. /\ Through(m) => Through(m)'
        /\ Tried(m) => Tried(m)'
        /\ slips[m] # {} => slips'[m] # {}
    BY <1>7 DEF EndDispatch, Through, Tried, Handed, Told, sockets
  <2>7. Left(w)
    BY DEF Outcomes
  <2>8. ASSUME NEW k \in Done(w)' \ batch'[w].failed
        PROVE  Through(k)'
    <3>1. CASE k = m
      BY <2>2, <2>5, <2>6, <2>8, <3>1
    <3>2. CASE k # m
      BY <2>2, <2>4, <2>7, <2>8, <3>2, Behind DEF Left
    <3> QED
      BY <3>1, <3>2
  <2>9. ASSUME NEW k \in batch'[w].failed \ Malformed
        PROVE  slips'[k] # {} /\ Tried(k)'
    <3>1. CASE k \in batch[w].failed
      BY <2>7, <2>9, <3>1, Behind DEF Left
    <3>2. CASE k \notin batch[w].failed
      BY <2>2, <2>5, <2>6, <2>9, <3>2
    <3> QED
      BY <3>1, <3>2
  <2>10. Left(w)'
    BY <2>8, <2>9 DEF Left
  <2> QED
    BY <2>2, <2>3, <2>10, NothingUnderway, OneOutcome
<1>8. ASSUME NEW w \in Workers, Reply(w)
      PROVE  Outcomes'
  <2>1. /\ \A v \in Workers \ {w} : batch'[v] = batch[v]
        /\ batch'[w].records = {} /\ batch'[w].failed = {}
        /\ batch'[w].left = {} /\ batch'[w].current = None
    BY <1>8, Clearing DEF Reply
  <2>2. UNCHANGED <<channels, sockets>> /\ Current(w) = None /\ batch[w].left = {}
    BY <1>8 DEF Reply, Answer
  <2>3. dispatch'[w] = NoDispatch /\ dispatch' = dispatch
    BY <2>2 DEF channels, Batches, Holds
  <2>4. Left(w)'
    BY <2>1 DEF Left, Done
  <2>5. ASSUME NEW m \in Messages
        PROVE  queue'[m] = queue[m] \/ Ended(m)'
    <3>1. CASE m \notin batch[w].records
      BY <1>8, <3>1 DEF Reply, Answer
    <3>2. /\ Through(m) => Through(m)'
          /\ Tried(m) => Tried(m)'
      BY <2>2 DEF Through, Tried, Handed, Told, channels, sockets
    <3>3. CASE m \in batch[w].failed
      <4>1. queue'[m] \in {"dead", "visible"}
        BY <1>8, <3>3, Returning, CurrentIsARecord DEF Reply, Answer, Batches, Holds, Done
      <4>2. m \in Malformed \/ Tried(m)
        BY <3>3 DEF Outcomes, Left
      <4> QED
        BY <3>2, <4>1, <4>2 DEF Ended
    <3>4. CASE m \in batch[w].records \ batch[w].failed
      <4>1. queue'[m] = "acknowledged"
        BY <1>8, <3>4 DEF Reply, Answer
      <4>2. m \in Done(w) \ batch[w].failed
        BY <2>2, <3>4, NoneAssumption DEF Done
      <4>3. Through(m)
        BY <4>2 DEF Outcomes, Left
      <4> QED
        BY <3>2, <4>1, <4>3 DEF Ended
    <3> QED
      BY <3>1, <3>3, <3>4
  <2> QED
    BY <2>1, <2>3, <2>4, <2>5, NothingUnderway, OneOutcome
<1>9. ASSUME NEW w \in Workers, Break(w)
      PROVE  Outcomes'
  <2>1. /\ \A v \in Workers \ {w} : batch'[v] = batch[v]
        /\ batch'[w].records = {} /\ batch'[w].failed = {}
        /\ batch'[w].left = {} /\ batch'[w].current = None
    BY <1>9, Clearing DEF Break
  <2>2. dispatch'[w] = NoDispatch /\ \A v \in Workers \ {w} : dispatch'[v] = dispatch[v]
    BY <1>1, <1>9 DEF Break
  <2>3. Left(w)'
    BY <2>1 DEF Left, Done
  <2>4. ASSUME NEW m \in Messages
        PROVE  queue'[m] = queue[m] \/ Ended(m)'
    <3>1. CASE m \notin batch[w].records
      BY <1>9, <3>1 DEF Break, EndAbruptly
    <3>2. CASE m \in batch[w].records
      <4>1. queue'[m] \in {"dead", "visible"}
        BY <1>9, <3>2, Returning DEF Break, EndAbruptly
      <4>2. Tried(m)'
        BY <1>9, <3>2 DEF Break, Tried, Channels
      <4> QED
        BY <4>1, <4>2 DEF Ended
    <3> QED
      BY <3>1, <3>2
  <2> QED
    BY <2>1, <2>2, <2>3, <2>4, NothingUnderway, OneOutcome
<1> QED
  BY <1>2, <1>3, <1>4, <1>5, <1>6, <1>7, <1>8, <1>9 DEF Step, Notify

-----------------------------------------------------------------------------
\* How often a record is received.

LEMMA OnceStays == ASSUME IInv, Step PROVE Once'
<1> USE DEF IInv
<1>1. \A m \in Messages : slips[m] \subseteq slips'[m]
  BY Growing
<1>2. ASSUME UNCHANGED <<queue, receives, handed>>
      PROVE  Once'
  BY <1>1, <1>2 DEF Once
<1>3. ASSUME NEW w \in Workers, Receive(w)
      PROVE  Once'
  <2>1. PICK records \in SUBSET Messages : ReceiveEvents(w, records)
    BY <1>3 DEF Receive
  <2>2. \A m \in Messages :
          /\ queue'[m] = IF m \in records THEN "inflight" ELSE queue[m]
          /\ receives'[m] = IF m \in records THEN receives[m] + 1 ELSE receives[m]
          /\ m \in records => queue[m] = "visible"
          /\ receives[m] \in Nat
    BY <2>1, ReceivesAssumption DEF ReceiveEvents, ReceiveBatch, RealtimeTypeOK, BatchesTypeOK
  <2>3. UNCHANGED <<handed, slips>>
    BY <2>1 DEF ReceiveEvents, channels
  <2>4. \A h \in handed : h[1] \in Messages /\ h[2] \in Nat
    BY ReceivesAssumption DEF RealtimeTypeOK, Handoffs
  <2>5. \A m \in Messages \ Malformed : slips'[m] = {} =>
          /\ receives'[m] <= 1
          /\ queue'[m] = "visible" => receives'[m] = 0
    BY <2>2, <2>3 DEF Once
  <2>6. \A h \in handed' : 0 < h[2] /\ h[1] \notin Malformed /\ h[2] <= receives'[h[1]]
    BY <2>2, <2>3, <2>4 DEF Once
  <2> QED
    BY <2>5, <2>6 DEF Once
<1>4. ASSUME NEW w \in Workers, Reply(w)
      PROVE  Once'
  <2>1. UNCHANGED <<receives, handed, slips>>
    BY <1>4 DEF Reply, Answer, channels
  <2>2. \A m \in Messages : queue'[m] = "visible" =>
          queue[m] = "visible" \/ m \in batch[w].failed
    BY <1>4 DEF Reply, Answer
  <2>3. \A m \in batch[w].failed \ Malformed : slips[m] # {}
    BY DEF Outcomes, Left
  <2> QED
    BY <2>1, <2>2, <2>3 DEF Once
<1>5. ASSUME NEW w \in Workers, Break(w)
      PROVE  Once'
  <2>1. UNCHANGED <<receives, handed>>
    BY <1>5 DEF Break, EndAbruptly
  <2>2. \A m \in Messages : queue'[m] = queue[m] \/ slips'[m] # {}
    BY <1>5 DEF Break, EndAbruptly, Channels
  <2> QED
    BY <1>1, <2>1, <2>2 DEF Once
<1>6. ASSUME NEW w \in Workers, HandOff(w) \/ HandOffFails(w)
      PROVE  Once'
  <2>1. PICK m \in Messages \ Malformed : m = Current(w)
    BY <1>6, Begun DEF HandOff, HandOffFails
  <2>2. UNCHANGED <<queue, receives>> /\ handed' \subseteq handed \cup {Copy(w)}
    BY <1>6 DEF HandOff, HandOffFails, sqs
  <2>3. /\ Copy(w) = <<m, receives[m]>> /\ receives[m] \in 1 .. MaxReceives
    BY <2>1, InFlight DEF Copy, Handoffs
  <2>4. \A h \in handed' : 0 < h[2] /\ h[1] \notin Malformed /\ h[2] <= receives'[h[1]]
    BY <2>1, <2>2, <2>3, ReceivesAssumption DEF Once
  <2>5. \A k \in Messages \ Malformed : slips'[k] = {} => slips[k] = {}
    BY <1>1
  <2> QED
    BY <2>2, <2>4, <2>5 DEF Once
<1>7. ASSUME SocketNext
      PROVE  UNCHANGED <<queue, receives, handed>>
  BY <1>7 DEF SocketNext, SaveConnection, EndHandshake, Leave, Forget, sqs, channels
<1>8. ASSUME NEW w \in Workers, Notify(w), ~Reply(w)
      PROVE  UNCHANGED <<queue, receives, handed>>
  <2>1. CASE Fanout(w)
    BY <2>1 DEF Fanout, List, ListFails, Post, PostGone, PostFails, sqs
  <2>2. CASE RejectEvent(w) \/ \E m \in Messages : Dispatch(w, m)
    BY <2>2 DEF RejectEvent, FailRecord, Dispatch, TakeUp, channels
  <2>3. CASE EndDispatch(w)
    BY <2>3 DEF EndDispatch, FailRecord, PassRecord
  <2> QED
    BY <1>8, <2>1, <2>2, <2>3 DEF Notify
<1> QED
  BY <1>2, <1>3, <1>4, <1>5, <1>6, <1>7, <1>8 DEF Step

-----------------------------------------------------------------------------
\* The invariant.

LEMMA Beginning == Init => IInv
<1> SUFFICES ASSUME Init PROVE IInv
  OBVIOUS
<1>1. /\ queue = [m \in Messages |-> "visible"] /\ receives = [m \in Messages |-> 0]
      /\ batch = [w \in Workers |-> NoBatch] /\ dispatch = [w \in Workers |-> NoDispatch]
      /\ connections = Established /\ handed = {} /\ early = {}
      /\ socket = [c \in Connections |-> IF c \in Established THEN "open" ELSE "new"]
      /\ heard = [c \in Connections |-> {}]
      /\ owed = [m \in Messages |-> {}]
      /\ slips = [m \in Messages |-> {}]
  BY DEF Init, NoBatches, InitChannels
<1>2. NoBatch \in BatchType /\ NoDispatch \in DispatchType
  BY NoDispatchIsTyped DEF NoBatch, BatchType
<1>3. BatchesTypeOK
  BY <1>1, <1>2, ReceivesAssumption DEF BatchesTypeOK, Places, BatchType
<1>4. RealtimeTypeOK
  BY <1>1, <1>2, <1>3, EstablishedAssumption DEF RealtimeTypeOK, DispatchType, Channels
<1>5. Batches
  BY <1>1 DEF Batches, Holds, Done, Current, NoBatch
<1>6. Receives
  BY <1>1, ReceivesAssumption DEF Receives
<1>7. Sockets
  BY <1>1 DEF Sockets
<1>8. Outcomes
  BY <1>1 DEF Outcomes, Underway, Left, Ended, Done, Current, NoBatch, NoDispatch
<1>9. Once
  BY <1>1 DEF Once
<1> QED
  BY <1>4, <1>5, <1>6, <1>7, <1>8, <1>9 DEF IInv

LEMMA Continuing == IInv /\ [Next]_vars => IInv'
<1> SUFFICES ASSUME IInv, [Next]_vars PROVE IInv'
  OBVIOUS
<1>1. CASE Step
  BY <1>1, TypesStay, BatchesStay, ReceivesStay, SocketsStay, OutcomesStay, OnceStays DEF IInv
<1>2. CASE UNCHANGED RealtimeVars
  <2>1. RealtimeTypeOK' /\ Batches' /\ Receives' /\ Sockets'
    BY <1>2 DEF IInv, RealtimeVars, sqs, channels, sockets, RealtimeTypeOK, BatchesTypeOK,
       Batches,
                Holds, Done, Current, Receives, Sockets
  <2>2. Outcomes' /\ Once'
    BY <1>2 DEF IInv, RealtimeVars, sqs, channels, sockets, Outcomes, Underway, Left, Ended,
       Through,
                Tried, Handed, Told, Done, Current, Once
  <2> QED
    BY <2>1, <2>2 DEF IInv
<1> QED
  BY <1>1, <1>2, NextIsAStep DEF vars, RealtimeVars

LEMMA Invariance == Spec => []IInv
BY Beginning, Continuing, PTL DEF Spec

\* SQS deletes the record of an event only when both channels have it: the loop leaves a
\* record behind as through when neither channel has failed (broadcastIncidentTaskCompletedEvent,
\* enqueueWebhookNotification, Promise.allSettled).
THEOREM DeletedRecordsWereAnnounced == Spec => []AcknowledgedWasAnnounced
<1>1. IInv => AcknowledgedWasAnnounced
  BY DEF IInv, Outcomes, Ended, Through, AcknowledgedWasAnnounced
<1> QED
  BY <1>1, Invariance, PTL

\* A dead record of a sound event has come through each channel that has not failed it.
THEOREM OneChannelDoesNotPreventTheOther == Spec => []ChannelsAreIndependent
<1>1. IInv => ChannelsAreIndependent
  BY DEF IInv, Outcomes, Ended, Tried, ChannelsAreIndependent
<1> QED
  BY <1>1, Invariance, PTL

\* Without a failure an event is handed to the webhook queue once at most: it is received once.
THEOREM HandedOffOnce == Spec => []RepeatsNeedAFailure
<1>1. ASSUME IInv, NEW m \in Messages, slips[m] = {}
      PROVE  Cardinality({h \in handed : h[1] = m}) <= 1
  <2> DEFINE H == {h \in handed : h[1] = m}
  <2>1. \A h \in H : h \in Messages \X (1 .. MaxReceives) /\ h[1] = m /\ h[2] <= receives[m]
                     /\ m \notin Malformed
    BY <1>1 DEF IInv, Once, RealtimeTypeOK, Handoffs
  <2>2. m \notin Malformed => receives[m] <= 1 /\ receives[m] \in Nat
    BY <1>1, ReceivesAssumption DEF IInv, Once, RealtimeTypeOK, BatchesTypeOK
  <2>3. H \subseteq {<<m, 1>>}
    BY <2>1, <2>2, ReceivesAssumption
  <2> HIDE DEF H
  <2>4. H = {} \/ H = {<<m, 1>>}
    BY <2>3
  <2>5. Cardinality(H) \in {0, 1}
    BY <2>4, FS_EmptySet, FS_Singleton
  <2> QED
    BY <2>5 DEF H
<1>2. IInv => RepeatsNeedAFailure
  BY <1>1 DEF RepeatsNeedAFailure
<1> QED
  BY <1>2, Invariance, PTL

\* The cleanup of stale connections takes no row of an open socket, unless the socket was
\* still opening when a broadcast found it gone (isGoneException, deleteConnection).
THEOREM OpenSocketsAreListed == Spec => []OpenConnectionsAreListed
<1>1. IInv => OpenConnectionsAreListed
  BY DEF IInv, Sockets, OpenConnectionsAreListed
<1> QED
  BY <1>1, Invariance, PTL

-----------------------------------------------------------------------------
\* The webhook notifier's half, for which the other half only makes messages arrive.

HookBatchType == [records : SUBSET Handoffs, left : SUBSET Handoffs, failed : SUBSET Handoffs,
                  current : Handoffs \cup {None}]

\* What the loop has left behind without a failure has been taken by the endpoint.
Delivered(w) ==
    hookBatch[w].records
        \ (hookBatch[w].left \cup hookBatch[w].failed \cup {hookBatch[w].current}) \subseteq received

HookInv ==
    /\ hookBatch \in [HookWorkers -> HookBatchType]
    /\ \A w \in HookWorkers : Delivered(w)
    /\ DeliveredBeforeDeleted

\* A step that moves no message and no batch.
LEMMA HookIdles ==
  ASSUME HookInv, UNCHANGED <<hookQueue, hookBatch>>, received \subseteq received'
  PROVE  HookInv'
BY DEF HookInv, Delivered, DeliveredBeforeDeleted

\* A step of the invocation of w that changes its batch to r.
LEMMA HookMoves ==
  ASSUME HookInv, NEW w \in HookWorkers, NEW r \in HookBatchType,
         hookBatch' = [hookBatch EXCEPT ![w] = r],
         received \subseteq received',
         r.records \ (r.left \cup r.failed \cup {r.current}) \subseteq received',
         \A h \in Handoffs : hookQueue'[h] = "acknowledged" =>
           hookQueue[h] = "acknowledged" \/ h \in received'
  PROVE  HookInv'
<1>1. hookBatch' \in [HookWorkers -> HookBatchType]
  BY DEF HookInv
<1>2. hookBatch'[w] = r /\ \A v \in HookWorkers \ {w} : hookBatch'[v] = hookBatch[v]
  BY DEF HookInv
<1>3. \A v \in HookWorkers : Delivered(v)'
  BY <1>2 DEF HookInv, Delivered
<1>4. DeliveredBeforeDeleted'
  BY DEF HookInv, DeliveredBeforeDeleted
<1> QED
  BY <1>1, <1>3, <1>4 DEF HookInv

LEMMA HookContinuing == ASSUME HookInv, [Next]_vars PROVE HookInv'
<1>1. \A w \in HookWorkers : hookBatch[w] \in HookBatchType
  BY DEF HookInv
<1>2. CASE Realtime
  <2>1. CASE UNCHANGED hook
    BY <2>1, HookIdles DEF hook
  <2>2. ASSUME NEW w \in Workers, Send(w)
        PROVE  HookInv'
    BY <2>2 DEF Send, Hook!Arrive, HookInv, Delivered, DeliveredBeforeDeleted
  <2> QED
    BY <1>2, <2>1, <2>2 DEF Realtime
<1>3. ASSUME NEW w \in HookWorkers, HookReceive(w)
      PROVE  HookInv'
  <2>1. PICK records \in SUBSET Handoffs : Hook!Invoke(w, records)
    BY <1>3 DEF HookReceive
  <2> DEFINE r == [Hook!NoBatch EXCEPT !.records = records, !.left = records]
  <2>2. r \in HookBatchType /\ r.left = r.records
    BY DEF Hook!NoBatch, HookBatchType
  <2>3. /\ hookBatch' = [hookBatch EXCEPT ![w] = r] /\ UNCHANGED received
        /\ \A h \in Handoffs : hookQueue'[h] \in {"inflight", hookQueue[h]}
    BY <2>1 DEF Hook!Invoke, Hook!ReceiveBatch, Hook!endpoint
  <2> HIDE DEF r
  <2> QED
    BY <2>2, <2>3, HookMoves
<1>4. ASSUME NEW w \in HookWorkers, NEW h \in Handoffs, Hook!ProcessRecord(w, h)
      PROVE  HookInv'
  <2> DEFINE r == [hookBatch[w] EXCEPT !.left = @ \ {h}, !.current = h]
  <2>1. /\ r \in HookBatchType /\ r.records = hookBatch[w].records /\ r.failed = hookBatch[w].failed
        /\ r.left = hookBatch[w].left \ {h} /\ r.current = h
    BY <1>1 DEF HookBatchType
  <2>2. /\ hookBatch' = [hookBatch EXCEPT ![w] = r] /\ UNCHANGED <<received, hookQueue>>
        /\ hookBatch[w].current = None
    BY <1>4 DEF Hook!ProcessRecord, Hook!TakeUp, Hook!Current, Hook!endpoint, HookInv
  <2> HIDE DEF r
  <2>3. r.records \ (r.left \cup r.failed \cup {r.current}) \subseteq received
    BY <1>1, <2>1, <2>2, HandoffsAssumption DEF HookInv, Delivered, HookBatchType
  <2> QED
    BY <2>1, <2>2, <2>3, HookMoves
<1>5. ASSUME NEW w \in HookWorkers, Hook!Post(w)
      PROVE  HookInv'
  <2> DEFINE r == [hookBatch[w] EXCEPT !.current = None]
  <2>1. /\ r \in HookBatchType /\ r.records = hookBatch[w].records /\ r.failed = hookBatch[w].failed
        /\ r.left = hookBatch[w].left
    BY <1>1 DEF HookBatchType
  <2>2. /\ hookBatch' = [hookBatch EXCEPT ![w] = r] /\ UNCHANGED hookQueue
        /\ received' = received \cup {hookBatch[w].current}
    BY <1>5 DEF Hook!Post, Hook!PassRecord, Hook!Current, HookInv
  <2> HIDE DEF r
  <2>3. r.records \ (r.left \cup r.failed \cup {r.current}) \subseteq received'
    BY <2>1, <2>2 DEF HookInv, Delivered
  <2> QED
    BY <2>1, <2>2, <2>3, HookMoves
<1>6. ASSUME NEW w \in HookWorkers, Hook!RejectRecord(w) \/ Hook!PostFails(w)
      PROVE  HookInv'
  <2> DEFINE r == [hookBatch[w] EXCEPT !.current = None, !.failed = @ \cup {hookBatch[w].current}]
  <2>1. hookBatch[w].current \in Handoffs
    BY <1>6, MalformedAssumption DEF Hook!RejectRecord, Hook!PostFails, Hook!Current, Handoffs
  <2>2. /\ r \in HookBatchType /\ r.records = hookBatch[w].records /\ r.left = hookBatch[w].left
        /\ r.failed = hookBatch[w].failed \cup {hookBatch[w].current}
    BY <1>1, <2>1 DEF HookBatchType
  <2>3. /\ hookBatch' = [hookBatch EXCEPT ![w] = r] /\ UNCHANGED hookQueue
    BY <1>6 DEF Hook!RejectRecord, Hook!PostFails, Hook!FailRecord, Hook!Current, HookInv
  <2>4. received \subseteq received'
    BY <1>6 DEF Hook!RejectRecord, Hook!PostFails
  <2> HIDE DEF r
  <2>5. r.records \ (r.left \cup r.failed \cup {r.current}) \subseteq received'
    BY <2>2, <2>4 DEF HookInv, Delivered
  <2> QED
    BY <2>2, <2>3, <2>4, <2>5, HookMoves
<1>7. ASSUME NEW w \in HookWorkers, Hook!Respond(w) \/ Hook!Abort(w)
      PROVE  HookInv'
  <2>1. Hook!NoBatch \in HookBatchType /\ Hook!NoBatch.records = {}
    BY DEF Hook!NoBatch, HookBatchType
  <2>2. hookBatch' = [hookBatch EXCEPT ![w] = Hook!NoBatch] /\ UNCHANGED received
    BY <1>7 DEF Hook!Respond, Hook!Abort, Hook!Answer, Hook!EndAbruptly, Hook!endpoint
  <2>3. ASSUME NEW h \in Handoffs, hookQueue'[h] = "acknowledged"
        PROVE  hookQueue[h] = "acknowledged" \/ h \in received'
    <3>1. CASE Hook!Abort(w)
      BY <2>3, <3>1 DEF Hook!Abort, Hook!EndAbruptly, Hook!Returned
    <3>2. CASE Hook!Respond(w)
      <4>1. /\ hookBatch[w].current = None /\ hookBatch[w].left = {}
            /\ h \in hookBatch[w].records => h \notin hookBatch[w].failed
            /\ h \notin hookBatch[w].records => hookQueue'[h] = hookQueue[h]
        BY <2>3, <3>2 DEF Hook!Respond, Hook!Answer, Hook!Current, Hook!Returned
      <4> QED
        BY <2>2, <2>3, <4>1, HandoffsAssumption DEF HookInv, Delivered
    <3> QED
      BY <1>7, <3>1, <3>2
  <2> QED
    BY <2>1, <2>2, <2>3, HookMoves
<1>8. CASE UNCHANGED vars \/ Hook!Rotate \/ \E w \in HookWorkers : Hook!LoadConfig(w) \/ Hook!Cool(w)
  BY <1>8, HookIdles DEF vars, hook, Hook!Rotate, Hook!LoadConfig, Hook!Cool, Hook!sqs
<1> QED
  BY <1>2, <1>3, <1>4, <1>5, <1>6, <1>7, <1>8 DEF Next, Webhook, Hook!Run

\* A webhook message is deleted from its queue only when the endpoint has taken it with a
\* valid signature, whatever the secret's rotations and the ends of environments
\* (handleWebhookBatch names every record whose processRecord has thrown).
THEOREM DeletedMessagesWereTaken == Spec => []DeliveredBeforeDeleted
<1>1. Init => HookInv
  <2> SUFFICES ASSUME Init PROVE HookInv
    OBVIOUS
  <2>1. /\ hookBatch = [w \in HookWorkers |-> Hook!NoBatch]
        /\ hookQueue = [h \in Handoffs |-> "unsent"]
    BY DEF Init, Hook!NoBatches
  <2>2. Hook!NoBatch \in HookBatchType /\ Hook!NoBatch.records = {}
    BY DEF Hook!NoBatch, HookBatchType
  <2> QED
    BY <2>1, <2>2 DEF HookInv, Delivered, DeliveredBeforeDeleted
<1>2. HookInv /\ [Next]_vars => HookInv'
  BY HookContinuing
<1>3. HookInv => DeliveredBeforeDeleted
  BY DEF HookInv
<1> QED
  BY <1>1, <1>2, <1>3, PTL DEF Spec
-----------------------------------------------------------------------------
\* Failures against receives: why a message dies by its own failures.

\* What an invocation has is in flight, and each of its messages has failed as often as it
\* has been received, but for the present receive while the loop has not failed it.
HookHolds(w) ==
    LET b == hookBatch[w]
    IN  /\ b.left \subseteq b.records
        /\ b.failed \subseteq b.records \ (b.left \cup {b.current})
        /\ b.current \in (b.records \ b.left) \cup {None}
        /\ \A h \in b.records : hookQueue[h] = "inflight"
        /\ \A h \in b.records \ b.failed : refusals[h] < hookReceives[h]
        /\ \A h \in b.records \ (b.failed \cup cut) : refusals[h] + 1 = hookReceives[h]
        /\ \A h \in b.failed \ cut : refusals[h] = hookReceives[h]

\* A message is with one invocation at most.
HookBatches ==
    /\ \A w \in HookWorkers : HookHolds(w)
    /\ \A v, w \in HookWorkers : v # w => hookBatch[v].records \cap hookBatch[w].records = {}

\* The failures and the receives of a message that no invocation has.
HookCounted(h) ==
    /\ refusals[h] <= hookReceives[h]
    /\ hookQueue[h] = "visible" => hookReceives[h] < MaxReceives
    /\ hookQueue[h] \in {"unsent", "visible"} /\ h \notin cut => refusals[h] = hookReceives[h]
    /\ hookQueue[h] = "unsent" => hookReceives[h] = 0
    /\ hookQueue[h] = "dead" /\ h \notin cut => refusals[h] = MaxReceives

CountInv ==
    /\ Hook!WebhookTypeOK
    /\ HookBatches
    /\ \A h \in Handoffs : HookCounted(h)

HookCountTypes ==
    /\ hookQueue \in [Handoffs -> Hook!Places]
    /\ hookReceives \in [Handoffs -> 0 .. MaxReceives]
    /\ refusals \in [Handoffs -> 0 .. MaxReceives]
    /\ cut \subseteq Handoffs

HookEndpointTypes ==
    /\ config \in [HookWorkers -> Secrets \cup {None}]
    /\ secret \in Secrets
    /\ received \subseteq Handoffs

LEMMA HookTypesSplit ==
  Hook!WebhookTypeOK <=> /\ hookBatch \in [HookWorkers -> HookBatchType]
                         /\ HookCountTypes /\ HookEndpointTypes
BY DEF Hook!WebhookTypeOK, Hook!BatchesTypeOK, HookBatchType, HookCountTypes, HookEndpointTypes,
       Hook!Places

\* What the endpoint and the environments keep is independent of the counts.
LEMMA HookEndpointStays ==
  ASSUME CountInv, [Next]_vars
  PROVE  HookEndpointTypes'
<1>1. HookEndpointTypes /\ \A w \in HookWorkers : hookBatch[w] \in HookBatchType
  BY HookTypesSplit DEF CountInv
<1>2. CASE UNCHANGED <<config, secret, received>>
  BY <1>1, <1>2 DEF HookEndpointTypes
<1>3. ASSUME NEW w \in HookWorkers, Hook!LoadConfig(w) \/ Hook!Cool(w) \/ Hook!Abort(w)
      PROVE  HookEndpointTypes'
  <2>1. UNCHANGED <<secret, received>>
    BY <1>3 DEF Hook!LoadConfig, Hook!Cool, Hook!Abort
  <2>2. PICK kept \in Secrets \cup {None} : config' = [config EXCEPT ![w] = kept]
    BY <1>1, <1>3 DEF Hook!LoadConfig, Hook!Cool, Hook!Abort, HookEndpointTypes
  <2> QED
    BY <1>1, <2>1, <2>2 DEF HookEndpointTypes
<1>4. ASSUME NEW w \in HookWorkers, Hook!Post(w) \/ Hook!PostFails(w)
      PROVE  HookEndpointTypes'
  <2>1. hookBatch[w].current \in Handoffs
    BY <1>4 DEF Hook!Post, Hook!PostFails, Hook!Current
  <2>2. received' \subseteq received \cup {hookBatch[w].current} /\ UNCHANGED <<config, secret>>
    BY <1>4 DEF Hook!Post, Hook!PostFails, Hook!Current
  <2> QED
    BY <1>1, <2>1, <2>2 DEF HookEndpointTypes
<1>5. CASE Hook!Rotate
  BY <1>1, <1>5 DEF Hook!Rotate, HookEndpointTypes
<1>6. ASSUME NEW w \in HookWorkers,
             \/ HookReceive(w) \/ (\E h \in Handoffs : Hook!ProcessRecord(w, h))
             \/ Hook!RejectRecord(w) \/ Hook!Respond(w)
      PROVE  HookEndpointTypes'
  BY <1>2, <1>6 DEF HookReceive, Hook!Invoke, Hook!ProcessRecord, Hook!RejectRecord,
                    Hook!Respond, Hook!endpoint
<1>7. CASE Realtime \/ UNCHANGED vars
  BY <1>2, <1>7 DEF Realtime, Send, vars, hook
<1> QED
  BY <1>3, <1>4, <1>5, <1>6, <1>7 DEF Next, Webhook, Hook!Run

\* Only the batch of w changes, to r, and of the messages only those in S, which no other
\* invocation has.
LEMMA HookOneBatch ==
  ASSUME CountInv, HookEndpointTypes', HookCountTypes',
         NEW w \in HookWorkers, NEW r \in HookBatchType,
         hookBatch' = [hookBatch EXCEPT ![w] = r],
         NEW S \in SUBSET Handoffs, r.records \subseteq S,
         \A v \in HookWorkers \ {w} : S \cap hookBatch[v].records = {},
         \A h \in Handoffs \ S : /\ hookQueue'[h] = hookQueue[h]
                                 /\ hookReceives'[h] = hookReceives[h]
                                 /\ refusals'[h] = refusals[h]
                                 /\ (h \in cut') <=> (h \in cut),
         HookHolds(w)',
         \A h \in S : HookCounted(h)'
  PROVE  CountInv'
<1>0. hookBatch \in [HookWorkers -> HookBatchType]
  BY HookTypesSplit DEF CountInv
<1>1. /\ hookBatch' \in [HookWorkers -> HookBatchType] /\ hookBatch'[w] = r
      /\ \A v \in HookWorkers \ {w} : hookBatch'[v] = hookBatch[v]
  BY <1>0
<1>2. Hook!WebhookTypeOK'
  BY <1>1 DEF HookBatchType, Hook!WebhookTypeOK, Hook!BatchesTypeOK,
     HookCountTypes, HookEndpointTypes, Hook!Places
<1>3. \A v \in HookWorkers \ {w} : HookHolds(v)'
  <2> SUFFICES ASSUME NEW v \in HookWorkers \ {w} PROVE HookHolds(v)'
    OBVIOUS
  <2>1. HookHolds(v) /\ hookBatch[v] \in HookBatchType /\ hookBatch'[v] = hookBatch[v]
    BY <1>0, <1>1 DEF CountInv, HookBatches
  <2>2. hookBatch[v].records \subseteq Handoffs \ S
    BY <2>1 DEF HookBatchType
  <2>3. hookBatch[v].failed \subseteq hookBatch[v].records
    BY <2>1 DEF HookHolds
  <2>4. \A h \in hookBatch[v].records :
          /\ hookQueue'[h] = hookQueue[h] /\ hookReceives'[h] = hookReceives[h]
          /\ refusals'[h] = refusals[h] /\ ((h \in cut') <=> (h \in cut))
    BY <2>2
  <2> QED
    BY <2>1, <2>3, <2>4 DEF HookHolds
<1>4. HookBatches'
  BY <1>1, <1>3 DEF CountInv, HookBatches
<1>5. \A h \in Handoffs : HookCounted(h)'
  <2> SUFFICES ASSUME NEW h \in Handoffs \ S PROVE HookCounted(h)'
    OBVIOUS
  <2>1. HookCounted(h)
    BY DEF CountInv
  <2>2. /\ hookQueue'[h] = hookQueue[h] /\ hookReceives'[h] = hookReceives[h]
        /\ refusals'[h] = refusals[h] /\ ((h \in cut') <=> (h \in cut))
    OBVIOUS
  <2> QED
    BY <2>1, <2>2 DEF HookCounted
<1> QED
  BY <1>2, <1>4, <1>5 DEF CountInv
\* The messages of w's batch are with nobody else.
LEMMA HookKnown ==
  ASSUME CountInv, NEW w \in HookWorkers
  PROVE  /\ hookBatch[w] \in HookBatchType /\ HookHolds(w)
         /\ hookBatch[w].records \in SUBSET Handoffs
         /\ \A v \in HookWorkers \ {w} : hookBatch[w].records \cap hookBatch[v].records = {}
         /\ HookCountTypes
BY HookTypesSplit DEF CountInv, HookBatches, HookBatchType

LEMMA HookBatchTakenUp ==
  ASSUME CountInv, HookEndpointTypes', NEW w \in HookWorkers, NEW h \in Handoffs,
         Hook!ProcessRecord(w, h)
  PROVE  CountInv'
<1>1. /\ hookBatch[w] \in HookBatchType /\ HookHolds(w)
      /\ hookBatch[w].records \in SUBSET Handoffs
      /\ \A v \in HookWorkers \ {w} : hookBatch[w].records \cap hookBatch[v].records = {}
      /\ HookCountTypes
  BY HookKnown
<1> DEFINE r == [hookBatch[w] EXCEPT !.left = @ \ {h}, !.current = h]
<1>2. /\ r \in HookBatchType /\ r.records = hookBatch[w].records /\ r.failed = hookBatch[w].failed
      /\ r.left = hookBatch[w].left \ {h} /\ r.current = h
  BY <1>1 DEF HookBatchType
<1>3. /\ hookBatch' = [hookBatch EXCEPT ![w] = r] /\ h \in hookBatch[w].left
      /\ hookBatch[w].current = None
      /\ UNCHANGED <<hookQueue, hookReceives, refusals, cut>>
  BY DEF Hook!ProcessRecord, Hook!TakeUp, Hook!Current, Hook!endpoint
<1> HIDE DEF r
<1>4. hookBatch'[w] = r
  BY <1>3, HookTypesSplit DEF CountInv
<1>5. HookHolds(w)'
  BY <1>1, <1>2, <1>3, <1>4 DEF HookHolds
<1>6. \A g \in Handoffs : HookCounted(g)'
  BY <1>3 DEF CountInv, HookCounted
<1>7. HookCountTypes'
  BY <1>1, <1>3 DEF HookCountTypes
<1> QED
  BY <1>1, <1>2, <1>3, <1>5, <1>6, <1>7, HookOneBatch

LEMMA HookBatchPassed ==
  ASSUME CountInv, HookEndpointTypes', NEW w \in HookWorkers, Hook!Post(w)
  PROVE  CountInv'
<1>1. /\ hookBatch[w] \in HookBatchType /\ HookHolds(w)
      /\ hookBatch[w].records \in SUBSET Handoffs
      /\ \A v \in HookWorkers \ {w} : hookBatch[w].records \cap hookBatch[v].records = {}
      /\ HookCountTypes
  BY HookKnown
<1> DEFINE r == [hookBatch[w] EXCEPT !.current = None]
<1>2. /\ r \in HookBatchType /\ r.records = hookBatch[w].records /\ r.failed = hookBatch[w].failed
      /\ r.left = hookBatch[w].left /\ r.current = None
  BY <1>1 DEF HookBatchType
<1>3. /\ hookBatch' = [hookBatch EXCEPT ![w] = r]
      /\ UNCHANGED <<hookQueue, hookReceives, refusals, cut>>
  BY DEF Hook!Post, Hook!PassRecord
<1> HIDE DEF r
<1>4. hookBatch'[w] = r
  BY <1>3, HookTypesSplit DEF CountInv
<1>5. None \notin hookBatch[w].failed
  BY <1>1, HandoffsAssumption DEF HookBatchType
<1>6. HookHolds(w)'
  BY <1>1, <1>2, <1>3, <1>4, <1>5 DEF HookHolds
<1>7. \A g \in Handoffs : HookCounted(g)'
  BY <1>3 DEF CountInv, HookCounted
<1>8. HookCountTypes'
  BY <1>1, <1>3 DEF HookCountTypes
<1> QED
  BY <1>1, <1>2, <1>3, <1>6, <1>7, <1>8, HookOneBatch

LEMMA HookBatchFailed ==
  ASSUME CountInv, HookEndpointTypes', NEW w \in HookWorkers,
         Hook!RejectRecord(w) \/ Hook!PostFails(w)
  PROVE  CountInv'
<1>1. /\ hookBatch[w] \in HookBatchType /\ HookHolds(w)
      /\ hookBatch[w].records \in SUBSET Handoffs
      /\ \A v \in HookWorkers \ {w} : hookBatch[w].records \cap hookBatch[v].records = {}
      /\ HookCountTypes
  BY HookKnown
<1> DEFINE h == hookBatch[w].current
<1> DEFINE r == [hookBatch[w] EXCEPT !.current = None, !.failed = @ \cup {hookBatch[w].current}]
<1>2. h \in Handoffs
  BY MalformedAssumption DEF Hook!RejectRecord, Hook!PostFails, Hook!Current, Handoffs
<1>3. /\ r \in HookBatchType /\ r.records = hookBatch[w].records
      /\ r.failed = hookBatch[w].failed \cup {h}
      /\ r.left = hookBatch[w].left /\ r.current = None
  BY <1>1, <1>2 DEF HookBatchType
<1>4. /\ hookBatch' = [hookBatch EXCEPT ![w] = r]
      /\ refusals' = [refusals EXCEPT ![h] = @ + 1]
      /\ UNCHANGED <<hookQueue, hookReceives, cut>>
  BY DEF Hook!RejectRecord, Hook!PostFails, Hook!FailRecord, Hook!Current
<1>5. h \in hookBatch[w].records \ (hookBatch[w].left \cup hookBatch[w].failed)
  BY <1>1, <1>2, HandoffsAssumption DEF HookHolds
<1> HIDE DEF r, h
<1>6. hookBatch'[w] = r
  BY <1>4, HookTypesSplit DEF CountInv
<1>7. /\ refusals'[h] = refusals[h] + 1
      /\ \A g \in Handoffs \ {h} : refusals'[g] = refusals[g]
      /\ refusals[h] \in Nat /\ hookReceives[h] \in 0 .. MaxReceives
      /\ refusals[h] < hookReceives[h]
  BY <1>1, <1>2, <1>4, <1>5, ReceivesAssumption DEF HookCountTypes, HookHolds
<1>8. None \notin r.failed /\ hookBatch[w].records \subseteq Handoffs
  BY <1>3, HandoffsAssumption DEF HookBatchType
<1>9. HookHolds(w)'
  <2>1. \A g \in r.failed \ cut : refusals'[g] = hookReceives[g]
    BY <1>1, <1>3, <1>5, <1>7, <1>8 DEF HookHolds
  <2>2. \A g \in r.records \ r.failed : refusals'[g] < hookReceives[g]
    BY <1>1, <1>3, <1>5, <1>7, <1>8 DEF HookHolds
  <2>3. \A g \in r.records \ (r.failed \cup cut) : refusals'[g] + 1 = hookReceives[g]
    BY <1>1, <1>3, <1>5, <1>7, <1>8 DEF HookHolds
  <2> QED
    BY <1>1, <1>3, <1>4, <1>5, <1>6, <1>8, <2>1, <2>2, <2>3 DEF HookHolds
<1>10. refusals'[h] <= hookReceives[h] /\ hookQueue[h] = "inflight"
  BY <1>1, <1>5, <1>7, ReceivesAssumption DEF HookHolds
<1>11. \A g \in hookBatch[w].records : HookCounted(g)'
  BY <1>4, <1>7, <1>8, <1>10 DEF CountInv, HookCounted
<1>12. refusals' \in [Handoffs -> 0 .. MaxReceives]
  BY <1>1, <1>2, <1>4, <1>7, ReceivesAssumption DEF HookCountTypes
<1>13. HookCountTypes'
  BY <1>1, <1>4, <1>12 DEF HookCountTypes
<1>14. \A g \in Handoffs \ hookBatch[w].records : refusals'[g] = refusals[g]
  BY <1>5, <1>7
<1> QED
  BY <1>1, <1>3, <1>4, <1>9, <1>11, <1>13, <1>14, HookOneBatch
LEMMA HookBatchReceived ==
  ASSUME CountInv, HookEndpointTypes', NEW w \in HookWorkers, HookReceive(w)
  PROVE  CountInv'
<1>1. /\ hookBatch[w] \in HookBatchType /\ HookHolds(w)
      /\ HookCountTypes
  BY HookKnown
<1>2. PICK records \in SUBSET Handoffs : Hook!Invoke(w, records)
  BY DEF HookReceive
<1> DEFINE r == [Hook!NoBatch EXCEPT !.records = records, !.left = records]
<1>3. /\ r \in HookBatchType /\ r.records = records /\ r.left = records /\ r.failed = {}
      /\ r.current = None
  BY DEF Hook!NoBatch, HookBatchType
<1>4. /\ hookBatch' = [hookBatch EXCEPT ![w] = r]
      /\ hookQueue' = [h \in Handoffs |-> IF h \in records THEN "inflight" ELSE hookQueue[h]]
      /\ hookReceives' = [h \in Handoffs |-> IF h \in records THEN hookReceives[h] + 1
                                             ELSE hookReceives[h]]
      /\ \A h \in records : hookQueue[h] = "visible"
      /\ UNCHANGED <<refusals, cut>>
  BY <1>2 DEF Hook!Invoke, Hook!ReceiveBatch, Hook!endpoint
<1> HIDE DEF r
<1>5. hookBatch'[w] = r
  BY <1>4, HookTypesSplit DEF CountInv
<1>6. \A h \in records :
        /\ hookQueue'[h] = "inflight" /\ hookReceives'[h] = hookReceives[h] + 1
        /\ refusals'[h] = refusals[h]
        /\ hookReceives[h] \in Nat /\ refusals[h] \in Nat /\ hookReceives[h] < MaxReceives
        /\ refusals[h] <= hookReceives[h]
        /\ h \notin cut => refusals[h] = hookReceives[h]
  BY <1>1, <1>4, ReceivesAssumption DEF CountInv, HookCounted, HookCountTypes
<1>7. HookHolds(w)'
  BY <1>3, <1>4, <1>5, <1>6 DEF HookHolds
<1>8. \A h \in records : HookCounted(h)'
  BY <1>6 DEF HookCounted
<1>9. HookCountTypes'
  <2>1. hookQueue' \in [Handoffs -> Hook!Places]
    BY <1>1, <1>4 DEF HookCountTypes, Hook!Places
  <2>2. hookReceives' \in [Handoffs -> 0 .. MaxReceives]
    BY <1>1, <1>4, <1>6, ReceivesAssumption DEF HookCountTypes
  <2> QED
    BY <1>1, <1>4, <2>1, <2>2 DEF HookCountTypes
<1>10. \A v \in HookWorkers \ {w} : records \cap hookBatch[v].records = {}
  BY <1>4 DEF CountInv, HookBatches, HookHolds
<1>11. \A h \in Handoffs \ records :
         hookQueue'[h] = hookQueue[h] /\ hookReceives'[h] = hookReceives[h]
  BY <1>4
<1> QED
  BY <1>3, <1>4, <1>7, <1>8, <1>9, <1>10, <1>11, HookOneBatch

\* The answer, or an abrupt end, which cuts all the messages of the batch.
LEMMA HookBatchEnded ==
  ASSUME CountInv, HookEndpointTypes', NEW w \in HookWorkers, Hook!Respond(w) \/ Hook!Abort(w)
  PROVE  CountInv'
<1>1. /\ hookBatch[w] \in HookBatchType /\ HookHolds(w)
      /\ hookBatch[w].records \in SUBSET Handoffs
      /\ \A v \in HookWorkers \ {w} : hookBatch[w].records \cap hookBatch[v].records = {}
      /\ HookCountTypes
  BY HookKnown
<1>2. /\ Hook!NoBatch \in HookBatchType /\ Hook!NoBatch.records = {} /\ Hook!NoBatch.left = {}
      /\ Hook!NoBatch.failed = {} /\ Hook!NoBatch.current = None
  BY DEF Hook!NoBatch, HookBatchType
<1>3. /\ hookBatch' = [hookBatch EXCEPT ![w] = Hook!NoBatch]
      /\ UNCHANGED <<hookReceives, refusals>>
      /\ cut' \subseteq cut \cup hookBatch[w].records /\ cut \subseteq cut'
  BY DEF Hook!Respond, Hook!Abort, Hook!Answer, Hook!EndAbruptly, Hook!endpoint
<1>4. hookBatch'[w] = Hook!NoBatch
  BY <1>3, HookTypesSplit DEF CountInv
<1>5. HookHolds(w)'
  BY <1>2, <1>4 DEF HookHolds
<1>6. \A h \in Handoffs : Hook!Returned(h) = IF hookReceives[h] >= MaxReceives THEN "dead" ELSE "visible"
  BY DEF Hook!Returned
<1>7. /\ hookQueue' \in [Handoffs -> Hook!Places]
      /\ \A h \in Handoffs \ hookBatch[w].records : hookQueue'[h] = hookQueue[h]
      /\ \A h \in hookBatch[w].records :
           \/ h \notin cut' /\ h \notin hookBatch[w].failed /\ hookQueue'[h] = "acknowledged"
           \/ /\ h \in cut' \cup hookBatch[w].failed
              /\ hookQueue'[h] \in {Hook!Returned(h), "acknowledged"}
  <2>1. CASE Hook!Respond(w)
    <3>1. hookQueue' = [h \in Handoffs |->
                          IF h \notin hookBatch[w].records THEN hookQueue[h]
                          ELSE IF h \in hookBatch[w].failed THEN Hook!Returned(h)
                          ELSE "acknowledged"]
      BY <2>1 DEF Hook!Respond, Hook!Answer
    <3>2. hookQueue' \in [Handoffs -> Hook!Places]
      BY <1>1, <1>6, <3>1 DEF HookCountTypes, Hook!Places
    <3> QED
      BY <1>1, <3>1, <3>2
  <2>2. CASE Hook!Abort(w)
    <3>1. /\ hookQueue' = [h \in Handoffs |->
                             IF h \in hookBatch[w].records THEN Hook!Returned(h) ELSE hookQueue[h]]
          /\ hookBatch[w].records \subseteq cut'
      BY <2>2 DEF Hook!Abort, Hook!EndAbruptly
    <3>2. hookQueue' \in [Handoffs -> Hook!Places]
      BY <1>1, <1>6, <3>1 DEF HookCountTypes, Hook!Places
    <3> QED
      BY <1>1, <3>1, <3>2
  <2> QED
    BY <2>1, <2>2
<1>8. \A h \in hookBatch[w].records : HookCounted(h)'
  <2> SUFFICES ASSUME NEW h \in hookBatch[w].records PROVE HookCounted(h)'
    OBVIOUS
  <2>1. /\ h \in Handoffs
        /\ hookReceives[h] \in 0 .. MaxReceives /\ refusals[h] \in 0 .. MaxReceives
        /\ refusals[h] <= hookReceives[h]
        /\ hookReceives'[h] = hookReceives[h] /\ refusals'[h] = refusals[h]
    BY <1>1, <1>3 DEF CountInv, HookCounted, HookCountTypes
  <2>2. CASE hookQueue'[h] = "acknowledged"
    BY <2>1, <2>2 DEF HookCounted
  <2>3. CASE hookQueue'[h] = Hook!Returned(h) /\ h \in cut'
    BY <1>6, <2>1, <2>3, ReceivesAssumption DEF HookCounted
  <2>4. CASE hookQueue'[h] = Hook!Returned(h) /\ h \in hookBatch[w].failed /\ h \notin cut'
    <3>1. refusals[h] = hookReceives[h]
      BY <1>1, <1>3, <2>4 DEF HookHolds
    <3> QED
      BY <1>6, <2>1, <2>4, <3>1, ReceivesAssumption DEF HookCounted
  <2> QED
    BY <1>7, <2>2, <2>3, <2>4
<1>9. HookCountTypes'
  BY <1>1, <1>3, <1>7 DEF HookCountTypes
<1>10. \A h \in Handoffs \ hookBatch[w].records : (h \in cut') <=> (h \in cut)
  BY <1>3
<1> QED
  BY <1>1, <1>2, <1>3, <1>5, <1>7, <1>8, <1>9, <1>10, HookOneBatch

\* A hand-off makes messages arrive that have never been received.
LEMMA HookArrived ==
  ASSUME CountInv, HookEndpointTypes', NEW w \in Workers, Send(w)
  PROVE  CountInv'
<1>1. /\ hookQueue' = [h \in Handoffs |-> IF h \in handed' /\ hookQueue[h] = "unsent"
                                          THEN "visible" ELSE hookQueue[h]]
      /\ UNCHANGED <<hookReceives, hookBatch, refusals, cut>>
  BY DEF Send, Hook!Arrive
<1>2. HookCountTypes /\ hookBatch \in [HookWorkers -> HookBatchType]
  BY HookTypesSplit DEF CountInv
<1>3. hookQueue' \in [Handoffs -> Hook!Places]
  BY <1>1, <1>2 DEF HookCountTypes, Hook!Places
<1>4. Hook!WebhookTypeOK'
  BY <1>1, <1>2, <1>3 DEF HookBatchType, Hook!WebhookTypeOK, Hook!BatchesTypeOK,
     HookCountTypes, HookEndpointTypes, Hook!Places
<1>5. ASSUME NEW v \in HookWorkers PROVE HookHolds(v)'
  <2>1. HookHolds(v) /\ hookBatch[v].records \subseteq Handoffs
    BY <1>2 DEF CountInv, HookBatches, HookBatchType
  <2>2. \A h \in hookBatch[v].records : hookQueue'[h] = "inflight"
    BY <1>1, <2>1 DEF HookHolds
  <2> QED
    BY <1>1, <2>1, <2>2 DEF HookHolds
<1>6. ASSUME NEW h \in Handoffs PROVE HookCounted(h)'
  <2>1. HookCounted(h) /\ hookReceives[h] \in Nat /\ 0 < MaxReceives
    BY <1>2, ReceivesAssumption DEF CountInv, HookCountTypes
  <2>2. \/ hookQueue'[h] = hookQueue[h]
        \/ hookQueue[h] = "unsent" /\ hookQueue'[h] = "visible"
    BY <1>1
  <2> QED
    BY <1>1, <2>1, <2>2 DEF HookCounted
<1> QED
  BY <1>1, <1>4, <1>5, <1>6 DEF CountInv, HookBatches

LEMMA HookCountsUntouched ==
  ASSUME CountInv, HookEndpointTypes', UNCHANGED <<hookQueue, hookReceives, hookBatch, refusals, cut>>
  PROVE  CountInv'
<1>1. Hook!WebhookTypeOK'
  BY DEF CountInv, Hook!WebhookTypeOK, Hook!BatchesTypeOK, HookEndpointTypes, Hook!Places
<1>2. \A w \in HookWorkers : HookHolds(w)'
  BY DEF CountInv, HookBatches, HookHolds
<1>3. \A h \in Handoffs : HookCounted(h)'
  BY DEF CountInv, HookCounted
<1> QED
  BY <1>1, <1>2, <1>3 DEF CountInv, HookBatches

LEMMA HookCountsStay == ASSUME CountInv, [Next]_vars PROVE CountInv'
<1>1. HookEndpointTypes'
  BY HookEndpointStays
<1>2. CASE \/ Realtime /\ UNCHANGED hook
           \/ Hook!Rotate
           \/ \E w \in HookWorkers : Hook!LoadConfig(w) \/ Hook!Cool(w)
  BY <1>1, <1>2, HookCountsUntouched DEF hook, Hook!Rotate, Hook!LoadConfig, Hook!Cool, Hook!sqs
<1>3. CASE \E w \in Workers : Send(w)
  BY <1>1, <1>3, HookArrived
<1>4. CASE \E w \in HookWorkers : HookReceive(w)
  BY <1>1, <1>4, HookBatchReceived
<1>5. CASE \E w \in HookWorkers : \E h \in Handoffs : Hook!ProcessRecord(w, h)
  BY <1>1, <1>5, HookBatchTakenUp
<1>6. CASE \E w \in HookWorkers : Hook!Post(w)
  BY <1>1, <1>6, HookBatchPassed
<1>7. CASE \E w \in HookWorkers : Hook!RejectRecord(w) \/ Hook!PostFails(w)
  BY <1>1, <1>7, HookBatchFailed
<1>8. CASE \E w \in HookWorkers : Hook!Respond(w) \/ Hook!Abort(w)
  BY <1>1, <1>8, HookBatchEnded
<1>9. CASE Realtime
  BY <1>2, <1>3, <1>9 DEF Realtime
<1>10. CASE Webhook
  BY <1>2, <1>4, <1>5, <1>6, <1>7, <1>8, <1>10 DEF Webhook, Hook!Run
<1>11. CASE UNCHANGED vars
  BY <1>1, <1>11, HookCountsUntouched DEF vars, hook
<1> QED
  BY <1>9, <1>10, <1>11 DEF Next

\* A message that ends in the dead-letter queue has failed by itself in each of its receives,
\* however the other messages of its batches have fared, unless an invocation that had it
\* ended abruptly (handleWebhookBatch catches per record; batchItemFailures).
THEOREM DeadMessagesFailedThemselves == Spec => []DeadByItsOwnFailures
<1>1. Init => CountInv
  <2> SUFFICES ASSUME Init PROVE CountInv
    OBVIOUS
  <2>1. /\ hookBatch = [w \in HookWorkers |-> Hook!NoBatch]
        /\ hookQueue = [h \in Handoffs |-> "unsent"]
        /\ hookReceives = [h \in Handoffs |-> 0]
        /\ refusals = [h \in Handoffs |-> 0] /\ cut = {}
    BY DEF Init, Hook!NoBatches, Hook!InitEndpoint
  <2>2. /\ Hook!NoBatch \in HookBatchType /\ Hook!NoBatch.records = {} /\ Hook!NoBatch.left = {}
        /\ Hook!NoBatch.failed = {} /\ Hook!NoBatch.current = None
    BY DEF Hook!NoBatch, HookBatchType
  <2>3. hookBatch \in [HookWorkers -> HookBatchType]
    BY <2>1, <2>2
  <2>4. HookCountTypes
    BY <2>1, ReceivesAssumption DEF HookCountTypes, Hook!Places
  <2>5. HookEndpointTypes
    BY DEF Init, Hook!InitEndpoint, HookEndpointTypes
  <2>6. \A w \in HookWorkers : HookHolds(w) /\ hookBatch[w].records = {}
    BY <2>1, <2>2 DEF HookHolds
  <2>7. \A h \in Handoffs : HookCounted(h)
    BY <2>1, ReceivesAssumption DEF HookCounted
  <2> QED
    BY <2>3, <2>4, <2>5, <2>6, <2>7, HookTypesSplit DEF CountInv, HookBatches
<1>2. CountInv /\ [Next]_vars => CountInv'
  BY HookCountsStay
<1>3. IInv /\ CountInv => DeadByItsOwnFailures
  BY DEF IInv, CountInv, HookCounted, DeadByItsOwnFailures, TypeOK
<1> QED
  BY <1>1, <1>2, <1>3, Invariance, PTL DEF Spec
=============================================================================
