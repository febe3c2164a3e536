--------------------------- MODULE TaskWorkerProofs ---------------------------
(***************************************************************************)
(* Proofs about TaskWorker, for any number of messages, keys, tasks and    *)
(* invocations, any batch size and any limit on receives.                  *)
(*                                                                         *)
(* What a message has been processed for stays processed (Keeping).  The   *)
(* first argument follows a record through its invocation: its key is      *)
(* handled when its handler has returned, or when its idempotency record   *)
(* is COMPLETED, and then kept by the lists of the batch until the answer  *)
(* acknowledges it; no other invocation has the message (OneInvocation).   *)
(* The second is about the key: one handler works under it at a time,      *)
(* while the record is INPROGRESS, and it has taken effect once at most    *)
(* since the table last lost the key (Effects).                            *)
(***************************************************************************)
EXTENDS TaskWorker, TLAPS

WorkerType == [pc : Phases, batch : SUBSET Messages, left : SUBSET Messages,
               failed : SUBSET Messages, current : Messages \cup {None}]

\* The business operation of a key has been carried out.
Handled(k) == \E n \in Messages : KeyOf[n] = k /\ Processed(n)

\* The records of a batch that the loop has left behind.
Done(w) == worker[w].batch \ (worker[w].left \cup {worker[w].current})

\* What an invocation has is in flight.
Holds(w) ==
    /\ worker[w].pc = "idle" => worker[w].batch = {}
    /\ worker[w].pc \in {"begun", "accepted", "refused"} => Current(w) \in Messages
    /\ worker[w].left \subseteq worker[w].batch
    /\ worker[w].failed \subseteq Done(w)
    /\ Current(w) \in (worker[w].batch \ worker[w].left) \cup {None}
    /\ \A m \in worker[w].batch : queue[m] = "inflight"

\* A message is with one invocation at most.
OneInvocation ==
    /\ \A w \in Workers : Holds(w)
    /\ \A v, w \in Workers : v # w => worker[v].batch \cap worker[w].batch = {}

\* What an invocation takes for accepted is.
Outcome(w) ==
    /\ worker[w].pc = "accepted" => Handled(KeyOf[Current(w)])
    /\ \A m \in Done(w) \ worker[w].failed : Handled(KeyOf[m])

Outcomes ==
    /\ \A w \in Workers : Outcome(w)
    /\ \A k \in Keys : idempotency[k] = "COMPLETED" => Handled(k)
    /\ \A m \in Messages : queue[m] = "acknowledged" => Handled(KeyOf[m])

IInv == TypeOK /\ OneInvocation /\ Outcomes

\* One handler at a time works under a key, and takes effect when nothing has before.
Working(w) == worker[w].pc \in {"begun", "accepted", "refused"}

Effect(w) ==
    Working(w) =>
        /\ idempotency[KeyOf[Current(w)]] = "INPROGRESS"
        /\ worker[w].pc = "begun" => effects[KeyOf[Current(w)]] = 0

Effects ==
    /\ \A w \in Workers : Effect(w)
    /\ \A v, w \in Workers :
         v # w /\ Working(v) /\ Working(w) => KeyOf[Current(v)] # KeyOf[Current(w)]
    /\ \A k \in Keys : effects[k] <= 1 /\ (idempotency[k] = "absent" => effects[k] = 0)

-----------------------------------------------------------------------------
\* Types.

LEMMA Typed ==
  ASSUME TypeOK
  PROVE  /\ worker \in [Workers -> WorkerType]
         /\ queue \in [Messages -> Places]
         /\ idempotency \in [Keys -> {"absent", "INPROGRESS", "COMPLETED"}]
         /\ execution \in [Tasks -> Contents \cup {None}]
         /\ notified \subseteq Notifications
         /\ effects \in [Keys -> 0 .. 2]
BY DEF TypeOK, WorkerType

LEMMA KeysOfMessages ==
  ASSUME NEW m \in Messages
  PROVE  KeyOf[m] \in Keys /\ TaskOf[m] \in Tasks /\ ContentOf[m] \in Contents
BY MessagesAssumption

\* A record that is through, a failed one, a new phase: what changes in the invocation.
LEMMA Moving ==
  ASSUME TypeOK, NEW w \in Workers, NEW pc \in Phases,
         worker' = [worker EXCEPT ![w].pc = pc]
  PROVE  /\ worker' \in [Workers -> WorkerType]
         /\ \A v \in Workers \ {w} : worker'[v] = worker[v]
         /\ worker'[w].pc = pc /\ worker'[w].batch = worker[w].batch
         /\ worker'[w].left = worker[w].left /\ worker'[w].failed = worker[w].failed
         /\ worker'[w].current = worker[w].current
BY Typed DEF WorkerType

LEMMA Passing ==
  ASSUME TypeOK, NEW w \in Workers, worker' = NextRecord(w)
  PROVE  /\ worker' \in [Workers -> WorkerType]
         /\ \A v \in Workers \ {w} : worker'[v] = worker[v]
         /\ worker'[w].pc = "running" /\ worker'[w].batch = worker[w].batch
         /\ worker'[w].left = worker[w].left /\ worker'[w].failed = worker[w].failed
         /\ worker'[w].current = None
BY Typed DEF WorkerType, NextRecord, Phases

LEMMA Failing ==
  ASSUME TypeOK, NEW w \in Workers, NEW m \in Messages, FailRecord(w, m)
  PROVE  /\ worker' \in [Workers -> WorkerType]
         /\ \A v \in Workers \ {w} : worker'[v] = worker[v]
         /\ worker'[w].pc = "running" /\ worker'[w].batch = worker[w].batch
         /\ worker'[w].left = worker[w].left /\ worker'[w].failed = worker[w].failed \cup {m}
         /\ worker'[w].current = None
<1> DEFINE n == NextRecord(w)
<1>1. /\ n \in [Workers -> WorkerType]
      /\ \A v \in Workers \ {w} : n[v] = worker[v]
      /\ n[w].pc = "running" /\ n[w].batch = worker[w].batch
      /\ n[w].left = worker[w].left /\ n[w].failed = worker[w].failed
      /\ n[w].current = None
  BY Typed DEF WorkerType, NextRecord, Phases
<1>2. worker' = [n EXCEPT ![w].failed = n[w].failed \cup {m}]
  BY DEF FailRecord
<1> HIDE DEF n
<1> QED
  BY <1>1, <1>2 DEF WorkerType

-----------------------------------------------------------------------------
\* What has been processed stays so.

LEMMA Counting ==
  ASSUME TypeOK, NEW k \in Keys, TakeEffect(k)
  PROVE  /\ effects' \in [Keys -> 0 .. 2]
         /\ \A j \in Keys \ {k} : effects'[j] = effects[j]
         /\ effects[k] = 0 => effects'[k] = 1
<1>1. effects[k] \in 0 .. 2 /\ effects \in [Keys -> 0 .. 2]
  BY Typed
<1>2. (IF effects[k] < 2 THEN effects[k] + 1 ELSE effects[k]) \in 0 .. 2
  BY <1>1
<1> QED
  BY <1>1, <1>2 DEF TakeEffect

LEMMA Forgetting ==
  ASSUME TypeOK, NEW k \in Keys, Forget(k)
  PROVE  /\ effects' \in [Keys -> 0 .. 2]
         /\ idempotency' \in [Keys -> {"absent", "INPROGRESS", "COMPLETED"}]
         /\ idempotency'[k] = "absent" /\ effects'[k] = 0
         /\ \A j \in Keys \ {k} : effects'[j] = effects[j] /\ idempotency'[j] = idempotency[j]
BY Typed DEF Forget

\* The handlers that take effect.
LEMMA Taking ==
  ASSUME TypeOK, OneInvocation, NEW w \in Workers, Create(w) \/ Notify(w)
  PROVE  /\ Current(w) \in Messages
         /\ execution' \in [Tasks -> Contents \cup {None}]
         /\ notified' \subseteq Notifications
         /\ effects' \in [Keys -> 0 .. 2]
         /\ \A m \in Messages : Processed(m) \/ m = Current(w) => Processed(m)'
<1>1. Current(w) \in Messages
  BY DEF Create, Notify, OneInvocation, Holds
<1>2. effects' \in [Keys -> 0 .. 2]
  BY <1>1, Counting, KeysOfMessages DEF Create, Notify
<1>3. CASE Create(w)
  <2>1. /\ execution[TaskOf[Current(w)]] = None /\ UNCHANGED notified
        /\ execution' = [execution EXCEPT ![TaskOf[Current(w)]] = ContentOf[Current(w)]]
        /\ Current(w) \notin Notifications
    BY <1>3 DEF Create
  <2>2. /\ execution' \in [Tasks -> Contents \cup {None}]
        /\ execution'[TaskOf[Current(w)]] = ContentOf[Current(w)]
        /\ \A t \in Tasks : execution[t] # None => execution'[t] = execution[t]
    BY <1>1, <2>1, KeysOfMessages, Typed
  <2>3. ASSUME NEW m \in Messages, Processed(m) \/ m = Current(w)
        PROVE  Processed(m)'
    <3>1. TaskOf[m] \in Tasks /\ ContentOf[m] # None
      BY KeysOfMessages, NoneAssumption
    <3> QED
      BY <2>1, <2>2, <2>3, <3>1 DEF Processed
  <2> QED
    BY <1>1, <1>2, <2>1, <2>2, <2>3, Typed
<1>4. CASE Notify(w)
  <2>1. /\ UNCHANGED execution /\ notified' = notified \cup {Current(w)}
        /\ Current(w) \in Notifications
    BY <1>4 DEF Notify, tables
  <2> QED
    BY <1>1, <1>2, <2>1, Typed DEF Processed
<1> QED
  BY <1>3, <1>4

LEMMA Keeping ==
  ASSUME TypeOK, OneInvocation, [Next]_vars
  PROVE  /\ execution' \in [Tasks -> Contents \cup {None}]
         /\ notified' \subseteq Notifications
         /\ effects' \in [Keys -> 0 .. 2]
         /\ \A m \in Messages : Processed(m) => Processed(m)'
<1>1. CASE UNCHANGED <<execution, history>>
  BY <1>1, Typed DEF Processed, history
<1>2. CASE \E w \in Workers : Create(w) \/ Notify(w)
  BY <1>2, Taking
<1>3. CASE UNCHANGED <<execution, notified>> /\ \E k \in Keys : Forget(k)
  BY <1>3, Forgetting, Typed DEF Processed
<1>4. \A w \in Workers : Undo(w) => Current(w) \in Messages
  BY DEF Undo, OneInvocation, Holds
<1>5. ASSUME NEW w \in Workers, Undo(w)
      PROVE  UNCHANGED <<execution, notified>> /\ \E k \in Keys : Forget(k)
  BY <1>4, <1>5, KeysOfMessages DEF Undo
<1>6. ASSUME NEW k \in Keys, Lapse(k) \/ Expire(k)
      PROVE  UNCHANGED <<execution, notified>> /\ Forget(k)
  BY <1>6 DEF Lapse, Expire
<1>7. \/ UNCHANGED <<execution, history>>
      \/ \E w \in Workers : Create(w) \/ Notify(w) \/ Undo(w)
      \/ \E k \in Keys : Lapse(k) \/ Expire(k)
  BY DEF Next, vars, tables, ReceiveBatch, Receive, Work, Take, Reject, Begin, Repeat,
         FindAccepted, Refuse, Complete, LeaveInProgress, Report, Die
<1> QED
  BY <1>1, <1>2, <1>3, <1>5, <1>6, <1>7

LEMMA Lasting ==
  ASSUME TypeOK, OneInvocation, [Next]_vars, NEW k \in Keys, Handled(k)
  PROVE  Handled(k)'
BY Keeping DEF Handled

LEMMA Taken ==
  ASSUME TypeOK, OneInvocation, NEW w \in Workers, Create(w) \/ Notify(w)
  PROVE  \A k \in Keys : k = KeyOf[Current(w)] => Handled(k)'
BY Taking DEF Handled

-----------------------------------------------------------------------------
\* What one invocation does leaves the others what they have.
LEMMA OneWorker ==
  ASSUME IInv, [Next]_vars, NEW w \in Workers,
         worker' \in [Workers -> WorkerType],
         \A v \in Workers \ {w} : worker'[v] = worker[v],
         queue' \in [Messages -> Places],
         receives' \in [Messages -> 0 .. MaxReceives],
         idempotency' \in [Keys -> {"absent", "INPROGRESS", "COMPLETED"}],
         Holds(w)', Outcome(w)',
         \A m \in Messages \ worker[w].batch : queue[m] = "inflight" => queue'[m] = "inflight",
         \A m \in worker'[w].batch : m \in worker[w].batch \/ queue[m] # "inflight",
         \A k \in Keys : idempotency'[k] = "COMPLETED" =>
                            idempotency[k] = "COMPLETED" \/ Handled(k)',
         \A m \in Messages : queue'[m] = "acknowledged" =>
                            queue[m] = "acknowledged" \/ Handled(KeyOf[m])'
  PROVE  IInv'
<1> USE DEF IInv
<1>1. TypeOK'
  BY Keeping DEF TypeOK, WorkerType
<1>2. ASSUME NEW v \in Workers, v # w
      PROVE  Holds(v)' /\ worker'[v].batch \cap worker'[w].batch = {}
  <2>1. /\ worker'[v] = worker[v]
        /\ worker[v].batch \subseteq Messages /\ worker[v].batch \cap worker[w].batch = {}
    BY <1>2, Typed DEF OneInvocation, WorkerType
  <2>2. \A m \in worker[v].batch : queue[m] = "inflight"
    BY DEF OneInvocation, Holds
  <2>3. \A m \in worker'[v].batch : queue'[m] = "inflight"
    BY <2>1, <2>2
  <2>4. Holds(v)'
    BY <2>1, <2>3 DEF OneInvocation, Holds, Done, Current
  <2> QED
    BY <2>1, <2>2, <2>4
<1>3. \A u, v \in Workers \ {w} : u # v => worker'[u].batch \cap worker'[v].batch = {}
  BY DEF OneInvocation
<1>4. OneInvocation'
  BY <1>2, <1>3 DEF OneInvocation
<1>5. ASSUME NEW v \in Workers, v # w
      PROVE  Outcome(v)'
  <2>1. worker'[v] = worker[v] /\ Outcome(v) /\ Done(v) \subseteq Messages
    BY <1>5, Typed DEF Outcomes, WorkerType, Done
  <2>2. \A m \in Messages : Handled(KeyOf[m]) => Handled(KeyOf[m])'
    BY Lasting, KeysOfMessages
  <2>3. worker[v].pc = "accepted" => Current(v) \in Messages
    BY DEF OneInvocation, Holds
  <2> QED
    BY <2>1, <2>2, <2>3 DEF Outcome, Done, Current
<1>6. Outcomes'
  BY <1>5, Lasting, KeysOfMessages DEF Outcomes
<1> QED
  BY <1>1, <1>4, <1>6

\* The same when the queue is left alone.
LEMMA Within ==
  ASSUME IInv, [Next]_vars, NEW w \in Workers,
         worker' \in [Workers -> WorkerType],
         \A v \in Workers \ {w} : worker'[v] = worker[v],
         worker'[w].batch = worker[w].batch, UNCHANGED <<queue, receives>>,
         idempotency' \in [Keys -> {"absent", "INPROGRESS", "COMPLETED"}],
         worker'[w].pc # "idle",
         worker'[w].pc \in {"begun", "accepted", "refused"} => worker'[w].current \in Messages,
         worker'[w].left \subseteq worker'[w].batch,
         worker'[w].failed \subseteq worker'[w].batch \ (worker'[w].left \cup {worker'[w].current}),
         worker'[w].current \in (worker'[w].batch \ worker'[w].left) \cup {None},
         Outcome(w)',
         \A k \in Keys : idempotency'[k] = "COMPLETED" =>
                            idempotency[k] = "COMPLETED" \/ Handled(k)'
  PROVE  IInv'
<1> USE DEF IInv
<1>1. \A m \in worker'[w].batch : queue'[m] = "inflight"
  BY DEF OneInvocation, Holds
<1>2. Holds(w)'
  BY <1>1 DEF Holds, Done, Current
<1>3. \A m \in Messages : queue'[m] = "acknowledged" => queue[m] = "acknowledged"
  OBVIOUS
<1> QED
  BY <1>2, <1>3, OneWorker, Typed DEF TypeOK

\* What the invariant says of the record at hand.
LEMMA AtHand ==
  ASSUME IInv, NEW w \in Workers, Current(w) # None \/ worker[w].pc \notin {"idle", "running"}
  PROVE  /\ Current(w) \in Messages /\ Current(w) = worker[w].current
         /\ Current(w) \in worker[w].batch \ worker[w].left
         /\ KeyOf[Current(w)] \in Keys
         /\ worker[w].pc # "idle" /\ worker[w].current # None
<1>1. worker[w] \in WorkerType
  BY Typed DEF IInv
<1>2. Current(w) \in Messages
  BY <1>1, NoneAssumption DEF IInv, OneInvocation, Holds, WorkerType, Phases
<1>3. Current(w) # None
  BY <1>2, NoneAssumption
<1>4. Current(w) \in worker[w].batch \ worker[w].left
  BY <1>3 DEF IInv, OneInvocation, Holds
<1>5. worker[w].pc # "idle"
  BY <1>4 DEF IInv, OneInvocation, Holds
<1> QED
  BY <1>2, <1>3, <1>4, <1>5, KeysOfMessages DEF Current

-----------------------------------------------------------------------------
\* The steps, one by one.

LEMMA ReceiveStep ==
  ASSUME IInv, Next, NEW w \in Workers, NEW batch \in SUBSET Messages, Receive(w, batch)
  PROVE  IInv'
<1> DEFINE r == [Idle EXCEPT !.pc = "running", !.batch = batch, !.left = batch]
<1>1. /\ r \in WorkerType /\ r.pc = "running" /\ r.batch = batch /\ r.left = batch
      /\ r.failed = {} /\ r.current = None
  BY DEF WorkerType, Idle, Phases
<1>2. worker' = [worker EXCEPT ![w] = r]
  BY DEF Receive
<1> HIDE DEF r
<1>3. worker' \in [Workers -> WorkerType] /\ \A v \in Workers \ {w} : worker'[v] = worker[v]
  BY <1>1, <1>2, Typed DEF IInv
<1>4. worker'[w] = r
  BY <1>1, <1>2, Typed DEF IInv
<1>5. queue' \in [Messages -> Places]
  BY Typed DEF Receive, IInv, Places
<1>6. receives' \in [Messages -> 0 .. MaxReceives]
  BY LimitsAssumption DEF Receive, IInv, TypeOK
<1>7. \A m \in batch : queue'[m] = "inflight" /\ queue[m] = "visible"
  BY DEF Receive
<1>8. Holds(w)' /\ Outcome(w)'
  BY <1>1, <1>4, <1>7 DEF Holds, Outcome, Done, Current
<1>9. \A m \in Messages :
         /\ queue[m] = "inflight" => queue'[m] = "inflight"
         /\ queue'[m] = "acknowledged" => queue[m] = "acknowledged"
  BY DEF Receive
<1>10. UNCHANGED idempotency
  BY DEF Receive
<1>11. /\ idempotency' \in [Keys -> {"absent", "INPROGRESS", "COMPLETED"}]
       /\ \A k \in Keys : idempotency'[k] = "COMPLETED" => idempotency[k] = "COMPLETED"
  BY <1>10, Typed DEF IInv
<1>12. \A m \in worker'[w].batch : queue[m] # "inflight"
  BY <1>1, <1>4, <1>7
<1> QED
  BY <1>3, <1>5, <1>6, <1>8, <1>9, <1>11, <1>12, OneWorker

LEMMA TakeStep ==
  ASSUME IInv, Next, NEW w \in Workers, NEW m \in Messages, Take(w, m)
  PROVE  IInv'
<1>1. /\ worker' \in [Workers -> WorkerType]
      /\ \A v \in Workers \ {w} : worker'[v] = worker[v]
      /\ worker'[w].pc = "running" /\ worker'[w].batch = worker[w].batch
      /\ worker'[w].left = worker[w].left \ {m} /\ worker'[w].failed = worker[w].failed
      /\ worker'[w].current = m
  <2>1. worker \in [Workers -> WorkerType]
    BY Typed DEF IInv
  <2>2. worker' = [worker EXCEPT ![w].left = @ \ {m}, ![w].current = m]
    BY DEF Take
  <2>3. worker[w].pc = "running"
    BY DEF Take
  <2> QED
    BY <2>1, <2>2, <2>3 DEF WorkerType
<1>2. /\ worker[w].left \subseteq worker[w].batch /\ m \in worker[w].left
      /\ worker[w].failed \subseteq Done(w) /\ Outcome(w) /\ worker[w].current = None
      /\ worker[w].batch \subseteq Messages
  BY Typed DEF IInv, OneInvocation, Outcomes, Holds, Take, WorkerType
<1>3. UNCHANGED <<queue, receives, idempotency>>
  BY DEF Take, tables
<1>4. worker'[w].batch \ (worker'[w].left \cup {worker'[w].current}) = Done(w)
  BY <1>1, <1>2, NoneAssumption DEF Done
<1>5. \A n \in Done(w) \ worker[w].failed : Handled(KeyOf[n])'
  BY <1>2, Lasting, KeysOfMessages DEF Outcome, Done, IInv
<1>6. Outcome(w)'
  BY <1>1, <1>4, <1>5 DEF Outcome, Done, Current
<1> QED
  BY <1>1, <1>2, <1>3, <1>4, <1>6, Within, Typed DEF IInv

\* The records left behind stay accepted while the current one is worked on, and none is added.
LEMMA SameDone ==
  ASSUME IInv, Next, NEW w \in Workers, Current(w) \in Messages,
         Current(w) \in worker[w].batch \ worker[w].left,
         worker'[w].batch = worker[w].batch, worker'[w].left = worker[w].left,
         \/ /\ worker'[w].current = None
            /\ worker'[w].failed = worker[w].failed \cup {Current(w)}
         \/ /\ worker'[w].current = None
            /\ worker'[w].failed = worker[w].failed
            /\ \A k \in Keys : k = KeyOf[Current(w)] => Handled(k)'
         \/ /\ worker'[w].current = worker[w].current
            /\ worker'[w].failed = worker[w].failed
  PROVE  /\ worker'[w].left \subseteq worker'[w].batch
         /\ worker'[w].failed \subseteq
                worker'[w].batch \ (worker'[w].left \cup {worker'[w].current})
         /\ worker'[w].current \in (worker'[w].batch \ worker'[w].left) \cup {None}
         /\ \A m \in worker'[w].batch \ (worker'[w].left \cup {worker'[w].current}) :
                m \notin worker'[w].failed => Handled(KeyOf[m])'
<1>1. /\ worker[w].left \subseteq worker[w].batch
      /\ worker[w].failed \subseteq Done(w) /\ Outcome(w)
      /\ worker[w].batch \subseteq Messages
  BY Typed DEF IInv, OneInvocation, Outcomes, Holds, WorkerType
<1>2. \A n \in Done(w) \ worker[w].failed : Handled(KeyOf[n])'
  BY <1>1, Lasting, KeysOfMessages DEF Outcome, Done, IInv
<1>3. Done(w) = worker[w].batch \ (worker[w].left \cup {Current(w)})
  BY DEF Done, Current
<1>4. Current(w) # None /\ Current(w) = worker[w].current
  BY NoneAssumption DEF Current
<1>5. CASE worker'[w].current = worker[w].current /\ worker'[w].failed = worker[w].failed
  BY <1>1, <1>2, <1>3, <1>4, <1>5
<1>6. ASSUME worker'[w].current = None
      PROVE  worker'[w].batch \ (worker'[w].left \cup {worker'[w].current})
                = Done(w) \cup {Current(w)}
  BY <1>1, <1>3, <1>6, NoneAssumption
<1>7. CASE /\ worker'[w].current = None
           /\ worker'[w].failed = worker[w].failed \cup {Current(w)}
  BY <1>1, <1>2, <1>6, <1>7
<1>8. CASE /\ worker'[w].current = None
           /\ worker'[w].failed = worker[w].failed
           /\ \A k \in Keys : k = KeyOf[Current(w)] => Handled(k)'
  <2>1. \A m \in Messages : m = Current(w) => Handled(KeyOf[m])'
    BY <1>8, KeysOfMessages
  <2> QED
    BY <1>1, <1>2, <1>6, <1>8, <2>1
<1> QED
  BY <1>5, <1>7, <1>8

\* An invocation that goes on with its record, which is refused or not yet through.
LEMMA SameRecord ==
  ASSUME IInv, Next, NEW w \in Workers, Current(w) \in Messages,
         Current(w) \in worker[w].batch \ worker[w].left,
         NEW pc \in Phases \ {"idle"}, worker' = [worker EXCEPT ![w].pc = pc],
         pc = "accepted" => \A k \in Keys : k = KeyOf[Current(w)] => Handled(k)',
         UNCHANGED <<queue, receives>>,
         idempotency' \in [Keys -> {"absent", "INPROGRESS", "COMPLETED"}],
         \A k \in Keys : idempotency'[k] = "COMPLETED" => idempotency[k] = "COMPLETED"
  PROVE  IInv'
<1>1. /\ worker' \in [Workers -> WorkerType]
      /\ \A v \in Workers \ {w} : worker'[v] = worker[v]
      /\ worker'[w].pc = pc /\ worker'[w].batch = worker[w].batch
      /\ worker'[w].left = worker[w].left /\ worker'[w].failed = worker[w].failed
      /\ worker'[w].current = worker[w].current
  BY Moving DEF IInv
<1>2. Outcome(w)'
  BY <1>1, SameDone, KeysOfMessages DEF Outcome, Done, Current
<1> QED
  BY <1>1, <1>2, SameDone, Within DEF Current

LEMMA FailStep ==
  ASSUME IInv, Next, NEW w \in Workers, Current(w) \in Messages,
         Current(w) \in worker[w].batch \ worker[w].left,
         FailRecord(w, Current(w)), UNCHANGED <<queue, receives>>,
         idempotency' \in [Keys -> {"absent", "INPROGRESS", "COMPLETED"}],
         \A k \in Keys : idempotency'[k] = "COMPLETED" => idempotency[k] = "COMPLETED"
  PROVE  IInv'
<1>1. /\ worker' \in [Workers -> WorkerType]
      /\ \A v \in Workers \ {w} : worker'[v] = worker[v]
      /\ worker'[w].pc = "running" /\ worker'[w].batch = worker[w].batch
      /\ worker'[w].left = worker[w].left
      /\ worker'[w].failed = worker[w].failed \cup {Current(w)}
      /\ worker'[w].current = None
  BY Failing DEF IInv
<1>2. Outcome(w)'
  BY <1>1, SameDone DEF Outcome, Done
<1> QED
  BY <1>1, <1>2, SameDone, Within

LEMMA PassStep ==
  ASSUME IInv, Next, NEW w \in Workers, Current(w) \in Messages,
         Current(w) \in worker[w].batch \ worker[w].left,
         worker' = NextRecord(w), UNCHANGED <<queue, receives>>,
         \A k \in Keys : k = KeyOf[Current(w)] => Handled(k)',
         idempotency' \in [Keys -> {"absent", "INPROGRESS", "COMPLETED"}],
         \A k \in Keys : idempotency'[k] = "COMPLETED" =>
                            idempotency[k] = "COMPLETED" \/ Handled(k)'
  PROVE  IInv'
<1>1. /\ worker' \in [Workers -> WorkerType]
      /\ \A v \in Workers \ {w} : worker'[v] = worker[v]
      /\ worker'[w].pc = "running" /\ worker'[w].batch = worker[w].batch
      /\ worker'[w].left = worker[w].left /\ worker'[w].failed = worker[w].failed
      /\ worker'[w].current = None
  BY Passing DEF IInv
<1>2. Outcome(w)'
  BY <1>1, SameDone DEF Outcome, Done
<1> QED
  BY <1>1, <1>2, SameDone, Within

LEMMA RecordStep ==
  ASSUME IInv, Next, NEW w \in Workers,
         \/ Reject(w) \/ Begin(w) \/ Repeat(w) \/ Create(w) \/ FindAccepted(w)
         \/ Notify(w) \/ Refuse(w) \/ Complete(w) \/ Undo(w) \/ LeaveInProgress(w)
  PROVE  IInv'
<1>1. /\ Current(w) \in Messages /\ Current(w) \in worker[w].batch \ worker[w].left
      /\ KeyOf[Current(w)] \in Keys
  BY AtHand, NoneAssumption
  DEF Reject, Begin, Repeat, Create, FindAccepted, Notify, Refuse, Complete, Undo,
      LeaveInProgress
<1>2. TypeOK /\ idempotency \in [Keys -> {"absent", "INPROGRESS", "COMPLETED"}]
  BY Typed DEF IInv
<1>3. CASE Reject(w) \/ LeaveInProgress(w)
  BY <1>1, <1>2, <1>3, FailStep DEF Reject, LeaveInProgress, tables
<1>4. CASE Undo(w)
  <2>1. /\ idempotency' \in [Keys -> {"absent", "INPROGRESS", "COMPLETED"}]
        /\ \A k \in Keys : idempotency'[k] = "COMPLETED" => idempotency[k] = "COMPLETED"
    BY <1>1, <1>2, <1>4, Forgetting DEF Undo
  <2> QED
    BY <1>1, <1>4, <2>1, FailStep DEF Undo
<1>5. CASE Begin(w)
  <2>1. /\ idempotency' \in [Keys -> {"absent", "INPROGRESS", "COMPLETED"}]
        /\ \A k \in Keys : idempotency'[k] = "COMPLETED" => idempotency[k] = "COMPLETED"
    BY <1>1, <1>2, <1>5 DEF Begin
  <2>2. worker' = [worker EXCEPT ![w].pc = "begun"] /\ UNCHANGED <<queue, receives>>
    BY <1>5 DEF Begin
  <2>3. "begun" \in Phases \ {"idle"} /\ "begun" # "accepted"
    BY DEF Phases
  <2> QED
    BY <1>1, <2>1, <2>2, <2>3, SameRecord
<1>6. CASE Refuse(w)
  <2>1. worker' = [worker EXCEPT ![w].pc = "refused"] /\ UNCHANGED <<queue, receives, idempotency>>
    BY <1>6 DEF Refuse, tables
  <2>2. "refused" \in Phases \ {"idle"} /\ "refused" # "accepted"
    BY DEF Phases
  <2> QED
    BY <1>1, <1>2, <2>1, <2>2, SameRecord
<1>7. CASE Create(w) \/ Notify(w)
  <2>1. \A k \in Keys : k = KeyOf[Current(w)] => Handled(k)'
    BY <1>7, Taken DEF IInv
  <2>2. UNCHANGED <<queue, receives, idempotency>>
    BY <1>7 DEF Create, Notify, tables
  <2>3. \E pc \in {"accepted", "refused"} : worker' = [worker EXCEPT ![w].pc = pc]
    BY <1>7 DEF Create, Notify
  <2> QED
    BY <1>1, <1>2, <2>1, <2>2, <2>3, SameRecord DEF Phases
<1>8. CASE FindAccepted(w)
  <2>1. Handled(KeyOf[Current(w)])
    BY <1>1, <1>8 DEF FindAccepted, SameTask, Handled, Processed
  <2>2. \A k \in Keys : k = KeyOf[Current(w)] => Handled(k)'
    BY <2>1, Lasting DEF IInv
  <2> QED
    BY <1>1, <1>2, <1>8, <2>2, SameRecord DEF FindAccepted, Phases, tables
<1>9. CASE Repeat(w)
  <2>1. Handled(KeyOf[Current(w)])
    BY <1>1, <1>9 DEF Repeat, IInv, Outcomes
  <2>2. \A k \in Keys : k = KeyOf[Current(w)] => Handled(k)'
    BY <2>1, Lasting DEF IInv
  <2> QED
    BY <1>1, <1>2, <1>9, <2>2, PassStep DEF Repeat, tables
<1>10. CASE Complete(w)
  <2>1. Handled(KeyOf[Current(w)])
    BY <1>10 DEF Complete, IInv, Outcomes, Outcome
  <2>2. \A k \in Keys : k = KeyOf[Current(w)] => Handled(k)'
    BY <2>1, Lasting DEF IInv
  <2>3. /\ idempotency' \in [Keys -> {"absent", "INPROGRESS", "COMPLETED"}]
        /\ \A k \in Keys : idempotency'[k] = "COMPLETED" =>
                           idempotency[k] = "COMPLETED" \/ k = KeyOf[Current(w)]
    BY <1>1, <1>2, <1>10 DEF Complete
  <2>4. worker' = NextRecord(w) /\ UNCHANGED <<queue, receives>>
    BY <1>10 DEF Complete
  <2> QED
    BY <1>1, <2>2, <2>3, <2>4, PassStep
<1> QED
  BY <1>3, <1>4, <1>5, <1>6, <1>7, <1>8, <1>9, <1>10

LEMMA EndStep ==
  ASSUME IInv, Next, NEW w \in Workers, Report(w) \/ Die(w)
  PROVE  IInv'
<1>1. /\ Idle \in WorkerType /\ Idle.pc = "idle" /\ Idle.batch = {} /\ Idle.left = {}
      /\ Idle.failed = {} /\ Idle.current = None
  BY DEF WorkerType, Idle, Phases
<1>2. worker' = [worker EXCEPT ![w] = Idle] /\ UNCHANGED <<receives, idempotency>>
  BY DEF Report, Die
<1>3. /\ worker' \in [Workers -> WorkerType] /\ worker'[w] = Idle
      /\ \A v \in Workers \ {w} : worker'[v] = worker[v]
  BY <1>1, <1>2, Typed DEF IInv
<1>4. Holds(w)' /\ Outcome(w)'
  BY <1>1, <1>3 DEF Holds, Outcome, Done, Current
<1>5. \A m \in Messages : Returned(m) \in {"dead", "visible"}
  BY DEF Returned
<1>6. queue \in [Messages -> Places]
  BY Typed DEF IInv
<1>7. /\ queue' \in [Messages -> Places]
      /\ \A m \in Messages \ worker[w].batch : queue'[m] = queue[m]
      /\ \A m \in worker[w].batch \cap Messages : queue'[m] = "acknowledged" =>
            /\ m \notin worker[w].failed
            /\ worker[w].left = {} /\ worker[w].current = None
  <2>1. CASE Die(w)
    BY <1>5, <1>6, <2>1 DEF Die, Places
  <2>2. CASE Report(w)
    BY <1>5, <1>6, <2>2 DEF Report, Current, Places
  <2> QED
    BY <2>1, <2>2
<1>8. ASSUME NEW m \in Messages, queue'[m] = "acknowledged"
      PROVE  queue[m] = "acknowledged" \/ Handled(KeyOf[m])'
  <2>1. CASE m \notin worker[w].batch
    BY <1>7, <1>8, <2>1
  <2>2. CASE m \in worker[w].batch
    <3>1. m \in Done(w) \ worker[w].failed
      BY <1>7, <1>8, <2>2, NoneAssumption DEF Done
    <3>2. Handled(KeyOf[m])
      BY <3>1 DEF IInv, Outcomes, Outcome
    <3> QED
      BY <3>2, Lasting, KeysOfMessages DEF IInv
  <2> QED
    BY <2>1, <2>2
<1> QED
  BY <1>1, <1>2, <1>3, <1>4, <1>7, <1>8, OneWorker, Typed DEF IInv, TypeOK

\* The idempotency and execution records alone.
LEMMA TableStep ==
  ASSUME IInv, [Next]_vars, UNCHANGED <<queue, receives, worker>>,
         idempotency' \in [Keys -> {"absent", "INPROGRESS", "COMPLETED"}],
         \A k \in Keys : idempotency'[k] = "COMPLETED" => idempotency[k] = "COMPLETED"
  PROVE  IInv'
<1> USE DEF IInv
<1>1. TypeOK'
  BY Keeping DEF TypeOK
<1>2. OneInvocation'
  BY DEF OneInvocation, Holds, Done, Current
<1>3. \A m \in Messages : Handled(KeyOf[m]) => Handled(KeyOf[m])'
  BY Lasting, KeysOfMessages
<1>4. ASSUME NEW w \in Workers PROVE Outcome(w)'
  <2>1. Outcome(w) /\ Done(w) \subseteq Messages
    BY Typed DEF Outcomes, WorkerType, Done
  <2>2. worker[w].pc = "accepted" => Current(w) \in Messages
    BY DEF OneInvocation, Holds
  <2> QED
    BY <1>3, <2>1, <2>2 DEF Outcome, Done, Current
<1>5. Outcomes'
  BY <1>3, <1>4, Lasting DEF Outcomes
<1> QED
  BY <1>1, <1>2, <1>5

-----------------------------------------------------------------------------
LEMMA Starting == ASSUME Init PROVE IInv
<1>1. /\ Idle \in WorkerType /\ Idle.pc = "idle" /\ Idle.batch = {} /\ Idle.left = {}
      /\ Idle.failed = {} /\ Idle.current = None
  BY DEF WorkerType, Idle, Phases
<1>2. \A w \in Workers : worker[w] = Idle
  BY DEF Init
<1>3. TypeOK
  BY <1>1, LimitsAssumption DEF Init, TypeOK, WorkerType, Places
<1>4. OneInvocation
  BY <1>1, <1>2 DEF OneInvocation, Holds, Done, Current
<1>5. \A w \in Workers : Outcome(w)
  BY <1>1, <1>2 DEF Outcome, Done
<1>6. Outcomes
  BY <1>5 DEF Outcomes, Init
<1> QED
  BY <1>3, <1>4, <1>6 DEF IInv

LEMMA Invariance == ASSUME IInv, [Next]_vars PROVE IInv'
<1>1. idempotency \in [Keys -> {"absent", "INPROGRESS", "COMPLETED"}]
  BY Typed DEF IInv
<1>2. ASSUME Next, NEW w \in Workers, ReceiveBatch(w) \/ Work(w) \/ Die(w)
      PROVE  IInv'
  <2>1. CASE ReceiveBatch(w)
    BY <1>2, <2>1, ReceiveStep DEF ReceiveBatch, Batches
  <2>2. CASE Work(w) \/ Die(w)
    BY <1>2, <2>2, TakeStep, RecordStep, EndStep DEF Work
  <2> QED
    BY <1>2, <2>1, <2>2
<1>3. ASSUME Next, NEW k \in Keys, Lapse(k) \/ Expire(k)
      PROVE  IInv'
  <2>1. /\ idempotency' \in [Keys -> {"absent", "INPROGRESS", "COMPLETED"}]
        /\ \A j \in Keys : idempotency'[j] = "COMPLETED" => idempotency[j] = "COMPLETED"
    BY <1>1, <1>3, Forgetting DEF Lapse, Expire, IInv
  <2> QED
    BY <1>3, <2>1, TableStep DEF Lapse, Expire
<1>4. CASE UNCHANGED vars
  BY <1>1, <1>4, TableStep DEF vars, tables
<1> QED
  BY <1>2, <1>3, <1>4 DEF Next

-----------------------------------------------------------------------------
\* One effect per key.

\* An invocation that takes up no key, and tables that lose none.
LEMMA EffectsStay ==
  ASSUME IInv, Effects, UNCHANGED <<idempotency, effects>>,
         \A w \in Workers :
            Working(w)' => Working(w) /\ Current(w)' = Current(w)
                           /\ (worker'[w].pc = "begun" => worker[w].pc = "begun")
  PROVE  Effects'
<1>1. \A w \in Workers : Effect(w)'
  BY DEF Effects, Effect
<1> QED
  BY <1>1 DEF Effects

LEMMA EffectsOfQueue ==
  ASSUME IInv, Effects, NEW w \in Workers,
         \/ \E batch \in SUBSET Messages : Receive(w, batch)
         \/ \E m \in Messages : Take(w, m)
         \/ Reject(w) \/ Repeat(w) \/ LeaveInProgress(w) \/ Report(w) \/ Die(w)
  PROVE  Effects'
<1>1. /\ UNCHANGED <<idempotency, effects>>
      /\ \A v \in Workers \ {w} : worker'[v] = worker[v]
      /\ worker'[w].pc \in {"running", "idle"}
  <2>1. worker \in [Workers -> WorkerType] /\ TypeOK
    BY Typed DEF IInv
  <2>2. CASE \E batch \in SUBSET Messages : Receive(w, batch)
    BY <2>1, <2>2 DEF Receive, Idle, history
  <2>3. CASE \E m \in Messages : Take(w, m)
    BY <2>1, <2>3 DEF Take, WorkerType, tables, history
  <2>4. CASE Reject(w) \/ LeaveInProgress(w)
    <3>1. Current(w) \in Messages
      BY <2>4, AtHand DEF Reject, LeaveInProgress
    <3> QED
      BY <2>1, <2>4, <3>1, Failing DEF Reject, LeaveInProgress, tables, history
  <2>5. CASE Repeat(w)
    BY <2>1, <2>5, Passing DEF Repeat, tables, history
  <2>6. CASE Report(w) \/ Die(w)
    BY <2>1, <2>6 DEF Report, Die, Idle, history
  <2> QED
    BY <2>2, <2>3, <2>4, <2>5, <2>6
<1> QED
  BY <1>1, EffectsStay DEF Working, Current

\* The handler of one invocation moves on, and no other works under its key.
LEMMA EffectsMove ==
  ASSUME IInv, Effects, NEW w \in Workers, NEW k \in Keys, k = KeyOf[Current(w)],
         \A v \in Workers \ {w} : worker'[v] = worker[v],
         \A v \in Workers \ {w} : Working(v) => KeyOf[Current(v)] # k,
         \A j \in Keys \ {k} : idempotency'[j] = idempotency[j] /\ effects'[j] = effects[j],
         Working(w)' => Current(w)' = Current(w) /\ idempotency'[k] = "INPROGRESS",
         worker'[w].pc = "begun" => effects'[k] = 0,
         effects'[k] <= 1,
         idempotency'[k] = "absent" => effects'[k] = 0
  PROVE  Effects'
<1>1. ASSUME NEW v \in Workers \ {w}
      PROVE  /\ Working(v)' <=> Working(v)
             /\ Current(v)' = Current(v)
             /\ Working(v) => KeyOf[Current(v)] \in Keys \ {k}
  <2>1. worker'[v] = worker[v]
    OBVIOUS
  <2>2. Working(v) => KeyOf[Current(v)] \in Keys
    BY AtHand DEF Working
  <2> QED
    BY <2>1, <2>2 DEF Working, Current
<1>2. \A v \in Workers \ {w} : Effect(v)'
  <2> SUFFICES ASSUME NEW v \in Workers \ {w}, Working(v)'
               PROVE  /\ idempotency'[KeyOf[Current(v)']] = "INPROGRESS"
                      /\ worker'[v].pc = "begun" => effects'[KeyOf[Current(v)']] = 0
    BY DEF Effect
  <2>1. Working(v) /\ Effect(v) /\ worker'[v] = worker[v]
    BY <1>1 DEF Effects
  <2> QED
    BY <1>1, <2>1 DEF Effect
<1>3. Effect(w)'
  BY DEF Effect
<1>4. \A u, v \in Workers :
         u # v /\ Working(u)' /\ Working(v)' => KeyOf[Current(u)'] # KeyOf[Current(v)']
  BY <1>1 DEF Effects
<1>5. \A j \in Keys : effects'[j] <= 1 /\ (idempotency'[j] = "absent" => effects'[j] = 0)
  BY DEF Effects
<1> QED
  BY <1>2, <1>3, <1>4, <1>5 DEF Effects

LEMMA EffectsOfHandler ==
  ASSUME IInv, Effects, NEW w \in Workers,
         \/ Begin(w) \/ Create(w) \/ FindAccepted(w) \/ Notify(w) \/ Refuse(w)
         \/ Complete(w) \/ Undo(w)
  PROVE  Effects'
<1>1. Current(w) \in Messages /\ KeyOf[Current(w)] \in Keys /\ TypeOK /\ Effect(w)
  BY AtHand, NoneAssumption
  DEF Begin, Create, FindAccepted, Notify, Refuse, Complete, Undo, IInv, Effects
<1>2. PICK k \in Keys : k = KeyOf[Current(w)]
  BY <1>1
<1>3. /\ idempotency \in [Keys -> {"absent", "INPROGRESS", "COMPLETED"}]
      /\ effects \in [Keys -> 0 .. 2]
      /\ effects[k] <= 1
  BY <1>1, Typed DEF Effects
<1>4. \A v \in Workers : Working(v) => idempotency[KeyOf[Current(v)]] = "INPROGRESS"
  BY DEF Effects, Effect
<1>5. CASE Begin(w)
  <2>1. idempotency[k] = "absent" /\ effects[k] = 0 /\ UNCHANGED effects
    BY <1>2, <1>5 DEF Begin, Effects, history
  <2>2. /\ idempotency'[k] = "INPROGRESS"
        /\ \A j \in Keys \ {k} : idempotency'[j] = idempotency[j]
    BY <1>2, <1>3, <1>5 DEF Begin
  <2>3. "begun" \in Phases /\ worker' = [worker EXCEPT ![w].pc = "begun"]
    BY <1>5 DEF Begin, Phases
  <2>4. /\ \A v \in Workers \ {w} : worker'[v] = worker[v]
        /\ Current(w)' = Current(w)
    BY <1>1, <2>3, Moving DEF Current
  <2>5. \A v \in Workers \ {w} : Working(v) => KeyOf[Current(v)] # k
    BY <1>4, <2>1
  <2> QED
    BY <1>2, <2>1, <2>2, <2>4, <2>5, EffectsMove
<1>6. CASE Create(w) \/ FindAccepted(w) \/ Notify(w) \/ Refuse(w)
  <2>1. /\ Working(w) /\ effects[k] = 0 /\ idempotency[k] = "INPROGRESS"
        /\ \A v \in Workers \ {w} : Working(v) => KeyOf[Current(v)] # k
    BY <1>1, <1>2, <1>6
    DEF Create, FindAccepted, Notify, Refuse, Working, Effects, Effect
  <2>2. UNCHANGED idempotency
    BY <1>6 DEF Create, FindAccepted, Notify, Refuse, tables
  <2>3. \E pc \in {"accepted", "refused"} : worker' = [worker EXCEPT ![w].pc = pc]
    BY <1>6 DEF Create, FindAccepted, Notify, Refuse
  <2>4. /\ \A v \in Workers \ {w} : worker'[v] = worker[v]
        /\ Current(w)' = Current(w) /\ worker'[w].pc # "begun"
    <3>1. PICK pc \in {"accepted", "refused"} : worker' = [worker EXCEPT ![w].pc = pc]
      BY <2>3
    <3>2. pc \in Phases
      BY DEF Phases
    <3> QED
      BY <1>1, <3>1, <3>2, Moving DEF Current
  <2>5. UNCHANGED effects \/ TakeEffect(k)
    BY <1>2, <1>6 DEF Create, FindAccepted, Notify, Refuse, history
  <2>6. effects'[k] <= 1 /\ \A j \in Keys \ {k} : effects'[j] = effects[j]
    BY <1>1, <2>1, <2>5, Counting
  <2> QED
    BY <1>2, <2>1, <2>2, <2>4, <2>6, EffectsMove
<1>7. CASE Complete(w) \/ Undo(w)
  <2>1. \A v \in Workers \ {w} : Working(v) => KeyOf[Current(v)] # k
    BY <1>2, <1>7 DEF Complete, Undo, Working, Effects
  <2>2. /\ \A v \in Workers \ {w} : worker'[v] = worker[v]
        /\ worker'[w].pc = "running"
    BY <1>1, <1>7, Passing, Failing DEF Complete, Undo
  <2>3. /\ \A j \in Keys \ {k} : idempotency'[j] = idempotency[j] /\ effects'[j] = effects[j]
        /\ effects'[k] <= 1
        /\ idempotency'[k] = "absent" => effects'[k] = 0
    <3>1. CASE Complete(w)
      BY <1>2, <1>3, <3>1 DEF Complete, history
    <3>2. CASE Undo(w)
      BY <1>1, <1>2, <3>2, Forgetting DEF Undo
    <3> QED
      BY <1>7, <3>1, <3>2
  <2> QED
    BY <1>2, <2>1, <2>2, <2>3, EffectsMove DEF Working
<1> QED
  BY <1>5, <1>6, <1>7

LEMMA EffectsOfTable ==
  ASSUME IInv, Effects, NEW k \in Keys, Lapse(k) \/ Expire(k)
  PROVE  Effects'
<1>1. \A w \in Workers : Working(w) => KeyOf[Current(w)] \in Keys \ {k}
  <2>1. \A w \in Workers : Working(w) => KeyOf[Current(w)] \in Keys
    BY AtHand DEF Working
  <2> QED
    BY <2>1 DEF Lapse, Expire, Working, Effects, Effect
<1>2. Forget(k) /\ UNCHANGED worker /\ TypeOK
  BY DEF Lapse, Expire, IInv
<1>3. /\ idempotency'[k] = "absent" /\ effects'[k] = 0
      /\ \A j \in Keys \ {k} : effects'[j] = effects[j] /\ idempotency'[j] = idempotency[j]
  BY <1>2, Forgetting
<1>4. \A w \in Workers : Effect(w)'
  BY <1>1, <1>2, <1>3 DEF Effects, Effect, Working, Current
<1>5. \A j \in Keys : effects'[j] <= 1 /\ (idempotency'[j] = "absent" => effects'[j] = 0)
  BY <1>3 DEF Effects
<1> QED
  BY <1>2, <1>4, <1>5 DEF Effects, Working, Current

LEMMA EffectsKept == ASSUME IInv, Effects, [Next]_vars PROVE Effects'
<1>1. ASSUME NEW w \in Workers, ReceiveBatch(w) \/ Work(w) \/ Die(w)
      PROVE  Effects'
  BY <1>1, EffectsOfQueue, EffectsOfHandler DEF ReceiveBatch, Batches, Work
<1>2. CASE UNCHANGED vars
  BY <1>2, EffectsStay DEF vars, tables, history, Working, Current
<1> QED
  BY <1>1, <1>2, EffectsOfTable DEF Next

-----------------------------------------------------------------------------
\* A message leaves the queue for good only when it, or a message with its idempotency
\* key, has been processed, whatever invocations die, idempotency records lapse or
\* expire or tasks collide (lambda_handler, process_task_idempotently).
THEOREM AcknowledgedTasksWereProcessed == Spec => []AcknowledgedWasProcessed
<1>1. Init => IInv
  BY Starting
<1>2. IInv /\ [Next]_vars => IInv'
  BY Invariance
<1>3. IInv => AcknowledgedWasProcessed
  BY KeysOfMessages DEF IInv, Outcomes, Handled, AcknowledgedWasProcessed
<1> QED
  BY <1>1, <1>2, <1>3, PTL DEF Spec, Safety

\* Messages of one idempotency key, whatever their task_ids and however many invocations
\* have them at once, take effect once until the table loses the key
\* (build_idempotency_runtime: event_key_jmespath).
THEOREM KeysTakeEffectOnce == Spec => []OneEffectPerKey
<1>1. Init => IInv /\ Effects
  <2>1. ASSUME Init PROVE Effects
    BY <2>1 DEF Init, Effects, Effect, Working, Idle
  <2> QED
    BY <2>1, Starting
<1>2. IInv /\ Effects /\ [Next]_vars => (IInv /\ Effects)'
  BY Invariance, EffectsKept
<1>3. Effects => OneEffectPerKey
  BY DEF Effects, OneEffectPerKey
<1> QED
  BY <1>1, <1>2, <1>3, PTL DEF Spec, Safety
=============================================================================
