----------------------------- MODULE ProgressProofs -----------------------------
(***************************************************************************)
(* Proofs about two parts of Progress, for every value of the constants:   *)
(* the outbox relay, which it extends, and the requests of users, which it *)
(* instantiates.                                                           *)
(*                                                                         *)
(* The relay.  Two properties are not inductive.  A row is PUBLISHED only  *)
(* after an acceptance because a relay in phase "acked" has seen one       *)
(* (InHand); and an unfaulted row has at most one copy because whoever has *)
(* the row in hand holds its lock, and a copy belongs to a row that is     *)
(* closed or to the lock holder on its way to close it (Unfaulted).        *)
(*                                                                         *)
(* The requests.  What a user has been told says how far the handler of    *)
(* the incident service has come, and a handler that is over writes        *)
(* nothing more (Sound).                                                   *)
(***************************************************************************)
EXTENDS Progress, TLAPS

-----------------------------------------------------------------------------
\* The outbox relay.

Active == {"sending", "acked", "failed"}

InHand ==
    \A r \in Relays :
      /\ relay[r].pc \in Active =>
           /\ relay[r].msg \in Messages
           /\ row[relay[r].msg] # "ABSENT"
      /\ relay[r].pc = "acked" => copies[relay[r].msg] > 0
      /\ relay[r].pc \notin Active => relay[r].msg = None

LocksHeld ==
    \A m \in Messages, r \in Relays :
      holder[m] = r =>
        /\ row[m] = "PENDING"
        /\ relay[r].pc \in Active
        /\ relay[r].msg = m

Accounted ==
    \A m \in Messages :
      /\ copies[m] > 0 => row[m] # "ABSENT"
      /\ row[m] = "PUBLISHED" => copies[m] > 0

Unfaulted ==
    \A m \in Messages :
      ~faulted[m] =>
        /\ copies[m] < 2
        /\ \A r \in Relays : relay[r].msg = m => holder[m] = r
        /\ copies[m] > 0 =>
             \/ row[m] = "PUBLISHED"
             \/ \E r \in Relays : holder[m] = r /\ relay[r].pc = "acked"

IInv == TypeOK /\ InHand /\ LocksHeld /\ Accounted /\ Unfaulted

-----------------------------------------------------------------------------
\* Every variable keeps its type.
LEMMA TypeInvariant == ASSUME TypeOK, [Next]_vars PROVE TypeOK'
<1> USE MessagesAssumption, NoneAssumption, RetryTicksAssumption
<1> USE DEF TypeOK, RowStatus, Phases
<1>1. ASSUME NEW m \in Messages, Create(m) PROVE TypeOK'
  BY <1>1 DEF Create
<1>2. ASSUME NEW r \in Relays, Wake(r) PROVE TypeOK'
  BY <1>2 DEF Wake, MoveTo
<1>3. ASSUME NEW r \in Relays, FindNothing(r) PROVE TypeOK'
  BY <1>3 DEF FindNothing, Asleep
<1>4. ASSUME NEW r \in Relays, Abort(r) PROVE TypeOK'
  BY <1>4 DEF Abort, Unlocked
<1>5. ASSUME NEW r \in Relays, NEW m \in Messages, LockNext(r, m) PROVE TypeOK'
  BY <1>5 DEF LockNext, NextPublishable, Publishable
<1>6. ASSUME NEW r \in Relays, NEW m \in Messages, SendAccepted(r, m) PROVE TypeOK'
  BY <1>6 DEF SendAccepted, MoveTo, MoreCopies
<1>7. ASSUME NEW r \in Relays, NEW m \in Messages, SendRejected(r, m) PROVE TypeOK'
  BY <1>7 DEF SendRejected, MoveTo
<1>8. ASSUME NEW r \in Relays, NEW m \in Messages, SendUncertain(r, m) PROVE TypeOK'
  BY <1>8 DEF SendUncertain, MoveTo, MoreCopies
<1>9. ASSUME NEW r \in Relays, NEW m \in Messages, MarkPublished(r, m) PROVE TypeOK'
  BY <1>9 DEF MarkPublished, Holds, Unlocked, Asleep
<1>10. ASSUME NEW r \in Relays, NEW m \in Messages, MarkFailed(r, m) PROVE TypeOK'
  BY <1>10 DEF MarkFailed, Holds, Unlocked, Asleep
<1>11. ASSUME NEW r \in Relays, NEW m \in Messages, LoseSession(r, m) PROVE TypeOK'
  BY <1>11 DEF LoseSession, Holds, Unlocked
<1>12. CASE Tick
  BY <1>12 DEF Tick, Older
<1>13. CASE UNCHANGED vars
  BY <1>13 DEF vars
<1> QED
  BY <1>1, <1>2, <1>3, <1>4, <1>5, <1>6, <1>7, <1>8, <1>9, <1>10, <1>11, <1>12, <1>13 DEF Next,
     Transmit

\* The relays' view of their rows, the locks and the copies stay consistent.
LEMMA Inductive == ASSUME IInv, TypeOK', [Next]_vars PROVE IInv'
<1> USE MessagesAssumption, NoneAssumption, RetryTicksAssumption
<1> USE DEF IInv, TypeOK, InHand, LocksHeld, Accounted, Unfaulted, Active, RowStatus, Phases
<1>1. ASSUME NEW m \in Messages, Create(m) PROVE IInv'
  BY <1>1 DEF Create
<1>2. ASSUME NEW r \in Relays, Wake(r) PROVE IInv'
  BY <1>2 DEF Wake, MoveTo
<1>3. ASSUME NEW r \in Relays, FindNothing(r) PROVE IInv'
  BY <1>3 DEF FindNothing, Asleep
<1>4. ASSUME NEW r \in Relays, Abort(r) PROVE IInv'
  BY <1>4 DEF Abort, Unlocked
<1>5. ASSUME NEW r \in Relays, NEW m \in Messages, LockNext(r, m) PROVE IInv'
  BY <1>5 DEF LockNext, NextPublishable, Publishable
<1>6. ASSUME NEW r \in Relays, NEW m \in Messages, SendAccepted(r, m) PROVE IInv'
  BY <1>6 DEF SendAccepted, MoveTo, MoreCopies
<1>7. ASSUME NEW r \in Relays, NEW m \in Messages, SendRejected(r, m) PROVE IInv'
  BY <1>7 DEF SendRejected, MoveTo
<1>8. ASSUME NEW r \in Relays, NEW m \in Messages, SendUncertain(r, m) PROVE IInv'
  BY <1>8 DEF SendUncertain, MoveTo, MoreCopies
<1>9. ASSUME NEW r \in Relays, NEW m \in Messages, MarkPublished(r, m) PROVE IInv'
  BY <1>9 DEF MarkPublished, Holds, Unlocked, Asleep
<1>10. ASSUME NEW r \in Relays, NEW m \in Messages, MarkFailed(r, m) PROVE IInv'
  BY <1>10 DEF MarkFailed, Holds, Unlocked, Asleep
<1>11. ASSUME NEW r \in Relays, NEW m \in Messages, LoseSession(r, m) PROVE IInv'
  BY <1>11 DEF LoseSession, Holds, Unlocked
<1>12. CASE Tick
  BY <1>12 DEF Tick, Older
<1>13. CASE UNCHANGED vars
  BY <1>13 DEF vars
<1> QED
  BY <1>1, <1>2, <1>3, <1>4, <1>5, <1>6, <1>7, <1>8, <1>9, <1>10, <1>11, <1>12, <1>13 DEF Next,
     Transmit

\* The inductive invariant holds in every reachable state.
THEOREM Invariance == Safety => []IInv
<1>1. Init => IInv
  BY NoneAssumption, RetryTicksAssumption
  DEF Init, Asleep, IInv, TypeOK, RowStatus, Phases, InHand, LocksHeld,
      Accounted, Unfaulted, Active
<1>2. IInv /\ [Next]_vars => IInv'
  BY TypeInvariant, Inductive DEF IInv
<1> QED
  BY <1>1, <1>2, PTL DEF Safety

-----------------------------------------------------------------------------
\* relay_once keeps the rows, the locks and the relays' own state well typed.
THEOREM TypeCorrect == Safety => []TypeOK
<1>1. IInv => TypeOK
  BY DEF IInv
<1> QED
  BY <1>1, Invariance, PTL

\* mark_published is only ever reached with a MessageId in hand, so a closed
\* row was accepted by SQS, whatever crashes and lost sessions came before.
THEOREM ClosedRowsLeft == Safety => []PublishedWasAccepted
<1>1. IInv => PublishedWasAccepted
  BY DEF IInv, Accounted, PublishedWasAccepted
<1> QED
  BY <1>1, Invariance, PTL

\* FOR UPDATE SKIP LOCKED, held across the send, keeps any number of relays
\* from sending a row twice unless a fault intervenes.
THEOREM NoNeedlessDuplicates == Safety => []DuplicatesNeedAFault
<1>1. IInv => DuplicatesNeedAFault
  BY DEF IInv, Unfaulted, TypeOK, DuplicatesNeedAFault
<1> QED
  BY <1>1, Invariance, PTL

\* No step reopens a row: whoever may write it finds it PENDING.
LEMMA FinalStep ==
  ASSUME IInv, [Next]_vars, NEW m \in Messages, row[m] = "PUBLISHED"
  PROVE  row'[m] = "PUBLISHED"
<1>1. ASSUME NEW n \in Messages, Create(n) PROVE row'[m] = "PUBLISHED"
  BY <1>1 DEF Create, IInv, TypeOK
<1>2. ASSUME NEW r \in Relays, NEW n \in Messages, MarkPublished(r, n)
      PROVE  row'[m] = "PUBLISHED"
  BY <1>2 DEF MarkPublished, IInv, TypeOK
<1>3. ASSUME NEW r \in Relays, NEW n \in Messages, MarkFailed(r, n)
      PROVE  row'[m] = "PUBLISHED"
  <2>1. m # n
    BY <1>3 DEF MarkFailed, Holds, IInv, LocksHeld
  <2> QED
    BY <1>3, <2>1 DEF MarkFailed, IInv, TypeOK
<1> QED
  BY <1>1, <1>2, <1>3
  DEF Next, Transmit, Wake, FindNothing, Abort, LockNext, SendAccepted,
      SendRejected, SendUncertain, LoseSession, Tick, vars

\* Once a relay has committed PUBLISHED no other relay takes it back, even one
\* that lost its lock in the middle of a failed send.
THEOREM ClosedRowsStayClosed == Safety => PublishedIsFinal
<1>1. IInv /\ [Next]_vars =>
        [\A m \in Messages : row[m] = "PUBLISHED" => row'[m] = "PUBLISHED"]_vars
  BY FinalStep
<1> QED
  BY <1>1, Invariance, PTL DEF Safety, PublishedIsFinal

-----------------------------------------------------------------------------
\* Each step of the relay is a step of the abstract outbox or a stutter.
LEMMA RefinesStep == IInv /\ [Next]_vars => [Outbox!Next]_Outbox!vars
<1> SUFFICES ASSUME IInv, [Next]_vars PROVE [Outbox!Next]_Outbox!vars
  OBVIOUS
<1> USE DEF IInv, TypeOK, Outbox!Next, Outbox!vars
<1>1. ASSUME NEW m \in Messages, Create(m) PROVE Outbox!Submit(m)
  BY <1>1 DEF Create, Outbox!Submit
<1>2. ASSUME NEW r \in Relays, NEW m \in Messages,
             SendAccepted(r, m) \/ SendUncertain(r, m)
      PROVE  Outbox!Deliver(m)
  <2>1. row[m] # "ABSENT"
    BY <1>2 DEF SendAccepted, SendUncertain, InHand, Active
  <2>2. copies' = [copies EXCEPT ![m] = MoreCopies(@)] /\ row' = row
    BY <1>2 DEF SendAccepted, SendUncertain
  <2>3. \A n \in Messages : copies'[n] > 0 <=> copies[n] > 0 \/ n = m
    BY <2>2 DEF MoreCopies
  <2> QED
    BY <2>1, <2>2, <2>3 DEF Outbox!Deliver
<1>3. ASSUME NEW r \in Relays, NEW m \in Messages, MarkPublished(r, m)
      PROVE  Outbox!Settle(m)
  <2>1. copies[m] > 0 /\ row[m] = "PENDING"
    BY <1>3 DEF MarkPublished, Holds, InHand, LocksHeld
  <2>2. row' = [row EXCEPT ![m] = "PUBLISHED"] /\ copies' = copies
    BY <1>3 DEF MarkPublished
  <2> QED
    BY <2>1, <2>2 DEF Outbox!Settle
<1>4. ASSUME NEW r \in Relays, NEW m \in Messages, MarkFailed(r, m)
      PROVE  UNCHANGED Outbox!vars
  <2>1. row[m] = "PENDING"
    BY <1>4 DEF MarkFailed, Holds, LocksHeld
  <2>2. row' = row /\ copies' = copies
    BY <1>4, <2>1 DEF MarkFailed
  <2> QED
    BY <2>2
<1>5. ASSUME UNCHANGED <<row, copies>> PROVE UNCHANGED Outbox!vars
  BY <1>5
<1> QED
  BY <1>1, <1>2, <1>3, <1>4, <1>5
  DEF Next, Transmit, Wake, FindNothing, Abort, LockNext, SendRejected,
      LoseSession, Tick, vars

\* The relay implements the safety half of at-least-once delivery: only
\* committed rows are sent, only sent rows are closed.
THEOREM ImplementsOutbox == Safety => Outbox!Safety
<1>1. Init => Outbox!Init
  BY DEF Init, Outbox!Init
<1> QED
  BY <1>1, RefinesStep, Invariance, PTL DEF Safety, Outbox!Safety

-----------------------------------------------------------------------------
\* The requests of users.

\* What is known of a user's requests, apart from types: nobody is told anything before the
\* request has its turn, and no handler exists before its request is sent; an incident is
\* there only when the handler of its creation has ended, and a denial was that handler's last
\* word; a change is of an incident that is there, and a removal is final.
Sound(u) ==
    /\ call[u].pc \in {"idle", "queued"} => remote[u] = "none"
    /\ call[u].pc \in {"idle", "queued", "calling"} => answer[u] = "none"
    /\ call[u].pc \notin {"changing", "over"} => change[u] = Requests!NoChange
    /\ call[u].pc # "over" => notified[u] = "none"
    /\ u \in incidents \cup done \/ change[u].pc = "committing" => remote[u] = "over"
    /\ change[u].pc = "committing" => u \in incidents
    /\ u \in done => change[u].pc = "over"
    /\ u \in Requests!Removed => u \notin incidents
    /\ answer[u] = "no such service" =>
         u \notin incidents /\ remote[u] = "over"
    /\ answer[u] = "created" =>
         u \in incidents \cup Requests!Removed \cup lost \/ remote[u] = "committing"
    /\ notified[u] = "accepted" => u \in tasks
    /\ notified[u] = "found" => u \in incidents /\ change[u] = Requests!NoChange
    /\ notified[u] = "changed" => u \in done \cup lost \/ change[u].pc = "committing"

RequestInv == Requests!TypeOK /\ \A u \in Users : Sound(u)

-----------------------------------------------------------------------------
\* The two ways a request of a user ends, and a step of one that goes on.
LEMMA Telling ==
  ASSUME Requests!TypeOK, NEW u \in Users, NEW text \in Requests!Answers, Requests!Tell(u, text)
  PROVE  /\ call' \in [Users -> Requests!CallType]
         /\ answer' \in [Users -> Requests!Answers \cup {"none"}]
         /\ \A v \in Users : /\ call'[v].pc = IF v = u THEN "told" ELSE call[v].pc
                             /\ answer'[v] = IF v = u THEN text ELSE answer[v]
BY DEF Requests!TypeOK, Requests!Tell, Requests!CallType, Requests!Calls

LEMMA Closing ==
  ASSUME Requests!TypeOK, NEW u \in Users, NEW text \in Requests!Notices, Requests!Close(u, text)
  PROVE  /\ call' \in [Users -> Requests!CallType]
         /\ notified' \in [Users -> Requests!Notices \cup {"none"}]
         /\ \A v \in Users : /\ call'[v].pc = IF v = u THEN "over" ELSE call[v].pc
                             /\ notified'[v] = IF v = u THEN text ELSE notified[v]
<1>1. [pc |-> "over", attempt |-> 1] \in Requests!CallType
  BY RequestAssumption DEF Requests!CallType, Requests!Calls
<1> QED
  BY <1>1 DEF Requests!TypeOK, Requests!Close

LEMMA Moving ==
  ASSUME Requests!TypeOK, NEW u \in Users, NEW pc \in Requests!Calls,
         call' = [call EXCEPT ![u].pc = pc]
  PROVE  /\ call' \in [Users -> Requests!CallType]
         /\ \A v \in Users : call'[v].pc = IF v = u THEN pc ELSE call[v].pc
BY DEF Requests!TypeOK, Requests!CallType

LEMMA Failing ==
  ASSUME Requests!TypeOK, NEW u \in Users, Requests!AttemptFails(u)
  PROVE  /\ call' \in [Users -> Requests!CallType]
         /\ notified' \in [Users -> Requests!Notices \cup {"none"}]
         /\ \/ UNCHANGED notified /\ \A v \in Users : call'[v].pc = call[v].pc
            \/ Requests!Close(u, "unavailable")
<1>1. CASE Requests!Close(u, "unavailable")
  BY <1>1, Closing DEF Requests!Notices
<1>2. CASE /\ call[u].attempt < ReadMaxAttempts
           /\ call' = [call EXCEPT ![u].attempt = @ + 1] /\ UNCHANGED notified
  <2>1. call[u] \in Requests!CallType
    BY DEF Requests!TypeOK
  <2>2. [call[u] EXCEPT !.attempt = @ + 1] \in Requests!CallType
    BY <1>2, <2>1, RequestAssumption DEF Requests!CallType
  <2>3. \A v \in Users : call'[v].pc = call[v].pc
    BY <1>2 DEF Requests!TypeOK, Requests!CallType
  <2> QED
    BY <1>2, <2>2, <2>3 DEF Requests!TypeOK
<1> QED
  BY <1>1, <1>2 DEF Requests!AttemptFails

\* The answer to a change: a gateway that waits closes the request.
LEMMA Answering ==
  ASSUME Requests!TypeOK, NEW u \in Users, NEW text \in Requests!Notices,
         Requests!ChangeAnswered(u, text)
  PROVE  /\ call' \in [Users -> Requests!CallType]
         /\ notified' \in [Users -> Requests!Notices \cup {"none"}]
         /\ \/ call[u].pc = "changing" /\ Requests!Close(u, text)
            \/ call[u].pc # "changing" /\ UNCHANGED <<call, notified>>
BY Closing DEF Requests!ChangeAnswered, Requests!TypeOK

\* A handler that responds tells a gateway that waits.
LEMMA Responding ==
  ASSUME Requests!TypeOK, NEW u \in Users, Requests!Respond(u)
  PROVE  \/ call[u].pc = "calling" /\ \E text \in Requests!Answers : Requests!Tell(u, text)
         \/ call[u].pc # "calling" /\ UNCHANGED <<call, answer>>
BY DEF Requests!Respond, Requests!Answers

\* What the answer to a read does.
LEMMA Reading ==
  ASSUME Requests!TypeOK, NEW u \in Users, Requests!ReadBack(u) \/ Requests!ReadList(u)
  PROVE  /\ call[u].pc \in {"reading", "looking", "listing"}
         /\ \/ call' = [call EXCEPT ![u].pc = "publishing"] /\ UNCHANGED notified
            \/ u \in incidents /\ Requests!Close(u, "found")
            \/ Requests!Close(u, "not found")
            \/ Requests!AttemptFails(u)
         /\ UNCHANGED <<answer, remote, lookup, change, incidents, done, tasks, service, lost>>
BY DEF Requests!ReadBack, Requests!ReadList, Requests!Shown, Requests!Pages, Requests!changes

\* Every variable keeps its type.
LEMMA RequestTypes ==
  ASSUME Requests!TypeOK, [Requests!Next]_Requests!vars PROVE Requests!TypeOK'
<1>1. ASSUME NEW u \in Users, Requests!Ask(u) \/ Requests!AskAgain(u) PROVE Requests!TypeOK'
  <2>1. PICK pc \in Requests!Calls : call' = [call EXCEPT ![u].pc = pc]
    BY <1>1 DEF Requests!Ask, Requests!AskAgain, Requests!Calls
  <2> QED
    BY <1>1, <2>1, Moving DEF Requests!TypeOK, Requests!Ask, Requests!AskAgain,
       Requests!changes
<1>2. ASSUME NEW u \in Users,
             \/ Requests!ForwardNotification(u) \/ Requests!ForwardLook(u)
             \/ Requests!ForwardList(u)
      PROVE  Requests!TypeOK'
  <2>1. PICK want \in Requests!Wants, pc \in Requests!Calls : Requests!Take(u, want, pc)
    BY <1>2 DEF Requests!ForwardNotification, Requests!ForwardLook, Requests!ForwardList,
       Requests!Calls, Requests!Connected, Requests!Wants
  <2>2. change' = change
    BY <1>2 DEF Requests!ForwardNotification, Requests!ForwardLook, Requests!ForwardList
  <2> QED
    BY <2>1, <2>2, Moving DEF Requests!TypeOK, Requests!Take
<1>3. ASSUME NEW u \in Users, Requests!Forward(u) PROVE Requests!TypeOK'
  <2>1. call' \in [Users -> Requests!CallType]
    BY <1>3, Moving DEF Requests!Forward, Requests!Calls, Requests!Connected
  <2> QED
    BY <1>3, <2>1 DEF Requests!TypeOK, Requests!Forward, Requests!Handlers, Requests!changes
<1>4. ASSUME NEW u \in Users, Requests!ForwardChange(u) \/ Requests!ForwardRemoval(u)
      PROVE  Requests!TypeOK'
  <2>1. PICK want \in Requests!Wants, verb \in {"PATCH", "DELETE"} :
          Requests!Take(u, want, "changing") /\ Requests!Sent(u, verb)
    BY <1>4 DEF Requests!ForwardChange, Requests!ForwardRemoval, Requests!Wants
  <2>2. call' \in [Users -> Requests!CallType]
    BY <2>1, Moving DEF Requests!Take, Requests!Calls, Requests!Connected
  <2>3. change' \in [Users -> Requests!ChangeType \cup {Requests!NoChange}]
    BY <2>1 DEF Requests!Sent, Requests!TypeOK, Requests!ChangeType
  <2> QED
    BY <2>1, <2>2, <2>3 DEF Requests!TypeOK, Requests!Take
<1>5. ASSUME NEW u \in Users,
             \/ Requests!NoConnection(u) \/ Requests!Denied(u) \/ Requests!GatewayTimeout(u)
             \/ Requests!Unreachable(u) \/ Requests!Refused(u)
      PROVE  Requests!TypeOK'
  <2>1. \/ UNCHANGED notified /\ \E text \in Requests!Answers : Requests!Tell(u, text)
        \/ UNCHANGED answer /\ \E text \in Requests!Notices : Requests!Close(u, text)
    BY <1>5 DEF Requests!NoConnection, Requests!Denied, Requests!GatewayTimeout,
       Requests!Unreachable,
       Requests!Refused, Requests!Answers, Requests!Notices
  <2>2. /\ answer \in [Users -> Requests!Answers \cup {"none"}]
        /\ notified \in [Users -> Requests!Notices \cup {"none"}]
    BY DEF Requests!TypeOK
  <2>3. CASE UNCHANGED notified /\ \E text \in Requests!Answers : Requests!Tell(u, text)
    <3>1. PICK text \in Requests!Answers : Requests!Tell(u, text)
      BY <2>3
    <3>2. /\ call' \in [Users -> Requests!CallType]
          /\ answer' \in [Users -> Requests!Answers \cup {"none"}]
      BY <3>1, Telling
    <3> QED
      BY <1>5, <2>2, <2>3, <3>2 DEF Requests!TypeOK, Requests!NoConnection,
         Requests!Denied, Requests!GatewayTimeout, Requests!Unreachable, Requests!Refused,
         Requests!changes
  <2>4. CASE UNCHANGED answer /\ \E text \in Requests!Notices : Requests!Close(u, text)
    <3>1. PICK text \in Requests!Notices : Requests!Close(u, text)
      BY <2>4
    <3>2. /\ call' \in [Users -> Requests!CallType]
          /\ notified' \in [Users -> Requests!Notices \cup {"none"}]
      BY <3>1, Closing
    <3> QED
      BY <1>5, <2>2, <2>4, <3>2 DEF Requests!TypeOK, Requests!NoConnection,
         Requests!Denied, Requests!GatewayTimeout, Requests!Unreachable, Requests!Refused,
         Requests!changes
  <2> QED
    BY <2>1, <2>3, <2>4
<1>6. ASSUME NEW u \in Users, Requests!Look(u) \/ Requests!LookupRuns(u) \/ Requests!LookupFails(u)
      PROVE  Requests!TypeOK'
  BY <1>6 DEF Requests!TypeOK, Requests!Look, Requests!LookupRuns, Requests!LookupFails,
     Requests!Handlers, Requests!changes
<1>7. ASSUME NEW u \in Users, Requests!LookupEnds(u) PROVE Requests!TypeOK'
  BY <1>7 DEF Requests!TypeOK, Requests!LookupEnds, Requests!Handlers, Requests!changes
<1>8. ASSUME NEW u \in Users, Requests!Respond(u) PROVE Requests!TypeOK'
  <2>1. /\ remote' \in [Users -> Requests!Handlers]
        /\ UNCHANGED <<notified, lookup, change, incidents, done, tasks, service, lost>>
    BY <1>8 DEF Requests!TypeOK, Requests!Respond, Requests!Handlers, Requests!changes
  <2>2. /\ call' \in [Users -> Requests!CallType]
        /\ answer' \in [Users -> Requests!Answers \cup {"none"}]
    BY <1>8, Responding, Telling DEF Requests!TypeOK
  <2> QED
    BY <2>1, <2>2 DEF Requests!TypeOK
<1>9. ASSUME NEW u \in Users, Requests!Commit(u) PROVE Requests!TypeOK'
  BY <1>9 DEF Requests!TypeOK, Requests!Commit, Requests!Handlers, Requests!changes
<1>10. ASSUME NEW u \in Users, Requests!ReadBack(u) \/ Requests!ReadList(u) PROVE Requests!TypeOK'
  <2>1. /\ call' \in [Users -> Requests!CallType]
        /\ notified' \in [Users -> Requests!Notices \cup {"none"}]
    <3>1. CASE call' = [call EXCEPT ![u].pc = "publishing"] /\ UNCHANGED notified
      BY <3>1, Moving DEF Requests!TypeOK, Requests!Calls, Requests!Connected
    <3>2. CASE \E text \in Requests!Notices : Requests!Close(u, text)
      BY <3>2, Closing
    <3>3. CASE Requests!AttemptFails(u)
      BY <3>3, Failing
    <3> QED
      BY <1>10, <3>1, <3>2, <3>3, Reading DEF Requests!Notices
  <2> QED
    BY <1>10, <2>1, Reading DEF Requests!TypeOK
<1>11. ASSUME NEW u \in Users, Requests!Publish(u) PROVE Requests!TypeOK'
  <2>1. PICK text \in Requests!Notices : Requests!Close(u, text)
    BY <1>11 DEF Requests!Publish, Requests!Notices
  <2>2. /\ call' \in [Users -> Requests!CallType]
        /\ notified' \in [Users -> Requests!Notices \cup {"none"}]
    BY <2>1, Closing
  <2> QED
    BY <1>11, <2>2 DEF Requests!TypeOK, Requests!Publish, Requests!changes
<1>12. ASSUME NEW u \in Users, Requests!ChangeMissing(u) \/ Requests!ChangeResponds(u)
       PROVE  Requests!TypeOK'
  <2>1. PICK text \in Requests!Notices : Requests!ChangeAnswered(u, text)
    BY <1>12 DEF Requests!ChangeMissing, Requests!ChangeResponds, Requests!Notices
  <2>2. change' \in [Users -> Requests!ChangeType \cup {Requests!NoChange}]
    <3>1. PICK pc \in {"committing", "over"} :
            change[u].pc = "arrived" /\ change' = [change EXCEPT ![u].pc = pc]
      BY <1>12 DEF Requests!ChangeMissing, Requests!ChangeResponds
    <3>2. change[u] \in Requests!ChangeType
      BY <3>1 DEF Requests!TypeOK, Requests!NoChange
    <3>3. [change[u] EXCEPT !.pc = pc] \in Requests!ChangeType
      BY <3>2 DEF Requests!ChangeType
    <3> QED
      BY <3>1, <3>3 DEF Requests!TypeOK
  <2> QED
    BY <1>12, <2>1, <2>2, Answering DEF Requests!TypeOK, Requests!ChangeMissing,
       Requests!ChangeResponds
<1>13. ASSUME NEW u \in Users, Requests!ChangeCommits(u) PROVE Requests!TypeOK'
  <2>1. change[u] \in Requests!ChangeType
    BY <1>13 DEF Requests!TypeOK, Requests!ChangeCommits, Requests!NoChange
  <2>2. [change[u] EXCEPT !.pc = "over"] \in Requests!ChangeType
    BY <2>1 DEF Requests!ChangeType
  <2> QED
    BY <1>13, <2>2 DEF Requests!TypeOK, Requests!ChangeCommits, Requests!Left
<1>14. CASE Requests!Crash
  <2>1. change' \in [Users -> Requests!ChangeType \cup {Requests!NoChange}]
    BY <1>14 DEF Requests!TypeOK, Requests!Crash, Requests!ChangeType
  <2> QED
    BY <1>14, <2>1 DEF Requests!TypeOK, Requests!Crash, Requests!Handlers
<1>15. CASE Requests!DeleteService
  BY <1>15 DEF Requests!TypeOK, Requests!DeleteService, Requests!changes
<1>16. CASE UNCHANGED Requests!vars
  BY <1>16 DEF Requests!TypeOK, Requests!vars
<1> QED
  BY <1>1, <1>2, <1>3, <1>4, <1>5, <1>6, <1>7, <1>8, <1>9, <1>10, <1>11, <1>12, <1>13, <1>14,
     <1>15, <1>16
  DEF Requests!Next, Requests!Served, Requests!Handle

-----------------------------------------------------------------------------
\* Before the gateway sends a change there is none; while there is a handler of it, the
\* request has been sent and nobody has been shown the incident.
LEMMA Waiting ==
  ASSUME RequestInv, NEW u \in Users, call[u].pc \notin {"changing", "over"}
  PROVE  /\ change[u] = Requests!NoChange /\ change[u].pc = "none"
         /\ notified[u] = "none" /\ u \notin done
<1>1. Sound(u)
  BY DEF RequestInv
<1>2. change[u] = Requests!NoChange /\ notified[u] = "none" /\ (u \in done => change[u].pc = "over")
  BY <1>1 DEF Sound
<1> QED
  BY <1>2 DEF Requests!NoChange

LEMMA Handling ==
  ASSUME RequestInv, NEW u \in Users, change[u].pc \in {"arrived", "committing"}
  PROVE  /\ change[u] \in Requests!ChangeType /\ change[u] # Requests!NoChange
         /\ call[u].pc \in {"changing", "over"} /\ notified[u] # "found" /\ u \notin done
<1>1. Sound(u) /\ change[u] \in Requests!ChangeType \cup {Requests!NoChange}
  BY DEF RequestInv, Requests!TypeOK
<1>2. change[u] # Requests!NoChange
  BY DEF Requests!NoChange
<1> QED
  BY <1>1, <1>2 DEF Sound

\* The steps of a user's requests at the backend.
LEMMA BackendStep ==
  ASSUME RequestInv, NEW u \in Users, NEW v \in Users,
         \/ Requests!Ask(u) \/ Requests!AskAgain(u) \/ Requests!Forward(u)
         \/ Requests!ForwardNotification(u) \/ Requests!ForwardLook(u) \/ Requests!ForwardList(u)
         \/ Requests!ForwardChange(u) \/ Requests!ForwardRemoval(u) \/ Requests!Publish(u)
  PROVE  Sound(v)'
<1>1. Sound(u) /\ Sound(v) /\ Requests!TypeOK
  BY DEF RequestInv
<1>2. CASE \/ Requests!Ask(u) \/ Requests!AskAgain(u) \/ Requests!ForwardNotification(u)
           \/ Requests!ForwardLook(u) \/ Requests!ForwardList(u)
  <2>1. PICK pc \in Requests!Calls :
          /\ call' = [call EXCEPT ![u].pc = pc]
          /\ \/ call[u].pc = "idle" /\ pc = "queued"
             \/ /\ call[u].pc \in {"told"} \cup Requests!Wants
                /\ pc \in Requests!Wants \cup {"reading", "looking", "listing"}
    BY <1>2 DEF Requests!Ask, Requests!AskAgain, Requests!ForwardNotification,
       Requests!ForwardLook, Requests!ForwardList, Requests!Take, Requests!Wants, Requests!Calls,
       Requests!Connected
  <2>2. UNCHANGED <<answer, notified, remote, lookup, change, incidents, done, tasks, lost>>
    BY <1>2 DEF Requests!Ask, Requests!AskAgain, Requests!ForwardNotification,
       Requests!ForwardLook, Requests!ForwardList, Requests!Take, Requests!changes
  <2>3. call'[v].pc = IF v = u THEN pc ELSE call[v].pc
    BY <1>1, <2>1, Moving
  <2>4. CASE v = u
    <3>1. /\ change[u] = Requests!NoChange /\ notified[u] = "none"
          /\ call[u].pc # "idle" => call[u].pc \notin {"queued", "calling"}
      BY <2>1, Waiting DEF Requests!Wants
    <3>2. /\ pc \notin {"idle", "calling", "changing", "over"}
          /\ pc = "queued" => call[u].pc = "idle"
      BY <2>1 DEF Requests!Wants
    <3> QED
      BY <1>1, <2>2, <2>3, <2>4, <3>1, <3>2 DEF Sound, Requests!Removed
  <2>5. CASE v # u
    BY <1>1, <2>2, <2>3, <2>5 DEF Sound, Requests!Removed
  <2> QED
    BY <2>4, <2>5
<1>3. CASE Requests!Forward(u)
  <2>1. call[u].pc = "queued" /\ call'[v].pc = IF v = u THEN "calling" ELSE call[v].pc
    BY <1>1, <1>3, Moving DEF Requests!Forward, Requests!Calls, Requests!Connected
  <2>2. /\ v # u => remote'[v] = remote[v]
        /\ UNCHANGED <<answer, notified, change, incidents, done, tasks, lost>>
    BY <1>1, <1>3 DEF Requests!TypeOK, Requests!Forward, Requests!changes
  <2>3. remote[u] = "none" /\ answer[u] = "none"
    BY <1>1, <2>1 DEF Sound
  <2> QED
    BY <1>1, <2>1, <2>2, <2>3 DEF Sound, Requests!Removed
<1>4. CASE Requests!ForwardChange(u) \/ Requests!ForwardRemoval(u)
  <2>1. PICK want \in Requests!Wants, verb \in {"PATCH", "DELETE"} :
          Requests!Take(u, want, "changing") /\ Requests!Sent(u, verb)
    BY <1>4 DEF Requests!ForwardChange, Requests!ForwardRemoval, Requests!Wants
  <2>2. /\ call[u].pc \in Requests!Wants
        /\ call'[v].pc = IF v = u THEN "changing" ELSE call[v].pc
        /\ UNCHANGED <<answer, notified, remote, incidents, done, tasks, lost>>
    BY <1>1, <2>1, Moving DEF Requests!Take, Requests!Calls, Requests!Connected
  <2>3. /\ change[u].pc = "none" /\ notified[u] = "none" /\ u \notin done
        /\ call[u].pc \notin {"idle", "queued", "calling", "changing", "over"}
    BY <2>2, Waiting DEF Requests!Wants
  <2>4. \/ change'[v] = change[v]
        \/ v = u /\ change'[v] = [verb |-> verb, pc |-> "arrived"]
    BY <1>1, <2>1 DEF Requests!Sent, Requests!TypeOK
  <2>5. CASE v = u
    <3>1. change'[u].pc \in {"none", "arrived"} /\ u \notin Requests!Removed
      BY <2>3, <2>4, <2>5 DEF Requests!Removed
    <3>2. /\ call'[u].pc = "changing" /\ u \notin Requests!Removed'
      BY <2>2, <2>3, <2>5 DEF Requests!Removed
    <3> QED
      BY <1>1, <2>2, <2>3, <2>5, <3>1, <3>2 DEF Sound
  <2>6. CASE v # u
    BY <1>1, <2>2, <2>4, <2>6 DEF Sound, Requests!Removed
  <2> QED
    BY <2>5, <2>6
<1>5. CASE Requests!Publish(u)
  <2>1. PICK text \in Requests!Notices :
          /\ Requests!Close(u, text) /\ text \in {"accepted", "unavailable"}
          /\ text = "accepted" => u \in tasks'
          /\ call[u].pc = "publishing" /\ tasks \subseteq tasks'
          /\ UNCHANGED <<answer, remote, change, incidents, done, lost>>
    BY <1>5 DEF Requests!Publish, Requests!Notices, Requests!changes
  <2>2. /\ call'[v].pc = IF v = u THEN "over" ELSE call[v].pc
        /\ notified'[v] = IF v = u THEN text ELSE notified[v]
    BY <1>1, <2>1, Closing
  <2> QED
    BY <1>1, <2>1, <2>2 DEF Sound, Requests!Removed
<1> QED
  BY <1>2, <1>3, <1>4, <1>5

\* A request that ends without an answer of the incident service says nothing of incidents.
LEMMA FailureStep ==
  ASSUME RequestInv, NEW u \in Users, NEW v \in Users,
         \/ Requests!NoConnection(u) \/ Requests!Denied(u) \/ Requests!GatewayTimeout(u)
         \/ Requests!Unreachable(u) \/ Requests!Refused(u)
  PROVE  Sound(v)'
<1>1. Sound(u) /\ Sound(v) /\ Requests!TypeOK
  BY DEF RequestInv
<1>2. UNCHANGED <<remote, lookup, change, incidents, done, tasks, service, lost>>
  BY DEF Requests!NoConnection, Requests!Denied, Requests!GatewayTimeout, Requests!Unreachable,
     Requests!Refused, Requests!changes
<1>3. \/ /\ call[u].pc \in {"queued", "calling"} /\ UNCHANGED notified
         /\ \E text \in {"error", "unavailable", "forbidden"} : Requests!Tell(u, text)
      \/ /\ UNCHANGED answer
         /\ call[u].pc \in Requests!Wants \cup {"reading", "looking", "listing", "changing"}
         /\ \E text \in {"error", "unavailable", "forbidden"} : Requests!Close(u, text)
  BY DEF Requests!NoConnection, Requests!Denied, Requests!GatewayTimeout, Requests!Unreachable,
     Requests!Refused
<1>4. CASE /\ call[u].pc \in {"queued", "calling"} /\ UNCHANGED notified
           /\ \E text \in {"error", "unavailable", "forbidden"} : Requests!Tell(u, text)
  <2>1. PICK text \in Requests!Answers :
          Requests!Tell(u, text) /\ text \in {"error", "unavailable", "forbidden"}
    BY <1>4 DEF Requests!Answers
  <2>2. /\ call'[v].pc = IF v = u THEN "told" ELSE call[v].pc
        /\ answer'[v] = IF v = u THEN text ELSE answer[v]
    BY <1>1, <2>1, Telling
  <2> QED
    BY <1>1, <1>2, <1>4, <2>1, <2>2 DEF Sound, Requests!Removed
<1>5. CASE /\ UNCHANGED answer
           /\ call[u].pc \in Requests!Wants \cup {"reading", "looking", "listing", "changing"}
           /\ \E text \in {"error", "unavailable", "forbidden"} : Requests!Close(u, text)
  <2>1. PICK text \in Requests!Notices :
          Requests!Close(u, text) /\ text \in {"error", "unavailable", "forbidden"}
    BY <1>5 DEF Requests!Notices
  <2>2. /\ call'[v].pc = IF v = u THEN "over" ELSE call[v].pc
        /\ notified'[v] = IF v = u THEN text ELSE notified[v]
    BY <1>1, <2>1, Closing
  <2> QED
    BY <1>1, <1>2, <1>5, <2>1, <2>2 DEF Sound, Requests!Removed, Requests!Wants
<1> QED
  BY <1>3, <1>4, <1>5

\* The answer to a read says nothing of the creation; what is found is there.
LEMMA ReadingStep ==
  ASSUME RequestInv, NEW u \in Users, NEW v \in Users,
         Requests!ReadBack(u) \/ Requests!ReadList(u)
  PROVE  Sound(v)'
<1>1. Sound(u) /\ Sound(v) /\ Requests!TypeOK
  BY DEF RequestInv
<1>2. /\ call[u].pc \in {"reading", "looking", "listing"}
      /\ UNCHANGED <<answer, remote, change, incidents, done, tasks, lost>>
  BY <1>1, Reading
<1>3. ASSUME NEW text \in Requests!Notices, Requests!Close(u, text),
             text \in {"found", "not found", "unavailable"}, text = "found" => u \in incidents
      PROVE  Sound(v)'
  <2>1. /\ call'[v].pc = IF v = u THEN "over" ELSE call[v].pc
        /\ notified'[v] = IF v = u THEN text ELSE notified[v]
    BY <1>1, <1>3, Closing
  <2>2. change[u] = Requests!NoChange
    BY <1>2, Waiting
  <2> QED
    BY <1>1, <1>2, <1>3, <2>1, <2>2 DEF Sound, Requests!Removed
<1>4. CASE call' = [call EXCEPT ![u].pc = "publishing"] /\ UNCHANGED notified
  <2>1. call'[v].pc = IF v = u THEN "publishing" ELSE call[v].pc
    BY <1>1, <1>4, Moving DEF Requests!Calls, Requests!Connected
  <2>2. change[u] = Requests!NoChange /\ notified[u] = "none"
    BY <1>2, Waiting
  <2>3. CASE v = u
    <3>1. call'[u].pc = "publishing" /\ Requests!Removed' = Requests!Removed
      BY <1>2, <2>1, <2>3 DEF Requests!Removed
    <3> QED
      BY <1>1, <1>2, <1>4, <2>2, <2>3, <3>1 DEF Sound
  <2>4. CASE v # u
    BY <1>1, <1>2, <1>4, <2>1, <2>4 DEF Sound, Requests!Removed
  <2> QED
    BY <2>3, <2>4
<1>5. CASE Requests!AttemptFails(u)
  <2>1. CASE UNCHANGED notified /\ \A w \in Users : call'[w].pc = call[w].pc
    BY <1>1, <1>2, <2>1 DEF Sound, Requests!Removed
  <2>2. CASE Requests!Close(u, "unavailable")
    BY <1>3, <2>2 DEF Requests!Notices
  <2> QED
    BY <1>1, <1>5, <2>1, <2>2, Failing
<1> QED
  BY <1>1, <1>3, <1>4, <1>5, Reading DEF Requests!Notices

\* The steps of the creation's handler at the incident service.
LEMMA HandlerStep ==
  ASSUME RequestInv, NEW u \in Users, NEW v \in Users,
         \/ Requests!Look(u) \/ Requests!LookupRuns(u) \/ Requests!LookupEnds(u)
         \/ Requests!LookupFails(u) \/ Requests!Respond(u) \/ Requests!Commit(u)
  PROVE  Sound(v)'
<1>1. Sound(v) /\ Requests!TypeOK
  BY DEF RequestInv
<1>2. CASE Requests!Look(u) \/ Requests!LookupRuns(u) \/ Requests!LookupFails(u)
  <2>1. \/ remote'[v] = remote[v]
        \/ /\ remote[v] \in {"arrived", "looking"}
           /\ remote'[v] \in {"looking", "unavailable"}
    BY <1>1, <1>2 DEF Requests!TypeOK, Requests!Look, Requests!LookupRuns, Requests!LookupFails
  <2>2. UNCHANGED <<call, answer, notified, change, incidents, done, tasks, lost>>
    BY <1>2 DEF Requests!Look, Requests!LookupRuns, Requests!LookupFails, Requests!changes
  <2> QED
    BY <1>1, <2>1, <2>2 DEF Sound, Requests!Removed
<1>3. CASE Requests!LookupEnds(u)
  <2>1. \/ remote'[v] = remote[v]
        \/ remote[v] = "looking" /\ remote'[v] \in {"flushed", "denied"}
    BY <1>1, <1>3 DEF Requests!TypeOK, Requests!LookupEnds
  <2>2. UNCHANGED <<call, answer, notified, change, incidents, done, tasks, lost>>
    BY <1>3 DEF Requests!LookupEnds, Requests!changes
  <2> QED
    BY <1>1, <2>1, <2>2 DEF Sound, Requests!Removed
<1>4. CASE Requests!Respond(u)
  <2>1. /\ remote[u] \in {"flushed", "denied", "unavailable"}
        /\ remote'[v] = IF v # u THEN remote[v]
                        ELSE IF remote[u] = "flushed" THEN "committing" ELSE "over"
    BY <1>1, <1>4 DEF Requests!TypeOK, Requests!Respond
  <2>2. UNCHANGED <<notified, change, incidents, done, tasks, lost>>
    BY <1>4 DEF Requests!Respond, Requests!changes
  <2>3. CASE call[u].pc = "calling"
    <3>1. PICK text \in Requests!Answers :
            /\ Requests!Tell(u, text)
            /\ text = CASE remote[u] = "flushed" -> "created"
                        [] remote[u] = "denied" -> "no such service"
                        [] remote[u] = "unavailable" -> "unavailable"
      BY <1>4, <2>1, <2>3 DEF Requests!Respond, Requests!Answers
    <3>2. /\ call'[v].pc = IF v = u THEN "told" ELSE call[v].pc
          /\ answer'[v] = IF v = u THEN text ELSE answer[v]
      BY <1>1, <3>1, Telling
    <3> QED
      BY <1>1, <2>1, <2>2, <2>3, <3>1, <3>2 DEF Sound, Requests!Removed
  <2>4. CASE UNCHANGED <<call, answer>> /\ call[u].pc # "calling"
    BY <1>1, <2>1, <2>2, <2>4 DEF Sound, Requests!Removed
  <2> QED
    BY <1>4, <2>3, <2>4 DEF Requests!Respond
<1>5. CASE Requests!Commit(u)
  <2>1. remote[u] = "committing" /\ remote'[v] = IF v = u THEN "over" ELSE remote[v]
    BY <1>1, <1>5 DEF Requests!TypeOK, Requests!Commit
  <2>2. /\ UNCHANGED <<call, answer, notified, change, done, tasks>>
        /\ incidents \subseteq incidents' /\ lost \subseteq lost' /\ u \in incidents' \cup lost'
        /\ incidents' \subseteq incidents \cup {u}
    BY <1>5 DEF Requests!Commit, Requests!changes
  <2> QED
    BY <1>1, <2>1, <2>2 DEF Sound, Requests!Removed
<1> QED
  BY <1>2, <1>3, <1>4, <1>5

\* The steps of the handler of a change or a removal.
LEMMA ChangeStep ==
  ASSUME RequestInv, NEW u \in Users, NEW v \in Users,
         Requests!ChangeMissing(u) \/ Requests!ChangeResponds(u) \/ Requests!ChangeCommits(u)
  PROVE  Sound(v)'
<1>1. Sound(u) /\ Sound(v) /\ Requests!TypeOK
  BY DEF RequestInv
<1>2. ASSUME NEW text \in Requests!Notices, NEW pc \in {"over", "committing"},
             (text = "not found" /\ pc = "over") \/ (text = "changed" /\ u \in incidents),
             text = "changed" => pc = "committing",
             change[u].pc = "arrived", change' = [change EXCEPT ![u].pc = pc],
             Requests!ChangeAnswered(u, text),
             UNCHANGED <<answer, remote, incidents, done, tasks, lost>>
      PROVE  Sound(v)'
  <2>1. /\ change[u] # Requests!NoChange
        /\ change'[v].verb = change[v].verb
        /\ change'[v].pc = IF v = u THEN pc ELSE change[v].pc
        /\ v # u => change'[v] = change[v]
        /\ u \notin done /\ call[u].pc \in {"changing", "over"} /\ notified[u] # "found"
    <3>1. /\ change[u] \in Requests!ChangeType /\ change[u] # Requests!NoChange
          /\ u \notin done /\ call[u].pc \in {"changing", "over"} /\ notified[u] # "found"
      BY <1>2, Handling
    <3> QED
      BY <1>1, <1>2, <3>1 DEF Requests!TypeOK, Requests!ChangeType, Requests!NoChange
  <2>2. CASE call[u].pc = "changing" /\ Requests!Close(u, text)
    <3>1. /\ call'[v].pc = IF v = u THEN "over" ELSE call[v].pc
          /\ notified'[v] = IF v = u THEN text ELSE notified[v]
      BY <1>1, <1>2, <2>2, Closing
    <3>2. CASE v = u
      BY <1>1, <1>2, <2>1, <2>2, <3>1, <3>2 DEF Sound, Requests!Removed
    <3>3. CASE v # u
      BY <1>1, <1>2, <2>1, <3>1, <3>3 DEF Sound, Requests!Removed
    <3> QED
      BY <3>2, <3>3
  <2>3. CASE call[u].pc # "changing" /\ UNCHANGED <<call, notified>>
    BY <1>1, <1>2, <2>1, <2>3 DEF Sound, Requests!Removed
  <2> QED
    BY <1>1, <1>2, <2>2, <2>3, Answering
<1>3. CASE Requests!ChangeMissing(u)
  BY <1>2, <1>3 DEF Requests!ChangeMissing, Requests!Notices
<1>4. CASE Requests!ChangeResponds(u)
  BY <1>2, <1>4 DEF Requests!ChangeResponds, Requests!Notices
<1>5. CASE Requests!ChangeCommits(u)
  <2>1. /\ change[u].pc = "committing" /\ change[u] # Requests!NoChange
        /\ change'[v].verb = change[v].verb
        /\ change'[v].pc = IF v = u THEN "over" ELSE change[v].pc
        /\ v # u => change'[v] = change[v]
        /\ u \in incidents /\ u \notin done /\ remote[u] = "over"
        /\ call[u].pc \in {"changing", "over"} /\ notified[u] # "found"
    <3>1. /\ change[u].pc = "committing" /\ change' = [change EXCEPT ![u].pc = "over"]
      BY <1>5 DEF Requests!ChangeCommits
    <3>2. /\ change[u] \in Requests!ChangeType /\ change[u] # Requests!NoChange
          /\ u \notin done /\ call[u].pc \in {"changing", "over"} /\ notified[u] # "found"
      BY <3>1, Handling
    <3>3. u \in incidents /\ remote[u] = "over"
      BY <1>1, <3>1 DEF Sound
    <3> QED
      BY <1>1, <3>1, <3>2, <3>3 DEF Requests!TypeOK, Requests!ChangeType, Requests!NoChange
  <2>2. UNCHANGED <<call, answer, notified, remote, tasks>>
    BY <1>5 DEF Requests!ChangeCommits
  <2>3. \/ /\ done' = done \cup {u} /\ lost' = lost
           /\ incidents' = IF change[u].verb = "DELETE" THEN incidents \ {u} ELSE incidents
        \/ lost' = lost \cup {u} /\ done' = done /\ incidents' = incidents
    BY <1>5 DEF Requests!ChangeCommits, Requests!Left
  <2>4. CASE v = u
    BY <1>1, <2>1, <2>2, <2>3, <2>4 DEF Sound, Requests!Removed
  <2>5. CASE v # u
    BY <1>1, <2>1, <2>2, <2>3, <2>5 DEF Sound, Requests!Removed
  <2> QED
    BY <2>4, <2>5
<1> QED
  BY <1>3, <1>4, <1>5

\* What ends the handlers, and the service.
LEMMA FaultStep ==
  ASSUME RequestInv, NEW v \in Users, Requests!Crash \/ Requests!DeleteService
  PROVE  Sound(v)'
<1>1. Sound(v) /\ Requests!TypeOK
  BY DEF RequestInv
<1>2. CASE Requests!Crash
  <2>1. /\ remote'[v] = IF remote[v] = "none" THEN "none" ELSE "over"
        /\ change'[v].verb = change[v].verb
        /\ change[v] = Requests!NoChange <=> change'[v] = Requests!NoChange
        /\ change'[v].pc = IF change[v] = Requests!NoChange THEN "none" ELSE "over"
    BY <1>1, <1>2 DEF Requests!Crash, Requests!TypeOK, Requests!ChangeType, Requests!NoChange
  <2>2. /\ UNCHANGED <<call, answer, notified, incidents, done, tasks>>
        /\ lost \subseteq lost'
        /\ remote[v] = "committing" \/ change[v].pc = "committing" => v \in lost'
    BY <1>2 DEF Requests!Crash
  <2> QED
    BY <1>1, <2>1, <2>2 DEF Sound, Requests!Removed, Requests!NoChange
<1>3. CASE Requests!DeleteService
  BY <1>1, <1>3 DEF Sound, Requests!DeleteService, Requests!Removed, Requests!changes
<1> QED
  BY <1>2, <1>3

-----------------------------------------------------------------------------
LEMMA RequestsBegin == Requests!Init => RequestInv
<1> SUFFICES ASSUME Requests!Init PROVE RequestInv
  OBVIOUS
<1>1. [pc |-> "idle", attempt |-> 1] \in Requests!CallType
  BY RequestAssumption DEF Requests!CallType, Requests!Calls
<1>2. Requests!TypeOK
  BY <1>1 DEF Requests!Init, Requests!TypeOK, Requests!Handlers
<1>3. \A u \in Users : Sound(u)
  BY DEF Requests!Init, Sound, Requests!Removed, Requests!NoChange
<1> QED
  BY <1>2, <1>3 DEF RequestInv

LEMMA RequestsContinue == ASSUME RequestInv, [Requests!Next]_Requests!vars PROVE RequestInv'
<1>1. Requests!TypeOK'
  BY RequestTypes DEF RequestInv
<1>2. ASSUME NEW v \in Users PROVE Sound(v)'
  <2>1. CASE UNCHANGED Requests!vars
    BY <2>1 DEF Requests!vars, RequestInv, Sound, Requests!Removed
  <2>2. ASSUME NEW u \in Users, Requests!Handle(u) PROVE Sound(v)'
    BY <2>2, HandlerStep, ChangeStep DEF Requests!Handle
  <2>3. ASSUME NEW u \in Users, Requests!Served(u) PROVE Sound(v)'
    BY <2>3, BackendStep, FailureStep, ReadingStep DEF Requests!Served
  <2>4. ASSUME NEW u \in Users,
               \/ Requests!Ask(u) \/ Requests!AskAgain(u)
               \/ Requests!Unreachable(u) \/ Requests!Refused(u)
        PROVE  Sound(v)'
    BY <2>4, BackendStep, FailureStep
  <2> QED
    BY <2>1, <2>2, <2>3, <2>4, FaultStep DEF Requests!Next
<1> QED
  BY <1>1, <1>2 DEF RequestInv

\* What users are told is true, although the incident service answers before it
\* commits, loses commits and restarts (create_incident, get_db_session), whatever the
\* relay and the reconcilers do beside the requests.
THEOREM UsersAreToldTheTruth == ProgressSpec => []AnswersAreTrue
<1>1. ASSUME [ProgressNext]_<<vars, reconciliation, requests>>
      PROVE  [Requests!Next]_Requests!vars
  BY <1>1 DEF ProgressNext, requests, Requests!vars
<1>2. RequestInv /\ [ProgressNext]_<<vars, reconciliation, requests>> => RequestInv'
  BY <1>1, RequestsContinue
<1>3. RequestInv => AnswersAreTrue
  <2> SUFFICES ASSUME RequestInv, NEW u \in Users
               PROVE  /\ answer[u] = "created" =>
                            \/ u \in incidents \cup Requests!Removed \cup lost
                            \/ remote[u] = "committing"
                      /\ answer[u] = "no such service" =>
                            u \notin incidents /\ remote[u] # "committing"
                      /\ notified[u] = "accepted" => u \in tasks
                      /\ notified[u] = "found" => u \in incidents
                      /\ notified[u] = "changed" =>
                            u \in done \cup lost \/ change[u].pc = "committing"
                      /\ u \in Requests!Removed => u \notin incidents /\ remote[u] # "committing"
    BY DEF RequestInv, AnswersAreTrue, Requests!AnswersAreTrue
  <2> QED
    BY DEF RequestInv, Sound, Requests!Removed
<1> QED
  BY <1>2, <1>3, RequestsBegin, PTL DEF ProgressSpec
=============================================================================
