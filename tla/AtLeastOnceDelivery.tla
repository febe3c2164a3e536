------------------------- MODULE AtLeastOnceDelivery -------------------------
(***************************************************************************)
(* What a transactional outbox promises its caller: once a message has     *)
(* been submitted together with the business change, the transport accepts *)
(* it at least once, nothing that was never submitted is delivered, and    *)
(* the books are closed ("settled") only on messages that were delivered.  *)
(*                                                                         *)
(* The module says nothing about rows, locks, relays or retries.           *)
(* OutboxRelay implements it.                                              *)
(***************************************************************************)
CONSTANT Messages

VARIABLES
    submitted,  \* messages the caller has committed to sending
    delivered,  \* messages the transport has accepted at least once
    settled     \* messages the sender has finished with

vars == <<submitted, delivered, settled>>

Init ==
    /\ submitted = {}
    /\ delivered = {}
    /\ settled = {}

Submit(m) ==
    /\ m \notin submitted
    /\ submitted' = submitted \cup {m}
    /\ UNCHANGED <<delivered, settled>>

\* A delivery after the first one, even after the message is settled, is a
\* stuttering step: "at least once" does not count.
Deliver(m) ==
    /\ m \in submitted
    /\ delivered' = delivered \cup {m}
    /\ UNCHANGED <<submitted, settled>>

Settle(m) ==
    /\ m \in delivered
    /\ settled' = settled \cup {m}
    /\ UNCHANGED <<submitted, delivered>>

Next == \E m \in Messages : Submit(m) \/ Deliver(m) \/ Settle(m)

\* The safety half, which the proofs show OutboxRelay to implement.
Safety == Init /\ [][Next]_vars

Fairness ==
    \A m \in Messages : WF_vars(Deliver(m)) /\ WF_vars(Settle(m))

Spec == Safety /\ Fairness
=============================================================================
