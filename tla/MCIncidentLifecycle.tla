------------------------- MODULE MCIncidentLifecycle -------------------------
(***************************************************************************)
(* Instances of IncidentLifecycle for TLC.                                 *)
(***************************************************************************)
EXTENDS IncidentLifecycle, TLC

\* Every status, with and without a client's acknowledgement.
MCInitialRows ==
    {[status |-> s, acknowledged_at |-> a,
      resolved_at |-> IF s = "RESOLVED" THEN Client ELSE None] :
       s \in Status, a \in {None, Client}}

\* Status changes (with and without a resolved_at of the client's), a new or an
\* erased acknowledgement, and an edit of some other field.
MCPayloads ==
    {[status |-> s, acknowledged_at |-> Unset, resolved_at |-> r] :
       s \in Status \cup {Unset}, r \in {None, Client}}
    \cup
    {[status |-> Unset, acknowledged_at |-> a, resolved_at |-> None] :
       a \in {None, Client}}

Symmetric == Permutations(Attempts) \cup Permutations(Requests)
=============================================================================
