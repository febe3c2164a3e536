----------------------------- MODULE SlidingWindow -----------------------------
(***************************************************************************)
(* The buckets of the backend's in-memory throttles                        *)
(* (login_throttle.py, password_reset_throttle.py).  A bucket is a deque   *)
(* of clock readings; here each entry is the age of its reading, in ticks. *)
(*                                                                         *)
(* A request reads the clock before it asks for the lock of the throttle,  *)
(* so its reading may be old by the time it is used: lag is its age.  An   *)
(* entry may therefore be younger than the one behind it, and _prune,      *)
(* which looks at the head only, may leave an expired entry in place.      *)
(*                                                                         *)
(* MaxLag bounds the ticks a thread is kept from the lock.                 *)
(***************************************************************************)
EXTENDS Naturals, Sequences, FiniteSetsExt

CONSTANTS
    Threads,    \* worker threads of the backend
    Addresses,  \* client addresses
    Accounts,   \* account identifiers
    MaxLag

ASSUME LagAssumption == MaxLag \in Nat

ASSUME ThreadsAssumption == IsFiniteSet(Threads) /\ Threads # {}

ASSUME ClientsAssumption == Addresses # {} /\ Accounts # {}

\* Ages grow up to the one at which no reading keeps the entry.
Oldest(window) == window + MaxLag

Buckets(keys, window, capacity) ==
    [keys -> UNION {[1 .. n -> 0 .. Oldest(window)] : n \in 0 .. capacity}]

Empty(keys) == [k \in keys |-> <<>>]

\* What is left of a queue when its head is removed until one of the kept is the head.
Suffix(queue, kept) ==
    IF kept = {} THEN <<>> ELSE SubSeq(queue, Min(kept), Len(queue))

\* _prune: entries[0] <= cutoff, where cutoff is now - window_seconds.
Pruned(bucket, window, lag) ==
    Suffix(bucket, {i \in DOMAIN bucket : bucket[i] < window + lag})

\* A tick of the clock, for one bucket and for all of them.
Older(bucket, window) == [i \in DOMAIN bucket |-> Min({bucket[i] + 1, Oldest(window)})]

Aged(buckets, window) == [k \in DOMAIN buckets |-> Older(buckets[k], window)]
=============================================================================
