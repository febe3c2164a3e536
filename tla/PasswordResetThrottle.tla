------------------------- MODULE PasswordResetThrottle -------------------------
(***************************************************************************)
(* Requests for a password reset under their throttle: POST                *)
(* /auth/password-reset/request (api/routes/auth.py) and                   *)
(* InMemoryPasswordResetThrottle.  A request that is refused is told how   *)
(* long to wait (Retry-After) and is not recorded; one that is admitted is *)
(* recorded for its address and its account in one step.                   *)
(*                                                                         *)
(* Readings of the clock are whole ticks, so rounding up adds nothing      *)
(* here: the answer is at least one tick.                                  *)
(***************************************************************************)
EXTENDS SlidingWindow

CONSTANTS
    IpMaxRequests, IpWindow,           \* password_reset_ip_max_requests, ..._window_seconds
    AccountMaxRequests, AccountWindow  \* password_reset_account_max_requests, ..._window_seconds

VARIABLES
    ipRequests,       \* _ip_requests
    accountRequests,  \* _account_requests
    asking,           \* the request of each thread
    promised          \* history: a Retry-After that nobody has got in the way of

reset == <<ipRequests, accountRequests, asking, promised>>

Clients == Addresses \X Accounts

MaxWait == Max({IpWindow, AccountWindow}) + MaxLag

\* A request that has read the clock, or none.
NoRequest == [waiting |-> FALSE, client |-> CHOOSE c \in Clients : TRUE, lag |-> 0]

NoPromise == [made |-> FALSE, client |-> CHOOSE c \in Clients : TRUE, wait |-> 0]

ResetTypeOK ==
    /\ ipRequests \in Buckets(Addresses, IpWindow, IpMaxRequests)
    /\ accountRequests \in Buckets(Accounts, AccountWindow, AccountMaxRequests)
    /\ asking \in [Threads -> [waiting : BOOLEAN, client : Clients, lag : 0 .. MaxLag]]
    /\ promised \in [made : BOOLEAN, client : Clients, wait : 0 .. MaxWait]

ResetInit ==
    /\ ipRequests = Empty(Addresses)
    /\ accountRequests = Empty(Accounts)
    /\ asking = [t \in Threads |-> NoRequest]
    /\ promised = NoPromise

-----------------------------------------------------------------------------
\* Helpers.  A bucket after the prune of a request with a reading that is lag old.

IpBucket(client, lag) == Pruned(ipRequests[client[1]], IpWindow, lag)
AccountBucket(client, lag) == Pruned(accountRequests[client[2]], AccountWindow, lag)

IpBlocked(client, lag) == Len(IpBucket(client, lag)) >= IpMaxRequests
AccountBlocked(client, lag) == Len(AccountBucket(client, lag)) >= AccountMaxRequests
Blocked(client, lag) == IpBlocked(client, lag) \/ AccountBlocked(client, lag)

\* bucket[0] + window - now, for each bucket that is full.
Remaining(client, lag) ==
    (IF IpBlocked(client, lag) THEN {IpWindow + lag - IpBucket(client, lag)[1]} ELSE {})
    \cup
    (IF AccountBlocked(client, lag)
     THEN {AccountWindow + lag - AccountBucket(client, lag)[1]} ELSE {})

\* Definitions named Faulty... are variants with one plausible mistake.  Nothing
\* uses them; each is substituted for the definition it precedes to see that a
\* property notices.

\* The shorter of two waits.
FaultyRetryAfter(client, lag) == Max({1, Min(Remaining(client, lag))})

\* _retry_after.
RetryAfter(client, lag) == Max({1, Max(Remaining(client, lag))})

-----------------------------------------------------------------------------

Ask(t) ==
    /\ ~asking[t].waiting
    /\ \E client \in Clients :
         asking' = [asking EXCEPT ![t] = [waiting |-> TRUE, client |-> client, lag |-> 0]]
    /\ UNCHANGED <<ipRequests, accountRequests, promised>>

\* 429 with Retry-After; only the prune stays.  Any of the answers is followed up.
Refuse(t, client, lag) ==
    /\ Blocked(client, lag)
    /\ ipRequests' = [ipRequests EXCEPT ![client[1]] = IpBucket(client, lag)]
    /\ accountRequests' = [accountRequests EXCEPT ![client[2]] = AccountBucket(client, lag)]
    /\ promised' \in {promised, [made |-> TRUE, client |-> client, wait |-> RetryAfter(client, lag)]}

\* The request is recorded; it may be the one that a refused client finds in its way.
Admit(t, client, lag) ==
    /\ ~Blocked(client, lag)
    /\ ipRequests' = [ipRequests EXCEPT ![client[1]] = Append(IpBucket(client, lag), lag)]
    /\ accountRequests' =
         [accountRequests EXCEPT ![client[2]] = Append(AccountBucket(client, lag), lag)]
    /\ promised' = IF client[1] = promised.client[1] \/ client[2] = promised.client[2]
                   THEN NoPromise ELSE promised

\* check_and_record holds the lock throughout.
CheckAndRecord(t) ==
    /\ asking[t].waiting
    /\ \/ Refuse(t, asking[t].client, asking[t].lag)
       \/ Admit(t, asking[t].client, asking[t].lag)
    /\ asking' = [asking EXCEPT ![t] = NoRequest]

ResetTick ==
    /\ \A t \in Threads : asking[t].waiting => asking[t].lag < MaxLag
    /\ ipRequests' = Aged(ipRequests, IpWindow)
    /\ accountRequests' = Aged(accountRequests, AccountWindow)
    /\ asking' = [t \in Threads |-> IF asking[t].waiting
                                    THEN [asking[t] EXCEPT !.lag = @ + 1] ELSE asking[t]]
    /\ promised' = [promised EXCEPT !.wait = IF @ = 0 THEN 0 ELSE @ - 1]

ResetStep(t) == Ask(t) \/ CheckAndRecord(t)

-----------------------------------------------------------------------------
\* Properties.

\* Retry-After is the truth: a client that waits as long as it was told is admitted,
\* unless another request for its address or its account was admitted since.  Refused
\* ones, its own included, do not keep it out.
RetryAfterIsEnough ==
    /\ ResetTypeOK
    /\ promised.made /\ promised.wait = 0 => ~Blocked(promised.client, 0)
=============================================================================
