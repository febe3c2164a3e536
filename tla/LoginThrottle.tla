---------------------------- MODULE LoginThrottle ----------------------------
(***************************************************************************)
(* Password logins under the login throttle: POST /auth/token              *)
(* (api/routes/auth.py) and InMemoryLoginThrottle.  A thread of the        *)
(* backend counts its attempt, verifies the password outside the lock,     *)
(* and only then records a failure or clears the failures of the account.  *)
(* Between the two steps any other thread may be admitted.                 *)
(*                                                                         *)
(* The throttle is built by a dependency under lru_cache(maxsize=1): while *)
(* no call of it has returned, every caller builds one of its own, and the *)
(* first to return is kept.  The others use theirs for one request, whose  *)
(* attempt and failure the throttle never sees.                            *)
(***************************************************************************)
EXTENDS SlidingWindow

CONSTANTS
    IpMaxAttempts, IpWindow,           \* login_ip_max_attempts, ..._window_seconds
    AccountMaxFailures, AccountWindow  \* login_account_max_failures, ..._window_seconds

ASSUME LoginLimitsAssumption ==
    {IpMaxAttempts, IpWindow, AccountMaxFailures, AccountWindow} \subseteq Nat \ {0}

VARIABLES
    ipAttempts,       \* _ip_attempts
    accountFailures,  \* _account_failures
    built,            \* the dependency has its instance
    attempt,          \* the login of each thread
    tested,           \* history: attempts not refused for an address within its window
    guessed,          \* history: ages of the failures of an account since its last login
    unseen            \* history: attempts that used an instance of their own

\* An attempt that was counted: by which thread, how long ago, and how old its reading
\* of the clock was then.
Tests == [thread : Threads, age : 0 .. IpWindow - 1, lag : 0 .. MaxLag]

login == <<ipAttempts, accountFailures, built, attempt, tested, guessed, unseen>>

\* idle
\* building     in the constructor of a throttle
\* arriving     the clock is read, begin_attempt is next
\* verifying    authenticate
\* failing      the clock is read, record_failure is next
AttemptPhases == {"idle", "building", "arriving", "verifying", "failing"}

LoginTypeOK ==
    /\ ipAttempts \in Buckets(Addresses, IpWindow, IpMaxAttempts)
    /\ accountFailures \in
         Buckets(Accounts, AccountWindow, AccountMaxFailures + Cardinality(Threads))
    /\ built \in BOOLEAN
    /\ attempt \in [Threads -> [pc : AttemptPhases, address : Addresses, account : Accounts,
                                lag : 0 .. MaxLag, private : BOOLEAN]]
    /\ tested \in [Addresses -> Seq(Tests)]
    /\ guessed \in [Accounts -> Seq(0 .. Oldest(AccountWindow))]
    /\ unseen \in Nat

\* No attempt; the fields mean nothing and have one value.
NoAttempt == [pc |-> "idle", address |-> CHOOSE a \in Addresses : TRUE,
              account |-> CHOOSE u \in Accounts : TRUE, lag |-> 0, private |-> FALSE]

LoginInit ==
    /\ ipAttempts = Empty(Addresses)
    /\ accountFailures = Empty(Accounts)
    /\ built = FALSE
    /\ attempt = [t \in Threads |-> NoAttempt]
    /\ tested = Empty(Addresses)
    /\ guessed = Empty(Accounts)
    /\ unseen = 0

-----------------------------------------------------------------------------
\* Helpers.

IpEntries(t) == Pruned(ipAttempts[attempt[t].address], IpWindow, attempt[t].lag)
AccountEntries(t) ==
    Pruned(accountFailures[attempt[t].account], AccountWindow, attempt[t].lag)

\* Definitions named Faulty... are variants with one plausible mistake.  Nothing
\* uses them; each is substituted for the definition it precedes to see that a
\* property notices.

IpBlocked(t) == Len(IpEntries(t)) >= IpMaxAttempts

FaultyAccountBlocked(t) == Len(AccountEntries(t)) > AccountMaxFailures

AccountBlocked(t) == Len(AccountEntries(t)) >= AccountMaxFailures

\* The attempts of the histories get older; those out of the window are forgotten.
OlderTests(tests) ==
    LET older == [i \in DOMAIN tests |-> [tests[i] EXCEPT !.age = @ + 1]]
    IN Suffix(older, {i \in DOMAIN older : older[i].age < IpWindow})

-----------------------------------------------------------------------------
\* A request arrives and needs the throttle; the first of them have to build it.

BuildThrottle(t) ==
    /\ attempt[t].pc = "idle"
    /\ ~built
    /\ attempt' = [attempt EXCEPT ![t].pc = "building"]
    /\ UNCHANGED <<ipAttempts, accountFailures, built, tested, guessed, unseen>>

\* The constructor of t has returned: its instance is kept if none is.
EndBuilding(t) ==
    /\ attempt[t].pc = "building"
    /\ built' = TRUE
    /\ unseen' = IF built THEN unseen + 1 ELSE unseen
    /\ \E a \in Addresses, u \in Accounts :
         attempt' = [attempt EXCEPT ![t] = [pc |-> "arriving", address |-> a, account |-> u,
                                            lag |-> 0, private |-> built]]
    /\ UNCHANGED <<ipAttempts, accountFailures, tested, guessed>>

Arrive(t) ==
    /\ attempt[t].pc = "idle"
    /\ built
    /\ \E a \in Addresses, u \in Accounts :
         attempt' = [attempt EXCEPT ![t] = [pc |-> "arriving", address |-> a, account |-> u,
                                            lag |-> 0, private |-> FALSE]]
    /\ UNCHANGED <<ipAttempts, accountFailures, built, tested, guessed, unseen>>

\* The attempt is counted for its address only after the account has been looked at.
FaultyRecordAttempt(t) ==
    IF AccountBlocked(t) THEN UNCHANGED ipAttempts
    ELSE ipAttempts' = [ipAttempts EXCEPT ![attempt[t].address] =
                                            Append(IpEntries(t), attempt[t].lag)]

\* "Count every login submission that reaches this stage".
RecordAttempt(t) ==
    ipAttempts' = [ipAttempts EXCEPT ![attempt[t].address] =
                                        Append(IpEntries(t), attempt[t].lag)]

\* begin_attempt: refused for the address, refused for the account, or admitted.
BeginAttempt(t) ==
    /\ attempt[t].pc = "arriving"
    /\ \/ /\ ~attempt[t].private /\ IpBlocked(t)
          /\ ipAttempts' = [ipAttempts EXCEPT ![attempt[t].address] = IpEntries(t)]
          /\ attempt' = [attempt EXCEPT ![t] = NoAttempt]
          /\ UNCHANGED <<accountFailures, tested>>
       \/ /\ ~attempt[t].private /\ ~IpBlocked(t)
          /\ RecordAttempt(t)
          /\ tested' = [tested EXCEPT ![attempt[t].address] =
                           Append(@, [thread |-> t, age |-> 0, lag |-> attempt[t].lag])]
          /\ attempt' = [attempt EXCEPT ![t] = IF AccountBlocked(t) THEN NoAttempt
                                               ELSE [@ EXCEPT !.pc = "verifying", !.lag = 0]]
          /\ accountFailures' = [accountFailures EXCEPT ![attempt[t].account] = AccountEntries(t)]
       \/ /\ attempt[t].private
          /\ attempt' = [attempt EXCEPT ![t].pc = "verifying", ![t].lag = 0]
          /\ UNCHANGED <<ipAttempts, accountFailures, tested>>
    /\ UNCHANGED <<built, guessed, unseen>>

\* authenticate raises AuthenticationError; record_failure reads the clock.
Fail(t) ==
    /\ attempt[t].pc = "verifying"
    /\ attempt' = [attempt EXCEPT ![t].pc = "failing"]
    /\ UNCHANGED <<ipAttempts, accountFailures, built, tested, guessed, unseen>>

\* record_failure; with an instance of its own it records nothing here.
RecordFailure(t) ==
    /\ attempt[t].pc = "failing"
    /\ IF attempt[t].private THEN UNCHANGED <<accountFailures, guessed>>
       ELSE /\ accountFailures' = [accountFailures EXCEPT ![attempt[t].account] =
                                      Append(AccountEntries(t), attempt[t].lag)]
            /\ guessed' = [guessed EXCEPT ![attempt[t].account] = Append(@, attempt[t].lag)]
    /\ attempt' = [attempt EXCEPT ![t] = NoAttempt]
    /\ UNCHANGED <<ipAttempts, built, tested, unseen>>

\* record_success; with an instance of its own it clears nothing.
RecordSuccess(t) ==
    /\ attempt[t].pc = "verifying"
    /\ IF attempt[t].private THEN UNCHANGED <<accountFailures, guessed>>
       ELSE /\ accountFailures' = [accountFailures EXCEPT ![attempt[t].account] = <<>>]
            /\ guessed' = [guessed EXCEPT ![attempt[t].account] = <<>>]
    /\ attempt' = [attempt EXCEPT ![t] = NoAttempt]
    /\ UNCHANGED <<ipAttempts, built, tested, unseen>>

\* authenticate raises anything else (no database): nothing is recorded.
Abandon(t) ==
    /\ attempt[t].pc = "verifying"
    /\ attempt' = [attempt EXCEPT ![t] = NoAttempt]
    /\ UNCHANGED <<ipAttempts, accountFailures, built, tested, guessed, unseen>>

\* A reading of the clock gets older while its thread waits for the lock.
LoginTick ==
    /\ \A t \in Threads : attempt[t].pc \in {"arriving", "failing"} => attempt[t].lag < MaxLag
    /\ ipAttempts' = Aged(ipAttempts, IpWindow)
    /\ accountFailures' = Aged(accountFailures, AccountWindow)
    /\ attempt' = [t \in Threads |->
                     IF attempt[t].pc \in {"arriving", "failing"}
                     THEN [attempt[t] EXCEPT !.lag = @ + 1] ELSE attempt[t]]
    /\ tested' = [a \in Addresses |-> OlderTests(tested[a])]
    /\ guessed' = [u \in Accounts |->
                     Pruned(Older(guessed[u], AccountWindow), AccountWindow, 0)]
    /\ UNCHANGED <<built, unseen>>

LoginStep(t) ==
    \/ BuildThrottle(t) \/ EndBuilding(t) \/ Arrive(t) \/ BeginAttempt(t)
    \/ Fail(t) \/ RecordFailure(t) \/ RecordSuccess(t) \/ Abandon(t)

-----------------------------------------------------------------------------
\* Properties.

\* The attempts on an account that the throttle has admitted and not heard of again.
Pending(u) ==
    {t \in Threads : /\ attempt[t].pc \in {"verifying", "failing"}
                     /\ ~attempt[t].private /\ attempt[t].account = u}

\* However the threads interleave, the wrong passwords tried on an account within a
\* window, recorded or about to be, exceed the limit by at most the attempts that were
\* being verified when it was reached (begin_attempt, record_failure).
GuessesAreLimited ==
    \A u \in Accounts :
        Cardinality({i \in DOMAIN guessed[u] : guessed[u][i] < AccountWindow})
        + Cardinality({t \in Pending(u) : /\ attempt[t].pc = "failing"
                                          /\ attempt[t].lag < AccountWindow})
          <= AccountMaxFailures - 1 + Cardinality(Threads)

\* Every submission costs its address an attempt, also one the account refuses: within
\* a window an address has its limit, and at most one more from each thread whose
\* reading of the clock was older than the window.  The throttles built twice let
\* through less than one attempt per thread in the life of the process.
AttemptsAreLimited ==
    /\ LoginTypeOK
    /\ unseen < Cardinality(Threads)
    /\ \A a \in Addresses : Len(tested[a]) <= IpMaxAttempts + Cardinality(Threads)
=============================================================================
