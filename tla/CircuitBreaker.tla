---------------------------- MODULE CircuitBreaker ----------------------------
(***************************************************************************)
(* The backend's process-local circuit breaker                             *)
(* (backend/app/core/circuit_breaker.py) and the operations of             *)
(* HttpIncidentGateway._request that run under it: worker threads acquire  *)
(* a permit, send up to MaxAttempts requests to the incident service and   *)
(* report one result.  Every method of the breaker holds its lock, so each *)
(* is one step; the threads interleave between them.                       *)
(*                                                                         *)
(* generation is an integer that only grows and is only compared for       *)
(* equality with the generations of permits: any value that no permit in   *)
(* flight carries stands for "the next one", which keeps the model finite  *)
(* without a bound on the number of outages.                               *)
(*                                                                         *)
(* An operation that the breaker rejects changes nothing and is no step.   *)
(***************************************************************************)
EXTENDS Naturals

CONSTANTS
    Calls,            \* worker threads of the backend
    Generations,      \* values of _generation
    Threshold,        \* failure_threshold
    RecoveryTicks,    \* recovery_seconds, in ticks
    ReadMaxAttempts   \* read_max_attempts

ASSUME ThresholdAssumption == Threshold \in Nat \ {0}
ASSUME RecoveryAssumption == RecoveryTicks \in Nat \ {0}
ASSUME AttemptsAssumption == ReadMaxAttempts \in Nat \ {0}

VARIABLES
    state,       \* _state
    failures,    \* _consecutive_failures
    openAge,     \* ticks since _opened_at, saturating at RecoveryTicks
    generation,  \* _generation
    call,        \* call[c]: the operation of thread c
    up,          \* environment: does the incident service answer properly?
    late,        \* history: operations in flight across an opening or closing
    lost         \* history: a probe has ended without reporting

breaker == <<state, failures, openAge, generation>>
vars == <<breaker, call, up, late, lost>>

States == {"CLOSED", "OPEN", "HALF_OPEN"}

\* active: holds a permit and has not reported; probe: is_half_open_probe;
\* write: the method is not a retryable read; attempt: attempt_number.
CallType == [active : BOOLEAN, gen : Generations, probe : BOOLEAN,
             write : BOOLEAN, attempt : 1..ReadMaxAttempts]

TypeOK ==
    /\ state \in States
    /\ failures \in 0..Threshold
    /\ openAge \in 0..RecoveryTicks
    /\ generation \in Generations
    /\ call \in [Calls -> CallType]
    /\ up \in BOOLEAN
    /\ late \in SUBSET Calls
    /\ lost \in BOOLEAN

\* A thread without an operation; its other fields mean nothing and are reset.
Finished(g) == [active |-> FALSE, gen |-> g, probe |-> FALSE,
                write |-> FALSE, attempt |-> 1]

Init ==
    /\ state = "CLOSED"
    /\ failures = 0
    /\ openAge = 0
    /\ generation \in Generations
    /\ call = [c \in Calls |-> Finished(generation)]
    /\ up = TRUE
    /\ late = {}
    /\ lost = FALSE

-----------------------------------------------------------------------------
\* Helpers.

Active == {c \in Calls : call[c].active}

FreshGenerations ==
    {g \in Generations : g # generation /\ \A c \in Calls : call[c].gen # g}

\* Reads are retried, writes and half-open probes are sent once.
MaxAttempts(c) ==
    IF call[c].write \/ call[c].probe THEN 1 ELSE ReadMaxAttempts

\* Definitions named Faulty... are variants with one plausible mistake.  Nothing
\* uses them; each is substituted for the definition it precedes to see that a
\* property notices.

\* Permits do not go out of date.
FaultySupersede(c) ==
    /\ UNCHANGED generation
    /\ late' = Active \ {c}

\* generation += 1: every other operation in flight is out of date from here.
Supersede(c) ==
    /\ generation' \in FreshGenerations
    /\ late' = Active \ {c}

\* _open_locked.
Open(c) ==
    /\ state' = "OPEN"
    /\ openAge' = 0
    /\ failures' = Threshold
    /\ Supersede(c)

\* The operation ends without touching the breaker.
Unnoticed(c) == UNCHANGED breaker /\ late' = late \ {c}

\* record_success.
RecordSuccess(c) ==
    \/ /\ call[c].gen = generation /\ call[c].probe /\ state = "HALF_OPEN"
       /\ state' = "CLOSED" /\ failures' = 0 /\ openAge' = 0
       /\ Supersede(c)
    \/ /\ call[c].gen = generation /\ ~call[c].probe /\ state = "CLOSED"
       /\ failures' = 0
       /\ late' = late \ {c}
       /\ UNCHANGED <<state, openAge, generation>>
    \/ /\ \/ call[c].gen # generation
          \/ call[c].probe # (state = "HALF_OPEN")
          \/ state = "OPEN"
       /\ Unnoticed(c)

\* A failure reopens the circuit whatever its permit.
FaultyRecordFailure(c) ==
    IF state = "CLOSED" /\ failures + 1 < Threshold
    THEN /\ failures' = failures + 1
         /\ late' = late \ {c}
         /\ UNCHANGED <<state, openAge, generation>>
    ELSE Open(c)

\* record_failure.
RecordFailure(c) ==
    \/ /\ call[c].gen = generation /\ call[c].probe /\ state = "HALF_OPEN"
       /\ Open(c)
    \/ /\ call[c].gen = generation /\ ~call[c].probe /\ state = "CLOSED"
       /\ failures + 1 >= Threshold
       /\ Open(c)
    \/ /\ call[c].gen = generation /\ ~call[c].probe /\ state = "CLOSED"
       /\ failures + 1 < Threshold
       /\ failures' = failures + 1
       /\ late' = late \ {c}
       /\ UNCHANGED <<state, openAge, generation>>
    \/ /\ \/ call[c].gen # generation
          \/ call[c].probe # (state = "HALF_OPEN")
          \/ state = "OPEN"
       /\ Unnoticed(c)

Begin(c, write, probe) ==
    call' = [call EXCEPT ![c] =
               [active |-> TRUE, gen |-> generation, probe |-> probe,
                write |-> write, attempt |-> 1]]

End(c) == call' = [call EXCEPT ![c] = Finished(generation')]

-----------------------------------------------------------------------------
\* acquire_permission in the closed state.
AcquireClosed(c, write) ==
    /\ ~call[c].active
    /\ state = "CLOSED"
    /\ Begin(c, write, FALSE)
    /\ UNCHANGED <<breaker, up, late, lost>>

\* Every caller that finds the interval elapsed is admitted.
FaultyAcquireProbe(c, write) ==
    /\ ~call[c].active
    /\ state \in {"OPEN", "HALF_OPEN"} /\ openAge = RecoveryTicks
    /\ state' = "HALF_OPEN"
    /\ Begin(c, write, TRUE)
    /\ UNCHANGED <<failures, openAge, generation, up, late, lost>>

\* The probe's permit carries the generation before the transition's increment.
FaultyAcquireProbeGeneration(c, write) ==
    /\ ~call[c].active
    /\ state = "OPEN" /\ openAge = RecoveryTicks
    /\ state' = "HALF_OPEN"
    /\ generation' \in FreshGenerations
    /\ Begin(c, write, TRUE)
    /\ UNCHANGED <<failures, openAge, up, late, lost>>

\* acquire_permission in the open state, the recovery interval having elapsed.
AcquireProbe(c, write) ==
    /\ ~call[c].active
    /\ state = "OPEN" /\ openAge = RecoveryTicks
    /\ state' = "HALF_OPEN"
    /\ Begin(c, write, TRUE)
    /\ UNCHANGED <<failures, openAge, generation, up, late, lost>>

\* A timeout, a transport error or a 502, 503 or 504 with an attempt left: the
\* thread sleeps and sends the request again under the same permit.
Retry(c) ==
    /\ call[c].active /\ ~up
    /\ call[c].attempt < MaxAttempts(c)
    /\ call' = [call EXCEPT ![c].attempt = @ + 1]
    /\ UNCHANGED <<breaker, up, late, lost>>

\* A response below 500.
Succeed(c) ==
    /\ call[c].active
    /\ RecordSuccess(c)
    /\ End(c)
    /\ UNCHANGED <<up, lost>>

\* A timeout, a transport error or a retryable status in the last attempt, any
\* other status from 500, or a ServiceIdentityError in any attempt.
Fail(c) ==
    /\ call[c].active /\ ~up
    /\ RecordFailure(c)
    /\ End(c)
    /\ UNCHANGED <<up, lost>>

\* Any other exception ("unexpected_error"): no result is recorded.
FailUnexpectedly(c) ==
    /\ call[c].active
    /\ Unnoticed(c)
    /\ End(c)
    /\ lost' = (lost \/ call[c].probe)
    /\ UNCHANGED up

Tick ==
    /\ state = "OPEN" /\ openAge < RecoveryTicks
    /\ openAge' = openAge + 1
    /\ UNCHANGED <<state, failures, generation, call, up, late, lost>>

\* The incident service, the network or the identity provider breaks or heals.
Turn ==
    /\ up' = ~up
    /\ UNCHANGED <<breaker, call, late, lost>>

Next ==
    \/ \E c \in Calls, write \in BOOLEAN :
         AcquireClosed(c, write) \/ AcquireProbe(c, write)
    \/ \E c \in Calls :
         Retry(c) \/ Succeed(c) \/ Fail(c) \/ FailUnexpectedly(c)
    \/ Tick
    \/ Turn

Safety == Init /\ [][Next]_vars

\* Requests keep arriving, every operation ends (the client has a timeout) and
\* time passes.
Spec ==
    /\ Safety
    /\ WF_vars(\E c \in Calls, write \in BOOLEAN : AcquireProbe(c, write))
    /\ \A c \in Calls : WF_vars(Succeed(c) \/ Fail(c))
    /\ WF_vars(Tick)

-----------------------------------------------------------------------------
\* Properties.

\* "Exactly one caller" becomes the probe (acquire_permission), and it is the
\* one whose result the breaker will take.
SingleProbe ==
    \A c \in Calls :
      call[c].active /\ call[c].probe =>
        /\ state = "HALF_OPEN" /\ call[c].gen = generation
        /\ \A d \in Calls : call[d].active /\ call[d].probe => d = c

\* Fewer than Threshold consecutive failures keep the circuit closed, and the
\* count stays at the threshold for as long as it is not.
CountMatchesState ==
    IF state = "CLOSED" THEN failures < Threshold ELSE failures = Threshold

\* "A successful probe closes the circuit. A failed probe reopens the circuit"
\* (README, resilience model): while the circuit is half-open somebody is on
\* the way to decide.
HalfOpenHasItsProbe ==
    state = "HALF_OPEN" => \E c \in Calls : call[c].active /\ call[c].probe

\* What the code does guarantee: only an error that _request does not expect
\* leaves the circuit half-open with nobody to decide.
HalfOpenUnlessLost == lost \/ HalfOpenHasItsProbe

\* An outage lasts until its recovery interval has elapsed and a probe goes
\* out: results of operations begun before it neither end nor prolong it.
OutageRunsItsCourse ==
    [][state = "OPEN" =>
         \/ state' = "OPEN" /\ openAge' >= openAge
         \/ state' = "HALF_OPEN" /\ openAge = RecoveryTicks]_vars

\* An operation that was in flight when the circuit opened or closed has no
\* say any more, even if the circuit is closed again when it ends.
LateResultsAreIgnored ==
    [][\A c \in late :
         call[c].active /\ ~call'[c].active => UNCHANGED breaker]_vars

\* Once the incident service is up for good, the circuit closes for good, unless
\* an unexpected error has cost it a probe.
RecoversWithTheService ==
    (<>[]up) /\ []~lost => <>[](state = "CLOSED")
=============================================================================
