----------------------------- MODULE GatewayProofs -----------------------------
(***************************************************************************)
(* Proofs about the two mechanisms under every call of a gateway: the      *)
(* circuit breaker, for any number of threads, any threshold and any       *)
(* recovery interval; and the tokens of the services, for any number of    *)
(* operations and keys, any lifetimes, timeouts and clocks that satisfy    *)
(* the assumptions of ServiceTokens.                                       *)
(*                                                                         *)
(* The breaker: the argument is about permits.  A permit of the current    *)
(* generation that is a probe's exists exactly while the circuit is        *)
(* half-open, and a permit that was in flight across an opening or a       *)
(* closing is never of the current generation (LateIsOutdated).            *)
(*                                                                         *)
(* The tokens: a credential is as old as its attempt, up to the offset of  *)
(* the clocks (InTime), and an operation is over before the operators      *)
(* remove the key that it was begun with, because its attempts and sleeps  *)
(* add up to less than their wait (Spent, KeyIsKnown).                     *)
(***************************************************************************)
EXTENDS CircuitBreaker, ServiceTokens, TLAPS, FiniteSetTheorems

\* The circuit breaker.

LateIsOutdated ==
    \A c \in late : call[c].active /\ call[c].gen # generation

IInv ==
    /\ TypeOK
    /\ SingleProbe
    /\ CountMatchesState
    /\ HalfOpenUnlessLost
    /\ LateIsOutdated

-----------------------------------------------------------------------------
\* Every variable keeps its type.
LEMMA TypeInvariant == ASSUME TypeOK, [Next]_vars PROVE TypeOK'
<1> USE ThresholdAssumption, RecoveryAssumption, AttemptsAssumption
<1> USE DEF TypeOK, CallType, States
<1>1. ASSUME NEW c \in Calls, NEW write \in BOOLEAN, AcquireClosed(c, write)
      PROVE  TypeOK'
  BY <1>1 DEF AcquireClosed, Begin, breaker
<1>2. ASSUME NEW c \in Calls, NEW write \in BOOLEAN, AcquireProbe(c, write)
      PROVE  TypeOK'
  BY <1>2 DEF AcquireProbe, Begin
<1>3. ASSUME NEW c \in Calls, Retry(c) PROVE TypeOK'
  BY <1>3 DEF Retry, MaxAttempts, breaker
<1>4. ASSUME NEW c \in Calls, End(c), UNCHANGED up, lost' \in BOOLEAN,
             RecordSuccess(c) \/ RecordFailure(c) \/ Unnoticed(c)
      PROVE  TypeOK'
  <2>1. /\ state' \in States /\ failures' \in 0..Threshold
        /\ openAge' \in 0..RecoveryTicks /\ generation' \in Generations
        /\ late' \in SUBSET Calls
    BY <1>4
    DEF RecordSuccess, RecordFailure, Unnoticed, Open, Supersede, Active,
        FreshGenerations, breaker
  <2>2. call' \in [Calls -> CallType]
    BY <1>4, <2>1 DEF End, Finished
  <2> QED
    BY <1>4, <2>1, <2>2
<1>5. CASE Tick
  BY <1>5 DEF Tick
<1>6. CASE Turn
  BY <1>6 DEF Turn, breaker
<1>7. CASE UNCHANGED vars
  BY <1>7 DEF vars, breaker
<1> QED
  BY <1>1, <1>2, <1>3, <1>4, <1>5, <1>6, <1>7
  DEF Next, Succeed, Fail, FailUnexpectedly

\* The three things the end of an operation can do to the breaker.

\* A result of the current generation switches the circuit.
Switches(c) ==
    /\ call[c].probe <=> state = "HALF_OPEN"
    /\ state # "OPEN"
    /\ \/ state' = "CLOSED" /\ failures' = 0
       \/ state' = "OPEN" /\ failures' = Threshold
    /\ Supersede(c)

\* A result of the current generation is counted in the closed state.
Counts(c) ==
    /\ call[c].gen = generation /\ ~call[c].probe /\ state = "CLOSED"
    /\ failures' \in {0, failures + 1} /\ failures' < Threshold
    /\ late' = late \ {c}
    /\ UNCHANGED <<state, openAge, generation>>

\* A result that is out of date, or an error that is not reported.
Passes(c) ==
    /\ \/ call[c].gen # generation
       \/ call[c].probe # (state = "HALF_OPEN")
       \/ state = "OPEN"
       \/ call[c].probe => lost'
    /\ Unnoticed(c)

LEMMA EndCases ==
  ASSUME TypeOK, NEW c \in Calls,
         \/ RecordSuccess(c) \/ RecordFailure(c)
         \/ (call[c].probe => lost') /\ Unnoticed(c)
  PROVE  Switches(c) \/ Counts(c) \/ Passes(c)
<1>1. CASE RecordSuccess(c)
  BY <1>1, ThresholdAssumption
  DEF RecordSuccess, Switches, Counts, Passes, TypeOK, CallType
<1>2. CASE RecordFailure(c)
  BY <1>2, ThresholdAssumption
  DEF RecordFailure, Open, Switches, Counts, Passes, TypeOK, CallType
<1>3. CASE (call[c].probe => lost') /\ Unnoticed(c)
  BY <1>3 DEF Passes
<1> QED
  BY <1>1, <1>2, <1>3

\* The end of an operation preserves the invariant.
LEMMA EndPreserves ==
  ASSUME IInv, TypeOK', NEW c \in Calls, call[c].active, End(c), lost => lost',
         Switches(c) \/ Counts(c) \/ Passes(c)
  PROVE  IInv'
<1> USE DEF IInv, TypeOK, CallType, States
<1>1. /\ \A d \in Calls : d # c => call'[d] = call[d]
      /\ ~call'[c].active /\ ~call'[c].probe
  BY DEF End, Finished
<1>2. CASE Switches(c)
  <2>1. \A d \in Calls : ~(call'[d].active /\ call'[d].probe)
    BY <1>1, <1>2 DEF Switches, SingleProbe
  <2>2. LateIsOutdated'
    BY <1>1, <1>2 DEF Switches, Supersede, Active, FreshGenerations, LateIsOutdated
  <2>3. SingleProbe' /\ HalfOpenUnlessLost'
    BY <1>2, <2>1 DEF Switches, SingleProbe, HalfOpenUnlessLost, HalfOpenHasItsProbe
  <2>4. CountMatchesState'
    BY <1>2, ThresholdAssumption DEF Switches, CountMatchesState
  <2> QED
    BY <2>2, <2>3, <2>4
<1>3. CASE Counts(c)
  BY <1>1, <1>3
  DEF Counts, SingleProbe, CountMatchesState, HalfOpenUnlessLost,
      HalfOpenHasItsProbe, LateIsOutdated
<1>4. CASE Passes(c)
  <2>1. call[c].probe => lost'
    BY <1>4 DEF Passes, SingleProbe
  <2>2. SingleProbe' /\ CountMatchesState' /\ LateIsOutdated'
    BY <1>1, <1>4
    DEF Passes, Unnoticed, breaker, SingleProbe, CountMatchesState, LateIsOutdated
  <2>3. HalfOpenUnlessLost'
    BY <1>1, <1>4, <2>1
    DEF Passes, Unnoticed, breaker, HalfOpenUnlessLost, HalfOpenHasItsProbe
  <2> QED
    BY <2>2, <2>3
<1> QED
  BY <1>2, <1>3, <1>4

\* Every step preserves the invariant.
LEMMA Inductive == ASSUME IInv, [Next]_vars PROVE IInv'
<1>1. TypeOK'
  BY TypeInvariant DEF IInv
<1> USE DEF IInv, TypeOK, CallType, States
<1>2. ASSUME NEW c \in Calls, NEW write \in BOOLEAN, AcquireClosed(c, write)
      PROVE  IInv'
  BY <1>1, <1>2
  DEF AcquireClosed, Begin, breaker, SingleProbe, CountMatchesState,
      HalfOpenUnlessLost, HalfOpenHasItsProbe, LateIsOutdated
<1>3. ASSUME NEW c \in Calls, NEW write \in BOOLEAN, AcquireProbe(c, write)
      PROVE  IInv'
  <2>1. call'[c].active /\ call'[c].probe /\ call'[c].gen = generation
    BY <1>3 DEF AcquireProbe, Begin
  <2>2. \A d \in Calls : d # c => call'[d] = call[d]
    BY <1>3 DEF AcquireProbe, Begin
  <2>3. \A d \in Calls : ~(call[d].active /\ call[d].probe)
    BY <1>3 DEF AcquireProbe, SingleProbe
  <2> QED
    BY <1>1, <1>3, <2>1, <2>2, <2>3
    DEF AcquireProbe, SingleProbe, CountMatchesState, HalfOpenUnlessLost,
        HalfOpenHasItsProbe, LateIsOutdated
<1>4. ASSUME NEW c \in Calls, Retry(c) PROVE IInv'
  <2>1. \A d \in Calls : /\ call'[d].active = call[d].active
                         /\ call'[d].probe = call[d].probe
                         /\ call'[d].gen = call[d].gen
    BY <1>4 DEF Retry
  <2> QED
    BY <1>1, <1>4, <2>1
    DEF Retry, breaker, SingleProbe, CountMatchesState, HalfOpenUnlessLost,
        HalfOpenHasItsProbe, LateIsOutdated
<1>5. ASSUME NEW c \in Calls, Succeed(c) \/ Fail(c) \/ FailUnexpectedly(c)
      PROVE  IInv'
  BY <1>1, <1>5, EndCases, EndPreserves DEF Succeed, Fail, FailUnexpectedly
<1>6. CASE Tick
  BY <1>1, <1>6
  DEF Tick, SingleProbe, CountMatchesState, HalfOpenUnlessLost,
      HalfOpenHasItsProbe, LateIsOutdated
<1>7. CASE Turn \/ UNCHANGED vars
  BY <1>1, <1>7
  DEF Turn, vars, breaker, SingleProbe, CountMatchesState, HalfOpenUnlessLost,
      HalfOpenHasItsProbe, LateIsOutdated
<1> QED
  BY <1>2, <1>3, <1>4, <1>5, <1>6, <1>7 DEF Next

\* The inductive invariant holds in every reachable state.
THEOREM Invariance == Safety => []IInv
<1>1. Init => IInv
  <2>1. Init => TypeOK
    <3>1. Init => call \in [Calls -> CallType]
      BY AttemptsAssumption DEF Init, Finished, CallType
    <3>2. Init => up \in BOOLEAN /\ lost \in BOOLEAN
      BY Zenon DEF Init
    <3>3. Init => /\ state \in States /\ failures \in 0..Threshold
                  /\ openAge \in 0..RecoveryTicks /\ generation \in Generations
                  /\ late \in SUBSET Calls
      BY ThresholdAssumption, RecoveryAssumption DEF Init, States
    <3> QED
      BY <3>1, <3>2, <3>3 DEF TypeOK
  <2>2. Init => SingleProbe /\ CountMatchesState /\ LateIsOutdated
    BY ThresholdAssumption
    DEF Init, Finished, SingleProbe, CountMatchesState, LateIsOutdated
  <2>3. Init => HalfOpenUnlessLost
    BY DEF Init, HalfOpenUnlessLost, HalfOpenHasItsProbe
  <2> QED
    BY <2>1, <2>2, <2>3 DEF IInv
<1> QED
  BY <1>1, Inductive, PTL DEF Safety

-----------------------------------------------------------------------------
\* acquire_permission, record_success and record_failure keep their state and
\* the permits well typed; the failure count never passes the threshold.
THEOREM TypeCorrect == Safety => []TypeOK
<1>1. IInv => TypeOK
  BY DEF IInv
<1> QED
  BY <1>1, Invariance, PTL

\* However many threads find the recovery interval elapsed, one becomes the
\* probe, and its permit is the one the breaker will accept.
THEOREM OneProbe == Safety => []SingleProbe
<1>1. IInv => SingleProbe
  BY DEF IInv
<1> QED
  BY <1>1, Invariance, PTL

\* The circuit is closed exactly while the count is below the threshold.
THEOREM CountIsRight == Safety => []CountMatchesState
<1>1. IInv => CountMatchesState
  BY DEF IInv
<1> QED
  BY <1>1, Invariance, PTL

\* Unless an unexpected error has swallowed a probe's result, a half-open circuit
\* has a probe under way: it cannot be stuck between open and closed.
THEOREM ProbeDecides == Safety => []HalfOpenUnlessLost
<1>1. IInv => HalfOpenUnlessLost
  BY DEF IInv
<1> QED
  BY <1>1, Invariance, PTL

\* In the open state no result has any effect.
LEMMA OpenStep ==
  ASSUME IInv, [Next]_vars, state = "OPEN"
  PROVE  \/ state' = "OPEN" /\ openAge' >= openAge
         \/ state' = "HALF_OPEN" /\ openAge = RecoveryTicks
<1> USE DEF IInv, TypeOK
<1>1. ASSUME NEW c \in Calls, Succeed(c) \/ Fail(c) \/ FailUnexpectedly(c)
      PROVE  UNCHANGED <<state, openAge>>
  BY <1>1
  DEF Succeed, Fail, FailUnexpectedly, RecordSuccess, RecordFailure,
      SingleProbe, Unnoticed, breaker
<1>2. ASSUME NEW c \in Calls, NEW write \in BOOLEAN,
             AcquireClosed(c, write) \/ AcquireProbe(c, write)
      PROVE  state' = "HALF_OPEN" /\ openAge = RecoveryTicks
  BY <1>2 DEF AcquireClosed, AcquireProbe
<1>3. CASE Tick
  BY <1>3, RecoveryAssumption DEF Tick
<1>4. CASE UNCHANGED <<state, openAge>>
  BY <1>4, RecoveryAssumption
<1> QED
  BY <1>1, <1>2, <1>3, <1>4 DEF Next, Retry, Turn, vars, breaker

\* Late results neither end an outage nor prolong it.
THEOREM OutagesRunTheirCourse == Safety => OutageRunsItsCourse
<1>1. IInv /\ [Next]_vars =>
        [state = "OPEN" =>
           \/ state' = "OPEN" /\ openAge' >= openAge
           \/ state' = "HALF_OPEN" /\ openAge = RecoveryTicks]_vars
  BY OpenStep
<1> QED
  BY <1>1, Invariance, PTL DEF Safety, OutageRunsItsCourse

\* The generation of a late operation's permit never comes back.
LEMMA LateStep ==
  ASSUME IInv, [Next]_vars, NEW c \in late, call[c].active, ~call'[c].active
  PROVE  UNCHANGED breaker
<1>1. c \in Calls /\ call[c].gen # generation
  BY DEF IInv, TypeOK, LateIsOutdated
<1>2. ASSUME NEW d \in Calls, End(d), d # c PROVE call'[c] = call[c]
  BY <1>1, <1>2 DEF End, IInv, TypeOK
<1>3. ASSUME NEW d \in Calls, Succeed(d) \/ Fail(d) \/ FailUnexpectedly(d)
      PROVE  UNCHANGED breaker
  <2>1. d = c
    BY <1>2, <1>3 DEF Succeed, Fail, FailUnexpectedly
  <2> QED
    BY <1>1, <1>3, <2>1
    DEF Succeed, Fail, FailUnexpectedly, RecordSuccess, RecordFailure, Unnoticed
<1>4. ASSUME NEW d \in Calls, NEW write \in BOOLEAN,
             AcquireClosed(d, write) \/ AcquireProbe(d, write)
      PROVE  FALSE
  <2>1. d # c
    BY <1>4 DEF AcquireClosed, AcquireProbe
  <2> QED
    BY <1>1, <1>4, <2>1 DEF AcquireClosed, AcquireProbe, Begin, IInv, TypeOK
<1>5. ASSUME NEW d \in Calls, Retry(d) PROVE FALSE
  BY <1>1, <1>5 DEF Retry, IInv, TypeOK, CallType
<1> QED
  BY <1>3, <1>4, <1>5 DEF Next, Tick, Turn, vars

\* An operation that was in flight when the circuit opened or closed has no
\* effect when it ends.
THEOREM LateResultsIgnored == Safety => LateResultsAreIgnored
<1>1. IInv /\ [Next]_vars =>
        [\A c \in late :
           call[c].active /\ ~call'[c].active => UNCHANGED breaker]_vars
  BY LateStep
<1> QED
  BY <1>1, Invariance, PTL DEF Safety, LateResultsAreIgnored

-----------------------------------------------------------------------------
\* The tokens of the services.

OperationType ==
    [pc : {"idle", "sent", "backoff", "refused"}, route : Scopes, token : Token,
     attempt : 1 .. ReadAttempts, waited : 0 .. Timeout + Backoff]

StragglerType == [route : Scopes, token : Token, waited : 0 .. Longest]

\* The types, with the sizes of the two sets told by their members.
Typed ==
    /\ direction \in {"core_to_incident", "incident_to_core"}
    /\ signing \in Keys
    /\ \E k, l \in Keys : accepted = {k, l}
    /\ stage \in {"settled", "added", "switched"}
    /\ overlap \in 0 .. MaxTtl + 1
    /\ operation \in [Operations -> OperationType]
    /\ stragglers \subseteq StragglerType
    /\ \A s, t \in stragglers : s = t

\* A token is as old as its attempt, up to what the clocks differ by and what iat cuts off.
InTime(p) ==
    /\ p.pc = "sent" =>
         /\ p.waited <= Timeout
         /\ p.waited - MaxOffset <= p.token.age /\ p.token.age <= p.waited + MaxOffset + 1
         /\ p.token.scope = p.route
    /\ p.pc = "backoff" => p.waited <= Backoff /\ p.attempt < ReadAttempts
    /\ p.pc \in {"sent", "backoff"} => p.route \in Routes

\* The longest that an operation can have been under way.
Spent(p) ==
    (p.attempt - 1) * (Timeout + Backoff)
        + (IF p.pc = "sent" THEN p.waited ELSE Timeout + p.waited)

\* The receiver knows the key of an operation under way; it is the one before the present
\* key only in an operation that began before the caller's change.
KeyIsKnown(p) ==
    p.pc \in {"sent", "backoff"} =>
        /\ p.token.key \in accepted
        /\ p.token.key # signing => stage = "switched" /\ overlap <= Spent(p)

\* Where the receiver has two keys.
KeysOverlap ==
    Overlapping =>
        /\ signing \in accepted
        /\ stage = "settled" => accepted = {signing}
        /\ stage # "switched" => overlap = 0
        /\ \A o \in Operations : KeyIsKnown(operation[o])

\* An attempt left behind still has a token as old as itself.
StragglersAge == \A s \in stragglers : s.waited - MaxOffset <= s.token.age

\* The backend has one key.
OneKeyAtCore == ~Overlapping => \A k, l \in accepted : k = l

ServiceInv ==
    /\ Typed
    /\ \A o \in Operations : InTime(operation[o])
    /\ KeysOverlap
    /\ OneKeyAtCore
    /\ StragglersAge

-----------------------------------------------------------------------------
\* What the operators compute.

LEMMA Numbers ==
  /\ Ttl \in Nat /\ MaxTtl \in Nat /\ ClockSkew \in Nat /\ MaxOffset \in Nat
  /\ MinTtl \in Nat /\ MinTtl <= Ttl
  /\ Timeout \in Nat /\ Backoff \in Nat /\ ReadAttempts \in Nat /\ ReadAttempts >= 1
  /\ MaxOffset <= ClockSkew /\ 0 < Timeout /\ Timeout < Ttl /\ Ttl <= MaxTtl
  /\ Longest \in Nat /\ Longest = MaxTtl + ClockSkew + MaxOffset + 1
BY LifetimeAssumption DEF Longest, ProviderLifetimes, VerifierSkews

LEMMA MinOfTwo ==
  ASSUME NEW a \in Int, NEW b \in Int
  PROVE  Min({a, b}) = IF a <= b THEN a ELSE b
<1> DEFINE m == IF a <= b THEN a ELSE b
<1>1. m \in {a, b} /\ \A y \in {a, b} : m <= y
  OBVIOUS
<1>2. \A x \in {a, b} : (\A y \in {a, b} : x <= y) => x = m
  OBVIOUS
<1> QED
  BY <1>1, <1>2 DEF Min

LEMMA GrownToken ==
  ASSUME NEW token \in Token
  PROVE  /\ Grown(token) \in Token
         /\ Grown(token).key = token.key /\ Grown(token).scope = token.scope
         /\ Grown(token).age = IF token.age + 1 <= Longest THEN token.age + 1 ELSE Longest
<1>1. token.age \in Int /\ -MaxOffset <= token.age /\ token.age <= Longest
  BY Numbers DEF Token
<1> DEFINE a == Min({token.age + 1, Longest})
<1>2. a = IF token.age + 1 <= Longest THEN token.age + 1 ELSE Longest
  BY <1>1, Numbers, MinOfTwo
<1>3. Grown(token) = [token EXCEPT !.age = a]
  BY DEF Grown
<1>4. a \in -MaxOffset .. Longest
  BY <1>1, <1>2, Numbers
<1> HIDE DEF a
<1> QED
  BY <1>2, <1>3, <1>4 DEF Token

LEMMA GrownWait ==
  ASSUME NEW waited \in 0 .. Longest
  PROVE  /\ Min({waited + 1, Longest}) \in 0 .. Longest
         /\ Min({waited + 1, Longest}) = IF waited + 1 <= Longest THEN waited + 1 ELSE Longest
BY Numbers, MinOfTwo

LEMMA SignedToken ==
  ASSUME NEW key \in Keys, NEW route \in Routes, NEW token \in Signed(key, route)
  PROVE  /\ token \in Token /\ token.key = key /\ token.scope = route
         /\ -MaxOffset <= token.age /\ token.age <= MaxOffset + 1
<1>1. token \in Credentials(key, route) /\ route \in Scopes
  BY DEF Signed, Routes, SignedByCore, SignedByIncidentService, IncidentScope, Method,
         IncidentRoutes, CoreRoutes, Scopes
<1>2. PICK offset \in -MaxOffset .. MaxOffset, cutOff \in {0, 1} :
        token = [key |-> key, scope |-> route, age |-> cutOff - offset]
  BY <1>1 DEF Credentials
<1>3. cutOff - offset \in -MaxOffset .. Longest /\ cutOff - offset <= MaxOffset + 1
  BY <1>2, Numbers
<1> QED
  BY <1>1, <1>2, <1>3, Numbers DEF Token

LEMMA AttemptsAreBounded ==
  ASSUME NEW o \in Operations PROVE AttemptsOf(o) <= ReadAttempts /\ AttemptsOf(o) \in Nat
BY Numbers DEF AttemptsOf

\* Attempts and sleeps add up to less than the wait of the operators.
LEMMA OperationsEnd ==
  ASSUME NEW p \in OperationType, p.pc \in {"sent", "backoff"}, InTime(p)
  PROVE  Spent(p) \in Nat /\ Spent(p) <= MaxTtl
<1> DEFINE d == Timeout + Backoff
<1>1. /\ p.attempt \in Nat /\ 1 <= p.attempt /\ p.attempt <= ReadAttempts
      /\ p.waited \in Nat /\ d \in Nat
  BY Numbers DEF OperationType
<1>2. ReadAttempts * d <= MaxTtl
  BY OverlapAssumption
<1>3. Spent(p) = (p.attempt - 1) * d + (IF p.pc = "sent" THEN p.waited ELSE Timeout + p.waited)
  BY DEF Spent
<1>4. (IF p.pc = "sent" THEN p.waited ELSE Timeout + p.waited) \in 0 .. d
  BY <1>1, Numbers DEF InTime
<1> HIDE DEF d
<1>5. \A n, a, e, w \in Nat :
        w <= e /\ 1 <= a /\ a <= n => (a - 1) * e + w \in Nat /\ (a - 1) * e + w <= n * e
  <2> TAKE n, a, e, w \in Nat
  <2> HAVE w <= e /\ 1 <= a /\ a <= n
  <2>1. (a - 1) * e + w <= a * e /\ (a - 1) * e \in Nat
    OBVIOUS
  <2>2. n - a \in Nat /\ (n - a) * e \in Nat /\ n * e = a * e + (n - a) * e
    OBVIOUS
  <2> QED
    BY <2>1, <2>2
<1> QED
  BY <1>1, <1>2, <1>3, <1>4, <1>5, Numbers

\* The sizes of the two sets.
LEMMA TypesAreTyped == Typed => ServiceTypeOK
<1> SUFFICES ASSUME Typed PROVE ServiceTypeOK
  OBVIOUS
<1>1. Cardinality(accepted) \in 1 .. 2
  <2>1. PICK k, l \in Keys : accepted = {k, l}
    BY DEF Typed
  <2>2. Cardinality({k}) = 1 /\ IsFiniteSet({k})
    BY FS_Singleton
  <2>3. accepted = {k} \cup {l}
    BY <2>1
  <2>4. Cardinality(accepted) = Cardinality({k}) \/ Cardinality(accepted) = Cardinality({k}) + 1
    BY <2>2, <2>3, FS_AddElement
  <2> QED
    BY <2>2, <2>4
<1>2. Cardinality(stragglers) <= 1
  <2>1. CASE stragglers = {}
    BY <2>1, FS_EmptySet
  <2>2. ASSUME NEW s \in stragglers PROVE Cardinality(stragglers) <= 1
    <3>1. stragglers = {s}
      BY DEF Typed
    <3> QED
      BY <3>1, FS_Singleton
  <2> QED
    BY <2>1, <2>2
<1> QED
  BY <1>1, <1>2 DEF Typed, ServiceTypeOK, VerifierKeys, OperationType, StragglerType

-----------------------------------------------------------------------------
\* The steps.

\* Operation o becomes r, and the receiver's keys stay.
LEMMA OneOperation ==
  ASSUME ServiceInv, NEW o \in Operations, NEW r \in OperationType,
         operation' = [operation EXCEPT ![o] = r],
         UNCHANGED <<direction, signing, accepted, stage, overlap>>,
         InTime(r), Overlapping => KeyIsKnown(r),
         stragglers' \subseteq StragglerType, \A s, t \in stragglers' : s = t, StragglersAge'
  PROVE  ServiceInv'
<1>1. Typed'
  BY DEF ServiceInv, Typed
<1>2. operation'[o] = r /\ \A q \in Operations \ {o} : operation'[q] = operation[q]
  BY DEF ServiceInv, Typed
<1>3. \A q \in Operations : InTime(operation'[q])
  BY <1>2 DEF ServiceInv
<1>4. \A q \in Operations : InTime(operation[q])'
  BY <1>3 DEF InTime, Routes, Overlapping
<1>5. KeysOverlap'
  BY <1>2 DEF ServiceInv, KeysOverlap, KeyIsKnown, Overlapping, Spent
<1>6. OneKeyAtCore'
  BY DEF ServiceInv, OneKeyAtCore, Overlapping
<1> QED
  BY <1>1, <1>4, <1>5, <1>6 DEF ServiceInv

LEMMA IdleIsTyped ==
  ASSUME ServiceInv
  PROVE  Idle \in OperationType /\ Idle.pc = "idle" /\ Idle.attempt = 1 /\ Idle.waited = 0
<1>1. (CHOOSE k \in Keys : TRUE) \in Keys
  BY DEF ServiceInv, Typed
<1>2. 0 \in -MaxOffset .. Longest /\ 1 \in 1 .. ReadAttempts /\ 0 \in 0 .. Timeout + Backoff
  BY Numbers
<1> QED
  BY <1>1, <1>2 DEF Idle, OperationType, Scopes, Token

LEMMA Fields ==
  ASSUME ServiceInv, NEW o \in Operations
  PROVE  /\ operation[o] \in OperationType /\ operation[o].token \in Token
         /\ operation[o].route \in Scopes /\ operation[o].token.key \in Keys
         /\ operation[o].attempt \in 1 .. ReadAttempts
         /\ operation[o].waited \in 0 .. Timeout + Backoff
         /\ InTime(operation[o])
         /\ Overlapping => KeyIsKnown(operation[o])
         /\ stragglers \subseteq StragglerType /\ (\A s, t \in stragglers : s = t)
         /\ StragglersAge
BY DEF ServiceInv, Typed, KeysOverlap, OperationType, Token

LEMMA StartStep == ASSUME ServiceInv, NEW o \in Operations, Start(o) PROVE ServiceInv'
<1>1. PICK route \in Routes : \E token \in Signed(signing, route) :
        operation' = [operation EXCEPT ![o] = [Idle EXCEPT !.pc = "sent", !.route = route,
                                                           !.token = token]]
  BY DEF Start
<1>2. PICK token \in Signed(signing, route) :
        operation' = [operation EXCEPT ![o] = [Idle EXCEPT !.pc = "sent", !.route = route,
                                                           !.token = token]]
  BY <1>1
<1> DEFINE r == [Idle EXCEPT !.pc = "sent", !.route = route, !.token = token]
<1>3. signing \in Keys
  BY DEF ServiceInv, Typed
<1>4. /\ token \in Token /\ token.key = signing /\ token.scope = route
      /\ -MaxOffset <= token.age /\ token.age <= MaxOffset + 1
  BY <1>3, SignedToken
<1>5. route \in Scopes
  BY DEF Routes, IncidentRoutes, CoreRoutes, Scopes
<1>6. /\ r \in OperationType /\ r.pc = "sent" /\ r.route = route /\ r.token = token
      /\ r.attempt = 1 /\ r.waited = 0
  BY <1>4, <1>5, IdleIsTyped DEF OperationType
<1>7. operation' = [operation EXCEPT ![o] = r]
  BY <1>2
<1> HIDE DEF r
<1>8. InTime(r)
  BY <1>4, <1>6, Numbers DEF InTime, Token
<1>9. Overlapping => KeyIsKnown(r)
  BY <1>4, <1>6 DEF KeyIsKnown, ServiceInv, KeysOverlap
<1> QED
  BY <1>6, <1>7, <1>8, <1>9, Fields, OneOperation DEF Start, StragglersAge

\* The operation ends, or is refused.
LEMMA OverStep ==
  ASSUME ServiceInv, NEW o \in Operations, NEW r \in OperationType, r.pc \in {"idle", "refused"},
         operation' = [operation EXCEPT ![o] = r],
         UNCHANGED <<direction, signing, accepted, stage, overlap>>,
         stragglers' \subseteq StragglerType, \A s, t \in stragglers' : s = t, StragglersAge'
  PROVE  ServiceInv'
BY OneOperation DEF InTime, KeyIsKnown

\* The attempt is over and there may be another.
LEMMA BackOffStep ==
  ASSUME ServiceInv, NEW o \in Operations, BackOff(o), operation[o].pc = "sent",
         UNCHANGED <<direction, signing, accepted, stage, overlap>>,
         stragglers' \subseteq StragglerType, \A s, t \in stragglers' : s = t, StragglersAge'
  PROVE  ServiceInv'
<1> DEFINE p == operation[o]
           r == [p EXCEPT !.pc = "backoff", !.waited = 0]
<1>1. p \in OperationType /\ 0 \in 0 .. Timeout + Backoff
  BY Fields, Numbers
<1>2. /\ r \in OperationType /\ r.pc = "backoff" /\ r.waited = 0 /\ r.token = p.token
      /\ r.route = p.route /\ r.attempt = p.attempt
  BY <1>1 DEF OperationType
<1>3. operation' = [operation EXCEPT ![o] = r]
  BY DEF BackOff
<1>4. p.attempt < ReadAttempts
  BY AttemptsAreBounded, Fields, Numbers DEF BackOff
<1> HIDE DEF r
<1>5. InTime(r)
  BY <1>2, <1>4, Fields, Numbers DEF InTime
<1>6. ASSUME Overlapping PROVE KeyIsKnown(r)
  <2>1. KeyIsKnown(p)
    BY <1>6, Fields
  <2>2. Spent(p) <= Spent(r) /\ Spent(p) \in Nat /\ Spent(r) \in Nat
    <3> DEFINE n == (p.attempt - 1) * (Timeout + Backoff)
    <3>1. n \in Int
      BY Fields, Numbers
    <3>2. Spent(p) = n + p.waited /\ Spent(r) = n + Timeout
      BY <1>2, Numbers DEF Spent
    <3>3. Spent(p) \in Nat /\ Spent(r) \in Nat
      BY <1>2, <1>5, Fields, OperationsEnd
    <3>4. p.waited <= Timeout /\ p.waited \in Nat
      BY Fields, Numbers DEF InTime
    <3> HIDE DEF n
    <3> QED
      BY <3>1, <3>2, <3>3, <3>4, Numbers
  <2>3. overlap \in Nat
    BY Numbers DEF ServiceInv, Typed
  <2> QED
    BY <1>2, <2>1, <2>2, <2>3 DEF KeyIsKnown
<1> QED
  BY <1>2, <1>3, <1>5, <1>6, OneOperation

LEMMA TimesOutStep == ASSUME ServiceInv, NEW o \in Operations, TimesOut(o) PROVE ServiceInv'
<1> DEFINE p == operation[o]
           left == [route |-> p.route, waited |-> Timeout, token |-> p.token]
<1>1. p.pc = "sent" /\ p.waited = Timeout /\ stragglers' \in {stragglers, {left}}
  BY DEF TimesOut
<1>2. left \in StragglerType /\ left.waited - MaxOffset <= left.token.age
  BY <1>1, Fields, Numbers DEF StragglerType, InTime
<1> HIDE DEF left
<1>3. stragglers' \subseteq StragglerType /\ \A s, t \in stragglers' : s = t
  BY <1>1, <1>2, Fields
<1>4. StragglersAge'
  BY <1>1, <1>2, Fields DEF StragglersAge
<1>5. CASE BackOff(o)
  BY <1>1, <1>3, <1>4, <1>5, BackOffStep DEF TimesOut
<1>6. CASE operation' = [operation EXCEPT ![o] = Idle]
  BY <1>3, <1>4, <1>6, IdleIsTyped, OverStep DEF TimesOut
<1> QED
  BY <1>5, <1>6 DEF TimesOut

LEMMA FailsStep == ASSUME ServiceInv, NEW o \in Operations, Fails(o) PROVE ServiceInv'
<1>1. /\ stragglers' \subseteq StragglerType /\ \A s, t \in stragglers' : s = t
      /\ StragglersAge'
  BY Fields DEF Fails, StragglersAge
<1>2. CASE BackOff(o)
  BY <1>1, <1>2, BackOffStep DEF Fails
<1>3. CASE operation' = [operation EXCEPT ![o] = Idle]
  BY <1>1, <1>3, IdleIsTyped, OverStep DEF Fails
<1> QED
  BY <1>2, <1>3 DEF Fails

LEMMA TryAgainStep == ASSUME ServiceInv, NEW o \in Operations, TryAgain(o) PROVE ServiceInv'
<1> DEFINE p == operation[o]
<1>1. PICK token \in Signed(p.token.key, p.route) :
        operation' = [operation EXCEPT ![o].pc = "sent", ![o].attempt = @ + 1,
                                       ![o].waited = 0, ![o].token = token]
  BY DEF TryAgain, KeyOfProcess
<1>2. p.pc = "backoff" /\ p.route \in Routes /\ p.attempt < ReadAttempts /\ p.waited <= Backoff
  BY Fields DEF TryAgain, InTime
<1>3. /\ token \in Token /\ token.key = p.token.key /\ token.scope = p.route
      /\ -MaxOffset <= token.age /\ token.age <= MaxOffset + 1
  BY <1>2, Fields, SignedToken
<1> DEFINE r == [p EXCEPT !.pc = "sent", !.attempt = @ + 1, !.waited = 0, !.token = token]
<1>4. p \in OperationType /\ 0 \in 0 .. Timeout + Backoff /\ p.attempt + 1 \in 1 .. ReadAttempts
  BY <1>2, Fields, Numbers
<1>5. /\ r \in OperationType /\ r.pc = "sent" /\ r.waited = 0 /\ r.token = token
      /\ r.route = p.route /\ r.attempt = p.attempt + 1
  BY <1>3, <1>4 DEF OperationType
<1>6. operation' = [operation EXCEPT ![o] = r]
  BY <1>1 DEF ServiceInv, Typed
<1> HIDE DEF r
<1>7. InTime(r)
  BY <1>2, <1>3, <1>5, Numbers DEF InTime, Token
<1>8. ASSUME Overlapping PROVE KeyIsKnown(r)
  <2>1. KeyIsKnown(p)
    BY <1>8, Fields
  <2>2. Spent(p) <= Spent(r) /\ Spent(p) \in Nat /\ Spent(r) \in Nat
    <3> DEFINE d == Timeout + Backoff
    <3>1. Spent(p) = (p.attempt - 1) * d + (Timeout + p.waited)
      BY <1>2 DEF Spent
    <3>2. Spent(r) = (r.attempt - 1) * d + r.waited
      BY <1>5 DEF Spent
    <3>3. Spent(p) \in Nat /\ Spent(r) \in Nat
      BY <1>2, <1>5, <1>7, Fields, OperationsEnd
    <3>4. p.attempt \in Nat /\ p.attempt >= 1 /\ p.waited \in Nat /\ d \in Nat
          /\ Timeout + p.waited <= d
      BY <1>2, Fields, Numbers
    <3> HIDE DEF d
    <3>5. (r.attempt - 1) * d = (p.attempt - 1) * d + d
      BY <1>5, <3>4
    <3>6. (p.attempt - 1) * d \in Int /\ Timeout + p.waited \in Nat
      BY <3>4, Numbers
    <3> QED
      BY <1>5, <3>1, <3>3, <3>4, <3>5, <3>6, <3>2
  <2>3. overlap \in Nat
    BY Numbers DEF ServiceInv, Typed
  <2> QED
    BY <1>2, <1>3, <1>5, <2>1, <2>2, <2>3 DEF KeyIsKnown
<1> QED
  BY <1>5, <1>6, <1>7, <1>8, Fields, OneOperation DEF TryAgain, StragglersAge

LEMMA AnswerStep ==
  ASSUME ServiceInv, NEW o \in Operations, Answered(o) \/ Refused(o) \/ Report(o)
  PROVE  ServiceInv'
<1>1. /\ stragglers' \subseteq StragglerType /\ \A s, t \in stragglers' : s = t
      /\ StragglersAge' /\ UNCHANGED <<direction, signing, accepted, stage, overlap>>
  BY Fields DEF Answered, Refused, Report, Finish, StragglersAge
<1>2. CASE operation' = [operation EXCEPT ![o] = Idle]
  BY <1>1, <1>2, IdleIsTyped, OverStep
<1>3. CASE Refused(o)
  <2> DEFINE r == [operation[o] EXCEPT !.pc = "refused"]
  <2>1. r \in OperationType /\ r.pc = "refused" /\ operation' = [operation EXCEPT ![o] = r]
    BY <1>3, Fields DEF Refused, OperationType
  <2> HIDE DEF r
  <2> QED
    BY <1>1, <2>1, OverStep
<1> QED
  BY <1>2, <1>3 DEF Answered, Report, Finish

LEMMA StraggleStep == ASSUME ServiceInv, Straggle PROVE ServiceInv'
BY DEF Straggle, ServiceInv, Typed, InTime, Routes, Overlapping, KeysOverlap, KeyIsKnown,
       OneKeyAtCore, StragglersAge

\* What a change of keys leaves.
LEMMA KeysChange ==
  ASSUME ServiceInv, UNCHANGED <<direction, operation, stragglers>>,
         signing' \in Keys, \E k, l \in Keys : accepted' = {k, l},
         stage' \in {"settled", "added", "switched"}, overlap' \in 0 .. MaxTtl + 1,
         KeysOverlap', OneKeyAtCore'
  PROVE  ServiceInv'
BY DEF ServiceInv, Typed, InTime, Routes, Overlapping, StragglersAge

LEMMA AddKeyStep == ASSUME ServiceInv, AddKey PROVE ServiceInv'
<1>1. PICK key \in NewKeys : accepted' = {key, signing}
  BY DEF AddKey
<1>2. key \in Keys /\ signing \in Keys
  BY DEF NewKeys, ServiceInv, Typed
<1>3. Overlapping /\ stage = "settled" /\ accepted = {signing} /\ overlap = 0
  BY DEF AddKey, ServiceInv, KeysOverlap
<1>4. \A o \in Operations : KeyIsKnown(operation[o])'
  BY <1>1, <1>3 DEF AddKey, ServiceInv, KeysOverlap, KeyIsKnown
<1>5. KeysOverlap' /\ OneKeyAtCore'
  BY <1>1, <1>3, <1>4 DEF AddKey, KeysOverlap, OneKeyAtCore, Overlapping
<1> QED
  BY <1>1, <1>2, <1>5, KeysChange DEF AddKey, ServiceInv, Typed

LEMMA ReplaceKeyStep == ASSUME ServiceInv, ReplaceKey PROVE ServiceInv'
<1>1. PICK key \in NewKeys : accepted' = {key}
  BY DEF ReplaceKey
<1>2. key \in Keys /\ accepted' = {key, key}
  BY <1>1 DEF NewKeys
<1>3. KeysOverlap' /\ OneKeyAtCore'
  BY <1>1 DEF ReplaceKey, KeysOverlap, OneKeyAtCore, Overlapping
<1> QED
  BY <1>2, <1>3, KeysChange DEF ReplaceKey, ServiceInv, Typed

\* Operations under way now have the key before the present one.
LEMMA SwitchSignerStep == ASSUME ServiceInv, SwitchSigner PROVE ServiceInv'
<1>1. signing' \in accepted /\ signing' \in Keys
  BY DEF SwitchSigner, ServiceInv, Typed
<1>2. ASSUME Overlapping PROVE KeysOverlap'
  <2>1. stage = "added" /\ stage' = "switched" /\ overlap' = 0 /\ accepted' = accepted
    BY <1>2 DEF SwitchSigner, ServiceInv, KeysOverlap
  <2>2. ASSUME NEW o \in Operations PROVE KeyIsKnown(operation[o])'
    <3>1. operation' = operation /\ KeyIsKnown(operation[o]) /\ InTime(operation[o])
          /\ operation[o] \in OperationType
      BY <1>2, <2>2, Fields DEF SwitchSigner
    <3>2. operation[o].pc \in {"sent", "backoff"} => 0 <= Spent(operation[o])
      BY <3>1, OperationsEnd
    <3>3. Spent(operation[o])' = Spent(operation[o])
      BY <3>1 DEF Spent
    <3> QED
      BY <2>1, <3>1, <3>2, <3>3 DEF KeyIsKnown
  <2> QED
    BY <1>1, <2>1, <2>2 DEF KeysOverlap
<1>3. ~Overlapping => KeysOverlap'
  BY DEF SwitchSigner, KeysOverlap, Overlapping
<1>4. OneKeyAtCore'
  BY DEF SwitchSigner, ServiceInv, OneKeyAtCore, Overlapping
<1> QED
  BY <1>1, <1>2, <1>3, <1>4, KeysChange DEF SwitchSigner, ServiceInv, Typed

\* By now every operation with the key before has ended.
LEMMA RemoveKeyStep == ASSUME ServiceInv, RemoveKey PROVE ServiceInv'
<1>1. signing \in Keys /\ accepted' = {signing, signing} /\ 0 \in 0 .. MaxTtl + 1
  BY Numbers DEF RemoveKey, ServiceInv, Typed
<1>2. ASSUME Overlapping, NEW o \in Operations PROVE KeyIsKnown(operation[o])'
  <2>1. /\ operation' = operation /\ signing' = signing
        /\ KeyIsKnown(operation[o]) /\ InTime(operation[o]) /\ operation[o] \in OperationType
    BY <1>2, Fields DEF RemoveKey
  <2>2. operation[o].pc \in {"sent", "backoff"} => operation[o].token.key = signing
    BY <2>1, OperationsEnd, Numbers DEF KeyIsKnown, RemoveKey
  <2> QED
    BY <1>1, <2>1, <2>2 DEF KeyIsKnown
<1>3. KeysOverlap' /\ OneKeyAtCore'
  BY <1>1, <1>2 DEF RemoveKey, KeysOverlap, OneKeyAtCore, Overlapping
<1> QED
  BY <1>1, <1>3, KeysChange DEF RemoveKey

\* A second passes for an operation.
LEMMA Later ==
  ASSUME NEW p \in OperationType, InTime(p), p.pc \in {"sent", "backoff"},
         p.pc = "sent" => p.waited < Timeout, p.pc = "backoff" => p.waited < Backoff,
         NEW q, q = [p EXCEPT !.waited = @ + 1, !.token = Grown(@)]
  PROVE  /\ q \in OperationType /\ InTime(q)
         /\ q.pc = p.pc /\ q.token.key = p.token.key /\ Spent(q) = Spent(p) + 1
<1>1. p.token \in Token /\ p.waited \in Nat
  BY Numbers DEF OperationType
<1>2. p.waited + 1 \in 0 .. Timeout + Backoff
  BY <1>1, Numbers DEF InTime
<1>3. Grown(p.token) \in Token
  BY <1>1, GrownToken
<1>4. /\ q \in OperationType /\ q.pc = p.pc /\ q.route = p.route /\ q.attempt = p.attempt
      /\ q.waited = p.waited + 1 /\ q.token = Grown(p.token)
  BY <1>2, <1>3 DEF OperationType
<1>5. /\ q.token.key = p.token.key /\ q.token.scope = p.token.scope
      /\ q.token.age = IF p.token.age + 1 <= Longest THEN p.token.age + 1 ELSE Longest
  BY <1>1, <1>4, GrownToken
<1>6. p.token.age \in Int
  BY <1>1, Numbers DEF Token
<1>7. InTime(q)
  BY <1>1, <1>4, <1>5, <1>6, Numbers DEF InTime
<1>8. Spent(q) = Spent(p) + 1
  <2> DEFINE n == (p.attempt - 1) * (Timeout + Backoff)
  <2>1. n \in Int
    BY Numbers DEF OperationType
  <2>2. /\ Spent(p) = n + (IF p.pc = "sent" THEN p.waited ELSE Timeout + p.waited)
        /\ Spent(q) = n + (IF p.pc = "sent" THEN p.waited + 1 ELSE Timeout + (p.waited + 1))
    BY <1>4 DEF Spent
  <2> HIDE DEF n
  <2> QED
    BY <1>1, <2>1, <2>2, Numbers
<1> QED
  BY <1>4, <1>5, <1>7, <1>8

LEMMA SecondStep == ASSUME ServiceInv, SecondPasses PROVE ServiceInv'
<1> DEFINE Next_(p) == IF p.pc \in {"sent", "backoff"}
                       THEN [p EXCEPT !.waited = @ + 1, !.token = Grown(@)] ELSE p
<1>1. ASSUME NEW o \in Operations
      PROVE  /\ operation'[o] = Next_(operation[o])
             /\ operation'[o] \in OperationType /\ InTime(operation'[o])
             /\ operation'[o].pc = operation[o].pc
             /\ operation'[o].token.key = operation[o].token.key
             /\ operation[o].pc \in {"sent", "backoff"} =>
                  Spent(operation'[o]) = Spent(operation[o]) + 1
  <2>1. operation'[o] = Next_(operation[o])
    BY DEF SecondPasses
  <2>2. operation[o] \in OperationType /\ InTime(operation[o])
    BY Fields
  <2>3. CASE operation[o].pc \in {"sent", "backoff"}
    <3>1. /\ operation[o].pc = "sent" => operation[o].waited < Timeout
          /\ operation[o].pc = "backoff" => operation[o].waited < Backoff
      BY DEF SecondPasses
    <3> QED
      BY <2>1, <2>2, <2>3, <3>1, Later
  <2> QED
    BY <2>1, <2>2, <2>3
<1> HIDE DEF Next_
<1>2. operation' \in [Operations -> OperationType]
  BY <1>1 DEF SecondPasses
<1> DEFINE Aged(s) == [s EXCEPT !.token = Grown(@), !.waited = Min({@ + 1, Longest})]
<1>3. ASSUME NEW s \in stragglers
      PROVE  Aged(s) \in StragglerType /\ Aged(s).waited - MaxOffset <= Aged(s).token.age
  <2>1. s \in StragglerType /\ s.waited - MaxOffset <= s.token.age
    BY DEF ServiceInv, Typed, StragglersAge
  <2>2. s.token \in Token /\ s.waited \in 0 .. Longest
    BY <2>1 DEF StragglerType
  <2> DEFINE a == Min({s.waited + 1, Longest})
             g == Grown(s.token)
             t == [s EXCEPT !.token = g, !.waited = a]
  <2>3. a \in 0 .. Longest /\ a = IF s.waited + 1 <= Longest THEN s.waited + 1 ELSE Longest
    BY <2>1, <2>2, GrownWait
  <2>4. /\ g \in Token
        /\ g.age = IF s.token.age + 1 <= Longest THEN s.token.age + 1 ELSE Longest
    BY <2>1, <2>2, GrownToken
  <2>5. s.token.age \in Int
    BY <2>1, <2>2, Numbers DEF Token
  <2> HIDE DEF a, g
  <2>6. t \in StragglerType /\ t.waited = a /\ t.token = g
    BY <2>1, <2>2, <2>3, <2>4 DEF StragglerType
  <2>7. a - MaxOffset <= g.age
    BY <2>1, <2>3, <2>4, <2>5, <2>2, Numbers
  <2>8. t = Aged(s)
    BY DEF a, g
  <2> HIDE DEF t, Aged
  <2> QED
    BY <2>6, <2>7, <2>8
<1>4. stragglers' = {Aged(s) : s \in stragglers}
  BY DEF SecondPasses
<1> HIDE DEF Aged
<1>5. stragglers' \subseteq StragglerType /\ \A s, t \in stragglers' : s = t
  <2>1. \A s, t \in stragglers : s = t
    BY DEF ServiceInv, Typed
  <2> QED
    BY <1>3, <1>4, <2>1
<1>6. StragglersAge'
  BY <1>3, <1>4 DEF StragglersAge
<1>7. overlap \in Nat /\ overlap' \in 0 .. MaxTtl + 1 /\ overlap' <= overlap + 1
  <2>1. overlap \in Nat /\ overlap <= MaxTtl + 1
    BY Numbers DEF ServiceInv, Typed
  <2>2. overlap' = IF stage = "switched" /\ overlap <= MaxTtl THEN overlap + 1 ELSE overlap
    BY DEF SecondPasses
  <2> QED
    BY <2>1, <2>2, Numbers
<1>8. Typed'
  BY <1>2, <1>5, <1>7 DEF SecondPasses, ServiceInv, Typed
<1>9. \A o \in Operations : InTime(operation[o])'
  BY <1>1 DEF InTime, Routes, Overlapping, SecondPasses
<1>10. KeysOverlap'
  <2> SUFFICES ASSUME Overlapping PROVE KeysOverlap'
    BY DEF KeysOverlap, Overlapping, SecondPasses
  <2>1. ASSUME NEW o \in Operations PROVE KeyIsKnown(operation[o])'
    <3>1. KeyIsKnown(operation[o])
      BY Fields
    <3>2. operation[o].pc \in {"sent", "backoff"} => Spent(operation[o]) \in Nat
      BY Fields, OperationsEnd
    <3>3. Spent(operation[o])' = Spent(operation'[o])
      BY DEF Spent
    <3>4. /\ operation'[o].pc = operation[o].pc
          /\ operation'[o].token.key = operation[o].token.key
          /\ UNCHANGED <<signing, accepted, stage>>
      BY <1>1 DEF SecondPasses
    <3>5. operation[o].pc \in {"sent", "backoff"} /\ overlap <= Spent(operation[o])
            => overlap' <= Spent(operation'[o])
      BY <1>1, <1>7, <3>2, Numbers
    <3> QED
      BY <3>1, <3>3, <3>4, <3>5 DEF KeyIsKnown
  <2> QED
    BY <2>1 DEF SecondPasses, ServiceInv, KeysOverlap
<1>11. OneKeyAtCore'
  BY DEF SecondPasses, ServiceInv, OneKeyAtCore, Overlapping
<1> QED
  BY <1>6, <1>8, <1>9, <1>10, <1>11 DEF ServiceInv

LEMMA ServiceStarts == ServiceInit => ServiceInv
<1> SUFFICES ASSUME ServiceInit PROVE ServiceInv
  OBVIOUS
<1>1. (CHOOSE k \in Keys : TRUE) \in Keys
  BY DEF ServiceInit
<1>2. Idle \in OperationType /\ Idle.pc = "idle"
  <2>1. 0 \in -MaxOffset .. Longest /\ 1 \in 1 .. ReadAttempts /\ 0 \in 0 .. Timeout + Backoff
    BY Numbers
  <2> QED
    BY <1>1, <2>1 DEF Idle, OperationType, Scopes, Token
<1>3. Typed
  BY <1>2, Numbers DEF ServiceInit, Typed
<1> QED
  BY <1>2, <1>3 DEF ServiceInit, ServiceInv, InTime, KeysOverlap, KeyIsKnown, OneKeyAtCore,
                 StragglersAge

LEMMA ServiceInductive == ASSUME ServiceInv, [ServiceNext]_services PROVE ServiceInv'
<1>1. CASE UNCHANGED services
  BY <1>1 DEF services, ServiceInv, Typed, InTime, Routes, Overlapping, KeysOverlap, KeyIsKnown,
              OneKeyAtCore, StragglersAge, Spent
<1> QED
  BY <1>1, StartStep, TimesOutStep, FailsStep, TryAgainStep, AnswerStep, StraggleStep,
     AddKeyStep, ReplaceKeyStep, SwitchSignerStep, RemoveKeyStep, SecondStep DEF ServiceNext

LEMMA ServiceInvariance == ServiceSpec => []ServiceInv
BY ServiceStarts, ServiceInductive, PTL DEF ServiceSpec

\* An attempt that its caller has given up is acted on no later than the lifetime of its
\* credential and what the clocks add (_principal_from_payload), and all variables keep
\* their types.
THEOREM ForgottenAttemptsExpire == ServiceSpec => []LateAttemptsExpire
<1>1. ASSUME ServiceInv PROVE LateAttemptsExpire
  <2>1. ASSUME NEW s \in stragglers, Accepts(s.route, s.token)
        PROVE  s.waited < Ttl + ClockSkew + MaxOffset
    <3>1. 0 < Ttl - s.token.age + ClockSkew
      BY <2>1 DEF Accepts, IncidentServiceVerifies, CoreVerifies, InLifetime, ExpiresAt
    <3>2. /\ s.waited - MaxOffset <= s.token.age
          /\ s.waited \in Int /\ s.token.age \in Int
      BY <1>1, <2>1, Numbers DEF ServiceInv, StragglersAge, Typed, StragglerType, Token
    <3> QED
      BY <3>1, <3>2, Numbers
  <2> QED
    BY <1>1, <2>1, TypesAreTyped DEF ServiceInv, LateAttemptsExpire
<1> QED
  BY <1>1, ServiceInvariance, PTL

\* A service that keeps to the contract is answered 401 or 403 only in the gap of the
\* direction without an overlap of keys, whatever the clocks, retries and deployments
\* (verify_token, authenticate_service).
THEOREM HonestCallersAreHeard == ServiceSpec => RefusedOnlyBetweenTheSwitches
<1>1. ASSUME ServiceInv, ServiceNext, NEW o \in Operations,
             operation[o].pc = "sent", operation'[o].pc = "refused"
      PROVE  ~Overlapping /\ operation[o].token.key \notin accepted
  <2>1. Refused(o)
    <3>1. /\ operation \in [Operations -> OperationType] /\ Idle.pc # "refused"
      BY <1>1, IdleIsTyped DEF ServiceInv, Typed
    <3>2. ~SecondPasses
      <4> SUFFICES ASSUME SecondPasses PROVE FALSE
        OBVIOUS
      <4>1. operation'[o] = [operation[o] EXCEPT !.waited = @ + 1, !.token = Grown(@)]
        BY <1>1 DEF SecondPasses
      <4>2. operation'[o].pc = operation[o].pc
        BY <3>1, <4>1 DEF OperationType
      <4> QED
        BY <1>1, <4>2
    <3>3. ~(Straggle \/ AddKey \/ ReplaceKey \/ SwitchSigner \/ RemoveKey \/ SecondPasses)
      BY <1>1, <3>2 DEF Straggle, AddKey, ReplaceKey, SwitchSigner, RemoveKey
    <3>4. PICK q \in Operations :
            \/ Start(q) \/ TimesOut(q) \/ Fails(q) \/ TryAgain(q)
            \/ Answered(q) \/ Refused(q) \/ Report(q)
      BY <1>1, <3>3 DEF ServiceNext
    <3>5. q = o
      BY <1>1, <3>1, <3>4
      DEF Start, TimesOut, Fails, TryAgain, Answered, Refused, Report, BackOff, Finish
    <3>6. ~(Start(o) \/ TryAgain(o))
      BY <1>1, <3>1 DEF Start, TryAgain, OperationType
    <3>7. ~(TimesOut(o) \/ Fails(o) \/ Answered(o) \/ Report(o))
      BY <1>1, <3>1 DEF TimesOut, Fails, Answered, Report, BackOff, Finish, OperationType
    <3> QED
      BY <3>4, <3>5, <3>6, <3>7
  <2> DEFINE p == operation[o]
  <2>2. p.waited < Timeout /\ ~Accepts(p.route, p.token)
    BY <2>1 DEF Refused
  <2>3. InTime(p) /\ p.token.age \in Int /\ p.waited \in Int
    BY <1>1, Fields, Numbers DEF Token
  <2>4. p.waited - MaxOffset <= p.token.age /\ p.token.age <= p.waited + MaxOffset + 1
        /\ 0 <= p.waited
    BY <1>1, <2>3, Fields, Numbers DEF InTime
  <2>5. LifetimeIsAllowed(p.token) /\ InLifetime(p.token)
    BY <2>2, <2>3, <2>4, Numbers DEF LifetimeIsAllowed, InLifetime, IssuedAt, ExpiresAt
  <2>6. p.route \in ScopesOf(p.token)
    BY <1>1, <2>3 DEF InTime, ScopesOf
  <2>7. Overlapping => p.token.key \in accepted
    BY <1>1, Fields DEF KeyIsKnown
  <2>8. ~Overlapping /\ p.token.key \in accepted => accepted = {p.token.key}
    BY <1>1 DEF ServiceInv, OneKeyAtCore
  <2> QED
    BY <2>2, <2>5, <2>6, <2>7, <2>8
    DEF Accepts, IncidentServiceVerifies, CoreVerifies, IsTheKeyOfCore
<1>2. ServiceInv /\ [ServiceNext]_services =>
        [\A o \in Operations :
           operation[o].pc = "sent" /\ operation'[o].pc = "refused" =>
               ~Overlapping /\ operation[o].token.key \notin accepted]_services
  BY <1>1
<1> QED
  BY <1>2, ServiceInvariance, PTL DEF ServiceSpec, RefusedOnlyBetweenTheSwitches
=============================================================================
