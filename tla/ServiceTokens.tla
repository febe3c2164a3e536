----------------------------- MODULE ServiceTokens -----------------------------
(***************************************************************************)
(* Calls between the two services and the credentials they carry: the      *)
(* caller (HttpIncidentGateway of the backend, HttpServiceCatalogGateway   *)
(* of the incident service) signs a token for every attempt, the receiver  *)
(* (JwtServiceTokenVerifier) checks its key, its lifetime by its own clock *)
(* and its scope, while operators replace the signing key.                 *)
(*                                                                         *)
(* direction says which service calls.  The incident service verifies with *)
(* a current and a previous key; the backend has one key, so that keys are *)
(* replaced there in two steps with a gap between them                     *)
(* (docs/architecture/service-identity-contract.md, Key Rotation).         *)
(*                                                                         *)
(* Time is in ticks of a second.  A token states iat and exp in whole      *)
(* seconds: what is cut off makes it look up to a tick older.  At the time *)
(* of signing the clocks differ by at most MaxOffset.                      *)
(***************************************************************************)
EXTENDS Integers, FiniteSetsExt

CONSTANTS
    Operations,   \* operations of the caller, each a slot used over and over
    Keys,         \* key identifiers
    Ttl,          \* token lifetime
    MinTtl,       \* MINIMUM_SERVICE_TOKEN_TTL_SECONDS
    MaxTtl,       \* MAXIMUM_SERVICE_TOKEN_TTL_SECONDS
    ClockSkew,    \* clock_skew_seconds
    MaxClockSkew, \* MAXIMUM_CLOCK_SKEW_SECONDS
    MaxOffset,    \* bound on the difference of the clocks
    Timeout,      \* client timeout of an attempt
    Backoff,      \* bound on the sleep before a retry
    ReadAttempts   \* read_max_attempts

\* What the constructors take: JwtServiceTokenProvider a lifetime, JwtServiceTokenVerifier
\* a tolerance and its keys.
ProviderLifetimes == MinTtl .. MaxTtl
VerifierSkews == 0 .. MaxClockSkew
VerifierKeys == {keys \in SUBSET Keys : Cardinality(keys) \in 1 .. 2}

ASSUME LifetimeAssumption ==
    /\ {Ttl, MinTtl, MaxTtl, ClockSkew, MaxClockSkew, MaxOffset, Timeout, Backoff} \subseteq Nat
    /\ Ttl \in ProviderLifetimes
    /\ ClockSkew \in VerifierSkews
    /\ MaxOffset <= ClockSkew
    /\ 0 < Timeout /\ Timeout < Ttl
    /\ ReadAttempts \in Nat \ {0}

\* The longest operation ends within the time operators wait before they remove a key.
ASSUME OverlapAssumption == ReadAttempts * (Timeout + Backoff) <= MaxTtl

VARIABLES
    direction,   \* which service calls the other
    signing,     \* the key of the caller's current process
    accepted,    \* the receiver's verification keys
    stage,       \* how far the operators are with a new key
    overlap,     \* ticks since the caller's change of key, while both keys are accepted
    operation,   \* the caller's operations
    stragglers   \* attempts the caller has given up that the receiver has yet to see

services == <<direction, signing, accepted, stage, overlap, operation, stragglers>>

\* ServiceScope; _scopes takes no other word.
Scopes == {"incidents:read", "incidents:write", "services:read"}

\* No age or wait beyond this one makes a difference.
Longest == MaxTtl + ClockSkew + MaxOffset + 1

\* key      the key of the process that runs the operation
\* age      ticks since the credential was signed, as the receiver's clock has it
\* waited   ticks since the attempt began, or since the sleep before the next
Token == [key : Keys, scope : Scopes, age : -MaxOffset .. Longest]

ServiceTypeOK ==
    /\ direction \in {"core_to_incident", "incident_to_core"}
    /\ signing \in Keys
    /\ accepted \in VerifierKeys
    /\ stage \in {"settled", "added", "switched"}
    /\ overlap \in 0 .. MaxTtl + 1
    /\ operation \in [Operations ->
         [pc : {"idle", "sent", "backoff", "refused"}, route : Scopes, token : Token,
          attempt : 1 .. ReadAttempts, waited : 0 .. Timeout + Backoff]]
    /\ Cardinality(stragglers) <= 1
    /\ stragglers \subseteq [route : Scopes, token : Token, waited : 0 .. Longest]

\* No operation; the fields have one value each.
Idle == [pc |-> "idle", route |-> "services:read", attempt |-> 1, waited |-> 0,
         token |-> [key |-> CHOOSE k \in Keys : TRUE, scope |-> "services:read", age |-> 0]]

ServiceInit ==
    /\ direction \in {"core_to_incident", "incident_to_core"}
    /\ signing \in Keys
    /\ accepted = {signing}
    /\ overlap = 0
    /\ stage = "settled"
    /\ operation = [o \in Operations |-> Idle]
    /\ stragglers = {}

-----------------------------------------------------------------------------
\* Helpers.

Overlapping == direction = "core_to_incident"

\* The scopes the routes of the receiver require: reads and writes of incidents
\* (require_service_scope), the lookup of a service (require_services_read).
IncidentRoutes == {"incidents:read", "incidents:write"}
CoreRoutes == {"services:read"}

Routes == IF Overlapping THEN IncidentRoutes ELSE CoreRoutes

\* _create_service_authorization: the scope goes by the method.
IncidentScope(method) == IF method = "GET" THEN "incidents:read" ELSE "incidents:write"

Method(route) == IF route = "incidents:write" THEN "POST" ELSE "GET"

\* A credential at a moment when the signer's clock is offset ahead; iat is cut off.
Credentials(key, scope) ==
    {[key |-> key, scope |-> scope, age |-> late - offset] :
        offset \in -MaxOffset .. MaxOffset, late \in {0, 1}}

\* create_token of the backend and of the incident service.
SignedByCore(key, route) == Credentials(key, IncidentScope(Method(route)))
SignedByIncidentService(key) == Credentials(key, "services:read")

Signed(key, route) ==
    IF Overlapping THEN SignedByCore(key, route) ELSE SignedByIncidentService(key)

Grown(token) == [token EXCEPT !.age = Min({@ + 1, Longest})]

\* The claims iat, which nbf repeats, and exp, from the receiver's now (_numeric_date).
IssuedAt(token) == -token.age
ExpiresAt(token) == Ttl - token.age

\* _principal_from_payload: a lifetime out of bounds is refused, expired or not.  Issuer,
\* subject and audience are those of the contract.
LifetimeIsAllowed(token) == ExpiresAt(token) - IssuedAt(token) \in MinTtl .. MaxTtl

\* _scopes.  The callers sign for one scope each.
ScopesOf(token) == {token.scope}

\* Definitions named Faulty... are variants with one plausible mistake.  Nothing
\* uses them; each is substituted for the definition it precedes to see that a
\* property notices.

\* exp is not looked at.
FaultyInLifetime(token) == IssuedAt(token) <= ClockSkew

\* _principal_from_payload of the incident service: iat and nbf against now + skew, exp
\* against now - skew.
InLifetime(token) == IssuedAt(token) <= ClockSkew /\ 0 < ExpiresAt(token) + ClockSkew

\* verify_token of the incident service: the key is looked up by its identifier.
IncidentServiceVerifies(token) ==
    token.key \in accepted /\ LifetimeIsAllowed(token) /\ InLifetime(token)

\* verify_token of the backend, which is configured with one key.
IsTheKeyOfCore(key) == accepted = {key}

\* It reads the lifetime as the incident service does.
CoreVerifies(token) ==
    IsTheKeyOfCore(token.key) /\ LifetimeIsAllowed(token) /\ InLifetime(token)

\* The dependencies of a route: authenticate, then authorize.
Accepts(route, token) ==
    /\ IF Overlapping THEN IncidentServiceVerifies(token) ELSE CoreVerifies(token)
    /\ route \in ScopesOf(token)

\* A process loads its key once (get_service_token_provider) and signs whatever it runs.
KeyOfProcess(o) == operation[o].token.key

AttemptsOf(o) == IF operation[o].route = "incidents:read" THEN ReadAttempts ELSE 1

-----------------------------------------------------------------------------
\* The caller.

Start(o) ==
    /\ operation[o].pc = "idle"
    /\ \E route \in Routes : \E token \in Signed(signing, route) :
         operation' = [operation EXCEPT ![o] = [Idle EXCEPT !.pc = "sent", !.route = route,
                                                            !.token = token]]
    /\ UNCHANGED <<direction, signing, accepted, stage, overlap, stragglers>>

\* The attempt is answered, or fails at once; a failed read may be tried again.
Finish(o) ==
    /\ operation' = [operation EXCEPT ![o] = Idle]
    /\ UNCHANGED <<direction, signing, accepted, stage, overlap, stragglers>>

BackOff(o) ==
    /\ operation[o].attempt < AttemptsOf(o)
    /\ operation' = [operation EXCEPT ![o].pc = "backoff", ![o].waited = 0]

\* TimeoutException: the receiver may still come to the attempt.
TimesOut(o) ==
    /\ operation[o].pc = "sent"
    /\ operation[o].waited = Timeout
    /\ \/ BackOff(o)
       \/ operation[o].attempt = AttemptsOf(o) /\ operation' = [operation EXCEPT ![o] = Idle]
    /\ stragglers' \in {stragglers, {[route |-> operation[o].route, waited |-> Timeout,
                                     token |-> operation[o].token]}}
    /\ UNCHANGED <<direction, signing, accepted, stage, overlap>>

\* A transport error, or a response that is worth another attempt.
Fails(o) ==
    /\ operation[o].pc = "sent"
    /\ \/ BackOff(o)
       \/ operation[o].attempt = AttemptsOf(o) /\ operation' = [operation EXCEPT ![o] = Idle]
    /\ UNCHANGED <<direction, signing, accepted, stage, overlap, stragglers>>

\* The credential of the first attempt is used for the others.
FaultyTryAgain(o) ==
    /\ operation[o].pc = "backoff"
    /\ operation' = [operation EXCEPT ![o].pc = "sent", ![o].attempt = @ + 1, ![o].waited = 0]
    /\ UNCHANGED <<direction, signing, accepted, stage, overlap, stragglers>>

\* The next attempt, with a credential of its own from the same process.
TryAgain(o) ==
    /\ operation[o].pc = "backoff"
    /\ \E token \in Signed(KeyOfProcess(o), operation[o].route) :
         operation' = [operation EXCEPT ![o].pc = "sent", ![o].attempt = @ + 1,
                                        ![o].waited = 0, ![o].token = token]
    /\ UNCHANGED <<direction, signing, accepted, stage, overlap, stragglers>>

\* The receiver gets to an attempt whose caller is waiting.
Answered(o) ==
    /\ operation[o].pc = "sent"
    /\ operation[o].waited < Timeout
    /\ Accepts(operation[o].route, operation[o].token)
    /\ Finish(o)

\* 401 or 403.
Refused(o) ==
    /\ operation[o].pc = "sent"
    /\ operation[o].waited < Timeout
    /\ ~Accepts(operation[o].route, operation[o].token)
    /\ operation' = [operation EXCEPT ![o].pc = "refused"]
    /\ UNCHANGED <<direction, signing, accepted, stage, overlap, stragglers>>

\* IncidentGatewayProtocolError, ServiceCatalogUnavailableError: it is not tried again.
Report(o) == operation[o].pc = "refused" /\ Finish(o)

\* It gets to one that was given up, and acts on it if it accepts it.
Straggle ==
    /\ stragglers # {}
    /\ stragglers' = {}
    /\ UNCHANGED <<direction, signing, accepted, stage, overlap, operation>>

-----------------------------------------------------------------------------
\* The operators.  A key identifier is never given to a second key: a new one is used by
\* no token in flight.

Used == {operation[o].token.key : o \in {p \in Operations : operation[p].pc # "idle"}}
        \cup {s.token.key : s \in stragglers}

NewKeys == Keys \ ({signing} \cup accepted \cup Used)

\* The incident service is deployed with a new current key and keeps the one before as
\* the previous key (load_service_verification_keys).
AddKey ==
    /\ Overlapping /\ stage = "settled"
    /\ \E key \in NewKeys : accepted' = {key, signing}
    /\ stage' = "added"
    /\ UNCHANGED <<direction, signing, overlap, operation, stragglers>>

\* The backend is deployed with a new key, its only one.
ReplaceKey ==
    /\ ~Overlapping /\ stage = "settled"
    /\ \E key \in NewKeys : accepted' = {key}
    /\ stage' = "added"
    /\ UNCHANGED <<direction, signing, overlap, operation, stragglers>>

\* The caller is deployed with the new private key.  The process before it ends once its
\* operations have.
SwitchSigner ==
    /\ stage = "added"
    /\ signing' \in accepted \ {signing}
    /\ stage' = IF Overlapping THEN "switched" ELSE "settled"
    /\ UNCHANGED <<direction, accepted, overlap, operation, stragglers>>

\* The receiver is deployed without the previous key, "longer than the maximum
\* service-token lifetime" after the switch.
RemoveKey ==
    /\ stage = "switched"
    /\ overlap = MaxTtl + 1
    /\ accepted' = {signing}
    /\ stage' = "settled"
    /\ overlap' = 0
    /\ UNCHANGED <<direction, signing, operation, stragglers>>

-----------------------------------------------------------------------------
\* A second passes.  An attempt ends at its timeout, a sleep at its end.

SecondPasses ==
    /\ \A o \in Operations :
         /\ operation[o].pc = "sent" => operation[o].waited < Timeout
         /\ operation[o].pc = "backoff" => operation[o].waited < Backoff
    /\ operation' = [o \in Operations |->
                       IF operation[o].pc \in {"sent", "backoff"}
                       THEN [operation[o] EXCEPT !.waited = @ + 1, !.token = Grown(@)]
                       ELSE operation[o]]
    /\ stragglers' = {[s EXCEPT !.token = Grown(@), !.waited = Min({@ + 1, Longest})] :
                         s \in stragglers}
    /\ overlap' = IF stage = "switched" /\ overlap <= MaxTtl THEN overlap + 1 ELSE overlap
    /\ UNCHANGED <<direction, signing, accepted, stage>>

ServiceNext ==
    \/ \E o \in Operations :
         Start(o) \/ TimesOut(o) \/ Fails(o) \/ TryAgain(o) \/ Answered(o) \/ Refused(o) \/ Report(o)
    \/ Straggle
    \/ AddKey \/ ReplaceKey \/ SwitchSigner \/ RemoveKey
    \/ SecondPasses

ServiceSpec == ServiceInit /\ [][ServiceNext]_services

-----------------------------------------------------------------------------
\* Properties.

\* No call of a service that keeps to the contract is answered 401 or 403, whatever the
\* clocks, the retries and the stage of a new key, except that a caller of the backend
\* is refused for a key the backend no longer has or does not have yet.
RefusedOnlyBetweenTheSwitches ==
    [][\A o \in Operations :
         operation[o].pc = "sent" /\ operation'[o].pc = "refused" =>
             ~Overlapping /\ operation[o].token.key \notin accepted]_services

\* The receiver may come to an attempt long after its caller has given up: it acts on it
\* no later than the lifetime of its credential and what the clocks add.
LateAttemptsExpire ==
    /\ ServiceTypeOK
    /\ \A s \in stragglers :
         Accepts(s.route, s.token) => s.waited < Ttl + ClockSkew + MaxOffset
=============================================================================
