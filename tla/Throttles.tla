------------------------------- MODULE Throttles -------------------------------
(***************************************************************************)
(* The two throttles of one backend process.  They share its clock and its *)
(* threads and nothing else: a thread has either a login or a request for  *)
(* a reset.                                                                *)
(***************************************************************************)
EXTENDS LoginThrottle

CONSTANTS IpMaxRequests, IpResetWindow, AccountMaxRequests, AccountResetWindow

ASSUME ResetLimitsAssumption ==
    {IpMaxRequests, IpResetWindow, AccountMaxRequests, AccountResetWindow}
        \subseteq Nat \ {0}

VARIABLES ipRequests, accountRequests, asking, promised

Reset == INSTANCE PasswordResetThrottle WITH
           IpWindow <- IpResetWindow, AccountWindow <- AccountResetWindow

reset == <<ipRequests, accountRequests, asking, promised>>
throttles == <<login, reset>>

ThrottlesInit == LoginInit /\ Reset!ResetInit

\* A thread in a login asks for no reset, and the other way round.
OneRequestEach == \A t \in Threads : attempt[t].pc = "idle" \/ ~asking[t].waiting

ThrottlesNext ==
    /\ \/ LoginTick /\ Reset!ResetTick
       \/ \E t \in Threads : LoginStep(t) /\ UNCHANGED reset
       \/ \E t \in Threads : Reset!ResetStep(t) /\ UNCHANGED login
    /\ OneRequestEach'

ThrottlesSpec == ThrottlesInit /\ [][ThrottlesNext]_throttles

\* The property of the reset throttle.
RetryAfterIsEnough == Reset!RetryAfterIsEnough
=============================================================================
