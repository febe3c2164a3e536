------------------------------ MODULE MCThrottles ------------------------------
(***************************************************************************)
(* Throttles for TLC.  The throttles have no state in common and every     *)
(* property is about one of them: each is explored while the other is as   *)
(* it was at the start, where the passing of time changes nothing.         *)
(***************************************************************************)
EXTENDS Throttles

ResetUntouched ==
    /\ \A a \in Addresses : ipRequests[a] = <<>>
    /\ \A t \in Threads : ~asking[t].waiting

LoginUntouched == ~built /\ \A t \in Threads : attempt[t].pc = "idle"

MCNext ==
    \/ /\ ResetUntouched /\ UNCHANGED reset
       /\ LoginTick \/ \E t \in Threads : LoginStep(t)
    \/ /\ LoginUntouched /\ UNCHANGED login
       /\ Reset!ResetTick \/ \E t \in Threads : Reset!ResetStep(t)

MCSpec == ThrottlesInit /\ [][MCNext]_throttles
=============================================================================
