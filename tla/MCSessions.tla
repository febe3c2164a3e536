------------------------------- MODULE MCSessions -------------------------------
(***************************************************************************)
(* Sessions for TLC: each side is explored while the other is as it was at *)
(* the start.  Nothing is claimed of a tab that is entangled: it stops     *)
(* there.  Tabs and the requests of a kind are interchangeable.            *)
(***************************************************************************)
EXTENDS Sessions, TLC

TabUntouched ==
    restoring = "refresh" /\ refresh.pc = "sent" /\ entry.of = 0 /\ tabJar = None

MCNext ==
    \/ TabUntouched /\ Next /\ UNCHANGED browser
    \/ Init /\ ~entangled /\ Tab!BrowserNext /\ UNCHANGED vars

MCSpec == SessionsInit /\ [][MCNext]_<<vars, browser>>

Symmetric ==
    Permutations(Tabs) \cup Permutations(Refreshes)
    \cup Permutations(Logouts) \cup Permutations(LogoutAlls)
=============================================================================
