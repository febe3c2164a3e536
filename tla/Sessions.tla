-------------------------------- MODULE Sessions --------------------------------
(***************************************************************************)
(* Sessions from their two sides: one session of the backend with the tabs *)
(* and requests that compete for it (RefreshSessions), and one tab with    *)
(* the sessions that its user opens one after another (BrowserSession).    *)
(* The two have no variable in common and every property is about one of   *)
(* them.                                                                   *)
(***************************************************************************)
EXTENDS RefreshSessions, Naturals

CONSTANTS Pages, MaxSignIns, MaxRotations

VARIABLES
    tabSession, expired, tabJar, token, user, restoring, entry, refresh, call, entangled

browser ==
    <<tabSession, expired, tabJar, token, user, restoring, entry, refresh, call, entangled>>

Tab == INSTANCE BrowserSession WITH session <- tabSession, jar <- tabJar

ASSUME TabAssumption ==
    /\ {MaxSignIns, MaxRotations} \subseteq Nat
    /\ None \notin Tab!Tokens \cup Tab!Sessions
    /\ Pages \cap {"restore", "enter", "logout", "undo"} = {}

SessionsInit == Init /\ Tab!BrowserInit

SessionsNext ==
    \/ Next /\ UNCHANGED browser
    \/ Tab!BrowserNext /\ UNCHANGED vars

SessionsSpec == SessionsInit /\ [][SessionsNext]_<<vars, browser>>

\* The properties of the tab.
UserAndTokenAgree == Tab!UserAndTokenAgree
StaysSignedIn == Tab!StaysSignedIn
=============================================================================
