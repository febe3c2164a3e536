---------------------------- MODULE BrowserSession ----------------------------
(***************************************************************************)
(* A tab of the browser application and the session of its user: the       *)
(* access token in memory (apiClient), the user on display (AuthContext),  *)
(* the refresh that rejected calls share, the restoration after a page     *)
(* load, signing in and signing out.                                       *)
(*                                                                         *)
(* JavaScript runs from one await to the next without interruption; what   *)
(* comes in between is up to the network.  Nothing is cancelled: a call    *)
(* that was sent for one user may end in the time of another.              *)
(*                                                                         *)
(* The backend is as much of RefreshSessions as one tab can tell: sessions *)
(* with a counter for the current token, and access tokens that expire.    *)
(***************************************************************************)
EXTENDS Naturals

CONSTANTS
    Pages,         \* calls of pages that may be under way at a time
    MaxSignIns,    \* bound on sign-ins; session 0 is from before the page load
    MaxRotations,  \* bound on refreshes of a session
    None

VARIABLES
    session,     \* the backend's sessions
    expired,     \* access tokens that have expired
    jar,         \* the refresh cookie
    token,       \* accessToken
    user,        \* the user on display: the session that /auth/me was asked with
    restoring,   \* restoreAuthentication
    entry,       \* LoginPage
    refresh,     \* refreshPromise
    call,        \* calls of apiFetch
    entangled    \* history: somebody signed in or out while a call of before was under way

backend == <<session, expired>>
tab == <<token, user, restoring, entry, refresh, call>>
vars == <<backend, jar, tab, entangled>>

Sessions == 0 .. MaxSignIns

\* An access token and the refresh token issued with it.
Tokens == [of : Sessions, turn : 0 .. MaxRotations]

\* What asks /auth/me after a restoration and after a sign-in, what signs out, and what
\* signs out after a sign-in that found no user.
Calls == Pages \cup {"restore", "enter", "logout", "undo"}

\* free
\* sent     with the token of the moment, if any, or a logout with the cookie
\* served   the reply is on its way
\* waiting  for the refresh
CallType ==
    [pc : {"free", "sent", "served", "waiting"}, token : Tokens \cup {None},
     cookie : Tokens \cup {None}, retried : BOOLEAN, reply : {"none", "ok", "rejected"}]

BrowserTypeOK ==
    /\ session \in [Sessions -> [turn : 0 .. MaxRotations, live : BOOLEAN]]
    /\ expired \subseteq Tokens
    /\ jar \in Tokens \cup {None}
    /\ token \in Tokens \cup {None}
    /\ user \in Sessions \cup {None}
    /\ restoring \in {"refresh", "me", "over"}
    /\ entry \in [pc : {"idle", "sent", "served"}, of : Sessions]
    /\ refresh \in [pc : {"none", "sent", "served"}, cookie : Tokens \cup {None},
                    reply : Tokens \cup {None}]
    /\ call \in [Calls -> CallType]
    /\ entangled \in BOOLEAN

Free == [pc |-> "free", token |-> None, cookie |-> None, retried |-> FALSE, reply |-> "none"]
NoRefresh == [pc |-> "none", cookie |-> None, reply |-> None]

Sent(t) == [Free EXCEPT !.pc = "sent", !.token = t]
LogoutSent(cookie) == [Free EXCEPT !.pc = "sent", !.cookie = cookie]
RefreshSent == [NoRefresh EXCEPT !.pc = "sent", !.cookie = jar]

\* A page load, with or without a session, sends the first refresh at once.
BrowserInit ==
    /\ session = [s \in Sessions |-> [turn |-> 0, live |-> s = 0]]
    /\ expired = {}
    /\ jar \in {None, [of |-> 0, turn |-> 0]}
    /\ token = None /\ user = None
    /\ restoring = "refresh"
    /\ entry = [pc |-> "idle", of |-> 0]
    /\ refresh = RefreshSent
    /\ call = [c \in Calls |-> Free]
    /\ entangled = FALSE

-----------------------------------------------------------------------------
\* Helpers.

UnderWay == {c \in Calls : call[c].pc # "free"}

Current(cookie) ==
    /\ cookie # None
    /\ session[cookie.of].live /\ session[cookie.of].turn = cookie.turn

\* A session ends when it is signed out or a token of it is used twice.
Ended(cookie) ==
    IF cookie = None THEN session ELSE [session EXCEPT ![cookie.of].live = FALSE]

\* The expiry of a token is far off when the call that it was fetched for is retried.
InFirstUse(t) ==
    \/ refresh.reply = t
    \/ \E c \in Calls : call[c].token = t /\ (call[c].retried \/ c \in {"restore", "enter"})

\* Definitions named Faulty... are variants with one plausible mistake.  Nothing
\* uses them; each is substituted for the definition it precedes to see that a
\* property notices.

\* The token is forgotten, the user stays on display.
FaultyClear == token' = None /\ UNCHANGED user

\* clearLocalAuthentication
Clear == token' = None /\ user' = None

\* The call is repeated as it was.
FaultyRepeated(c, t) == [call[c] EXCEPT !.pc = "sent", !.retried = TRUE, !.reply = "none"]

\* The call is sent again with the replacement.
Repeated(c, t) == [call[c] EXCEPT !.pc = "sent", !.retried = TRUE, !.reply = "none",
                                  !.token = t]

-----------------------------------------------------------------------------
\* The backend.

Serve(c) ==
    /\ call[c].pc = "sent"
    /\ call' = [call EXCEPT ![c].pc = "served", ![c].reply =
                  IF c \notin {"logout", "undo"} /\ call[c].token \in expired \cup {None}
                  THEN "rejected" ELSE "ok"]
    /\ session' = IF c \in {"logout", "undo"} THEN Ended(call[c].cookie) ELSE session
    /\ UNCHANGED <<expired, jar, token, user, restoring, entry, refresh, entangled>>

\* The rotation, or a refusal: no cookie, a session that is over, a token used twice.
ServeRefresh ==
    /\ refresh.pc = "sent"
    /\ IF Current(refresh.cookie)
       THEN LET next == [refresh.cookie EXCEPT !.turn = @ + 1]
            IN  /\ next \in Tokens
                /\ session' = [session EXCEPT ![next.of].turn = next.turn]
                /\ refresh' = [refresh EXCEPT !.pc = "served", !.reply = next]
       ELSE /\ session' = Ended(refresh.cookie)
            /\ refresh' = [refresh EXCEPT !.pc = "served"]
    /\ UNCHANGED <<expired, jar, token, user, restoring, entry, call, entangled>>

Expire(t) ==
    /\ t.turn <= session[t.of].turn /\ t.turn < MaxRotations
    /\ t = token \/ \E c \in UnderWay : call[c].token = t
    /\ t \notin expired /\ ~InFirstUse(t)
    /\ expired' = expired \cup {t}
    /\ UNCHANGED <<session, jar, tab, entangled>>

-----------------------------------------------------------------------------
\* apiFetch and refreshAccessToken.

\* A page that shows a user asks for its data.
Load(c) ==
    /\ c \in Pages /\ user # None
    /\ call[c].pc = "free"
    /\ call' = [call EXCEPT ![c] = Sent(token)]
    /\ UNCHANGED <<backend, jar, token, user, restoring, entry, refresh, entangled>>

\* An access token was refused: the call joins the refresh or starts it.
Join(c) ==
    /\ call[c].pc = "served" /\ call[c].reply = "rejected"
    /\ call[c].token # None /\ ~call[c].retried
    /\ call' = [call EXCEPT ![c].pc = "waiting"]
    /\ refresh' = IF refresh.pc = "none"
                  THEN RefreshSent ELSE refresh
    /\ UNCHANGED <<backend, jar, token, user, restoring, entry>>
    /\ entangled' = (entangled \/ call["logout"].pc # "free" \/ (c \in Pages /\ user = None))

\* What follows a call that has failed: a sign-in that finds no user is undone.
Failed(S) ==
    [c \in Calls |->
       IF c \in S THEN Free
       ELSE IF c = "undo" /\ "enter" \in S THEN LogoutSent(jar') ELSE call[c]]

\* The refresh has brought a token: the waiting calls go out again, the restoration asks
\* for the user.
Refreshed ==
    /\ refresh.pc = "served" /\ refresh.reply # None
    /\ token' = refresh.reply /\ jar' = refresh.reply
    /\ call' = [c \in Calls |->
                  IF call[c].pc = "waiting" THEN Repeated(c, token')
                  ELSE IF c = "restore" /\ restoring = "refresh"
                       THEN Sent(token') ELSE call[c]]
    /\ restoring' = IF restoring = "refresh" THEN "me" ELSE restoring
    /\ refresh' = NoRefresh
    /\ UNCHANGED <<backend, user, entry, entangled>>

\* It was refused or lost: whoever waited for it signs the user out of the tab.
RefreshFails ==
    /\ \/ refresh.pc = "served" /\ refresh.reply = None /\ jar' = None
       \/ refresh.pc \in {"sent", "served"} /\ UNCHANGED jar
    /\ Clear
    /\ call' = Failed({c \in Calls : call[c].pc = "waiting"})
    /\ restoring' = IF restoring = "refresh" THEN "over" ELSE restoring
    /\ refresh' = NoRefresh
    /\ UNCHANGED <<backend, entry, entangled>>

\* The reply of a call.
Return(c) ==
    /\ call[c].pc = "served" /\ call[c].reply = "ok"
    /\ call' = [call EXCEPT ![c] = Free]
    /\ restoring' = IF c = "restore" THEN "over" ELSE restoring
    /\ CASE c \in Pages -> UNCHANGED <<token, user, jar>>
         [] c \in {"restore", "enter"} -> user' = call[c].token.of /\ UNCHANGED <<token, jar>>
         [] c \in {"logout", "undo"} -> Clear /\ jar' = None
    /\ UNCHANGED <<backend, entry, refresh, entangled>>

\* Rejected again, or without a token that could be replaced.
Rejected(c) ==
    /\ call[c].pc = "served" /\ call[c].reply = "rejected"
    /\ call[c].retried \/ call[c].token = None
    /\ IF call[c].retried \/ c = "restore" THEN Clear ELSE UNCHANGED <<token, user>>
    /\ UNCHANGED jar
    /\ call' = Failed({c})
    /\ restoring' = IF c = "restore" THEN "over" ELSE restoring
    /\ UNCHANGED <<backend, entry, refresh, entangled>>

\* The connection breaks.
Lost(c) ==
    /\ call[c].pc \in {"sent", "served"}
    /\ IF c \in {"restore", "logout", "undo"} THEN Clear ELSE UNCHANGED <<token, user>>
    /\ UNCHANGED jar
    /\ call' = Failed({c})
    /\ restoring' = IF c = "restore" THEN "over" ELSE restoring
    /\ UNCHANGED <<backend, entry, refresh, entangled>>

-----------------------------------------------------------------------------
\* Signing in and out.

\* LoginPage is there while nobody is signed in, also during the restoration.
SignIn ==
    /\ user = None /\ entry.pc = "idle"
    /\ call["enter"].pc = "free" /\ call["undo"].pc = "free"
    /\ entry.of < MaxSignIns
    /\ entry' = [pc |-> "sent", of |-> entry.of + 1]
    /\ entangled' = (entangled \/ UnderWay # {} \/ refresh.pc # "none" \/ restoring # "over")
    /\ UNCHANGED <<backend, jar, token, user, restoring, refresh, call>>

SignInServed ==
    /\ entry.pc = "sent"
    /\ entry' = [entry EXCEPT !.pc = "served"]
    /\ session' = [session EXCEPT ![entry.of].live = TRUE]
    /\ UNCHANGED <<expired, jar, token, user, restoring, refresh, call, entangled>>

\* The token and the cookie are there; /auth/me says whose they are.
SignedIn ==
    /\ entry.pc = "served"
    /\ entry' = [entry EXCEPT !.pc = "idle"]
    /\ token' = [of |-> entry.of, turn |-> 0] /\ jar' = token'
    /\ call' = [call EXCEPT !["enter"] = Sent(token')]
    /\ UNCHANGED <<backend, user, restoring, refresh, entangled>>

\* Wrong password, throttled, no answer.
SignInFails ==
    /\ entry.pc \in {"sent", "served"}
    /\ entry' = [entry EXCEPT !.pc = "idle"]
    /\ UNCHANGED <<backend, jar, token, user, restoring, refresh, call, entangled>>

\* handleSignOut does not wait for logout: LoginPage still sees the user and goes back to
\* the page, which loads again.
SignOut ==
    /\ user # None /\ call["logout"].pc = "free"
    /\ call' = [call EXCEPT !["logout"] = LogoutSent(jar)]
    /\ entangled' = (entangled \/ refresh.pc # "none")
    /\ UNCHANGED <<backend, jar, token, user, restoring, entry, refresh>>

-----------------------------------------------------------------------------

BrowserNext ==
    \/ \E c \in Calls :
         \/ Serve(c) \/ Load(c) \/ Join(c) \/ Return(c) \/ Rejected(c) \/ Lost(c)
    \/ ServeRefresh \/ Refreshed \/ RefreshFails
    \/ SignIn \/ SignInServed \/ SignedIn \/ SignInFails
    \/ SignOut
    \/ \E t \in Tokens : Expire(t)

BrowserSpec == BrowserInit /\ [][BrowserNext]_vars

-----------------------------------------------------------------------------
\* Properties.

AtRest == UnderWay = {} /\ refresh.pc = "none" /\ restoring = "over" /\ entry.pc = "idle"

\* The user on display is the one the token in memory stands for, and at rest there is a
\* token only for a user on display, unless somebody signed in or out while something of
\* before was under way (setAccessToken, clearLocalAuthentication).
UserAndTokenAgree ==
    /\ BrowserTypeOK
    /\ ~entangled =>
         /\ user # None => token # None /\ token.of = user
         /\ AtRest /\ user = None => token = None

\* Calls that are refused because their access token has expired, however many at a time,
\* do not cost the user the session: the tab signs out only when the user does, when the
\* session is over or when a refresh is lost (apiFetch).
StaysSignedIn ==
    [][user # None /\ user' = None =>
         \/ entangled
         \/ call["logout"].pc # "free" /\ call'["logout"].pc = "free"
         \/ ~session[user].live
         \/ refresh'.pc = "none" /\ (refresh.pc = "sent" \/ refresh.reply # None)]_vars
=============================================================================
