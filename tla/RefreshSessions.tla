--------------------------- MODULE RefreshSessions ---------------------------
(***************************************************************************)
(* One refresh session of the backend and the browser it belongs to.  The  *)
(* tabs of the browser share one cookie jar; each tab has at most one      *)
(* refresh under way (refreshPromise).  The requests:                      *)
(*   refreshes    POST /auth/refresh     rotates current_jti               *)
(*   logouts      POST /auth/logout                                        *)
(*   logout-alls  POST /auth/logout-all                                    *)
(* A request reads the session row FOR UPDATE (logout-all updates it),     *)
(* decides, sends its response, and only then commits: get_db_session is a *)
(* dependency with yield, whose exit code FastAPI runs after the response  *)
(* has been sent.  The row stays locked until the commit.                  *)
(*                                                                         *)
(* Each request happens once; the jti a refresh issues is named after it.  *)
(* A request that finds no cookie has no effect on the session.  The token *)
(* and the CSRF proof of a refresh or a logout are looked at before the    *)
(* row (_decode_refresh_token_with_csrf).                                  *)
(***************************************************************************)
CONSTANTS
    Tabs,
    Refreshes, Logouts, LogoutAlls,  \* requests, by kind
    Original,                        \* the jti the login issued
    None

Requests == Refreshes \cup Logouts \cup LogoutAlls
Tokens == Refreshes \cup {Original}

VARIABLES
    session,  \* the committed row: current_jti and revocation_reason
    jar,      \* the refresh cookie
    request,  \* the requests
    excused   \* history: something happened that may cost the user the session

vars == <<session, jar, request, excused>>

\* ready
\* sent       on its way, or waiting for the row
\* decided    the row is locked, the verdict is in
\* answered   the response has been sent
\* committed, rolledback
Phases == {"ready", "sent", "decided", "answered", "committed", "rolledback"}

Reasons == {"refresh_token_reuse", "logout", "logout_all"}
Verdicts == Reasons \cup {"rotated", "rejected"}

ASSUME NamesAssumption ==
    /\ Original \notin Refreshes
    /\ None \notin Tokens \cup Tabs \cup Verdicts

TypeOK ==
    /\ session \in [jti : Tokens, revoked : Reasons \cup {None}]
    /\ jar \in Tokens \cup {None}
    /\ request \in [Requests -> [pc : Phases,
                                 tab : Tabs \cup {None},
                                 cookie : Tokens \cup {None},
                                 verdict : Verdicts \cup {"invalid", None},
                                 reply : {"none", "awaited", "over"}]]
    /\ excused \in BOOLEAN

NotSent == [pc |-> "ready", tab |-> None, cookie |-> None, verdict |-> None, reply |-> "none"]

Init ==
    /\ session = [jti |-> Original, revoked |-> None]
    /\ jar = Original
    /\ request = [r \in Requests |-> NotSent]
    /\ excused = FALSE

-----------------------------------------------------------------------------
\* Helpers.

Awaited == {r \in Requests : request[r].reply = "awaited"}

\* Definitions named Faulty... are variants with one plausible mistake.  Nothing
\* uses them; each is substituted for the definition it precedes to see that a
\* property notices.

\* The row is read without FOR UPDATE.
FaultyRowFree == TRUE

\* get_by_id_for_update waits for the transaction that has the row.
RowFree == \A r \in Requests : request[r].pc \notin {"decided", "answered"}

\* Every rejected request of the tab starts a refresh of its own.
FaultyMayRefresh(tab) == TRUE

\* refreshPromise.
MayRefresh(tab) == \A r \in Refreshes \cap Awaited : request[r].tab # tab

\* rotate_refresh_token_with_csrf, revoke_refresh_session_with_csrf,
\* revoke_all_sessions_for_user.
Verdict(r) ==
    CASE session.revoked # None -> "rejected"
      [] session.revoked = None /\ r \in LogoutAlls -> "logout_all"
      [] session.revoked = None /\ r \notin LogoutAlls ->
           IF request[r].cookie # session.jti THEN "refresh_token_reuse"
           ELSE IF r \in Refreshes THEN "rotated" ELSE "logout"

\* The reuse error leaves the route and the transaction is rolled back.
FaultyApplied(r) ==
    CASE request[r].verdict = "rotated" -> [session EXCEPT !.jti = r]
      [] request[r].verdict \in {"logout", "logout_all"} ->
           [session EXCEPT !.revoked = request[r].verdict]
      [] OTHER -> session

\* The row as r leaves it.
Applied(r) ==
    CASE request[r].verdict = "rotated" -> [session EXCEPT !.jti = r]
      [] request[r].verdict \in Reasons -> [session EXCEPT !.revoked = request[r].verdict]
      [] OTHER -> session

-----------------------------------------------------------------------------
\* A tab sends a request with the cookie of the moment.

Send(r, tab) ==
    /\ request[r].pc = "ready"
    /\ jar # None
    /\ request' = [request EXCEPT ![r].pc = "sent", ![r].tab = tab,
                                  ![r].cookie = jar, ![r].reply = "awaited"]
    /\ UNCHANGED <<session, jar>>

\* performAccessTokenRefresh; another tab's request or a logout may be on the way.
SendRefresh(r, tab) ==
    /\ r \in Refreshes
    /\ MayRefresh(tab)
    /\ Send(r, tab)
    /\ excused' = (excused \/ \E q \in Awaited : request[q].tab # tab \/ q \notin Refreshes)

\* The user logs out, here or everywhere, whatever else is on the way.
SendLogout(r, tab) ==
    /\ r \in Logouts \cup LogoutAlls
    /\ Send(r, tab)
    /\ excused' = (excused \/ Awaited # {})

\* The backend locks the row and decides on what it reads.
Decide(r) ==
    /\ request[r].pc = "sent"
    /\ RowFree
    /\ request' = [request EXCEPT ![r].pc = "decided", ![r].verdict = Verdict(r)]
    /\ UNCHANGED <<session, jar, excused>>

\* The response is sent; the transaction is still open.
Answer(r) ==
    /\ request[r].pc = "decided"
    /\ request' = [request EXCEPT ![r].pc = "answered"]
    /\ UNCHANGED <<session, jar, excused>>

\* session.commit().
Commit(r) ==
    /\ request[r].pc = "answered"
    /\ session' = Applied(r)
    /\ request' = [request EXCEPT ![r].pc = "committed"]
    /\ UNCHANGED <<jar, excused>>

\* A commit that fails, or a process that dies, after the answer.
CommitFails(r) ==
    /\ request[r].pc = "answered"
    /\ request' = [request EXCEPT ![r].pc = "rolledback"]
    /\ excused' = TRUE
    /\ UNCHANGED <<session, jar>>

\* 401 or 403: a token that does not decode, a CSRF cookie or header that is missing or
\* of another session.  The row is not looked at and the cookies stay.
Refuse(r) ==
    /\ r \notin LogoutAlls
    /\ request[r].pc = "sent"
    /\ request' = [request EXCEPT ![r] = [NotSent EXCEPT !.pc = "rolledback"]]
    /\ UNCHANGED <<session, jar, excused>>

\* A logout with a token that does not decode, as one that has expired, answers like
\* any other.
RefuseLogout(r) ==
    /\ r \in Logouts
    /\ request[r].pc = "sent"
    /\ request' = [request EXCEPT ![r].pc = "rolledback", ![r].verdict = "invalid"]
    /\ excused' = TRUE
    /\ UNCHANGED <<session, jar>>

\* An error before the answer: rolled back, and the browser learns no token.
Fail(r) ==
    /\ request[r].pc \in {"sent", "decided"}
    /\ request' = [request EXCEPT ![r] = [NotSent EXCEPT !.pc = "rolledback"]]
    /\ UNCHANGED <<session, jar, excused>>

\* The tab no longer waits.
Over(r) == request' = [request EXCEPT ![r].reply = "over", ![r].tab = None]

\* A rotation brings a cookie (set_refresh_cookie), a detected reuse and every
\* logout clear it (clear_auth_cookies).
CookieAfter(r) ==
    CASE request[r].verdict = "rotated" -> r
      [] request[r].verdict \in Reasons \/ r \notin Refreshes -> None
      [] OTHER -> jar

\* The browser gets a response.
Receive(r) ==
    /\ request[r].pc \in {"answered", "committed", "rolledback"}
    /\ request[r].reply = "awaited"
    /\ Over(r)
    /\ jar' = CookieAfter(r)
    /\ UNCHANGED <<session, excused>>

\* The connection breaks; the backend goes on with what has reached it.
LoseReply(r) ==
    /\ request[r].reply = "awaited"
    /\ Over(r)
    /\ excused' = TRUE
    /\ UNCHANGED <<session, jar>>

Next ==
    \E r \in Requests :
        \/ \E tab \in Tabs : SendRefresh(r, tab) \/ SendLogout(r, tab)
        \/ Refuse(r) \/ RefuseLogout(r)
        \/ Decide(r)
        \/ Answer(r)
        \/ Commit(r)
        \/ CommitFails(r)
        \/ Fail(r)
        \/ Receive(r)
        \/ LoseReply(r)

Spec == Init /\ [][Next]_vars

-----------------------------------------------------------------------------
\* Properties.

Through(r) == request[r].pc = "committed"
Rotated(r) == Through(r) /\ request[r].verdict = "rotated"

\* A refresh token is redeemed once: of two requests that present the same jti
\* one at most rotates it (rotate_refresh_token_with_csrf).
OneRedemption ==
    \A r, q \in Refreshes :
        r # q /\ Rotated(r) /\ Rotated(q) => request[r].cookie # request[q].cookie

\* A revoked session keeps its reason and its last jti, whatever requests were
\* under way when it was revoked (get_by_id_for_update, revoke, revoke_all_for_user).
RevokedIsFinal ==
    [][session.revoked # None => session' = session]_vars

\* "The endpoint catches the security exception and returns a Response normally,
\* allowing the revocation transaction to commit" (get_db_session): once a token
\* that was rotated has been presented a second time, the session is over.
ReuseEndsTheSession ==
    \A r \in Refreshes, q \in Requests \ LogoutAlls :
        r # q /\ Rotated(r) /\ Through(q) /\ request[r].cookie = request[q].cookie =>
          session.revoked # None

AtRest ==
    /\ Awaited = {}
    /\ \A r \in Requests : request[r].pc \in {"ready", "committed", "rolledback"}

\* A browser that uses its session as intended keeps it: unless a response or a
\* commit is lost, requests of two tabs overlap, a logout overlaps a refresh, or one
\* comes with a token that has expired, no token counts as reused, and at rest the
\* jar has the current one.
BrowserKeepsItsSession ==
    ~excused =>
        /\ session.revoked # "refresh_token_reuse"
        /\ AtRest /\ session.revoked = None => jar = session.jti
=============================================================================
