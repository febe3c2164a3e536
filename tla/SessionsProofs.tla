----------------------------- MODULE SessionsProofs -----------------------------
(***************************************************************************)
(* Proofs about sessions, from their two sides.                            *)
(*                                                                         *)
(* RefreshSessions, for any number of tabs and requests.                   *)
(* The row lock makes a verdict keep its grounds until it is committed:    *)
(* whoever has decided is alone (Serial), so the session is still as it    *)
(* was when the verdict was reached (VerdictHolds).  A token that has been *)
(* redeemed is not current again, since a rotation installs a token of its *)
(* own and a redeemed token was committed before (Redeemed).               *)
(*                                                                         *)
(* BrowserSession, for any number of calls, sign-ins and rotations.        *)
(* What the tab shows follows from where it is between signing in and      *)
(* signing out: unless something of before was under way, it is in one of  *)
(* seven phases (InAPhase).  They are kept because no call is rejected     *)
(* that was sent with a token in its first use (InUseIsValid), which is    *)
(* because no token has expired that was not issued before (Issued).       *)
(***************************************************************************)
EXTENDS Sessions, TLAPS

InTransaction(r) == request[r].pc \in {"decided", "answered"}

Serial ==
    \A r, q \in Requests : InTransaction(r) /\ InTransaction(q) => r = q

OnlyRefreshesRotate ==
    \A r \in Requests : request[r].verdict = "rotated" => r \in Refreshes

VerdictHolds ==
    \A r \in Requests :
      InTransaction(r) =>
        /\ request[r].verdict \in Verdicts
        /\ request[r].verdict = "rejected" <=> session.revoked # None
        /\ request[r].verdict = "rotated" => request[r].cookie = session.jti

CurrentWasCommitted ==
    session.jti \in Refreshes => request[session.jti].pc = "committed"

Redeemed ==
    \A r \in Refreshes :
      Rotated(r) =>
        /\ request[r].cookie # session.jti
        /\ request[r].cookie \in Refreshes =>
             request[request[r].cookie].pc = "committed"

\* As long as the session lives, only rotations have been committed.
OnlyRotations ==
    \A r \in Requests :
      Through(r) /\ session.revoked = None =>
        request[r].verdict = "rotated"

IInv ==
    /\ TypeOK
    /\ Serial
    /\ OnlyRefreshesRotate
    /\ VerdictHolds
    /\ CurrentWasCommitted
    /\ Redeemed
    /\ OnlyRotations
    /\ OneRedemption

-----------------------------------------------------------------------------
\* A verdict is one of the verdicts, whatever the row and the cookie say.
LEMMA VerdictType ==
  ASSUME NEW r \in Requests
  PROVE  /\ Verdict(r) \in Verdicts
         /\ Verdict(r) = "rejected" <=> session.revoked # None
         /\ Verdict(r) = "rotated" =>
              r \in Refreshes /\ request[r].cookie = session.jti
  BY DEF Verdict, Verdicts, Reasons

\* What a commit makes of the row.
LEMMA AppliedCases ==
  ASSUME TypeOK, OnlyRefreshesRotate, VerdictHolds, NEW r \in Requests, request[r].pc = "answered"
  PROVE  \/ /\ request[r].verdict = "rotated" /\ session.revoked = None
            /\ r \in Refreshes /\ request[r].cookie = session.jti
            /\ Applied(r) = [session EXCEPT !.jti = r]
         \/ /\ request[r].verdict \in Reasons /\ session.revoked = None
            /\ Applied(r) = [session EXCEPT !.revoked = request[r].verdict]
         \/ /\ request[r].verdict = "rejected" /\ session.revoked # None
            /\ Applied(r) = session
  BY DEF OnlyRefreshesRotate, VerdictHolds, InTransaction, Applied, Verdicts, Reasons

\* Every variable keeps its type.
LEMMA TypeInvariant ==
  ASSUME TypeOK, OnlyRefreshesRotate, VerdictHolds, [Next]_vars
  PROVE  TypeOK'
<1> USE DEF TypeOK, Phases, Requests, Tokens
<1>1. ASSUME NEW r \in Requests, NEW tab \in Tabs, SendRefresh(r, tab) \/ SendLogout(r, tab)
      PROVE  TypeOK'
  <2>1. excused' \in BOOLEAN
    BY <1>1, Zenon DEF SendRefresh, SendLogout
  <2>2. Send(r, tab)
    BY <1>1 DEF SendRefresh, SendLogout
  <2> QED
    BY <2>1, <2>2 DEF Send
<1>2. ASSUME NEW r \in Requests, Decide(r) PROVE TypeOK'
  <2>1. Verdict(r) \in Verdicts
    BY VerdictType
  <2> QED
    BY <1>2, <2>1 DEF Decide
<1>3. ASSUME NEW r \in Requests, Answer(r) PROVE TypeOK'
  BY <1>3 DEF Answer
<1>4. ASSUME NEW r \in Requests, Commit(r) PROVE TypeOK'
  <2>1. Applied(r) \in [jti : Tokens, revoked : Reasons \cup {None}]
    BY <1>4, AppliedCases DEF Commit
  <2> QED
    BY <1>4, <2>1 DEF Commit
<1>5. ASSUME NEW r \in Requests, CommitFails(r) PROVE TypeOK'
  BY <1>5 DEF CommitFails
<1>6. ASSUME NEW r \in Requests, Refuse(r) \/ RefuseLogout(r) \/ Fail(r) PROVE TypeOK'
  <2>1. CASE Refuse(r) \/ Fail(r)
    BY <2>1 DEF Refuse, Fail, NotSent
  <2>2. CASE RefuseLogout(r)
    <3> DEFINE refused == [request[r] EXCEPT !.pc = "rolledback", !.verdict = "invalid"]
    <3>1. request[r] \in [pc : Phases, tab : Tabs \cup {None}, cookie : Tokens \cup {None},
                          verdict : Verdicts \cup {"invalid", None},
                          reply : {"none", "awaited", "over"}]
      BY <2>2
    <3>2. refused \in [pc : Phases, tab : Tabs \cup {None}, cookie : Tokens \cup {None},
                       verdict : Verdicts \cup {"invalid", None},
                       reply : {"none", "awaited", "over"}]
      BY <3>1
    <3>3. request' = [request EXCEPT ![r] = refused]
      BY <2>2 DEF RefuseLogout
    <3> HIDE DEF refused
    <3>4. request' \in [Requests -> [pc : Phases, tab : Tabs \cup {None},
                                     cookie : Tokens \cup {None},
                                     verdict : Verdicts \cup {"invalid", None},
                                     reply : {"none", "awaited", "over"}]]
      BY <3>2, <3>3
    <3>5. excused' \in BOOLEAN
      BY <2>2, Zenon DEF RefuseLogout
    <3>6. UNCHANGED <<session, jar>>
      BY <2>2 DEF RefuseLogout
    <3> QED
      BY <3>4, <3>5, <3>6
  <2> QED
    BY <1>6, <2>1, <2>2
<1>7. ASSUME NEW r \in Requests, Receive(r) PROVE TypeOK'
  <2>1. CookieAfter(r) \in Tokens \cup {None}
    BY DEF CookieAfter, OnlyRefreshesRotate
  <2> QED
    BY <1>7, <2>1 DEF Receive, Over
<1>8. ASSUME NEW r \in Requests, LoseReply(r) PROVE TypeOK'
  BY <1>8 DEF LoseReply, Over
<1>9. CASE UNCHANGED vars
  BY <1>9 DEF vars
<1> QED
  BY <1>1, <1>2, <1>3, <1>4, <1>5, <1>6, <1>7, <1>8, <1>9 DEF Next

\* A step that leaves the row and every transaction where it was, or takes one
\* out of its transaction without a commit, keeps the invariant.
LEMMA Unnoticed ==
  ASSUME IInv, TypeOK', session' = session,
         \A q \in Requests :
           \/ /\ request'[q].pc = request[q].pc
              /\ request'[q].verdict = request[q].verdict
              /\ request'[q].cookie = request[q].cookie
           \/ /\ request[q].pc # "committed"
              /\ request'[q].pc \in {"sent", "rolledback"}
              /\ request'[q].verdict \in {request[q].verdict, None, "invalid"}
           \/ /\ request[q].pc = "decided" /\ request'[q].pc = "answered"
              /\ request'[q].verdict = request[q].verdict
              /\ request'[q].cookie = request[q].cookie
  PROVE  IInv'
<1> USE DEF IInv, TypeOK, InTransaction, Through, Rotated, Requests
<1>1. Serial'
  BY DEF Serial
<1>2. OnlyRefreshesRotate'
  BY NamesAssumption DEF OnlyRefreshesRotate, Verdicts
<1>3. VerdictHolds'
  BY DEF VerdictHolds
<1>4. CurrentWasCommitted'
  BY DEF CurrentWasCommitted
<1>5. Redeemed'
  BY DEF Redeemed
<1>6. OnlyRotations'
  BY DEF OnlyRotations
<1>7. OneRedemption'
  BY DEF OneRedemption
<1> QED
  BY <1>1, <1>2, <1>3, <1>4, <1>5, <1>6, <1>7

\* The verdict of a request that gets the row rests on the row.
LEMMA DecidePreserves ==
  ASSUME IInv, TypeOK', NEW r \in Requests, Decide(r)
  PROVE  IInv'
<1> USE DEF IInv, TypeOK, InTransaction, Through, Rotated, Requests
<1>1. /\ session' = session
      /\ request[r].pc = "sent" /\ request'[r].pc = "decided"
      /\ request'[r].verdict = Verdict(r) /\ request'[r].cookie = request[r].cookie
      /\ \A q \in Requests : q # r => request'[q] = request[q]
  BY DEF Decide
<1>2. Serial'
  BY <1>1 DEF Serial, Decide, RowFree
<1>3. OnlyRefreshesRotate' /\ VerdictHolds'
  <2>1. \A q \in Requests : q # r => ~InTransaction(q)'
    BY <1>1 DEF Decide, RowFree
  <2> QED
    BY <1>1, <2>1, VerdictType DEF OnlyRefreshesRotate, VerdictHolds
<1>4. CurrentWasCommitted' /\ OnlyRotations'
  BY <1>1 DEF CurrentWasCommitted, OnlyRotations
<1>5. Redeemed' /\ OneRedemption'
  BY <1>1 DEF Redeemed, OneRedemption
<1> QED
  BY <1>2, <1>3, <1>4, <1>5

\* A commit does what its verdict says to a row nobody else has touched.
LEMMA CommitPreserves ==
  ASSUME IInv, TypeOK', NEW r \in Requests, Commit(r)
  PROVE  IInv'
<1> USE DEF IInv, TypeOK, InTransaction, Through, Rotated, Requests
<1>1. /\ session' = Applied(r)
      /\ request[r].pc = "answered" /\ request'[r].pc = "committed"
      /\ request'[r].verdict = request[r].verdict
      /\ request'[r].cookie = request[r].cookie
      /\ \A q \in Requests : q # r => request'[q] = request[q]
  BY DEF Commit
<1>2. \A q \in Requests : ~InTransaction(q)'
  BY <1>1 DEF Serial
<1>3. Serial' /\ VerdictHolds' /\ OnlyRefreshesRotate'
  BY <1>1, <1>2 DEF Serial, VerdictHolds, OnlyRefreshesRotate
<1>4. CASE /\ request[r].verdict = "rotated" /\ session.revoked = None
           /\ r \in Refreshes /\ request[r].cookie = session.jti
           /\ Applied(r) = [session EXCEPT !.jti = r]
  <2>1. session'.jti = r /\ session'.revoked = None
    BY <1>1, <1>4
  <2>2. CurrentWasCommitted' /\ OnlyRotations'
    BY <1>1, <1>4, <2>1 DEF CurrentWasCommitted, OnlyRotations
  <2>3. session.jti # r
    BY <1>1, <1>4 DEF CurrentWasCommitted
  <2>4. Redeemed'
    <3>1. ASSUME NEW q \in Refreshes, Rotated(q)'
          PROVE  /\ request'[q].cookie # session'.jti
                 /\ request'[q].cookie \in Refreshes =>
                      request'[request'[q].cookie].pc = "committed"
      <4>1. CASE q = r
        BY <1>1, <1>4, <2>1, <2>3, <4>1 DEF CurrentWasCommitted
      <4>2. CASE q # r
        BY <1>1, <1>4, <2>1, <3>1, <4>2 DEF Redeemed
      <4> QED
        BY <4>1, <4>2
    <3> QED
      BY <3>1 DEF Redeemed
  <2>5. OneRedemption'
    BY <1>1, <1>4 DEF OneRedemption, Redeemed
  <2> QED
    BY <1>3, <2>2, <2>4, <2>5
<1>5. CASE request[r].verdict # "rotated" /\ session'.jti = session.jti
  <2>1. CurrentWasCommitted' /\ Redeemed' /\ OneRedemption'
    BY <1>1, <1>5 DEF CurrentWasCommitted, Redeemed, OneRedemption
  <2>2. session'.revoked # None
    BY <1>1, <1>5, AppliedCases, NamesAssumption DEF Verdicts
  <2>3. OnlyRotations'
    BY <2>2 DEF OnlyRotations
  <2> QED
    BY <1>3, <2>1, <2>3
<1>6. request[r].verdict # "rotated" => session'.jti = session.jti
  BY <1>1, AppliedCases
<1>7. request[r].verdict = "rotated" =>
        /\ session.revoked = None /\ r \in Refreshes
        /\ request[r].cookie = session.jti
        /\ Applied(r) = [session EXCEPT !.jti = r]
  BY <1>1, AppliedCases DEF Reasons
<1> QED
  BY <1>4, <1>5, <1>6, <1>7

LEMMA Inductive == ASSUME IInv, [Next]_vars PROVE IInv'
<1>1. TypeOK'
  BY TypeInvariant DEF IInv
<1> USE <1>1 DEF IInv, TypeOK, Requests
<1>2. ASSUME NEW r \in Requests, NEW tab \in Tabs, SendRefresh(r, tab) \/ SendLogout(r, tab)
      PROVE  IInv'
  BY <1>2, Unnoticed DEF SendRefresh, SendLogout, Send
<1>3. ASSUME NEW r \in Requests, Decide(r) PROVE IInv'
  BY <1>3, DecidePreserves
<1>4. ASSUME NEW r \in Requests, Answer(r) PROVE IInv'
  BY <1>4, Unnoticed DEF Answer
<1>5. ASSUME NEW r \in Requests, Commit(r) PROVE IInv'
  BY <1>5, CommitPreserves
<1>6. ASSUME NEW r \in Requests, CommitFails(r) PROVE IInv'
  BY <1>6, Unnoticed DEF CommitFails
<1>7. ASSUME NEW r \in Requests, Refuse(r) \/ RefuseLogout(r) \/ Fail(r) PROVE IInv'
  BY <1>7, Unnoticed DEF Refuse, RefuseLogout, Fail, NotSent
<1>8. ASSUME NEW r \in Requests, Receive(r) \/ LoseReply(r) PROVE IInv'
  BY <1>8, Unnoticed DEF Receive, LoseReply, Over
<1>9. CASE UNCHANGED vars
  BY <1>9, Unnoticed DEF vars
<1> QED
  BY <1>2, <1>3, <1>4, <1>5, <1>6, <1>7, <1>8, <1>9 DEF Next

\* The strengthened invariant holds throughout.
THEOREM Invariance == Spec => []IInv
<1>1. Init => IInv
  <2> SUFFICES ASSUME Init PROVE IInv
    OBVIOUS
  <2>1. TypeOK
    BY DEF Init, NotSent, TypeOK, Phases, Requests, Tokens
  <2>2. /\ session.jti = Original
        /\ \A r \in Requests : request[r].pc = "ready" /\ request[r].verdict = None
    BY DEF Init, NotSent
  <2>3. Refreshes \subseteq Requests
    BY DEF Requests
  <2> QED
    BY <2>1, <2>2, <2>3, NamesAssumption
    DEF IInv, Verdicts, Serial, OnlyRefreshesRotate, VerdictHolds,
        CurrentWasCommitted, Redeemed, OnlyRotations, OneRedemption,
        InTransaction, Through, Rotated
<1>2. IInv /\ [Next]_vars => IInv'
  BY Inductive
<1> QED
  BY <1>1, <1>2, PTL DEF Spec

\* The variables keep their types, for any tabs and requests.
THEOREM TypeCorrect == Spec => []TypeOK
<1>1. IInv => TypeOK
  BY DEF IInv
<1> QED
  BY <1>1, Invariance, PTL

\* However many requests present a refresh token, one at most redeems it
\* (get_by_id_for_update in rotate_refresh_token_with_csrf).
THEOREM TokensAreRedeemedOnce == Spec => []OneRedemption
<1>1. IInv => OneRedemption
  BY DEF IInv
<1> QED
  BY <1>1, Invariance, PTL

\* Presenting a redeemed token ends the session, although the request that does
\* so is answered with an error (refresh_token_reuse).
THEOREM ReuseIsPunished == Spec => []ReuseEndsTheSession
<1>1. IInv => ReuseEndsTheSession
  BY DEF IInv, OnlyRotations, OnlyRefreshesRotate, OneRedemption,
         ReuseEndsTheSession, Rotated, Through, Requests
<1> QED
  BY <1>1, Invariance, PTL

LEMMA FinalStep ==
  ASSUME IInv, [Next]_vars, session.revoked # None
  PROVE  session' = session
<1>1. ASSUME NEW r \in Requests, Commit(r) PROVE session' = session
  BY <1>1, AppliedCases DEF IInv, Commit
<1> QED
  BY <1>1 DEF Next, vars, SendRefresh, SendLogout, Send, Refuse, RefuseLogout, Decide, Answer,
              CommitFails, Fail, Receive, LoseReply

\* A revoked session is left alone by every request that was under way.
THEOREM RevocationIsFinal == Spec => RevokedIsFinal
<1>1. IInv /\ [Next]_vars => [session.revoked # None => session' = session]_vars
  BY FinalStep
<1> QED
  BY <1>1, Invariance, PTL DEF Spec, RevokedIsFinal
-----------------------------------------------------------------------------
\* Why a browser keeps its session.  While nothing excuses its loss, one request at most is
\* awaited, so that a request decides only after the one before it has committed.

\* What holds of the requests and the jar until something excuses the loss of the session.
OneAwaited ==
    /\ \A r, q \in Awaited : r = q
    /\ \A r \in Requests : request[r].pc \in {"sent", "decided"} => r \in Awaited
    /\ \A r \in Awaited : request[r].pc \in {"sent", "decided", "answered", "committed"}

\* A committed request whose reply is awaited is the last one that had the row.
LastHadTheRow ==
    \A r \in Awaited : request[r].pc = "committed" => \A q \in Requests : ~InTransaction(q)

NoReuseSeen ==
    /\ session.revoked # "refresh_token_reuse"
    /\ \A r \in Requests : request[r].verdict # "refresh_token_reuse"

\* A request on its way presents what the jar still has.
CookieIsTheJars ==
    \A r \in Requests : request[r].pc \in {"sent", "decided"} => request[r].cookie = jar

\* The jar has what the row is going to have, once the reply to the last request is there.
JarFollows ==
    session.revoked = None =>
        /\ \A r \in Requests \ Awaited : request[r].pc = "answered" =>
             jar = IF request[r].verdict = "rotated" THEN r ELSE None
        /\ \A r \in Awaited : request[r].pc = "committed" => session.jti = r
        /\ (\A r \in Requests : InTransaction(r) => r \in Awaited)
             /\ (\A r \in Awaited : request[r].pc # "committed") => jar = session.jti

Kept == OneAwaited /\ LastHadTheRow /\ NoReuseSeen /\ CookieIsTheJars /\ JarFollows

KeptInv == ~excused => Kept

LEMMA KeptSend ==
  ASSUME IInv, Kept, NEW r \in Requests, NEW tab \in Tabs,
         SendRefresh(r, tab) \/ SendLogout(r, tab), ~excused'
  PROVE  Kept'
<1>1. Awaited = {}
  <2>1. CASE SendRefresh(r, tab)
    BY <2>1 DEF SendRefresh, MayRefresh, Awaited
  <2>2. CASE SendLogout(r, tab)
    BY <2>2 DEF SendLogout
  <2> QED
    BY <2>1, <2>2
<1>2. /\ UNCHANGED <<session, jar>> /\ request[r].pc = "ready"
      /\ request'[r].pc = "sent" /\ request'[r].cookie = jar
      /\ request'[r].reply = "awaited" /\ request'[r].verdict = request[r].verdict
      /\ \A q \in Requests \ {r} : request'[q] = request[q]
  BY DEF SendRefresh, SendLogout, Send, IInv, TypeOK
<1>3. Awaited' = {r}
  BY <1>1, <1>2 DEF Awaited
<1>4. OneAwaited' /\ LastHadTheRow' /\ NoReuseSeen'
  BY <1>2, <1>3, <1>1 DEF Kept, OneAwaited, LastHadTheRow, NoReuseSeen
<1>5. CookieIsTheJars'
  BY <1>2 DEF Kept, CookieIsTheJars
<1>6. JarFollows'
  BY <1>1, <1>2, <1>3 DEF Kept, JarFollows, InTransaction
<1> QED
  BY <1>4, <1>5, <1>6 DEF Kept

\* The row is free, so the jar has its jti, and so has the request.
LEMMA KeptDecide ==
  ASSUME IInv, Kept, NEW r \in Requests, Decide(r)
  PROVE  Kept'
<1>1. /\ UNCHANGED <<session, jar>> /\ request[r].pc = "sent"
      /\ request'[r].pc = "decided" /\ request'[r].cookie = request[r].cookie
      /\ request'[r].reply = request[r].reply /\ request'[r].verdict = Verdict(r)
      /\ \A q \in Requests \ {r} : request'[q] = request[q]
  BY DEF Decide, IInv, TypeOK
<1>2. Awaited' = Awaited /\ Awaited = {r}
  BY <1>1 DEF Awaited, Kept, OneAwaited
<1>3. \A q \in Requests : ~InTransaction(q)
  BY DEF Decide, RowFree, InTransaction
<1>4. session.revoked = None => jar = session.jti /\ request[r].cookie = session.jti
  BY <1>1, <1>2, <1>3 DEF Kept, JarFollows, CookieIsTheJars
<1>5. Verdict(r) # "refresh_token_reuse"
  BY <1>4 DEF Verdict
<1>6. OneAwaited' /\ LastHadTheRow' /\ NoReuseSeen'
  BY <1>1, <1>2, <1>5 DEF Kept, OneAwaited, LastHadTheRow, NoReuseSeen
<1>7. CookieIsTheJars'
  BY <1>1 DEF Kept, CookieIsTheJars
<1>8. JarFollows'
  BY <1>1, <1>2, <1>3, <1>4 DEF JarFollows, InTransaction
<1> QED
  BY <1>6, <1>7, <1>8 DEF Kept

LEMMA KeptAnswer ==
  ASSUME IInv, Kept, NEW r \in Requests, Answer(r)
  PROVE  Kept'
<1>1. /\ UNCHANGED <<session, jar>> /\ request[r].pc = "decided"
      /\ request'[r].pc = "answered" /\ request'[r].cookie = request[r].cookie
      /\ request'[r].reply = request[r].reply /\ request'[r].verdict = request[r].verdict
      /\ \A q \in Requests \ {r} : request'[q] = request[q]
  BY DEF Answer, IInv, TypeOK
<1>2. Awaited' = Awaited /\ Awaited = {r}
  BY <1>1 DEF Awaited, Kept, OneAwaited
<1>3. OneAwaited' /\ LastHadTheRow' /\ NoReuseSeen'
  BY <1>1, <1>2 DEF Kept, OneAwaited, LastHadTheRow, NoReuseSeen
<1>4. CookieIsTheJars'
  BY <1>1 DEF Kept, CookieIsTheJars
<1>5. JarFollows'
  BY <1>1, <1>2 DEF Kept, JarFollows, InTransaction
<1> QED
  BY <1>3, <1>4, <1>5 DEF Kept

\* The row becomes what the jar has already, or will have with the reply.
LEMMA KeptCommit ==
  ASSUME IInv, Kept, NEW r \in Requests, Commit(r)
  PROVE  Kept'
<1>1. /\ UNCHANGED jar /\ session' = Applied(r) /\ request[r].pc = "answered"
      /\ request'[r].pc = "committed" /\ request'[r].cookie = request[r].cookie
      /\ request'[r].reply = request[r].reply /\ request'[r].verdict = request[r].verdict
      /\ \A q \in Requests \ {r} : request'[q] = request[q]
  BY DEF Commit, IInv, TypeOK
<1>2. Awaited' = Awaited /\ Awaited \subseteq Requests
  BY <1>1 DEF Awaited
<1>3. \A q \in Requests : InTransaction(q) => q = r
  BY <1>1 DEF IInv, Serial, InTransaction
<1>4. \A q \in Requests : ~InTransaction(q)'
  BY <1>1, <1>3 DEF InTransaction
<1>5. OneAwaited' /\ LastHadTheRow'
  <2>1. OneAwaited'
    BY <1>1, <1>2 DEF Kept, OneAwaited
  <2>2. LastHadTheRow'
    BY <1>4 DEF LastHadTheRow
  <2> QED
    BY <2>1, <2>2
<1>6. CookieIsTheJars'
  BY <1>1 DEF Kept, CookieIsTheJars
<1>7. CASE /\ request[r].verdict = "rotated" /\ session.revoked = None
           /\ Applied(r) = [session EXCEPT !.jti = r]
  <2>1. session'.jti = r /\ session'.revoked = None
    BY <1>1, <1>7 DEF IInv, TypeOK
  <2>2. NoReuseSeen'
    BY <1>1, <1>7, <2>1, NamesAssumption DEF Kept, NoReuseSeen, Verdicts, Reasons
  <2>3. \A q \in Awaited : request'[q].pc = "committed" => q = r
    BY <1>1, <1>2 DEF Kept, LastHadTheRow, InTransaction
  <2>4. r \notin Awaited => jar = r
    BY <1>1, <1>7 DEF Kept, JarFollows
  <2>5. JarFollows'
    BY <1>1, <1>2, <1>4, <2>1, <2>3, <2>4 DEF JarFollows, InTransaction
  <2> QED
    BY <1>5, <1>6, <2>2, <2>5 DEF Kept
<1>8. CASE session'.revoked # None
  <2>1. JarFollows'
    BY <1>8 DEF JarFollows
  <2>2. session'.revoked \in {session.revoked, request[r].verdict}
    BY <1>1, AppliedCases DEF IInv, TypeOK
  <2>3. NoReuseSeen'
    BY <1>1, <2>2 DEF Kept, NoReuseSeen
  <2> QED
    BY <1>5, <1>6, <2>1, <2>3 DEF Kept
<1> QED
  BY <1>1, <1>7, <1>8, AppliedCases, NamesAssumption DEF IInv, TypeOK, Verdicts

\* The request is gone, and the browser has learnt nothing.
LEMMA KeptFail ==
  ASSUME IInv, Kept, NEW r \in Requests, Refuse(r) \/ Fail(r)
  PROVE  Kept'
<1>1. /\ UNCHANGED <<session, jar>> /\ request[r].pc \in {"sent", "decided"}
      /\ request'[r].pc = "rolledback" /\ request'[r].reply = "none"
      /\ request'[r].verdict = None
      /\ \A q \in Requests \ {r} : request'[q] = request[q]
  BY DEF Refuse, Fail, NotSent, IInv, TypeOK
<1>2. Awaited' = {} /\ Awaited = {r}
  BY <1>1 DEF Awaited, Kept, OneAwaited
<1>3. OneAwaited' /\ LastHadTheRow' /\ NoReuseSeen'
  BY <1>1, <1>2, NamesAssumption
  DEF Kept, OneAwaited, LastHadTheRow, NoReuseSeen, Verdicts, Reasons
<1>4. CookieIsTheJars'
  BY <1>1 DEF Kept, CookieIsTheJars
<1>5. JarFollows'
  BY <1>1, <1>2 DEF Kept, JarFollows, InTransaction
<1> QED
  BY <1>3, <1>4, <1>5 DEF Kept

LEMMA KeptReceive ==
  ASSUME IInv, Kept, NEW r \in Requests, Receive(r)
  PROVE  Kept'
<1>1. /\ UNCHANGED session /\ jar' = CookieAfter(r)
      /\ request[r].pc \in {"answered", "committed", "rolledback"}
      /\ request[r].reply = "awaited" /\ request'[r].reply = "over"
      /\ request'[r].pc = request[r].pc /\ request'[r].verdict = request[r].verdict
      /\ \A q \in Requests \ {r} : request'[q] = request[q]
  BY DEF Receive, Over, IInv, TypeOK
<1>2. Awaited' = {} /\ Awaited = {r}
  BY <1>1 DEF Awaited, Kept, OneAwaited
<1>3. OneAwaited' /\ LastHadTheRow' /\ NoReuseSeen'
  BY <1>1, <1>2 DEF Kept, OneAwaited, LastHadTheRow, NoReuseSeen
<1>4. \A q \in Requests : request[q].pc \notin {"sent", "decided"}
  BY <1>1, <1>2 DEF Kept, OneAwaited
<1>5. CookieIsTheJars'
  BY <1>1, <1>4 DEF CookieIsTheJars
<1>6. ASSUME session.revoked = None
      PROVE  request[r].pc = "answered" => request[r].verdict \in Reasons \cup {"rotated"}
  BY <1>6 DEF IInv, VerdictHolds, InTransaction, Verdicts
<1>7. request[r].pc \in {"answered", "committed"}
  BY <1>1, <1>2 DEF Kept, OneAwaited
<1>8. request[r].verdict = "rotated" => jar' = r
  BY <1>1 DEF CookieAfter, IInv, OnlyRefreshesRotate, Reasons
<1>9. request[r].verdict \in Reasons => jar' = None
  BY <1>1 DEF CookieAfter, Reasons
<1>10. CASE request[r].pc = "answered"
  <2>1. \A q \in Requests : InTransaction(q) => q = r
    BY <1>10 DEF IInv, Serial, InTransaction
  <2> QED
    BY <1>1, <1>2, <1>3, <1>5, <1>6, <1>8, <1>9, <1>10, <2>1 DEF Kept, JarFollows, InTransaction,
       Reasons
<1>11. CASE request[r].pc = "committed"
  <2>1. \A q \in Requests : ~InTransaction(q)
    BY <1>2, <1>11 DEF Kept, LastHadTheRow
  <2>2. session.revoked = None => request[r].verdict = "rotated" /\ session.jti = r
    BY <1>2, <1>11 DEF IInv, OnlyRotations, Through, Kept, JarFollows
  <2>3. JarFollows'
    BY <1>1, <1>2, <1>8, <2>1, <2>2 DEF JarFollows, InTransaction
  <2> QED
    BY <1>3, <1>5, <2>3 DEF Kept
<1> QED
  BY <1>7, <1>10, <1>11

LEMMA KeptStays == ASSUME IInv, KeptInv, [Next]_vars PROVE KeptInv'
<1> SUFFICES ASSUME ~excused' PROVE Kept'
  BY DEF KeptInv
<1>1. CASE UNCHANGED vars
  BY <1>1 DEF vars, KeptInv, Kept, OneAwaited, LastHadTheRow, NoReuseSeen, CookieIsTheJars,
              JarFollows, Awaited, InTransaction
<1>2. CASE Next
  <2>1. PICK r \in Requests :
          \/ \E tab \in Tabs : SendRefresh(r, tab) \/ SendLogout(r, tab)
          \/ Refuse(r) \/ RefuseLogout(r)
          \/ Decide(r) \/ Answer(r) \/ Commit(r) \/ CommitFails(r) \/ Fail(r)
          \/ Receive(r) \/ LoseReply(r)
    BY <1>2 DEF Next
  <2>2. ~excused
    BY <2>1 DEF SendRefresh, SendLogout, Refuse, RefuseLogout, Decide, Answer, Commit,
                CommitFails, Fail, Receive, LoseReply
  <2>3. ~RefuseLogout(r) /\ ~CommitFails(r) /\ ~LoseReply(r)
    BY DEF RefuseLogout, CommitFails, LoseReply
  <2>4. Kept
    BY <2>2 DEF KeptInv
  <2> QED
    BY <2>1, <2>3, <2>4, KeptSend, KeptDecide, KeptAnswer, KeptCommit, KeptFail, KeptReceive
<1> QED
  BY <1>1, <1>2

\* A browser loses its session to reuse detection only after a lost response, a failed
\* commit or overlapping requests, and at rest it has the session's current token, unless
\* it has logged out with one that no longer decodes (rotate_refresh_token_with_csrf,
\* set_refresh_cookie, get_db_session).
THEOREM BrowsersKeepTheirSession == Spec => []BrowserKeepsItsSession
<1>1. Init => KeptInv
  <2> SUFFICES ASSUME Init PROVE Kept
    BY DEF KeptInv
  <2>1. \A r \in Requests : request[r] = NotSent
    BY DEF Init
  <2>2. Awaited = {}
    BY <2>1 DEF Awaited, NotSent
  <2> QED
    BY <2>1, <2>2, NamesAssumption DEF Init, NotSent, Kept, OneAwaited, LastHadTheRow,
       NoReuseSeen, CookieIsTheJars, JarFollows, InTransaction, Verdicts, Reasons
<1>2. IInv /\ KeptInv /\ [Next]_vars => KeptInv'
  BY KeptStays
<1>3. KeptInv => BrowserKeepsItsSession
  BY DEF KeptInv, Kept, NoReuseSeen, JarFollows, BrowserKeepsItsSession, AtRest, InTransaction
<1> QED
  BY <1>1, <1>2, <1>3, Invariance, PTL DEF Spec

-----------------------------------------------------------------------------
\* One tab and its user (BrowserSession).

\* Every token there is belongs to a session that has been asked for, and to one before the
\* one that a sign-in under way has asked for.
Former(t) == t # None => t.of <= entry.of /\ (entry.pc # "idle" => t.of < entry.of)

Issued ==
    /\ Former(token) /\ Former(tabJar) /\ Former(refresh.cookie) /\ Former(refresh.reply)
    /\ \A c \in Tab!Calls : Former(call[c].token) /\ Former(call[c].cookie)
    /\ \A t \in expired : Former(t) /\ t.turn <= tabSession[t.of].turn

\* Nothing that is in use for the first time has expired, so no such call is rejected.
CallIsValid(c) ==
    /\ call[c].pc = "free" => call[c] = Tab!Free
    /\ call[c].retried => call[c].token # None
    /\ c \in {"restore", "enter"} /\ call[c].pc # "free" => call[c].token # None
    /\ call[c].retried \/ c \in {"restore", "enter"} => call[c].token \notin expired
    /\ call[c].reply = "rejected" => call[c].token \in expired \cup {None}
    /\ call[c].reply = "ok" /\ c \notin {"logout", "undo"} => call[c].token # None
    /\ c \in {"logout", "undo"} =>
         /\ call[c].token = None /\ ~call[c].retried
         /\ call[c].reply # "rejected" /\ call[c].pc # "waiting"

InUseIsValid ==
    /\ refresh.reply \notin expired
    /\ refresh.pc # "served" => refresh.reply = None
    /\ \A c \in Tab!Calls : CallIsValid(c)

Only(S) == \A c \in Tab!Calls : call[c].pc # "free" => c \in S

Quiet == user = None /\ refresh.pc = "none"
Settled == restoring = "over" /\ entry.pc = "idle"

\* The phases of a tab in which nobody has signed in or out while something of before was
\* under way.
Restoring ==
    /\ restoring = "refresh" /\ refresh.pc # "none" /\ entry.pc = "idle"
    /\ user = None /\ token = None /\ Only({})
Asking(c) ==
    /\ restoring = IF c = "restore" THEN "me" ELSE "over"
    /\ Quiet /\ entry.pc = "idle" /\ Only({c})
    /\ token # None /\ tabJar = token /\ call[c].token = token /\ call[c].pc \in {"sent", "served"}
Undoing == Settled /\ Quiet /\ Only({"undo"}) /\ call["undo"].pc # "free"
SigningIn == restoring = "over" /\ entry.pc # "idle" /\ Quiet /\ token = None /\ Only({})
SignedOut ==
    /\ Settled /\ Quiet /\ token = None /\ Only(Pages)
    /\ \A c \in Pages : call[c].pc # "waiting"
ShowingUser ==
    /\ Settled /\ user # None /\ Only(Pages \cup {"logout"})
    /\ token # None /\ tabJar # None /\ token.of = user /\ tabJar.of = user
    /\ refresh.pc = "none" =>
         \A c \in Pages : call[c].pc # "waiting"
    /\ refresh.pc # "none" =>
         /\ call["logout"].pc = "free"
         /\ refresh.cookie # None /\ refresh.cookie.of = user
         /\ refresh.reply # None => refresh.reply.of = user
         /\ refresh.pc = "served" /\ refresh.reply = None => ~tabSession[user].live

InAPhase ==
    \/ Restoring \/ Asking("restore") \/ Asking("enter") \/ Undoing
    \/ SigningIn \/ SignedOut \/ ShowingUser

TabInv ==
    /\ Tab!BrowserTypeOK
    /\ Issued
    /\ InUseIsValid
    /\ ~entangled => InAPhase

-----------------------------------------------------------------------------
\* What the constructors of calls make.
LEMMA FreeIsACall ==
  /\ Tab!Free \in Tab!CallType
  /\ Tab!Free.pc = "free" /\ Tab!Free.token = None /\ Tab!Free.cookie = None
  /\ Tab!Free.retried = FALSE /\ Tab!Free.reply = "none"
  BY DEF Tab!Free, Tab!CallType

LEMMA SentIsACall ==
  ASSUME NEW t \in Tab!Tokens \cup {None}
  PROVE  /\ Tab!Sent(t) \in Tab!CallType
         /\ Tab!Sent(t).pc = "sent" /\ Tab!Sent(t).token = t /\ Tab!Sent(t).cookie = None
         /\ Tab!Sent(t).retried = FALSE /\ Tab!Sent(t).reply = "none"
  BY DEF Tab!Sent, Tab!Free, Tab!CallType

LEMMA LogoutIsACall ==
  ASSUME NEW t \in Tab!Tokens \cup {None}
  PROVE  /\ Tab!LogoutSent(t) \in Tab!CallType
         /\ Tab!LogoutSent(t).pc = "sent" /\ Tab!LogoutSent(t).token = None
         /\ Tab!LogoutSent(t).cookie = t
         /\ Tab!LogoutSent(t).retried = FALSE /\ Tab!LogoutSent(t).reply = "none"
  BY DEF Tab!LogoutSent, Tab!Free, Tab!CallType

LEMMA RepeatedIsACall ==
  ASSUME Tab!BrowserTypeOK, NEW c \in Tab!Calls, NEW t \in Tab!Tokens \cup {None}
  PROVE  /\ Tab!Repeated(c, t) \in Tab!CallType
         /\ Tab!Repeated(c, t).pc = "sent" /\ Tab!Repeated(c, t).token = t
         /\ Tab!Repeated(c, t).cookie = call[c].cookie
         /\ Tab!Repeated(c, t).retried = TRUE /\ Tab!Repeated(c, t).reply = "none"
  <1>1. call[c] \in Tab!CallType
    BY DEF Tab!BrowserTypeOK
  <1> QED
    BY <1>1 DEF Tab!Repeated, Tab!CallType

\* What has failed is free again.
LEMMA FailedCalls ==
  ASSUME Tab!BrowserTypeOK, NEW S, tabJar' \in Tab!Tokens \cup {None}
  PROVE  /\ Tab!Failed(S) \in [Tab!Calls -> Tab!CallType]
         /\ \A c \in Tab!Calls :
              Tab!Failed(S)[c] = IF c \in S THEN Tab!Free
                ELSE IF c = "undo" /\ "enter" \in S THEN Tab!LogoutSent(tabJar') ELSE call[c]
  BY FreeIsACall, LogoutIsACall DEF Tab!Failed, Tab!BrowserTypeOK

\* Ending a session moves no token on and revives nothing.
LEMMA SessionEnds ==
  ASSUME Tab!BrowserTypeOK, NEW t \in Tab!Tokens \cup {None}
  PROVE  /\ Tab!Ended(t) \in [Tab!Sessions -> [turn : 0 .. MaxRotations, live : BOOLEAN]]
         /\ \A s \in Tab!Sessions :
              /\ Tab!Ended(t)[s].turn = tabSession[s].turn
              /\ t # None /\ s = t.of => ~Tab!Ended(t)[s].live
              /\ ~tabSession[s].live => ~Tab!Ended(t)[s].live
<1>1. CASE t = None
  BY <1>1 DEF Tab!Ended, Tab!BrowserTypeOK
<1>2. CASE t # None
  <2>1. t.of \in Tab!Sessions
    BY <1>2 DEF Tab!Tokens
  <2> QED
    BY <1>2, <2>1 DEF Tab!Ended, Tab!BrowserTypeOK
<1> QED
  BY <1>1, <1>2

\* Every variable keeps its type: a page that asks whose token it has, has one.
LEMMA TabTypes ==
  ASSUME Tab!BrowserTypeOK, InUseIsValid, [Tab!BrowserNext]_(Tab!vars)
  PROVE  Tab!BrowserTypeOK'
<1> USE DEF Tab!BrowserTypeOK
<1>1. /\ {"restore", "enter", "logout", "undo"} \subseteq Tab!Calls
      /\ Pages \subseteq Tab!Calls
  BY DEF Tab!Calls
<1>2. ASSUME NEW c \in Tab!Calls, Tab!Serve(c) PROVE Tab!BrowserTypeOK'
  <2>1. call[c] \in Tab!CallType /\ call[c].cookie \in Tab!Tokens \cup {None}
    BY DEF Tab!CallType
  <2>2. tabSession' \in [Tab!Sessions -> [turn : 0 .. MaxRotations, live : BOOLEAN]]
    BY <1>2, <2>1, SessionEnds DEF Tab!Serve
  <2>3. call' \in [Tab!Calls -> Tab!CallType]
    BY <1>2, <2>1 DEF Tab!Serve, Tab!CallType
  <2> QED
    BY <1>2, <2>2, <2>3 DEF Tab!Serve
<1>3. ASSUME NEW c \in Tab!Calls, Tab!Load(c) PROVE Tab!BrowserTypeOK'
  BY <1>3, SentIsACall DEF Tab!Load, Tab!backend
<1>4. ASSUME NEW c \in Tab!Calls, Tab!Join(c) PROVE Tab!BrowserTypeOK'
  <2>1. refresh' \in [pc : {"none", "sent", "served"}, cookie : Tab!Tokens \cup {None},
                      reply : Tab!Tokens \cup {None}]
    BY <1>4 DEF Tab!Join, Tab!RefreshSent, Tab!NoRefresh
  <2>2. call' \in [Tab!Calls -> Tab!CallType]
    BY <1>4 DEF Tab!Join, Tab!CallType
  <2> QED
    BY <1>4, <2>1, <2>2 DEF Tab!Join, Tab!backend
<1>5. ASSUME NEW c \in Tab!Calls, Tab!Return(c) PROVE Tab!BrowserTypeOK'
  <2>1. call[c] \in Tab!CallType
    OBVIOUS
  <2>2. call' \in [Tab!Calls -> Tab!CallType]
    BY <1>5, FreeIsACall DEF Tab!Return
  <2>3. /\ UNCHANGED <<tabSession, expired, entry, refresh, entangled>>
        /\ restoring' \in {"refresh", "me", "over"}
    BY <1>5 DEF Tab!Return, Tab!backend
  <2>4. c \in Pages \/ c \in {"restore", "enter"} \/ c \in {"logout", "undo"}
    BY DEF Tab!Calls
  <2>5. CASE c \in Pages
    BY <2>2, <2>3, <2>5, <1>5, TabAssumption DEF Tab!Return, Tab!Clear
  <2>6. CASE c \in {"restore", "enter"}
    <3>1. call[c].token \in Tab!Tokens
      BY <2>1, <2>6, <1>5 DEF InUseIsValid, CallIsValid, Tab!Return, Tab!CallType
    <3>2. user' \in Tab!Sessions
      BY <2>6, <1>5, <3>1, TabAssumption DEF Tab!Return, Tab!Tokens
    <3> QED
      BY <2>2, <2>3, <2>6, <3>2, <1>5, TabAssumption DEF Tab!Return
  <2>7. CASE c \in {"logout", "undo"}
    BY <2>2, <2>3, <2>7, <1>5, TabAssumption DEF Tab!Return, Tab!Clear
  <2> QED
    BY <2>4, <2>5, <2>6, <2>7
<1>6. ASSUME NEW c \in Tab!Calls, Tab!Rejected(c) PROVE Tab!BrowserTypeOK'
  BY <1>6, FailedCalls DEF Tab!Rejected, Tab!backend, Tab!Clear
<1>7. ASSUME NEW c \in Tab!Calls, Tab!Lost(c) PROVE Tab!BrowserTypeOK'
  BY <1>7, FailedCalls DEF Tab!Lost, Tab!backend, Tab!Clear
<1>8. CASE Tab!ServeRefresh
  <2> DEFINE next == [refresh.cookie EXCEPT !.turn = @ + 1]
  <2>1. CASE Tab!Current(refresh.cookie)
    <3>1. /\ next \in Tab!Tokens
          /\ tabSession' = [tabSession EXCEPT ![next.of].turn = next.turn]
          /\ refresh' = [refresh EXCEPT !.pc = "served", !.reply = next]
      BY <1>8, <2>1 DEF Tab!ServeRefresh
    <3> HIDE DEF next
    <3>2. next.of \in Tab!Sessions /\ next.turn \in 0 .. MaxRotations
      BY <3>1 DEF Tab!Tokens
    <3> QED
      BY <1>8, <3>1, <3>2 DEF Tab!ServeRefresh
  <2>2. CASE ~Tab!Current(refresh.cookie)
    <3>1. tabSession' = Tab!Ended(refresh.cookie) /\ refresh.cookie \in Tab!Tokens \cup {None}
      BY <1>8, <2>2 DEF Tab!ServeRefresh
    <3>2. tabSession' \in [Tab!Sessions -> [turn : 0 .. MaxRotations, live : BOOLEAN]]
      BY <3>1, SessionEnds
    <3>3. refresh' = [refresh EXCEPT !.pc = "served"]
      BY <1>8, <2>2 DEF Tab!ServeRefresh
    <3> QED
      BY <1>8, <3>2, <3>3 DEF Tab!ServeRefresh
  <2> QED
    BY <2>1, <2>2
<1>9. CASE Tab!Refreshed
  BY <1>9, RepeatedIsACall, SentIsACall DEF Tab!Refreshed, Tab!backend, Tab!NoRefresh
<1>10. CASE Tab!RefreshFails
  BY <1>10, FailedCalls DEF Tab!RefreshFails, Tab!backend, Tab!NoRefresh, Tab!Clear
<1>11. CASE Tab!SignIn
  BY <1>11, TabAssumption DEF Tab!SignIn, Tab!backend, Tab!Sessions
<1>12. CASE Tab!SignInServed
  BY <1>12 DEF Tab!SignInServed
<1>13. CASE Tab!SignedIn
  <2>1. [of |-> entry.of, turn |-> 0] \in Tab!Tokens
    BY TabAssumption DEF Tab!Tokens
  <2> QED
    BY <1>1, <1>13, <2>1, SentIsACall DEF Tab!SignedIn, Tab!backend
<1>14. CASE Tab!SignInFails
  BY <1>14 DEF Tab!SignInFails, Tab!backend
<1>15. CASE Tab!SignOut
  BY <1>1, <1>15, LogoutIsACall DEF Tab!SignOut, Tab!backend
<1>16. ASSUME NEW t \in Tab!Tokens, Tab!Expire(t) PROVE Tab!BrowserTypeOK'
  BY <1>16 DEF Tab!Expire, Tab!tab
<1>17. CASE UNCHANGED Tab!vars
  BY <1>17 DEF Tab!vars, Tab!backend, Tab!tab
<1> HIDE DEF Tab!BrowserTypeOK
<1> QED
  BY <1>2, <1>3, <1>4, <1>5, <1>6, <1>7, <1>8, <1>9, <1>10, <1>11, <1>12, <1>13, <1>14, <1>15,
     <1>16, <1>17 DEF Tab!BrowserNext

\* The parts of a token.
LEMMA TokenFields ==
  ASSUME NEW t \in Tab!Tokens
  PROVE  t.of \in Tab!Sessions /\ t.turn \in 0 .. MaxRotations /\ t # None
  BY TabAssumption DEF Tab!Tokens

\* A page is none of the calls of signing in and out.
LEMMA KindsOfCalls ==
  /\ Tab!Calls = Pages \cup {"restore", "enter", "logout", "undo"}
  /\ \A c \in Pages : c \notin {"restore", "enter", "logout", "undo"}
  BY TabAssumption DEF Tab!Calls

\* Sessions are counted.
LEMMA SessionsAreNumbered ==
  /\ Tab!Sessions \subseteq Nat
  /\ \A t \in Tab!Tokens : t.of \in Nat
  BY TabAssumption DEF Tab!Tokens, Tab!Sessions

\* Calls that a step leaves alone, or frees, or sends for the first time.
LEMMA CallLeftAlone ==
  ASSUME NEW c, CallIsValid(c), UNCHANGED expired, call'[c] = call[c]
  PROVE  CallIsValid(c)'
  BY DEF CallIsValid

LEMMA CallFreed ==
  ASSUME NEW c, None \notin expired', call'[c] = Tab!Free
  PROVE  CallIsValid(c)'
  BY FreeIsACall DEF CallIsValid

LEMMA CallSent ==
  ASSUME NEW c, call'[c].pc = "sent", call'[c].reply = "none", call'[c].token \notin expired',
         IF c \in {"logout", "undo"} THEN call'[c].token = None /\ ~call'[c].retried
         ELSE call'[c].token # None
  PROVE  CallIsValid(c)'
  BY DEF CallIsValid

\* The actions, one by one: what is issued and in use, and the phase of the tab.
LEMMA ServeKeeps ==
  ASSUME TabInv, NEW c \in Tab!Calls, Tab!Serve(c)
  PROVE  Issued' /\ InUseIsValid' /\ (~entangled' => InAPhase')
<1> USE DEF TabInv, Tab!BrowserTypeOK
<1>1. /\ UNCHANGED <<expired, tabJar, token, user, restoring, entry, refresh, entangled>>
      /\ call[c].pc = "sent"
      /\ call[c] \in Tab!CallType
  BY DEF Tab!Serve
<1>2. /\ call' \in [Tab!Calls -> Tab!CallType]
      /\ \A d \in Tab!Calls :
           /\ call'[d].token = call[d].token /\ call'[d].cookie = call[d].cookie
           /\ call'[d].retried = call[d].retried
           /\ d # c => call'[d] = call[d]
      /\ call'[c].pc = "served"
      /\ call'[c].reply = IF c \notin {"logout", "undo"} /\ call[c].token \in expired \cup {None}
                          THEN "rejected" ELSE "ok"
  BY DEF Tab!Serve, Tab!CallType
<1>3. \A s \in Tab!Sessions :
        /\ tabSession'[s].turn = tabSession[s].turn
        /\ ~tabSession[s].live => ~tabSession'[s].live
  <2>1. call[c].cookie \in Tab!Tokens \cup {None}
    BY DEF Tab!CallType
  <2> QED
    BY <2>1, SessionEnds DEF Tab!Serve
<1>4. Issued'
  <2>1. \A t \in expired : t.of \in Tab!Sessions
    BY TokenFields
  <2> QED
    BY <1>1, <1>2, <1>3, <2>1 DEF Issued, Former
<1>5. InUseIsValid'
  BY <1>1, <1>2, KindsOfCalls DEF InUseIsValid, CallIsValid
<1>6. ASSUME ~entangled' PROVE InAPhase'
  <2>1. InAPhase
    BY <1>1, <1>6 DEF InAPhase
  <2> QED
    BY <1>1, <1>2, <1>3, <2>1, KindsOfCalls DEF InAPhase, Restoring, Asking, Undoing, SigningIn,
       SignedOut, ShowingUser, Only, Quiet, Settled
<1> QED
  BY <1>4, <1>5, <1>6

LEMMA ExpireKeeps ==
  ASSUME TabInv, NEW t \in Tab!Tokens, Tab!Expire(t)
  PROVE  Issued' /\ InUseIsValid' /\ (~entangled' => InAPhase')
<1> USE DEF TabInv, Tab!BrowserTypeOK
<1>1. /\ UNCHANGED <<tabSession, tabJar, token, user, restoring, entry, refresh, call, entangled>>
      /\ expired' = expired \cup {t}
      /\ t.turn <= tabSession[t.of].turn
      /\ t = token \/ \E c \in Tab!Calls : call[c].token = t
      /\ refresh.reply # t
      /\ \A c \in Tab!Calls :
           call[c].retried \/ c \in {"restore", "enter"} => call[c].token # t
  BY DEF Tab!Expire, Tab!tab, Tab!UnderWay, Tab!InFirstUse
<1>2. Former(t)
  BY <1>1 DEF Issued
<1>3. Issued'
  BY <1>1, <1>2 DEF Issued, Former
<1>4. InUseIsValid'
  BY <1>1 DEF InUseIsValid, CallIsValid
<1>5. ASSUME ~entangled' PROVE InAPhase'
  <2>1. InAPhase
    BY <1>1, <1>5 DEF InAPhase
  <2> QED
    BY <2>1, <1>1, KindsOfCalls DEF InAPhase, Restoring, Asking, Undoing, SigningIn,
      SignedOut, ShowingUser, Only, Quiet, Settled
<1> QED
  BY <1>3, <1>4, <1>5

LEMMA LoadKeeps ==
  ASSUME TabInv, NEW c \in Tab!Calls, Tab!Load(c)
  PROVE  Issued' /\ InUseIsValid' /\ (~entangled' => InAPhase')
<1> USE DEF TabInv, Tab!BrowserTypeOK
<1>1. /\ UNCHANGED <<tabSession, expired, tabJar, token, user, restoring, entry, refresh,
                     entangled>>
      /\ c \in Pages /\ user # None /\ call[c].pc = "free"
  BY DEF Tab!Load, Tab!backend
<1>2. /\ call'[c].pc = "sent" /\ call'[c].token = token /\ call'[c].cookie = None
      /\ call'[c].retried = FALSE /\ call'[c].reply = "none"
      /\ \A d \in Tab!Calls : d # c => call'[d] = call[d]
  BY SentIsACall DEF Tab!Load
<1>3. Issued'
  BY <1>1, <1>2 DEF Issued, Former
<1>4. InUseIsValid'
  BY <1>1, <1>2, KindsOfCalls DEF InUseIsValid, CallIsValid
<1>5. ASSUME ~entangled' PROVE InAPhase'
  <2>1. InAPhase
    BY <1>1, <1>5 DEF InAPhase
  <2> QED
    BY <2>1, <1>1, <1>2, KindsOfCalls DEF InAPhase, Restoring, Asking, Undoing, SigningIn,
      SignedOut, ShowingUser, Only, Quiet, Settled
<1> QED
  BY <1>3, <1>4, <1>5

LEMMA JoinKeeps ==
  ASSUME TabInv, NEW c \in Tab!Calls, Tab!Join(c)
  PROVE  Issued' /\ InUseIsValid' /\ (~entangled' => InAPhase')
<1> USE DEF TabInv, Tab!BrowserTypeOK
<1>1. /\ UNCHANGED <<tabSession, expired, tabJar, token, user, restoring, entry>>
      /\ call[c].pc = "served" /\ call[c].reply = "rejected"
      /\ call[c].token # None /\ ~call[c].retried
      /\ ~entangled' =>
           ~entangled /\ call["logout"].pc = "free" /\ ~(c \in Pages /\ user = None)
  BY DEF Tab!Join, Tab!backend
<1>2. /\ call'[c].pc = "waiting"
      /\ \A d \in Tab!Calls :
           /\ call'[d].token = call[d].token /\ call'[d].cookie = call[d].cookie
           /\ call'[d].retried = call[d].retried /\ call'[d].reply = call[d].reply
           /\ d # c => call'[d] = call[d]
  BY DEF Tab!Join, Tab!CallType
<1>3. /\ refresh.pc # "none" => refresh' = refresh
      /\ refresh.pc = "none" =>
           refresh'.pc = "sent" /\ refresh'.cookie = tabJar /\ refresh'.reply = None
  BY DEF Tab!Join, Tab!RefreshSent, Tab!NoRefresh
<1>4. c \in Pages
  BY <1>1, KindsOfCalls DEF InUseIsValid, CallIsValid
<1>5. Issued'
  BY <1>1, <1>2, <1>3 DEF Issued, Former
<1>6. InUseIsValid'
  BY <1>1, <1>2, <1>3, <1>4, KindsOfCalls DEF InUseIsValid, CallIsValid
<1>7. ASSUME ~entangled' PROVE InAPhase'
  <2>1. InAPhase
    BY <1>1, <1>7 DEF InAPhase
  <2>2. ShowingUser
    BY <1>1, <1>7, <1>4, <2>1, KindsOfCalls
    DEF InAPhase, Restoring, Asking, Undoing, SigningIn, SignedOut, Only, Quiet
  <2>3. ShowingUser'
    <3>1. /\ (Settled /\ user # None /\ token # None /\ tabJar # None)'
          /\ (token.of = user /\ tabJar.of = user)'
      BY <1>1, <2>2 DEF ShowingUser, Settled
    <3>2. Only(Pages \cup {"logout"})'
      BY <1>1, <1>2, <1>4, <2>2 DEF ShowingUser, Only
    <3>3. refresh'.pc # "none" /\ call'["logout"].pc = "free"
      BY <1>1, <1>2, <1>3, <1>7, <1>4, KindsOfCalls
    <3>4. CASE refresh.pc = "none"
      BY <1>3, <2>2, <3>1, <3>2, <3>3, <3>4, <1>1 DEF ShowingUser
    <3>5. CASE refresh.pc # "none"
      BY <1>3, <2>2, <3>1, <3>2, <3>3, <3>5, <1>1 DEF ShowingUser
    <3> QED
      BY <3>4, <3>5
  <2> QED
    BY <2>3 DEF InAPhase
<1> QED
  BY <1>5, <1>6, <1>7

LEMMA ServeRefreshKeeps ==
  ASSUME TabInv, Tab!ServeRefresh
  PROVE  Issued' /\ InUseIsValid' /\ (~entangled' => InAPhase')
<1> USE DEF TabInv, Tab!BrowserTypeOK
<1>1. UNCHANGED <<expired, tabJar, token, user, restoring, entry, call, entangled>>
  BY DEF Tab!ServeRefresh
<1>2. /\ refresh.pc = "sent" /\ refresh'.pc = "served" /\ refresh'.cookie = refresh.cookie
      /\ refresh.reply = None
  BY DEF Tab!ServeRefresh, InUseIsValid
<1>3. /\ \A s \in Tab!Sessions : tabSession[s].turn <= tabSession'[s].turn
      /\ \/ refresh'.reply = None
         \/ /\ refresh'.reply \in Tab!Tokens
            /\ refresh.cookie # None /\ refresh'.reply.of = refresh.cookie.of
            /\ tabSession[refresh.cookie.of].turn < refresh'.reply.turn
      /\ refresh'.reply = None /\ refresh.cookie # None => ~tabSession'[refresh.cookie.of].live
  <2> DEFINE next == [refresh.cookie EXCEPT !.turn = @ + 1]
  <2>1. \A s \in Tab!Sessions : tabSession[s].turn \in Nat
    BY TabAssumption
  <2>2. CASE Tab!Current(refresh.cookie)
    <3>1. /\ next \in Tab!Tokens
          /\ tabSession' = [tabSession EXCEPT ![next.of].turn = next.turn]
          /\ refresh'.reply = next
      BY <2>2 DEF Tab!ServeRefresh
    <3>2. /\ refresh.cookie \in Tab!Tokens
          /\ tabSession[refresh.cookie.of].turn = refresh.cookie.turn
      BY <2>2 DEF Tab!Current
    <3>3. /\ next.of = refresh.cookie.of /\ next.turn = refresh.cookie.turn + 1
          /\ refresh.cookie.turn \in Nat
      BY <3>2, TabAssumption DEF Tab!Tokens
    <3> HIDE DEF next
    <3>4. \A s \in Tab!Sessions :
            tabSession'[s].turn = IF s = next.of THEN next.turn ELSE tabSession[s].turn
      BY <3>1
    <3>5. next # None /\ refresh.cookie # None /\ next.of \in Tab!Sessions
      BY <3>1, <3>2, TokenFields
    <3>6. \A s \in Tab!Sessions : tabSession[s].turn <= tabSession'[s].turn
      BY <2>1, <3>2, <3>3, <3>4
    <3> QED
      BY <3>1, <3>2, <3>3, <3>5, <3>6
  <2>3. CASE ~Tab!Current(refresh.cookie)
    <3>1. /\ tabSession' = Tab!Ended(refresh.cookie)
          /\ refresh'.reply = None
      BY <1>2, <2>3 DEF Tab!ServeRefresh
    <3>2. \A s \in Tab!Sessions :
            /\ tabSession'[s].turn = tabSession[s].turn
            /\ refresh.cookie # None /\ s = refresh.cookie.of => ~tabSession'[s].live
      BY <3>1, SessionEnds
    <3> QED
      BY <2>1, <3>1, <3>2, TokenFields
  <2> QED
    BY <2>2, <2>3
<1>4. \/ refresh'.reply = None
      \/ /\ refresh'.reply \in Tab!Tokens
         /\ refresh.cookie # None /\ refresh'.reply.of = refresh.cookie.of
         /\ tabSession[refresh.cookie.of].turn < refresh'.reply.turn
  BY <1>3
<1>5. refresh'.reply = None /\ refresh.cookie # None => ~tabSession'[refresh.cookie.of].live
  BY <1>3
<1>6. /\ tabSession \in [Tab!Sessions -> [turn : 0 .. MaxRotations, live : BOOLEAN]]
      /\ tabSession' \in [Tab!Sessions -> [turn : 0 .. MaxRotations, live : BOOLEAN]]
  BY TabTypes DEF Tab!BrowserNext
<1>7. Issued'
  <2>1. \A t \in expired : t.of \in Tab!Sessions /\ t.turn \in Nat
    BY TokenFields, TabAssumption
  <2>2. \A s \in Tab!Sessions : tabSession[s].turn \in Nat /\ tabSession'[s].turn \in Nat
    BY <1>6, TabAssumption
  <2>3. \A t \in expired : Former(t)' /\ t.turn <= tabSession'[t.of].turn
    BY <1>1, <1>3, <2>1, <2>2 DEF Issued, Former
  <2>4. Former(refresh.reply)'
    BY <1>1, <1>4 DEF Issued, Former
  <2> QED
    BY <1>1, <1>2, <2>3, <2>4 DEF Issued, Former
<1>8. InUseIsValid'
  <2>1. refresh'.reply \notin expired'
    <3>1. CASE refresh'.reply = None
      BY <1>1, <3>1, TabAssumption
    <3>2. CASE refresh'.reply # None
      <4>1. refresh.cookie \in Tab!Tokens
        BY <1>4, <3>2
      <4>2. tabSession[refresh.cookie.of].turn \in Nat /\ refresh'.reply.turn \in Nat
        BY <1>4, <3>2, <4>1, TokenFields, TabAssumption
      <4> QED
        BY <1>1, <1>4, <3>2, <4>2 DEF Issued
    <3> QED
      BY <3>1, <3>2
  <2> QED
    BY <1>1, <1>2, <2>1 DEF InUseIsValid, CallIsValid
<1>9. ASSUME ~entangled' PROVE InAPhase'
  <2>1. InAPhase
    BY <1>1, <1>9 DEF InAPhase
  <2> QED
    BY <2>1, <1>1, <1>2, <1>4, <1>5, KindsOfCalls DEF InAPhase, Restoring, Asking, Undoing,
       SigningIn,
      SignedOut, ShowingUser, Only, Quiet, Settled
<1> QED
  BY <1>7, <1>8, <1>9

LEMMA RefreshedKeeps ==
  ASSUME TabInv, Tab!Refreshed
  PROVE  Issued' /\ InUseIsValid' /\ (~entangled' => InAPhase')
<1> USE DEF TabInv, Tab!BrowserTypeOK
<1>1. /\ UNCHANGED <<tabSession, expired, user, entry, entangled>>
      /\ refresh.pc = "served" /\ refresh.reply # None
      /\ token' = refresh.reply /\ tabJar' = refresh.reply
      /\ restoring' = IF restoring = "refresh" THEN "me" ELSE restoring
      /\ refresh'.pc = "none" /\ refresh'.cookie = None /\ refresh'.reply = None
  BY DEF Tab!Refreshed, Tab!backend, Tab!NoRefresh
<1>2. \A c \in Tab!Calls :
        \/ /\ call[c].pc = "waiting"
           /\ call'[c].pc = "sent" /\ call'[c].token = refresh.reply
           /\ call'[c].cookie = call[c].cookie
           /\ call'[c].retried = TRUE /\ call'[c].reply = "none"
        \/ /\ call[c].pc # "waiting" /\ c = "restore" /\ restoring = "refresh"
           /\ call'[c].pc = "sent" /\ call'[c].token = refresh.reply /\ call'[c].cookie = None
           /\ call'[c].retried = FALSE /\ call'[c].reply = "none"
        \/ /\ call[c].pc # "waiting" /\ ~(c = "restore" /\ restoring = "refresh")
           /\ call'[c] = call[c]
  <2>1. \A c \in Tab!Calls :
          call'[c] = IF call[c].pc = "waiting" THEN Tab!Repeated(c, refresh.reply)
                     ELSE IF c = "restore" /\ restoring = "refresh"
                          THEN Tab!Sent(refresh.reply) ELSE call[c]
    BY DEF Tab!Refreshed
  <2> QED
    <3>1. refresh.reply \in Tab!Tokens \cup {None}
      OBVIOUS
    <3>2. \A c \in Tab!Calls :
            /\ Tab!Repeated(c, refresh.reply).pc = "sent"
            /\ Tab!Repeated(c, refresh.reply).token = refresh.reply
            /\ Tab!Repeated(c, refresh.reply).cookie = call[c].cookie
            /\ Tab!Repeated(c, refresh.reply).retried = TRUE
            /\ Tab!Repeated(c, refresh.reply).reply = "none"
      <4>1. Tab!BrowserTypeOK
        OBVIOUS
      <4> HIDE DEF Tab!BrowserTypeOK
      <4> QED
        BY <3>1, <4>1, RepeatedIsACall
    <3>3. /\ Tab!Sent(refresh.reply).pc = "sent" /\ Tab!Sent(refresh.reply).token = refresh.reply
          /\ Tab!Sent(refresh.reply).cookie = None
          /\ Tab!Sent(refresh.reply).retried = FALSE /\ Tab!Sent(refresh.reply).reply = "none"
      BY <3>1, SentIsACall
    <3> QED
      BY <2>1, <3>2, <3>3
<1>3. Issued'
  BY <1>1, <1>2 DEF Issued, Former
<1>4. InUseIsValid'
  <2>1. \A c \in Tab!Calls :
          call[c].pc = "waiting" => c \notin {"logout", "undo"}
    BY DEF InUseIsValid, CallIsValid
  <2>2. /\ refresh.reply \notin expired
        /\ \A c \in Tab!Calls : call[c].pc = "free" => call[c] = Tab!Free
    BY DEF InUseIsValid, CallIsValid
  <2>3. ASSUME NEW c \in Tab!Calls, call'[c] # call[c]
        PROVE  /\ call'[c].pc = "sent" /\ call'[c].token = refresh.reply
               /\ call'[c].reply = "none" /\ c \notin {"logout", "undo"}
    BY <1>2, <2>1, <2>3
  <2>4. ASSUME NEW c \in Tab!Calls PROVE CallIsValid(c)'
    <3>1. CASE call'[c] = call[c]
      BY <1>1, <3>1, CallLeftAlone DEF InUseIsValid, CallIsValid
    <3>2. CASE call'[c] # call[c]
      BY <1>1, <2>2, <2>3, <3>2, CallSent
    <3> QED
      BY <3>1, <3>2
  <2> QED
    BY <1>1, <2>4, TabAssumption DEF InUseIsValid, CallIsValid
<1>5. ASSUME ~entangled' PROVE InAPhase'
  <2>1. InAPhase
    BY <1>1, <1>5 DEF InAPhase
  <2> QED
    BY <2>1, <1>1, <1>2, KindsOfCalls DEF InAPhase, Restoring, Asking, Undoing, SigningIn,
      SignedOut, ShowingUser, Only, Quiet, Settled
<1> QED
  BY <1>3, <1>4, <1>5

LEMMA RefreshFailsKeeps ==
  ASSUME TabInv, Tab!RefreshFails
  PROVE  Issued' /\ InUseIsValid' /\ (~entangled' => InAPhase')
<1> USE DEF TabInv, Tab!BrowserTypeOK
<1> DEFINE S == {c \in Tab!Calls : call[c].pc = "waiting"}
<1>1. /\ UNCHANGED <<tabSession, expired, entry, entangled>>
      /\ refresh.pc # "none" /\ tabJar' \in {tabJar, None}
      /\ token' = None /\ user' = None
      /\ restoring' = IF restoring = "refresh" THEN "over" ELSE restoring
      /\ refresh'.pc = "none" /\ refresh'.cookie = None /\ refresh'.reply = None
  BY DEF Tab!RefreshFails, Tab!backend, Tab!NoRefresh, Tab!Clear
<1>2. \A d \in Tab!Calls :
        \/ d \in S /\ call'[d] = Tab!Free
        \/ /\ d = "undo" /\ d \notin S /\ "enter" \in S
           /\ call'[d] \in Tab!CallType
           /\ call'[d].pc = "sent" /\ call'[d].token = None /\ call'[d].cookie = tabJar'
           /\ call'[d].retried = FALSE /\ call'[d].reply = "none"
        \/ d \notin S /\ (d = "undo" => "enter" \notin S) /\ call'[d] = call[d]
  <2>1. /\ call' = Tab!Failed(S) /\ tabJar' \in Tab!Tokens \cup {None}
    BY <1>1 DEF Tab!RefreshFails
  <2> HIDE DEF TabInv, Tab!BrowserTypeOK
  <2>2. Tab!BrowserTypeOK
    BY DEF TabInv
  <2>3. \A d \in Tab!Calls :
          Tab!Failed(S)[d] = IF d \in S THEN Tab!Free
            ELSE IF d = "undo" /\ "enter" \in S THEN Tab!LogoutSent(tabJar') ELSE call[d]
    BY <2>1, <2>2, FailedCalls
  <2> HIDE DEF S
  <2> QED
    <3>1. /\ Tab!LogoutSent(tabJar') \in Tab!CallType
          /\ Tab!LogoutSent(tabJar').pc = "sent" /\ Tab!LogoutSent(tabJar').token = None
          /\ Tab!LogoutSent(tabJar').cookie = tabJar'
          /\ Tab!LogoutSent(tabJar').retried = FALSE /\ Tab!LogoutSent(tabJar').reply = "none"
      BY <2>1, LogoutIsACall
    <3> QED
      BY <2>1, <2>3, <3>1
<1> HIDE DEF S
<1>3. S = {c \in Tab!Calls : call[c].pc = "waiting"}
  BY DEF S
<1>4. Issued'
  BY <1>1, <1>2, FreeIsACall DEF Issued, Former
<1>5. InUseIsValid'
  <2>1. ASSUME NEW d \in Tab!Calls PROVE CallIsValid(d)'
    <3>1. CallIsValid(d) /\ None \notin expired /\ UNCHANGED expired
      BY <1>1, TabAssumption DEF InUseIsValid
    <3> QED
      BY <1>2, <3>1, CallLeftAlone, CallFreed, CallSent
  <2> QED
    BY <1>1, <2>1, TabAssumption DEF InUseIsValid
<1>6. ASSUME ~entangled' PROVE InAPhase'
  <2>1. InAPhase
    BY <1>1, <1>6 DEF InAPhase
  <2> QED
    BY <2>1, <1>1, <1>2, <1>3, FreeIsACall, KindsOfCalls DEF InAPhase, Restoring, Asking, Undoing,
       SigningIn,
      SignedOut, ShowingUser, Only, Quiet, Settled
<1> QED
  BY <1>4, <1>5, <1>6

LEMMA ReturnKeeps ==
  ASSUME TabInv, NEW c \in Tab!Calls, Tab!Return(c)
  PROVE  Issued' /\ InUseIsValid' /\ (~entangled' => InAPhase')
<1> USE DEF TabInv, Tab!BrowserTypeOK
<1>1. /\ UNCHANGED <<tabSession, expired, entry, refresh, entangled>>
      /\ call[c].pc = "served" /\ call[c].reply = "ok"
      /\ restoring' = IF c = "restore" THEN "over" ELSE restoring
      /\ c \in Pages => UNCHANGED <<token, user, tabJar>>
      /\ c \in {"restore", "enter"} => user' = call[c].token.of /\ UNCHANGED <<token, tabJar>>
      /\ c \in {"logout", "undo"} => token' = None /\ user' = None /\ tabJar' = None
  BY KindsOfCalls DEF Tab!Return, Tab!backend, Tab!Clear
<1>2. /\ call'[c] = Tab!Free
      /\ \A d \in Tab!Calls : d # c => call'[d] = call[d]
  BY DEF Tab!Return
<1>3. Issued'
  BY <1>1, <1>2, FreeIsACall, KindsOfCalls DEF Issued, Former
<1>4. InUseIsValid'
  <2>1. ASSUME NEW d \in Tab!Calls PROVE CallIsValid(d)'
    <3>1. CallIsValid(d) /\ None \notin expired /\ UNCHANGED expired
      BY <1>1, TabAssumption DEF InUseIsValid
    <3> QED
      BY <1>2, <3>1, CallLeftAlone, CallFreed, CallSent
  <2> QED
    BY <1>1, <2>1, TabAssumption DEF InUseIsValid
<1>5. ASSUME ~entangled' PROVE InAPhase'
  <2>1. InAPhase
    BY <1>1, <1>5 DEF InAPhase
  <2>2. UNCHANGED <<tabSession, entry, refresh>> /\ call'[c].pc = "free"
    BY <1>1, <1>2, FreeIsACall
  <2>3. CASE c \in Pages
    <3>1. UNCHANGED <<token, user, tabJar, restoring>>
      BY <1>1, <2>3, KindsOfCalls
    <3>2. SignedOut \/ ShowingUser
      BY <1>1, <2>1, <2>3, KindsOfCalls
      DEF InAPhase, Restoring, Asking, Undoing, SigningIn, Only
    <3>3. CASE SignedOut
      BY <1>2, <2>2, <3>1, <3>3, KindsOfCalls DEF InAPhase, SignedOut, Only, Quiet, Settled
    <3>4. CASE ShowingUser
      BY <1>2, <2>2, <2>3, <3>1, <3>4, KindsOfCalls DEF InAPhase, ShowingUser, Only, Settled
    <3> QED
      BY <3>2, <3>3, <3>4
  <2>4. CASE c \in {"restore", "enter"}
    <3>1. Asking(c)
      BY <1>1, <2>1, <2>4, KindsOfCalls
      DEF InAPhase, Restoring, Asking, Undoing, SigningIn, SignedOut, ShowingUser, Only
    <3>2. /\ user' = token.of /\ UNCHANGED <<token, tabJar>> /\ restoring' = "over"
          /\ token # None /\ tabJar = token /\ refresh.pc = "none" /\ entry.pc = "idle"
      BY <1>1, <2>4, <3>1 DEF Asking, Quiet
    <3>3. user' # None
      BY <3>2, TokenFields, TabAssumption
    <3>4. \A d \in Tab!Calls : call'[d].pc = "free"
      BY <1>2, <2>2, <3>1 DEF Asking, Only
    <3>5. ShowingUser'
      BY <2>2, <3>2, <3>3, <3>4, KindsOfCalls DEF ShowingUser, Settled, Only
    <3> QED
      BY <3>5 DEF InAPhase
  <2>5. CASE c \in {"logout", "undo"}
    <3>1. /\ token' = None /\ user' = None /\ UNCHANGED restoring
      BY <1>1, <2>5
    <3>2. Undoing \/ ShowingUser
      BY <1>1, <2>1, <2>5, KindsOfCalls
      DEF InAPhase, Restoring, Asking, SigningIn, SignedOut, Only
    <3>3. SignedOut'
      BY <1>1, <1>2, <2>2, <2>5, <3>1, <3>2, KindsOfCalls
      DEF Undoing, ShowingUser, SignedOut, Only, Quiet, Settled
    <3> QED
      BY <3>3 DEF InAPhase
  <2> QED
    BY <2>3, <2>4, <2>5, KindsOfCalls
<1> QED
  BY <1>3, <1>4, <1>5

LEMMA RejectedKeeps ==
  ASSUME TabInv, NEW c \in Tab!Calls, Tab!Rejected(c)
  PROVE  Issued' /\ InUseIsValid' /\ (~entangled' => InAPhase')
<1> USE DEF TabInv, Tab!BrowserTypeOK
<1>1. /\ UNCHANGED <<tabSession, expired, tabJar, entry, refresh, entangled>>
      /\ call[c].pc = "served" /\ call[c].reply = "rejected"
      /\ c \in Pages /\ call[c].token = None /\ ~call[c].retried
      /\ UNCHANGED <<restoring, token, user>>
  <2>1. /\ call[c].pc = "served" /\ call[c].reply = "rejected"
        /\ call[c].retried \/ call[c].token = None
    BY DEF Tab!Rejected
  <2>2. c \in Pages /\ call[c].token = None /\ ~call[c].retried
    BY <2>1, KindsOfCalls DEF InUseIsValid, CallIsValid
  <2>3. c # "restore"
    BY <2>2, KindsOfCalls
  <2> QED
    BY <2>1, <2>2, <2>3 DEF Tab!Rejected, Tab!backend
<1>2. \A d \in Tab!Calls :
        \/ d \in {c} /\ call'[d] = Tab!Free
        \/ /\ d = "undo" /\ d \notin {c} /\ "enter" \in {c}
           /\ call'[d] \in Tab!CallType
           /\ call'[d].pc = "sent" /\ call'[d].token = None /\ call'[d].cookie = tabJar'
           /\ call'[d].retried = FALSE /\ call'[d].reply = "none"
        \/ d \notin {c} /\ (d = "undo" => "enter" \notin {c}) /\ call'[d] = call[d]
  <2>1. /\ call' = Tab!Failed({c}) /\ tabJar' \in Tab!Tokens \cup {None}
    BY <1>1 DEF Tab!Rejected
  <2> HIDE DEF TabInv, Tab!BrowserTypeOK
  <2>2. Tab!BrowserTypeOK
    BY DEF TabInv
  <2>3. \A d \in Tab!Calls :
          Tab!Failed({c})[d] = IF d \in {c} THEN Tab!Free
            ELSE IF d = "undo" /\ "enter" \in {c} THEN Tab!LogoutSent(tabJar') ELSE call[d]
    BY <2>1, <2>2, FailedCalls
  <2> QED
    <3>1. /\ Tab!LogoutSent(tabJar') \in Tab!CallType
          /\ Tab!LogoutSent(tabJar').pc = "sent" /\ Tab!LogoutSent(tabJar').token = None
          /\ Tab!LogoutSent(tabJar').cookie = tabJar'
          /\ Tab!LogoutSent(tabJar').retried = FALSE /\ Tab!LogoutSent(tabJar').reply = "none"
      BY <2>1, LogoutIsACall
    <3> QED
      BY <2>1, <2>3, <3>1

<1>3. Issued'
  BY <1>1, <1>2, FreeIsACall, KindsOfCalls DEF Issued, Former
<1>4. InUseIsValid'
  <2>1. ASSUME NEW d \in Tab!Calls PROVE CallIsValid(d)'
    <3>1. CallIsValid(d) /\ None \notin expired /\ UNCHANGED expired
      BY <1>1, TabAssumption DEF InUseIsValid
    <3> QED
      BY <1>2, <3>1, CallLeftAlone, CallFreed, CallSent
  <2> QED
    BY <1>1, <2>1, TabAssumption DEF InUseIsValid
<1>5. ASSUME ~entangled' PROVE InAPhase'
  <2>1. InAPhase
    BY <1>1, <1>5 DEF InAPhase
  <2> QED
    BY <2>1, <1>1, <1>2, FreeIsACall, KindsOfCalls DEF InAPhase, Restoring, Asking, Undoing,
       SigningIn,
      SignedOut, ShowingUser, Only, Quiet, Settled
<1> QED
  BY <1>3, <1>4, <1>5

LEMMA LostKeeps ==
  ASSUME TabInv, NEW c \in Tab!Calls, Tab!Lost(c)
  PROVE  Issued' /\ InUseIsValid' /\ (~entangled' => InAPhase')
<1> USE DEF TabInv, Tab!BrowserTypeOK
<1>1. /\ UNCHANGED <<tabSession, expired, tabJar, entry, refresh, entangled>>
      /\ call[c].pc \in {"sent", "served"}
      /\ IF c \in {"restore", "logout", "undo"} THEN token' = None /\ user' = None
         ELSE UNCHANGED <<token, user>>
      /\ restoring' = IF c = "restore" THEN "over" ELSE restoring
  BY DEF Tab!Lost, Tab!backend, Tab!Clear
<1>2. \A d \in Tab!Calls :
        \/ d \in {c} /\ call'[d] = Tab!Free
        \/ /\ d = "undo" /\ d \notin {c} /\ "enter" \in {c}
           /\ call'[d] \in Tab!CallType
           /\ call'[d].pc = "sent" /\ call'[d].token = None /\ call'[d].cookie = tabJar'
           /\ call'[d].retried = FALSE /\ call'[d].reply = "none"
        \/ d \notin {c} /\ (d = "undo" => "enter" \notin {c}) /\ call'[d] = call[d]
  <2>1. /\ call' = Tab!Failed({c}) /\ tabJar' \in Tab!Tokens \cup {None}
    BY <1>1 DEF Tab!Lost
  <2> HIDE DEF TabInv, Tab!BrowserTypeOK
  <2>2. Tab!BrowserTypeOK
    BY DEF TabInv
  <2>3. \A d \in Tab!Calls :
          Tab!Failed({c})[d] = IF d \in {c} THEN Tab!Free
            ELSE IF d = "undo" /\ "enter" \in {c} THEN Tab!LogoutSent(tabJar') ELSE call[d]
    BY <2>1, <2>2, FailedCalls
  <2> QED
    <3>1. /\ Tab!LogoutSent(tabJar') \in Tab!CallType
          /\ Tab!LogoutSent(tabJar').pc = "sent" /\ Tab!LogoutSent(tabJar').token = None
          /\ Tab!LogoutSent(tabJar').cookie = tabJar'
          /\ Tab!LogoutSent(tabJar').retried = FALSE /\ Tab!LogoutSent(tabJar').reply = "none"
      BY <2>1, LogoutIsACall
    <3> QED
      BY <2>1, <2>3, <3>1

<1>3. Issued'
  BY <1>1, <1>2, FreeIsACall, KindsOfCalls DEF Issued, Former
<1>4. InUseIsValid'
  <2>1. ASSUME NEW d \in Tab!Calls PROVE CallIsValid(d)'
    <3>1. CallIsValid(d) /\ None \notin expired /\ UNCHANGED expired
      BY <1>1, TabAssumption DEF InUseIsValid
    <3> QED
      BY <1>2, <3>1, CallLeftAlone, CallFreed, CallSent
  <2> QED
    BY <1>1, <2>1, TabAssumption DEF InUseIsValid
<1>5. ASSUME ~entangled' PROVE InAPhase'
  <2>1. InAPhase
    BY <1>1, <1>5 DEF InAPhase
  <2> QED
    BY <2>1, <1>1, <1>2, FreeIsACall, KindsOfCalls DEF InAPhase, Restoring, Asking, Undoing,
       SigningIn,
      SignedOut, ShowingUser, Only, Quiet, Settled
<1> QED
  BY <1>3, <1>4, <1>5

LEMMA SignInKeeps ==
  ASSUME TabInv, Tab!SignIn
  PROVE  Issued' /\ InUseIsValid' /\ (~entangled' => InAPhase')
<1> USE DEF TabInv, Tab!BrowserTypeOK
<1>1. /\ UNCHANGED <<tabSession, expired, tabJar, token, user, restoring, refresh, call>>
      /\ user = None /\ entry.pc = "idle" /\ entry'.pc = "sent"
      /\ entry'.of = entry.of + 1 /\ entry.of \in Nat
      /\ ~entangled' =>
           /\ ~entangled /\ refresh.pc = "none" /\ restoring = "over"
           /\ \A c \in Tab!Calls : call[c].pc = "free"
  <2>1. entry.of \in Nat
    BY SessionsAreNumbered
  <2>2. entry' = [pc |-> "sent", of |-> entry.of + 1]
    BY DEF Tab!SignIn
  <2>3. ~entangled' =>
          /\ ~entangled /\ refresh.pc = "none" /\ restoring = "over"
          /\ \A c \in Tab!Calls : call[c].pc = "free"
    BY DEF Tab!SignIn, Tab!UnderWay
  <2> QED
    BY <2>1, <2>2, <2>3 DEF Tab!SignIn, Tab!backend
<1>2. Issued'
  <2>1. ASSUME NEW t \in Tab!Tokens \cup {None}, Former(t) PROVE Former(t)'
    BY <1>1, <2>1, SessionsAreNumbered DEF Former
  <2>2. \A c \in Tab!Calls :
          call[c].token \in Tab!Tokens \cup {None} /\ call[c].cookie \in Tab!Tokens \cup {None}
    BY DEF Tab!CallType
  <2> QED
    BY <1>1, <2>1, <2>2 DEF Issued
<1>3. InUseIsValid'
  BY <1>1 DEF InUseIsValid, CallIsValid
<1>4. ASSUME ~entangled' PROVE InAPhase'
  <2>1. InAPhase
    BY <1>1, <1>4 DEF InAPhase
  <2>2. SignedOut
    BY <1>1, <1>4, <2>1, KindsOfCalls
    DEF InAPhase, Restoring, Asking, Undoing, SigningIn, ShowingUser
  <2>3. SigningIn'
    BY <1>1, <1>4, <2>2 DEF SignedOut, SigningIn, Only, Quiet
  <2> QED
    BY <2>3 DEF InAPhase
<1> QED
  BY <1>2, <1>3, <1>4

LEMMA SignInServedKeeps ==
  ASSUME TabInv, Tab!SignInServed
  PROVE  Issued' /\ InUseIsValid' /\ (~entangled' => InAPhase')
<1> USE DEF TabInv, Tab!BrowserTypeOK
<1>1. /\ UNCHANGED <<expired, tabJar, token, user, restoring, refresh, call, entangled>>
      /\ entry.pc = "sent" /\ entry'.pc = "served" /\ entry'.of = entry.of
      /\ \A s \in Tab!Sessions : tabSession'[s].turn = tabSession[s].turn
  BY DEF Tab!SignInServed
<1>2. Issued'
  BY <1>1, TokenFields, SessionsAreNumbered DEF Issued, Former
<1>3. InUseIsValid'
  BY <1>1 DEF InUseIsValid, CallIsValid
<1>4. ASSUME ~entangled' PROVE InAPhase'
  <2>1. InAPhase
    BY <1>1, <1>4 DEF InAPhase
  <2> QED
    BY <2>1, <1>1, KindsOfCalls DEF InAPhase, Restoring, Asking, Undoing, SigningIn,
      SignedOut, ShowingUser, Only, Quiet, Settled
<1> QED
  BY <1>2, <1>3, <1>4

LEMMA SignInFailsKeeps ==
  ASSUME TabInv, Tab!SignInFails
  PROVE  Issued' /\ InUseIsValid' /\ (~entangled' => InAPhase')
<1> USE DEF TabInv, Tab!BrowserTypeOK
<1>1. /\ UNCHANGED <<tabSession, expired, tabJar, token, user, restoring, refresh, call, entangled>>
      /\ entry.pc # "idle" /\ entry'.pc = "idle" /\ entry'.of = entry.of
  BY DEF Tab!SignInFails, Tab!backend
<1>2. Issued'
  BY <1>1, TokenFields, SessionsAreNumbered DEF Issued, Former
<1>3. InUseIsValid'
  BY <1>1 DEF InUseIsValid, CallIsValid
<1>4. ASSUME ~entangled' PROVE InAPhase'
  <2>1. InAPhase
    BY <1>1, <1>4 DEF InAPhase
  <2> QED
    BY <2>1, <1>1, KindsOfCalls DEF InAPhase, Restoring, Asking, Undoing, SigningIn,
      SignedOut, ShowingUser, Only, Quiet, Settled
<1> QED
  BY <1>2, <1>3, <1>4

LEMMA SignedInKeeps ==
  ASSUME TabInv, Tab!SignedIn
  PROVE  Issued' /\ InUseIsValid' /\ (~entangled' => InAPhase')
<1> USE DEF TabInv, Tab!BrowserTypeOK
<1>1. /\ UNCHANGED <<tabSession, expired, user, restoring, refresh, entangled>>
      /\ entry.pc = "served" /\ entry'.pc = "idle" /\ entry'.of = entry.of
      /\ token'.of = entry.of /\ token' \in Tab!Tokens /\ tabJar' = token'
  BY TabAssumption DEF Tab!SignedIn, Tab!backend, Tab!Tokens, Tab!Sessions
<1>2. /\ call'["enter"].pc = "sent" /\ call'["enter"].token = token'
      /\ call'["enter"].cookie = None
      /\ call'["enter"].retried = FALSE /\ call'["enter"].reply = "none"
      /\ \A d \in Tab!Calls : d # "enter" => call'[d] = call[d]
  BY <1>1, SentIsACall, KindsOfCalls DEF Tab!SignedIn
<1>3. token' # None /\ token' \notin expired
  BY <1>1, TokenFields, SessionsAreNumbered DEF Issued, Former
<1>4. Issued'
  BY <1>1, <1>2, <1>3, TokenFields, SessionsAreNumbered DEF Issued, Former
<1>5. InUseIsValid'
  BY <1>1, <1>2, <1>3, KindsOfCalls DEF InUseIsValid, CallIsValid
<1>6. ASSUME ~entangled' PROVE InAPhase'
  <2>1. InAPhase
    BY <1>1, <1>6 DEF InAPhase
  <2> QED
    BY <2>1, <1>1, <1>2, <1>3, KindsOfCalls DEF InAPhase, Restoring, Asking, Undoing, SigningIn,
      SignedOut, ShowingUser, Only, Quiet, Settled
<1> QED
  BY <1>4, <1>5, <1>6

LEMMA SignOutKeeps ==
  ASSUME TabInv, Tab!SignOut
  PROVE  Issued' /\ InUseIsValid' /\ (~entangled' => InAPhase')
<1> USE DEF TabInv, Tab!BrowserTypeOK
<1>1. /\ UNCHANGED <<tabSession, expired, tabJar, token, user, restoring, entry, refresh>>
      /\ user # None /\ call["logout"].pc = "free"
      /\ ~entangled' => ~entangled /\ refresh.pc = "none"
  BY DEF Tab!SignOut, Tab!backend
<1>2. /\ call'["logout"].pc = "sent" /\ call'["logout"].token = None
      /\ call'["logout"].cookie = tabJar
      /\ call'["logout"].retried = FALSE /\ call'["logout"].reply = "none"
      /\ \A d \in Tab!Calls : d # "logout" => call'[d] = call[d]
  BY LogoutIsACall, KindsOfCalls DEF Tab!SignOut
<1>3. Issued'
  BY <1>1, <1>2 DEF Issued, Former
<1>4. InUseIsValid'
  BY <1>1, <1>2, KindsOfCalls DEF InUseIsValid, CallIsValid
<1>5. ASSUME ~entangled' PROVE InAPhase'
  <2>1. InAPhase
    BY <1>1, <1>5 DEF InAPhase
  <2>2. ShowingUser
    BY <1>1, <2>1 DEF InAPhase, Restoring, Asking, Undoing, SigningIn, SignedOut, Quiet
  <2>3. ShowingUser'
    BY <1>1, <1>2, <1>5, <2>2, KindsOfCalls DEF ShowingUser, Only, Settled
  <2> QED
    BY <2>3 DEF InAPhase
<1> QED
  BY <1>3, <1>4, <1>5

\* What was true before one step of the tab is true after it.
LEMMA TabStep ==
  ASSUME TabInv, [Tab!BrowserNext]_(Tab!vars)
  PROVE  TabInv'
<1>1. Tab!BrowserTypeOK'
  BY TabTypes DEF TabInv
<1>2. CASE UNCHANGED Tab!vars
  <2>1. UNCHANGED browser
    BY <1>2 DEF browser, Tab!vars, Tab!backend, Tab!tab
  <2> QED
    BY <2>1 DEF browser, TabInv, Tab!BrowserTypeOK, Issued, Former, InUseIsValid, CallIsValid,
      InAPhase, Restoring, Asking, Undoing, SigningIn, SignedOut, ShowingUser, Only, Quiet, Settled
<1>3. CASE Tab!BrowserNext
  <2> DEFINE Rest == Issued' /\ InUseIsValid' /\ (~entangled' => InAPhase')
  <2>1. ASSUME NEW c \in Tab!Calls, Tab!Serve(c) PROVE Rest
    BY <2>1, ServeKeeps
  <2>2. ASSUME NEW c \in Tab!Calls, Tab!Load(c) PROVE Rest
    BY <2>2, LoadKeeps
  <2>3. ASSUME NEW c \in Tab!Calls, Tab!Join(c) PROVE Rest
    BY <2>3, JoinKeeps
  <2>4. ASSUME NEW c \in Tab!Calls, Tab!Return(c) PROVE Rest
    BY <2>4, ReturnKeeps
  <2>5. ASSUME NEW c \in Tab!Calls, Tab!Rejected(c) PROVE Rest
    BY <2>5, RejectedKeeps
  <2>6. ASSUME NEW c \in Tab!Calls, Tab!Lost(c) PROVE Rest
    BY <2>6, LostKeeps
  <2>7. ASSUME Tab!ServeRefresh PROVE Rest
    BY <2>7, ServeRefreshKeeps
  <2>8. ASSUME Tab!Refreshed PROVE Rest
    BY <2>8, RefreshedKeeps
  <2>9. ASSUME Tab!RefreshFails PROVE Rest
    BY <2>9, RefreshFailsKeeps
  <2>10. ASSUME Tab!SignIn PROVE Rest
    BY <2>10, SignInKeeps
  <2>11. ASSUME Tab!SignInServed PROVE Rest
    BY <2>11, SignInServedKeeps
  <2>12. ASSUME Tab!SignedIn PROVE Rest
    BY <2>12, SignedInKeeps
  <2>13. ASSUME Tab!SignInFails PROVE Rest
    BY <2>13, SignInFailsKeeps
  <2>14. ASSUME Tab!SignOut PROVE Rest
    BY <2>14, SignOutKeeps
  <2>15. ASSUME NEW t \in Tab!Tokens, Tab!Expire(t) PROVE Rest
    BY <2>15, ExpireKeeps
  <2> HIDE DEF Rest
  <2>16. Rest
    BY <1>3, <2>1, <2>2, <2>3, <2>4, <2>5, <2>6, <2>7, <2>8, <2>9, <2>10, <2>11, <2>12, <2>13,
       <2>14, <2>15 DEF Tab!BrowserNext
  <2> QED
    BY <1>1, <2>16 DEF Rest, TabInv
<1> QED
  BY <1>2, <1>3

\* A page load begins with the restoration.
LEMMA TabInit ==
  ASSUME Tab!BrowserInit
  PROVE  TabInv
<1> USE DEF Tab!BrowserInit
<1>1. [of |-> 0, turn |-> 0] \in Tab!Tokens /\ 0 \in Tab!Sessions
  BY TabAssumption DEF Tab!Tokens, Tab!Sessions
<1>2. tabJar \in Tab!Tokens \cup {None} /\ (tabJar # None => tabJar.of = 0)
  BY <1>1
<1>3. /\ refresh = [pc |-> "sent", cookie |-> tabJar, reply |-> None]
      /\ \A c \in Tab!Calls : call[c] = Tab!Free
  BY DEF Tab!RefreshSent, Tab!NoRefresh
<1>4. Tab!BrowserTypeOK
  <2>1. tabSession \in [Tab!Sessions -> [turn : 0 .. MaxRotations, live : BOOLEAN]]
    BY TabAssumption
  <2>2. call \in [Tab!Calls -> Tab!CallType]
    BY FreeIsACall
  <2>3. /\ refresh \in [pc : {"none", "sent", "served"}, cookie : Tab!Tokens \cup {None},
                       reply : Tab!Tokens \cup {None}]
        /\ entry \in [pc : {"idle", "sent", "served"}, of : Tab!Sessions]
    BY <1>1, <1>2, <1>3
  <2> QED
    BY <1>2, <2>1, <2>2, <2>3 DEF Tab!BrowserTypeOK
<1>5. Issued
  BY <1>2, <1>3, FreeIsACall DEF Issued, Former
<1>6. InUseIsValid
  BY <1>3, FreeIsACall, TabAssumption DEF InUseIsValid, CallIsValid
<1>7. Restoring
  BY <1>3, FreeIsACall DEF Restoring, Only
<1> QED
  BY <1>4, <1>5, <1>6, <1>7 DEF TabInv, InAPhase

\* TabInv is an invariant of a tab.
LEMMA TabInvariance == Tab!BrowserSpec => []TabInv
  BY TabInit, TabStep, PTL DEF Tab!BrowserSpec

\* Signed in or signing in, out or being restored: the user on display is the one the token
\* stands for, and a token that is left over belongs to nobody (setAccessToken,
\* clearLocalAuthentication).
THEOREM DisplayFollowsTheToken == Tab!BrowserSpec => []UserAndTokenAgree
<1>1. TabInv => UserAndTokenAgree
  <2> SUFFICES ASSUME TabInv PROVE UserAndTokenAgree
    OBVIOUS
  <2>1. ASSUME ~entangled, user # None PROVE token # None /\ token.of = user
    BY <2>1 DEF TabInv, InAPhase, Restoring, Asking, Undoing, SigningIn, SignedOut, ShowingUser,
       Quiet
  <2>2. ASSUME ~entangled, Tab!AtRest, user = None PROVE token = None
    <3>1. \A c \in Tab!Calls : call[c].pc = "free"
      BY <2>2 DEF Tab!AtRest, Tab!UnderWay
    <3> QED
      BY <2>2, <3>1, KindsOfCalls
      DEF TabInv, InAPhase, Tab!AtRest, Restoring, Asking, Undoing, SigningIn, SignedOut, ShowingUser
  <2> QED
    BY <2>1, <2>2 DEF TabInv, UserAndTokenAgree, Tab!UserAndTokenAgree
<1> QED
  BY <1>1, TabInvariance, PTL

\* However many calls are refused at a time because the access token has expired: the user
\* is signed out of the tab only by signing out, by the end of the session or by a refresh
\* that is lost (apiFetch, refreshAccessToken).
THEOREM ExpiryCostsNoSession == Tab!BrowserSpec => StaysSignedIn
<1> DEFINE Excuse == \/ entangled
                     \/ call["logout"].pc # "free" /\ call'["logout"].pc = "free"
                     \/ ~tabSession[user].live
                     \/ refresh'.pc = "none" /\ (refresh.pc = "sent" \/ refresh.reply # None)
<1>1. ASSUME TabInv, [Tab!BrowserNext]_(Tab!vars), user # None, user' = None
      PROVE  Excuse
  <2> SUFFICES ASSUME ~entangled PROVE Excuse
    OBVIOUS
  <2>1. ShowingUser
    BY <1>1 DEF TabInv, InAPhase, Restoring, Asking, Undoing, SigningIn, SignedOut, Quiet
  <2>2. ASSUME NEW c \in Tab!Calls, Tab!Return(c) \/ Tab!Lost(c) PROVE Excuse
    <3>1. call[c].pc # "free" /\ c \in Pages \cup {"logout"}
      BY <2>1, <2>2 DEF Tab!Return, Tab!Lost, ShowingUser, Only
    <3>2. c = "logout"
      BY <1>1, <2>2, <3>1, KindsOfCalls DEF Tab!Return, Tab!Lost
    <3>3. call'[c] = Tab!Free
      BY <1>1, <2>2, <3>2, KindsOfCalls DEF Tab!Return, Tab!Lost, Tab!Failed, TabInv,
         Tab!BrowserTypeOK
    <3> QED
      BY <3>1, <3>2, <3>3, FreeIsACall
  <2>3. CASE Tab!RefreshFails
    <3>1. refresh'.pc = "none" /\ refresh.pc \in {"sent", "served"}
      BY <2>3 DEF Tab!RefreshFails, Tab!NoRefresh
    <3> QED
      BY <2>1, <3>1 DEF ShowingUser
  <2>4. ASSUME NEW c \in Tab!Calls, Tab!Rejected(c) PROVE FALSE
    <3>1. /\ call[c].pc = "served" /\ call[c].reply = "rejected"
          /\ call[c].retried \/ call[c].token = None
          /\ call[c].retried \/ c = "restore"
      BY <1>1, <2>4 DEF Tab!Rejected
    <3> QED
      BY <1>1, <3>1, KindsOfCalls, <2>4 DEF TabInv, InUseIsValid, CallIsValid
  <2>5. CASE UNCHANGED user
    BY <1>1, <2>5
  <2> HIDE DEF Excuse
  <2>6. CASE Tab!BrowserNext
    BY <2>2, <2>3, <2>4, <2>5, <2>6
    DEF Tab!BrowserNext, Tab!Serve, Tab!Load, Tab!Join, Tab!ServeRefresh, Tab!Refreshed,
        Tab!SignIn, Tab!SignInServed, Tab!SignedIn, Tab!SignInFails, Tab!SignOut, Tab!Expire,
        Tab!tab
  <2> QED
    BY <1>1, <2>5, <2>6 DEF Tab!vars, Tab!tab
<1>2. TabInv /\ [Tab!BrowserNext]_(Tab!vars) => [user # None /\ user' = None => Excuse]_(Tab!vars)
  BY <1>1
<1> QED
  BY <1>2, TabInvariance, PTL DEF Tab!BrowserSpec, StaysSignedIn, Tab!StaysSignedIn
===============================================================================
