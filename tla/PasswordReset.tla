---------------------------- MODULE PasswordReset ----------------------------
(***************************************************************************)
(* One account of the backend, its reset tokens and its refresh sessions   *)
(* under the transactions that touch them:                                 *)
(*   issues    POST /auth/password-reset/request                           *)
(*   confirms  POST /auth/password-reset/confirm                           *)
(*   changes   POST /auth/change-password, with a proof from               *)
(*             POST /auth/reauthenticate                                   *)
(*   logins    POST /auth/token                                            *)
(* Each is one READ COMMITTED transaction, taken apart at its statements:  *)
(* a SELECT and the snapshot of an UPDATE see what is committed at that    *)
(* moment, an UPDATE and SELECT ... FOR UPDATE wait for row locks and look *)
(* at the row again when they get them.  Locks last until the end of the   *)
(* transaction; its writes become visible with its commit.                 *)
(*                                                                         *)
(* A transaction happens once.  The token an issue inserts, the session a  *)
(* login inserts and the password hash a confirm or a change writes are    *)
(* named after their transaction.  A fingerprint is the hash it was        *)
(* computed from.  Every rejection (an expired or used token, a            *)
(* fingerprint that differs, a refused password, a failed compare-and-set, *)
(* a delivery error) raises and rolls back, so Abort stands for them all.  *)
(***************************************************************************)
EXTENDS FiniteSets, Naturals

CONSTANTS
    Issues, Confirms, Changes, Logins,  \* transactions, by kind
    Original,                           \* the first password hash
    None

Transactions == Issues \cup Confirms \cup Changes \cup Logins
Writers == Confirms \cup Changes
Hashes == Writers \cup {Original}

\* pg_advisory_xact_lock of the account, the users row, the token rows.
Locks == {"issuance", "user"} \cup Issues

\* Transactions of different kinds, and the locks on different things, differ.
ASSUME NamesAssumption ==
    /\ Issues \cap Confirms = {} /\ Issues \cap Changes = {} /\ Issues \cap Logins = {}
    /\ Confirms \cap Changes = {} /\ Confirms \cap Logins = {} /\ Changes \cap Logins = {}
    /\ {"issuance", "user", None} \cap Issues = {}

VARIABLES
    hash,       \* users.hashed_password
    token,      \* the token rows
    session,    \* the session rows
    proofs,     \* the fingerprints of the reauthentication proofs handed out
    mailed,     \* tokens whose link has been handed to the delivery provider
    tx,         \* the transactions
    overlapped  \* history: logins in flight while a writer held the users row

vars == <<hash, token, session, proofs, mailed, tx, overlapped>>

\* ready
\* known         the account's hash (a login: the verified password) is read
\* presented     a confirm asks for the row of its token
\* holding       it has the row
\* verified      token and fingerprint, or the reauthentication proof, hold
\* replaced      the users row carries the new hash
\* serialized    invalidate_active_for_user may start its UPDATE
\* invalidating  its snapshot is taken, rows are locked one by one
\* delivered     an issue has inserted its token and mailed the link
\* revoked       the sessions found by revoke_all_for_user are marked
\* committed, aborted
Phases == {"ready", "known", "presented", "holding", "verified", "replaced",
           "serialized", "invalidating", "delivered", "revoked",
           "committed", "aborted"}

TypeOK ==
    /\ hash \in Hashes
    /\ token \in [Issues -> {"absent", "active", "used", "invalidated"}]
    /\ session \in [Logins -> {"absent", "live", "revoked"}]
    /\ proofs \subseteq Hashes
    /\ mailed \subseteq Issues
    /\ tx \in [Transactions -> [pc : Phases,
                                seen : Hashes \cup {None},    \* the hash it read
                                token : Issues \cup {None},   \* a confirm's token
                                proof : Hashes \cup {None},   \* a change's proof
                                targets : SUBSET Issues,      \* rows to invalidate
                                ends : SUBSET Logins,         \* sessions to revoke
                                locks : SUBSET Locks]]
    /\ overlapped \subseteq Logins

Init ==
    /\ hash = Original
    /\ token = [t \in Issues |-> "absent"]
    /\ session = [l \in Logins |-> "absent"]
    /\ proofs = {}
    /\ mailed = {}
    /\ tx = [x \in Transactions |->
               [pc |-> "ready", seen |-> None, token |-> None, proof |-> None,
                targets |-> {}, ends |-> {}, locks |-> {}]]
    /\ overlapped = {}

-----------------------------------------------------------------------------
\* Helpers.

Active == {t \in Issues : token[t] = "active"}
Free(x, lock) == \A y \in Transactions \ {x} : lock \notin tx[y].locks
UsersRowHeld == \E x \in Transactions : "user" \in tx[x].locks
LoggingIn == {l \in Logins : tx[l].pc = "known"}

\* Definitions named Faulty... are variants with one plausible mistake.  Nothing
\* uses them; each is substituted for the definition it precedes to see that a
\* property notices.

\* Issuance is not serialized.
FaultyIssuanceLocks(x) == {}

\* Confirmation takes the advisory lock as well.
FaultyIssuanceLocksAlways(x) == {"issuance"}

\* Only issuance calls invalidate_active_for_user without an excluded token.
IssuanceLocks(x) == IF x \in Issues THEN {"issuance"} ELSE {}

\* The UPDATE names the user alone.
FaultyIsCurrent(x) == TRUE

\* ... WHERE hashed_password = :expected_hashed_password.
IsCurrent(x) == hash = tx[x].seen

\* The next lock x needs, if any.
Awaited(x) ==
    CASE tx[x].pc = "presented" -> {tx[x].token}
      [] tx[x].pc = "verified" -> {"user"}
      [] x \in Issues /\ tx[x].pc = "known" -> IssuanceLocks(x)
      [] x \in Confirms /\ tx[x].pc = "replaced" -> IssuanceLocks(x)
      [] tx[x].pc = "invalidating" -> tx[x].targets \ tx[x].locks
      [] OTHER -> {}

Advance(x, pc) == tx' = [tx EXCEPT ![x].pc = pc]

-----------------------------------------------------------------------------
\* get_auth_record_by_email of an issue and of a login (which has verified the
\* password against the hash it read).
ReadAccount(x) ==
    /\ x \in Issues \cup Logins
    /\ tx[x].pc = "ready"
    /\ tx' = [tx EXCEPT ![x].pc = "known", ![x].seen = hash]
    /\ overlapped' = IF UsersRowHeld /\ x \in Logins
                     THEN overlapped \cup {x} ELSE overlapped
    /\ UNCHANGED <<hash, token, session, proofs, mailed>>

\* The user follows a mailed link; a digest without a committed row is rejected.
Present(x, t) ==
    /\ x \in Confirms
    /\ tx[x].pc = "ready"
    /\ t \in mailed
    /\ tx' = [tx EXCEPT ![x].pc = IF token[t] = "absent" THEN "aborted"
                                  ELSE "presented",
                        ![x].token = t]
    /\ UNCHANGED <<hash, token, session, proofs, mailed, overlapped>>

\* get_by_digest_for_update returns.
Hold(x) ==
    /\ tx[x].pc = "presented"
    /\ Free(x, tx[x].token)
    /\ tx' = [tx EXCEPT ![x].pc = "holding", ![x].locks = @ \cup {tx[x].token}]
    /\ UNCHANGED <<hash, token, session, proofs, mailed, overlapped>>

\* Neither used nor invalidated; one that has expired is refused all the same (Abort).
IsUsable(t) == token[t] = "active"

\* A confirm's token is usable and was issued for the present password.
VerifyToken(x) ==
    /\ tx[x].pc = "holding"
    /\ IsUsable(tx[x].token)
    /\ tx[tx[x].token].seen = hash
    /\ tx' = [tx EXCEPT ![x].pc = "verified", ![x].seen = hash]
    /\ UNCHANGED <<hash, token, session, proofs, mailed, overlapped>>

\* create_reauthentication_token: of the password, a proof has the fingerprint.
NewProof == hash

\* The proofs there are once the password has been verified.
Reauthenticated == proofs \cup {NewProof}

\* The user proves knowledge of the present password; the proof is valid for a
\* while and for any number of changes.
Reauthenticate ==
    /\ proofs' = Reauthenticated
    /\ proofs' # proofs
    /\ UNCHANGED <<hash, token, session, mailed, tx, overlapped>>

\* Any proof will do.
FaultyProves(proof) == TRUE

\* The fingerprint in the proof is that of the password hash there is now.
Proves(proof) == proof = hash

\* decode_reauthentication_token: the server has signed it.
IsSigned(proof) == proof \in proofs

\* A change is presented with a proof, which matches the hash it reads.
VerifyProof(x, proof) ==
    /\ x \in Changes
    /\ tx[x].pc = "ready"
    /\ IsSigned(proof) /\ Proves(proof)
    /\ tx' = [tx EXCEPT ![x].pc = "verified", ![x].seen = hash, ![x].proof = proof]
    /\ UNCHANGED <<hash, token, session, proofs, mailed, overlapped>>

\* update_password_hash_if_current; a confirm then marks its token used, for
\* which it has the row.
Replace(x) ==
    /\ tx[x].pc = "verified"
    /\ Free(x, "user")
    /\ IsCurrent(x)
    /\ tx' = [tx EXCEPT ![x].pc = "replaced", ![x].locks = @ \cup {"user"}]
    /\ overlapped' = overlapped \cup LoggingIn
    /\ UNCHANGED <<hash, token, session, proofs, mailed>>

\* The beginning of invalidate_active_for_user.
Serialize(x) ==
    /\ \/ x \in Issues /\ tx[x].pc = "known"
       \/ x \in Confirms /\ tx[x].pc = "replaced"
    /\ \A lock \in IssuanceLocks(x) : Free(x, lock)
    /\ tx' = [tx EXCEPT ![x].pc = "serialized", ![x].locks = @ \cup IssuanceLocks(x)]
    /\ UNCHANGED <<hash, token, session, proofs, mailed, overlapped>>

\* Its UPDATE takes a snapshot ...
Target(x) ==
    /\ tx[x].pc = "serialized"
    /\ tx' = [tx EXCEPT ![x].pc = "invalidating",
                        ![x].targets = Active \ {tx[x].token}]
    /\ UNCHANGED <<hash, token, session, proofs, mailed, overlapped>>

\* ... and locks the rows found, dropping those that are no longer active.
LockTarget(x, t) ==
    /\ tx[x].pc = "invalidating"
    /\ t \in tx[x].targets \ tx[x].locks
    /\ Free(x, t)
    /\ tx' = IF t \in Active
             THEN [tx EXCEPT ![x].locks = @ \cup {t}]
             ELSE [tx EXCEPT ![x].targets = @ \ {t}]
    /\ UNCHANGED <<hash, token, session, proofs, mailed, overlapped>>

\* send_password_reset: what has been mailed stays mailed.
Mailed(x) == mailed \cup {x}

\* The new token is inserted and its link mailed, both before the commit.
Deliver(x) ==
    /\ x \in Issues
    /\ tx[x].pc = "invalidating"
    /\ tx[x].targets \subseteq tx[x].locks
    /\ Advance(x, "delivered")
    /\ mailed' = Mailed(x)
    /\ UNCHANGED <<hash, token, session, proofs, overlapped>>

\* Only a change ends the sessions.
FaultyRevoked(x) == IF x \in Changes THEN {l \in Logins : session[l] = "live"} ELSE {}

\* What revoke_all_for_user finds.
Revoked(x) == {l \in Logins : session[l] = "live"}

\* A change revokes at once, a confirm when it has its sibling tokens.
HasReplaced(x) ==
    \/ x \in Changes /\ tx[x].pc = "replaced"
    \/ /\ x \in Confirms
       /\ tx[x].pc = "invalidating"
       /\ tx[x].targets \subseteq tx[x].locks

\* revoke_all_for_user.  Writers are the only ones here to lock session rows,
\* one at a time behind the users row.
Revoke(x) ==
    /\ x \in Writers
    /\ HasReplaced(x)
    /\ tx' = [tx EXCEPT ![x].pc = "revoked",
                        ![x].ends = Revoked(x)]
    /\ UNCHANGED <<hash, token, session, proofs, mailed, overlapped>>

\* get_db_session ends the request's unit of work: no lock outlives it.
Finish(x, pc) == tx' = [tx EXCEPT ![x].pc = pc, ![x].locks = {}]

\* The token rows that invalidate_active_for_user leaves.
Invalidated(x) ==
    [t \in Issues |-> IF t \in tx[x].targets THEN "invalidated" ELSE token[t]]

\* mark_used, of a token that is still active: its row is locked since then.
Used(x) == [t \in Issues |-> IF t = tx[x].token THEN "used" ELSE Invalidated(x)[t]]

\* create inserts the new row.
Issued(x) == [Invalidated(x) EXCEPT ![x] = "active"]

\* create inserts the session row.
LoggedIn(x) == [session EXCEPT ![x] = "live"]

CommitIssue(x) ==
    /\ x \in Issues
    /\ tx[x].pc = "delivered"
    /\ token' = Issued(x)
    /\ Finish(x, "committed")
    /\ UNCHANGED <<hash, session, proofs, mailed, overlapped>>

CommitWriter(x) ==
    /\ x \in Writers
    /\ tx[x].pc = "revoked"
    /\ hash' = x
    /\ token' = Used(x)
    /\ session' = [l \in Logins |-> IF l \in tx[x].ends THEN "revoked" ELSE session[l]]
    /\ Finish(x, "committed")
    /\ UNCHANGED <<proofs, mailed, overlapped>>

CommitLogin(x) ==
    /\ x \in LoggingIn
    /\ session' = LoggedIn(x)
    /\ Finish(x, "committed")
    /\ UNCHANGED <<hash, token, proofs, mailed, overlapped>>

\* An exception leaves the route, or the process or its connection dies.
Abort(x) ==
    /\ tx[x].pc \notin {"ready", "committed", "aborted"}
    /\ Finish(x, "aborted")
    /\ UNCHANGED <<hash, token, session, proofs, mailed, overlapped>>

Next ==
    \/ Reauthenticate
    \/ \E x \in Transactions :
        \/ ReadAccount(x)
        \/ \E t \in Issues : Present(x, t)
        \/ Hold(x)
        \/ VerifyToken(x)
        \/ \E proof \in Hashes : VerifyProof(x, proof)
        \/ Replace(x)
        \/ Serialize(x)
        \/ Target(x)
        \/ \E t \in Issues : LockTarget(x, t)
        \/ Deliver(x)
        \/ Revoke(x)
        \/ CommitIssue(x)
        \/ CommitWriter(x)
        \/ CommitLogin(x)
        \/ Abort(x)

Spec == Init /\ [][Next]_vars

-----------------------------------------------------------------------------
\* Properties.

\* "A newly requested credential supersedes all previous outstanding reset
\* credentials" (request_reset), concurrent requests included.
OneUsableToken == TypeOK /\ Cardinality(Active) <= 1

\* The password is only ever replaced on the strength of the very password it
\* replaces: by a link issued for it or a proof checked against it, whatever is
\* committed between the check and the update (update_password_hash_if_current).
ChangesBuildOnWhatTheyVerified ==
    [][hash' # hash =>
         \E x \in Writers :
            /\ hash' = x
            /\ tx[x].seen = hash
            /\ x \in Confirms => tx[tx[x].token].seen = hash
            /\ x \in Changes => tx[x].proof = hash]_vars

WaitsFor(x, y) == x # y /\ Awaited(x) \cap tx[y].locks # {}
Blocked == {x \in Transactions : \E y \in Transactions : WaitsFor(x, y)}

\* No transactions wait for each other in a ring: the advisory lock of issuance,
\* the token rows and the users row cannot deadlock (invalidate_active_for_user).
NoLockCycle ==
    \A waiting \in (SUBSET Blocked) \ {{}} :
        \E x \in waiting : \A y \in waiting : ~WaitsFor(x, y)

\* "Every persistent refresh session is revoked" (change_password, confirm_reset):
\* a live session belongs to the present password, or its login was under way
\* while the change was.
SessionsFollowThePassword ==
    \A l \in Logins :
        session[l] = "live" => tx[l].seen = hash \/ l \in overlapped
=============================================================================
