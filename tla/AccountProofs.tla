----------------------------- MODULE AccountProofs -----------------------------
(***************************************************************************)
(* Proofs about what guards an account.                                    *)
(*                                                                         *)
(* PasswordReset, for any number of transactions of each kind.             *)
(* The argument is about locks.  The advisory lock makes issues take turns *)
(* from their snapshot to their commit, so a snapshot never misses a token *)
(* (Knows), and at most one token is active.  A confirm keeps the row of   *)
(* its active token, so there is nothing else for it to invalidate and it  *)
(* never waits behind the users row; that leaves no way to close a ring.   *)
(* The users row is what keeps a verified hash true until the commit, and  *)
(* what separates the logins that a change must end from those under way.  *)
(*                                                                         *)
(* Throttles, for any number of threads, clients and accounts, any limits, *)
(* windows and waits for the lock.                                         *)
(* A bucket only grows at its end and only loses its head, so a promise of *)
(* _retry_after is kept by the entries behind the one it waits for         *)
(* (Covered), and the histories of a login are the tail of its buckets     *)
(* (Follows): what is missing there no longer counts.  An account has room *)
(* for every attempt that is still to be heard of (AccountsInv).  A thread *)
(* reads the clock for an attempt after its last one was counted (InTurn), *)
(* which leaves one attempt a thread that its address may forget too soon. *)
(***************************************************************************)
EXTENDS PasswordReset, Throttles, TLAPS, FiniteSetTheorems, FunctionTheorems,
        SequenceTheorems, WellFoundedInduction


TxType == [pc : Phases, seen : Hashes \cup {None}, token : Issues \cup {None},
           proof : Hashes \cup {None}, targets : SUBSET Issues, ends : SUBSET Logins,
           locks : SUBSET Locks]

\* With no lock held, and, of a writer, with the users row.
Unlocked == {"ready", "known", "presented", "committed", "aborted"}
Replacing == {"replaced", "serialized", "invalidating", "revoked"}

\* The phases of a transaction, and what it has locked in each.
Holds(x) ==
    /\ x \in Issues => tx[x].pc \in Unlocked \cup {"serialized", "invalidating", "delivered"}
    /\ x \in Confirms => tx[x].pc \in Unlocked \cup {"holding", "verified"} \cup Replacing
    /\ x \in Changes => tx[x].pc \in Unlocked \cup {"verified", "replaced", "revoked"}
    /\ x \in Logins => tx[x].pc \in Unlocked
    /\ tx[x].pc = "presented" => x \in Confirms /\ tx[x].token \in Issues
    /\ tx[x].pc \in Unlocked => tx[x].locks = {}
    /\ x \in Issues =>
         /\ tx[x].token = None
         /\ tx[x].pc \notin Unlocked => "issuance" \in tx[x].locks
         /\ tx[x].pc = "serialized" => tx[x].locks = {"issuance"}
         /\ tx[x].locks \subseteq {"issuance"} \cup tx[x].targets
         /\ tx[x].pc = "delivered" => tx[x].targets \subseteq tx[x].locks
    /\ x \in Writers =>
         /\ tx[x].targets = {}
         /\ tx[x].locks \subseteq {"user", tx[x].token}
         /\ "user" \in tx[x].locks <=> tx[x].pc \in Replacing
    /\ x \in Confirms /\ tx[x].pc \notin Unlocked =>
         tx[x].token \in Issues /\ tx[x].token \in tx[x].locks
    /\ x \in Changes => tx[x].token = None

\* What a transaction has read and still relies on.
Knows(x) ==
    /\ x \in Issues /\ tx[x].pc \in {"invalidating", "delivered"} => Active \subseteq tx[x].targets
    /\ x \in Confirms /\ tx[x].pc \in {"verified"} \cup Replacing =>
         /\ token[tx[x].token] = "active"
         /\ tx[tx[x].token].seen = tx[x].seen
    /\ x \in Changes /\ tx[x].pc \in {"verified"} \cup Replacing => tx[x].proof = tx[x].seen
    /\ x \in Writers /\ tx[x].pc \in Replacing => tx[x].seen = hash
    /\ x \in Writers /\ tx[x].pc = "revoked" =>
         \A l \in Logins : session[l] = "live" => l \in tx[x].ends \cup overlapped
    /\ x \in Logins /\ tx[x].pc = "known" => tx[x].seen = hash \/ x \in overlapped

Exclusive ==
    \A x, y \in Transactions : x # y => tx[x].locks \cap tx[y].locks = {}

Tokens ==
    /\ \A s, t \in Active : s = t
    /\ \A t \in Issues : token[t] # "absent" => tx[t].pc = "committed"
    /\ \A x \in Transactions : \A t \in tx[x].targets : token[t] # "absent"

\* A session belongs to a login that has ended.
Sessions == \A l \in Logins : session[l] = "live" => tx[l].pc = "committed"

\* Logins under way while a writer has the users row are remembered.
Overlaps == UsersRowHeld => LoggingIn \subseteq overlapped

IInv ==
    /\ TypeOK
    /\ \A x \in Transactions : Holds(x) /\ Knows(x)
    /\ Exclusive /\ Tokens /\ Sessions /\ Overlaps /\ SessionsFollowThePassword

-----------------------------------------------------------------------------
\* Types, kinds and states of transactions.

LEMMA Typed ==
  ASSUME TypeOK
  PROVE  /\ tx \in [Transactions -> TxType]
         /\ token \in [Issues -> {"absent", "active", "used", "invalidated"}]
         /\ session \in [Logins -> {"absent", "live", "revoked"}]
BY DEF TypeOK, TxType

LEMMA Fields ==
  ASSUME TypeOK, NEW x \in Transactions
  PROVE  /\ tx[x] \in TxType
         /\ tx[x].pc \in Phases /\ tx[x].seen \in Hashes \cup {None}
         /\ tx[x].token \in Issues \cup {None} /\ tx[x].targets \subseteq Issues
         /\ tx[x].ends \subseteq Logins /\ tx[x].locks \subseteq Locks
BY DEF TypeOK, TxType

LEMMA Kinds ==
  ASSUME NEW x \in Transactions
  PROVE  /\ x \in Issues \/ x \in Writers \/ x \in Logins
         /\ x \in Issues => x \notin Writers /\ x \notin Logins
         /\ x \in Logins => x \notin Writers
         /\ x \in Confirms => x \in Writers /\ x \notin Changes
         /\ x \in Changes => x \in Writers /\ x \notin Confirms
         /\ x \in Writers => x \in Hashes /\ (x \in Confirms \/ x \in Changes)
BY NamesAssumption DEF Transactions, Writers, Hashes

\* What the phase of a transaction says of its kind.
LEMMA PhaseOfKind ==
  ASSUME IInv, NEW x \in Transactions
  PROVE  /\ tx[x].pc \in {"presented", "holding"} => x \in Confirms
         /\ tx[x].pc = "delivered" => x \in Issues
         /\ tx[x].pc \in {"verified", "replaced", "revoked"} => x \in Writers
         /\ tx[x].pc \in {"serialized", "invalidating"} => x \in Issues \/ x \in Confirms
         /\ tx[x].pc = "known" /\ x \notin Issues /\ x \notin Confirms /\ x \notin Changes =>
              x \in Logins
BY Kinds DEF IInv, Holds, Unlocked, Replacing

\* The row of a confirm's token stays as it was verified.
LEMMA TokenIsCommitted ==
  ASSUME IInv, NEW x \in Confirms, tx[x].pc \in {"verified"} \cup Replacing
  PROVE  /\ tx[x].token \in Issues /\ tx[x].token \in Transactions
         /\ tx[x].token \in tx[x].locks /\ tx[x].token # x
         /\ token[tx[x].token] = "active" /\ tx[tx[x].token].pc = "committed"
<1>1. x \in Transactions
  BY DEF Transactions
<1>2. tx[x].token \in Issues /\ tx[x].token \in tx[x].locks
  BY <1>1 DEF IInv, Holds, Unlocked, Replacing
<1>3. token[tx[x].token] = "active"
  BY <1>1 DEF IInv, Knows
<1> QED
  BY <1>2, <1>3, NamesAssumption DEF IInv, Tokens, Transactions

-----------------------------------------------------------------------------
\* Steps that commit nothing.

LEMMA SameOverlaps ==
  ASSUME IInv, NEW x \in Transactions,
         \A y \in Transactions \ {x} : tx'[y] = tx[y],
         overlapped \subseteq overlapped',
         "user" \in tx'[x].locks => "user" \in tx[x].locks,
         x \in Logins /\ tx'[x].pc = "known" => tx[x].pc = "known" \/ x \in overlapped' \/ ~UsersRowHeld
  PROVE  Overlaps'
<1>1. UsersRowHeld' => UsersRowHeld
  BY DEF UsersRowHeld
<1>2. Logins \subseteq Transactions
  BY DEF Transactions
<1>3. UsersRowHeld' => LoggingIn' \subseteq overlapped'
  BY <1>1, <1>2 DEF IInv, Overlaps, LoggingIn
<1> QED
  BY <1>3 DEF Overlaps

LEMMA OneTransaction ==
  ASSUME IInv, NEW x \in Transactions,
         tx' \in [Transactions -> TxType],
         \A y \in Transactions \ {x} : tx'[y] = tx[y],
         UNCHANGED <<hash, token, session>>,
         proofs' \subseteq Hashes, mailed' \subseteq Issues, overlapped' \subseteq Logins,
         overlapped \subseteq overlapped',
         tx[x].pc # "committed",
         tx'[x].targets \subseteq tx[x].targets \cup Active,
         Holds(x)', Knows(x)', Overlaps',
         \A y \in Transactions \ {x} : tx[y].locks \cap tx'[x].locks = {}
  PROVE  IInv'
<1>1. TypeOK'
  BY DEF IInv, TypeOK, TxType
<1>2. Active' = Active
  BY DEF Active
<1>3. ASSUME NEW y \in Transactions, y # x
      PROVE  Holds(y)' /\ Knows(y)'
  <2>1. tx'[y] = tx[y] /\ Holds(y) /\ Knows(y)
    BY <1>3 DEF IInv
  <2>2. Holds(y)'
    BY <2>1 DEF Holds
  <2>3. y \in Confirms /\ tx[y].pc \in {"verified"} \cup Replacing =>
          /\ token[tx[y].token] = "active"
          /\ tx'[tx[y].token].seen = tx[y].seen
    BY <2>1, TokenIsCommitted DEF Knows
  <2>4. Knows(y)'
    BY <1>2, <2>1, <2>3 DEF Knows
  <2> QED
    BY <2>2, <2>4
<1>4. Exclusive'
  BY DEF Exclusive, IInv
<1>5. Tokens'
  <2>1. \A t \in Issues : token[t] # "absent" => tx'[t].pc = "committed"
    BY DEF Tokens, IInv, Transactions
  <2>2. \A t \in tx'[x].targets : token[t] # "absent"
    BY DEF Tokens, IInv, Active
  <2> QED
    BY <1>2, <2>1, <2>2 DEF Tokens, IInv
<1>6. Sessions' /\ SessionsFollowThePassword'
  <2>1. \A l \in Logins : session[l] = "live" => l \in Transactions \ {x} /\ tx'[l] = tx[l]
    BY DEF Sessions, IInv, Transactions
  <2> QED
    BY <2>1 DEF Sessions, SessionsFollowThePassword, IInv
<1> QED
  BY <1>1, <1>3, <1>4, <1>5, <1>6 DEF IInv

-----------------------------------------------------------------------------
\* The steps that commit nothing, one by one.  <1>1 says what each changes.

LEMMA ReadAccountStep ==
  ASSUME IInv, NEW x \in Transactions, ReadAccount(x)
  PROVE  IInv'
<1>1. /\ tx' \in [Transactions -> TxType]
      /\ \A y \in Transactions \ {x} : tx'[y] = tx[y]
      /\ tx'[x].pc = "known" /\ tx'[x].seen = hash /\ tx'[x].token = tx[x].token
      /\ tx'[x].targets = tx[x].targets /\ tx'[x].locks = tx[x].locks
  <2>1. tx \in [Transactions -> TxType] /\ hash \in Hashes
    BY Typed DEF IInv, TypeOK
  <2>2. tx' = [tx EXCEPT ![x].pc = "known", ![x].seen = hash]
    BY DEF ReadAccount
  <2> QED
    BY <2>1, <2>2 DEF TxType, Phases
<1>2. /\ tx[x].pc = "ready" /\ x \in Issues \cup Logins
      /\ UNCHANGED <<hash, token, session, proofs, mailed>>
      /\ overlapped' = IF UsersRowHeld /\ x \in Logins THEN overlapped \cup {x} ELSE overlapped
  BY DEF ReadAccount
<1>3. Holds(x) /\ tx[x].locks = {}
  BY <1>2 DEF IInv, Holds, Unlocked
<1>4. x \notin Writers /\ (x \in Issues => x \notin Logins)
  BY <1>2, Kinds
<1>5. Holds(x)'
  BY <1>1, <1>2, <1>3, <1>4 DEF Holds, Unlocked, Writers
<1>6. Knows(x)'
  BY <1>1, <1>2, <1>4 DEF Knows, Writers
<1>7. Overlaps'
  BY <1>1, <1>2, SameOverlaps
<1>8. overlapped' \subseteq Logins /\ overlapped \subseteq overlapped'
  BY <1>2 DEF IInv, TypeOK
<1> QED
  BY <1>1, <1>2, <1>3, <1>5, <1>6, <1>7, <1>8, OneTransaction DEF IInv, TypeOK

LEMMA PresentStep ==
  ASSUME IInv, NEW x \in Transactions, NEW t \in Issues, Present(x, t)
  PROVE  IInv'
<1>1. /\ tx' \in [Transactions -> TxType]
      /\ \A y \in Transactions \ {x} : tx'[y] = tx[y]
      /\ tx'[x].pc \in {"aborted", "presented"} /\ tx'[x].seen = tx[x].seen
      /\ tx'[x].token = t /\ tx'[x].targets = tx[x].targets /\ tx'[x].locks = tx[x].locks
  <2>1. tx \in [Transactions -> TxType]
    BY Typed DEF IInv
  <2> DEFINE pc == IF token[t] = "absent" THEN "aborted" ELSE "presented"
  <2>2. tx' = [tx EXCEPT ![x].pc = pc, ![x].token = t]
    BY DEF Present
  <2>3. pc \in {"aborted", "presented"} /\ pc \in Phases
    BY DEF Phases
  <2> HIDE DEF pc
  <2> QED
    BY <2>1, <2>2, <2>3 DEF TxType
<1>2. /\ tx[x].pc = "ready" /\ x \in Confirms
      /\ UNCHANGED <<hash, token, session, proofs, mailed, overlapped>>
  BY DEF Present
<1>3. Holds(x) /\ tx[x].locks = {}
  BY <1>2 DEF IInv, Holds, Unlocked
<1>4. x \in Writers /\ x \notin Issues /\ x \notin Changes /\ x \notin Logins
  BY <1>2, Kinds
<1>5. Holds(x)'
  BY <1>1, <1>2, <1>3, <1>4 DEF Holds, Unlocked, Replacing
<1>6. Knows(x)'
  BY <1>1, <1>4 DEF Knows, Replacing
<1>7. Overlaps'
  BY <1>1, <1>2, <1>4, SameOverlaps
<1> QED
  BY <1>1, <1>2, <1>3, <1>5, <1>6, <1>7, OneTransaction DEF IInv, TypeOK

LEMMA HoldStep ==
  ASSUME IInv, NEW x \in Transactions, Hold(x)
  PROVE  IInv'
<1>1. tx[x].pc = "presented" /\ x \in Confirms /\ tx[x].token \in Issues /\ tx[x].locks = {}
  BY DEF Hold, IInv, Holds, Unlocked
<1>2. /\ tx' \in [Transactions -> TxType]
      /\ \A y \in Transactions \ {x} : tx'[y] = tx[y]
      /\ tx'[x].pc = "holding" /\ tx'[x].token = tx[x].token
      /\ tx'[x].targets = tx[x].targets /\ tx'[x].locks = {tx[x].token}
  <2>1. tx \in [Transactions -> TxType]
    BY Typed DEF IInv
  <2>2. tx' = [tx EXCEPT ![x].pc = "holding", ![x].locks = @ \cup {tx[x].token}]
    BY DEF Hold
  <2>3. "holding" \in Phases /\ tx[x].locks \cup {tx[x].token} \in SUBSET Locks
    BY <1>1 DEF Phases, Locks
  <2> QED
    BY <1>1, <2>1, <2>2, <2>3 DEF TxType
<1>3. /\ UNCHANGED <<hash, token, session, proofs, mailed, overlapped>>
      /\ \A y \in Transactions \ {x} : tx[x].token \notin tx[y].locks
  BY DEF Hold, Free
<1>4. x \in Writers /\ x \notin Issues /\ x \notin Changes /\ x \notin Logins
  BY <1>1, Kinds
<1>5. Holds(x)'
  BY <1>1, <1>2, <1>4, NamesAssumption DEF IInv, Holds, Unlocked, Replacing
<1>6. Knows(x)'
  BY <1>2, <1>4 DEF Knows, Replacing
<1>7. Overlaps'
  BY <1>1, <1>2, <1>3, <1>4, NamesAssumption, SameOverlaps
<1> QED
  BY <1>1, <1>2, <1>3, <1>5, <1>6, <1>7, OneTransaction DEF IInv, TypeOK

LEMMA VerifyTokenStep ==
  ASSUME IInv, NEW x \in Transactions, VerifyToken(x)
  PROVE  IInv'
<1>1. tx[x].pc = "holding" /\ x \in Confirms
  BY PhaseOfKind DEF VerifyToken, IsUsable
<1>2. /\ tx' \in [Transactions -> TxType]
      /\ \A y \in Transactions \ {x} : tx'[y] = tx[y]
      /\ tx'[x].pc = "verified" /\ tx'[x].seen = hash /\ tx'[x].token = tx[x].token
      /\ tx'[x].targets = tx[x].targets /\ tx'[x].locks = tx[x].locks
  <2>1. tx \in [Transactions -> TxType] /\ hash \in Hashes
    BY Typed DEF IInv, TypeOK
  <2>2. tx' = [tx EXCEPT ![x].pc = "verified", ![x].seen = hash]
    BY DEF VerifyToken, IsUsable
  <2> QED
    BY <2>1, <2>2 DEF TxType, Phases
<1>3. /\ UNCHANGED <<hash, token, session, proofs, mailed, overlapped>>
      /\ token[tx[x].token] = "active" /\ tx[tx[x].token].seen = hash
  BY DEF VerifyToken, IsUsable
<1>4. x \in Writers /\ x \notin Issues /\ x \notin Changes /\ x \notin Logins
  BY <1>1, Kinds
<1>5. Holds(x) /\ tx[x].token \in Issues
  BY <1>1 DEF IInv, Holds, Unlocked
<1>6. Holds(x)'
  BY <1>1, <1>2, <1>4, <1>5 DEF Holds, Unlocked, Replacing
<1>7. tx[x].token # x /\ tx[x].token \in Transactions
  BY <1>4, <1>5 DEF Transactions
<1>8. Knows(x)'
  BY <1>2, <1>3, <1>4, <1>7 DEF Knows, Replacing
<1>9. Overlaps'
  BY <1>1, <1>2, <1>3, <1>4, SameOverlaps
<1>10. \A y \in Transactions \ {x} : tx[y].locks \cap tx'[x].locks = {}
  BY <1>2 DEF IInv, Exclusive
<1> QED
  BY <1>1, <1>2, <1>3, <1>6, <1>8, <1>9, <1>10, OneTransaction DEF IInv, TypeOK

LEMMA VerifyProofStep ==
  ASSUME IInv, NEW x \in Transactions, NEW proof \in Hashes, VerifyProof(x, proof)
  PROVE  IInv'
<1>1. /\ tx' \in [Transactions -> TxType]
      /\ \A y \in Transactions \ {x} : tx'[y] = tx[y]
      /\ tx'[x].pc = "verified" /\ tx'[x].seen = hash /\ tx'[x].proof = proof
      /\ tx'[x].token = tx[x].token
      /\ tx'[x].targets = tx[x].targets /\ tx'[x].locks = tx[x].locks
  <2>1. tx \in [Transactions -> TxType] /\ hash \in Hashes
    BY Typed DEF IInv, TypeOK
  <2>2. tx' = [tx EXCEPT ![x].pc = "verified", ![x].seen = hash, ![x].proof = proof]
    BY DEF VerifyProof, IsSigned
  <2> DEFINE r == [tx[x] EXCEPT !.pc = "verified", !.seen = hash, !.proof = proof]
  <2>3. /\ r \in TxType /\ r.pc = "verified" /\ r.seen = hash /\ r.proof = proof
        /\ r.token = tx[x].token /\ r.targets = tx[x].targets /\ r.locks = tx[x].locks
    BY <2>1 DEF TxType, Phases
  <2>4. tx' = [tx EXCEPT ![x] = r]
    BY <2>1, <2>2 DEF TxType
  <2> HIDE DEF r
  <2> QED
    BY <2>1, <2>3, <2>4
<1>2. /\ tx[x].pc = "ready" /\ x \in Changes /\ proof = hash
      /\ UNCHANGED <<hash, token, session, proofs, mailed, overlapped>>
  BY DEF VerifyProof, IsSigned, Proves
<1>3. Holds(x) /\ tx[x].locks = {}
  BY <1>2 DEF IInv, Holds, Unlocked
<1>4. x \in Writers /\ x \notin Issues /\ x \notin Confirms /\ x \notin Logins
  BY <1>2, Kinds
<1>5. Holds(x)'
  BY <1>1, <1>2, <1>3, <1>4 DEF Holds, Unlocked, Replacing
<1>6. Knows(x)'
  BY <1>1, <1>2, <1>4 DEF Knows, Replacing
<1>7. Overlaps'
  BY <1>1, <1>2, <1>4, SameOverlaps
<1> QED
  BY <1>1, <1>2, <1>3, <1>5, <1>6, <1>7, OneTransaction DEF IInv, TypeOK

LEMMA ReplaceStep ==
  ASSUME IInv, NEW x \in Transactions, Replace(x)
  PROVE  IInv'
<1>1. tx[x].pc = "verified" /\ x \in Writers /\ tx[x].seen = hash /\ Holds(x) /\ Knows(x)
  BY PhaseOfKind DEF Replace, IsCurrent, IInv
<1>2. /\ tx' \in [Transactions -> TxType]
      /\ \A y \in Transactions \ {x} : tx'[y] = tx[y]
      /\ tx'[x].pc = "replaced" /\ tx'[x].seen = tx[x].seen /\ tx'[x].proof = tx[x].proof
      /\ tx'[x].token = tx[x].token /\ tx'[x].targets = tx[x].targets
      /\ tx'[x].locks = tx[x].locks \cup {"user"}
  <2>1. tx \in [Transactions -> TxType]
    BY Typed DEF IInv
  <2>2. tx' = [tx EXCEPT ![x].pc = "replaced", ![x].locks = @ \cup {"user"}]
    BY DEF Replace
  <2>3. "replaced" \in Phases /\ tx[x].locks \cup {"user"} \in SUBSET Locks
    BY Fields DEF IInv, Phases, Locks
  <2> QED
    BY <2>1, <2>2, <2>3 DEF TxType
<1>3. /\ UNCHANGED <<hash, token, session, proofs, mailed>>
      /\ overlapped' = overlapped \cup LoggingIn
      /\ \A y \in Transactions \ {x} : "user" \notin tx[y].locks
  BY DEF Replace, Free
<1>4. x \notin Issues /\ x \notin Logins /\ ~(x \in Confirms /\ x \in Changes)
  BY <1>1, Kinds
<1>5. Holds(x)'
  BY <1>1, <1>2, <1>4 DEF Holds, Unlocked, Replacing
<1>6. x \in Confirms => tx[x].token # x /\ tx[x].token \in Transactions
  BY <1>1, TokenIsCommitted
<1>7. Knows(x)'
  BY <1>1, <1>2, <1>3, <1>4, <1>6 DEF Knows, Replacing
<1>8. Overlaps'
  <2>1. LoggingIn' = LoggingIn
    BY <1>1, <1>2 DEF LoggingIn, Transactions
  <2> QED
    BY <1>3, <2>1 DEF Overlaps
<1>9. \A y \in Transactions \ {x} : tx[y].locks \cap tx'[x].locks = {}
  BY <1>2, <1>3 DEF IInv, Exclusive
<1>10. overlapped' \subseteq Logins
  BY <1>3 DEF LoggingIn, IInv, TypeOK
<1> QED
  BY <1>1, <1>2, <1>3, <1>5, <1>7, <1>8, <1>9, <1>10, OneTransaction DEF IInv, TypeOK

LEMMA SerializeStep ==
  ASSUME IInv, NEW x \in Transactions, Serialize(x)
  PROVE  IInv'
<1>1. /\ Holds(x) /\ Knows(x)
      /\ \/ /\ x \in Issues /\ tx[x].pc = "known" /\ tx[x].locks = {}
            /\ IssuanceLocks(x) = {"issuance"}
         \/ x \in Confirms /\ tx[x].pc = "replaced" /\ IssuanceLocks(x) = {}
  BY Kinds DEF Serialize, IInv, Holds, Unlocked, IssuanceLocks
<1>2. /\ tx' \in [Transactions -> TxType]
      /\ \A y \in Transactions \ {x} : tx'[y] = tx[y]
      /\ tx'[x].pc = "serialized" /\ tx'[x].seen = tx[x].seen
      /\ tx'[x].token = tx[x].token /\ tx'[x].targets = tx[x].targets
      /\ tx'[x].locks = tx[x].locks \cup IssuanceLocks(x)
  <2>1. tx \in [Transactions -> TxType]
    BY Typed DEF IInv
  <2>2. tx' = [tx EXCEPT ![x].pc = "serialized", ![x].locks = @ \cup IssuanceLocks(x)]
    BY DEF Serialize
  <2>3. "serialized" \in Phases /\ tx[x].locks \cup IssuanceLocks(x) \in SUBSET Locks
    BY <1>1, Fields DEF IInv, Phases, Locks
  <2> QED
    BY <2>1, <2>2, <2>3 DEF TxType
<1>3. /\ UNCHANGED <<hash, token, session, proofs, mailed, overlapped>>
      /\ \A lock \in IssuanceLocks(x) : \A y \in Transactions \ {x} : lock \notin tx[y].locks
  BY DEF Serialize, Free
<1>4. \A y \in Transactions \ {x} : tx[y].locks \cap tx'[x].locks = {}
  BY <1>2, <1>3 DEF IInv, Exclusive
<1>5. CASE x \in Issues
  <2>1. /\ x \notin Writers /\ x \notin Confirms /\ x \notin Changes /\ x \notin Logins
        /\ tx'[x].locks = {"issuance"} /\ tx[x].pc = "known"
    BY <1>1, <1>2, <1>5, Kinds
  <2>2. Holds(x)'
    BY <1>1, <1>2, <2>1 DEF Holds, Unlocked
  <2>3. Knows(x)' /\ Overlaps'
    BY <1>2, <1>3, <2>1, SameOverlaps DEF Knows
  <2> QED
    BY <1>2, <1>3, <1>4, <2>1, <2>2, <2>3, OneTransaction DEF IInv, TypeOK
<1>6. CASE x \in Confirms
  <2>1. /\ x \in Writers /\ x \notin Issues /\ x \notin Changes /\ x \notin Logins
        /\ tx'[x].locks = tx[x].locks /\ tx[x].pc = "replaced"
    BY <1>1, <1>2, <1>6, Kinds
  <2>2. Holds(x)'
    BY <1>1, <1>2, <1>6, <2>1 DEF Holds, Unlocked, Replacing
  <2>3. tx[x].token # x /\ tx[x].token \in Transactions
    BY <1>6, <2>1, TokenIsCommitted DEF Replacing
  <2>4. Knows(x)' /\ Overlaps'
    BY <1>1, <1>2, <1>3, <1>6, <2>1, <2>3, SameOverlaps DEF Knows, Replacing
  <2> QED
    BY <1>2, <1>3, <1>4, <2>1, <2>2, <2>4, OneTransaction DEF IInv, TypeOK
<1> QED
  BY <1>1, <1>5, <1>6

\* A confirm's own token is the only active one.
LEMMA TargetStep ==
  ASSUME IInv, NEW x \in Transactions, Target(x)
  PROVE  IInv'
<1>1. /\ tx[x].pc = "serialized" /\ Holds(x) /\ Knows(x)
      /\ x \in Issues \/ x \in Confirms
  BY PhaseOfKind DEF Target, IInv
<1>2. /\ tx' \in [Transactions -> TxType]
      /\ \A y \in Transactions \ {x} : tx'[y] = tx[y]
      /\ tx'[x].pc = "invalidating" /\ tx'[x].seen = tx[x].seen
      /\ tx'[x].token = tx[x].token /\ tx'[x].targets = Active \ {tx[x].token}
      /\ tx'[x].locks = tx[x].locks
  <2>1. tx \in [Transactions -> TxType]
    BY Typed DEF IInv
  <2>2. tx' = [tx EXCEPT ![x].pc = "invalidating", ![x].targets = Active \ {tx[x].token}]
    BY DEF Target
  <2>3. "invalidating" \in Phases /\ Active \ {tx[x].token} \in SUBSET Issues
    BY DEF Phases, Active
  <2> QED
    BY <2>1, <2>2, <2>3 DEF TxType
<1>3. UNCHANGED <<hash, token, session, proofs, mailed, overlapped>>
  BY DEF Target
<1>4. \A y \in Transactions \ {x} : tx[y].locks \cap tx'[x].locks = {}
  BY <1>2 DEF IInv, Exclusive
<1>5. CASE x \in Issues
  <2>1. x \notin Writers /\ x \notin Confirms /\ x \notin Changes /\ x \notin Logins
    BY <1>5, Kinds
  <2>2. tx'[x].targets = Active /\ Active' = Active
    BY <1>1, <1>2, <1>3, <1>5, NamesAssumption DEF Holds, Active
  <2>3. Holds(x)'
    BY <1>1, <1>2, <1>5, <2>1 DEF Holds, Unlocked
  <2>4. Knows(x)' /\ Overlaps'
    BY <1>2, <1>3, <2>1, <2>2, SameOverlaps DEF Knows
  <2> QED
    BY <1>1, <1>2, <1>3, <1>4, <2>3, <2>4, OneTransaction DEF IInv, TypeOK
<1>6. CASE x \in Confirms
  <2>1. x \in Writers /\ x \notin Issues /\ x \notin Changes /\ x \notin Logins
    BY <1>6, Kinds
  <2>2. /\ tx[x].token # x /\ tx[x].token \in Transactions
        /\ tx[x].token \in Issues /\ token[tx[x].token] = "active"
    BY <1>1, <1>6, TokenIsCommitted DEF Replacing
  <2>3. tx'[x].targets = {}
    BY <1>2, <2>2 DEF IInv, Tokens, Active
  <2>4. Holds(x)'
    BY <1>1, <1>2, <1>6, <2>1, <2>3 DEF Holds, Unlocked, Replacing
  <2>5. Knows(x)' /\ Overlaps'
    BY <1>1, <1>2, <1>3, <1>6, <2>1, <2>2, SameOverlaps DEF Knows, Replacing
  <2> QED
    BY <1>1, <1>2, <1>3, <1>4, <2>4, <2>5, OneTransaction DEF IInv, TypeOK
<1> QED
  BY <1>1, <1>5, <1>6

LEMMA LockTargetStep ==
  ASSUME IInv, NEW x \in Transactions, NEW t \in Issues, LockTarget(x, t)
  PROVE  IInv'
<1>1. /\ tx[x].pc = "invalidating" /\ t \in tx[x].targets /\ t \notin tx[x].locks
      /\ \A y \in Transactions \ {x} : t \notin tx[y].locks
      /\ UNCHANGED <<hash, token, session, proofs, mailed, overlapped>>
  BY DEF LockTarget, Free
<1>2. Holds(x) /\ Knows(x) /\ x \in Issues
  BY <1>1, PhaseOfKind, Kinds DEF IInv, Holds
<1>3. x \notin Writers /\ x \notin Confirms /\ x \notin Changes /\ x \notin Logins
  BY <1>2, Kinds
<1>4. /\ tx' \in [Transactions -> TxType]
      /\ \A y \in Transactions \ {x} : tx'[y] = tx[y]
      /\ tx'[x].pc = "invalidating" /\ tx'[x].seen = tx[x].seen
      /\ tx'[x].token = tx[x].token
      /\ \/ tx'[x].targets = tx[x].targets /\ tx'[x].locks = tx[x].locks \cup {t}
         \/ /\ tx'[x].targets = tx[x].targets \ {t} /\ tx'[x].locks = tx[x].locks
            /\ t \notin Active
  <2>1. tx \in [Transactions -> TxType]
    BY Typed DEF IInv
  <2>2. CASE tx' = [tx EXCEPT ![x].locks = @ \cup {t}]
    <3>1. tx[x].locks \cup {t} \in SUBSET Locks
      BY Fields DEF IInv, Locks
    <3> QED
      BY <1>1, <2>1, <2>2, <3>1 DEF TxType
  <2>3. CASE tx' = [tx EXCEPT ![x].targets = @ \ {t}] /\ t \notin Active
    BY <1>1, <2>1, <2>3 DEF TxType
  <2> QED
    BY <2>2, <2>3 DEF LockTarget
<1>5. \A y \in Transactions \ {x} : tx[y].locks \cap tx'[x].locks = {}
  BY <1>1, <1>4 DEF IInv, Exclusive
<1>6. Holds(x)'
  BY <1>1, <1>2, <1>3, <1>4 DEF Holds, Unlocked
<1>7. Active' = Active
  BY <1>1 DEF Active
<1>8. Knows(x)'
  BY <1>1, <1>2, <1>3, <1>4, <1>7 DEF Knows
<1>9. "user" \in tx'[x].locks => "user" \in tx[x].locks
  BY <1>4, NamesAssumption
<1>10. Overlaps'
  BY <1>1, <1>3, <1>4, <1>9, SameOverlaps
<1> QED
  BY <1>1, <1>4, <1>5, <1>6, <1>8, <1>10, OneTransaction DEF IInv, TypeOK

LEMMA DeliverStep ==
  ASSUME IInv, NEW x \in Transactions, Deliver(x)
  PROVE  IInv'
<1>1. /\ tx[x].pc = "invalidating" /\ tx[x].targets \subseteq tx[x].locks
      /\ x \in Issues /\ Holds(x) /\ Knows(x)
      /\ UNCHANGED <<hash, token, session, proofs, overlapped>> /\ mailed' = mailed \cup {x}
  BY DEF Deliver, Mailed, IInv
<1>2. x \notin Writers /\ x \notin Confirms /\ x \notin Changes /\ x \notin Logins
  BY <1>1, Kinds
<1>3. /\ tx' \in [Transactions -> TxType]
      /\ \A y \in Transactions \ {x} : tx'[y] = tx[y]
      /\ tx'[x].pc = "delivered" /\ tx'[x].token = tx[x].token
      /\ tx'[x].targets = tx[x].targets /\ tx'[x].locks = tx[x].locks
  <2>1. tx \in [Transactions -> TxType]
    BY Typed DEF IInv
  <2>2. tx' = [tx EXCEPT ![x].pc = "delivered"]
    BY DEF Deliver, Mailed, Advance
  <2> QED
    BY <2>1, <2>2 DEF TxType, Phases
<1>4. \A y \in Transactions \ {x} : tx[y].locks \cap tx'[x].locks = {}
  BY <1>3 DEF IInv, Exclusive
<1>5. Holds(x)'
  BY <1>1, <1>2, <1>3 DEF Holds, Unlocked
<1>6. Active' = Active
  BY <1>1 DEF Active
<1>7. Knows(x)' /\ Overlaps'
  BY <1>1, <1>2, <1>3, <1>6, SameOverlaps DEF Knows
<1>8. mailed' \subseteq Issues
  BY <1>1 DEF IInv, TypeOK
<1> QED
  BY <1>1, <1>3, <1>4, <1>5, <1>7, <1>8, OneTransaction DEF IInv, TypeOK

LEMMA RevokeStep ==
  ASSUME IInv, NEW x \in Transactions, Revoke(x)
  PROVE  IInv'
<1>1. /\ x \in Writers /\ Holds(x) /\ Knows(x)
      /\ \/ x \in Changes /\ tx[x].pc = "replaced"
         \/ x \in Confirms /\ tx[x].pc = "invalidating"
      /\ UNCHANGED <<hash, token, session, proofs, mailed, overlapped>>
  BY DEF Revoke, HasReplaced, IInv
<1>2. x \notin Issues /\ x \notin Logins /\ ~(x \in Confirms /\ x \in Changes)
  BY <1>1, Kinds
<1>3. /\ tx' \in [Transactions -> TxType]
      /\ \A y \in Transactions \ {x} : tx'[y] = tx[y]
      /\ tx'[x].pc = "revoked" /\ tx'[x].seen = tx[x].seen /\ tx'[x].proof = tx[x].proof
      /\ tx'[x].token = tx[x].token /\ tx'[x].targets = tx[x].targets
      /\ tx'[x].ends = Revoked(x) /\ tx'[x].locks = tx[x].locks
  <2>1. tx \in [Transactions -> TxType]
    BY Typed DEF IInv
  <2>2. tx' = [tx EXCEPT ![x].pc = "revoked", ![x].ends = Revoked(x)]
    BY DEF Revoke, HasReplaced
  <2>3. "revoked" \in Phases /\ Revoked(x) \in SUBSET Logins
    BY DEF Phases, Revoked
  <2> QED
    BY <2>1, <2>2, <2>3 DEF TxType
<1>4. \A y \in Transactions \ {x} : tx[y].locks \cap tx'[x].locks = {}
  BY <1>3 DEF IInv, Exclusive
<1>5. Holds(x)'
  BY <1>1, <1>2, <1>3 DEF Holds, Unlocked, Replacing
<1>6. x \in Confirms => tx[x].token # x /\ tx[x].token \in Transactions
  BY <1>1, <1>2, TokenIsCommitted DEF Replacing
<1>7. \A l \in Logins : session'[l] = "live" => l \in tx'[x].ends
  BY <1>1, <1>3 DEF Revoked
<1>8. Knows(x)'
  BY <1>1, <1>2, <1>3, <1>6, <1>7 DEF Knows, Replacing
<1>9. Overlaps'
  BY <1>1, <1>2, <1>3, SameOverlaps
<1> QED
  BY <1>1, <1>3, <1>4, <1>5, <1>8, <1>9, OneTransaction DEF IInv, TypeOK

LEMMA Finishing ==
  ASSUME IInv, NEW x \in Transactions, NEW pc \in {"committed", "aborted"}, Finish(x, pc)
  PROVE  /\ tx' \in [Transactions -> TxType]
         /\ \A y \in Transactions \ {x} : tx'[y] = tx[y]
         /\ tx'[x].pc = pc /\ tx'[x].seen = tx[x].seen /\ tx'[x].proof = tx[x].proof
         /\ tx'[x].token = tx[x].token /\ tx'[x].targets = tx[x].targets
         /\ tx'[x].ends = tx[x].ends /\ tx'[x].locks = {}
         /\ Holds(x)' /\ Knows(x)' /\ Exclusive'
         /\ \A y \in Transactions \ {x} : tx[y].locks \cap tx'[x].locks = {}
<1>1. /\ tx' \in [Transactions -> TxType]
      /\ \A y \in Transactions \ {x} : tx'[y] = tx[y]
      /\ tx'[x].pc = pc /\ tx'[x].seen = tx[x].seen /\ tx'[x].proof = tx[x].proof
      /\ tx'[x].token = tx[x].token /\ tx'[x].targets = tx[x].targets
      /\ tx'[x].ends = tx[x].ends /\ tx'[x].locks = {}
  <2>1. tx \in [Transactions -> TxType]
    BY Typed DEF IInv
  <2>2. tx' = [tx EXCEPT ![x].pc = pc, ![x].locks = {}]
    BY DEF Finish
  <2>3. pc \in Phases /\ {} \in SUBSET Locks
    BY DEF Phases
  <2> QED
    BY <2>1, <2>2, <2>3 DEF TxType
<1>2. Holds(x)
  BY DEF IInv
<1>3. Holds(x)'
  BY <1>1, <1>2, Kinds DEF Holds, Unlocked, Replacing
<1>4. Knows(x)'
  BY <1>1 DEF Knows, Replacing
<1>5. Exclusive'
  BY <1>1 DEF Exclusive, IInv
<1> QED
  BY <1>1, <1>3, <1>4, <1>5

LEMMA AbortStep ==
  ASSUME IInv, NEW x \in Transactions, Abort(x)
  PROVE  IInv'
<1>1. /\ tx[x].pc # "committed" /\ Finish(x, "aborted")
      /\ UNCHANGED <<hash, token, session, proofs, mailed, overlapped>>
  BY DEF Abort
<1>2. Overlaps'
  BY <1>1, Finishing, SameOverlaps
<1> QED
  BY <1>1, <1>2, Finishing, OneTransaction DEF IInv, TypeOK

\* What the transactions know depends on the proofs handed out no more.
LEMMA ReauthenticateStep ==
  ASSUME IInv, Reauthenticate \/ UNCHANGED vars
  PROVE  IInv'
<1>1. UNCHANGED <<hash, token, session, mailed, tx, overlapped>> /\ proofs' \subseteq Hashes
  BY DEF Reauthenticate, Reauthenticated, NewProof, vars, IInv, TypeOK
<1>2. Active' = Active /\ LoggingIn' = LoggingIn /\ UsersRowHeld' = UsersRowHeld
  BY <1>1 DEF Active, LoggingIn, UsersRowHeld
<1>3. TypeOK'
  BY <1>1 DEF IInv, TypeOK
<1>4. \A x \in Transactions : Holds(x)' /\ Knows(x)'
  BY <1>1, <1>2 DEF IInv, Holds, Knows
<1> QED
  BY <1>1, <1>2, <1>3, <1>4
  DEF IInv, Exclusive, Tokens, Sessions, Overlaps, SessionsFollowThePassword

-----------------------------------------------------------------------------
\* The commits.

\* The new token is the only active one: the issue has locked all the others.
LEMMA CommitIssueStep ==
  ASSUME IInv, NEW x \in Transactions, CommitIssue(x)
  PROVE  IInv'
<1>1. /\ x \in Issues /\ tx[x].pc = "delivered" /\ Finish(x, "committed")
      /\ UNCHANGED <<hash, session, proofs, mailed, overlapped>>
      /\ Holds(x) /\ Knows(x)
  BY DEF CommitIssue, IInv
<1>2. /\ Active \subseteq tx[x].targets /\ tx[x].targets \subseteq tx[x].locks
      /\ "issuance" \in tx[x].locks /\ tx[x].targets \subseteq Issues
  BY <1>1, Fields DEF Holds, Knows, Unlocked, IInv
<1>3. /\ token' \in [Issues -> {"absent", "active", "used", "invalidated"}]
      /\ token'[x] = "active"
      /\ \A t \in Issues \ {x} :
           token'[t] = IF t \in tx[x].targets THEN "invalidated" ELSE token[t]
  BY <1>1, Typed DEF CommitIssue, Issued, Invalidated, IInv
<1>4. /\ tx' \in [Transactions -> TxType]
      /\ \A y \in Transactions \ {x} : tx'[y] = tx[y]
      /\ tx'[x].pc = "committed" /\ tx'[x].targets = tx[x].targets /\ tx'[x].locks = {}
      /\ Holds(x)' /\ Knows(x)' /\ Exclusive'
  BY <1>1, Finishing
<1>5. Active' = {x}
  BY <1>1, <1>2, <1>3 DEF Active
<1>6. \A t \in Issues : token[t] # "absent" => token'[t] # "absent"
  BY <1>3
<1>7. TypeOK'
  BY <1>1, <1>3, <1>4 DEF IInv, TypeOK, TxType
<1>8. ASSUME NEW y \in Transactions, y # x
      PROVE  Holds(y)' /\ Knows(y)'
  <2>1. tx'[y] = tx[y] /\ Holds(y) /\ Knows(y) /\ tx[x].locks \cap tx[y].locks = {}
    BY <1>4, <1>8 DEF IInv, Exclusive
  <2>2. Holds(y)'
    BY <2>1 DEF Holds
  <2>3. ~(y \in Issues /\ tx[y].pc \in {"invalidating", "delivered"})
    BY <1>2, <2>1 DEF Holds, Unlocked
  <2>4. ~(y \in Confirms /\ tx[y].pc \in {"verified"} \cup Replacing)
    BY <1>2, <2>1, TokenIsCommitted DEF Active
  <2>5. Knows(y)'
    BY <1>1, <2>1, <2>3, <2>4 DEF Knows
  <2> QED
    BY <2>2, <2>5
<1>9. Tokens'
  <2>1. \A t \in Issues : token'[t] # "absent" => tx'[t].pc = "committed"
    BY <1>3, <1>4 DEF Tokens, IInv, Transactions
  <2>2. \A y \in Transactions : \A t \in tx[y].targets : t \in Issues /\ token'[t] # "absent"
    BY <1>6, Fields DEF Tokens, IInv
  <2>3. \A y \in Transactions : tx'[y].targets = tx[y].targets
    BY <1>4
  <2> QED
    BY <1>5, <2>1, <2>2, <2>3 DEF Tokens
<1>10. Sessions' /\ SessionsFollowThePassword'
  BY <1>1, <1>4, NamesAssumption DEF Sessions, SessionsFollowThePassword, IInv, Transactions
<1>11. Overlaps'
  BY <1>1, <1>4, SameOverlaps
<1> QED
  BY <1>4, <1>7, <1>8, <1>9, <1>10, <1>11 DEF IInv

\* Whoever has the users row is the only one to rely on the hash.
LEMMA CommitWriterStep ==
  ASSUME IInv, NEW x \in Transactions, CommitWriter(x)
  PROVE  IInv'
<1>1. /\ x \in Writers /\ tx[x].pc = "revoked" /\ Finish(x, "committed") /\ hash' = x
      /\ session' = [l \in Logins |-> IF l \in tx[x].ends THEN "revoked" ELSE session[l]]
      /\ UNCHANGED <<proofs, mailed, overlapped>>
      /\ Holds(x) /\ Knows(x)
  BY DEF CommitWriter, IInv
<1>2. /\ tx[x].targets = {} /\ "user" \in tx[x].locks
      /\ x \in Confirms => tx[x].token \in tx[x].locks
  BY <1>1 DEF Holds, Unlocked, Replacing
<1>3. /\ token' \in [Issues -> {"absent", "active", "used", "invalidated"}]
      /\ \A t \in Issues : token'[t] = IF t = tx[x].token THEN "used" ELSE token[t]
  BY <1>2, Typed DEF CommitWriter, Used, Invalidated, IInv
<1>4. /\ tx' \in [Transactions -> TxType]
      /\ \A y \in Transactions \ {x} : tx'[y] = tx[y]
      /\ tx'[x].pc = "committed" /\ tx'[x].seen = tx[x].seen
      /\ tx'[x].targets = tx[x].targets /\ tx'[x].locks = {}
      /\ Holds(x)' /\ Knows(x)' /\ Exclusive'
  BY <1>1, Finishing
<1>5. Active' \subseteq Active
  BY <1>3 DEF Active
<1>6. x \notin Issues /\ x \notin Logins /\ x \in Hashes /\ (x \in Confirms \/ x \in Changes)
  BY <1>1, Kinds
<1>7. /\ session' \in [Logins -> {"absent", "live", "revoked"}]
      /\ \A l \in Logins : session'[l] = "live" => session[l] = "live"
      /\ \A l \in Logins : session'[l] = "live" => l \in overlapped
  BY <1>1, Typed DEF IInv, Knows
<1>8. TypeOK'
  BY <1>1, <1>3, <1>4, <1>6, <1>7 DEF IInv, TypeOK, TxType
<1>9. ASSUME NEW l \in Logins, tx[l].pc = "known"
      PROVE  l \in overlapped
  BY <1>2, <1>9 DEF IInv, Overlaps, UsersRowHeld, LoggingIn
<1>10. ASSUME NEW y \in Transactions, y # x
       PROVE  Holds(y)' /\ Knows(y)'
  <2>1. tx'[y] = tx[y] /\ Holds(y) /\ Knows(y) /\ tx[x].locks \cap tx[y].locks = {}
    BY <1>4, <1>10 DEF IInv, Exclusive
  <2>2. Holds(y)'
    BY <2>1 DEF Holds
  <2>3. ~(y \in Writers /\ tx[y].pc \in Replacing)
    BY <1>2, <2>1 DEF Holds
  <2>4. y \in Confirms /\ tx[y].pc = "verified" =>
          /\ tx[y].token \in Issues /\ tx[y].token # tx[x].token
          /\ tx[tx[y].token].seen = tx[y].seen /\ tx[y].token \in Transactions \ {x}
          /\ token[tx[y].token] = "active"
    <3>1. ASSUME y \in Confirms, tx[y].pc = "verified"
          PROVE  tx[y].token \in Issues /\ tx[y].token \in tx[y].locks
      BY <3>1, TokenIsCommitted
    <3>2. x \in Changes => tx[x].token = None
      BY <1>1 DEF Holds
    <3> QED
      BY <1>2, <1>6, <2>1, <3>1, <3>2, NamesAssumption DEF Knows, Transactions
  <2>5. y \in Confirms /\ tx[y].pc = "verified" =>
          token'[tx[y].token] = "active" /\ tx'[tx[y].token].seen = tx[y].seen
    BY <1>3, <1>4, <2>4
  <2>6. y \in Confirms \/ y \in Changes => y \in Writers
    BY DEF Writers
  <2>7. Knows(y)'
    BY <1>1, <1>5, <1>9, <2>1, <2>3, <2>5, <2>6 DEF Knows, Replacing
  <2> QED
    BY <2>2, <2>7
<1>11. Tokens'
  <2>1. tx[x].token \in Issues => tx[tx[x].token].pc = "committed" /\ tx[x].token \in Transactions \ {x}
    <3>1. x \in Changes => tx[x].token \notin Issues
      BY <1>1, NamesAssumption DEF Holds
    <3> QED
      BY <1>1, <1>6, <3>1, TokenIsCommitted DEF Replacing
  <2>2. \A t \in Issues : token'[t] # "absent" => tx'[t].pc = "committed"
    BY <1>3, <1>4, <1>6, <2>1 DEF Tokens, IInv, Transactions
  <2>3. \A y \in Transactions : \A t \in tx[y].targets : t \in Issues /\ token'[t] # "absent"
    BY <1>3, Fields DEF Tokens, IInv
  <2>4. \A y \in Transactions : tx'[y].targets = tx[y].targets
    BY <1>4
  <2>5. \A s, t \in Active' : s = t
    BY <1>5 DEF Tokens, IInv
  <2> QED
    BY <2>2, <2>3, <2>4, <2>5 DEF Tokens
<1>12. Sessions' /\ SessionsFollowThePassword'
  BY <1>1, <1>4, <1>6, <1>7 DEF Sessions, SessionsFollowThePassword, IInv, Transactions
<1>13. Overlaps'
  BY <1>1, <1>4, <1>6, SameOverlaps
<1> QED
  BY <1>4, <1>8, <1>10, <1>11, <1>12, <1>13 DEF IInv

\* The new session is of the present password, unless its login is remembered.
LEMMA CommitLoginStep ==
  ASSUME IInv, NEW x \in Transactions, CommitLogin(x)
  PROVE  IInv'
<1>1. /\ x \in Logins /\ tx[x].pc = "known" /\ Finish(x, "committed")
      /\ session' = [session EXCEPT ![x] = "live"]
      /\ UNCHANGED <<hash, token, proofs, mailed, overlapped>>
      /\ Holds(x) /\ Knows(x)
  BY DEF CommitLogin, LoggedIn, LoggingIn, IInv
<1>2. /\ tx' \in [Transactions -> TxType]
      /\ \A y \in Transactions \ {x} : tx'[y] = tx[y]
      /\ tx'[x].pc = "committed" /\ tx'[x].seen = tx[x].seen
      /\ tx'[x].targets = tx[x].targets /\ tx'[x].locks = {}
      /\ Holds(x)' /\ Knows(x)' /\ Exclusive'
  BY <1>1, Finishing
<1>3. x \notin Issues /\ x \notin Writers /\ x \notin Confirms /\ x \notin Changes
  BY <1>1, Kinds
<1>4. /\ session' \in [Logins -> {"absent", "live", "revoked"}]
      /\ \A l \in Logins \ {x} : session'[l] = session[l]
  BY <1>1, Typed DEF IInv
<1>5. TypeOK'
  BY <1>1, <1>2, <1>4 DEF IInv, TypeOK, TxType
<1>6. Active' = Active
  BY <1>1 DEF Active
<1>7. UsersRowHeld => x \in overlapped
  BY <1>1 DEF IInv, Overlaps, LoggingIn
<1>8. ASSUME NEW y \in Transactions, y # x
      PROVE  Holds(y)' /\ Knows(y)'
  <2>1. tx'[y] = tx[y] /\ Holds(y) /\ Knows(y)
    BY <1>2, <1>8 DEF IInv
  <2>2. Holds(y)'
    BY <2>1 DEF Holds
  <2>3. y \in Confirms /\ tx[y].pc \in {"verified"} \cup Replacing =>
          token[tx[y].token] = "active" /\ tx'[tx[y].token].seen = tx[y].seen
    BY <1>2, <1>3, <2>1, TokenIsCommitted DEF Knows
  <2>4. y \in Writers /\ tx[y].pc = "revoked" => x \in overlapped
    BY <1>7, <2>1 DEF Holds, Replacing, UsersRowHeld
  <2>5. y \in Writers /\ tx[y].pc = "revoked" =>
          \A l \in Logins : session'[l] = "live" => l \in tx[y].ends \cup overlapped
    BY <1>4, <2>1, <2>4 DEF Knows
  <2>6. Knows(y)'
    BY <1>1, <1>6, <2>1, <2>3, <2>5 DEF Knows
  <2> QED
    BY <2>2, <2>6
<1>9. Tokens'
  BY <1>1, <1>2, <1>3, <1>6 DEF Tokens, IInv, Transactions
<1>10. Sessions' /\ SessionsFollowThePassword'
  BY <1>1, <1>2, <1>4 DEF Sessions, SessionsFollowThePassword, IInv, Knows, Transactions
<1>11. Overlaps'
  BY <1>1, <1>2, SameOverlaps
<1> QED
  BY <1>2, <1>5, <1>8, <1>9, <1>10, <1>11 DEF IInv

-----------------------------------------------------------------------------
LEMMA Starting == ASSUME Init PROVE IInv
<1>1. \A x \in Transactions :
        tx[x] = [pc |-> "ready", seen |-> None, token |-> None, proof |-> None,
                 targets |-> {}, ends |-> {}, locks |-> {}]
  BY DEF Init
<1>2. TypeOK
  BY DEF Init, TypeOK, Phases, Hashes
<1>3. \A x \in Transactions : Holds(x)
  BY <1>1 DEF Holds, Unlocked, Replacing
<1>4. \A x \in Transactions : Knows(x)
  BY <1>1 DEF Knows, Replacing
<1>5. Active = {}
  BY DEF Active, Init
<1>6. Tokens
  BY <1>1, <1>5 DEF Tokens, Init
<1> QED
  BY <1>1, <1>2, <1>3, <1>4, <1>6
  DEF IInv, Exclusive, Sessions, SessionsFollowThePassword, Overlaps, UsersRowHeld, Init

LEMMA Invariance == ASSUME IInv, [Next]_vars PROVE IInv'
BY ReadAccountStep, PresentStep, HoldStep, VerifyTokenStep, VerifyProofStep, ReplaceStep,
   SerializeStep, TargetStep, LockTargetStep, DeliverStep, RevokeStep, CommitIssueStep,
   CommitWriterStep, CommitLoginStep, AbortStep, ReauthenticateStep
DEF Next

LEMMA Invariant == Spec => []IInv
BY Starting, Invariance, PTL DEF Spec

\* A newly requested credential supersedes every earlier one, whatever the requests,
\* confirmations and changes under way (request_reset, invalidate_active_for_user).
THEOREM OneTokenAtATime == Spec => []OneUsableToken
<1>1. ASSUME IInv PROVE OneUsableToken
  <2>1. CASE Active = {}
    BY <1>1, <2>1, FS_EmptySet DEF OneUsableToken, IInv
  <2>2. ASSUME NEW t \in Active
        PROVE  OneUsableToken
    <3>1. Active = {t}
      BY <1>1, <2>2 DEF IInv, Tokens
    <3>2. Cardinality(Active) = 1
      BY <3>1, FS_Singleton
    <3> QED
      BY <1>1, <3>2 DEF OneUsableToken, IInv
  <2> QED
    BY <2>1, <2>2
<1> QED
  BY <1>1, Invariant, PTL

\* A live session belongs to the present password, unless its login was under way while
\* the change was (revoke_all_for_user under the lock of the users row).
THEOREM LiveSessionsAreOfThePassword == Spec => []SessionsFollowThePassword
<1>1. IInv => SessionsFollowThePassword
  BY DEF IInv
<1> QED
  BY <1>1, Invariant, PTL

\* The password is only replaced on the strength of the very password it replaces
\* (update_password_hash_if_current, the fingerprint of a reset token or proof).
THEOREM ChangesAreVerified == Spec => ChangesBuildOnWhatTheyVerified
<1> DEFINE Verified ==
      hash' # hash =>
         \E x \in Writers :
            /\ hash' = x
            /\ tx[x].seen = hash
            /\ x \in Confirms => tx[tx[x].token].seen = hash
            /\ x \in Changes => tx[x].proof = hash
<1>1. ASSUME IInv, Next, hash' # hash
      PROVE  Verified
  <2>1. PICK x \in Transactions : CommitWriter(x)
    BY <1>1 DEF Next, Reauthenticate, ReadAccount, Present, Hold, VerifyToken, VerifyProof,
       Replace,
                Serialize, Target, LockTarget, Deliver, Revoke, CommitIssue, CommitLogin, Abort
  <2>2. x \in Writers /\ tx[x].pc = "revoked" /\ hash' = x /\ Knows(x)
    BY <1>1, <2>1 DEF CommitWriter, IInv
  <2>3. tx[x].seen = hash /\ (x \in Confirms => tx[tx[x].token].seen = hash)
        /\ (x \in Changes => tx[x].proof = hash)
    BY <2>2 DEF Knows, Replacing
  <2> QED
    BY <2>2, <2>3
<1>2. IInv /\ [Next]_vars => [Verified]_vars
  BY <1>1
<1> QED
  BY <1>2, Invariant, PTL DEF Spec, ChangesBuildOnWhatTheyVerified

-----------------------------------------------------------------------------
\* Lock cycles.

\* A blocked transaction holds nothing, or is an issue that waits for a token row, or a
\* verified writer that waits for the users row.
LEMMA WhoIsBlocked ==
  ASSUME IInv, NEW x \in Blocked
  PROVE  /\ x \in Transactions
         /\ \/ tx[x].locks = {} /\ tx[x].pc # "verified"
            \/ x \in Issues /\ "issuance" \in tx[x].locks /\ Awaited(x) = tx[x].targets \ tx[x].locks
            \/ tx[x].pc = "verified" /\ x \in Writers /\ Awaited(x) = {"user"}
<1>1. x \in Transactions /\ Awaited(x) # {} /\ Holds(x)
  BY DEF Blocked, WaitsFor, IInv
<1>2. CASE tx[x].pc \in {"presented", "known"}
  BY <1>1, <1>2 DEF Holds, Unlocked
<1>3. CASE tx[x].pc = "verified"
  BY <1>1, <1>3, PhaseOfKind DEF Awaited
<1>4. CASE tx[x].pc = "invalidating"
  <2>1. Awaited(x) = tx[x].targets \ tx[x].locks
    BY <1>4 DEF Awaited
  <2>2. x \in Issues
    BY <1>1, <1>4, <2>1, PhaseOfKind, Kinds DEF Holds
  <2> QED
    BY <1>1, <1>4, <2>1, <2>2 DEF Holds, Unlocked
<1>5. CASE tx[x].pc \notin {"presented", "known", "verified", "invalidating"}
  <2>1. x \in Confirms => IssuanceLocks(x) = {}
    BY <1>1, Kinds DEF IssuanceLocks
  <2>2. Awaited(x) = {}
    BY <1>5, <2>1 DEF Awaited
  <2> QED
    BY <1>1, <2>2
<1> QED
  BY <1>2, <1>3, <1>4, <1>5

\* Transactions never wait for each other in a ring, so the database has no deadlock to
\* break: not between requests, not between confirmations, not between the two
\* (get_by_digest_for_update, invalidate_active_for_user, update_password_hash_if_current).
THEOREM NoDeadlock == Spec => []NoLockCycle
<1>1. ASSUME IInv, NEW waiting \in (SUBSET Blocked) \ {{}}
      PROVE  \E x \in waiting : \A y \in waiting : ~WaitsFor(x, y)
  <2> USE <1>1
  <2>1. ASSUME NEW x \in waiting, tx[x].pc = "verified", Awaited(x) = {"user"}
        PROVE  \A y \in waiting : ~WaitsFor(x, y)
    <3> SUFFICES ASSUME NEW y \in waiting, "user" \in tx[y].locks PROVE FALSE
      BY <2>1 DEF WaitsFor
    <3>1. y \in Transactions /\ y \in Blocked /\ Holds(y)
      BY WhoIsBlocked DEF IInv
    <3>2. y \in Issues => tx[y].targets \subseteq Issues /\ tx[y].locks \subseteq {"issuance"} \cup tx[y].targets
      BY <3>1, Fields DEF Holds, IInv
    <3>3. y \notin Issues
      BY <3>2, NamesAssumption
    <3>4. tx[y].pc = "verified" /\ y \in Writers
      BY <3>1, <3>3, WhoIsBlocked
    <3> QED
      BY <3>1, <3>4 DEF Holds, Replacing
  <2>2. ASSUME NEW x \in waiting, x \in Issues, "issuance" \in tx[x].locks,
               Awaited(x) = tx[x].targets \ tx[x].locks,
               \A y \in waiting : tx[y].pc # "verified"
        PROVE  \A y \in waiting : ~WaitsFor(x, y)
    <3> SUFFICES ASSUME NEW y \in waiting, WaitsFor(x, y) PROVE FALSE
      OBVIOUS
    <3>1. y \in Transactions /\ x \in Transactions /\ x # y /\ tx[y].locks # {}
      BY WhoIsBlocked DEF WaitsFor
    <3>2. "issuance" \in tx[y].locks
      BY <2>2, <3>1, WhoIsBlocked
    <3> QED
      BY <2>2, <3>1, <3>2 DEF IInv, Exclusive
  <2>3. ASSUME \A y \in waiting : tx[y].locks = {}
        PROVE  \A x, y \in waiting : ~WaitsFor(x, y)
    BY <2>3 DEF WaitsFor
  <2>4. CASE \E x \in waiting : tx[x].pc = "verified"
    <3>1. PICK x \in waiting : tx[x].pc = "verified"
      BY <2>4
    <3>2. Awaited(x) = {"user"}
      BY <3>1 DEF Awaited
    <3> QED
      BY <2>1, <3>1, <3>2
  <2>5. CASE \A x \in waiting : tx[x].pc # "verified"
    <3>1. CASE \A x \in waiting : tx[x].locks = {}
      BY <2>3, <3>1
    <3>2. ASSUME NEW x \in waiting, tx[x].locks # {}
          PROVE  \A y \in waiting : ~WaitsFor(x, y)
      <4>1. /\ x \in Issues /\ "issuance" \in tx[x].locks
            /\ Awaited(x) = tx[x].targets \ tx[x].locks
        BY <2>5, <3>2, WhoIsBlocked
      <4> QED
        BY <2>2, <2>5, <4>1
    <3> QED
      BY <3>1, <3>2
  <2> QED
    BY <2>4, <2>5
<1>2. IInv => NoLockCycle
  BY <1>1 DEF NoLockCycle
<1> QED
  BY <1>2, Invariant, PTL
-----------------------------------------------------------------------------
\* Queues that lose their head.

LEMMA ArrayIsSeq ==
  ASSUME NEW S, NEW n \in Nat, NEW queue \in [1 .. n -> S]
  PROVE  queue \in Seq(S) /\ Len(queue) = n
<1>1. queue \in Seq(S)
  BY SeqDef
<1> QED
  BY <1>1

LEMMA LeastOfNat ==
  ASSUME NEW S \in SUBSET Nat, S # {}
  PROVE  Min(S) \in S /\ \A y \in S : Min(S) <= y
<1>1. \E x \in S : \A y \in S : ~ (<<y, x>> \in OpToRel(<, Nat))
  BY NatLessThanWellFounded, WFMin
<1>2. PICK x \in S : \A y \in S : ~ (<<y, x>> \in OpToRel(<, Nat))
  BY <1>1
<1>3. OpToRel(<, Nat) = {ss \in Nat \X Nat : ss[1] < ss[2]}
  BY Zenon DEF OpToRel
<1>4. \A y \in S : ~ (<<y, x>> \in {ss \in Nat \X Nat : ss[1] < ss[2]})
  BY <1>2, <1>3, Zenon
<1>5. ASSUME NEW y \in S, y < x
      PROVE  FALSE
  <2>1. x \in Nat /\ y \in Nat
    OBVIOUS
  <2>2. <<y, x>> \in Nat \X Nat /\ <<y, x>>[1] = y /\ <<y, x>>[2] = x
    BY <2>1
  <2> QED
    BY <1>4, <1>5, <2>2
<1>6. \A y \in S : x <= y
  BY <1>5
<1> QED
  BY <1>6 DEF Min

\* The head that is gone holds none of the kept; one of them is the new head.
LEMMA SuffixFacts ==
  ASSUME NEW S, NEW queue \in Seq(S), NEW kept \in SUBSET DOMAIN queue
  PROVE  \E d \in 0 .. Len(queue) :
           /\ Suffix(queue, kept) \in Seq(S)
           /\ Len(Suffix(queue, kept)) = Len(queue) - d
           /\ \A i \in 1 .. Len(queue) - d : Suffix(queue, kept)[i] = queue[i + d]
           /\ \A i \in 1 .. d : i \notin kept
           /\ d < Len(queue) => d + 1 \in kept
<1>1. CASE kept = {}
  <2>1. Suffix(queue, kept) = <<>>
    BY <1>1 DEF Suffix
  <2>2. <<>> \in Seq(S) /\ Len(<<>>) = 0 /\ Len(queue) \in Nat
    OBVIOUS
  <2>3. /\ Len(queue) \in 0 .. Len(queue) /\ Len(queue) - Len(queue) = 0
        /\ 1 .. Len(queue) - Len(queue) = {} /\ ~(Len(queue) < Len(queue))
    BY <2>2
  <2> WITNESS Len(queue) \in 0 .. Len(queue)
  <2> QED
    BY <1>1, <2>1, <2>2, <2>3
<1>2. CASE kept # {}
  <2>1. kept \in SUBSET Nat /\ Len(queue) \in Nat /\ DOMAIN queue = 1 .. Len(queue)
    OBVIOUS
  <2>2. Min(kept) \in kept /\ \A y \in kept : Min(kept) <= y
    BY <1>2, <2>1, LeastOfNat
  <2> DEFINE m == Min(kept)
  <2>3. m \in 1 .. Len(queue) /\ \A i \in 1 .. m - 1 : i \notin kept
    BY <2>1, <2>2
  <2>4. Suffix(queue, kept) = SubSeq(queue, m, Len(queue))
    BY <1>2 DEF Suffix
  <2> HIDE DEF m
  <2>5. /\ SubSeq(queue, m, Len(queue)) \in Seq(S)
        /\ Len(SubSeq(queue, m, Len(queue))) = Len(queue) - (m - 1)
        /\ \A i \in 1 .. Len(queue) - (m - 1) :
             SubSeq(queue, m, Len(queue))[i] = queue[i + (m - 1)]
    BY <2>1, <2>3
  <2>6. m \in kept
    BY <2>2 DEF m
  <2>7. m - 1 \in 0 .. Len(queue) /\ (m - 1) + 1 \in kept
    BY <2>1, <2>3, <2>6
  <2> QED
    BY <2>3, <2>4, <2>5, <2>7
<1> QED
  BY <1>1, <1>2

LEMMA PrunedFacts ==
  ASSUME NEW bucket \in Seq(Nat), NEW window \in Nat, NEW lag \in Nat
  PROVE  \E d \in 0 .. Len(bucket) :
           /\ Pruned(bucket, window, lag) \in Seq(Nat)
           /\ Len(Pruned(bucket, window, lag)) = Len(bucket) - d
           /\ \A i \in 1 .. Len(bucket) - d : Pruned(bucket, window, lag)[i] = bucket[i + d]
           /\ \A i \in 1 .. d : bucket[i] >= window + lag
           /\ d < Len(bucket) => bucket[d + 1] < window + lag
<1> DEFINE kept == {i \in DOMAIN bucket : bucket[i] < window + lag}
<1>1. Pruned(bucket, window, lag) = Suffix(bucket, kept)
  BY DEF Pruned
<1>2. kept \in SUBSET DOMAIN bucket
  OBVIOUS
<1>3. \A i \in 1 .. Len(bucket) : i \notin kept => bucket[i] >= window + lag
  OBVIOUS
<1>4. \A i \in kept : bucket[i] < window + lag
  OBVIOUS
<1> HIDE DEF kept
<1>5. PICK d \in 0 .. Len(bucket) :
           /\ Suffix(bucket, kept) \in Seq(Nat)
           /\ Len(Suffix(bucket, kept)) = Len(bucket) - d
           /\ \A i \in 1 .. Len(bucket) - d : Suffix(bucket, kept)[i] = bucket[i + d]
           /\ \A i \in 1 .. d : i \notin kept
           /\ d < Len(bucket) => d + 1 \in kept
  BY <1>2, SuffixFacts
<1>6. \A i \in 1 .. d : i \in 1 .. Len(bucket)
  OBVIOUS
<1>7. \A i \in 1 .. d : bucket[i] >= window + lag
  BY <1>3, <1>5, <1>6
<1> QED
  BY <1>1, <1>4, <1>5, <1>7

LEMMA BucketFacts ==
  ASSUME NEW keys, NEW window \in Nat, NEW capacity \in Nat, NEW f
  PROVE  f \in Buckets(keys, window, capacity) <=>
           f \in [keys -> {b \in Seq(0 .. Oldest(window)) : Len(b) <= capacity}]
<1> DEFINE T == 0 .. Oldest(window)
<1> HIDE DEF T
<1>1. UNION {[1 .. n -> T] : n \in 0 .. capacity} = {b \in Seq(T) : Len(b) <= capacity}
  <2>1. ASSUME NEW n \in 0 .. capacity, NEW b \in [1 .. n -> T]
        PROVE  b \in Seq(T) /\ Len(b) <= capacity
    <3>1. n \in Nat
      OBVIOUS
    <3> QED
      BY <3>1, ArrayIsSeq
  <2>2. ASSUME NEW b \in Seq(T), Len(b) <= capacity
        PROVE  b \in [1 .. Len(b) -> T] /\ Len(b) \in 0 .. capacity
    <3>1. Len(b) \in Nat /\ b \in [1 .. Len(b) -> T]
      BY LenProperties
    <3> QED
      BY <2>2, <3>1
  <2>3. ASSUME NEW b \in UNION {[1 .. n -> T] : n \in 0 .. capacity}
        PROVE  b \in Seq(T) /\ Len(b) <= capacity
    <3>1. PICK n \in 0 .. capacity : b \in [1 .. n -> T]
      OBVIOUS
    <3> QED
      BY <2>1, <3>1
  <2>4. ASSUME NEW b \in Seq(T), Len(b) <= capacity
        PROVE  b \in UNION {[1 .. n -> T] : n \in 0 .. capacity}
    BY <2>2, <2>4
  <2> QED
    BY <2>3, <2>4
<1> QED
  BY <1>1 DEF Buckets, T

LEMMA PrunedIsShorter ==
  ASSUME NEW window \in Nat, NEW bucket \in Seq(0 .. Oldest(window)), NEW lag \in Nat
  PROVE  /\ Pruned(bucket, window, lag) \in Seq(0 .. Oldest(window))
         /\ Len(Pruned(bucket, window, lag)) <= Len(bucket)
         /\ Len(Pruned(bucket, window, lag)) = Len(bucket) =>
              Pruned(bucket, window, lag) = bucket
<1>1. Oldest(window) \in Nat
  BY LagAssumption DEF Oldest
<1>2. bucket \in Seq(Nat)
  BY <1>1
<1>3. PICK d \in 0 .. Len(bucket) :
        /\ Pruned(bucket, window, lag) \in Seq(Nat)
        /\ Len(Pruned(bucket, window, lag)) = Len(bucket) - d
        /\ \A i \in 1 .. Len(bucket) - d : Pruned(bucket, window, lag)[i] = bucket[i + d]
  BY <1>2, PrunedFacts
<1> DEFINE left == Pruned(bucket, window, lag)
<1> HIDE DEF left
<1>4. left \in Seq(Nat) /\ Len(left) = Len(bucket) - d /\ Len(left) \in Nat /\ Len(bucket) \in Nat
  BY <1>3 DEF left
<1>5. \A i \in 1 .. Len(left) : left[i] = bucket[i + d] /\ i + d \in 1 .. Len(bucket)
  BY <1>3, <1>4 DEF left
<1>6. \A i \in 1 .. Len(left) : left[i] \in 0 .. Oldest(window)
  BY <1>5, ElementOfSeq
<1>7. left \in Seq(0 .. Oldest(window))
  <2>1. left \in [1 .. Len(left) -> 0 .. Oldest(window)]
    BY <1>4, <1>6, LenProperties
  <2> QED
    BY <1>4, <2>1, ArrayIsSeq
<1>8. Len(left) = Len(bucket) => left = bucket
  <2> HAVE Len(left) = Len(bucket)
  <2>1. d = 0
    BY <1>4
  <2>2. \A i \in 1 .. Len(left) : left[i] = bucket[i]
    BY <1>5, <2>1
  <2> QED
    BY <1>2, <1>4, <2>2, SeqEqual
<1> QED
  BY <1>4, <1>7, <1>8 DEF left

\* An age after a tick.
Later(age, window) == IF age = Oldest(window) THEN age ELSE age + 1

LEMMA OlderFacts ==
  ASSUME NEW window \in Nat, NEW bucket \in Seq(0 .. Oldest(window))
  PROVE  /\ Older(bucket, window) \in Seq(0 .. Oldest(window))
         /\ Len(Older(bucket, window)) = Len(bucket)
         /\ \A i \in 1 .. Len(bucket) :
              Older(bucket, window)[i] = Later(bucket[i], window)
<1> DEFINE older == [i \in DOMAIN bucket |-> Min({bucket[i] + 1, Oldest(window)})]
<1>1. Older(bucket, window) = older
  BY DEF Older
<1>2. Oldest(window) \in Nat
  BY LagAssumption DEF Oldest
<1>3. bucket \in Seq(0 .. Oldest(window)) /\ DOMAIN bucket = 1 .. Len(bucket) /\ Len(bucket) \in Nat
  BY LenProperties
<1>4. ASSUME NEW i \in 1 .. Len(bucket)
      PROVE  /\ older[i] = Later(bucket[i], window)
             /\ older[i] \in 0 .. Oldest(window)
  <2>1. bucket[i] \in 0 .. Oldest(window)
    BY <1>3, ElementOfSeq
  <2> DEFINE a == bucket[i] + 1
             m == Min({a, Oldest(window)})
  <2>2. older[i] = m
    BY <1>3
  <2>3. a \in Nat /\ {a, Oldest(window)} \in SUBSET Nat /\ {a, Oldest(window)} # {}
    BY <1>2, <2>1
  <2> HIDE DEF a
  <2>4. m \in {a, Oldest(window)} /\ \A y \in {a, Oldest(window)} : m <= y
    BY <2>3, LeastOfNat
  <2>5. (m = a \/ m = Oldest(window)) /\ m <= a /\ m <= Oldest(window)
    BY <2>4
  <2> HIDE DEF m
  <2> QED
    BY <1>2, <2>1, <2>2, <2>5 DEF a, Later
<1>5. older \in Seq(0 .. Oldest(window)) /\ Len(older) = Len(bucket)
  BY <1>3, <1>4
<1> QED
  BY <1>1, <1>4, <1>5

-----------------------------------------------------------------------------
\* The reset throttle.

LEMMA SameWindows ==
  /\ \A bucket, window, lag : Reset!Pruned(bucket, window, lag) = Pruned(bucket, window, lag)
  /\ \A f, window : Reset!Aged(f, window) = Aged(f, window)
  /\ \A keys, window, capacity :
       Reset!Buckets(keys, window, capacity) = Buckets(keys, window, capacity)
  /\ \A keys : Reset!Empty(keys) = Empty(keys)
BY DEF Reset!Pruned, Pruned, Reset!Suffix, Suffix, Reset!Min, Min, Reset!Aged, Aged,
       Reset!Older, Older, Reset!Oldest, Oldest, Reset!Buckets, Buckets, Reset!Empty, Empty

\* After the wait the bucket of the client has room, if only because its oldest
\* entry is about to go.
Covered(bucket, capacity, window, wait) ==
    Len(bucket) < capacity \/ bucket[1] + wait >= window

PromiseIsKept ==
    promised.made =>
        /\ Covered(ipRequests[promised.client[1]], IpMaxRequests, IpResetWindow, promised.wait)
        /\ Covered(accountRequests[promised.client[2]], AccountMaxRequests, AccountResetWindow,
                   promised.wait)

ResetInv == Reset!ResetTypeOK /\ PromiseIsKept

LEMMA CoveredWhenPruned ==
  ASSUME NEW window \in Nat, NEW bucket \in Seq(0 .. Oldest(window)), NEW lag \in Nat,
         NEW capacity \in Nat, NEW wait \in Nat,
         Len(bucket) <= capacity, Covered(bucket, capacity, window, wait)
  PROVE  Covered(Pruned(bucket, window, lag), capacity, window, wait)
<1> DEFINE left == Pruned(bucket, window, lag)
<1>1. left \in Seq(0 .. Oldest(window)) /\ Len(left) <= Len(bucket)
      /\ (Len(left) = Len(bucket) => left = bucket)
  BY PrunedIsShorter
<1> HIDE DEF left
<1>2. Len(left) \in Nat /\ Len(bucket) \in Nat
  BY <1>1, LenProperties
<1>3. CASE Len(left) = Len(bucket)
  BY <1>1, <1>3 DEF left
<1>4. CASE Len(left) < Len(bucket)
  <2>1. Len(left) < capacity
    BY <1>2, <1>4
  <2> QED
    BY <2>1 DEF Covered, left
<1> QED
  BY <1>1, <1>2, <1>3, <1>4

LEMMA CoveredWhenOlder ==
  ASSUME NEW window \in Nat, NEW bucket \in Seq(0 .. Oldest(window)),
         NEW capacity \in Nat \ {0}, NEW wait \in Nat,
         Covered(bucket, capacity, window, wait)
  PROVE  Covered(Older(bucket, window), capacity, window, IF wait = 0 THEN 0 ELSE wait - 1)
<1> DEFINE older == Older(bucket, window)
<1>1. /\ older \in Seq(0 .. Oldest(window)) /\ Len(older) = Len(bucket)
      /\ \A i \in 1 .. Len(bucket) : older[i] = Later(bucket[i], window)
  BY OlderFacts
<1> HIDE DEF older
<1>2. Len(bucket) \in Nat
  BY LenProperties
<1>3. CASE Len(bucket) < capacity
  BY <1>1, <1>3 DEF Covered, older
<1>4. CASE ~(Len(bucket) < capacity) /\ bucket[1] + wait >= window
  <2>1. 1 \in 1 .. Len(bucket)
    BY <1>2, <1>4
  <2>2. bucket[1] \in 0 .. Oldest(window)
    BY <2>1, ElementOfSeq
  <2>3. older[1] = Later(bucket[1], window)
    BY <1>1, <2>1
  <2>4. Oldest(window) \in Nat /\ Oldest(window) >= window
    BY LagAssumption DEF Oldest
  <2>5. older[1] + (IF wait = 0 THEN 0 ELSE wait - 1) >= window
    BY <1>4, <2>2, <2>3, <2>4 DEF Later
  <2> QED
    BY <2>5 DEF Covered, older
<1> QED
  BY <1>3, <1>4 DEF Covered

LEMMA CoveredIsEnough ==
  ASSUME NEW window \in Nat, NEW bucket \in Seq(0 .. Oldest(window)), NEW capacity \in Nat \ {0},
         Len(bucket) <= capacity, Covered(bucket, capacity, window, 0)
  PROVE  Len(Pruned(bucket, window, 0)) < capacity
<1>1. bucket \in Seq(Nat)
  BY LagAssumption DEF Oldest
<1>2. PICK d \in 0 .. Len(bucket) :
        /\ Len(Pruned(bucket, window, 0)) = Len(bucket) - d
        /\ d < Len(bucket) => bucket[d + 1] < window + 0
  BY <1>1, PrunedFacts
<1>3. Len(bucket) \in Nat /\ (Len(bucket) > 0 => bucket[1] \in Nat)
  BY <1>1, ElementOfSeq
<1> QED
  BY <1>2, <1>3 DEF Covered

LEMMA GreatestOfInt ==
  ASSUME NEW a \in Int, NEW b \in Int, NEW S \in SUBSET {a, b}, S # {}
  PROVE  Reset!Max(S) \in S /\ \A y \in S : Reset!Max(S) >= y
<1>1. \A y \in S : y = a \/ y = b
  OBVIOUS
<1>2. ASSUME a \in S, b \in S => a >= b
      PROVE  \E x \in S : \A y \in S : x >= y
  BY <1>1, <1>2
<1>3. ASSUME b \in S, a \in S => b >= a
      PROVE  \E x \in S : \A y \in S : x >= y
  BY <1>1, <1>3
<1>4. a \in S \/ b \in S
  BY <1>1
<1>5. \E x \in S : \A y \in S : x >= y
  BY <1>2, <1>3, <1>4
<1> QED
  BY <1>5 DEF Reset!Max

LEMMA GreatestOfTwo ==
  ASSUME NEW a \in Int, NEW b \in Int
  PROVE  /\ Reset!Max({a, b}) = a \/ Reset!Max({a, b}) = b
         /\ Reset!Max({a, b}) >= a /\ Reset!Max({a, b}) >= b
<1> DEFINE S == {a, b}
<1>1. S \in SUBSET {a, b} /\ S # {} /\ a \in S /\ b \in S
  OBVIOUS
<1> HIDE DEF S
<1>2. Reset!Max(S) \in S /\ \A y \in S : Reset!Max(S) >= y
  BY <1>1, GreatestOfInt
<1> QED
  BY <1>1, <1>2 DEF S

LEMMA NoPromiseIsTyped ==
  /\ Reset!NoPromise \in [made : BOOLEAN, client : Reset!Clients, wait : 0 .. Reset!MaxWait]
  /\ Reset!NoPromise.made = FALSE /\ Reset!MaxWait \in Nat
  /\ Reset!NoRequest \in [waiting : BOOLEAN, client : Reset!Clients, lag : 0 .. MaxLag]
<1>1. \E c : c \in Reset!Clients
  <2>1. PICK a \in Addresses, u \in Accounts : TRUE
    BY ClientsAssumption
  <2>2. <<a, u>> \in Reset!Clients
    BY <2>1 DEF Reset!Clients
  <2> QED
    BY <2>2
<1> DEFINE some == CHOOSE c \in Reset!Clients : TRUE
<1>2. some \in Reset!Clients
  BY <1>1
<1> HIDE DEF some
<1>3. Reset!MaxWait \in Nat /\ MaxLag \in Nat
  <2>1. IpResetWindow \in Int /\ AccountResetWindow \in Int /\ MaxLag \in Nat
        /\ IpResetWindow \in Nat
    BY ResetLimitsAssumption, LagAssumption
  <2> DEFINE longer == Reset!Max({IpResetWindow, AccountResetWindow})
  <2>2. longer \in Nat
    BY <2>1, GreatestOfTwo, ResetLimitsAssumption
  <2> HIDE DEF longer
  <2> QED
    BY <2>1, <2>2 DEF Reset!MaxWait, longer
<1>4. /\ Reset!NoPromise = [made |-> FALSE, client |-> some, wait |-> 0]
      /\ Reset!NoRequest = [waiting |-> FALSE, client |-> some, lag |-> 0]
  BY DEF Reset!NoPromise, Reset!NoRequest, some
<1> QED
  BY <1>2, <1>3, <1>4

\* The buckets of addresses and of accounts.
IpStore == [Addresses -> {b \in Seq(0 .. Oldest(IpResetWindow)) : Len(b) <= IpMaxRequests}]

AccountStore ==
    [Accounts -> {b \in Seq(0 .. Oldest(AccountResetWindow)) : Len(b) <= AccountMaxRequests}]

LEMMA ResetStores ==
  ASSUME NEW f
  PROVE  /\ f \in Reset!Buckets(Addresses, IpResetWindow, IpMaxRequests) <=> f \in IpStore
         /\ f \in Reset!Buckets(Accounts, AccountResetWindow, AccountMaxRequests)
              <=> f \in AccountStore
<1>1. IpResetWindow \in Nat /\ IpMaxRequests \in Nat
  BY ResetLimitsAssumption
<1>2. AccountResetWindow \in Nat /\ AccountMaxRequests \in Nat
  BY ResetLimitsAssumption
<1>3. f \in Buckets(Addresses, IpResetWindow, IpMaxRequests) <=> f \in IpStore
  BY <1>1, BucketFacts DEF IpStore
<1>4. f \in Buckets(Accounts, AccountResetWindow, AccountMaxRequests) <=> f \in AccountStore
  BY <1>2, BucketFacts DEF AccountStore
<1> QED
  BY <1>3, <1>4, SameWindows

LEMMA ResetBuckets ==
  ASSUME Reset!ResetTypeOK, NEW client \in Reset!Clients
  PROVE  /\ client[1] \in Addresses /\ client[2] \in Accounts
         /\ ipRequests[client[1]] \in Seq(0 .. Oldest(IpResetWindow))
         /\ Len(ipRequests[client[1]]) <= IpMaxRequests
         /\ accountRequests[client[2]] \in Seq(0 .. Oldest(AccountResetWindow))
         /\ Len(accountRequests[client[2]]) <= AccountMaxRequests
<1>1. ipRequests \in IpStore /\ accountRequests \in AccountStore
  BY ResetStores DEF Reset!ResetTypeOK
<1> QED
  BY <1>1 DEF IpStore, AccountStore, Reset!Clients

\* The wait is at least what each full bucket asks for.
LEMMA RetryAfterFacts ==
  ASSUME Reset!ResetTypeOK, NEW client \in Reset!Clients, NEW lag \in 0 .. MaxLag,
         Reset!Blocked(client, lag)
  PROVE  /\ Reset!RetryAfter(client, lag) \in 0 .. Reset!MaxWait
         /\ Reset!IpBlocked(client, lag) =>
              Reset!RetryAfter(client, lag) >= IpResetWindow + lag - Reset!IpBucket(client, lag)[1]
         /\ Reset!AccountBlocked(client, lag) =>
              Reset!RetryAfter(client, lag)
                >= AccountResetWindow + lag - Reset!AccountBucket(client, lag)[1]
<1> DEFINE ip == IpResetWindow + lag - Reset!IpBucket(client, lag)[1]
           account == AccountResetWindow + lag - Reset!AccountBucket(client, lag)[1]
           waits == Reset!Remaining(client, lag)
<1>1. /\ IpResetWindow \in Nat \ {0} /\ AccountResetWindow \in Nat \ {0} /\ lag \in Nat
      /\ IpMaxRequests \in Nat \ {0} /\ AccountMaxRequests \in Nat \ {0} /\ MaxLag \in Nat
  BY ResetLimitsAssumption, LagAssumption
<1>2. /\ IpResetWindow + lag <= Reset!MaxWait /\ AccountResetWindow + lag <= Reset!MaxWait
      /\ Reset!MaxWait \in Nat \ {0}
  <2> DEFINE longer == Reset!Max({IpResetWindow, AccountResetWindow})
  <2>1. /\ longer = IpResetWindow \/ longer = AccountResetWindow
        /\ longer >= IpResetWindow /\ longer >= AccountResetWindow
    BY <1>1, GreatestOfTwo
  <2>2. Reset!MaxWait = longer + MaxLag
    BY DEF Reset!MaxWait
  <2> HIDE DEF longer
  <2> QED
    BY <1>1, <2>1, <2>2
<1>3. /\ client[1] \in Addresses /\ client[2] \in Accounts
      /\ ipRequests[client[1]] \in Seq(0 .. Oldest(IpResetWindow))
      /\ accountRequests[client[2]] \in Seq(0 .. Oldest(AccountResetWindow))
  BY <1>1, ResetBuckets
<1>4. Reset!IpBlocked(client, lag) => ip \in Int /\ ip <= Reset!MaxWait
  <2>1. /\ Reset!IpBucket(client, lag) \in Seq(0 .. Oldest(IpResetWindow))
        /\ Len(Reset!IpBucket(client, lag)) \in Nat
    BY <1>1, <1>3, PrunedIsShorter, SameWindows, LenProperties DEF Reset!IpBucket
  <2>2. Reset!IpBlocked(client, lag) => 1 \in 1 .. Len(Reset!IpBucket(client, lag))
    BY <1>1, <2>1 DEF Reset!IpBlocked
  <2>3. Reset!IpBlocked(client, lag) => Reset!IpBucket(client, lag)[1] \in 0 .. Oldest(IpResetWindow)
    BY <2>1, <2>2, ElementOfSeq
  <2> QED
    BY <1>1, <1>2, <2>3
<1>5. Reset!AccountBlocked(client, lag) => account \in Int /\ account <= Reset!MaxWait
  <2>1. /\ Reset!AccountBucket(client, lag) \in Seq(0 .. Oldest(AccountResetWindow))
        /\ Len(Reset!AccountBucket(client, lag)) \in Nat
    BY <1>1, <1>3, PrunedIsShorter, SameWindows, LenProperties DEF Reset!AccountBucket
  <2>2. Reset!AccountBlocked(client, lag) => 1 \in 1 .. Len(Reset!AccountBucket(client, lag))
    BY <1>1, <2>1 DEF Reset!AccountBlocked
  <2>3. Reset!AccountBlocked(client, lag) =>
          Reset!AccountBucket(client, lag)[1] \in 0 .. Oldest(AccountResetWindow)
    BY <2>1, <2>2, ElementOfSeq
  <2> QED
    BY <1>1, <1>2, <2>3
<1>6. waits = (IF Reset!IpBlocked(client, lag) THEN {ip} ELSE {})
              \cup (IF Reset!AccountBlocked(client, lag) THEN {account} ELSE {})
  BY DEF Reset!Remaining
<1> HIDE DEF ip, account, waits
<1>7. /\ Reset!Max(waits) \in waits
      /\ \A y \in waits : Reset!Max(waits) >= y
  <2> DEFINE a == IF Reset!IpBlocked(client, lag) THEN ip ELSE account
             b == IF Reset!AccountBlocked(client, lag) THEN account ELSE ip
  <2>1. a \in Int /\ b \in Int /\ waits \in SUBSET {a, b} /\ waits # {}
    BY <1>4, <1>5, <1>6 DEF Reset!Blocked
  <2> HIDE DEF a, b
  <2> QED
    BY <2>1, GreatestOfInt
<1>8. Reset!Max(waits) \in Int /\ Reset!Max(waits) <= Reset!MaxWait
  BY <1>4, <1>5, <1>6, <1>7
<1> DEFINE wait == Reset!RetryAfter(client, lag)
<1>9. /\ wait = 1 \/ wait = Reset!Max(waits)
      /\ wait >= 1 /\ wait >= Reset!Max(waits)
  <2>1. wait = Reset!Max({1, Reset!Max(waits)})
    BY DEF Reset!RetryAfter, waits
  <2> DEFINE longest == Reset!Max(waits)
  <2>2. longest \in Int /\ 1 \in Int
    BY <1>8
  <2> HIDE DEF longest
  <2>3. /\ Reset!Max({1, longest}) = 1 \/ Reset!Max({1, longest}) = longest
        /\ Reset!Max({1, longest}) >= 1 /\ Reset!Max({1, longest}) >= longest
    BY <2>2, GreatestOfTwo
  <2> QED
    BY <2>1, <2>3 DEF longest
<1> HIDE DEF wait
<1>10. wait \in 0 .. Reset!MaxWait
  BY <1>2, <1>8, <1>9
<1>11. Reset!IpBlocked(client, lag) => wait >= ip
  BY <1>4, <1>6, <1>7, <1>8, <1>9, <1>10
<1>12. Reset!AccountBlocked(client, lag) => wait >= account
  BY <1>5, <1>6, <1>7, <1>8, <1>9, <1>10
<1> QED
  BY <1>10, <1>11, <1>12 DEF ip, account, wait

\* What a request leaves of the buckets it looks at.
LEMMA ClientBuckets ==
  ASSUME Reset!ResetTypeOK, NEW client \in Reset!Clients, NEW lag \in 0 .. MaxLag
  PROVE  /\ Reset!IpBucket(client, lag) \in Seq(0 .. Oldest(IpResetWindow))
         /\ Len(Reset!IpBucket(client, lag)) \in 0 .. IpMaxRequests
         /\ Reset!AccountBucket(client, lag) \in Seq(0 .. Oldest(AccountResetWindow))
         /\ Len(Reset!AccountBucket(client, lag)) \in 0 .. AccountMaxRequests
         /\ client[1] \in Addresses /\ client[2] \in Accounts
         /\ Reset!IpBucket(client, lag) = Pruned(ipRequests[client[1]], IpResetWindow, lag)
         /\ Reset!AccountBucket(client, lag)
              = Pruned(accountRequests[client[2]], AccountResetWindow, lag)
<1>1. /\ IpResetWindow \in Nat /\ AccountResetWindow \in Nat /\ lag \in Nat
      /\ IpMaxRequests \in Nat /\ AccountMaxRequests \in Nat
  BY ResetLimitsAssumption, LagAssumption
<1>2. /\ Reset!IpBucket(client, lag) = Pruned(ipRequests[client[1]], IpResetWindow, lag)
      /\ Reset!AccountBucket(client, lag)
           = Pruned(accountRequests[client[2]], AccountResetWindow, lag)
  BY SameWindows DEF Reset!IpBucket, Reset!AccountBucket
<1>3. /\ client[1] \in Addresses /\ client[2] \in Accounts
      /\ ipRequests[client[1]] \in Seq(0 .. Oldest(IpResetWindow))
      /\ Len(ipRequests[client[1]]) <= IpMaxRequests
      /\ accountRequests[client[2]] \in Seq(0 .. Oldest(AccountResetWindow))
      /\ Len(accountRequests[client[2]]) <= AccountMaxRequests
  BY ResetBuckets
<1>4. /\ Reset!IpBucket(client, lag) \in Seq(0 .. Oldest(IpResetWindow))
      /\ Len(Reset!IpBucket(client, lag)) <= Len(ipRequests[client[1]])
  BY <1>1, <1>2, <1>3, PrunedIsShorter
<1>5. /\ Reset!AccountBucket(client, lag) \in Seq(0 .. Oldest(AccountResetWindow))
      /\ Len(Reset!AccountBucket(client, lag)) <= Len(accountRequests[client[2]])
  BY <1>1, <1>2, <1>3, PrunedIsShorter
<1>6. /\ Len(Reset!IpBucket(client, lag)) \in Nat /\ Len(Reset!AccountBucket(client, lag)) \in Nat
      /\ Len(ipRequests[client[1]]) \in Nat /\ Len(accountRequests[client[2]]) \in Nat
  BY <1>3, <1>4, <1>5, LenProperties
<1> QED
  BY <1>1, <1>2, <1>3, <1>4, <1>5, <1>6

LEMMA RefuseKeeps ==
  ASSUME ResetInv, NEW t \in Threads, NEW client \in Reset!Clients,
         NEW lag \in 0 .. MaxLag, Reset!Refuse(t, client, lag)
  PROVE  /\ ipRequests' \in IpStore /\ accountRequests' \in AccountStore
         /\ promised' \in [made : BOOLEAN, client : Reset!Clients, wait : 0 .. Reset!MaxWait]
         /\ PromiseIsKept'
<1> DEFINE ip == Reset!IpBucket(client, lag)
           account == Reset!AccountBucket(client, lag)
           wait == Reset!RetryAfter(client, lag)
<1>1. /\ Reset!ResetTypeOK /\ Reset!Blocked(client, lag)
      /\ ipRequests' = [ipRequests EXCEPT ![client[1]] = ip]
      /\ accountRequests' = [accountRequests EXCEPT ![client[2]] = account]
      /\ promised' = promised \/ promised' = [made |-> TRUE, client |-> client, wait |-> wait]
  BY DEF ResetInv, Reset!Refuse
<1>2. /\ ip \in Seq(0 .. Oldest(IpResetWindow)) /\ Len(ip) \in 0 .. IpMaxRequests
      /\ account \in Seq(0 .. Oldest(AccountResetWindow)) /\ Len(account) \in 0 .. AccountMaxRequests
      /\ ip = Pruned(ipRequests[client[1]], IpResetWindow, lag)
      /\ account = Pruned(accountRequests[client[2]], AccountResetWindow, lag)
      /\ client[1] \in Addresses /\ client[2] \in Accounts
  BY <1>1, ClientBuckets
<1>3. /\ wait \in 0 .. Reset!MaxWait
      /\ Reset!IpBlocked(client, lag) => wait >= IpResetWindow + lag - ip[1]
      /\ Reset!AccountBlocked(client, lag) => wait >= AccountResetWindow + lag - account[1]
  BY <1>1, RetryAfterFacts
<1>4. /\ Len(ip) < IpMaxRequests \/ Reset!IpBlocked(client, lag)
      /\ Len(account) < AccountMaxRequests \/ Reset!AccountBlocked(client, lag)
  BY <1>2, ResetLimitsAssumption DEF Reset!IpBlocked, Reset!AccountBlocked
<1>5. /\ ipRequests \in IpStore /\ accountRequests \in AccountStore
      /\ promised \in [made : BOOLEAN, client : Reset!Clients, wait : 0 .. Reset!MaxWait]
  BY <1>1, ResetStores DEF Reset!ResetTypeOK
<1>6. /\ IpResetWindow \in Nat \ {0} /\ AccountResetWindow \in Nat \ {0} /\ lag \in Nat
      /\ IpMaxRequests \in Nat \ {0} /\ AccountMaxRequests \in Nat \ {0}
  BY ResetLimitsAssumption, LagAssumption
<1> HIDE DEF ip, account, wait
<1>7. ipRequests' \in IpStore /\ accountRequests' \in AccountStore
  BY <1>1, <1>2, <1>5 DEF IpStore, AccountStore
<1>8. promised' \in [made : BOOLEAN, client : Reset!Clients, wait : 0 .. Reset!MaxWait]
  <2>1. [made |-> TRUE, client |-> client, wait |-> wait]
          \in [made : BOOLEAN, client : Reset!Clients, wait : 0 .. Reset!MaxWait]
    BY <1>3
  <2> QED
    BY <1>1, <1>5, <2>1
<1>9. ASSUME promised' = promised, promised.made
      PROVE  PromiseIsKept'
  <2> DEFINE c == promised.client
  <2>1. /\ c \in Reset!Clients /\ promised.wait \in Nat /\ promised'.client = c
        /\ promised'.wait = promised.wait
        /\ Covered(ipRequests[c[1]], IpMaxRequests, IpResetWindow, promised.wait)
        /\ Covered(accountRequests[c[2]], AccountMaxRequests, AccountResetWindow, promised.wait)
    BY <1>5, <1>9 DEF ResetInv, PromiseIsKept
  <2>2. /\ ipRequests[c[1]] \in Seq(0 .. Oldest(IpResetWindow))
        /\ Len(ipRequests[c[1]]) <= IpMaxRequests
        /\ accountRequests[c[2]] \in Seq(0 .. Oldest(AccountResetWindow))
        /\ Len(accountRequests[c[2]]) <= AccountMaxRequests
        /\ c[1] \in Addresses /\ c[2] \in Accounts
    BY <1>1, <2>1, ResetBuckets
  <2>3. /\ \/ ipRequests'[c[1]] = ipRequests[c[1]]
           \/ ipRequests'[c[1]] = Pruned(ipRequests[c[1]], IpResetWindow, lag)
        /\ \/ accountRequests'[c[2]] = accountRequests[c[2]]
           \/ accountRequests'[c[2]] = Pruned(accountRequests[c[2]], AccountResetWindow, lag)
    BY <1>1, <1>2, <1>5, <2>2 DEF IpStore, AccountStore
  <2> HIDE DEF c
  <2>4. Covered(ipRequests'[c[1]], IpMaxRequests, IpResetWindow, promised.wait)
    BY <1>6, <2>1, <2>2, <2>3, CoveredWhenPruned
  <2>5. Covered(accountRequests'[c[2]], AccountMaxRequests, AccountResetWindow, promised.wait)
    BY <1>6, <2>1, <2>2, <2>3, CoveredWhenPruned
  <2> QED
    BY <2>1, <2>4, <2>5 DEF PromiseIsKept
<1>10. ASSUME promised' = [made |-> TRUE, client |-> client, wait |-> wait]
       PROVE  PromiseIsKept'
  <2>1. promised'.client = client /\ promised'.wait = wait
    BY <1>10
  <2>2. ipRequests'[client[1]] = ip /\ accountRequests'[client[2]] = account
    BY <1>1, <1>2, <1>5 DEF IpStore, AccountStore
  <2>3. Covered(ip, IpMaxRequests, IpResetWindow, wait)
    <3>1. CASE Len(ip) < IpMaxRequests
      BY <3>1 DEF Covered
    <3>2. CASE Reset!IpBlocked(client, lag) /\ ~(Len(ip) < IpMaxRequests)
      <4>1. ip[1] \in 0 .. Oldest(IpResetWindow)
        <5>1. 1 \in 1 .. Len(ip)
          BY <1>2, <1>6, <3>2
        <5> QED
          BY <1>2, <5>1, ElementOfSeq
      <4>2. ip[1] + wait >= IpResetWindow
        BY <1>3, <1>6, <3>2, <4>1
      <4> QED
        BY <4>2 DEF Covered
    <3> QED
      BY <1>4, <3>1, <3>2
  <2>4. Covered(account, AccountMaxRequests, AccountResetWindow, wait)
    <3>1. CASE Len(account) < AccountMaxRequests
      BY <3>1 DEF Covered
    <3>2. CASE Reset!AccountBlocked(client, lag) /\ ~(Len(account) < AccountMaxRequests)
      <4>1. account[1] \in 0 .. Oldest(AccountResetWindow)
        <5>1. 1 \in 1 .. Len(account)
          BY <1>2, <1>6, <3>2
        <5> QED
          BY <1>2, <5>1, ElementOfSeq
      <4>2. account[1] + wait >= AccountResetWindow
        BY <1>3, <1>6, <3>2, <4>1
      <4> QED
        BY <4>2 DEF Covered
    <3> QED
      BY <1>4, <3>1, <3>2
  <2> QED
    BY <2>1, <2>2, <2>3, <2>4 DEF PromiseIsKept
<1> QED
  BY <1>1, <1>7, <1>8, <1>9, <1>10 DEF PromiseIsKept

\* An entry joins only the buckets of clients to whom the promise says nothing.
LEMMA AdmitKeeps ==
  ASSUME ResetInv, NEW t \in Threads, NEW client \in Reset!Clients,
         NEW lag \in 0 .. MaxLag, Reset!Admit(t, client, lag)
  PROVE  /\ ipRequests' \in IpStore /\ accountRequests' \in AccountStore
         /\ promised' \in [made : BOOLEAN, client : Reset!Clients, wait : 0 .. Reset!MaxWait]
         /\ PromiseIsKept'
<1> DEFINE ip == Append(Reset!IpBucket(client, lag), lag)
           account == Append(Reset!AccountBucket(client, lag), lag)
<1>1. /\ Reset!ResetTypeOK /\ ~Reset!Blocked(client, lag)
      /\ ipRequests' = [ipRequests EXCEPT ![client[1]] = ip]
      /\ accountRequests' = [accountRequests EXCEPT ![client[2]] = account]
      /\ \/ promised' = Reset!NoPromise
         \/ /\ promised' = promised
            /\ client[1] # promised.client[1] /\ client[2] # promised.client[2]
  BY DEF ResetInv, Reset!Admit
<1>2. /\ ipRequests \in IpStore /\ accountRequests \in AccountStore
      /\ promised \in [made : BOOLEAN, client : Reset!Clients, wait : 0 .. Reset!MaxWait]
  BY <1>1, ResetStores DEF Reset!ResetTypeOK
<1>3. /\ ip \in Seq(0 .. Oldest(IpResetWindow)) /\ Len(ip) <= IpMaxRequests
      /\ account \in Seq(0 .. Oldest(AccountResetWindow)) /\ Len(account) <= AccountMaxRequests
      /\ client[1] \in Addresses /\ client[2] \in Accounts
  <2>1. /\ Reset!IpBucket(client, lag) \in Seq(0 .. Oldest(IpResetWindow))
        /\ Len(Reset!IpBucket(client, lag)) \in Nat
        /\ Reset!AccountBucket(client, lag) \in Seq(0 .. Oldest(AccountResetWindow))
        /\ Len(Reset!AccountBucket(client, lag)) \in Nat
        /\ client[1] \in Addresses /\ client[2] \in Accounts
    BY <1>1, ClientBuckets
  <2>2. /\ Len(Reset!IpBucket(client, lag)) < IpMaxRequests
        /\ Len(Reset!AccountBucket(client, lag)) < AccountMaxRequests
    BY <1>1, <2>1, ResetLimitsAssumption
    DEF Reset!Blocked, Reset!IpBlocked, Reset!AccountBlocked
  <2>3. lag \in 0 .. Oldest(IpResetWindow) /\ lag \in 0 .. Oldest(AccountResetWindow)
    BY LagAssumption, ResetLimitsAssumption DEF Oldest
  <2>4. IpMaxRequests \in Nat /\ AccountMaxRequests \in Nat
    BY ResetLimitsAssumption
  <2>5. ip \in Seq(0 .. Oldest(IpResetWindow)) /\ Len(ip) = Len(Reset!IpBucket(client, lag)) + 1
    BY <2>1, <2>3, AppendProperties
  <2>6. /\ account \in Seq(0 .. Oldest(AccountResetWindow))
        /\ Len(account) = Len(Reset!AccountBucket(client, lag)) + 1
    BY <2>1, <2>3, AppendProperties
  <2> QED
    BY <2>1, <2>2, <2>4, <2>5, <2>6
<1> HIDE DEF ip, account
<1>4. ipRequests' \in IpStore /\ accountRequests' \in AccountStore
  BY <1>1, <1>2, <1>3 DEF IpStore, AccountStore
<1>5. CASE promised' = Reset!NoPromise
  <2>1. /\ Reset!NoPromise \in [made : BOOLEAN, client : Reset!Clients, wait : 0 .. Reset!MaxWait]
        /\ Reset!NoPromise.made = FALSE
    BY NoPromiseIsTyped
  <2> QED
    BY <1>4, <1>5, <2>1 DEF PromiseIsKept
<1>6. CASE /\ promised' = promised
           /\ client[1] # promised.client[1] /\ client[2] # promised.client[2]
  <2>1. /\ ipRequests'[promised.client[1]] = ipRequests[promised.client[1]]
        /\ accountRequests'[promised.client[2]] = accountRequests[promised.client[2]]
    BY <1>1, <1>2, <1>6 DEF IpStore, AccountStore, Reset!Clients
  <2> QED
    BY <1>2, <1>4, <1>6, <2>1 DEF PromiseIsKept, ResetInv
<1> QED
  BY <1>1, <1>5, <1>6

LEMMA ResetStepKeeps ==
  ASSUME ResetInv, NEW t \in Threads, Reset!ResetStep(t)
  PROVE  ResetInv'
<1>1. /\ ipRequests \in IpStore /\ accountRequests \in AccountStore
      /\ asking \in [Threads -> [waiting : BOOLEAN, client : Reset!Clients, lag : 0 .. MaxLag]]
      /\ promised \in [made : BOOLEAN, client : Reset!Clients, wait : 0 .. Reset!MaxWait]
  BY ResetStores DEF ResetInv, Reset!ResetTypeOK
<1>2. ASSUME Reset!Ask(t)
      PROVE  ResetInv'
  <2>1. PICK client \in Reset!Clients :
          asking' = [asking EXCEPT ![t] = [waiting |-> TRUE, client |-> client, lag |-> 0]]
    BY <1>2 DEF Reset!Ask
  <2>2. [waiting |-> TRUE, client |-> client, lag |-> 0]
          \in [waiting : BOOLEAN, client : Reset!Clients, lag : 0 .. MaxLag]
    BY LagAssumption
  <2>3. asking' \in [Threads -> [waiting : BOOLEAN, client : Reset!Clients, lag : 0 .. MaxLag]]
    BY <1>1, <2>1, <2>2
  <2>4. UNCHANGED <<ipRequests, accountRequests, promised>>
    BY <1>2 DEF Reset!Ask
  <2> QED
    BY <2>3, <2>4 DEF ResetInv, Reset!ResetTypeOK, PromiseIsKept
<1>3. ASSUME Reset!CheckAndRecord(t)
      PROVE  ResetInv'
  <2> DEFINE client == asking[t].client
             lag == asking[t].lag
  <2>1. client \in Reset!Clients /\ lag \in 0 .. MaxLag
    BY <1>1
  <2>2. Reset!Refuse(t, client, lag) \/ Reset!Admit(t, client, lag)
    BY <1>3 DEF Reset!CheckAndRecord
  <2>3. asking' \in [Threads -> [waiting : BOOLEAN, client : Reset!Clients, lag : 0 .. MaxLag]]
    <3>1. asking' = [asking EXCEPT ![t] = Reset!NoRequest]
      BY <1>3 DEF Reset!CheckAndRecord
    <3> QED
      BY <1>1, <3>1, NoPromiseIsTyped
  <2> HIDE DEF client, lag
  <2>4. /\ ipRequests' \in IpStore /\ accountRequests' \in AccountStore
        /\ promised' \in [made : BOOLEAN, client : Reset!Clients, wait : 0 .. Reset!MaxWait]
        /\ PromiseIsKept'
    BY <2>1, <2>2, RefuseKeeps, AdmitKeeps
  <2> QED
    BY <2>3, <2>4, ResetStores DEF ResetInv, Reset!ResetTypeOK
<1> QED
  BY <1>2, <1>3 DEF Reset!ResetStep

LEMMA ResetTickKeeps ==
  ASSUME ResetInv, Reset!ResetTick
  PROVE  ResetInv'
<1>1. /\ ipRequests \in IpStore /\ accountRequests \in AccountStore
      /\ asking \in [Threads -> [waiting : BOOLEAN, client : Reset!Clients, lag : 0 .. MaxLag]]
      /\ promised \in [made : BOOLEAN, client : Reset!Clients, wait : 0 .. Reset!MaxWait]
  BY ResetStores DEF ResetInv, Reset!ResetTypeOK
<1>2. /\ \A t \in Threads : asking[t].waiting => asking[t].lag < MaxLag
      /\ ipRequests' = [a \in Addresses |-> Older(ipRequests[a], IpResetWindow)]
      /\ accountRequests' = [u \in Accounts |-> Older(accountRequests[u], AccountResetWindow)]
      /\ asking' = [t \in Threads |-> IF asking[t].waiting
                                      THEN [asking[t] EXCEPT !.lag = @ + 1] ELSE asking[t]]
      /\ promised' = [promised EXCEPT !.wait = IF @ = 0 THEN 0 ELSE @ - 1]
  BY <1>1, SameWindows DEF Reset!ResetTick, Aged, IpStore, AccountStore
<1>3. /\ IpResetWindow \in Nat /\ IpMaxRequests \in Nat \ {0}
      /\ AccountResetWindow \in Nat /\ AccountMaxRequests \in Nat \ {0} /\ MaxLag \in Nat
  BY ResetLimitsAssumption, LagAssumption
<1>4. ASSUME NEW a \in Addresses
      PROVE  /\ ipRequests[a] \in Seq(0 .. Oldest(IpResetWindow))
             /\ Len(ipRequests[a]) <= IpMaxRequests
             /\ ipRequests'[a] = Older(ipRequests[a], IpResetWindow)
             /\ ipRequests'[a] \in Seq(0 .. Oldest(IpResetWindow))
             /\ Len(ipRequests'[a]) <= IpMaxRequests
  <2>1. ipRequests[a] \in Seq(0 .. Oldest(IpResetWindow)) /\ Len(ipRequests[a]) <= IpMaxRequests
    BY <1>1 DEF IpStore
  <2>2. /\ Older(ipRequests[a], IpResetWindow) \in Seq(0 .. Oldest(IpResetWindow))
        /\ Len(Older(ipRequests[a], IpResetWindow)) = Len(ipRequests[a])
    BY <1>3, <2>1, OlderFacts
  <2> QED
    BY <1>2, <2>1, <2>2
<1>5. ASSUME NEW u \in Accounts
      PROVE  /\ accountRequests[u] \in Seq(0 .. Oldest(AccountResetWindow))
             /\ Len(accountRequests[u]) <= AccountMaxRequests
             /\ accountRequests'[u] = Older(accountRequests[u], AccountResetWindow)
             /\ accountRequests'[u] \in Seq(0 .. Oldest(AccountResetWindow))
             /\ Len(accountRequests'[u]) <= AccountMaxRequests
  <2>1. /\ accountRequests[u] \in Seq(0 .. Oldest(AccountResetWindow))
        /\ Len(accountRequests[u]) <= AccountMaxRequests
    BY <1>1 DEF AccountStore
  <2>2. /\ Older(accountRequests[u], AccountResetWindow) \in Seq(0 .. Oldest(AccountResetWindow))
        /\ Len(Older(accountRequests[u], AccountResetWindow)) = Len(accountRequests[u])
    BY <1>3, <2>1, OlderFacts
  <2> QED
    BY <1>2, <2>1, <2>2
<1>6. ipRequests' \in IpStore /\ accountRequests' \in AccountStore
  BY <1>2, <1>4, <1>5 DEF IpStore, AccountStore
<1>7. asking' \in [Threads -> [waiting : BOOLEAN, client : Reset!Clients, lag : 0 .. MaxLag]]
  BY <1>1, <1>2, <1>3
<1>8. /\ promised' \in [made : BOOLEAN, client : Reset!Clients, wait : 0 .. Reset!MaxWait]
      /\ promised'.made = promised.made /\ promised'.client = promised.client
      /\ promised'.wait = IF promised.wait = 0 THEN 0 ELSE promised.wait - 1
  <2> DEFINE wait == IF promised.wait = 0 THEN 0 ELSE promised.wait - 1
  <2>1. wait \in 0 .. Reset!MaxWait /\ promised' = [promised EXCEPT !.wait = wait]
    BY <1>1, <1>2, NoPromiseIsTyped
  <2> HIDE DEF wait
  <2>2. /\ promised' \in [made : BOOLEAN, client : Reset!Clients, wait : 0 .. Reset!MaxWait]
        /\ promised'.made = promised.made /\ promised'.client = promised.client
        /\ promised'.wait = wait
    BY <1>1, <2>1
  <2> QED
    BY <2>2 DEF wait
<1>9. PromiseIsKept'
  <2>1. SUFFICES ASSUME promised.made
                 PROVE  PromiseIsKept'
    BY <1>8 DEF PromiseIsKept
  <2> DEFINE a == promised.client[1]
             u == promised.client[2]
  <2>2. a \in Addresses /\ u \in Accounts /\ promised.wait \in Nat
    BY <1>1 DEF Reset!Clients
  <2>3. /\ Covered(ipRequests[a], IpMaxRequests, IpResetWindow, promised.wait)
        /\ Covered(accountRequests[u], AccountMaxRequests, AccountResetWindow, promised.wait)
    BY <2>1 DEF ResetInv, PromiseIsKept
  <2>4. promised'.client[1] = a /\ promised'.client[2] = u
    BY <1>8
  <2> HIDE DEF a, u
  <2>5. Covered(ipRequests'[a], IpMaxRequests, IpResetWindow, promised'.wait)
    BY <1>3, <1>4, <1>8, <2>2, <2>3, CoveredWhenOlder
  <2>6. Covered(accountRequests'[u], AccountMaxRequests, AccountResetWindow, promised'.wait)
    BY <1>3, <1>5, <1>8, <2>2, <2>3, CoveredWhenOlder
  <2> QED
    BY <2>4, <2>5, <2>6 DEF PromiseIsKept
<1> QED
  BY <1>6, <1>7, <1>8, <1>9, ResetStores DEF ResetInv, Reset!ResetTypeOK

LEMMA ResetInvariance == ThrottlesSpec => []ResetInv
<1>1. ThrottlesInit => ResetInv
  <2> HAVE ThrottlesInit
  <2>1. /\ ipRequests = [a \in Addresses |-> <<>>] /\ accountRequests = [u \in Accounts |-> <<>>]
        /\ asking = [t \in Threads |-> Reset!NoRequest] /\ promised = Reset!NoPromise
    BY SameWindows DEF ThrottlesInit, Reset!ResetInit, Empty
  <2>2. /\ <<>> \in Seq(0 .. Oldest(IpResetWindow)) /\ <<>> \in Seq(0 .. Oldest(AccountResetWindow))
        /\ Len(<<>>) = 0 /\ IpMaxRequests \in Nat /\ AccountMaxRequests \in Nat
    BY EmptySeq, ResetLimitsAssumption
  <2>3. ipRequests \in IpStore /\ accountRequests \in AccountStore
    BY <2>1, <2>2 DEF IpStore, AccountStore
  <2> QED
    BY <2>1, <2>3, NoPromiseIsTyped, ResetStores DEF ResetInv, Reset!ResetTypeOK, PromiseIsKept
<1>2. ResetInv /\ [ThrottlesNext]_throttles => ResetInv'
  <2> SUFFICES ASSUME ResetInv, [ThrottlesNext]_throttles
               PROVE  ResetInv'
    OBVIOUS
  <2>1. CASE UNCHANGED reset
    BY <2>1 DEF reset, ResetInv, Reset!ResetTypeOK, PromiseIsKept
  <2>2. CASE Reset!ResetTick
    BY <2>2, ResetTickKeeps
  <2>3. CASE \E t \in Threads : Reset!ResetStep(t)
    BY <2>3, ResetStepKeeps
  <2> QED
    BY <2>1, <2>2, <2>3 DEF ThrottlesNext, throttles
<1> QED
  BY <1>1, <1>2, PTL DEF ThrottlesSpec

\* Whoever waits as long as it was told is admitted (_retry_after), whatever the other
\* threads ask for in the meantime.
THEOREM RetryAfterHolds == ThrottlesSpec => []RetryAfterIsEnough
<1>1. ResetInv => RetryAfterIsEnough
  <2> SUFFICES ASSUME ResetInv, promised.made, promised.wait = 0
               PROVE  ~Reset!Blocked(promised.client, 0)
    BY DEF RetryAfterIsEnough, Reset!RetryAfterIsEnough, ResetInv
  <2> DEFINE client == promised.client
  <2>1. client \in Reset!Clients /\ Reset!ResetTypeOK
    BY DEF ResetInv, Reset!ResetTypeOK
  <2>2. /\ client[1] \in Addresses /\ client[2] \in Accounts
        /\ ipRequests[client[1]] \in Seq(0 .. Oldest(IpResetWindow))
        /\ Len(ipRequests[client[1]]) <= IpMaxRequests
        /\ accountRequests[client[2]] \in Seq(0 .. Oldest(AccountResetWindow))
        /\ Len(accountRequests[client[2]]) <= AccountMaxRequests
    BY <2>1, ResetBuckets
  <2>3. /\ Covered(ipRequests[client[1]], IpMaxRequests, IpResetWindow, 0)
        /\ Covered(accountRequests[client[2]], AccountMaxRequests, AccountResetWindow, 0)
    BY DEF ResetInv, PromiseIsKept
  <2>4. 0 \in 0 .. MaxLag
    BY LagAssumption
  <2> HIDE DEF client
  <2>5. /\ Reset!IpBucket(client, 0) = Pruned(ipRequests[client[1]], IpResetWindow, 0)
        /\ Reset!AccountBucket(client, 0) = Pruned(accountRequests[client[2]], AccountResetWindow, 0)
        /\ Len(Reset!IpBucket(client, 0)) \in Nat /\ Len(Reset!AccountBucket(client, 0)) \in Nat
    BY <2>1, <2>4, ClientBuckets
  <2>6. IpResetWindow \in Nat /\ IpMaxRequests \in Nat \ {0}
    BY ResetLimitsAssumption
  <2>7. AccountResetWindow \in Nat /\ AccountMaxRequests \in Nat \ {0}
    BY ResetLimitsAssumption
  <2>8. Len(Pruned(ipRequests[client[1]], IpResetWindow, 0)) < IpMaxRequests
    BY <2>2, <2>3, <2>6, CoveredIsEnough
  <2>9. Len(Pruned(accountRequests[client[2]], AccountResetWindow, 0)) < AccountMaxRequests
    BY <2>2, <2>3, <2>7, CoveredIsEnough
  <2>10. ~Reset!Blocked(client, 0)
    BY <2>5, <2>6, <2>7, <2>8, <2>9 DEF Reset!Blocked, Reset!IpBlocked, Reset!AccountBlocked
  <2> QED
    BY <2>10 DEF client
<1> QED
  BY <1>1, ResetInvariance, PTL

-----------------------------------------------------------------------------
\* The login throttle.  Its histories are compared with its buckets from the end: both
\* grow there, and each loses its head when it likes.

\* The history is in the bucket, or too old to count.
Follows(ages, bucket, window) ==
    /\ \A i \in 1 .. Len(ages), j \in 1 .. Len(bucket) :
         Len(ages) - i = Len(bucket) - j => bucket[j] = ages[i]
    /\ \A i \in 1 .. Len(ages) : Len(ages) - i >= Len(bucket) => ages[i] >= window

\* How old the readings are under which attempts were counted.
Readings(tests) == [i \in 1 .. Len(tests) |-> tests[i].age + tests[i].lag]

\* A thread reads the clock for an attempt after its last one was counted.
InTurn(tests) ==
    \A i, k \in 1 .. Len(tests) : i < k =>
        /\ tests[k].age <= tests[i].age
        /\ tests[k].thread = tests[i].thread => tests[k].age + tests[k].lag <= tests[i].age

Fresh(t) ==
    attempt[t].pc = "arriving" =>
        \A a \in Addresses : \A i \in 1 .. Len(tested[a]) :
            tested[a][i].thread = t => attempt[t].lag <= tested[a][i].age

Building == {t \in Threads : attempt[t].pc = "building"}

\* An account's failures and the attempts that may still add to them.
AccountsInv ==
    \A u \in Accounts :
        /\ Follows(guessed[u], accountFailures[u], AccountWindow)
        /\ Len(accountFailures[u]) + Cardinality(Pending(u))
             <= AccountMaxFailures - 1 + Cardinality(Threads)

AddressesInv ==
    /\ \A a \in Addresses : /\ Follows(Readings(tested[a]), ipAttempts[a], IpWindow)
                            /\ InTurn(tested[a])
    /\ \A t \in Threads : Fresh(t)

\* Only threads that find no throttle built build one, and the first of these keeps it.
BuildersInv ==
    IF built THEN unseen + Cardinality(Building) < Cardinality(Threads) ELSE unseen = 0

LoginInv == LoginTypeOK /\ AccountsInv /\ AddressesInv /\ BuildersInv

LEMMA FollowsAppended ==
  ASSUME NEW ages \in Seq(Nat), NEW bucket \in Seq(Nat), NEW window \in Nat, NEW age \in Nat,
         Follows(ages, bucket, window)
  PROVE  Follows(Append(ages, age), Append(bucket, age), window)
<1> DEFINE A == Append(ages, age)
           B == Append(bucket, age)
           n == Len(ages)
           m == Len(bucket)
<1>1. n \in Nat /\ m \in Nat
  BY LenProperties
<1>2. /\ Len(A) = n + 1 /\ A[n + 1] = age /\ \A i \in 1 .. n : A[i] = ages[i]
      /\ Len(B) = m + 1 /\ B[m + 1] = age /\ \A j \in 1 .. m : B[j] = bucket[j]
  BY AppendProperties
<1>3. /\ \A i \in 1 .. n, j \in 1 .. m : n - i = m - j => bucket[j] = ages[i]
      /\ \A i \in 1 .. n : n - i >= m => ages[i] >= window
  BY DEF Follows
<1> HIDE DEF A, B, n, m
<1>4. ASSUME NEW i \in 1 .. n + 1, NEW j \in 1 .. m + 1, (n + 1) - i = (m + 1) - j
      PROVE  B[j] = A[i]
  <2>1. CASE i = n + 1
    <3>1. j = m + 1
      BY <1>1, <1>4, <2>1
    <3> QED
      BY <1>2, <2>1, <3>1
  <2>2. CASE i # n + 1
    <3>1. i \in 1 .. n /\ j \in 1 .. m /\ n - i = m - j
      BY <1>1, <1>4, <2>2
    <3> QED
      BY <1>2, <1>3, <3>1
  <2> QED
    BY <2>1, <2>2
<1>5. ASSUME NEW i \in 1 .. n + 1, (n + 1) - i >= m + 1
      PROVE  A[i] >= window
  <2>1. i \in 1 .. n /\ n - i >= m
    BY <1>1, <1>5
  <2> QED
    BY <1>2, <1>3, <2>1
<1>6. Follows(A, B, window)
  BY <1>2, <1>4, <1>5 DEF Follows
<1> QED
  BY <1>6 DEF A, B

\* The prune of the bucket only costs it entries that no longer count.
LEMMA FollowsPruned ==
  ASSUME NEW ages \in Seq(Nat), NEW bucket \in Seq(Nat), NEW window \in Nat, NEW lag \in Nat,
         Follows(ages, bucket, window)
  PROVE  Follows(ages, Pruned(bucket, window, lag), window)
<1> DEFINE left == Pruned(bucket, window, lag)
<1>1. PICK d \in 0 .. Len(bucket) :
        /\ left \in Seq(Nat) /\ Len(left) = Len(bucket) - d
        /\ \A i \in 1 .. Len(bucket) - d : left[i] = bucket[i + d]
        /\ \A i \in 1 .. d : bucket[i] >= window + lag
  BY PrunedFacts
<1>2. Len(ages) \in Nat /\ Len(bucket) \in Nat
  BY LenProperties
<1> HIDE DEF left
<1>3. ASSUME NEW i \in 1 .. Len(ages), NEW j \in 1 .. Len(left), Len(ages) - i = Len(left) - j
      PROVE  left[j] = ages[i]
  <2>1. j + d \in 1 .. Len(bucket) /\ Len(ages) - i = Len(bucket) - (j + d)
    BY <1>1, <1>2, <1>3
  <2> QED
    BY <1>1, <1>2, <2>1 DEF Follows
<1>4. ASSUME NEW i \in 1 .. Len(ages), Len(ages) - i >= Len(left)
      PROVE  ages[i] >= window
  <2>1. CASE Len(ages) - i >= Len(bucket)
    BY <2>1 DEF Follows
  <2>2. CASE ~(Len(ages) - i >= Len(bucket))
    <3> DEFINE j == Len(bucket) - (Len(ages) - i)
    <3>1. j \in 1 .. d /\ j \in 1 .. Len(bucket) /\ Len(ages) - i = Len(bucket) - j
      BY <1>1, <1>2, <1>4, <2>2
    <3> HIDE DEF j
    <3>2. bucket[j] = ages[i] /\ bucket[j] >= window + lag /\ bucket[j] \in Nat
      BY <1>1, <3>1, ElementOfSeq DEF Follows
    <3> QED
      BY <3>2
  <2> QED
    BY <2>1, <2>2
<1> QED
  BY <1>3, <1>4 DEF Follows, left

\* The history may lose its head as well.
LEMMA FollowsCut ==
  ASSUME NEW ages \in Seq(Nat), NEW bucket \in Seq(Nat), NEW window \in Nat,
         Follows(ages, bucket, window), NEW d \in 0 .. Len(ages),
         NEW left, Len(left) = Len(ages) - d,
         \A i \in 1 .. Len(ages) - d : left[i] = ages[i + d]
  PROVE  Follows(left, bucket, window)
<1>1. Len(ages) \in Nat /\ Len(bucket) \in Nat
  BY LenProperties
<1>2. ASSUME NEW i \in 1 .. Len(left), NEW j \in 1 .. Len(bucket), Len(left) - i = Len(bucket) - j
      PROVE  bucket[j] = left[i]
  <2>1. i + d \in 1 .. Len(ages) /\ Len(ages) - (i + d) = Len(bucket) - j
    BY <1>1, <1>2
  <2> QED
    BY <2>1 DEF Follows
<1>3. ASSUME NEW i \in 1 .. Len(left), Len(left) - i >= Len(bucket)
      PROVE  left[i] >= window
  <2>1. i + d \in 1 .. Len(ages) /\ Len(ages) - (i + d) >= Len(bucket)
    BY <1>1, <1>3
  <2> QED
    BY <2>1 DEF Follows
<1> QED
  BY <1>2, <1>3 DEF Follows

LEMMA FollowsLater ==
  ASSUME NEW window \in Nat, NEW ages \in Seq(0 .. Oldest(window)),
         NEW bucket \in Seq(0 .. Oldest(window)), Follows(ages, bucket, window),
         NEW later, Len(later) = Len(ages),
         \A i \in 1 .. Len(ages) : later[i] = Later(ages[i], window)
  PROVE  Follows(later, Older(bucket, window), window)
<1> DEFINE older == Older(bucket, window)
<1>1. /\ Len(older) = Len(bucket)
      /\ \A i \in 1 .. Len(bucket) : older[i] = Later(bucket[i], window)
  BY OlderFacts
<1>2. Len(ages) \in Nat /\ Len(bucket) \in Nat
  BY LenProperties
<1> HIDE DEF older
<1>3. ASSUME NEW i \in 1 .. Len(later), NEW j \in 1 .. Len(older), Len(later) - i = Len(older) - j
      PROVE  older[j] = later[i]
  BY <1>1, <1>2, <1>3 DEF Follows
<1>4. ASSUME NEW i \in 1 .. Len(later), Len(later) - i >= Len(older)
      PROVE  later[i] >= window
  <2>1. ages[i] >= window /\ later[i] = Later(ages[i], window)
    BY <1>1, <1>4 DEF Follows
  <2>2. ages[i] \in 0 .. Oldest(window)
    BY <1>4, ElementOfSeq
  <2>3. Oldest(window) \in Nat
    BY LagAssumption DEF Oldest
  <2> QED
    BY <2>1, <2>2, <2>3 DEF Later
<1> QED
  BY <1>3, <1>4 DEF Follows, older

\* What counts is in the bucket.
LEMMA FollowsCount ==
  ASSUME NEW ages \in Seq(Nat), NEW bucket \in Seq(Nat), NEW window \in Nat,
         Follows(ages, bucket, window)
  PROVE  /\ IsFiniteSet({i \in 1 .. Len(ages) : ages[i] < window})
         /\ Cardinality({i \in 1 .. Len(ages) : ages[i] < window}) <= Len(bucket)
         /\ Cardinality({i \in 1 .. Len(ages) : ages[i] < window}) \in Nat
<1> DEFINE S == {i \in 1 .. Len(ages) : ages[i] < window}
           first == IF Len(bucket) >= Len(ages) THEN 1 ELSE Len(ages) - Len(bucket) + 1
<1>1. Len(ages) \in Nat /\ Len(bucket) \in Nat /\ first \in Int
  BY LenProperties
<1>2. S \subseteq first .. Len(ages)
  <2> SUFFICES ASSUME NEW i \in S
               PROVE  i \in first .. Len(ages)
    OBVIOUS
  <2>1. i \in 1 .. Len(ages) /\ ages[i] < window
    OBVIOUS
  <2>2. ages[i] \in Nat
    BY <2>1, ElementOfSeq
  <2>3. ~(Len(ages) - i >= Len(bucket))
    BY <2>1, <2>2 DEF Follows
  <2> QED
    BY <1>1, <2>1, <2>3
<1> DEFINE n == Len(ages)
           last == first .. n
<1>3. /\ IsFiniteSet(last) /\ Cardinality(last) <= Len(bucket)
      /\ Cardinality(last) \in Nat /\ S \in SUBSET last
  <2>1. n \in Int /\ first \in Int /\ n - first + 1 <= Len(bucket)
    BY <1>1
  <2>2. S \in SUBSET last
    BY <1>2
  <2> HIDE DEF n, first, S
  <2>3. IsFiniteSet(last) /\ Cardinality(last) = IF first > n THEN 0 ELSE n - first + 1
    BY <2>1, FS_Interval
  <2> HIDE DEF last
  <2> QED
    BY <1>1, <2>1, <2>2, <2>3
<1> HIDE DEF S, last
<1>4. IsFiniteSet(S) /\ Cardinality(S) <= Cardinality(last) /\ Cardinality(S) \in Nat
  BY <1>3, FS_Subset, FS_CardinalityType
<1>5. Cardinality(S) <= Len(bucket)
  BY <1>1, <1>3, <1>4
<1> QED
  BY <1>4, <1>5 DEF S

LEMMA TestFields ==
  ASSUME NEW tests \in Seq(Tests), NEW i \in 1 .. Len(tests)
  PROVE  /\ tests[i] \in Tests /\ tests[i].thread \in Threads
         /\ tests[i].age \in Nat /\ tests[i].age < IpWindow
         /\ tests[i].lag \in Nat /\ tests[i].lag <= MaxLag
         /\ IpWindow \in Nat /\ MaxLag \in Nat
<1>1. tests[i] \in Tests
  BY ElementOfSeq
<1>2. IpWindow \in Nat /\ MaxLag \in Nat
  BY LoginLimitsAssumption, LagAssumption
<1> QED
  BY <1>1, <1>2 DEF Tests

LEMMA ReadingsFacts ==
  ASSUME NEW tests \in Seq(Tests)
  PROVE  /\ Readings(tests) \in Seq(0 .. Oldest(IpWindow)) /\ Readings(tests) \in Seq(Nat)
         /\ Len(Readings(tests)) = Len(tests)
         /\ \A i \in 1 .. Len(tests) : Readings(tests)[i] = tests[i].age + tests[i].lag
<1> DEFINE R == Readings(tests)
           T == 0 .. Oldest(IpWindow)
<1>1. Len(tests) \in Nat /\ R = [i \in 1 .. Len(tests) |-> tests[i].age + tests[i].lag]
  BY LenProperties DEF Readings
<1>2. ASSUME NEW i \in 1 .. Len(tests)
      PROVE  R[i] = tests[i].age + tests[i].lag /\ R[i] \in T
  BY <1>1, TestFields DEF Oldest
<1> HIDE DEF R
<1>3. R \in [1 .. Len(tests) -> T] /\ R \in [1 .. Len(tests) -> Nat]
  BY <1>1, <1>2
<1> HIDE DEF T
<1>4. R \in Seq(T) /\ Len(R) = Len(tests) /\ R \in Seq(Nat)
  BY <1>1, <1>3, ArrayIsSeq
<1> QED
  BY <1>2, <1>4 DEF R, T

\* An address's attempts within the window: those in its bucket, and of the others the
\* last of each thread.
LEMMA TestsCount ==
  ASSUME NEW tests \in Seq(Tests), InTurn(tests), NEW bucket \in Seq(Nat),
         Follows(Readings(tests), bucket, IpWindow)
  PROVE  Len(tests) <= Len(bucket) + Cardinality(Threads)
<1> DEFINE n == Len(tests)
           R == Readings(tests)
           S == {i \in 1 .. n : R[i] < IpWindow}
           L == {i \in 1 .. n : R[i] >= IpWindow}
<1>1. /\ n \in Nat /\ Len(bucket) \in Nat /\ IpWindow \in Nat
      /\ R \in Seq(Nat) /\ Len(R) = n
      /\ \A i \in 1 .. n : R[i] = tests[i].age + tests[i].lag
  BY LenProperties, ReadingsFacts, LoginLimitsAssumption
<1>2. IsFiniteSet(S) /\ Cardinality(S) <= Len(bucket) /\ Cardinality(S) \in Nat
  BY <1>1, FollowsCount
<1>3. IsFiniteSet(L) /\ Cardinality(L) <= Cardinality(Threads) /\ Cardinality(L) \in Nat
  <2> DEFINE f == [i \in L |-> tests[i].thread]
  <2>1. f \in [L -> Threads]
    BY TestFields
  <2>2. ASSUME NEW i \in L, NEW k \in L, i < k, f[i] = f[k]
        PROVE  FALSE
    <3>1. i \in 1 .. n /\ k \in 1 .. n /\ tests[k].thread = tests[i].thread
      BY <2>2
    <3>2. tests[k].age + tests[k].lag <= tests[i].age
      BY <2>2, <3>1 DEF InTurn
    <3>3. tests[i].age < IpWindow /\ tests[i].age \in Nat
      BY <3>1, TestFields
    <3>4. tests[k].age \in Nat /\ tests[k].lag \in Nat
      BY <3>1, TestFields
    <3>5. tests[k].age + tests[k].lag >= IpWindow
      BY <1>1
    <3> QED
      BY <1>1, <3>2, <3>3, <3>4, <3>5
  <2>3. ASSUME NEW i \in L, NEW k \in L, f[i] = f[k]
        PROVE  i = k
    <3>1. i \in Nat /\ k \in Nat
      OBVIOUS
    <3>2. ~(i < k) /\ ~(k < i)
      BY <2>2, <2>3
    <3> QED
      BY <3>1, <3>2
  <2> HIDE DEF f, L
  <2>4. f \in Injection(L, Threads)
    BY <2>1, <2>3, Fun_IsInj
  <2> QED
    BY <2>4, FS_Injection, FS_CardinalityType, ThreadsAssumption
<1>4. S \cup L = 1 .. n /\ S \cap L = {}
  <2>1. \A i \in 1 .. n : R[i] \in Nat
    BY <1>1, ElementOfSeq
  <2>2. \A i \in 1 .. n : R[i] < IpWindow \/ R[i] >= IpWindow
    BY <1>1, <2>1
  <2>3. \A i \in 1 .. n : ~(R[i] < IpWindow /\ R[i] >= IpWindow)
    BY <1>1, <2>1
  <2> QED
    BY <2>2, <2>3
<1> HIDE DEF S, L, R
<1>5. Cardinality(S \cup L) = Cardinality(S) + Cardinality(L)
  <2>1. Cardinality(S \cap L) = 0
    BY <1>4, FS_EmptySet
  <2>2. Cardinality(S \cup L) = Cardinality(S) + Cardinality(L) - Cardinality(S \cap L)
    BY <1>2, <1>3, FS_Union
  <2> QED
    BY <1>2, <1>3, <2>1, <2>2
<1>6. Cardinality(1 .. n) = n
  <2> HIDE DEF n
  <2>1. 1 \in Int /\ n \in Int
    BY <1>1
  <2>2. Cardinality(1 .. n) = IF 1 > n THEN 0 ELSE n - 1 + 1
    BY <2>1, FS_Interval
  <2> QED
    BY <1>1, <2>2
<1>7. Cardinality(Threads) \in Nat
  BY ThreadsAssumption, FS_CardinalityType
<1>8. Cardinality(S) + Cardinality(L) = n
  BY <1>4, <1>5, <1>6, Zenon
<1> HIDE DEF n
<1>9. n <= Len(bucket) + Cardinality(Threads)
  BY <1>1, <1>2, <1>3, <1>7, <1>8
<1> QED
  BY <1>9 DEF n

LEMMA OlderTest ==
  ASSUME NEW x \in Tests
  PROVE  LET y == [x EXCEPT !.age = @ + 1]
         IN  /\ y \in [thread : Threads, age : Nat, lag : 0 .. MaxLag]
             /\ y.thread = x.thread /\ y.age = x.age + 1 /\ y.lag = x.lag
<1>1. x.age \in Nat /\ x.age + 1 \in Nat
  BY LoginLimitsAssumption DEF Tests
<1> DEFINE older == x.age + 1
<1>2. [x EXCEPT !.age = @ + 1] = [x EXCEPT !.age = older]
  BY DEF Tests
<1> HIDE DEF older
<1>3. older \in Nat
  BY <1>1 DEF older
<1>4. /\ [x EXCEPT !.age = older] \in [thread : Threads, age : Nat, lag : 0 .. MaxLag]
      /\ [x EXCEPT !.age = older].thread = x.thread
      /\ [x EXCEPT !.age = older].age = older /\ [x EXCEPT !.age = older].lag = x.lag
  BY <1>3 DEF Tests
<1> QED
  BY <1>2, <1>4 DEF older

LEMMA OlderTestsFacts ==
  ASSUME NEW tests \in Seq(Tests), InTurn(tests), NEW bucket \in Seq(0 .. Oldest(IpWindow)),
         Follows(Readings(tests), bucket, IpWindow)
  PROVE  /\ OlderTests(tests) \in Seq(Tests) /\ InTurn(OlderTests(tests))
         /\ Follows(Readings(OlderTests(tests)), Older(bucket, IpWindow), IpWindow)
         /\ \A i \in 1 .. Len(OlderTests(tests)) : \E k \in 1 .. Len(tests) :
              /\ OlderTests(tests)[i].thread = tests[k].thread
              /\ OlderTests(tests)[i].age = tests[k].age + 1
<1> DEFINE n == Len(tests)
           older == [i \in DOMAIN tests |-> [tests[i] EXCEPT !.age = @ + 1]]
           kept == {i \in DOMAIN older : older[i].age < IpWindow}
           left == OlderTests(tests)
           T == [thread : Threads, age : Nat, lag : 0 .. MaxLag]
<1>1. left = Suffix(older, kept)
  BY DEF OlderTests
<1>2. n \in Nat /\ DOMAIN tests = 1 .. n /\ IpWindow \in Nat /\ Len(tests) = n
  BY LenProperties, LoginLimitsAssumption
<1>3. ASSUME NEW i \in 1 .. n
      PROVE  /\ older[i] \in T /\ older[i].thread = tests[i].thread
             /\ older[i].age = tests[i].age + 1 /\ older[i].lag = tests[i].lag
  <2>1. tests[i] \in Tests
    BY ElementOfSeq
  <2>2. older[i] = [tests[i] EXCEPT !.age = @ + 1]
    BY <1>2
  <2> HIDE DEF older
  <2> QED
    BY <2>1, <2>2, OlderTest
<1>4. older \in [1 .. n -> T]
  BY <1>2, <1>3
<1>5. \A i \in 1 .. n : i \in kept <=> older[i].age < IpWindow
  BY <1>2
<1>6. kept \in SUBSET DOMAIN older /\ DOMAIN older = 1 .. n
  BY <1>2
<1> HIDE DEF older, kept, T, left, n
<1>7. older \in Seq(T) /\ Len(older) = n
  BY <1>2, <1>4, ArrayIsSeq
<1>8. PICK d \in 0 .. Len(older) :
        /\ Suffix(older, kept) \in Seq(T) /\ Len(Suffix(older, kept)) = Len(older) - d
        /\ \A i \in 1 .. Len(older) - d : Suffix(older, kept)[i] = older[i + d]
        /\ d < Len(older) => d + 1 \in kept
  BY <1>6, <1>7, SuffixFacts
<1>9. /\ d \in 0 .. n
      /\ left \in Seq(T) /\ Len(left) = n - d
      /\ \A i \in 1 .. n - d : left[i] = older[i + d]
      /\ d < n => d + 1 \in kept
  BY <1>1, <1>7, <1>8
<1>10. ASSUME NEW i \in 1 .. n - d
      PROVE  /\ i + d \in 1 .. n /\ left[i] = older[i + d]
             /\ left[i] \in Tests
             /\ left[i].thread = tests[i + d].thread /\ left[i].age = tests[i + d].age + 1
             /\ left[i].lag = tests[i + d].lag
  <2>1. i + d \in 1 .. n /\ d + 1 \in 1 .. n /\ d < n /\ d + 1 <= i + d
    BY <1>2, <1>9
  <2>2. left[i] = older[i + d]
    BY <1>9
  <2>3. older[d + 1].age < IpWindow
    BY <1>5, <1>9, <2>1
  <2>4. tests[i + d].age <= tests[d + 1].age
    <3>1. CASE i = 1
      BY <2>1, <3>1, <1>2, TestFields
    <3>2. CASE i # 1
      <4>1. d + 1 < i + d
        BY <1>9, <3>2
      <4> QED
        BY <1>2, <2>1, <4>1 DEF InTurn
    <3> QED
      BY <3>1, <3>2
  <2>5. /\ older[i + d] \in T /\ older[i + d].thread = tests[i + d].thread
        /\ older[i + d].age = tests[i + d].age + 1 /\ older[i + d].lag = tests[i + d].lag
        /\ older[d + 1].age = tests[d + 1].age + 1
    BY <1>3, <2>1
  <2>6. tests[i + d].age \in Nat
    BY <2>1, <1>2, TestFields
  <2>7. tests[d + 1].age \in Nat
    BY <2>1, <1>2, TestFields
  <2>8. older[i + d].age \in 0 .. IpWindow - 1
    <3>1. IpWindow \in Nat
      BY <1>2
    <3>2. /\ older[i + d].age = tests[i + d].age + 1
          /\ older[d + 1].age = tests[d + 1].age + 1
      BY <2>5
    <3> DEFINE x == tests[i + d].age
               y == tests[d + 1].age
               z == older[i + d].age
    <3>3. x \in Nat /\ y \in Nat /\ x <= y /\ y + 1 < IpWindow /\ z = x + 1
      BY <2>3, <2>4, <2>6, <2>7, <3>2
    <3> HIDE DEF x, y, z
    <3>4. z \in 0 .. IpWindow - 1
      BY <3>1, <3>3
    <3> QED
      BY <3>4 DEF z
  <2>9. older[i + d] \in Tests
    BY <2>5, <2>8 DEF T, Tests
  <2> QED
    BY <2>1, <2>2, <2>5, <2>9
<1>11. left \in Seq(Tests)
  <2>1. left \in [1 .. n - d -> Tests]
    BY <1>9, <1>10, LenProperties
  <2>2. n - d \in Nat
    BY <1>2, <1>9
  <2> QED
    BY <2>1, <2>2, ArrayIsSeq
<1>12. InTurn(left)
  <2> SUFFICES ASSUME NEW i \in 1 .. n - d, NEW k \in 1 .. n - d, i < k
               PROVE  /\ left[k].age <= left[i].age
                      /\ left[k].thread = left[i].thread =>
                           left[k].age + left[k].lag <= left[i].age
    BY <1>9 DEF InTurn
  <2>1. i + d \in 1 .. n /\ k + d \in 1 .. n /\ i + d < k + d
    BY <1>2, <1>9
  <2>2. /\ tests[k + d].age <= tests[i + d].age
        /\ tests[k + d].thread = tests[i + d].thread =>
             tests[k + d].age + tests[k + d].lag <= tests[i + d].age
    BY <1>2, <2>1 DEF InTurn
  <2>3. tests[k + d].age \in Nat /\ tests[k + d].lag \in Nat
    BY <2>1, <1>2, TestFields
  <2>4. tests[i + d].age \in Nat
    BY <2>1, <1>2, TestFields
  <2>5. left[i].thread = tests[i + d].thread /\ left[i].age = tests[i + d].age + 1
    BY <1>10
  <2>6. /\ left[k].thread = tests[k + d].thread /\ left[k].age = tests[k + d].age + 1
        /\ left[k].lag = tests[k + d].lag
    BY <1>10
  <2> DEFINE x == tests[i + d].age
             y == tests[k + d].age
             z == tests[k + d].lag
  <2>7. x \in Nat /\ y \in Nat /\ z \in Nat /\ y <= x
    BY <2>2, <2>3, <2>4
  <2>8. left[k].thread = left[i].thread => y + z <= x
    BY <2>2, <2>5, <2>6
  <2>9. left[i].age = x + 1 /\ left[k].age = y + 1 /\ left[k].lag = z
    BY <2>5, <2>6
  <2> HIDE DEF x, y, z
  <2> QED
    BY <2>7, <2>8, <2>9
<1>13. Follows(Readings(left), Older(bucket, IpWindow), IpWindow)
  <2> DEFINE R == Readings(tests)
             later == [i \in 1 .. n |-> R[i] + 1]
  <2>1. /\ R \in Seq(0 .. Oldest(IpWindow)) /\ Len(R) = n
        /\ \A i \in 1 .. n : R[i] = tests[i].age + tests[i].lag
    BY <1>2, ReadingsFacts
  <2>2. later \in Seq(Nat) /\ Len(later) = n /\ \A i \in 1 .. n : later[i] = R[i] + 1
    <3>1. \A i \in 1 .. n : R[i] + 1 \in Nat
      BY <1>2, <2>1, TestFields
    <3>2. later \in [1 .. n -> Nat]
      BY <3>1
    <3> QED
      BY <1>2, <3>2, ArrayIsSeq
  <2> HIDE DEF later, R
  <2>3. \A i \in 1 .. n : later[i] = Later(R[i], IpWindow)
    <3> SUFFICES ASSUME NEW i \in 1 .. n
                 PROVE  later[i] = Later(R[i], IpWindow)
      OBVIOUS
    <3>1. /\ tests[i].age \in Nat /\ tests[i].age < IpWindow
          /\ tests[i].lag \in Nat /\ tests[i].lag <= MaxLag /\ MaxLag \in Nat
      BY <1>2, TestFields
    <3>2. R[i] = tests[i].age + tests[i].lag
      BY <2>1
    <3>3. R[i] # Oldest(IpWindow)
      BY <1>2, <3>1, <3>2 DEF Oldest
    <3> QED
      BY <2>2, <3>3 DEF Later
  <2>4. Follows(later, Older(bucket, IpWindow), IpWindow)
    BY <1>2, <2>1, <2>2, <2>3, FollowsLater DEF R
  <2>5. /\ Readings(left) \in Seq(Nat) /\ Len(Readings(left)) = n - d
        /\ \A i \in 1 .. n - d : Readings(left)[i] = left[i].age + left[i].lag
    BY <1>2, <1>9, <1>11, ReadingsFacts
  <2>6. \A i \in 1 .. n - d : Readings(left)[i] = later[i + d]
    <3> SUFFICES ASSUME NEW i \in 1 .. n - d
                 PROVE  Readings(left)[i] = later[i + d]
      OBVIOUS
    <3>1. /\ i + d \in 1 .. n
          /\ left[i].age = tests[i + d].age + 1 /\ left[i].lag = tests[i + d].lag
      BY <1>10
    <3>2. tests[i + d].age \in Nat /\ tests[i + d].lag \in Nat
      BY <3>1, <1>2, TestFields
    <3>3. /\ Readings(left)[i] = left[i].age + left[i].lag
          /\ later[i + d] = R[i + d] + 1 /\ R[i + d] = tests[i + d].age + tests[i + d].lag
      BY <2>1, <2>2, <2>5, <3>1
    <3> QED
      BY <3>1, <3>2, <3>3
  <2>7. Older(bucket, IpWindow) \in Seq(Nat)
    <3>1. Older(bucket, IpWindow) \in Seq(0 .. Oldest(IpWindow))
      BY <1>2, OlderFacts
    <3> QED
      BY <3>1, LoginLimitsAssumption, LagAssumption DEF Oldest
  <2> QED
    BY <1>2, <1>9, <2>2, <2>4, <2>5, <2>6, <2>7, FollowsCut
<1>14. \A i \in 1 .. n - d : \E k \in 1 .. n :
         left[i].thread = tests[k].thread /\ left[i].age = tests[k].age + 1
  BY <1>10
<1> QED
  BY <1>2, <1>9, <1>11, <1>12, <1>13, <1>14 DEF left

-----------------------------------------------------------------------------
\* The steps of logins, for what they do to accounts.

AttemptType == [pc : AttemptPhases, address : Addresses, account : Accounts,
                lag : 0 .. MaxLag, private : BOOLEAN]

Ages(window) == 0 .. Oldest(window)

LoginTyped ==
    /\ ipAttempts \in [Addresses -> Seq(Ages(IpWindow))]
    /\ \A a \in Addresses : Len(ipAttempts[a]) <= IpMaxAttempts
    /\ accountFailures \in [Accounts -> Seq(Ages(AccountWindow))]
    /\ \A u \in Accounts :
         Len(accountFailures[u]) <= AccountMaxFailures + Cardinality(Threads)
    /\ built \in BOOLEAN /\ unseen \in Nat
    /\ attempt \in [Threads -> AttemptType]
    /\ tested \in [Addresses -> Seq(Tests)]
    /\ guessed \in [Accounts -> Seq(Ages(AccountWindow))]

LEMMA LoginConstants ==
  /\ IpWindow \in Nat \ {0} /\ IpMaxAttempts \in Nat \ {0}
  /\ AccountWindow \in Nat \ {0} /\ AccountMaxFailures \in Nat \ {0} /\ MaxLag \in Nat
  /\ IsFiniteSet(Threads) /\ Cardinality(Threads) \in Nat \ {0}
  /\ Oldest(IpWindow) \in Nat /\ Oldest(AccountWindow) \in Nat
<1>1. IsFiniteSet(Threads) /\ Cardinality(Threads) \in Nat /\ Cardinality(Threads) # 0
  BY ThreadsAssumption, FS_CardinalityType, FS_EmptySet
<1> QED
  BY <1>1, LoginLimitsAssumption, LagAssumption DEF Oldest

LEMMA LoginStores ==
  ASSUME NEW f
  PROVE  /\ f \in Buckets(Addresses, IpWindow, IpMaxAttempts) <=>
              /\ f \in [Addresses -> Seq(Ages(IpWindow))]
              /\ \A a \in Addresses : Len(f[a]) <= IpMaxAttempts
         /\ f \in Buckets(Accounts, AccountWindow, AccountMaxFailures + Cardinality(Threads)) <=>
              /\ f \in [Accounts -> Seq(Ages(AccountWindow))]
              /\ \A u \in Accounts : Len(f[u]) <= AccountMaxFailures + Cardinality(Threads)
<1>1. IpWindow \in Nat /\ IpMaxAttempts \in Nat
  BY LoginConstants
<1>2. AccountWindow \in Nat /\ AccountMaxFailures + Cardinality(Threads) \in Nat
  BY LoginConstants
<1>3. f \in Buckets(Addresses, IpWindow, IpMaxAttempts) <=>
        f \in [Addresses -> {b \in Seq(Ages(IpWindow)) : Len(b) <= IpMaxAttempts}]
  BY <1>1, BucketFacts DEF Ages
<1> DEFINE capacity == AccountMaxFailures + Cardinality(Threads)
<1>4. capacity \in Nat
  BY <1>2
<1> HIDE DEF capacity
<1>5. f \in Buckets(Accounts, AccountWindow, capacity) <=>
        f \in [Accounts -> {b \in Seq(Ages(AccountWindow)) : Len(b) <= capacity}]
  BY <1>2, <1>4, BucketFacts DEF Ages
<1>6. f \in [Accounts -> {b \in Seq(Ages(AccountWindow)) : Len(b) <= capacity}] <=>
        /\ f \in [Accounts -> Seq(Ages(AccountWindow))]
        /\ \A u \in Accounts : Len(f[u]) <= capacity
  OBVIOUS
<1>7. f \in [Addresses -> {b \in Seq(Ages(IpWindow)) : Len(b) <= IpMaxAttempts}] <=>
        /\ f \in [Addresses -> Seq(Ages(IpWindow))]
        /\ \A a \in Addresses : Len(f[a]) <= IpMaxAttempts
  OBVIOUS
<1> QED
  BY <1>3, <1>5, <1>6, <1>7 DEF capacity

LEMMA LoginTypes == LoginTypeOK <=> LoginTyped
BY LoginStores DEF LoginTypeOK, LoginTyped, AttemptType, Ages

LEMMA LoginTypesNext == LoginTyped' => LoginTypeOK'
BY LoginStores DEF LoginTypeOK, LoginTyped, AttemptType, Ages

LEMMA ThreadsCount ==
  ASSUME NEW S \in SUBSET Threads
  PROVE  /\ IsFiniteSet(S) /\ Cardinality(S) \in Nat /\ Cardinality(S) <= Cardinality(Threads)
         /\ \A T \in SUBSET S : Cardinality(T) <= Cardinality(S) /\ Cardinality(T) \in Nat
         /\ \A t \in S : Cardinality(S \ {t}) = Cardinality(S) - 1
<1>1. IsFiniteSet(S) /\ Cardinality(S) \in Nat /\ Cardinality(S) <= Cardinality(Threads)
  BY LoginConstants, FS_Subset, FS_CardinalityType
<1>2. \A T \in SUBSET S : Cardinality(T) <= Cardinality(S) /\ Cardinality(T) \in Nat
  BY <1>1, FS_Subset, FS_CardinalityType
<1>3. \A t \in S : Cardinality(S \ {t}) = Cardinality(S) - 1
  BY <1>1, FS_RemoveElement
<1> QED
  BY <1>1, <1>2, <1>3

\* An account whose failures no step touches, and on which nobody begins.
LEMMA AccountKept ==
  ASSUME LoginInv, NEW u \in Accounts, Pending(u)' \subseteq Pending(u),
         guessed'[u] = guessed[u], accountFailures'[u] = accountFailures[u]
  PROVE  /\ Follows(guessed'[u], accountFailures'[u], AccountWindow)
         /\ Len(accountFailures'[u]) + Cardinality(Pending(u)')
              <= AccountMaxFailures - 1 + Cardinality(Threads)
<1>1. /\ Follows(guessed[u], accountFailures[u], AccountWindow)
      /\ Len(accountFailures[u]) + Cardinality(Pending(u))
           <= AccountMaxFailures - 1 + Cardinality(Threads)
  BY DEF LoginInv, AccountsInv
<1>2. Pending(u) \in SUBSET Threads
  BY DEF Pending
<1>3. /\ Cardinality(Pending(u)') <= Cardinality(Pending(u))
      /\ Cardinality(Pending(u)') \in Nat /\ Cardinality(Pending(u)) \in Nat
  BY <1>2, ThreadsCount
<1>4. Len(accountFailures[u]) \in Nat
  BY LoginTypes, LenProperties DEF LoginInv, LoginTyped
<1>5. AccountMaxFailures \in Nat /\ Cardinality(Threads) \in Nat
  BY LoginConstants
<1> DEFINE n == Len(accountFailures[u])
           before == Cardinality(Pending(u))
           after == Cardinality(Pending(u)')
           limit == AccountMaxFailures - 1 + Cardinality(Threads)
<1>6. /\ n \in Nat /\ before \in Nat /\ after \in Nat /\ limit \in Int
      /\ after <= before /\ n + before <= limit
  BY <1>1, <1>3, <1>4, <1>5
<1> HIDE DEF n, before, after, limit
<1>7. n + after <= limit
  BY <1>6
<1> QED
  BY <1>1, <1>7 DEF n, after, limit

\* The bucket of an attempt's address, or of its account, after the prune.
LEMMA EntriesFacts ==
  ASSUME LoginInv, NEW t \in Threads
  PROVE  /\ attempt[t] \in AttemptType /\ attempt[t].lag \in Nat
         /\ attempt[t].address \in Addresses /\ attempt[t].account \in Accounts
         /\ IpEntries(t) \in Seq(Ages(IpWindow))
         /\ Len(IpEntries(t)) \in Nat /\ Len(IpEntries(t)) <= IpMaxAttempts
         /\ Follows(Readings(tested[attempt[t].address]), IpEntries(t), IpWindow)
         /\ AccountEntries(t) \in Seq(Ages(AccountWindow))
         /\ Len(AccountEntries(t)) \in Nat
         /\ Len(AccountEntries(t)) <= Len(accountFailures[attempt[t].account])
         /\ Follows(guessed[attempt[t].account], AccountEntries(t), AccountWindow)
<1> DEFINE a == attempt[t].address
           u == attempt[t].account
           lag == attempt[t].lag
<1>1. LoginTyped
  BY LoginTypes DEF LoginInv
<1>2. attempt[t] \in AttemptType /\ a \in Addresses /\ u \in Accounts /\ lag \in Nat
  BY <1>1 DEF LoginTyped, AttemptType
<1>3. /\ IpEntries(t) = Pruned(ipAttempts[a], IpWindow, lag)
      /\ AccountEntries(t) = Pruned(accountFailures[u], AccountWindow, lag)
  BY DEF IpEntries, AccountEntries
<1> HIDE DEF a, u, lag
<1>4. /\ ipAttempts[a] \in Seq(Ages(IpWindow)) /\ Len(ipAttempts[a]) <= IpMaxAttempts
      /\ accountFailures[u] \in Seq(Ages(AccountWindow))
      /\ tested[a] \in Seq(Tests) /\ guessed[u] \in Seq(Ages(AccountWindow))
  BY <1>1, <1>2 DEF LoginTyped
<1>5. IpWindow \in Nat /\ AccountWindow \in Nat /\ IpMaxAttempts \in Nat
      /\ Oldest(IpWindow) \in Nat /\ Oldest(AccountWindow) \in Nat
  BY LoginConstants
<1>6. IpEntries(t) \in Seq(Ages(IpWindow)) /\ Len(IpEntries(t)) <= Len(ipAttempts[a])
  BY <1>2, <1>3, <1>4, <1>5, PrunedIsShorter DEF Ages
<1>7. /\ AccountEntries(t) \in Seq(Ages(AccountWindow))
      /\ Len(AccountEntries(t)) <= Len(accountFailures[u])
  BY <1>2, <1>3, <1>4, <1>5, PrunedIsShorter DEF Ages
<1>8. /\ ipAttempts[a] \in Seq(Nat) /\ accountFailures[u] \in Seq(Nat) /\ guessed[u] \in Seq(Nat)
      /\ Readings(tested[a]) \in Seq(Nat)
  BY <1>4, <1>5, ReadingsFacts DEF Ages
<1>9. /\ Follows(Readings(tested[a]), ipAttempts[a], IpWindow)
      /\ Follows(guessed[u], accountFailures[u], AccountWindow)
  BY <1>2 DEF LoginInv, AddressesInv, AccountsInv
<1>10. Follows(Readings(tested[a]), IpEntries(t), IpWindow)
  BY <1>2, <1>3, <1>5, <1>8, <1>9, FollowsPruned
<1>11. Follows(guessed[u], AccountEntries(t), AccountWindow)
  BY <1>2, <1>3, <1>5, <1>8, <1>9, FollowsPruned
<1>12. /\ Len(IpEntries(t)) \in Nat /\ Len(AccountEntries(t)) \in Nat
       /\ Len(ipAttempts[a]) \in Nat
  BY <1>4, <1>6, <1>7, LenProperties
<1> QED
  BY <1>2, <1>4, <1>5, <1>6, <1>7, <1>10, <1>11, <1>12 DEF a, u, lag

LEMMA NoAttemptIsTyped ==
  NoAttempt \in AttemptType /\ NoAttempt.pc = "idle"
<1> DEFINE a == CHOOSE a \in Addresses : TRUE
           u == CHOOSE u \in Accounts : TRUE
<1>1. a \in Addresses /\ u \in Accounts
  BY ClientsAssumption
<1>2. NoAttempt = [pc |-> "idle", address |-> a, account |-> u, lag |-> 0, private |-> FALSE]
  BY DEF NoAttempt
<1> HIDE DEF a, u
<1> QED
  BY <1>1, <1>2, LoginConstants DEF AttemptType, AttemptPhases

\* What a step of a thread does to its attempt and to none of the others.
LEMMA OneAttempt ==
  ASSUME LoginInv, NEW t \in Threads, LoginStep(t)
  PROVE  /\ attempt' \in [Threads -> AttemptType]
         /\ \A s \in Threads \ {t} : attempt'[s] = attempt[s]
<1>1. attempt \in [Threads -> AttemptType]
  BY LoginTypes DEF LoginInv, LoginTyped
<1>2. NoAttempt \in AttemptType
  BY NoAttemptIsTyped
<1>3. ASSUME NEW r \in AttemptType, attempt' = [attempt EXCEPT ![t] = r]
      PROVE  /\ attempt' \in [Threads -> AttemptType]
             /\ \A s \in Threads \ {t} : attempt'[s] = attempt[s]
  BY <1>1, <1>3
<1>4. ASSUME NEW pc \in AttemptPhases
      PROVE  [attempt[t] EXCEPT !.pc = pc] \in AttemptType
  BY <1>1 DEF AttemptType
<1>5. CASE BuildThrottle(t)
  <2>1. attempt' = [attempt EXCEPT ![t] = [attempt[t] EXCEPT !.pc = "building"]]
    BY <1>1, <1>5 DEF BuildThrottle
  <2> QED
    BY <1>3, <1>4, <2>1 DEF AttemptPhases
<1>6. CASE EndBuilding(t) \/ Arrive(t)
  <2>1. PICK a \in Addresses, u \in Accounts, private \in BOOLEAN :
          attempt' = [attempt EXCEPT ![t] = [pc |-> "arriving", address |-> a, account |-> u,
                                             lag |-> 0, private |-> private]]
    <3>1. built \in BOOLEAN
      BY LoginTypes DEF LoginInv, LoginTyped
    <3> QED
      BY <1>6, <3>1 DEF EndBuilding, Arrive
  <2>2. [pc |-> "arriving", address |-> a, account |-> u, lag |-> 0, private |-> private]
          \in AttemptType
    BY LoginConstants DEF AttemptType, AttemptPhases
  <2> QED
    BY <1>3, <2>1, <2>2
<1>7. CASE BeginAttempt(t)
  <2> DEFINE r == [attempt[t] EXCEPT !.pc = "verifying", !.lag = 0]
  <2>1. r \in AttemptType
    <3>1. attempt[t] \in AttemptType /\ 0 \in 0 .. MaxLag /\ "verifying" \in AttemptPhases
      BY <1>1, LoginConstants DEF AttemptPhases
    <3> QED
      BY <3>1 DEF AttemptType
  <2>2. attempt' = [attempt EXCEPT ![t] = NoAttempt] \/ attempt' = [attempt EXCEPT ![t] = r]
    BY <1>1, <1>7 DEF BeginAttempt
  <2> HIDE DEF r
  <2> QED
    BY <1>2, <1>3, <2>1, <2>2
<1>8. CASE Fail(t)
  <2>1. attempt' = [attempt EXCEPT ![t] = [attempt[t] EXCEPT !.pc = "failing"]]
    BY <1>1, <1>8 DEF Fail
  <2> QED
    BY <1>3, <1>4, <2>1 DEF AttemptPhases
<1>9. CASE RecordFailure(t) \/ RecordSuccess(t) \/ Abandon(t)
  BY <1>2, <1>3, <1>9 DEF RecordFailure, RecordSuccess, Abandon
<1> QED
  BY <1>5, <1>6, <1>7, <1>8, <1>9 DEF LoginStep

\* What an account needs to be right after a step.
AccountRight(u) ==
    /\ guessed[u] \in Seq(Ages(AccountWindow)) /\ accountFailures[u] \in Seq(Ages(AccountWindow))
    /\ Follows(guessed[u], accountFailures[u], AccountWindow)
    /\ Len(accountFailures[u]) + Cardinality(Pending(u))
         <= AccountMaxFailures - 1 + Cardinality(Threads)

\* The other accounts, and all of them in a step that records and clears nothing.
LEMMA AccountUntouched ==
  ASSUME LoginInv, NEW t \in Threads, LoginStep(t), NEW u \in Accounts,
         t \in Pending(u)' => t \in Pending(u),
         guessed'[u] = guessed[u], accountFailures'[u] = accountFailures[u]
  PROVE  AccountRight(u)'
<1>1. \A s \in Threads \ {t} : attempt'[s] = attempt[s]
  BY OneAttempt
<1>2. \A s \in Threads \ {t} : s \in Pending(u)' => s \in Pending(u)
  BY <1>1 DEF Pending
<1>3. Pending(u)' \subseteq Threads
  BY DEF Pending
<1>4. Pending(u)' \subseteq Pending(u)
  BY <1>2, <1>3
<1>5. guessed[u] \in Seq(Ages(AccountWindow)) /\ accountFailures[u] \in Seq(Ages(AccountWindow))
  BY LoginTypes DEF LoginInv, LoginTyped
<1> QED
  BY <1>4, <1>5, AccountKept DEF AccountRight

\* An attempt that is let in is verified while its account is below the limit.
LEMMA CountedAttempt ==
  ASSUME LoginInv, NEW t \in Threads, BeginAttempt(t), ~attempt[t].private, ~IpBlocked(t),
         NEW u \in Accounts
  PROVE  AccountRight(u)'
<1>1. LoginStep(t)
  BY DEF LoginStep
<1>2. /\ attempt[t].pc = "arriving" /\ guessed' = guessed
      /\ accountFailures' = [accountFailures EXCEPT ![attempt[t].account] = AccountEntries(t)]
      /\ attempt' = [attempt EXCEPT ![t] = IF AccountBlocked(t) THEN NoAttempt
                                           ELSE [@ EXCEPT !.pc = "verifying", !.lag = 0]]
  BY DEF BeginAttempt
<1>3. LoginTyped
  BY LoginTypes DEF LoginInv
<1>4. /\ AccountEntries(t) \in Seq(Ages(AccountWindow))
      /\ Len(AccountEntries(t)) \in Nat
      /\ Len(AccountEntries(t)) <= Len(accountFailures[attempt[t].account])
      /\ Follows(guessed[attempt[t].account], AccountEntries(t), AccountWindow)
      /\ attempt[t].account \in Accounts /\ attempt[t] \in AttemptType
  BY EntriesFacts
<1>5. AccountBlocked(t) => attempt'[t] = NoAttempt
  BY <1>2, <1>3 DEF LoginTyped
<1>6. ~AccountBlocked(t) => attempt'[t].account = attempt[t].account
  BY <1>2, <1>3, <1>4 DEF LoginTyped, AttemptType
<1>7. CASE u # attempt[t].account
  <2>1. accountFailures'[u] = accountFailures[u]
    BY <1>2, <1>3, <1>7 DEF LoginTyped
  <2>2. t \notin Pending(u)'
    BY <1>5, <1>6, <1>7, NoAttemptIsTyped DEF Pending
  <2> QED
    BY <1>1, <1>2, <2>1, <2>2, AccountUntouched
<1>8. CASE u = attempt[t].account
  <2>1. accountFailures'[u] = AccountEntries(t)
    BY <1>2, <1>3, <1>8 DEF LoginTyped
  <2>2. guessed'[u] \in Seq(Ages(AccountWindow)) /\ accountFailures'[u] \in Seq(Ages(AccountWindow))
    BY <1>2, <1>3, <1>4, <2>1 DEF LoginTyped
  <2>3. Follows(guessed'[u], accountFailures'[u], AccountWindow)
    BY <1>2, <1>4, <1>8, <2>1
  <2> DEFINE n == Len(AccountEntries(t))
             before == Cardinality(Pending(u))
             after == Cardinality(Pending(u)')
             threads == Cardinality(Threads)
  <2>4. n \in Nat /\ before \in Nat /\ after \in Nat /\ threads \in Nat /\ after <= threads
    <3>1. Pending(u) \in SUBSET Threads /\ Pending(u)' \in SUBSET Threads
      BY DEF Pending
    <3> QED
      BY <1>4, <3>1, ThreadsCount, LoginConstants
  <2>5. AccountMaxFailures \in Nat
    BY LoginConstants
  <2>6. n + after <= AccountMaxFailures - 1 + threads
    <3>1. CASE AccountBlocked(t)
      <4>1. Pending(u)' \subseteq Pending(u)
        BY <1>1, <1>5, <3>1, OneAttempt, NoAttemptIsTyped DEF Pending
      <4>2. after <= before
        <5>1. Pending(u) \in SUBSET Threads
          BY DEF Pending
        <5> QED
          BY <4>1, <5>1, ThreadsCount
      <4>3. /\ Len(accountFailures[u]) \in Nat
            /\ Len(accountFailures[u]) + before <= AccountMaxFailures - 1 + threads
        BY <1>3, LenProperties DEF LoginInv, AccountsInv, LoginTyped
      <4>4. n <= Len(accountFailures[u])
        BY <1>4, <1>8
      <4> HIDE DEF n, before, after, threads
      <4> QED
        BY <2>4, <2>5, <4>2, <4>3, <4>4
    <3>2. CASE ~AccountBlocked(t)
      <4>1. n < AccountMaxFailures
        BY <2>4, <2>5, <3>2 DEF AccountBlocked
      <4> HIDE DEF n, before, after, threads
      <4> QED
        BY <2>4, <2>5, <4>1
    <3> QED
      BY <3>1, <3>2
  <2>7. Len(accountFailures'[u]) = n
    BY <2>1
  <2> HIDE DEF n
  <2> QED
    BY <2>2, <2>3, <2>6, <2>7 DEF AccountRight
<1> QED
  BY <1>7, <1>8

\* A failure takes the place of the attempt that had it.
LEMMA CountedFailure ==
  ASSUME LoginInv, NEW t \in Threads, RecordFailure(t), ~attempt[t].private, NEW u \in Accounts
  PROVE  AccountRight(u)'
<1>1. LoginStep(t)
  BY DEF LoginStep
<1>2. /\ attempt[t].pc = "failing" /\ attempt' = [attempt EXCEPT ![t] = NoAttempt]
      /\ accountFailures' = [accountFailures EXCEPT ![attempt[t].account] =
                               Append(AccountEntries(t), attempt[t].lag)]
      /\ guessed' = [guessed EXCEPT ![attempt[t].account] = Append(@, attempt[t].lag)]
  BY DEF RecordFailure
<1>3. LoginTyped
  BY LoginTypes DEF LoginInv
<1>4. /\ AccountEntries(t) \in Seq(Ages(AccountWindow))
      /\ Len(AccountEntries(t)) \in Nat
      /\ Len(AccountEntries(t)) <= Len(accountFailures[attempt[t].account])
      /\ Follows(guessed[attempt[t].account], AccountEntries(t), AccountWindow)
      /\ attempt[t].account \in Accounts /\ attempt[t].lag \in Nat /\ attempt[t] \in AttemptType
  BY EntriesFacts
<1>5. attempt'[t] = NoAttempt /\ t \notin Pending(u)'
  BY <1>2, <1>3, NoAttemptIsTyped DEF LoginTyped, Pending
<1>6. CASE u # attempt[t].account
  <2>1. accountFailures'[u] = accountFailures[u] /\ guessed'[u] = guessed[u]
    BY <1>2, <1>3, <1>6 DEF LoginTyped
  <2> QED
    BY <1>1, <1>5, <2>1, AccountUntouched
<1>7. CASE u = attempt[t].account
  <2> DEFINE lag == attempt[t].lag
             entries == AccountEntries(t)
  <2>1. /\ accountFailures'[u] = Append(entries, lag)
        /\ guessed'[u] = Append(guessed[u], lag)
    BY <1>2, <1>3, <1>7 DEF LoginTyped
  <2>2. lag \in Ages(AccountWindow) /\ lag \in Nat
    BY <1>4, LoginConstants DEF AttemptType, Ages, Oldest
  <2>3. guessed[u] \in Seq(Ages(AccountWindow)) /\ entries \in Seq(Ages(AccountWindow))
    BY <1>3, <1>4 DEF LoginTyped
  <2>4. Follows(guessed[u], entries, AccountWindow)
    BY <1>4, <1>7
  <2> HIDE DEF lag, entries
  <2>5. guessed[u] \in Seq(Nat) /\ entries \in Seq(Nat) /\ AccountWindow \in Nat
    BY <2>3, LoginConstants DEF Ages
  <2>6. Follows(Append(guessed[u], lag), Append(entries, lag), AccountWindow)
    BY <2>2, <2>4, <2>5, FollowsAppended
  <2>7. /\ Append(guessed[u], lag) \in Seq(Ages(AccountWindow))
        /\ Append(entries, lag) \in Seq(Ages(AccountWindow))
        /\ Len(Append(entries, lag)) = Len(entries) + 1
    BY <2>2, <2>3, AppendProperties
  <2> DEFINE n == Len(entries)
             before == Cardinality(Pending(u))
             after == Cardinality(Pending(u)')
             limit == AccountMaxFailures - 1 + Cardinality(Threads)
  <2>8. n \in Nat /\ before \in Nat /\ after \in Nat /\ limit \in Int /\ after <= before - 1
    <3>1. Pending(u) \in SUBSET Threads
      BY DEF Pending
    <3>2. t \in Pending(u)
      BY <1>2, <1>7 DEF Pending
    <3>3. Pending(u)' \subseteq Pending(u) \ {t}
      BY <1>1, <1>5, OneAttempt DEF Pending
    <3>4. /\ Cardinality(Pending(u) \ {t}) = before - 1 /\ before \in Nat
          /\ Pending(u) \ {t} \in SUBSET Threads
      BY <3>1, <3>2, ThreadsCount
    <3>5. after <= Cardinality(Pending(u) \ {t}) /\ after \in Nat
      BY <3>3, <3>4, ThreadsCount
    <3>6. n \in Nat /\ limit \in Int
      BY <2>3, LenProperties, LoginConstants
    <3> HIDE DEF n, before, after, limit
    <3> QED
      BY <3>4, <3>5, <3>6
  <2>9. Len(accountFailures[u]) + before <= limit /\ n <= Len(accountFailures[u])
    BY <1>4, <1>7 DEF LoginInv, AccountsInv, entries
  <2>10. Len(accountFailures[u]) \in Nat
    BY <1>3, LenProperties DEF LoginTyped
  <2> HIDE DEF n, before, after, limit
  <2>11. n + 1 + after <= limit
    BY <2>8, <2>9, <2>10
  <2>12. Len(accountFailures'[u]) + Cardinality(Pending(u)') <= limit
    BY <2>1, <2>7, <2>11 DEF n, after
  <2> QED
    BY <2>1, <2>6, <2>7, <2>12 DEF AccountRight, limit
<1> QED
  BY <1>6, <1>7

LEMMA ClearedAccount ==
  ASSUME LoginInv, NEW t \in Threads, RecordSuccess(t), ~attempt[t].private, NEW u \in Accounts
  PROVE  AccountRight(u)'
<1>1. LoginStep(t)
  BY DEF LoginStep
<1>2. /\ attempt' = [attempt EXCEPT ![t] = NoAttempt]
      /\ accountFailures' = [accountFailures EXCEPT ![attempt[t].account] = <<>>]
      /\ guessed' = [guessed EXCEPT ![attempt[t].account] = <<>>]
  BY DEF RecordSuccess
<1>3. LoginTyped /\ attempt[t].account \in Accounts
  BY LoginTypes, EntriesFacts DEF LoginInv
<1>4. t \notin Pending(u)'
  BY <1>2, <1>3, NoAttemptIsTyped DEF LoginTyped, Pending
<1>5. CASE u # attempt[t].account
  <2>1. accountFailures'[u] = accountFailures[u] /\ guessed'[u] = guessed[u]
    BY <1>2, <1>3, <1>5 DEF LoginTyped
  <2> QED
    BY <1>1, <1>4, <2>1, AccountUntouched
<1>6. CASE u = attempt[t].account
  <2>1. accountFailures'[u] = <<>> /\ guessed'[u] = <<>>
    BY <1>2, <1>3, <1>6 DEF LoginTyped
  <2>2. <<>> \in Seq(Ages(AccountWindow)) /\ Len(<<>>) = 0
    BY EmptySeq
  <2>3. Follows(<<>>, <<>>, AccountWindow)
    BY <2>2 DEF Follows
  <2>4. /\ Cardinality(Pending(u)') \in Nat
        /\ Cardinality(Pending(u)') <= Cardinality(Threads)
    <3>1. Pending(u)' \in SUBSET Threads
      BY DEF Pending
    <3> QED
      BY <3>1, ThreadsCount
  <2>5. Len(accountFailures'[u]) + Cardinality(Pending(u)')
          <= AccountMaxFailures - 1 + Cardinality(Threads)
    BY <2>1, <2>2, <2>4, LoginConstants
  <2> QED
    BY <2>1, <2>2, <2>3, <2>5 DEF AccountRight
<1> QED
  BY <1>5, <1>6

LEMMA LoginStepAccounts ==
  ASSUME LoginInv, NEW t \in Threads, LoginStep(t), NEW u \in Accounts
  PROVE  AccountRight(u)'
<1>1. LoginTyped
  BY LoginTypes DEF LoginInv
<1>2. CASE BuildThrottle(t)
  BY <1>1, <1>2, AccountUntouched DEF BuildThrottle, Pending, LoginTyped, AttemptType
<1>3. CASE EndBuilding(t)
  BY <1>1, <1>3, AccountUntouched DEF EndBuilding, Pending, LoginTyped, AttemptType
<1>4. CASE Arrive(t)
  BY <1>1, <1>4, AccountUntouched DEF Arrive, Pending, LoginTyped, AttemptType
<1>5. CASE BeginAttempt(t)
  <2>1. CASE attempt[t].private
    <3>1. /\ attempt' = [attempt EXCEPT ![t].pc = "verifying", ![t].lag = 0]
          /\ UNCHANGED <<accountFailures, guessed>>
      BY <1>5, <2>1 DEF BeginAttempt
    <3>2. attempt[t] \in AttemptType /\ attempt \in [Threads -> AttemptType]
      BY <1>1 DEF LoginTyped
    <3>3. attempt'[t].private
      BY <2>1, <3>1, <3>2 DEF AttemptType
    <3> QED
      BY <3>1, <3>3, AccountUntouched DEF Pending
  <2>2. CASE ~attempt[t].private /\ IpBlocked(t)
    <3>1. attempt'[t] = NoAttempt /\ UNCHANGED <<accountFailures, guessed>>
      BY <1>1, <1>5, <2>2 DEF BeginAttempt, LoginTyped
    <3> QED
      BY <3>1, AccountUntouched, NoAttemptIsTyped DEF Pending
  <2>3. CASE ~attempt[t].private /\ ~IpBlocked(t)
    BY <1>5, <2>3, CountedAttempt
  <2> QED
    BY <2>1, <2>2, <2>3
<1>6. CASE Fail(t)
  BY <1>1, <1>6, AccountUntouched DEF Fail, Pending, LoginTyped, AttemptType
<1>7. CASE RecordFailure(t)
  <2>1. CASE attempt[t].private
    <3>1. attempt'[t] = NoAttempt /\ UNCHANGED <<accountFailures, guessed>>
      BY <1>1, <1>7, <2>1 DEF RecordFailure, LoginTyped
    <3> QED
      BY <3>1, AccountUntouched, NoAttemptIsTyped DEF Pending
  <2> QED
    BY <1>7, <2>1, CountedFailure
<1>8. CASE RecordSuccess(t)
  <2>1. CASE attempt[t].private
    <3>1. attempt'[t] = NoAttempt /\ UNCHANGED <<accountFailures, guessed>>
      BY <1>1, <1>8, <2>1 DEF RecordSuccess, LoginTyped
    <3> QED
      BY <3>1, AccountUntouched, NoAttemptIsTyped DEF Pending
  <2> QED
    BY <1>8, <2>1, ClearedAccount
<1>9. CASE Abandon(t)
  <2>1. attempt'[t] = NoAttempt /\ UNCHANGED <<accountFailures, guessed>>
    BY <1>1, <1>9 DEF Abandon, LoginTyped
  <2> QED
    BY <2>1, AccountUntouched, NoAttemptIsTyped DEF Pending
<1> QED
  BY <1>2, <1>3, <1>4, <1>5, <1>6, <1>7, <1>8, <1>9 DEF LoginStep

\* A tick: the readings of arriving and failing threads get older.
LEMMA TickedAttempts ==
  ASSUME LoginInv, LoginTick
  PROVE  /\ attempt' \in [Threads -> AttemptType]
         /\ \A t \in Threads :
              /\ attempt'[t].pc = attempt[t].pc /\ attempt'[t].private = attempt[t].private
              /\ attempt'[t].account = attempt[t].account
              /\ attempt'[t].lag \in {attempt[t].lag, attempt[t].lag + 1}
<1>1. attempt \in [Threads -> AttemptType] /\ MaxLag \in Nat
  BY LoginTypes, LoginConstants DEF LoginInv, LoginTyped
<1>2. ASSUME NEW t \in Threads
      PROVE  /\ attempt'[t] \in AttemptType
             /\ attempt'[t].pc = attempt[t].pc /\ attempt'[t].private = attempt[t].private
             /\ attempt'[t].account = attempt[t].account
             /\ attempt'[t].lag \in {attempt[t].lag, attempt[t].lag + 1}
  <2>1. attempt[t] \in AttemptType
    BY <1>1
  <2>2. CASE attempt[t].pc \in {"arriving", "failing"}
    <3> DEFINE lag == attempt[t].lag + 1
    <3>1. attempt'[t] = [attempt[t] EXCEPT !.lag = lag] /\ attempt[t].lag < MaxLag
      BY <2>1, <2>2 DEF LoginTick, AttemptType
    <3>2. lag \in 0 .. MaxLag
      BY <1>1, <2>1, <3>1 DEF AttemptType
    <3> HIDE DEF lag
    <3>3. /\ attempt'[t] \in AttemptType
          /\ attempt'[t].pc = attempt[t].pc /\ attempt'[t].private = attempt[t].private
          /\ attempt'[t].account = attempt[t].account /\ attempt'[t].lag = lag
      BY <2>1, <3>1, <3>2 DEF AttemptType
    <3> QED
      BY <3>3 DEF lag
  <2>3. CASE attempt[t].pc \notin {"arriving", "failing"}
    <3>1. attempt'[t] = attempt[t]
      BY <2>3 DEF LoginTick
    <3> QED
      BY <2>1, <3>1
  <2> QED
    BY <2>2, <2>3
<1>3. attempt' = [t \in Threads |-> attempt'[t]]
  BY DEF LoginTick
<1> QED
  BY <1>2, <1>3

LEMMA LoginTickAccounts ==
  ASSUME LoginInv, LoginTick, NEW u \in Accounts
  PROVE  AccountRight(u)'
<1>1. LoginTyped
  BY LoginTypes DEF LoginInv
<1> DEFINE ages == guessed[u]
           bucket == accountFailures[u]
           later == Older(ages, AccountWindow)
           older == Older(bucket, AccountWindow)
           left == Pruned(later, AccountWindow, 0)
           T == Ages(AccountWindow)
<1>2. accountFailures'[u] = older /\ guessed'[u] = left
  BY <1>1 DEF LoginTick, LoginTyped, Aged
<1>3. ages \in Seq(T) /\ bucket \in Seq(T)
  BY <1>1 DEF LoginTyped
<1>4. /\ AccountWindow \in Nat /\ 0 \in Nat /\ T \subseteq Nat /\ T = 0 .. Oldest(AccountWindow)
  BY LoginConstants DEF Ages
<1>5. Follows(ages, bucket, AccountWindow)
  BY DEF LoginInv, AccountsInv
<1> HIDE DEF T, ages, bucket
<1>6. /\ older \in Seq(T) /\ Len(older) = Len(bucket)
  BY <1>3, <1>4, OlderFacts
<1>7. /\ later \in Seq(T) /\ Len(later) = Len(ages)
      /\ \A i \in 1 .. Len(ages) : later[i] = Later(ages[i], AccountWindow)
  BY <1>3, <1>4, OlderFacts
<1>8. Follows(later, older, AccountWindow)
  BY <1>3, <1>4, <1>5, <1>7, FollowsLater
<1>9. left \in Seq(T)
  BY <1>4, <1>7, PrunedIsShorter
<1> HIDE DEF later, older
<1>10. later \in Seq(Nat) /\ older \in Seq(Nat)
  BY <1>4, <1>6, <1>7, SeqMonotonic
<1>11. PICK d \in 0 .. Len(later) :
         /\ Len(left) = Len(later) - d
         /\ \A i \in 1 .. Len(later) - d : left[i] = later[i + d]
  BY <1>4, <1>10, PrunedFacts
<1> HIDE DEF left
<1>12. Follows(left, older, AccountWindow)
  BY <1>4, <1>8, <1>10, <1>11, FollowsCut
<1>13. Pending(u)' = Pending(u)
  BY TickedAttempts DEF Pending
<1>14. Len(bucket) + Cardinality(Pending(u)) <= AccountMaxFailures - 1 + Cardinality(Threads)
  BY DEF LoginInv, AccountsInv, bucket
<1> QED
  BY <1>2, <1>6, <1>9, <1>12, <1>13, <1>14 DEF AccountRight, T

-----------------------------------------------------------------------------
\* The steps of logins, for what they do to addresses.

AddressRight(a) ==
    /\ ipAttempts[a] \in Seq(Ages(IpWindow)) /\ Len(ipAttempts[a]) <= IpMaxAttempts
    /\ tested[a] \in Seq(Tests)
    /\ Follows(Readings(tested[a]), ipAttempts[a], IpWindow)
    /\ InTurn(tested[a])

LEMMA AppendedTest ==
  ASSUME NEW tests \in Seq(Tests), NEW x \in Tests, x.age = 0, InTurn(tests),
         \A i \in 1 .. Len(tests) : tests[i].thread = x.thread => x.lag <= tests[i].age
  PROVE  /\ Append(tests, x) \in Seq(Tests) /\ InTurn(Append(tests, x))
         /\ Readings(Append(tests, x)) = Append(Readings(tests), x.lag)
<1> DEFINE A == Append(tests, x)
           n == Len(tests)
           R == Readings(tests)
<1>1. n \in Nat /\ x.lag \in Nat
  BY LenProperties, LagAssumption DEF Tests
<1>2. A \in Seq(Tests) /\ Len(A) = n + 1 /\ A[n + 1] = x /\ \A i \in 1 .. n : A[i] = tests[i]
  BY AppendProperties
<1>3. \A i \in 1 .. n : tests[i].age \in Nat /\ tests[i].lag \in Nat
  BY TestFields
<1>4. R \in Seq(Nat) /\ Len(R) = n /\ \A i \in 1 .. n : R[i] = tests[i].age + tests[i].lag
  BY ReadingsFacts
<1>5. /\ Readings(A) \in Seq(Nat) /\ Len(Readings(A)) = n + 1
      /\ \A i \in 1 .. n + 1 : Readings(A)[i] = A[i].age + A[i].lag
  BY <1>2, ReadingsFacts
<1>6. /\ Append(R, x.lag) \in Seq(Nat) /\ Len(Append(R, x.lag)) = n + 1
      /\ Append(R, x.lag)[n + 1] = x.lag /\ \A i \in 1 .. n : Append(R, x.lag)[i] = R[i]
  BY <1>1, <1>4, AppendProperties
<1>7. \A i, k \in 1 .. n : i < k =>
        /\ tests[k].age <= tests[i].age
        /\ tests[k].thread = tests[i].thread => tests[k].age + tests[k].lag <= tests[i].age
  BY DEF InTurn
<1>8. \A i \in 1 .. n : tests[i].thread = x.thread => x.lag <= tests[i].age
  OBVIOUS
<1> HIDE DEF A, n, R
<1>9. Readings(A) = Append(R, x.lag)
  <2>1. ASSUME NEW i \in 1 .. n + 1
        PROVE  Readings(A)[i] = Append(R, x.lag)[i]
    <3>1. CASE i = n + 1
      BY <1>1, <1>2, <1>5, <1>6, <3>1
    <3>2. CASE i # n + 1
      <4>1. i \in 1 .. n
        BY <1>1, <3>2
      <4> QED
        BY <1>2, <1>4, <1>5, <1>6, <4>1
    <3> QED
      BY <3>1, <3>2
  <2> QED
    BY <1>5, <1>6, <2>1, SeqEqual
<1>10. InTurn(A)
  <2> SUFFICES ASSUME NEW i \in 1 .. n + 1, NEW k \in 1 .. n + 1, i < k
               PROVE  /\ A[k].age <= A[i].age
                      /\ A[k].thread = A[i].thread => A[k].age + A[k].lag <= A[i].age
    BY <1>2 DEF InTurn
  <2>1. i \in 1 .. n
    BY <1>1
  <2>2. CASE k = n + 1
    BY <1>1, <1>2, <1>3, <1>8, <2>1, <2>2
  <2>3. CASE k # n + 1
    <3>1. k \in 1 .. n
      BY <1>1, <2>3
    <3> QED
      BY <1>2, <1>7, <2>1, <3>1
  <2> QED
    BY <2>2, <2>3
<1> QED
  BY <1>2, <1>9, <1>10 DEF A, R

\* An address that no step touches.
LEMMA AddressUntouched ==
  ASSUME LoginInv, NEW a \in Addresses, ipAttempts'[a] = ipAttempts[a], tested'[a] = tested[a]
  PROVE  AddressRight(a)'
<1>1. LoginTyped
  BY LoginTypes DEF LoginInv
<1>2. AddressRight(a)
  BY <1>1 DEF AddressRight, LoginTyped, LoginInv, AddressesInv
<1> QED
  BY <1>2 DEF AddressRight

\* An attempt that is let in is below the limit of its address.
LEMMA CountedTest ==
  ASSUME LoginInv, NEW t \in Threads, BeginAttempt(t), ~attempt[t].private, ~IpBlocked(t)
  PROVE  /\ \A a \in Addresses : AddressRight(a)'
         /\ \A s \in Threads : Fresh(s)'
<1> DEFINE address == attempt[t].address
           lag == attempt[t].lag
           entries == IpEntries(t)
           x == [thread |-> t, age |-> 0, lag |-> lag]
<1>1. LoginTyped
  BY LoginTypes DEF LoginInv
<1>2. /\ attempt[t].pc = "arriving"
      /\ ipAttempts' = [ipAttempts EXCEPT ![address] = Append(entries, lag)]
      /\ tested' = [tested EXCEPT ![address] = Append(@, x)]
      /\ attempt' = [attempt EXCEPT ![t] = IF AccountBlocked(t) THEN NoAttempt
                                           ELSE [@ EXCEPT !.pc = "verifying", !.lag = 0]]
  BY DEF BeginAttempt, RecordAttempt
<1>3. /\ address \in Addresses /\ lag \in 0 .. MaxLag /\ attempt[t] \in AttemptType
      /\ entries \in Seq(Ages(IpWindow)) /\ Len(entries) \in Nat
      /\ Follows(Readings(tested[address]), entries, IpWindow)
  BY EntriesFacts DEF AttemptType
<1>4. IpWindow \in Nat \ {0} /\ IpMaxAttempts \in Nat /\ MaxLag \in Nat
  BY LoginConstants
<1>5. Len(entries) < IpMaxAttempts
  BY <1>3, <1>4 DEF IpBlocked
<1>6. attempt'[t].pc # "arriving"
  BY <1>1, <1>2, <1>3, NoAttemptIsTyped DEF LoginTyped, AttemptType
<1>7. \A s \in Threads \ {t} : attempt'[s] = attempt[s]
  BY <1>1, <1>2 DEF LoginTyped
<1>8. Fresh(t)
  BY DEF LoginInv, AddressesInv
<1>9. \A i \in 1 .. Len(tested[address]) :
        tested[address][i].thread = t => lag <= tested[address][i].age
  BY <1>2, <1>3, <1>8 DEF Fresh
<1>10. tested[address] \in Seq(Tests) /\ InTurn(tested[address])
  BY <1>1, <1>3 DEF LoginTyped, LoginInv, AddressesInv
<1>11. x \in Tests /\ x.age = 0 /\ x.thread = t /\ x.lag = lag
  BY <1>3, <1>4 DEF Tests
<1>12. /\ ipAttempts'[address] = Append(entries, lag)
       /\ tested'[address] = Append(tested[address], x)
  BY <1>1, <1>2, <1>3 DEF LoginTyped
<1>13. \A a \in Addresses \ {address} :
         ipAttempts'[a] = ipAttempts[a] /\ tested'[a] = tested[a]
  BY <1>1, <1>2 DEF LoginTyped
<1> HIDE DEF address, lag, entries, x
<1>14. /\ Append(tested[address], x) \in Seq(Tests) /\ InTurn(Append(tested[address], x))
       /\ Readings(Append(tested[address], x)) = Append(Readings(tested[address]), lag)
  BY <1>9, <1>10, <1>11, AppendedTest
<1>15. lag \in Ages(IpWindow) /\ lag \in Nat /\ IpWindow \in Nat
  BY <1>3, <1>4 DEF Ages, Oldest
<1>16. entries \in Seq(Nat) /\ Readings(tested[address]) \in Seq(Nat)
  BY <1>3, <1>10, LoginConstants, ReadingsFacts DEF Ages
<1>17. Follows(Append(Readings(tested[address]), lag), Append(entries, lag), IpWindow)
  BY <1>3, <1>15, <1>16, FollowsAppended
<1>18. Append(entries, lag) \in Seq(Ages(IpWindow)) /\ Len(Append(entries, lag)) = Len(entries) + 1
  BY <1>3, <1>15, AppendProperties
<1>19. Len(Append(entries, lag)) <= IpMaxAttempts
  BY <1>3, <1>4, <1>5, <1>18
<1>20. ASSUME NEW a \in Addresses, a = address
       PROVE  AddressRight(a)'
  BY <1>12, <1>14, <1>17, <1>18, <1>19, <1>20 DEF AddressRight
<1>21. ASSUME NEW a \in Addresses, a # address
       PROVE  AddressRight(a)'
  BY <1>13, <1>21, AddressUntouched
<1>22. \A a \in Addresses : AddressRight(a)'
  BY <1>20, <1>21
<1>23. ASSUME NEW s \in Threads, attempt'[s].pc = "arriving", NEW a \in Addresses,
              NEW i \in 1 .. Len(tested'[a]), tested'[a][i].thread = s
       PROVE  attempt'[s].lag <= tested'[a][i].age
  <2>1. s # t /\ attempt'[s] = attempt[s]
    BY <1>6, <1>7, <1>23
  <2>2. \A k \in 1 .. Len(tested[a]) : tested[a][k].thread = s => attempt[s].lag <= tested[a][k].age
    BY <1>23, <2>1 DEF LoginInv, AddressesInv, Fresh
  <2>3. CASE a # address
    BY <1>13, <1>23, <2>1, <2>2, <2>3
  <2>4. CASE a = address
    <3> DEFINE tests == tested[a]
    <3>1. tests \in Seq(Tests) /\ tested'[a] = Append(tests, x)
      BY <1>10, <1>12, <2>4
    <3> HIDE DEF tests
    <3>2. /\ Len(tests) \in Nat /\ Len(Append(tests, x)) = Len(tests) + 1
          /\ Append(tests, x)[Len(tests) + 1] = x
          /\ \A k \in 1 .. Len(tests) : Append(tests, x)[k] = tests[k]
      BY <1>11, <3>1, AppendProperties, LenProperties
    <3>3. i # Len(tests) + 1
      BY <1>11, <1>23, <2>1, <3>1, <3>2
    <3>4. i \in 1 .. Len(tests)
      BY <3>1, <3>2, <3>3
    <3> QED
      BY <1>23, <2>1, <2>2, <3>1, <3>2, <3>4 DEF tests
  <2> QED
    BY <2>3, <2>4
<1> QED
  BY <1>22, <1>23 DEF Fresh

\* A step that counts no attempt.
LEMMA FreshKept ==
  ASSUME LoginInv, NEW t \in Threads, LoginStep(t), tested' = tested,
         attempt'[t].pc = "arriving" => attempt'[t].lag = 0, NEW s \in Threads
  PROVE  Fresh(s)'
<1>1. Fresh(s) /\ LoginTyped
  BY LoginTypes DEF LoginInv, AddressesInv
<1>2. CASE s # t
  <2>1. attempt'[s] = attempt[s]
    BY <1>2, OneAttempt
  <2> QED
    BY <1>1, <2>1 DEF Fresh
<1>3. CASE s = t
  <2>1. ASSUME NEW a \in Addresses, NEW i \in 1 .. Len(tested[a])
        PROVE  0 <= tested[a][i].age
    <3>1. tested[a] \in Seq(Tests)
      BY <1>1 DEF LoginTyped
    <3>2. tested[a][i].age \in Nat
      BY <3>1, TestFields
    <3> QED
      BY <3>2
  <2> QED
    BY <1>3, <2>1 DEF Fresh
<1> QED
  BY <1>2, <1>3

LEMMA LoginStepAddresses ==
  ASSUME LoginInv, NEW t \in Threads, LoginStep(t)
  PROVE  /\ \A a \in Addresses : AddressRight(a)'
         /\ \A s \in Threads : Fresh(s)'
<1>1. LoginTyped /\ attempt[t] \in AttemptType /\ attempt \in [Threads -> AttemptType]
  BY LoginTypes DEF LoginInv, LoginTyped
<1>2. ASSUME UNCHANGED <<ipAttempts, tested>>, attempt'[t].pc = "arriving" => attempt'[t].lag = 0
      PROVE  /\ \A a \in Addresses : AddressRight(a)'
             /\ \A s \in Threads : Fresh(s)'
  BY <1>2, AddressUntouched, FreshKept
<1>3. CASE BuildThrottle(t)
  BY <1>1, <1>2, <1>3 DEF BuildThrottle, AttemptType
<1>4. CASE EndBuilding(t)
  BY <1>1, <1>2, <1>4 DEF EndBuilding
<1>5. CASE Arrive(t)
  BY <1>1, <1>2, <1>5 DEF Arrive
<1>6. CASE BeginAttempt(t)
  <2>1. CASE attempt[t].private
    BY <1>1, <1>2, <1>6, <2>1 DEF BeginAttempt, AttemptType
  <2>2. CASE ~attempt[t].private /\ IpBlocked(t)
    <3> DEFINE address == attempt[t].address
    <3>1. /\ ipAttempts' = [ipAttempts EXCEPT ![address] = IpEntries(t)]
          /\ tested' = tested /\ attempt'[t] = NoAttempt
      BY <1>1, <1>6, <2>2 DEF BeginAttempt
    <3>2. \A s \in Threads : Fresh(s)'
      BY <3>1, FreshKept, NoAttemptIsTyped
    <3>3. /\ address \in Addresses /\ IpEntries(t) \in Seq(Ages(IpWindow))
          /\ Len(IpEntries(t)) <= IpMaxAttempts
          /\ Follows(Readings(tested[address]), IpEntries(t), IpWindow)
      BY EntriesFacts
    <3> HIDE DEF address
    <3>4. /\ ipAttempts'[address] = IpEntries(t)
          /\ \A a \in Addresses \ {address} : ipAttempts'[a] = ipAttempts[a]
      BY <1>1, <3>1, <3>3 DEF LoginTyped
    <3>5. tested[address] \in Seq(Tests) /\ InTurn(tested[address])
      BY <1>1, <3>3 DEF LoginTyped, LoginInv, AddressesInv
    <3>6. ASSUME NEW a \in Addresses, a = address
          PROVE  AddressRight(a)'
      BY <3>1, <3>3, <3>4, <3>5, <3>6 DEF AddressRight
    <3>7. ASSUME NEW a \in Addresses, a # address
          PROVE  AddressRight(a)'
      BY <3>1, <3>4, <3>7, AddressUntouched
    <3> QED
      BY <3>2, <3>6, <3>7
  <2>3. CASE ~attempt[t].private /\ ~IpBlocked(t)
    BY <1>6, <2>3, CountedTest
  <2> QED
    BY <2>1, <2>2, <2>3
<1>7. CASE Fail(t)
  BY <1>1, <1>2, <1>7 DEF Fail, AttemptType
<1>8. CASE RecordFailure(t) \/ RecordSuccess(t) \/ Abandon(t)
  <2>1. UNCHANGED <<ipAttempts, tested>> /\ attempt'[t] = NoAttempt
    BY <1>1, <1>8 DEF RecordFailure, RecordSuccess, Abandon
  <2> QED
    BY <1>2, <2>1, NoAttemptIsTyped
<1> QED
  BY <1>3, <1>4, <1>5, <1>6, <1>7, <1>8 DEF LoginStep

LEMMA LoginTickAddresses ==
  ASSUME LoginInv, LoginTick
  PROVE  /\ \A a \in Addresses : AddressRight(a)'
         /\ \A s \in Threads : Fresh(s)'
<1>1. LoginTyped
  BY LoginTypes DEF LoginInv
<1>2. /\ \A a \in Addresses : ipAttempts'[a] = Older(ipAttempts[a], IpWindow)
      /\ \A a \in Addresses : tested'[a] = OlderTests(tested[a])
  BY <1>1 DEF LoginTick, LoginTyped, Aged
<1>3. IpWindow \in Nat
  BY LoginConstants
<1>4. ASSUME NEW a \in Addresses
      PROVE  AddressRight(a)' /\ tested[a] \in Seq(Tests) /\
             \A i \in 1 .. Len(tested'[a]) : \E k \in 1 .. Len(tested[a]) :
               /\ tested'[a][i].thread = tested[a][k].thread
               /\ tested'[a][i].age = tested[a][k].age + 1
  <2> DEFINE bucket == ipAttempts[a]
             tests == tested[a]
  <2>1. /\ bucket \in Seq(Ages(IpWindow)) /\ Len(bucket) <= IpMaxAttempts
        /\ tests \in Seq(Tests)
        /\ Follows(Readings(tests), bucket, IpWindow) /\ InTurn(tests)
    BY <1>1 DEF LoginTyped, LoginInv, AddressesInv
  <2>2. ipAttempts'[a] = Older(bucket, IpWindow) /\ tested'[a] = OlderTests(tests)
    BY <1>2
  <2> HIDE DEF bucket, tests
  <2>3. /\ OlderTests(tests) \in Seq(Tests) /\ InTurn(OlderTests(tests))
        /\ Follows(Readings(OlderTests(tests)), Older(bucket, IpWindow), IpWindow)
        /\ \A i \in 1 .. Len(OlderTests(tests)) : \E k \in 1 .. Len(tests) :
             /\ OlderTests(tests)[i].thread = tests[k].thread
             /\ OlderTests(tests)[i].age = tests[k].age + 1
    BY <2>1, OlderTestsFacts DEF Ages
  <2>4. Older(bucket, IpWindow) \in Seq(Ages(IpWindow)) /\ Len(Older(bucket, IpWindow)) = Len(bucket)
    BY <1>3, <2>1, OlderFacts DEF Ages
  <2>5. AddressRight(a)'
    BY <2>1, <2>2, <2>3, <2>4 DEF AddressRight
  <2> QED
    BY <2>1, <2>2, <2>3, <2>5 DEF tests
<1>5. ASSUME NEW s \in Threads, attempt'[s].pc = "arriving", NEW a \in Addresses,
             NEW i \in 1 .. Len(tested'[a]), tested'[a][i].thread = s
      PROVE  attempt'[s].lag <= tested'[a][i].age
  <2>1. PICK k \in 1 .. Len(tested[a]) :
          tested'[a][i].thread = tested[a][k].thread /\ tested'[a][i].age = tested[a][k].age + 1
    BY <1>4
  <2>2. /\ attempt[s].pc = "arriving"
        /\ attempt'[s].lag \in {attempt[s].lag, attempt[s].lag + 1}
    BY <1>5, TickedAttempts
  <2>3. attempt[s].lag <= tested[a][k].age
    BY <1>5, <2>1, <2>2 DEF LoginInv, AddressesInv, Fresh
  <2>4. tested[a][k].age \in Nat /\ attempt[s].lag \in Nat
    BY <1>4, TestFields, EntriesFacts
  <2> QED
    BY <2>1, <2>2, <2>3, <2>4
<1> QED
  BY <1>4, <1>5 DEF Fresh

-----------------------------------------------------------------------------
\* The threads that build a throttle.

LEMMA LoginStepBuilders ==
  ASSUME LoginInv, NEW t \in Threads, LoginStep(t)
  PROVE  BuildersInv' /\ built' \in BOOLEAN /\ unseen' \in Nat
<1>1. LoginTyped /\ BuildersInv /\ attempt[t] \in AttemptType
  BY LoginTypes DEF LoginInv, LoginTyped
<1>2. attempt' \in [Threads -> AttemptType] /\ \A s \in Threads \ {t} : attempt'[s] = attempt[s]
  BY OneAttempt
<1>3. Building \in SUBSET Threads /\ Building' \in SUBSET Threads
  BY DEF Building
<1> DEFINE before == Cardinality(Building)
           after == Cardinality(Building')
           threads == Cardinality(Threads)
<1>4. /\ before \in Nat /\ before <= threads /\ after \in Nat
      /\ threads \in Nat /\ unseen \in Nat /\ built \in BOOLEAN
  BY <1>1, <1>3, ThreadsCount, LoginConstants DEF LoginTyped
<1>5. CASE BuildThrottle(t)
  <2>1. built = FALSE /\ UNCHANGED <<built, unseen>>
    BY <1>4, <1>5 DEF BuildThrottle
  <2> QED
    BY <1>1, <1>4, <2>1 DEF BuildersInv
<1>6. CASE EndBuilding(t)
  <2>1. /\ attempt[t].pc = "building" /\ attempt'[t].pc = "arriving" /\ built' = TRUE
        /\ unseen' = IF built THEN unseen + 1 ELSE unseen
    BY <1>1, <1>6 DEF EndBuilding, LoginTyped
  <2>2. t \in Building /\ Building' \subseteq Building \ {t}
    BY <1>2, <2>1 DEF Building
  <2>3. Cardinality(Building \ {t}) = before - 1 /\ Building \ {t} \in SUBSET Threads
    BY <1>3, <2>2, ThreadsCount
  <2>4. after <= Cardinality(Building \ {t})
    BY <2>2, <2>3, ThreadsCount
  <2>5. IF built THEN unseen + before < threads ELSE unseen = 0
    BY <1>1 DEF BuildersInv
  <2> HIDE DEF before, after, threads
  <2>6. unseen' + after < threads /\ unseen' \in Nat
    BY <1>4, <2>1, <2>3, <2>4, <2>5
  <2> QED
    BY <2>1, <2>6 DEF BuildersInv, after, threads
<1>7. CASE ~BuildThrottle(t) /\ ~EndBuilding(t)
  <2>1. UNCHANGED <<built, unseen>>
    BY <1>7 DEF LoginStep, Arrive, BeginAttempt, Fail, RecordFailure, RecordSuccess, Abandon
  <2>2. attempt'[t].pc # "building"
    <3>1. attempt \in [Threads -> AttemptType]
      BY <1>1 DEF LoginTyped
    <3>2. CASE Arrive(t)
      BY <3>1, <3>2 DEF Arrive
    <3>3. CASE BeginAttempt(t)
      <4> DEFINE r == [attempt[t] EXCEPT !.pc = "verifying", !.lag = 0]
      <4>1. attempt'[t] = r \/ attempt'[t] = NoAttempt
        BY <3>1, <3>3 DEF BeginAttempt
      <4>2. r.pc = "verifying"
        BY <1>1 DEF AttemptType
      <4> HIDE DEF r
      <4> QED
        BY <4>1, <4>2, NoAttemptIsTyped
    <3>4. CASE Fail(t)
      BY <1>1, <3>1, <3>4 DEF Fail, AttemptType
    <3>5. CASE RecordFailure(t) \/ RecordSuccess(t) \/ Abandon(t)
      BY <3>1, <3>5, NoAttemptIsTyped DEF RecordFailure, RecordSuccess, Abandon
    <3> QED
      BY <1>7, <3>2, <3>3, <3>4, <3>5 DEF LoginStep
  <2>3. Building' \subseteq Building
    BY <1>2, <2>2 DEF Building
  <2>4. after <= before
    BY <1>3, <2>3, ThreadsCount
  <2>5. IF built THEN unseen + before < threads ELSE unseen = 0
    BY <1>1 DEF BuildersInv
  <2> HIDE DEF before, after, threads
  <2>6. IF built' THEN unseen' + after < threads ELSE unseen' = 0
    BY <1>4, <2>1, <2>4, <2>5
  <2> QED
    BY <1>4, <2>1, <2>6 DEF BuildersInv, after, threads
<1> QED
  BY <1>5, <1>6, <1>7

-----------------------------------------------------------------------------
\* The theorems about the login throttle.

\* What the steps establish, account by account and address by address, is the invariant.
LEMMA LoginInvNext ==
  ASSUME \A u \in Accounts : AccountRight(u)', \A a \in Addresses : AddressRight(a)',
         \A t \in Threads : Fresh(t)', BuildersInv', built' \in BOOLEAN, unseen' \in Nat,
         attempt' \in [Threads -> AttemptType],
         ipAttempts' = [a \in Addresses |-> ipAttempts'[a]],
         tested' = [a \in Addresses |-> tested'[a]],
         accountFailures' = [u \in Accounts |-> accountFailures'[u]],
         guessed' = [u \in Accounts |-> guessed'[u]]
  PROVE  LoginInv'
<1>1. ASSUME NEW u \in Accounts
      PROVE  Len(accountFailures'[u]) <= AccountMaxFailures + Cardinality(Threads)
  <2> DEFINE n == Len(accountFailures'[u])
             pending == Cardinality(Pending(u)')
             threads == Cardinality(Threads)
  <2>1. n + pending <= AccountMaxFailures - 1 + threads
    BY DEF AccountRight
  <2>2. accountFailures'[u] \in Seq(Ages(AccountWindow))
    BY DEF AccountRight
  <2>3. n \in Nat
    BY <2>2, LenProperties
  <2>4. pending \in Nat
    <3>1. Pending(u)' \in SUBSET Threads
      BY DEF Pending
    <3> QED
      BY <3>1, ThreadsCount
  <2>5. threads \in Nat /\ AccountMaxFailures \in Nat
    BY LoginConstants
  <2> HIDE DEF n, pending, threads
  <2>6. n <= AccountMaxFailures + threads
    BY <2>1, <2>3, <2>4, <2>5
  <2> QED
    BY <2>6 DEF n, threads
<1>2. /\ ipAttempts' \in [Addresses -> Seq(Ages(IpWindow))]
      /\ tested' \in [Addresses -> Seq(Tests)]
      /\ \A a \in Addresses : Len(ipAttempts'[a]) <= IpMaxAttempts
  BY DEF AddressRight
<1>3. /\ accountFailures' \in [Accounts -> Seq(Ages(AccountWindow))]
      /\ guessed' \in [Accounts -> Seq(Ages(AccountWindow))]
  BY DEF AccountRight
<1>4. LoginTypeOK'
  BY <1>1, <1>2, <1>3, LoginTypesNext DEF LoginTyped
<1>5. AccountsInv'
  BY DEF AccountsInv, AccountRight
<1>6. AddressesInv'
  BY DEF AddressesInv, AddressRight
<1> QED
  BY <1>4, <1>5, <1>6 DEF LoginInv

LEMMA LoginStepKeeps ==
  ASSUME LoginInv, NEW t \in Threads, LoginStep(t)
  PROVE  LoginInv'
<1>1. LoginTyped /\ attempt[t] \in AttemptType
  BY LoginTypes DEF LoginInv, LoginTyped
<1>2. /\ ipAttempts' = [a \in Addresses |-> ipAttempts'[a]]
      /\ tested' = [a \in Addresses |-> tested'[a]]
      /\ accountFailures' = [u \in Accounts |-> accountFailures'[u]]
      /\ guessed' = [u \in Accounts |-> guessed'[u]]
  BY <1>1 DEF LoginTyped, LoginStep, BuildThrottle, EndBuilding, Arrive, BeginAttempt,
              RecordAttempt, Fail, RecordFailure, RecordSuccess, Abandon
<1>3. attempt' \in [Threads -> AttemptType]
  BY OneAttempt
<1>4. \A u \in Accounts : AccountRight(u)'
  BY LoginStepAccounts
<1>5. /\ \A a \in Addresses : AddressRight(a)'
      /\ \A s \in Threads : Fresh(s)'
  BY LoginStepAddresses
<1>6. BuildersInv' /\ built' \in BOOLEAN /\ unseen' \in Nat
  BY LoginStepBuilders
<1> QED
  BY <1>2, <1>3, <1>4, <1>5, <1>6, LoginInvNext

LEMMA LoginTickKeeps ==
  ASSUME LoginInv, LoginTick
  PROVE  LoginInv'
<1>1. LoginTyped /\ BuildersInv
  BY LoginTypes DEF LoginInv
<1>2. /\ ipAttempts' = [a \in Addresses |-> ipAttempts'[a]]
      /\ tested' = [a \in Addresses |-> tested'[a]]
      /\ accountFailures' = [u \in Accounts |-> accountFailures'[u]]
      /\ guessed' = [u \in Accounts |-> guessed'[u]]
  BY <1>1 DEF LoginTyped, LoginTick, Aged
<1>3. attempt' \in [Threads -> AttemptType]
  BY TickedAttempts
<1>4. \A u \in Accounts : AccountRight(u)'
  BY LoginTickAccounts
<1>5. /\ \A a \in Addresses : AddressRight(a)'
      /\ \A s \in Threads : Fresh(s)'
  BY LoginTickAddresses
<1>6. BuildersInv' /\ built' \in BOOLEAN /\ unseen' \in Nat
  <2>1. UNCHANGED <<built, unseen>>
    BY DEF LoginTick
  <2>2. Building' = Building
    BY TickedAttempts DEF Building
  <2> QED
    BY <1>1, <2>1, <2>2 DEF BuildersInv, LoginTyped
<1> QED
  BY <1>2, <1>3, <1>4, <1>5, <1>6, LoginInvNext

LEMMA LoginBegins ==
  ASSUME LoginInit
  PROVE  LoginInv
<1>1. /\ ipAttempts = [a \in Addresses |-> <<>>] /\ accountFailures = [u \in Accounts |-> <<>>]
      /\ tested = [a \in Addresses |-> <<>>] /\ guessed = [u \in Accounts |-> <<>>]
      /\ built = FALSE /\ unseen = 0 /\ attempt = [t \in Threads |-> NoAttempt]
  BY DEF LoginInit, Empty
<1>2. /\ <<>> \in Seq(Ages(IpWindow)) /\ <<>> \in Seq(Ages(AccountWindow)) /\ <<>> \in Seq(Tests)
      /\ Len(<<>>) = 0
  BY EmptySeq
<1>3. LoginTypeOK
  <2>1. /\ IpMaxAttempts \in Nat /\ AccountMaxFailures + Cardinality(Threads) \in Nat
        /\ 0 <= IpMaxAttempts /\ 0 <= AccountMaxFailures + Cardinality(Threads)
    BY LoginConstants
  <2>2. attempt \in [Threads -> AttemptType]
    BY <1>1, NoAttemptIsTyped
  <2>3. /\ ipAttempts \in [Addresses -> Seq(Ages(IpWindow))]
        /\ \A a \in Addresses : Len(ipAttempts[a]) <= IpMaxAttempts
        /\ tested \in [Addresses -> Seq(Tests)]
    BY <1>1, <1>2, <2>1
  <2>4. /\ accountFailures \in [Accounts -> Seq(Ages(AccountWindow))]
        /\ guessed \in [Accounts -> Seq(Ages(AccountWindow))]
        /\ \A u \in Accounts :
             Len(accountFailures[u]) <= AccountMaxFailures + Cardinality(Threads)
    BY <1>1, <1>2, <2>1
  <2> QED
    BY <1>1, <2>2, <2>3, <2>4, LoginTypes DEF LoginTyped
<1>4. AccountsInv
  <2> SUFFICES ASSUME NEW u \in Accounts
               PROVE  /\ Follows(guessed[u], accountFailures[u], AccountWindow)
                      /\ Len(accountFailures[u]) + Cardinality(Pending(u))
                           <= AccountMaxFailures - 1 + Cardinality(Threads)
    BY DEF AccountsInv
  <2>1. Pending(u) \in SUBSET Threads
    BY DEF Pending
  <2>2. Cardinality(Pending(u)) \in Nat /\ Cardinality(Pending(u)) <= Cardinality(Threads)
    BY <2>1, ThreadsCount
  <2>3. Len(accountFailures[u]) = 0
    BY <1>1, <1>2
  <2>4. Len(accountFailures[u]) + Cardinality(Pending(u))
          <= AccountMaxFailures - 1 + Cardinality(Threads)
    BY <2>2, <2>3, LoginConstants
  <2>5. Follows(guessed[u], accountFailures[u], AccountWindow)
    BY <1>1, <1>2 DEF Follows
  <2> QED
    BY <2>4, <2>5
<1>5. AddressesInv
  <2>1. Readings(<<>>) \in Seq(Nat) /\ Len(Readings(<<>>)) = 0
    BY <1>2, ReadingsFacts
  <2>2. \A a \in Addresses : Follows(Readings(tested[a]), ipAttempts[a], IpWindow)
    BY <1>1, <1>2, <2>1 DEF Follows
  <2>3. \A a \in Addresses : InTurn(tested[a])
    BY <1>1, <1>2 DEF InTurn
  <2>4. \A t \in Threads : Fresh(t)
    BY <1>1, NoAttemptIsTyped DEF Fresh
  <2> QED
    BY <2>2, <2>3, <2>4 DEF AddressesInv
<1>6. BuildersInv
  BY <1>1 DEF BuildersInv
<1> QED
  BY <1>3, <1>4, <1>5, <1>6 DEF LoginInv

LEMMA LoginInvariance == ThrottlesSpec => []LoginInv
<1>1. ThrottlesInit => LoginInv
  BY LoginBegins DEF ThrottlesInit
<1>2. LoginInv /\ [ThrottlesNext]_throttles => LoginInv'
  <2> SUFFICES ASSUME LoginInv, [ThrottlesNext]_throttles
               PROVE  LoginInv'
    OBVIOUS
  <2>1. CASE UNCHANGED login
    BY <2>1 DEF login, LoginInv, LoginTypeOK, AccountsInv, AddressesInv, BuildersInv,
                Building, Pending, Fresh
  <2>2. CASE LoginTick
    BY <2>2, LoginTickKeeps
  <2>3. CASE \E t \in Threads : LoginStep(t)
    BY <2>3, LoginStepKeeps
  <2> QED
    BY <2>1, <2>2, <2>3 DEF ThrottlesNext, throttles
<1> QED
  BY <1>1, <1>2, PTL DEF ThrottlesSpec

\* However begin_attempt and record_failure of the threads interleave, the wrong passwords
\* tried on an account within its window exceed the limit by the attempts that were being
\* verified when it was reached, one for each of the other threads at most.
THEOREM GuessesHold == ThrottlesSpec => []GuessesAreLimited
<1>1. LoginInv => GuessesAreLimited
  <2> SUFFICES ASSUME LoginInv, NEW u \in Accounts
               PROVE  Cardinality({i \in DOMAIN guessed[u] : guessed[u][i] < AccountWindow})
                      + Cardinality({t \in Pending(u) : /\ attempt[t].pc = "failing"
                                                        /\ attempt[t].lag < AccountWindow})
                        <= AccountMaxFailures - 1 + Cardinality(Threads)
    BY DEF GuessesAreLimited
  <2> DEFINE recent == {i \in 1 .. Len(guessed[u]) : guessed[u][i] < AccountWindow}
             failing == {t \in Pending(u) : /\ attempt[t].pc = "failing"
                                            /\ attempt[t].lag < AccountWindow}
  <2>1. LoginTyped
    BY LoginTypes DEF LoginInv
  <2>2. guessed[u] \in Seq(Ages(AccountWindow)) /\ accountFailures[u] \in Seq(Ages(AccountWindow))
    BY <2>1 DEF LoginTyped
  <2>3. /\ guessed[u] \in Seq(Nat) /\ accountFailures[u] \in Seq(Nat) /\ AccountWindow \in Nat
        /\ DOMAIN guessed[u] = 1 .. Len(guessed[u]) /\ Len(accountFailures[u]) \in Nat
    BY <2>2, LoginConstants, LenProperties DEF Ages
  <2>4. /\ Follows(guessed[u], accountFailures[u], AccountWindow)
        /\ Len(accountFailures[u]) + Cardinality(Pending(u))
             <= AccountMaxFailures - 1 + Cardinality(Threads)
    BY DEF LoginInv, AccountsInv
  <2>5. Cardinality(recent) <= Len(accountFailures[u]) /\ Cardinality(recent) \in Nat
    BY <2>3, <2>4, FollowsCount
  <2>6. /\ Cardinality(failing) <= Cardinality(Pending(u)) /\ Cardinality(failing) \in Nat
        /\ Cardinality(Pending(u)) \in Nat
    <3>1. Pending(u) \in SUBSET Threads /\ failing \in SUBSET Pending(u)
      BY DEF Pending
    <3> HIDE DEF failing
    <3> QED
      BY <3>1, ThreadsCount
  <2>7. AccountMaxFailures \in Nat /\ Cardinality(Threads) \in Nat
    BY LoginConstants
  <2>8. {i \in DOMAIN guessed[u] : guessed[u][i] < AccountWindow} = recent
    BY <2>3
  <2> DEFINE many == Cardinality(recent)
             some == Cardinality(failing)
             pending == Cardinality(Pending(u))
             stored == Len(accountFailures[u])
             threads == Cardinality(Threads)
  <2>9. many + some <= AccountMaxFailures - 1 + threads
    <3>1. /\ many \in Nat /\ some \in Nat /\ pending \in Nat /\ stored \in Nat /\ threads \in Nat
          /\ many <= stored /\ some <= pending /\ stored + pending <= AccountMaxFailures - 1 + threads
      BY <2>3, <2>4, <2>5, <2>6, <2>7
    <3> HIDE DEF many, some, pending, stored, threads
    <3> QED
      BY <2>7, <3>1
  <2> QED
    BY <2>8, <2>9
<1> QED
  BY <1>1, LoginInvariance, PTL

\* "Count every login submission that reaches this stage": within its window an address has
\* its limit and at most one attempt more from each thread, and fewer attempts than there
\* are threads use a throttle that get_login_throttle built twice.
THEOREM AttemptsHold == ThrottlesSpec => []AttemptsAreLimited
<1>1. LoginInv => AttemptsAreLimited
  <2> SUFFICES ASSUME LoginInv
               PROVE  AttemptsAreLimited
    OBVIOUS
  <2>1. LoginTyped /\ LoginTypeOK
    BY LoginTypes DEF LoginInv
  <2>2. unseen < Cardinality(Threads)
    <3>1. Building \in SUBSET Threads
      BY DEF Building
    <3>2. Cardinality(Building) \in Nat
      BY <3>1, ThreadsCount
    <3>3. IF built THEN unseen + Cardinality(Building) < Cardinality(Threads) ELSE unseen = 0
      BY DEF LoginInv, BuildersInv
    <3>4. unseen \in Nat /\ Cardinality(Threads) \in Nat \ {0}
      BY <2>1, LoginConstants DEF LoginTyped
    <3> QED
      BY <3>2, <3>3, <3>4
  <2>3. ASSUME NEW a \in Addresses
        PROVE  Len(tested[a]) <= IpMaxAttempts + Cardinality(Threads)
    <3>1. /\ tested[a] \in Seq(Tests) /\ InTurn(tested[a])
          /\ ipAttempts[a] \in Seq(Ages(IpWindow)) /\ Len(ipAttempts[a]) <= IpMaxAttempts
          /\ Follows(Readings(tested[a]), ipAttempts[a], IpWindow)
      BY <2>1 DEF LoginTyped, LoginInv, AddressesInv
    <3>2. ipAttempts[a] \in Seq(Nat)
      BY <3>1, LoginConstants DEF Ages
    <3> DEFINE n == Len(tested[a])
               m == Len(ipAttempts[a])
               threads == Cardinality(Threads)
    <3>3. n <= m + threads
      BY <3>1, <3>2, TestsCount
    <3>4. n \in Nat /\ m \in Nat /\ m <= IpMaxAttempts /\ threads \in Nat /\ IpMaxAttempts \in Nat
      BY <3>1, LenProperties, LoginConstants
    <3> HIDE DEF n, m, threads
    <3>5. n <= IpMaxAttempts + threads
      BY <3>3, <3>4
    <3> QED
      BY <3>5 DEF n, threads
  <2> QED
    BY <2>1, <2>2, <2>3 DEF AttemptsAreLimited
<1> QED
  BY <1>1, LoginInvariance, PTL
=============================================================================
