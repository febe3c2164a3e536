----------------------- MODULE TaskReconciliationProofs -----------------------
(***************************************************************************)
(* Proofs about TaskReconciliation, for any number of tasks, reconcilers,  *)
(* tokens and ticks.                                                       *)
(*                                                                         *)
(* That SUCCEEDED implies an applied effect and FAILED a deleted incident  *)
(* rests on what a reconciler remembers between its steps (Remembered): in *)
(* phase "done" its transaction has committed, in phase "missing" it has   *)
(* seen that the incident is gone, and neither is ever undone.             *)
(*                                                                         *)
(* That an effect is committed again only after an interruption rests on   *)
(* what holds until then (Uninterrupted): whoever works on a task owns it, *)
(* under a lease that runs, and once the effect is committed nobody is     *)
(* left to do anything but mark it.                                        *)
(***************************************************************************)
EXTENDS TaskReconciliation, TLAPS

Remembered ==
    \A w \in Reconcilers, t \in Tasks :
      Current(w, t) =>
        /\ rec[w].pc = "done" => completions[t] > 0
        /\ rec[w].pc = "missing" => t \in gone

\* A reconciler works only on tasks that exist.
Listed ==
    \A w \in Reconcilers, t \in Tasks :
      t \in rec[w].batch => exec[t].status # "ABSENT"

CommittedWereAccepted ==
    \A t \in Tasks : completions[t] > 0 => exec[t].status # "ABSENT"

\* The tasks in progress are those with a token, and whoever has a candidate in
\* hand beyond the scan holds one.
TokensHeld ==
    /\ \A t \in Tasks : exec[t].token # None <=> exec[t].status = "PROCESSING"
    /\ \A w \in Reconcilers :
         rec[w].pc \in {"idle", "scanning"} <=> rec[w].token = None

\* No two reconcilers hold the same token.
TokensDiffer ==
    \A v, w \in Reconcilers :
      rec[v].token = rec[w].token /\ rec[v].token # None => v = w

\* Between its claim and its mark.
Working(w, t) == Current(w, t) /\ rec[w].pc \notin {"idle", "scanning"}

Uninterrupted ==
    \A t \in Tasks \ interrupted :
      /\ exec[t].status = "PROCESSING" => exec[t].lease > 0
      /\ \A w \in Reconcilers : Working(w, t) => Owns(w, t)
      /\ completions[t] < 2
      /\ completions[t] = 1 =>
           /\ exec[t].status \in {"PROCESSING", "SUCCEEDED"}
           /\ \A w \in Reconcilers : Working(w, t) => rec[w].pc = "done"

IInv ==
    /\ TypeOK
    /\ Remembered
    /\ Listed
    /\ CommittedWereAccepted
    /\ SucceededWasApplied
    /\ FailedOnlyIfDeleted
    /\ TokensHeld
    /\ TokensDiffer
    /\ Uninterrupted

-----------------------------------------------------------------------------
\* A reconciler has at most one current candidate.
LEMMA CurrentUnique ==
  ASSUME TypeOK, NEW w \in Reconcilers, NEW t \in Tasks, NEW u \in Tasks,
         Current(w, t), Current(w, u)
  PROVE  t = u
  BY TasksAssumption DEF Current

\* list_reconcilable returns tasks that are READY or PROCESSING.
LEMMA CandidatesExist ==
  Candidates \subseteq {t \in Tasks : exec[t].status \in {"READY", "PROCESSING"}}
  BY DEF Candidates, Oldest, HavingStatus

\* Recording a completion never takes it back and keeps the count in range.
LEMMA RecordedType == \A n \in 0..2 : Recorded(n) \in 1..2 /\ (n = 0 => Recorded(n) = 1)
  BY DEF Recorded

\* Every variable keeps its type.
LEMMA TypeInvariant == ASSUME TypeOK, [Next]_vars PROVE TypeOK'
<1> USE TokensAssumption, LeaseAssumption
<1> USE DEF TypeOK, Status, Phases
<1>1. ASSUME NEW t \in Tasks, Accept(t)
      PROVE  TypeOK'
  BY <1>1 DEF Accept, Released
<1>2. ASSUME NEW t \in Tasks, DeleteIncident(t)
      PROVE  TypeOK'
  BY <1>2 DEF DeleteIncident
<1>3. ASSUME NEW w \in Reconcilers, List(w)
      PROVE  TypeOK'
  BY <1>3, CandidatesExist DEF List, Idle
<1>4. ASSUME NEW w \in Reconcilers, ProcessingFails(w)
      PROVE  TypeOK'
  BY <1>4 DEF ProcessingFails, MoveTo
<1>5. ASSUME NEW w \in Reconcilers, Crash(w)
      PROVE  TypeOK'
  BY <1>5 DEF Crash, Idle
<1>6. ASSUME NEW w \in Reconcilers, NEW t \in Tasks, Claim(w, t)
      PROVE  TypeOK'
  BY <1>6 DEF Claim, TakeLease, FreshTokens
<1>7. ASSUME NEW w \in Reconcilers, NEW t \in Tasks, Skip(w, t)
      PROVE  TypeOK'
  BY <1>7 DEF Skip, GoOn
<1>8. ASSUME NEW w \in Reconcilers, NEW t \in Tasks, ClaimReplyLost(w, t)
      PROVE  TypeOK'
  BY <1>8 DEF ClaimReplyLost, TakeLease, FreshTokens, GoOn
<1>9. ASSUME NEW w \in Reconcilers, NEW t \in Tasks, FindIncident(w, t)
      PROVE  TypeOK'
  BY <1>9 DEF FindIncident, MoveTo
<1>10. ASSUME NEW w \in Reconcilers, NEW t \in Tasks, MissIncident(w, t)
      PROVE  TypeOK'
  BY <1>10 DEF MissIncident, MoveTo
<1>11. ASSUME NEW w \in Reconcilers, NEW t \in Tasks, Commit(w, t)
      PROVE  TypeOK'
  <2>1. completions' \in [Tasks -> 0..2]
    BY <1>11, RecordedType DEF Commit
  <2> QED
    BY <1>11, <2>1 DEF Commit, MoveTo
<1>12. ASSUME NEW w \in Reconcilers, NEW t \in Tasks, CommitReplyLost(w, t)
      PROVE  TypeOK'
  <2>1. completions' \in [Tasks -> 0..2]
    BY <1>12, RecordedType DEF CommitReplyLost
  <2> QED
    BY <1>12, <2>1 DEF CommitReplyLost, MoveTo
<1>13. ASSUME NEW w \in Reconcilers, NEW t \in Tasks, MarkSucceeded(w, t)
      PROVE  TypeOK'
  BY <1>13 DEF MarkSucceeded, Mark, Released, GoOn
<1>14. ASSUME NEW w \in Reconcilers, NEW t \in Tasks, MarkRetryable(w, t)
      PROVE  TypeOK'
  BY <1>14 DEF MarkRetryable, Mark, Released, GoOn
<1>15. ASSUME NEW w \in Reconcilers, NEW t \in Tasks, MarkFailed(w, t)
      PROVE  TypeOK'
  BY <1>15 DEF MarkFailed, Mark, Released, GoOn
<1>16. ASSUME NEW w \in Reconcilers, NEW t \in Tasks, MarkNotApplied(w, t)
      PROVE  TypeOK'
  BY <1>16 DEF MarkNotApplied, GoOn
<1>17. CASE Tick
  BY <1>17 DEF Tick, Sooner
<1>18. CASE UNCHANGED vars
  BY <1>18 DEF vars
<1> QED
  BY <1>1, <1>2, <1>3, <1>4, <1>5, <1>6, <1>7, <1>8, <1>9, <1>10, <1>11, <1>12, <1>13, <1>14,
     <1>15, <1>16, <1>17, <1>18 DEF Next, Work

\* What the two stores hold stays consistent with the batches.
LEMMA StoresAgree ==
  ASSUME IInv, TypeOK', [Next]_vars
  PROVE  (Listed /\ CommittedWereAccepted)'
<1> DEFINE Goal == (Listed /\ CommittedWereAccepted)'
<1> SUFFICES Goal
  OBVIOUS
<1> USE TokensAssumption
<1> USE DEF IInv, TypeOK, Listed, CommittedWereAccepted, Current
<1>1. ASSUME NEW t \in Tasks, Accept(t) PROVE Goal
  BY <1>1 DEF Accept, Released
<1>2. ASSUME NEW t \in Tasks, DeleteIncident(t) PROVE Goal
  BY <1>2 DEF DeleteIncident
<1>3. ASSUME NEW w \in Reconcilers, List(w) PROVE Goal
  BY <1>3, CandidatesExist DEF List, Idle
<1>4. ASSUME NEW w \in Reconcilers, ProcessingFails(w) PROVE Goal
  BY <1>4 DEF ProcessingFails, MoveTo
<1>5. ASSUME NEW w \in Reconcilers, Crash(w) PROVE Goal
  BY <1>5 DEF Crash, Idle
<1>6. ASSUME NEW w \in Reconcilers, NEW t \in Tasks, Claim(w, t) PROVE Goal
  BY <1>6 DEF Claim, TakeLease, Claimable, FreshTokens
<1>7. ASSUME NEW w \in Reconcilers, NEW t \in Tasks, Skip(w, t) PROVE Goal
  BY <1>7 DEF Skip, GoOn
<1>8. ASSUME NEW w \in Reconcilers, NEW t \in Tasks, ClaimReplyLost(w, t) PROVE Goal
  BY <1>8 DEF ClaimReplyLost, TakeLease, Claimable, FreshTokens, GoOn
<1>9. ASSUME NEW w \in Reconcilers, NEW t \in Tasks, FindIncident(w, t) PROVE Goal
  BY <1>9 DEF FindIncident, MoveTo
<1>10. ASSUME NEW w \in Reconcilers, NEW t \in Tasks, MissIncident(w, t) PROVE Goal
  BY <1>10, CurrentUnique DEF MissIncident, MoveTo
<1>11. ASSUME NEW w \in Reconcilers, NEW t \in Tasks, Commit(w, t) PROVE Goal
  <2>1. /\ UNCHANGED exec /\ t \in rec[w].batch
        /\ \A v \in Reconcilers : rec'[v].batch = rec[v].batch
        /\ \A u \in Tasks \ {t} : completions'[u] = completions[u]
    BY <1>11 DEF Commit, MoveTo
  <2> QED
    BY <2>1
<1>12. ASSUME NEW w \in Reconcilers, NEW t \in Tasks, CommitReplyLost(w, t) PROVE Goal
  <2>1. /\ UNCHANGED exec /\ t \in rec[w].batch
        /\ \A v \in Reconcilers : rec'[v].batch = rec[v].batch
        /\ \A u \in Tasks \ {t} : completions'[u] = completions[u]
    BY <1>12 DEF CommitReplyLost, MoveTo
  <2> QED
    BY <2>1
<1>13. ASSUME NEW w \in Reconcilers, NEW t \in Tasks, MarkSucceeded(w, t) PROVE Goal
  BY <1>13 DEF MarkSucceeded, Mark, Owns, Released, GoOn
<1>14. ASSUME NEW w \in Reconcilers, NEW t \in Tasks, MarkRetryable(w, t) PROVE Goal
  BY <1>14 DEF MarkRetryable, Mark, Owns, Released, GoOn
<1>15. ASSUME NEW w \in Reconcilers, NEW t \in Tasks, MarkFailed(w, t) PROVE Goal
  BY <1>15 DEF MarkFailed, Mark, Owns, Released, GoOn
<1>16. ASSUME NEW w \in Reconcilers, NEW t \in Tasks, MarkNotApplied(w, t) PROVE Goal
  BY <1>16 DEF MarkNotApplied, GoOn
<1>17. CASE Tick
  BY <1>17 DEF Tick, Sooner
<1>18. CASE UNCHANGED vars
  BY <1>18 DEF vars
<1> HIDE DEF Goal
<1> QED
  BY <1>1, <1>2, <1>3, <1>4, <1>5, <1>6, <1>7, <1>8, <1>9, <1>10, <1>11, <1>12, <1>13, <1>14,
     <1>15, <1>16, <1>17, <1>18 DEF Next, Work

\* An outcome is only marked by a reconciler that remembers the reason for it.
LEMMA OutcomesJustified ==
  ASSUME IInv, TypeOK', [Next]_vars
  PROVE  (Remembered /\ SucceededWasApplied /\ FailedOnlyIfDeleted)'
<1> DEFINE Goal == (Remembered /\ SucceededWasApplied /\ FailedOnlyIfDeleted)'
<1> SUFFICES Goal
  OBVIOUS
<1> USE TokensAssumption
<1> USE DEF IInv, TypeOK, Remembered, SucceededWasApplied, FailedOnlyIfDeleted, Current
<1>1. ASSUME NEW t \in Tasks, Accept(t) PROVE Goal
  BY <1>1 DEF Accept, Released
<1>2. ASSUME NEW t \in Tasks, DeleteIncident(t) PROVE Goal
  BY <1>2 DEF DeleteIncident
<1>3. ASSUME NEW w \in Reconcilers, List(w) PROVE Goal
  BY <1>3, CandidatesExist DEF List, Idle
<1>4. ASSUME NEW w \in Reconcilers, ProcessingFails(w) PROVE Goal
  BY <1>4 DEF ProcessingFails, MoveTo
<1>5. ASSUME NEW w \in Reconcilers, Crash(w) PROVE Goal
  BY <1>5 DEF Crash, Idle
<1>6. ASSUME NEW w \in Reconcilers, NEW t \in Tasks, Claim(w, t) PROVE Goal
  BY <1>6 DEF Claim, TakeLease, Claimable, FreshTokens
<1>7. ASSUME NEW w \in Reconcilers, NEW t \in Tasks, Skip(w, t) PROVE Goal
  BY <1>7 DEF Skip, GoOn
<1>8. ASSUME NEW w \in Reconcilers, NEW t \in Tasks, ClaimReplyLost(w, t) PROVE Goal
  BY <1>8 DEF ClaimReplyLost, TakeLease, Claimable, FreshTokens, GoOn
<1>9. ASSUME NEW w \in Reconcilers, NEW t \in Tasks, FindIncident(w, t) PROVE Goal
  BY <1>9 DEF FindIncident, MoveTo
<1>10. ASSUME NEW w \in Reconcilers, NEW t \in Tasks, MissIncident(w, t) PROVE Goal
  BY <1>10, CurrentUnique DEF MissIncident, MoveTo
<1>11. ASSUME NEW w \in Reconcilers, NEW t \in Tasks, Commit(w, t) PROVE Goal
  <2>1. /\ completions'[t] > 0 /\ \A u \in Tasks \ {t} : completions'[u] = completions[u]
        /\ exec' = exec /\ gone' = gone
    BY <1>11, RecordedType DEF Commit
  <2>2. /\ rec'[w].pc = "done" /\ rec'[w].batch = rec[w].batch
        /\ \A v \in Reconcilers \ {w} : rec'[v] = rec[v]
    BY <1>11 DEF Commit, MoveTo
  <2>3. Remembered'
    BY <1>11, <2>1, <2>2, CurrentUnique DEF Commit
  <2> QED
    BY <2>1, <2>3
<1>12. ASSUME NEW w \in Reconcilers, NEW t \in Tasks, CommitReplyLost(w, t) PROVE Goal
  <2>1. /\ completions'[t] > 0 /\ \A u \in Tasks \ {t} : completions'[u] = completions[u]
        /\ exec' = exec /\ gone' = gone
    BY <1>12, RecordedType DEF CommitReplyLost
  <2>2. /\ rec'[w].pc = "retry" /\ rec'[w].batch = rec[w].batch
        /\ \A v \in Reconcilers \ {w} : rec'[v] = rec[v]
    BY <1>12 DEF CommitReplyLost, MoveTo
  <2>3. Remembered'
    BY <2>1, <2>2
  <2> QED
    BY <2>1, <2>3
<1>13. ASSUME NEW w \in Reconcilers, NEW t \in Tasks, MarkSucceeded(w, t) PROVE Goal
  BY <1>13 DEF MarkSucceeded, Mark, Owns, Released, GoOn
<1>14. ASSUME NEW w \in Reconcilers, NEW t \in Tasks, MarkRetryable(w, t) PROVE Goal
  BY <1>14 DEF MarkRetryable, Mark, Owns, Released, GoOn
<1>15. ASSUME NEW w \in Reconcilers, NEW t \in Tasks, MarkFailed(w, t) PROVE Goal
  BY <1>15 DEF MarkFailed, Mark, Owns, Released, GoOn
<1>16. ASSUME NEW w \in Reconcilers, NEW t \in Tasks, MarkNotApplied(w, t) PROVE Goal
  BY <1>16 DEF MarkNotApplied, GoOn
<1>17. CASE Tick
  BY <1>17 DEF Tick, Sooner
<1>18. CASE UNCHANGED vars
  BY <1>18 DEF vars
<1> HIDE DEF Goal
<1> QED
  BY <1>1, <1>2, <1>3, <1>4, <1>5, <1>6, <1>7, <1>8, <1>9, <1>10, <1>11, <1>12, <1>13, <1>14,
     <1>15, <1>16, <1>17, <1>18 DEF Next, Work

\* Claims hand out fresh tokens, and every other step gives tokens back.
LEMMA TokensKept ==
  ASSUME IInv, TypeOK', [Next]_vars
  PROVE  (TokensHeld /\ TokensDiffer)'
<1> DEFINE Goal == (TokensHeld /\ TokensDiffer)'
<1> SUFFICES Goal
  OBVIOUS
<1> USE TokensAssumption
<1> USE DEF IInv, TypeOK, TokensHeld, TokensDiffer
<1>1. ASSUME NEW t \in Tasks, Accept(t) PROVE Goal
  BY <1>1 DEF Accept, Released
<1>2. ASSUME NEW t \in Tasks, DeleteIncident(t) PROVE Goal
  BY <1>2 DEF DeleteIncident
<1>3. ASSUME NEW w \in Reconcilers, List(w) PROVE Goal
  BY <1>3, CandidatesExist DEF List, Idle
<1>4. ASSUME NEW w \in Reconcilers, ProcessingFails(w) PROVE Goal
  BY <1>4 DEF ProcessingFails, MoveTo
<1>5. ASSUME NEW w \in Reconcilers, Crash(w) PROVE Goal
  BY <1>5 DEF Crash, Idle
<1>6. ASSUME NEW w \in Reconcilers, NEW t \in Tasks, Claim(w, t) PROVE Goal
  BY <1>6 DEF Claim, TakeLease, Claimable, FreshTokens
<1>7. ASSUME NEW w \in Reconcilers, NEW t \in Tasks, Skip(w, t) PROVE Goal
  BY <1>7 DEF Skip, GoOn
<1>8. ASSUME NEW w \in Reconcilers, NEW t \in Tasks, ClaimReplyLost(w, t) PROVE Goal
  BY <1>8 DEF ClaimReplyLost, TakeLease, Claimable, FreshTokens, GoOn
<1>9. ASSUME NEW w \in Reconcilers, NEW t \in Tasks, FindIncident(w, t) PROVE Goal
  BY <1>9 DEF FindIncident, MoveTo
<1>10. ASSUME NEW w \in Reconcilers, NEW t \in Tasks, MissIncident(w, t) PROVE Goal
  BY <1>10, CurrentUnique DEF MissIncident, MoveTo
<1>11. ASSUME NEW w \in Reconcilers, NEW t \in Tasks, Commit(w, t) PROVE Goal
  BY <1>11, CurrentUnique DEF Commit, Recorded, MoveTo
<1>12. ASSUME NEW w \in Reconcilers, NEW t \in Tasks, CommitReplyLost(w, t) PROVE Goal
  BY <1>12 DEF CommitReplyLost, Recorded, MoveTo
<1>13. ASSUME NEW w \in Reconcilers, NEW t \in Tasks, MarkSucceeded(w, t) PROVE Goal
  BY <1>13 DEF MarkSucceeded, Mark, Owns, Released, GoOn
<1>14. ASSUME NEW w \in Reconcilers, NEW t \in Tasks, MarkRetryable(w, t) PROVE Goal
  BY <1>14 DEF MarkRetryable, Mark, Owns, Released, GoOn
<1>15. ASSUME NEW w \in Reconcilers, NEW t \in Tasks, MarkFailed(w, t) PROVE Goal
  BY <1>15 DEF MarkFailed, Mark, Owns, Released, GoOn
<1>16. ASSUME NEW w \in Reconcilers, NEW t \in Tasks, MarkNotApplied(w, t) PROVE Goal
  BY <1>16 DEF MarkNotApplied, GoOn
<1>17. CASE Tick
  BY <1>17 DEF Tick, Sooner
<1>18. CASE UNCHANGED vars
  BY <1>18 DEF vars
<1> HIDE DEF Goal
<1> QED
  BY <1>1, <1>2, <1>3, <1>4, <1>5, <1>6, <1>7, <1>8, <1>9, <1>10, <1>11, <1>12, <1>13, <1>14,
     <1>15, <1>16, <1>17, <1>18 DEF Next, Work

\* What a mark and whatever ends an attempt do to the reconciler's place.
LEMMA GoneOn ==
  ASSUME TypeOK, NEW w \in Reconcilers, NEW t \in Tasks, GoOn(w, t)
  PROVE  /\ rec'[w].pc \in {"idle", "scanning"}
         /\ \A v \in Reconcilers \ {w} : rec'[v] = rec[v]
BY DEF GoOn, TypeOK

\* Steps that touch neither the items nor the completions, and bring no reconciler from
\* the scan to a task.
LEMMA Quiet ==
  ASSUME IInv, UNCHANGED <<exec, completions, interrupted>>,
         \A w \in Reconcilers, t \in Tasks : Working(w, t)' =>
            /\ Working(w, t) /\ rec'[w].token = rec[w].token
            /\ rec[w].pc = "done" => rec'[w].pc = "done"
  PROVE  Uninterrupted'
BY DEF IInv, Uninterrupted, Owns

\* Until its first interruption a task is worked on by its owner alone.
LEMMA OneOwner ==
  ASSUME IInv, NEW t \in Tasks \ interrupted, NEW v \in Reconcilers, NEW w \in Reconcilers,
         Working(v, t), Owns(w, t)
  PROVE  v = w
BY DEF IInv, Uninterrupted, TokensHeld, TokensDiffer, Owns

LEMMA ClaimsLast ==
  ASSUME IInv, TypeOK', [Next]_vars
  PROVE  Uninterrupted'
<1> DEFINE Goal == Uninterrupted'
<1> SUFFICES Goal
  OBVIOUS
<1> HIDE DEF Goal
<1>1. ASSUME NEW t \in Tasks, Accept(t) PROVE Goal
  <2>1. /\ exec[t].status = "ABSENT" /\ completions[t] = 0
        /\ \A w \in Reconcilers : ~Owns(w, t)
    BY <1>1 DEF Accept, IInv, TypeOK, CommittedWereAccepted, Owns
  <2>2. /\ UNCHANGED <<completions, rec, interrupted>>
        /\ exec'[t].status = "READY" /\ \A u \in Tasks \ {t} : exec'[u] = exec[u]
    BY <1>1 DEF Accept, Released, IInv, TypeOK
  <2>3. \A w \in Reconcilers, u \in Tasks : Working(w, u)' <=> Working(w, u)
    BY <2>2 DEF Working, Current
  <2> QED
    BY <2>1, <2>2, <2>3 DEF Goal, IInv, Uninterrupted, Owns
<1>2. ASSUME NEW w \in Reconcilers, NEW t \in Tasks, NEW k \in FreshTokens,
             TakeLease(t, k), UNCHANGED <<completions, interrupted>>,
             \A v \in Reconcilers \ {w} : rec'[v] = rec[v],
             \A u \in Tasks : Working(w, u)' => u = t /\ rec'[w].token = k
      PROVE  Goal
  <2>1. /\ exec'[t].status = "PROCESSING" /\ exec'[t].token = k /\ exec'[t].lease > 0
        /\ \A u \in Tasks \ {t} : exec'[u] = exec[u]
    BY <1>2, LeaseAssumption DEF TakeLease, IInv, TypeOK
  <2>2. \A v \in Reconcilers \ {w}, u \in Tasks : Working(v, u)' <=> Working(v, u)
    BY <1>2 DEF Working, Current
  <2>3. t \notin interrupted => exec[t].status = "READY"
    BY <1>2 DEF TakeLease, Claimable, IInv, Uninterrupted
  <2>4. ASSUME t \notin interrupted
        PROVE  completions[t] = 0 /\ \A v \in Reconcilers : ~Working(v, t)
    BY <2>3, <2>4 DEF IInv, TypeOK, Uninterrupted, Owns
  <2>5. ASSUME NEW u \in Tasks \ interrupted', u # t
        PROVE  /\ exec'[u].status = "PROCESSING" => exec'[u].lease > 0
               /\ \A v \in Reconcilers : Working(v, u)' => Owns(v, u)'
               /\ completions'[u] < 2
               /\ completions'[u] = 1 =>
                    /\ exec'[u].status \in {"PROCESSING", "SUCCEEDED"}
                    /\ \A v \in Reconcilers : Working(v, u)' => rec'[v].pc = "done"
    BY <1>2, <2>1, <2>2, <2>5 DEF IInv, Uninterrupted, Owns
  <2>6. ASSUME t \notin interrupted'
        PROVE  /\ \A v \in Reconcilers : Working(v, t)' => Owns(v, t)'
               /\ completions'[t] = 0
    BY <1>2, <2>1, <2>2, <2>4, <2>6 DEF Owns
  <2> QED
    BY <2>1, <2>5, <2>6 DEF Goal, Uninterrupted
<1>3. ASSUME NEW w \in Reconcilers, NEW t \in Tasks, Claim(w, t) PROVE Goal
  <2>1. PICK k \in FreshTokens :
          TakeLease(t, k) /\ rec' = [rec EXCEPT ![w].pc = "claimed", ![w].token = k]
    BY <1>3 DEF Claim
  <2>2. /\ \A v \in Reconcilers \ {w} : rec'[v] = rec[v]
        /\ rec'[w].batch = rec[w].batch /\ rec'[w].token = k
    BY <2>1 DEF IInv, TypeOK
  <2>3. \A u \in Tasks : Working(w, u)' => u = t
    BY <1>3, <2>2, CurrentUnique DEF Claim, Working, Current, IInv
  <2> QED
    BY <1>2, <1>3, <2>1, <2>2, <2>3 DEF Claim
<1>4. ASSUME NEW w \in Reconcilers, NEW t \in Tasks, ClaimReplyLost(w, t) PROVE Goal
  <2>1. PICK k \in FreshTokens : TakeLease(t, k)
    BY <1>4 DEF ClaimReplyLost
  <2>2. /\ \A v \in Reconcilers \ {w} : rec'[v] = rec[v]
        /\ \A u \in Tasks : ~Working(w, u)'
    BY <1>4, GoneOn DEF ClaimReplyLost, IInv, Working
  <2> QED
    BY <1>2, <1>4, <2>1, <2>2 DEF ClaimReplyLost
<1>5. ASSUME NEW w \in Reconcilers, NEW t \in Tasks, Commit(w, t) PROVE Goal
  <2>1. /\ UNCHANGED <<exec, interrupted>>
        /\ \A v \in Reconcilers \ {w} : rec'[v] = rec[v]
        /\ rec'[w].pc = "done" /\ rec'[w].batch = rec[w].batch /\ rec'[w].token = rec[w].token
        /\ \A u \in Tasks \ {t} : completions'[u] = completions[u]
    BY <1>5 DEF Commit, MoveTo, IInv, TypeOK
  <2>2. \A v \in Reconcilers, u \in Tasks : Working(v, u)' => Working(v, u)
    BY <1>5, <2>1 DEF Commit, Working, Current
  <2>3. Working(w, t) /\ rec[w].pc = "found"
    BY <1>5 DEF Commit, Working
  <2>4. ASSUME t \notin interrupted
        PROVE  /\ completions[t] = 0 /\ completions'[t] = 1 /\ Owns(w, t)
               /\ \A v \in Reconcilers : Working(v, t) => v = w
    <3>1. completions[t] = 0 /\ Owns(w, t)
      BY <2>3, <2>4 DEF IInv, TypeOK, Uninterrupted
    <3>2. completions'[t] = 1
      BY <1>5, <3>1, RecordedType DEF Commit, IInv, TypeOK
    <3> QED
      BY <2>4, <3>1, <3>2, OneOwner
  <2>5. \A v \in Reconcilers, u \in Tasks : Owns(v, u)' <=> Owns(v, u)
    BY <2>1 DEF Owns
  <2> QED
    BY <2>1, <2>2, <2>4, <2>5 DEF Goal, IInv, Uninterrupted, Owns
<1>6. ASSUME NEW w \in Reconcilers, NEW t \in Tasks, CommitReplyLost(w, t) PROVE Goal
  <2>1. /\ UNCHANGED exec /\ interrupted' = interrupted \cup {t}
        /\ \A v \in Reconcilers \ {w} : rec'[v] = rec[v]
        /\ rec'[w].pc = "retry" /\ rec'[w].batch = rec[w].batch /\ rec'[w].token = rec[w].token
        /\ \A u \in Tasks \ {t} : completions'[u] = completions[u]
    BY <1>6 DEF CommitReplyLost, MoveTo, IInv, TypeOK
  <2>2. \A v \in Reconcilers, u \in Tasks : Working(v, u)' => Working(v, u)
    BY <1>6, <2>1 DEF CommitReplyLost, Working, Current
  <2>3. \A u \in Tasks : Working(w, u) => u = t
    BY <1>6, CurrentUnique DEF CommitReplyLost, Working, IInv
  <2>4. \A v \in Reconcilers, u \in Tasks : Owns(v, u)' <=> Owns(v, u)
    BY <2>1 DEF Owns
  <2> QED
    BY <2>1, <2>2, <2>3, <2>4 DEF Goal, IInv, Uninterrupted
<1>7. ASSUME NEW w \in Reconcilers, NEW t \in Tasks, NEW pc, NEW status,
             <<pc, status>> \in {<<"done", "SUCCEEDED">>, <<"retry", "READY">>,
                                <<"missing", "FAILED">>},
             Mark(w, t, pc, status)
      PROVE  Goal
  <2>1. /\ UNCHANGED <<completions, interrupted>>
        /\ exec'[t].status = status /\ \A u \in Tasks \ {t} : exec'[u] = exec[u]
        /\ Owns(w, t) /\ Working(w, t) /\ rec[w].pc = pc
    BY <1>7 DEF Mark, Released, IInv, TypeOK, Working
  <2>2. /\ \A v \in Reconcilers \ {w} : rec'[v] = rec[v]
        /\ \A u \in Tasks : ~Working(w, u)'
    BY <1>7, GoneOn DEF Mark, IInv, Working
  <2>3. \A v \in Reconcilers, u \in Tasks : Working(v, u)' => v # w /\ Working(v, u)
    BY <2>2 DEF Working, Current
  <2>4. t \notin interrupted => \A v \in Reconcilers : ~Working(v, t)'
    BY <2>1, <2>3, OneOwner
  <2>5. t \notin interrupted => completions[t] < 2 /\ (completions[t] = 1 => pc = "done")
    BY <2>1 DEF IInv, Uninterrupted
  <2>6. \A v \in Reconcilers \ {w}, u \in Tasks \ {t} : Owns(v, u)' <=> Owns(v, u)
    BY <2>1, <2>2 DEF Owns
  <2> QED
    BY <1>7, <2>1, <2>2, <2>3, <2>4, <2>5, <2>6 DEF Goal, IInv, Uninterrupted
<1>8. CASE Tick
  <2>1. /\ completions' = completions /\ rec' = rec
        /\ interrupted' = interrupted \cup {t \in Tasks : exec[t].lease = 1}
    BY <1>8 DEF Tick
  <2>2. \A t \in Tasks : exec'[t].status = exec[t].status
    BY <1>8 DEF Tick, Sooner, IInv, TypeOK
  <2>3. \A t \in Tasks : exec'[t].token = exec[t].token
    BY <1>8 DEF Tick, Sooner, IInv, TypeOK
  <2>4. \A t \in Tasks : exec[t].lease > 1 => exec'[t].lease > 0
    BY <1>8, LeaseAssumption DEF Tick, Sooner, IInv, TypeOK
  <2>5. \A v \in Reconcilers, u \in Tasks : Working(v, u)' <=> Working(v, u)
    BY <2>1 DEF Working, Current
  <2>6. \A v \in Reconcilers, u \in Tasks : Owns(v, u)' <=> Owns(v, u)
    BY <2>1, <2>2, <2>3 DEF Owns
  <2>7. \A t \in Tasks : exec[t].lease \in Nat
    BY LeaseAssumption DEF IInv, TypeOK
  <2>8. \A t \in Tasks \ interrupted' :
          /\ t \notin interrupted
          /\ exec[t].lease > 0 => exec'[t].lease > 0
    BY <2>1, <2>4, <2>7
  <2>9. ASSUME NEW t \in Tasks \ interrupted'
        PROVE  /\ exec'[t].status = "PROCESSING" => exec'[t].lease > 0
               /\ \A w \in Reconcilers : Working(w, t)' => Owns(w, t)'
               /\ completions'[t] < 2
               /\ completions'[t] = 1 =>
                    /\ exec'[t].status \in {"PROCESSING", "SUCCEEDED"}
                    /\ \A w \in Reconcilers : Working(w, t)' => rec'[w].pc = "done"
    BY <2>1, <2>2, <2>5, <2>6, <2>8 DEF IInv, Uninterrupted
  <2> QED
    BY <2>9 DEF Goal, Uninterrupted
<1>9. ASSUME NEW t \in Tasks, DeleteIncident(t) PROVE Goal
  BY <1>9, Quiet DEF Goal, DeleteIncident, Working, Current
<1>10. ASSUME NEW w \in Reconcilers,
              \/ List(w) \/ Crash(w)
              \/ \E t \in Tasks : Skip(w, t) \/ MarkNotApplied(w, t)
       PROVE  Goal
  <2>1. UNCHANGED <<exec, completions, interrupted>>
    BY <1>10 DEF List, Crash, Skip, MarkNotApplied
  <2>2. /\ rec'[w].pc \in {"idle", "scanning"}
        /\ \A v \in Reconcilers \ {w} : rec'[v] = rec[v]
    <3>1. CASE List(w) \/ Crash(w)
      BY <3>1 DEF List, Crash, Idle, IInv, TypeOK
    <3>2. ASSUME NEW t \in Tasks, Skip(w, t) \/ MarkNotApplied(w, t)
          PROVE  /\ rec'[w].pc \in {"idle", "scanning"}
                 /\ \A v \in Reconcilers \ {w} : rec'[v] = rec[v]
      BY <3>2, GoneOn DEF Skip, MarkNotApplied, IInv
    <3> QED
      BY <1>10, <3>1, <3>2
  <2> QED
    BY <2>1, <2>2, Quiet DEF Goal, Working, Current
<1>11. ASSUME NEW w \in Reconcilers,
              \/ ProcessingFails(w)
              \/ \E t \in Tasks : FindIncident(w, t) \/ MissIncident(w, t)
       PROVE  Goal
  <2>1. UNCHANGED <<exec, completions, interrupted>> /\ rec[w].pc \in {"claimed", "found"}
    BY <1>11 DEF ProcessingFails, FindIncident, MissIncident
  <2>2. /\ \A v \in Reconcilers \ {w} : rec'[v] = rec[v]
        /\ rec'[w].batch = rec[w].batch /\ rec'[w].token = rec[w].token
    BY <1>11 DEF ProcessingFails, FindIncident, MissIncident, MoveTo, IInv, TypeOK
  <2> QED
    BY <2>1, <2>2, Quiet DEF Goal, Working, Current
<1>12. CASE UNCHANGED vars
  BY <1>12, Quiet DEF Goal, vars, Working, Current
<1> QED
  BY <1>1, <1>3, <1>4, <1>5, <1>6, <1>7, <1>8, <1>9, <1>10, <1>11, <1>12
  DEF Next, Work, MarkSucceeded, MarkRetryable, MarkFailed

\* The inductive invariant holds in every reachable state.
THEOREM Invariance == Safety => []IInv
<1>1. Init => IInv
  BY TokensAssumption, LeaseAssumption
  DEF Init, Released, Idle, IInv, TypeOK, Status, Phases, Remembered, Listed,
      CommittedWereAccepted, SucceededWasApplied, FailedOnlyIfDeleted, TokensHeld,
      TokensDiffer, Uninterrupted, Working, Current
<1>2. IInv /\ [Next]_vars => IInv'
  <2> SUFFICES ASSUME IInv, [Next]_vars PROVE IInv'
    OBVIOUS
  <2>1. TypeOK'
    BY TypeInvariant DEF IInv
  <2> QED
    BY <2>1, StoresAgree, OutcomesJustified, TokensKept, ClaimsLast DEF IInv
<1> QED
  BY <1>1, <1>2, PTL DEF Safety

-----------------------------------------------------------------------------
\* Claims, marks and crashes keep the execution items and the reconcilers'
\* own state well typed.
THEOREM TypeCorrect == Safety => []TypeOK
<1>1. IInv => TypeOK
  BY DEF IInv
<1> QED
  BY <1>1, Invariance, PTL

\* mark_succeeded follows a PostgreSQL commit, whatever crashes, lost replies
\* and expired leases lie between the two stores.
THEOREM SuccessIsReal == Safety => []SucceededWasApplied
<1>1. IInv => SucceededWasApplied
  BY DEF IInv
<1> QED
  BY <1>1, Invariance, PTL

\* mark_failed follows a read that found no incident, and incidents do not
\* come back.
THEOREM FailureIsReal == Safety => []FailedOnlyIfDeleted
<1>1. IInv => FailedOnlyIfDeleted
  BY DEF IInv
<1> QED
  BY <1>1, Invariance, PTL

\* The effect of a task is committed again only when a lease ran out before the task was
\* settled or the answer to the commit was lost (_reconcile_claimed): no crowd of
\* reconcilers, failed mark or failed transaction is enough.
THEOREM RepeatsHaveAReason == Safety => []WorkIsRepeatedForAReason
<1>1. IInv => WorkIsRepeatedForAReason
  BY DEF IInv, Uninterrupted, WorkIsRepeatedForAReason
<1> QED
  BY <1>1, Invariance, PTL

\* The conditions of claim and _update_owned_execution protect settled tasks.
LEMMA FinalStep ==
  ASSUME TypeOK, [Next]_vars, NEW t \in Tasks,
         exec[t].status \in {"SUCCEEDED", "FAILED"}
  PROVE  exec'[t].status = exec[t].status
<1>1. ASSUME NEW u \in Tasks, Accept(u) PROVE exec'[t].status = exec[t].status
  BY <1>1 DEF Accept, TypeOK
<1>2. ASSUME NEW w \in Reconcilers, NEW u \in Tasks,
             Claim(w, u) \/ ClaimReplyLost(w, u)
      PROVE  exec'[t].status = exec[t].status
  BY <1>2 DEF Claim, ClaimReplyLost, TakeLease, Claimable, TypeOK
<1>3. ASSUME NEW w \in Reconcilers, NEW u \in Tasks,
             MarkSucceeded(w, u) \/ MarkRetryable(w, u) \/ MarkFailed(w, u)
      PROVE  exec'[t].status = exec[t].status
  BY <1>3 DEF MarkSucceeded, MarkRetryable, MarkFailed, Mark, Owns, TypeOK
<1>4. CASE Tick
  BY <1>4 DEF Tick, Sooner, TypeOK
<1> QED
  BY <1>1, <1>2, <1>3, <1>4
  DEF Next, Work, DeleteIncident, List, ProcessingFails, Crash, Skip,
      FindIncident, MissIncident, Commit, CommitReplyLost, MarkNotApplied, vars

\* A stale reconciler never reopens or relabels a settled task.
THEOREM SettledStaysSettled == Safety => SettledIsFinal
<1>1. IInv /\ [Next]_vars =>
        [\A t \in Tasks :
           exec[t].status \in {"SUCCEEDED", "FAILED"} =>
             exec'[t].status = exec[t].status]_vars
  BY FinalStep DEF IInv
<1> QED
  BY <1>1, Invariance, PTL DEF Safety, SettledIsFinal

\* A claim, answered or not, gives one claimable item a new token.
LEMMA ClaimEffect ==
  ASSUME NEW w \in Reconcilers, NEW u \in Tasks,
         Claim(w, u) \/ ClaimReplyLost(w, u)
  PROVE  /\ Claimable(u)
         /\ \E k \in FreshTokens :
              exec' = [exec EXCEPT ![u] =
                         [status |-> "PROCESSING", token |-> k, lease |-> LeaseTicks]]
         /\ UNCHANGED <<gone, completions>>
  BY DEF Claim, ClaimReplyLost, TakeLease

\* Tokens make a claim exclusive: while w owns t under a running lease, only a
\* step of w itself changes the item's status or token.
LEMMA ClaimKept ==
  ASSUME IInv, [Next]_vars, NEW w \in Reconcilers, NEW t \in Tasks,
         Owns(w, t), exec[t].lease > 0, rec'[w] = rec[w]
  PROVE  exec'[t].status = "PROCESSING" /\ exec'[t].token = exec[t].token
<1> DEFINE Goal == exec'[t].status = "PROCESSING" /\ exec'[t].token = exec[t].token
<1> SUFFICES Goal
  OBVIOUS
<1> USE DEF IInv, TypeOK, Owns
<1>1. ASSUME NEW u \in Tasks, Accept(u) PROVE Goal
  BY <1>1 DEF Accept
<1>2. ASSUME NEW v \in Reconcilers, NEW u \in Tasks,
             Claim(v, u) \/ ClaimReplyLost(v, u)
      PROVE  Goal
  <2>1. u # t
    BY <1>2, ClaimEffect DEF Claimable
  <2>2. exec'[t] = exec[t]
    BY <1>2, <2>1, ClaimEffect
  <2> QED
    BY <2>2
<1>3. ASSUME NEW v \in Reconcilers, NEW u \in Tasks, NEW pc, NEW status,
             pc \in {"done", "retry", "missing"}, Mark(v, u, pc, status)
      PROVE  Goal
  <2>1. CASE u = t
    <3>1. rec[v].token = rec[w].token /\ rec[v].token # None
      BY <1>3, <2>1 DEF Mark, TokensHeld
    <3>2. v = w
      BY <3>1 DEF TokensDiffer
    <3>3. rec'[w].token = None
      BY <1>3, <3>2 DEF Mark, GoOn
    <3> QED
      BY <3>1, <3>2, <3>3
  <2>2. CASE u # t
    BY <1>3, <2>2 DEF Mark
  <2> QED
    BY <2>1, <2>2
<1>4. CASE Tick
  BY <1>4 DEF Tick, Sooner
<1>5. CASE UNCHANGED exec
  BY <1>5
<1> HIDE DEF Goal
<1> QED
  BY <1>1, <1>2, <1>3, <1>4, <1>5
  DEF Next, Work, DeleteIncident, List, ProcessingFails, Crash, Skip,
      FindIncident, MissIncident, Commit, CommitReplyLost, MarkSucceeded,
      MarkRetryable, MarkFailed, MarkNotApplied, vars

\* A reconciler within its lease is never robbed of its task.
THEOREM LeaseIsExclusive == Safety => ClaimHoldsForTheLease
<1>1. IInv /\ [Next]_vars =>
        [\A w \in Reconcilers, t \in Tasks :
           Owns(w, t) /\ exec[t].lease > 0 /\ rec'[w] = rec[w] =>
             exec'[t].status = "PROCESSING" /\ exec'[t].token = exec[t].token]_vars
  BY ClaimKept
<1> QED
  BY <1>1, Invariance, PTL DEF Safety, ClaimHoldsForTheLease

-----------------------------------------------------------------------------
\* Each step of the reconciler is a step of the task's lifecycle or a stutter.
LEMMA RefinesStep ==
  ASSUME IInv, [Next]_vars
  PROVE  [Lifecycle!Next]_Lifecycle!vars
<1> DEFINE Settled == [t \in Tasks |->
                         IF exec[t].status \in {"SUCCEEDED", "FAILED"}
                         THEN exec[t].status ELSE "none"]
<1> USE DEF IInv, TypeOK, Lifecycle!Next, Lifecycle!vars
<1>1. ASSUME NEW t \in Tasks, Accept(t) PROVE Lifecycle!Accept(t)
  BY <1>1 DEF Accept, Released, Lifecycle!Accept
<1>2. ASSUME NEW t \in Tasks, DeleteIncident(t) PROVE Lifecycle!Delete(t)
  BY <1>2 DEF DeleteIncident, Lifecycle!Delete
<1>3. ASSUME NEW w \in Reconcilers, NEW t \in Tasks,
             Commit(w, t) \/ CommitReplyLost(w, t)
      PROVE  Lifecycle!Apply(t)
  <2>1. exec[t].status # "ABSENT"
    BY <1>3 DEF Commit, CommitReplyLost, Current, Listed
  <2>2. completions' = [completions EXCEPT ![t] = Recorded(@)]
        /\ UNCHANGED <<exec, gone>>
    BY <1>3 DEF Commit, CommitReplyLost
  <2>3. \A u \in Tasks : completions'[u] > 0 <=> completions[u] > 0 \/ u = t
    BY <2>2, RecordedType
  <2> QED
    BY <2>1, <2>2, <2>3 DEF Lifecycle!Apply
<1>4. ASSUME NEW w \in Reconcilers, NEW t \in Tasks, MarkSucceeded(w, t)
      PROVE  Lifecycle!Succeed(t)
  <2>1. completions[t] > 0 /\ exec[t].status = "PROCESSING"
    BY <1>4 DEF MarkSucceeded, Mark, Owns, Remembered
  <2>2. exec' = [exec EXCEPT ![t] = Released("SUCCEEDED")]
        /\ UNCHANGED <<gone, completions>>
    BY <1>4 DEF MarkSucceeded, Mark
  <2> QED
    BY <2>1, <2>2 DEF Lifecycle!Succeed, Released
<1>5. ASSUME NEW w \in Reconcilers, NEW t \in Tasks, MarkFailed(w, t)
      PROVE  Lifecycle!Fail(t)
  <2>1. t \in gone /\ exec[t].status = "PROCESSING"
    BY <1>5 DEF MarkFailed, Mark, Owns, Remembered
  <2>2. exec' = [exec EXCEPT ![t] = Released("FAILED")]
        /\ UNCHANGED <<gone, completions>>
    BY <1>5 DEF MarkFailed, Mark
  <2> QED
    BY <2>1, <2>2 DEF Lifecycle!Fail, Released
<1>6. ASSUME UNCHANGED <<gone, completions>>,
             \A t \in Tasks :
               \/ exec'[t].status = exec[t].status
               \/ {exec[t].status, exec'[t].status} \subseteq {"READY", "PROCESSING"}
      PROVE  UNCHANGED Lifecycle!vars
  <2>1. \A t \in Tasks : exec'[t].status # "ABSENT" <=> exec[t].status # "ABSENT"
    BY <1>6
  <2>2. Settled' = Settled
    BY <1>6
  <2> QED
    BY <1>6, <2>1, <2>2
<1>7. ASSUME NEW w \in Reconcilers, NEW t \in Tasks,
             Claim(w, t) \/ ClaimReplyLost(w, t) \/ MarkRetryable(w, t)
      PROVE  UNCHANGED Lifecycle!vars
  <2>1. /\ \A u \in Tasks : u # t => exec'[u] = exec[u]
        /\ exec'[t].status \in {"READY", "PROCESSING"}
    <3>1. CASE Claim(w, t) \/ ClaimReplyLost(w, t)
      BY <3>1, ClaimEffect
    <3>2. CASE MarkRetryable(w, t)
      BY <3>2 DEF MarkRetryable, Mark, Released
    <3> QED
      BY <1>7, <3>1, <3>2
  <2>2. exec[t].status \in {"READY", "PROCESSING"} /\ UNCHANGED <<gone, completions>>
    BY <1>7, ClaimEffect DEF Claimable, MarkRetryable, Mark, Owns
  <2> QED
    BY <1>6, <2>1, <2>2
<1>8. CASE Tick
  BY <1>6, <1>8 DEF Tick, Sooner
<1>9. CASE UNCHANGED <<exec, gone, completions>>
  BY <1>6, <1>9
<1> QED
  BY <1>1, <1>2, <1>3, <1>4, <1>5, <1>7, <1>8, <1>9
  DEF Next, Work, List, ProcessingFails, Crash, Skip, FindIncident,
      MissIncident, MarkNotApplied, vars

\* The reconciler implements the safety half of the task's lifecycle.
THEOREM ImplementsLifecycle == Safety => Lifecycle!Safety
<1>1. Init => Lifecycle!Init
  BY DEF Init, Released, Lifecycle!Init
<1>2. IInv /\ [Next]_vars => [Lifecycle!Next]_Lifecycle!vars
  BY RefinesStep
<1> QED
  BY <1>1, <1>2, Invariance, PTL DEF Safety, Lifecycle!Safety
=============================================================================
