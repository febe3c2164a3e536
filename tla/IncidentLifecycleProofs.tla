----------------------- MODULE IncidentLifecycleProofs -----------------------
(***************************************************************************)
(* Proofs about IncidentLifecycle, for any number of attempts and PATCH    *)
(* requests, any bodies and any incident to begin with.                    *)
(*                                                                         *)
(* While no two transactions overlap, the one in flight has loaded the row *)
(* that it is about to write, so that the flush makes the row its value    *)
(* (UpToDate).  When attempts do overlap, each of them still writes an     *)
(* acknowledgement and a status other than OPEN, or leaves the row one     *)
(* that was there when it loaded it (Processing): what one attempt has     *)
(* reached no other takes back.                                            *)
(***************************************************************************)
EXTENDS IncidentLifecycle, TLAPS

TxType == [pc : Phases, new : Rows \cup {None}, loaded : Rows \cup {None}]

\* What a transaction in flight has in hand; an attempt that writes has the effect to write.
Knows(x) ==
    /\ tx[x].pc \in {"read", "reread", "unchanged"} => tx[x].new \in Rows
    /\ tx[x].pc = "reread" => tx[x].loaded \in Rows
    /\ tx[x].pc = "unchanged" => x \in Attempts
    /\ x \in Attempts /\ tx[x].pc \in {"read", "reread"} =>
         tx[x].new.status # "OPEN" /\ tx[x].new.acknowledged_at # None

Alone == ~overlap => \A x, y \in InFlight : x = y

Stamped(r) == r.status = "RESOLVED" <=> r.resolved_at # None

\* Without an overlap the transaction in flight works on the row as it is.
UpToDate ==
    ~overlap /\ row # Gone =>
        /\ Stamped(row)
        /\ \A x \in InFlight :
             /\ Stamped(tx[x].new)
             /\ tx[x].pc = "reread" => tx[x].loaded = row
             /\ tx[x].pc = "unchanged" => tx[x].new = row

\* As long as no PATCH is committed, the effect of the task is not undone.
NoPatch == \A x \in Requests : tx[x].pc # "committed"

Processing ==
    NoPatch /\ row # Gone =>
        /\ \A x \in Attempts :
             /\ tx[x].pc = "reread" =>
                  /\ tx[x].loaded.status # "OPEN" => row.status # "OPEN"
                  /\ tx[x].loaded.acknowledged_at # None => row.acknowledged_at # None
             /\ tx[x].pc = "unchanged" => HasEffect(row)
        /\ event # None => HasEffect(row)

IInv ==
    /\ TypeOK
    /\ \A x \in Transactions : Knows(x)
    /\ Alone
    /\ UpToDate
    /\ Processing
-----------------------------------------------------------------------------
\* What the operators compute.

LEMMA ProcessedRow ==
  ASSUME NEW x \in Attempts, NEW r \in Rows
  PROVE  /\ Processed(x, r) \in Rows
         /\ Stamped(r) => Stamped(Processed(x, r))
         /\ Processed(x, r) # r =>
              Processed(x, r).status # "OPEN" /\ Processed(x, r).acknowledged_at # None
         /\ Processed(x, r) = r => HasEffect(r)
<1>1. x \in Stamps /\ x # None
  BY NamesAssumption DEF Stamps, Transactions
<1>2. CASE r.status \in {"OPEN", "INVESTIGATING"}
  <2> DEFINE n == [r EXCEPT !.status = "INVESTIGATING",
                            !.acknowledged_at = IF @ = None THEN x ELSE @]
  <2>1. Processed(x, r) = n
    BY <1>2 DEF Processed
  <2>2. /\ n \in Rows /\ n.status = "INVESTIGATING" /\ n.resolved_at = r.resolved_at
        /\ n.acknowledged_at = IF r.acknowledged_at = None THEN x ELSE r.acknowledged_at
    BY <1>1 DEF Rows, Status
  <2> HIDE DEF n
  <2> QED
    BY <1>1, <1>2, <2>1, <2>2 DEF Stamped, HasEffect
<1>3. CASE r.status \notin {"OPEN", "INVESTIGATING"}
  BY <1>3 DEF Processed, HasEffect
<1> QED
  BY <1>2, <1>3

LEMMA PatchedRow ==
  ASSUME NEW x \in Transactions, NEW r \in Rows, NEW body \in Payloads
  PROVE  Patched(x, r, body) \in Rows /\ Stamped(Patched(x, r, body))
<1>1. body \in Bodies /\ x \in Stamps /\ x # None
  BY PayloadsAssumption, NamesAssumption DEF Stamps
<1> DEFINE status == Or(body.status, r.status)
<1>2. status \in Status
  BY <1>1 DEF Or, Bodies, Rows
<1>3. Or(body.acknowledged_at, r.acknowledged_at) \in Stamps
  BY <1>1 DEF Or, Bodies, Rows, Stamps
<1> HIDE DEF status
<1>4. ResolvedAt(x, r, body, status) \in Stamps
  BY <1>1 DEF ResolvedAt, Bodies, Rows, Stamps
<1>5. status = "RESOLVED" <=> ResolvedAt(x, r, body, status) # None
  BY <1>1 DEF ResolvedAt
<1>6. Patched(x, r, body) = [status |-> status,
                             acknowledged_at |-> Or(body.acknowledged_at, r.acknowledged_at),
                             resolved_at |-> ResolvedAt(x, r, body, status)]
  BY DEF Patched, status
<1> QED
  BY <1>2, <1>3, <1>4, <1>5, <1>6 DEF Rows, Stamped

LEMMA FlushedRow ==
  ASSUME NEW x \in Transactions, NEW r \in Rows, tx[x].new \in Rows, tx[x].loaded \in Rows
  PROVE  /\ Flushed(x, r) \in Rows
         /\ Flushed(x, r).status =
              IF tx[x].new.status # tx[x].loaded.status THEN tx[x].new.status ELSE r.status
         /\ Flushed(x, r).acknowledged_at =
              IF tx[x].new.acknowledged_at # tx[x].loaded.acknowledged_at
              THEN tx[x].new.acknowledged_at ELSE r.acknowledged_at
         /\ Flushed(x, r).resolved_at =
              IF tx[x].new.resolved_at # tx[x].loaded.resolved_at
              THEN tx[x].new.resolved_at ELSE r.resolved_at
         /\ tx[x].loaded = r => Flushed(x, r) = tx[x].new
<1>1. DOMAIN r = {"status", "acknowledged_at", "resolved_at"}
  BY DEF Rows
<1>2. Flushed(x, r) = [f \in {"status", "acknowledged_at", "resolved_at"} |->
                         IF tx[x].new[f] # tx[x].loaded[f] THEN tx[x].new[f] ELSE r[f]]
  BY <1>1 DEF Flushed
<1>3. \A n \in Rows : /\ n["status"] = n.status /\ n["acknowledged_at"] = n.acknowledged_at
                      /\ n["resolved_at"] = n.resolved_at
  OBVIOUS
<1>4. /\ Flushed(x, r).status =
           IF tx[x].new.status # tx[x].loaded.status THEN tx[x].new.status ELSE r.status
      /\ Flushed(x, r).acknowledged_at =
           IF tx[x].new.acknowledged_at # tx[x].loaded.acknowledged_at
           THEN tx[x].new.acknowledged_at ELSE r.acknowledged_at
      /\ Flushed(x, r).resolved_at =
           IF tx[x].new.resolved_at # tx[x].loaded.resolved_at
           THEN tx[x].new.resolved_at ELSE r.resolved_at
  BY <1>2
<1>5. Flushed(x, r) = [status |-> Flushed(x, r).status,
                       acknowledged_at |-> Flushed(x, r).acknowledged_at,
                       resolved_at |-> Flushed(x, r).resolved_at]
  BY <1>2
<1>6. Flushed(x, r) \in Rows
  BY <1>4, <1>5 DEF Rows
<1>7. ASSUME tx[x].loaded = r PROVE Flushed(x, r) = tx[x].new
  BY <1>4, <1>6, <1>7 DEF Rows
<1> QED
  BY <1>4, <1>6, <1>7
-----------------------------------------------------------------------------
\* Only x moves, to r.
LEMMA OneTransaction ==
  ASSUME IInv, NEW x \in Transactions, NEW r \in TxType, tx' = [tx EXCEPT ![x] = r],
         row' \in Rows \cup {Gone}, overlap' \in BOOLEAN,
         event' \in [status : Status, acknowledged_at : Stamps] \cup {None},
         Knows(x)'
  PROVE  /\ TypeOK' /\ \A y \in Transactions : Knows(y)'
         /\ tx'[x] = r /\ \A y \in Transactions \ {x} : tx'[y] = tx[y]
<1>1. tx \in [Transactions -> TxType]
  BY DEF IInv, TypeOK, TxType
<1>2. tx' \in [Transactions -> TxType]
  BY <1>1
<1>3. tx'[x] = r /\ \A y \in Transactions \ {x} : tx'[y] = tx[y]
  BY <1>1
<1>4. \A y \in Transactions : Knows(y)'
  BY <1>3 DEF IInv, Knows
<1> QED
  BY <1>2, <1>3, <1>4 DEF TypeOK, TxType

\* A transaction that begins alone is the only one in flight.
LEMMA Beginning ==
  ASSUME IInv, NEW x \in Transactions, Begin, ~overlap',
         \A y \in Transactions \ {x} : tx'[y] = tx[y]
  PROVE  ~overlap /\ InFlight' \subseteq {x}
BY DEF Begin, InFlight

LEMMA BooleanBegin == ASSUME IInv, Begin PROVE overlap' \in BOOLEAN
BY Zenon DEF IInv, TypeOK, Begin

LEMMA ProcessReadStep ==
  ASSUME IInv, NEW x \in Transactions, ProcessRead(x)
  PROVE  IInv'
<1> DEFINE new == Processed(x, row)
           pc == IF new = row THEN "unchanged" ELSE "read"
           r == [tx[x] EXCEPT !.pc = pc, !.new = new]
<1>1. /\ x \in Attempts /\ row \in Rows /\ tx[x] \in TxType
      /\ tx \in [Transactions -> TxType]
  BY DEF ProcessRead, IInv, TypeOK, TxType
<1>2. /\ new \in Rows
      /\ Stamped(row) => Stamped(new)
      /\ new # row => new.status # "OPEN" /\ new.acknowledged_at # None
      /\ new = row => HasEffect(row)
  BY <1>1, ProcessedRow
<1>3. UNCHANGED <<row, event>> /\ Begin /\ tx[x].pc = "ready"
  BY DEF ProcessRead
<1>4. tx' = [tx EXCEPT ![x] = r]
  BY <1>1 DEF ProcessRead
<1> HIDE DEF new
<1>a. pc \in {"unchanged", "read"} /\ (pc = "unchanged" <=> new = row)
  OBVIOUS
<1> HIDE DEF pc
<1>5. r \in TxType /\ r.pc = pc /\ r.new = new
  BY <1>1, <1>2, <1>a DEF TxType, Phases
<1> HIDE DEF r
<1>6. tx'[x] = r
  BY <1>1, <1>4, <1>5
<1>7. Knows(x)'
  BY <1>1, <1>2, <1>a, <1>5, <1>6 DEF Knows
<1>8. /\ TypeOK' /\ \A y \in Transactions : Knows(y)'
      /\ \A y \in Transactions \ {x} : tx'[y] = tx[y]
  BY <1>1, <1>3, <1>4, <1>5, <1>7, OneTransaction, BooleanBegin DEF IInv, TypeOK
<1>9. Alone'
  BY <1>3, <1>8, Beginning DEF Alone
<1>10. UpToDate'
  <2> SUFFICES ASSUME ~overlap'
               PROVE  Stamped(row) /\ Stamped(new) /\ (pc = "unchanged" => new = row)
    BY <1>3, <1>a, <1>5, <1>6, <1>8, Beginning DEF UpToDate
  <2> QED
    BY <1>1, <1>2, <1>3, <1>a, <1>8, Beginning, NamesAssumption DEF IInv, UpToDate
<1>11. Processing'
  <2> SUFFICES ASSUME NoPatch', NEW y \in Attempts
               PROVE  /\ tx'[y].pc = "reread" =>
                           /\ tx'[y].loaded.status # "OPEN" => row.status # "OPEN"
                           /\ tx'[y].loaded.acknowledged_at # None => row.acknowledged_at # None
                      /\ tx'[y].pc = "unchanged" => HasEffect(row)
                      /\ event # None => HasEffect(row)
    BY <1>1, <1>3 DEF Processing, HasEffect
  <2>1. NoPatch
    BY <1>1, <1>3, <1>8 DEF NoPatch, Transactions
  <2>2. Processing /\ row # Gone /\ y \in Transactions
    BY <1>1, NamesAssumption DEF IInv, Transactions
  <2> QED
    BY <1>2, <1>a, <1>5, <1>6, <1>8, <2>1, <2>2 DEF Processing
<1> QED
  BY <1>8, <1>9, <1>10, <1>11 DEF IInv

LEMMA PatchReadStep ==
  ASSUME IInv, NEW x \in Transactions, PatchRead(x)
  PROVE  IInv'
<1>1. PICK body \in Payloads :
        tx' = [tx EXCEPT ![x].pc = "read", ![x].new = Patched(x, row, body)]
  BY DEF PatchRead
<1> DEFINE new == Patched(x, row, body)
           r == [tx[x] EXCEPT !.pc = "read", !.new = new]
<1>2. /\ x \in Requests /\ x \notin Attempts /\ row \in Rows /\ tx[x] \in TxType
      /\ tx \in [Transactions -> TxType]
  BY NamesAssumption DEF PatchRead, IInv, TypeOK, TxType
<1>3. new \in Rows /\ Stamped(new)
  BY <1>2, PatchedRow
<1>4. UNCHANGED <<row, event>> /\ Begin /\ tx[x].pc = "ready"
  BY DEF PatchRead
<1>5. tx' = [tx EXCEPT ![x] = r]
  BY <1>1, <1>2
<1> HIDE DEF new
<1>6. r \in TxType /\ r.pc = "read" /\ r.new = new
  BY <1>2, <1>3 DEF TxType, Phases
<1> HIDE DEF r
<1>7. tx'[x] = r
  BY <1>2, <1>5, <1>6
<1>8. Knows(x)'
  BY <1>2, <1>3, <1>6, <1>7 DEF Knows
<1>9. /\ TypeOK' /\ \A y \in Transactions : Knows(y)'
      /\ \A y \in Transactions \ {x} : tx'[y] = tx[y]
  BY <1>2, <1>4, <1>5, <1>6, <1>8, OneTransaction, BooleanBegin DEF IInv, TypeOK
<1>10. Alone'
  BY <1>4, <1>9, Beginning DEF Alone
<1>11. UpToDate'
  <2> SUFFICES ASSUME ~overlap'
               PROVE  Stamped(row)
    BY <1>3, <1>4, <1>6, <1>7, <1>9, Beginning DEF UpToDate
  <2> QED
    BY <1>2, <1>4, <1>9, Beginning, NamesAssumption DEF IInv, UpToDate
<1>12. Processing'
  <2>1. \A y \in Attempts : y \in Transactions /\ y # x /\ tx'[y] = tx[y]
    BY <1>2, <1>9 DEF Transactions
  <2>2. NoPatch' => NoPatch
    BY <1>2, <1>4, <1>9 DEF NoPatch, Transactions
  <2> QED
    BY <1>4, <2>1, <2>2 DEF IInv, Processing
<1> QED
  BY <1>9, <1>10, <1>11, <1>12 DEF IInv
\* A step of x that keeps the row and its new value, and is no beginning.
LEMMA RereadStep ==
  ASSUME IInv, NEW x \in Transactions, Reread(x)
  PROVE  IInv'
<1> DEFINE r == [tx[x] EXCEPT !.pc = "reread", !.loaded = row]
<1>1. /\ row \in Rows /\ tx[x] \in TxType /\ tx \in [Transactions -> TxType]
      /\ tx[x].pc = "read" /\ UNCHANGED <<row, event, overlap>> /\ Knows(x)
  BY DEF Reread, IInv, TypeOK, TxType
<1>2. tx' = [tx EXCEPT ![x] = r]
  BY <1>1 DEF Reread
<1>3. r \in TxType /\ r.pc = "reread" /\ r.loaded = row /\ r.new = tx[x].new
  BY <1>1 DEF TxType, Phases
<1> HIDE DEF r
<1>4. tx'[x] = r
  BY <1>1, <1>2, <1>3
<1>5. Knows(x)'
  BY <1>1, <1>3, <1>4 DEF Knows
<1>6. /\ TypeOK' /\ \A y \in Transactions : Knows(y)'
      /\ \A y \in Transactions \ {x} : tx'[y] = tx[y]
  BY <1>1, <1>2, <1>3, <1>5, OneTransaction DEF IInv, TypeOK
<1>7. InFlight' = InFlight /\ x \in InFlight
  BY <1>1, <1>3, <1>4, <1>6 DEF InFlight
<1>8. Alone'
  BY <1>1, <1>7 DEF IInv, Alone
<1>9. UpToDate'
  <2> SUFFICES ASSUME ~overlap', row # Gone
               PROVE  /\ Stamped(row)
                      /\ \A y \in InFlight : /\ Stamped(tx'[y].new)
                                             /\ tx'[y].pc = "reread" => tx'[y].loaded = row
                                             /\ tx'[y].pc = "unchanged" => tx'[y].new = row
    BY <1>1, <1>7 DEF UpToDate
  <2>1. \A y \in InFlight : y = x
    BY <1>1, <1>7 DEF IInv, Alone
  <2>2. Stamped(row) /\ Stamped(tx[x].new)
    BY <1>1, <1>7 DEF IInv, UpToDate
  <2> QED
    BY <1>3, <1>4, <2>1, <2>2
<1>10. Processing'
  <2>1. NoPatch' => NoPatch
    BY <1>1, <1>6 DEF NoPatch, Transactions
  <2>2. \A y \in Attempts : y = x \/ tx'[y] = tx[y]
    BY <1>6 DEF Transactions
  <2>3. tx'[x].loaded = row /\ tx'[x].pc = "reread"
    BY <1>3, <1>4
  <2> QED
    BY <1>1, <2>1, <2>2, <2>3 DEF IInv, Processing, HasEffect
<1> QED
  BY <1>6, <1>8, <1>9, <1>10 DEF IInv

\* x ends.
LEMMA Ending ==
  ASSUME IInv, NEW x \in Transactions, NEW pc \in {"committed", "aborted"}, MoveTo(x, pc),
         row' \in Rows \cup {Gone}, overlap' = overlap,
         event' \in [status : Status, acknowledged_at : Stamps] \cup {None}
  PROVE  /\ TypeOK' /\ \A y \in Transactions : Knows(y)'
         /\ tx'[x].pc = pc /\ \A y \in Transactions \ {x} : tx'[y] = tx[y]
         /\ InFlight' = InFlight \ {x} /\ Alone'
<1> DEFINE r == [tx[x] EXCEPT !.pc = pc]
<1>1. tx[x] \in TxType /\ overlap' \in BOOLEAN
  BY DEF IInv, TypeOK, TxType
<1>2. r \in TxType /\ r.pc = pc
  BY <1>1 DEF TxType, Phases
<1>3. tx' = [tx EXCEPT ![x] = r]
  BY <1>1 DEF MoveTo
<1> HIDE DEF r
<1>4. tx'[x] = r
  BY <1>2, <1>3 DEF IInv, TypeOK
<1>5. Knows(x)'
  BY <1>2, <1>4 DEF Knows
<1>6. /\ TypeOK' /\ \A y \in Transactions : Knows(y)'
      /\ \A y \in Transactions \ {x} : tx'[y] = tx[y]
  BY <1>1, <1>2, <1>3, <1>5, OneTransaction
<1>7. InFlight' = InFlight \ {x}
  BY <1>2, <1>4, <1>6 DEF InFlight
<1>8. Alone'
  BY <1>7 DEF IInv, Alone
<1> QED
  BY <1>2, <1>4, <1>6, <1>7, <1>8

\* Without an overlap the flush makes the row the value of the transaction; otherwise a
\* processing attempt takes nothing back.
LEMMA Flushing ==
  ASSUME IInv, NEW x \in Transactions, tx[x].pc = "reread", row # Gone
  PROVE  /\ Flushed(x, row) \in Rows
         /\ ~overlap => Flushed(x, row) = tx[x].new /\ Stamped(tx[x].new)
         /\ x \in Attempts /\ NoPatch =>
              /\ Flushed(x, row).status # "OPEN"
              /\ Flushed(x, row).acknowledged_at # None
<1>1. row \in Rows /\ tx[x].new \in Rows /\ tx[x].loaded \in Rows /\ x \in InFlight
  BY DEF IInv, TypeOK, Knows, InFlight
<1>2. Flushed(x, row) \in Rows
  BY <1>1, FlushedRow
<1>3. ASSUME ~overlap PROVE Flushed(x, row) = tx[x].new /\ Stamped(tx[x].new)
  BY <1>1, <1>3, FlushedRow DEF IInv, UpToDate
<1>4. ASSUME x \in Attempts, NoPatch
      PROVE  /\ Flushed(x, row).status # "OPEN"
             /\ Flushed(x, row).acknowledged_at # None
  <2>1. /\ tx[x].new.status # "OPEN" /\ tx[x].new.acknowledged_at # None
    BY <1>4 DEF IInv, Knows
  <2>2. /\ tx[x].loaded.status # "OPEN" => row.status # "OPEN"
        /\ tx[x].loaded.acknowledged_at # None => row.acknowledged_at # None
    BY <1>4 DEF IInv, Processing
  <2> QED
    BY <1>1, <2>1, <2>2, FlushedRow
<1> QED
  BY <1>2, <1>3, <1>4

\* The flush of any writer keeps the stamp, without an overlap.
LEMMA FlushKeepsStamp ==
  ASSUME IInv, NEW x \in Transactions, tx[x].pc = "reread", row # Gone, row' = Flushed(x, row),
         overlap' = overlap, InFlight' = InFlight \ {x}
  PROVE  UpToDate'
<1>1. ASSUME ~overlap'
      PROVE  Stamped(row') /\ InFlight' = {}
  <2>1. x \in InFlight
    BY DEF InFlight
  <2>2. InFlight' = {}
    BY <1>1, <2>1 DEF IInv, Alone
  <2>3. Stamped(row')
    BY <1>1, Flushing DEF Stamped
  <2> QED
    BY <2>2, <2>3
<1> QED
  BY <1>1 DEF UpToDate, Stamped

LEMMA ReportedIsTyped ==
  ASSUME NEW x \in Transactions, tx[x].new \in Rows
  PROVE  Reported(x) \in [status : Status, acknowledged_at : Stamps]
BY DEF Reported, Rows
LEMMA PatchCommitStep ==
  ASSUME IInv, NEW x \in Transactions, PatchCommit(x)
  PROVE  IInv'
<1>1. /\ x \in Requests /\ tx[x].pc = "reread" /\ row # Gone /\ row' = Flushed(x, row)
      /\ MoveTo(x, "committed") /\ UNCHANGED <<event, overlap>>
  BY DEF PatchCommit
<1>2. Flushed(x, row) \in Rows
  BY <1>1, Flushing
<1>3. /\ TypeOK' /\ \A y \in Transactions : Knows(y)'
      /\ tx'[x].pc = "committed" /\ InFlight' = InFlight \ {x} /\ Alone'
  BY <1>1, <1>2, Ending DEF IInv, TypeOK
<1>4. UpToDate'
  BY <1>1, <1>3, FlushKeepsStamp
<1>5. Processing'
  BY <1>1, <1>3 DEF NoPatch, Processing
<1> QED
  BY <1>3, <1>4, <1>5 DEF IInv

LEMMA ProcessCommitStep ==
  ASSUME IInv, NEW x \in Transactions, ProcessCommit(x)
  PROVE  IInv'
<1>1. /\ x \in Attempts /\ tx[x].pc = "reread" /\ row # Gone /\ row' = Flushed(x, row)
      /\ MoveTo(x, "committed") /\ UNCHANGED overlap /\ Record(x)
  BY DEF ProcessCommit
<1>2. Flushed(x, row) \in Rows /\ tx[x].new \in Rows
  BY <1>1, Flushing DEF IInv, Knows
<1>3. event' \in [status : Status, acknowledged_at : Stamps] \cup {None}
  BY <1>1, <1>2, ReportedIsTyped DEF Record, IInv, TypeOK
<1>4. /\ TypeOK' /\ \A y \in Transactions : Knows(y)'
      /\ tx'[x].pc = "committed" /\ \A y \in Transactions \ {x} : tx'[y] = tx[y]
      /\ InFlight' = InFlight \ {x} /\ Alone'
  BY <1>1, <1>2, <1>3, Ending
<1>5. UpToDate'
  BY <1>1, <1>4, FlushKeepsStamp
<1>6. Processing'
  <2>1. x \notin Requests
    BY <1>1, NamesAssumption
  <2>2. NoPatch' => NoPatch
    BY <1>1, <1>4, <2>1 DEF NoPatch, Transactions
  <2>3. NoPatch' => row'.status # "OPEN" /\ row'.acknowledged_at # None
    BY <1>1, <2>2, Flushing
  <2>4. \A y \in Attempts : tx'[y].pc \in {"reread", "unchanged"} => tx'[y] = tx[y]
    BY <1>4 DEF Transactions
  <2> QED
    BY <2>3 DEF Processing, HasEffect
<1> QED
  BY <1>4, <1>5, <1>6 DEF IInv

LEMMA UnchangedCommitStep ==
  ASSUME IInv, NEW x \in Transactions, UnchangedCommit(x)
  PROVE  IInv'
<1>1. /\ tx[x].pc = "unchanged" /\ MoveTo(x, "committed") /\ UNCHANGED <<row, overlap>>
      /\ Record(x) /\ x \in Attempts /\ tx[x].new \in Rows
  BY DEF UnchangedCommit, IInv, Knows
<1>2. event' \in [status : Status, acknowledged_at : Stamps] \cup {None}
  BY <1>1, ReportedIsTyped DEF Record, IInv, TypeOK
<1>3. /\ TypeOK' /\ \A y \in Transactions : Knows(y)'
      /\ tx'[x].pc = "committed" /\ \A y \in Transactions \ {x} : tx'[y] = tx[y]
      /\ InFlight' = InFlight \ {x} /\ Alone'
  BY <1>1, <1>2, Ending DEF IInv, TypeOK
<1>4. UpToDate'
  <2>1. \A y \in InFlight' : y \in InFlight /\ tx'[y] = tx[y]
    BY <1>3 DEF InFlight
  <2> QED
    BY <1>1, <2>1 DEF IInv, UpToDate
<1>5. Processing'
  <2>1. NoPatch' => NoPatch
    BY <1>1, <1>3, NamesAssumption DEF NoPatch, Transactions
  <2>2. \A y \in Attempts : tx'[y].pc \in {"reread", "unchanged"} => tx'[y] = tx[y]
    BY <1>3 DEF Transactions
  <2>3. NoPatch /\ row # Gone => HasEffect(row)
    BY <1>1 DEF IInv, Processing
  <2>4. HasEffect(row)' <=> HasEffect(row)
    BY <1>1 DEF HasEffect
  <2> QED
    BY <1>1, <2>1, <2>2, <2>3, <2>4 DEF IInv, Processing
<1> QED
  BY <1>3, <1>4, <1>5 DEF IInv

LEMMA AbortStep ==
  ASSUME IInv, NEW x \in Transactions, Abort(x)
  PROVE  IInv'
<1>1. MoveTo(x, "aborted") /\ UNCHANGED <<row, event, overlap>>
  BY DEF Abort
<1>2. tx[x].pc # "committed"
  BY DEF Abort
<1>3. /\ TypeOK' /\ \A y \in Transactions : Knows(y)'
      /\ tx'[x].pc = "aborted" /\ \A y \in Transactions \ {x} : tx'[y] = tx[y]
      /\ InFlight' = InFlight \ {x} /\ Alone'
  BY <1>1, Ending DEF IInv, TypeOK
<1>4. UpToDate'
  <2>1. \A y \in InFlight' : y \in InFlight /\ tx'[y] = tx[y]
    BY <1>3 DEF InFlight
  <2> QED
    BY <1>1, <2>1 DEF IInv, UpToDate
<1>5. Processing'
  <2>1. NoPatch' => NoPatch
    BY <1>2, <1>3 DEF NoPatch, Transactions
  <2>2. \A y \in Attempts : tx'[y].pc \in {"reread", "unchanged"} => tx'[y] = tx[y]
    BY <1>3 DEF Transactions
  <2>3. HasEffect(row)' <=> HasEffect(row)
    BY <1>1 DEF HasEffect
  <2> QED
    BY <1>1, <2>1, <2>2, <2>3 DEF IInv, Processing
<1> QED
  BY <1>3, <1>4, <1>5 DEF IInv

\* A deleted incident is not written any more, and nothing is said about it.
LEMMA DeleteStep == ASSUME IInv, Delete PROVE IInv'
<1>1. row' = Gone /\ UNCHANGED <<event, tx, overlap>>
  BY DEF Delete
<1>2. TypeOK' /\ \A y \in Transactions : Knows(y)'
  BY <1>1 DEF IInv, TypeOK, Knows
<1>3. Alone' /\ UpToDate' /\ Processing'
  BY <1>1 DEF IInv, Alone, InFlight, UpToDate, Processing
<1> QED
  BY <1>2, <1>3 DEF IInv

LEMMA Stuttering == ASSUME IInv, UNCHANGED vars PROVE IInv'
BY DEF vars, IInv, TypeOK, Knows, Alone, InFlight, UpToDate, Stamped, Processing, NoPatch, HasEffect

LEMMA Inductive == ASSUME IInv, [Next]_vars PROVE IInv'
BY ProcessReadStep, PatchReadStep, RereadStep, PatchCommitStep, ProcessCommitStep,
   UnchangedCommitStep, AbortStep, DeleteStep, Stuttering DEF Next

LEMMA Invariance == Spec => []IInv
<1>1. Init => IInv
  <2> SUFFICES ASSUME Init PROVE IInv
    OBVIOUS
  <2>1. [pc |-> "ready", new |-> None, loaded |-> None] \in TxType
    BY DEF TxType, Phases
  <2>2. TypeOK
    BY <2>1, InitialRowsAssumption DEF Init, TypeOK, TxType
  <2>3. \A x \in Transactions : tx[x].pc = "ready"
    BY DEF Init
  <2>4. InFlight = {}
    BY <2>3 DEF InFlight
  <2>5. Stamped(row)
    BY InitialRowsAssumption DEF Init, Stamped
  <2>6. \A x \in Transactions : Knows(x)
    BY <2>3 DEF Knows
  <2>7. Processing
    BY <2>3 DEF Init, Processing, Transactions
  <2> QED
    BY <2>2, <2>4, <2>5, <2>6, <2>7 DEF IInv, Alone, UpToDate
<1>2. IInv /\ [Next]_vars => IInv'
  BY Inductive
<1> QED
  BY <1>1, <1>2, PTL DEF Spec

-----------------------------------------------------------------------------
\* An incident is resolved exactly when it has its timestamp, after any sequence of PATCH
\* requests and processing attempts of which no two overlap
\* (IncidentService._resolve_timestamp), and all variables keep their types.
THEOREM ResolvedIncidentsAreStamped == Spec => []ResolvedTimestampLifecycle
<1>1. IInv => ResolvedTimestampLifecycle
  BY DEF IInv, UpToDate, Stamped, ResolvedTimestampLifecycle
<1> QED
  BY <1>1, Invariance, PTL

\* However many attempts overlap after expired leases, a reported completion means that the
\* incident is under investigation and acknowledged, until a PATCH says otherwise
\* (IncidentTaskProcessingService.process).
THEOREM ReportedEffectsLast == Spec => []EffectIsReached
<1>1. IInv => EffectIsReached
  BY DEF IInv, Processing, NoPatch, EffectIsReached
<1> QED
  BY <1>1, Invariance, PTL

\* Only the commit of an attempt adds the event.
LEMMA ReportingStep ==
  ASSUME IInv, [Next]_vars, event = None, event' # None, row' # Gone, ~overlap
  PROVE  event'.status = row'.status /\ event'.acknowledged_at = row'.acknowledged_at
<1>1. PICK x \in Transactions : ProcessCommit(x) \/ UnchangedCommit(x)
  BY DEF Next, vars, ProcessRead, PatchRead, Reread, PatchCommit, Abort, Delete
<1>2. event' = Reported(x)
  BY <1>1 DEF ProcessCommit, UnchangedCommit, Record
<1>3. row' = tx[x].new
  <2>1. CASE ProcessCommit(x)
    BY <2>1, Flushing DEF ProcessCommit
  <2>2. CASE UnchangedCommit(x)
    BY <2>2 DEF UnchangedCommit, IInv, UpToDate, InFlight
  <2> QED
    BY <1>1, <2>1, <2>2
<1> QED
  BY <1>2, <1>3 DEF Reported

\* The completion event of a task reports the status and the acknowledgement that its
\* transaction commits, if it overlaps with no other (reconcile, IncidentProcessingResult).
THEOREM EventsReportTheCommit == Spec => EventReportsTheCommit
<1>1. IInv /\ [Next]_vars =>
        [event = None /\ event' # None /\ row' # Gone /\ ~overlap =>
           /\ event'.status = row'.status
           /\ event'.acknowledged_at = row'.acknowledged_at]_vars
  BY ReportingStep
<1> QED
  BY <1>1, Invariance, PTL DEF Spec, EventReportsTheCommit
=============================================================================
