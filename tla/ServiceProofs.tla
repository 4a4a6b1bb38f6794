---------------------------- MODULE ServiceProofs ---------------------------
(***************************************************************************)
(* Theorems about TransferService and about AccountService, for any        *)
(* requests, keys and accounts and every value of the other constants.     *)
(***************************************************************************)
EXTENDS TransferService, AccountService, TLAPS

-----------------------------------------------------------------------------
(* Internal transfers. *)

Next == TransferNext \/ TransferCrash \/ (TransfersQuiet /\ UNCHANGED tVars)

-----------------------------------------------------------------------------
(* Type correctness. *)

(* The transaction has checked that the source can pay before it pays: *)
(* without this, balances could not be shown to stay natural numbers.  *)
SourceCanPay == \A r \in TransferRequests :
  tPc[r] \in TInTx \ {"debitSelect"} => tFrom[r] >= tJob[r].amount

(* A request past the INSERT works on the row it inserted: the status it *)
(* saves lands on a row that exists, and on no other request's.          *)
PastInsert == (TOpen \ TBefore) \cup {"done", "failed", "error"}

OwnsRow == \A r \in TransferRequests :
  tPc[r] \in PastInsert => transfers[tJob[r].key].id = r

TypeInv == StoreTypeOK /\ TransferTypeOK /\ SourceCanPay /\ OwnsRow

LEMMA TypeInit == TransferServiceInit => TypeInv
BY StoreAssumption, TransferServiceAssumption
   DEF TransferServiceInit, StoreInit, TransferInit, TypeInv, StoreTypeOK, TransferTypeOK,
       SourceCanPay, OwnsRow, NoTransfer, PastInsert, TInTx, TOpen, TBefore

(* What a crash does to the transfers; other requests may die with them. *)
TransfersDropped ==
  /\ DropConnections
  /\ DropTransfers
  /\ UNCHANGED <<accounts, ledger, posted, transfers, tJob, tFrom, tTo, audit>>

LEMMA TypeDropped == TypeInv /\ TransfersDropped => TypeInv'
BY DEF TypeInv, StoreTypeOK, TransferTypeOK, SourceCanPay, OwnsRow, PastInsert, TInTx, TBefore,
       TOpen, TEnded, TransfersDropped, DropConnections, DropTransfers

LEMMA TypeNext == TypeInv /\ [Next]_tVars => TypeInv'
<1> SUFFICES ASSUME TypeInv, [Next]_tVars PROVE TypeInv'
  OBVIOUS
<1> USE StoreAssumption, TransferServiceAssumption
        DEF TypeInv, StoreTypeOK, TransferTypeOK, SourceCanPay, OwnsRow, PastInsert, TInTx, TBefore, TOpen, TEnded
<1>1. ASSUME NEW r \in TransferRequests, CallTransfer(r) PROVE TypeInv'
  BY <1>1 DEF CallTransfer, storeVars, TransferJob
<1>2. ASSUME NEW r \in TransferRequests, CheckExisting(r) PROVE TypeInv'
  BY <1>2 DEF CheckExisting, TGoto, storeVars
<1>3. ASSUME NEW r \in TransferRequests, ReadSource(r) \/ ReadDestination(r) PROVE TypeInv'
  BY <1>3 DEF ReadSource, ReadDestination, TGoto, storeVars
<1>4. ASSUME NEW r \in TransferRequests, CreateTransfer(r) PROVE TypeInv'
  <2>1. tJob[r].key \in Keys
    BY <1>4 DEF CreateTransfer, InsertTransfer, TransferJob
  <2>2. CASE transfers[tJob[r].key] = NoTransfer
    <3>1. transfers' = [transfers EXCEPT ![tJob[r].key] = [id |-> r, status |-> "pending"]]
      BY <1>4, <2>2 DEF CreateTransfer, InsertTransfer
    <3>2. transfers' \in [Keys -> TransferRow \cup {NoTransfer}]
      BY <3>1 DEF TransferRow
    <3>3. \A q \in TransferRequests : tPc[q] \in PastInsert => tJob[q].key # tJob[r].key
      BY <2>2 DEF NoTransfer
    <3>4. OwnsRow'
      BY <3>1, <3>3, <2>1, <1>4 DEF CreateTransfer, InsertTransfer, TGoto, TransferJob
    <3>5. QED
      BY <3>2, <3>4, <1>4 DEF CreateTransfer, InsertTransfer, TGoto, storeVars
  <2>3. CASE transfers[tJob[r].key] # NoTransfer
    BY <2>3, <1>4 DEF CreateTransfer, InsertTransfer, TGoto, storeVars
  <2>4. QED
    BY <2>2, <2>3
<1>5. ASSUME NEW r \in TransferRequests, NEW pc \in TInTx, Rollback(r, pc) PROVE TypeInv'
  BY <1>5 DEF Rollback, TGoto, Unlock
<1>6. ASSUME NEW r \in TransferRequests, SelectSource(r) PROVE TypeInv'
  <2>1. CASE Rollback(r, "debitSelect")
    BY <1>5, <2>1
  <2>2. CASE ~Rollback(r, "debitSelect")
    <3>1. /\ TGoto(r, "debitSelect", "debit")
          /\ accounts[tJob[r].from].balance >= tJob[r].amount
          /\ SelectForUpdate(r, tJob[r].from)
          /\ tFrom' = [tFrom EXCEPT ![r] = accounts[tJob[r].from].balance]
          /\ UNCHANGED <<accounts, ledger, posted, transfers, tJob, tTo, audit>>
      BY <1>6, <2>2 DEF SelectSource, BalanceAllowed
    <3>2. tJob[r].from \in Accounts /\ accounts[tJob[r].from].balance \in Nat
      BY <3>1 DEF TGoto, TransferJob, AccountRow
    <3>3. QED
      BY <3>1, <3>2 DEF TGoto, SelectForUpdate, Lock
  <2>3. QED
    BY <2>1, <2>2
<1>7. ASSUME NEW r \in TransferRequests, DebitSource(r) PROVE TypeInv'
  BY <1>5, <1>7 DEF DebitSource, TGoto, Lock, TransferJob
<1>8. ASSUME NEW r \in TransferRequests, SelectDestination(r) PROVE TypeInv'
  <2>1. CASE Rollback(r, "creditSelect")
    BY <1>5, <2>1
  <2>2. CASE ~Rollback(r, "creditSelect")
    <3>1. /\ TGoto(r, "creditSelect", "credit")
          /\ SelectForUpdate(r, tJob[r].to)
          /\ tTo' = [tTo EXCEPT ![r] = accounts[tJob[r].to].balance]
          /\ UNCHANGED <<accounts, ledger, posted, transfers, tJob, tFrom, audit>>
      BY <1>8, <2>2 DEF SelectDestination
    <3>2. tJob[r].to \in Accounts /\ accounts[tJob[r].to].balance \in Nat
      BY <3>1 DEF TGoto, TransferJob, AccountRow
    <3>3. QED
      BY <3>1, <3>2 DEF TGoto, SelectForUpdate, Lock
  <2>3. QED
    BY <2>1, <2>2
<1>9. ASSUME NEW r \in TransferRequests, CreditDestination(r) PROVE TypeInv'
  BY <1>5, <1>9 DEF CreditDestination, TGoto, Lock, TransferJob
<1>10. ASSUME NEW r \in TransferRequests, CommitTransfer(r) PROVE TypeInv'
  <2> DEFINE j == tJob[r]
  <2>1. /\ j \in TransferJob /\ tFrom[r] \in Nat /\ tTo[r] \in Nat
        /\ j.amount \in Nat /\ tFrom[r] >= j.amount /\ j.from \in Accounts /\ j.to \in Accounts
    BY <1>10 DEF CommitTransfer, TGoto, TransferJob
  <2>2. DebitEntry(r).after \in Nat /\ CreditEntry(r).after \in Nat
    BY <2>1 DEF DebitEntry, CreditEntry, Entry
  <2>3. {DebitEntry(r), CreditEntry(r)} \subseteq LedgerRow
    BY <2>1 DEF DebitEntry, CreditEntry, Entry, LedgerRow
  <2>4. accounts' \in [Accounts -> AccountRow]
    <3> DEFINE paid == [accounts EXCEPT ![j.from].balance = DebitEntry(r).after]
    <3>1. paid \in [Accounts -> AccountRow]
      BY <2>1, <2>2 DEF AccountRow
    <3>2. accounts' = [paid EXCEPT ![j.to].balance = CreditEntry(r).after]
      BY <1>10 DEF CommitTransfer
    <3> HIDE DEF paid
    <3>3. QED
      BY <3>1, <3>2, <2>1, <2>2 DEF AccountRow
  <2>5. ledger' \subseteq LedgerRow /\ posted' \subseteq Requests
    BY <2>3, <1>10 DEF CommitTransfer
  <2>6. QED
    BY <2>4, <2>5, <1>10 DEF CommitTransfer, TGoto, Unlock
<1>11. ASSUME NEW r \in TransferRequests, MarkCompleted(r) \/ MarkFailed(r) PROVE TypeInv'
  <2>1. /\ tJob[r].key \in Keys /\ transfers[tJob[r].key].id = r
        /\ transfers[tJob[r].key] \in TransferRow
    BY <1>11 DEF MarkCompleted, MarkFailed, TGoto, TransferJob, NoTransfer, TransferRow
  <2>2. \A status \in {"completed", "failed"} :
          SetStatus(tJob[r].key, status) =>
            /\ transfers' \in [Keys -> TransferRow \cup {NoTransfer}]
            /\ \A k \in Keys : transfers'[k].id = transfers[k].id
    BY <2>1 DEF SetStatus, TransferRow
  <2>3. /\ transfers' \in [Keys -> TransferRow \cup {NoTransfer}]
        /\ \A k \in Keys : transfers'[k].id = transfers[k].id
    BY <2>2, <1>11 DEF MarkCompleted, MarkFailed
  <2>4. \A q \in TransferRequests : tPc[q] # "idle" => tJob[q].key \in Keys
    BY DEF TransferJob
  <2>5. QED
    BY <2>3, <2>4, <1>11 DEF MarkCompleted, MarkFailed, TGoto, storeVars
<1>12. ASSUME NEW r \in TransferRequests, AuditOutcome(r) PROVE TypeInv'
  BY <1>12 DEF AuditOutcome, Audit, TGoto, storeVars, Events, TransferJob
<1>13. ASSUME NEW r \in TransferRequests, TransferDBError(r) PROVE TypeInv'
  BY <1>13 DEF TransferDBError, TGoto, storeVars
<1>14. ASSUME TransferCrash PROVE TypeInv'
  BY <1>14, TypeDropped DEF TransferCrash, TransfersDropped
<1>15. ASSUME UNCHANGED tVars PROVE TypeInv'
  BY <1>15 DEF tVars, storeVars, transferVars
<1>16. ASSUME NEW r \in TransferRequests, TransferStep(r) PROVE TypeInv'
  BY <1>1, <1>2, <1>3, <1>4, <1>5, <1>6, <1>7, <1>8, <1>9, <1>10, <1>11, <1>12, <1>16
     DEF TransferStep, DeadlockVictim
<1>17. QED
  BY <1>1, <1>5, <1>13, <1>14, <1>15, <1>16 DEF Next, TransferNext, TransactionError

(* Balances stay natural numbers, whatever the requests do, and every        *)
(* variable stays in its type; a request past its INSERT owns a row.         *)
THEOREM TypesAreCorrect == TransferServiceSpec => [](StoreTypeOK /\ TransferTypeOK)
<1>1. TransferServiceSpec => TransferServiceInit /\ [][Next]_tVars
  BY PTL DEF TransferServiceSpec, Next
<1>2. TypeInv => StoreTypeOK /\ TransferTypeOK
  BY DEF TypeInv
<1>3. QED
  BY <1>1, <1>2, TypeInit, TypeNext, PTL

-----------------------------------------------------------------------------
(* The inductive invariant of the idempotency keys. *)

(* A row belongs to a request that was called, and with this key. *)
RowsHaveCallers == \A k \in Keys : transfers[k] # NoTransfer =>
  LET r == transfers[k].id IN tPc[r] # "idle" /\ tJob[r].key = k

(* Until its request saves the outcome, a row is pending. *)
OpenRowsPend == \A r \in TransferRequests :
  tPc[r] \in TInTx \cup {"markCompleted", "markFailed"} =>
    transfers[tJob[r].key].status = "pending"

(* Where a request can be that has moved its money. *)
AfterCommit ==
  {"markCompleted", "auditCompleted", "done", "error", "crashed"}
    \cup IF AmbiguousCommit THEN {"markFailed", "auditFailed", "failed"} ELSE {}

MoversOwnRows == \A r \in TransferRequests \cap posted :
  tPc[r] \in AfterCommit /\ transfers[tJob[r].key].id = r

SuccessesMoved == \A r \in TransferRequests :
  tPc[r] \in {"markCompleted", "auditCompleted", "done", "error"} => r \in posted

RowsAreHonest == \A k \in Keys :
  /\ transfers[k].status = "completed" => transfers[k].id \in posted
  /\ transfers[k].status = "failed" /\ ~AmbiguousCommit => transfers[k].id \notin posted

AnswersHaveRows == \A r \in TransferRequests :
  tPc[r] \in {"auditCompleted", "done", "replayed"} =>
    transfers[tJob[r].key].status = "completed"

AuditHasRows == \A k \in Keys :
  /\ <<k, "transfer.completed">> \in audit => transfers[k].status = "completed"
  /\ <<k, "transfer.failed">> \in audit =>
       transfers[k] # NoTransfer /\ tPc[transfers[k].id] = "failed"

KeyInv ==
  /\ RowsHaveCallers
  /\ OpenRowsPend
  /\ MoversOwnRows
  /\ SuccessesMoved
  /\ RowsAreHonest
  /\ AnswersHaveRows
  /\ AuditHasRows

LEMMA KeyInit == TransferServiceInit => KeyInv
BY DEF TransferServiceInit, StoreInit, TransferInit, KeyInv, RowsHaveCallers, OpenRowsPend, MoversOwnRows,
       SuccessesMoved, RowsAreHonest, AnswersHaveRows, AuditHasRows, NoTransfer, TInTx

(* A step that only moves one program counter, to a place KeyInv asks nothing *)
(* more of, keeps KeyInv.                                                     *)
LEMMA KeyMove ==
  ASSUME TypeInv, KeyInv, NEW r \in TransferRequests, NEW from, NEW to,
         TGoto(r, from, to), UNCHANGED <<posted, transfers, tJob, audit>>,
         from \in TBefore \cup TInTx \cup {"markFailed"},
         to \in TBefore \cup TInTx \cup {"rejected", "markFailed", "auditFailed"},
         to \in TInTx \cup {"markFailed"} => from \in TInTx,
         from = "markFailed" <=> to = "auditFailed"
  PROVE  KeyInv'
<1> USE DEF TGoto, TypeInv, StoreTypeOK, TransferTypeOK, TBefore, TInTx, TOpen, TEnded
<1>1. tPc' = [tPc EXCEPT ![r] = to] /\ tPc[r] = from /\ from # "idle" /\ to # "idle"
  OBVIOUS
<1>2. from \in AfterCommit => to \in AfterCommit
  BY DEF AfterCommit
<1>3. r \in posted => from \in AfterCommit
  BY <1>1 DEF KeyInv, MoversOwnRows
<1>4. RowsHaveCallers'
  BY <1>1 DEF KeyInv, RowsHaveCallers
<1>5. OpenRowsPend'
  BY <1>1 DEF KeyInv, OpenRowsPend
<1>6. MoversOwnRows'
  BY <1>1, <1>2, <1>3 DEF KeyInv, MoversOwnRows, AfterCommit
<1>7. SuccessesMoved' /\ RowsAreHonest' /\ AnswersHaveRows'
  BY <1>1 DEF KeyInv, SuccessesMoved, RowsAreHonest, AnswersHaveRows
<1>8. AuditHasRows'
  <2>1. \A q \in TransferRequests : tPc[q] = "failed" => tPc'[q] = "failed"
    BY <1>1
  <2>2. \A k \in Keys : transfers[k] # NoTransfer => transfers[k].id \in TransferRequests
    BY DEF TransferRow
  <2>3. QED
    BY <2>1, <2>2 DEF KeyInv, AuditHasRows
<1>9. QED
  BY <1>4, <1>5, <1>6, <1>7, <1>8 DEF KeyInv

LEMMA KeyDropped == TypeInv /\ KeyInv /\ TransfersDropped => KeyInv'
<1> SUFFICES ASSUME TypeInv, KeyInv, TransfersDropped PROVE KeyInv'
  OBVIOUS
<1> USE DEF TypeInv, TransferTypeOK, TBefore, TInTx, TOpen, TEnded
<1>1. UNCHANGED <<posted, transfers, tJob, audit>>
  BY DEF TransfersDropped
<1>2. \A r \in TransferRequests :
        tPc'[r] = (IF tPc[r] \in TOpen THEN "crashed" ELSE tPc[r])
  BY DEF TransfersDropped, DropTransfers
<1>3. RowsHaveCallers' /\ OpenRowsPend'
  BY <1>1, <1>2 DEF KeyInv, RowsHaveCallers, OpenRowsPend, TransferRow
<1>4. MoversOwnRows' /\ SuccessesMoved' /\ RowsAreHonest'
  BY <1>1, <1>2 DEF KeyInv, MoversOwnRows, SuccessesMoved, RowsAreHonest, AfterCommit
<1>5. AnswersHaveRows'
  BY <1>1, <1>2 DEF KeyInv, AnswersHaveRows
<1>6. AuditHasRows'
  <2>1. \A k \in Keys : transfers[k] # NoTransfer => transfers[k].id \in TransferRequests
    BY DEF TransferRow
  <2>2. \A q \in TransferRequests : tPc[q] = "failed" => tPc'[q] = "failed"
    BY <1>2
  <2>3. QED
    BY <1>1, <2>1, <2>2 DEF KeyInv, AuditHasRows
<1>7. QED
  BY <1>3, <1>4, <1>5, <1>6 DEF KeyInv

LEMMA KeyNext == TypeInv /\ KeyInv /\ [Next]_tVars => KeyInv'
<1> SUFFICES ASSUME TypeInv, KeyInv, [Next]_tVars PROVE KeyInv'
  OBVIOUS
<1> USE TransferServiceAssumption
        DEF TypeInv, StoreTypeOK, TransferTypeOK, TBefore, TInTx, TOpen, TEnded
<1>1. ASSUME NEW r \in TransferRequests, CallTransfer(r) PROVE KeyInv'
  <2>1. /\ tPc[r] = "idle"
        /\ \E to \in {"rejected", "lookup"} : tPc' = [tPc EXCEPT ![r] = to]
        /\ \E j \in TransferJob : tJob' = [tJob EXCEPT ![r] = j]
        /\ UNCHANGED <<posted, transfers, audit>>
    BY <1>1 DEF CallTransfer, storeVars
  <2>2. \A q \in TransferRequests : q # r => tPc'[q] = tPc[q] /\ tJob'[q] = tJob[q]
    BY <2>1
  <2>3. \A k \in Keys : transfers[k] # NoTransfer =>
          transfers[k].id \in TransferRequests \ {r}
    BY <2>1 DEF KeyInv, RowsHaveCallers, TransferRow
  <2>4. r \notin posted
    BY <2>1 DEF KeyInv, MoversOwnRows, AfterCommit
  <2>5. tPc'[r] \in {"rejected", "lookup"}
    BY <2>1
  <2>6. RowsHaveCallers' /\ OpenRowsPend'
    BY <2>1, <2>2, <2>3, <2>5 DEF KeyInv, RowsHaveCallers, OpenRowsPend
  <2>7. MoversOwnRows' /\ SuccessesMoved' /\ RowsAreHonest'
    BY <2>1, <2>2, <2>4, <2>5 DEF KeyInv, MoversOwnRows, SuccessesMoved, RowsAreHonest
  <2>8. AnswersHaveRows' /\ AuditHasRows'
    BY <2>1, <2>2, <2>3, <2>5 DEF KeyInv, AnswersHaveRows, AuditHasRows
  <2>9. QED
    BY <2>6, <2>7, <2>8 DEF KeyInv
<1>2. ASSUME NEW r \in TransferRequests, CheckExisting(r) PROVE KeyInv'
  <2>1. CASE TGoto(r, "lookup", "readSource") \/ TGoto(r, "lookup", "rejected")
    BY <1>2, <2>1, KeyMove DEF CheckExisting, storeVars
  <2>2. CASE transfers[tJob[r].key].status = "completed" /\ TGoto(r, "lookup", "replayed")
    <3>1. tPc[r] = "lookup" /\ tPc' = [tPc EXCEPT ![r] = "replayed"]
      BY <1>2, <2>2 DEF CheckExisting, TGoto
    <3>2. UNCHANGED <<posted, transfers, tJob, audit>>
      BY <1>2 DEF CheckExisting, storeVars
    <3>3. r \notin posted
      BY <3>1 DEF KeyInv, MoversOwnRows, AfterCommit
    <3>4. \A k \in Keys : transfers[k] # NoTransfer => transfers[k].id \in TransferRequests
      BY DEF TransferRow
    <3>5. RowsHaveCallers' /\ OpenRowsPend' /\ MoversOwnRows'
      BY <3>1, <3>2, <3>3, <3>4 DEF KeyInv, RowsHaveCallers, OpenRowsPend, MoversOwnRows
    <3>6. SuccessesMoved' /\ RowsAreHonest' /\ AnswersHaveRows'
      BY <3>1, <3>2, <2>2 DEF KeyInv, SuccessesMoved, RowsAreHonest, AnswersHaveRows
    <3>7. \A q \in TransferRequests : tPc[q] = "failed" => tPc'[q] = "failed"
      BY <3>1
    <3>8. AuditHasRows'
      BY <3>2, <3>4, <3>7 DEF KeyInv, AuditHasRows
    <3>9. QED
      BY <3>5, <3>6, <3>8 DEF KeyInv
  <2>3. QED
    BY <2>1, <2>2, <1>2 DEF CheckExisting
<1>3. ASSUME NEW r \in TransferRequests, ReadSource(r) \/ ReadDestination(r) PROVE KeyInv'
  <2>1. \E from, to \in TBefore \cup {"rejected"} :
          TGoto(r, from, to) /\ from \in TBefore
    BY <1>3 DEF ReadSource, ReadDestination
  <2>2. QED
    BY <1>3, <2>1, KeyMove DEF ReadSource, ReadDestination, storeVars
<1>5. ASSUME NEW r \in TransferRequests, NEW pc \in TInTx, Rollback(r, pc) PROVE KeyInv'
  BY <1>5, KeyMove DEF Rollback
<1>6. ASSUME NEW r \in TransferRequests, SelectSource(r) PROVE KeyInv'
  BY <1>5, <1>6, KeyMove DEF SelectSource
<1>7. ASSUME NEW r \in TransferRequests, DebitSource(r) PROVE KeyInv'
  BY <1>5, <1>7, KeyMove DEF DebitSource
<1>8. ASSUME NEW r \in TransferRequests, SelectDestination(r) PROVE KeyInv'
  BY <1>5, <1>8, KeyMove DEF SelectDestination
<1>9. ASSUME NEW r \in TransferRequests, CreditDestination(r) PROVE KeyInv'
  BY <1>5, <1>9, KeyMove DEF CreditDestination
<1>4. ASSUME NEW r \in TransferRequests, CreateTransfer(r) PROVE KeyInv'
  <2> DEFINE k == tJob[r].key
  <2>1. CASE transfers[k] # NoTransfer
    BY <1>4, <2>1, KeyMove DEF CreateTransfer, InsertTransfer, storeVars
  <2>2. CASE transfers[k] = NoTransfer
    <3>1. /\ tPc[r] = "create"
          /\ \E to \in {"debitSelect", "rejected"} : tPc' = [tPc EXCEPT ![r] = to]
          /\ transfers' = [transfers EXCEPT ![k] = [id |-> r, status |-> "pending"]]
          /\ UNCHANGED <<posted, tJob, audit>>
      BY <1>4, <2>2 DEF CreateTransfer, InsertTransfer, TGoto, storeVars
    <3>2. /\ tPc'[r] \in {"debitSelect", "rejected"} /\ k \in Keys
          /\ \A q \in TransferRequests : q # r => tPc'[q] = tPc[q]
      BY <3>1 DEF TransferJob
    <3>3. /\ transfers'[k] = [id |-> r, status |-> "pending"]
          /\ \A l \in Keys : l # k => transfers'[l] = transfers[l]
      BY <3>1, <3>2
    <3>4. r \notin posted
      BY <3>1 DEF KeyInv, MoversOwnRows, AfterCommit
    <3>5. \A q \in TransferRequests :
            tPc[q] \in PastInsert \cup {"replayed"} \/ q \in posted => tJob[q].key # k
      <4>1. transfers[k].id \notin TransferRequests /\ transfers[k].status = "none"
        BY <2>2, StoreAssumption DEF NoTransfer
      <4>2. QED
        BY <4>1 DEF OwnsRow, KeyInv, MoversOwnRows, AnswersHaveRows
    <3>6. \A l \in Keys : transfers[l] # NoTransfer =>
            transfers[l].id \in TransferRequests \ {r} \/ l = k
      BY <2>2 DEF TransferRow, KeyInv, RowsHaveCallers
    <3>7. RowsHaveCallers'
      BY <3>1, <3>2, <3>3, <3>6 DEF KeyInv, RowsHaveCallers
    <3>8. OpenRowsPend'
      BY <3>1, <3>2, <3>3, <3>5 DEF KeyInv, OpenRowsPend, PastInsert, TransferJob
    <3>9. MoversOwnRows'
      BY <3>1, <3>2, <3>3, <3>4, <3>5 DEF KeyInv, MoversOwnRows, AfterCommit, TransferJob
    <3>10. SuccessesMoved' /\ AnswersHaveRows'
      BY <3>1, <3>2, <3>3, <3>5 DEF KeyInv, SuccessesMoved, AnswersHaveRows, PastInsert, TransferJob
    <3>11. RowsAreHonest'
      BY <3>1, <3>3 DEF KeyInv, RowsAreHonest
    <3>12. AuditHasRows'
      <4>1. <<k, "transfer.completed">> \notin audit /\ <<k, "transfer.failed">> \notin audit
        BY <2>2, <3>2 DEF KeyInv, AuditHasRows, NoTransfer
      <4>2. QED
        BY <4>1, <3>1, <3>2, <3>3, <3>6, ZenonT(60) DEF KeyInv, AuditHasRows
    <3>13. QED
      BY <3>7, <3>8, <3>9, <3>10, <3>11, <3>12 DEF KeyInv
  <2>3. QED
    BY <2>1, <2>2
<1>10. ASSUME NEW r \in TransferRequests, CommitTransfer(r) PROVE KeyInv'
  <2>1. /\ tPc[r] = "commit"
        /\ \/ tPc' = [tPc EXCEPT ![r] = "markCompleted"]
           \/ /\ AmbiguousCommit
              /\ tPc' = [tPc EXCEPT ![r] = "markFailed"]
        /\ posted' = posted \cup {r}
        /\ UNCHANGED <<transfers, tJob, audit>>
    BY <1>10 DEF CommitTransfer, TGoto
  <2>2. /\ tPc'[r] \in {"markCompleted"} \cup IF AmbiguousCommit THEN {"markFailed"} ELSE {}
        /\ \A q \in TransferRequests : q # r => tPc'[q] = tPc[q]
    BY <2>1
  <2>3. /\ transfers[tJob[r].key].id = r /\ transfers[tJob[r].key].status = "pending"
    BY <2>1 DEF OwnsRow, PastInsert, KeyInv, OpenRowsPend
  <2>4. \A k \in Keys : transfers[k].id = r => transfers[k].status = "pending"
    <3>1. SUFFICES ASSUME NEW k \in Keys, transfers[k].id = r
                   PROVE  transfers[k].status = "pending"
      OBVIOUS
    <3>2. tJob[r].key = k
      BY <3>1, StoreAssumption DEF KeyInv, RowsHaveCallers, NoTransfer
    <3>3. QED
      BY <3>2, <2>3
  <2>5. RowsHaveCallers' /\ OpenRowsPend'
    BY <2>1, <2>2 DEF KeyInv, RowsHaveCallers, OpenRowsPend, TransferRow
  <2>6. MoversOwnRows' /\ SuccessesMoved'
    BY <2>1, <2>2, <2>3 DEF KeyInv, MoversOwnRows, SuccessesMoved, AfterCommit
  <2>7. RowsAreHonest' /\ AnswersHaveRows'
    BY <2>1, <2>2, <2>4 DEF KeyInv, RowsAreHonest, AnswersHaveRows
  <2>8. AuditHasRows'
    <3>1. \A q \in TransferRequests : tPc[q] = "failed" => tPc'[q] = "failed"
      BY <2>1, <2>2
    <3>2. \A k \in Keys : transfers[k] # NoTransfer => transfers[k].id \in TransferRequests
      BY DEF TransferRow
    <3>3. QED
      BY <3>1, <3>2, <2>1 DEF KeyInv, AuditHasRows
  <2>9. QED
    BY <2>5, <2>6, <2>7, <2>8 DEF KeyInv
<1>11. ASSUME NEW r \in TransferRequests, MarkCompleted(r) PROVE KeyInv'
  <2> DEFINE k == tJob[r].key
  <2>1. /\ tPc[r] = "markCompleted"
        /\ \/ /\ tPc' = [tPc EXCEPT ![r] = "auditCompleted"] /\ SetStatus(k, "completed")
           \/ /\ tPc' = [tPc EXCEPT ![r] = "error"]
              /\ UNCHANGED transfers \/ SetStatus(k, "completed")
        /\ UNCHANGED <<posted, tJob, audit>>
    BY <1>11 DEF MarkCompleted, TGoto, storeVars
  <2>2. /\ k \in Keys /\ r \in posted
        /\ transfers[k].id = r /\ transfers[k].status = "pending"
    BY <2>1 DEF OwnsRow, PastInsert, KeyInv, OpenRowsPend, SuccessesMoved, TransferJob
  <2>3. /\ tPc'[r] \in {"auditCompleted", "error"}
        /\ tPc'[r] = "auditCompleted" => transfers'[k].status = "completed"
        /\ \A q \in TransferRequests : q # r => tPc'[q] = tPc[q]
    BY <2>1, <2>2 DEF SetStatus, TransferRow, NoTransfer
  <2>4. /\ transfers'[k].id = r /\ transfers'[k].status \in {"pending", "completed"}
        /\ \A l \in Keys : l # k => transfers'[l] = transfers[l]
    BY <2>1, <2>2 DEF SetStatus, TransferRow, NoTransfer
  <2>5. \A q \in TransferRequests : q # r /\ tPc[q] # "idle" /\ tJob[q].key = k =>
          tPc[q] \notin PastInsert \cup {"replayed"} /\ q \notin posted
    BY <2>2 DEF OwnsRow, KeyInv, AnswersHaveRows, MoversOwnRows
  <2>6. \A q \in TransferRequests : tPc[q] # "idle" => tJob[q].key \in Keys
    BY DEF TransferJob
  <2>7. RowsHaveCallers'
    BY <2>1, <2>2, <2>3, <2>4 DEF KeyInv, RowsHaveCallers, TransferRow
  <2>8. OpenRowsPend'
    BY <2>1, <2>2, <2>3, <2>4, <2>5, <2>6 DEF KeyInv, OpenRowsPend, PastInsert
  <2>9. MoversOwnRows'
    <3>1. \A q \in TransferRequests \cap posted : q # r => tJob[q].key # k /\ tPc[q] # "idle"
      BY <2>5 DEF KeyInv, MoversOwnRows, AfterCommit
    <3>2. QED
      BY <3>1, <2>1, <2>2, <2>3, <2>4, <2>6 DEF KeyInv, MoversOwnRows, AfterCommit
  <2>10. SuccessesMoved'
    BY <2>1, <2>2, <2>3 DEF KeyInv, SuccessesMoved
  <2>11. RowsAreHonest'
    BY <2>1, <2>2, <2>4 DEF KeyInv, RowsAreHonest
  <2>12. AnswersHaveRows'
    BY <2>1, <2>2, <2>3, <2>4, <2>5, <2>6 DEF KeyInv, AnswersHaveRows, PastInsert
  <2>13. AuditHasRows'
    <3>1. <<k, "transfer.completed">> \notin audit /\ <<k, "transfer.failed">> \notin audit
      BY <2>1, <2>2 DEF KeyInv, AuditHasRows
    <3>2. \A l \in Keys : l # k /\ transfers[l] # NoTransfer =>
            transfers[l].id \in TransferRequests \ {r}
      BY DEF TransferRow, KeyInv, RowsHaveCallers
    <3>3. ASSUME NEW l \in Keys, l # k, <<l, "transfer.failed">> \in audit
          PROVE  transfers'[l] # NoTransfer /\ tPc'[transfers'[l].id] = "failed"
      <4>1. transfers[l] # NoTransfer /\ tPc[transfers[l].id] = "failed"
        BY <3>3 DEF KeyInv, AuditHasRows
      <4>2. transfers[l].id \in TransferRequests \ {r}
        BY <3>2, <3>3, <4>1
      <4>3. QED
        BY <2>3, <2>4, <3>3, <4>1, <4>2
    <3>4. QED
      BY <3>1, <3>3, <2>1, <2>4 DEF KeyInv, AuditHasRows
  <2>14. QED
    BY <2>7, <2>8, <2>9, <2>10, <2>11, <2>12, <2>13 DEF KeyInv
<1>12. ASSUME NEW r \in TransferRequests, MarkFailed(r) PROVE KeyInv'
  <2> DEFINE k == tJob[r].key
  <2>1. /\ tPc[r] = "markFailed" /\ tPc' = [tPc EXCEPT ![r] = "auditFailed"]
        /\ UNCHANGED transfers \/ SetStatus(k, "failed")
        /\ UNCHANGED <<posted, tJob, audit>>
    BY <1>12 DEF MarkFailed, TGoto, storeVars
  <2>2. /\ k \in Keys /\ r \in posted => AmbiguousCommit
        /\ transfers[k].id = r /\ transfers[k].status = "pending"
    BY <2>1 DEF OwnsRow, PastInsert, KeyInv, OpenRowsPend, MoversOwnRows, AfterCommit, TransferJob
  <2>3. /\ tPc'[r] = "auditFailed"
        /\ \A q \in TransferRequests : q # r => tPc'[q] = tPc[q]
    BY <2>1
  <2>4. /\ transfers'[k].id = r /\ transfers'[k].status \in {"pending", "failed"}
        /\ \A l \in Keys : l # k => transfers'[l] = transfers[l]
    BY <2>1, <2>2 DEF SetStatus, TransferRow, NoTransfer
  <2>5. \A q \in TransferRequests : q # r /\ tPc[q] # "idle" /\ tJob[q].key = k =>
          tPc[q] \notin PastInsert \cup {"replayed"} /\ q \notin posted
    BY <2>2 DEF OwnsRow, KeyInv, AnswersHaveRows, MoversOwnRows
  <2>6. \A q \in TransferRequests : tPc[q] # "idle" => tJob[q].key \in Keys
    BY DEF TransferJob
  <2>7. RowsHaveCallers'
    BY <2>1, <2>2, <2>3, <2>4 DEF KeyInv, RowsHaveCallers, TransferRow
  <2>8. OpenRowsPend'
    BY <2>1, <2>2, <2>3, <2>4, <2>5, <2>6 DEF KeyInv, OpenRowsPend, PastInsert
  <2>9. MoversOwnRows'
    <3>1. \A q \in TransferRequests \cap posted : q # r => tJob[q].key # k /\ tPc[q] # "idle"
      BY <2>5 DEF KeyInv, MoversOwnRows, AfterCommit
    <3>2. QED
      BY <3>1, <2>1, <2>2, <2>3, <2>4, <2>6 DEF KeyInv, MoversOwnRows, AfterCommit
  <2>10. SuccessesMoved'
    BY <2>1, <2>2, <2>3 DEF KeyInv, SuccessesMoved
  <2>11. RowsAreHonest'
    BY <2>1, <2>2, <2>4 DEF KeyInv, RowsAreHonest
  <2>12. AnswersHaveRows'
    BY <2>1, <2>2, <2>3, <2>4, <2>5, <2>6 DEF KeyInv, AnswersHaveRows, PastInsert
  <2>13. AuditHasRows'
    <3>1. <<k, "transfer.completed">> \notin audit /\ <<k, "transfer.failed">> \notin audit
      BY <2>1, <2>2 DEF KeyInv, AuditHasRows
    <3>2. \A l \in Keys : l # k /\ transfers[l] # NoTransfer =>
            transfers[l].id \in TransferRequests \ {r}
      BY DEF TransferRow, KeyInv, RowsHaveCallers
    <3>3. ASSUME NEW l \in Keys, l # k, <<l, "transfer.failed">> \in audit
          PROVE  transfers'[l] # NoTransfer /\ tPc'[transfers'[l].id] = "failed"
      <4>1. transfers[l] # NoTransfer /\ tPc[transfers[l].id] = "failed"
        BY <3>3 DEF KeyInv, AuditHasRows
      <4>2. transfers[l].id \in TransferRequests \ {r}
        BY <3>2, <3>3, <4>1
      <4>3. QED
        BY <2>3, <2>4, <3>3, <4>1, <4>2
    <3>4. QED
      BY <3>1, <3>3, <2>1, <2>4 DEF KeyInv, AuditHasRows
  <2>14. QED
    BY <2>7, <2>8, <2>9, <2>10, <2>11, <2>12, <2>13 DEF KeyInv
<1>13. ASSUME NEW r \in TransferRequests, AuditOutcome(r) PROVE KeyInv'
  <2> DEFINE k == tJob[r].key
  <2>1. \/ /\ tPc[r] = "auditCompleted" /\ tPc' = [tPc EXCEPT ![r] = "done"]
           /\ audit' = audit \/ audit' = audit \cup {<<k, "transfer.completed">>}
        \/ /\ tPc[r] = "auditFailed" /\ tPc' = [tPc EXCEPT ![r] = "failed"]
           /\ audit' = audit \/ audit' = audit \cup {<<k, "transfer.failed">>}
    BY <1>13, Zenon DEF AuditOutcome, Audit, TGoto
  <2>2. UNCHANGED <<posted, transfers, tJob>>
    BY <1>13 DEF AuditOutcome, Audit, storeVars
  <2>3. k \in Keys /\ transfers[k].id = r
    BY <2>1 DEF OwnsRow, PastInsert, TransferJob
  <2>4. /\ \A q \in TransferRequests : q # r => tPc'[q] = tPc[q]
        /\ \/ tPc[r] = "auditCompleted" /\ tPc'[r] = "done"
           \/ tPc[r] = "auditFailed" /\ tPc'[r] = "failed"
    <3>1. CASE tPc[r] = "auditCompleted" /\ tPc' = [tPc EXCEPT ![r] = "done"]
      BY <3>1
    <3>2. CASE tPc[r] = "auditFailed" /\ tPc' = [tPc EXCEPT ![r] = "failed"]
      BY <3>2
    <3>3. QED
      BY <2>1, <3>1, <3>2
  <2>5. RowsHaveCallers' /\ OpenRowsPend'
    BY <2>2, <2>4 DEF KeyInv, RowsHaveCallers, OpenRowsPend, TransferRow
  <2>6. MoversOwnRows' /\ SuccessesMoved' /\ RowsAreHonest'
    BY <2>2, <2>4 DEF KeyInv, MoversOwnRows, SuccessesMoved, RowsAreHonest, AfterCommit
  <2>7. AnswersHaveRows'
    BY <2>2, <2>4 DEF KeyInv, AnswersHaveRows
  <2>8. AuditHasRows'
    <3>1. SUFFICES ASSUME NEW l \in Keys
                   PROVE  /\ <<l, "transfer.completed">> \in audit' =>
                               transfers[l].status = "completed"
                          /\ <<l, "transfer.failed">> \in audit' =>
                               transfers[l] # NoTransfer /\ tPc'[transfers[l].id] = "failed"
      BY <2>2 DEF AuditHasRows
    <3>2. ASSUME <<l, "transfer.completed">> \in audit'
          PROVE  transfers[l].status = "completed"
      <4>1. <<l, "transfer.completed">> \in audit
              \/ (tPc[r] = "auditCompleted" /\ l = k)
        <5>1. \/ audit' = audit
              \/ \E e \in Events : /\ audit' = audit \cup {<<k, e>>}
                                   /\ e = "transfer.completed" => tPc[r] = "auditCompleted"
          BY <2>1 DEF Events
        <5>2. CASE audit' = audit
          BY <5>2, <3>2
        <5>3. ASSUME NEW e \in Events, audit' = audit \cup {<<k, e>>},
                     e = "transfer.completed" => tPc[r] = "auditCompleted"
              PROVE  <<l, "transfer.completed">> \in audit \/ (tPc[r] = "auditCompleted" /\ l = k)
          <6>1. <<l, "transfer.completed">> \in audit \/ <<l, "transfer.completed">> = <<k, e>>
            BY <5>3, <3>2, Zenon
          <6>2. QED
            BY <6>1, <5>3
        <5>4. QED
          BY <5>1, <5>2, <5>3
      <4>2. QED
        BY <4>1 DEF KeyInv, AuditHasRows, AnswersHaveRows
    <3>3. ASSUME <<l, "transfer.failed">> \in audit'
          PROVE  transfers[l] # NoTransfer /\ tPc'[transfers[l].id] = "failed"
      <4>1. <<l, "transfer.failed">> \in audit \/ (tPc[r] = "auditFailed" /\ l = k)
        <5>1. \/ audit' = audit
              \/ \E e \in Events : /\ audit' = audit \cup {<<k, e>>}
                                   /\ e = "transfer.failed" => tPc[r] = "auditFailed"
          BY <2>1 DEF Events
        <5>2. CASE audit' = audit
          BY <5>2, <3>3
        <5>3. ASSUME NEW e \in Events, audit' = audit \cup {<<k, e>>},
                     e = "transfer.failed" => tPc[r] = "auditFailed"
              PROVE  <<l, "transfer.failed">> \in audit \/ (tPc[r] = "auditFailed" /\ l = k)
          <6>1. <<l, "transfer.failed">> \in audit \/ <<l, "transfer.failed">> = <<k, e>>
            BY <5>3, <3>3, Zenon
          <6>2. QED
            BY <6>1, <5>3
        <5>4. QED
          BY <5>1, <5>2, <5>3
      <4>2. CASE <<l, "transfer.failed">> \in audit
        BY <4>2, <2>4, ZenonT(60) DEF KeyInv, AuditHasRows, TransferRow
      <4>3. CASE tPc[r] = "auditFailed" /\ l = k
        BY <4>3, <2>3, <2>4, StoreAssumption DEF NoTransfer
      <4>4. QED
        BY <4>1, <4>2, <4>3
    <3>4. QED
      BY <3>2, <3>3
  <2>9. QED
    BY <2>5, <2>6, <2>7, <2>8 DEF KeyInv
<1>14. ASSUME NEW r \in TransferRequests, TransferDBError(r) PROVE KeyInv'
  BY <1>14, KeyMove DEF TransferDBError, storeVars
<1>15. ASSUME TransferCrash PROVE KeyInv'
  BY <1>15, KeyDropped DEF TransferCrash, TransfersDropped
<1>16. ASSUME UNCHANGED tVars PROVE KeyInv'
  BY <1>16 DEF tVars, storeVars, transferVars, KeyInv, RowsHaveCallers, OpenRowsPend,
               MoversOwnRows, SuccessesMoved, RowsAreHonest, AnswersHaveRows, AuditHasRows
<1>17. QED
  BY <1>1, <1>2, <1>3, <1>4, <1>5, <1>6, <1>7, <1>8, <1>9, <1>10, <1>11, <1>12, <1>13,
     <1>14, <1>15, <1>16
     DEF Next, TransferNext, TransferStep, DeadlockVictim, TransactionError

LEMMA KeysAreSafe == TransferServiceSpec => [](TypeInv /\ KeyInv)
<1>1. TransferServiceSpec => TransferServiceInit /\ [][Next]_tVars
  BY PTL DEF TransferServiceSpec, Next
<1>2. QED
  BY <1>1, TypeInit, TypeNext, KeyInit, KeyNext, PTL

(* Whatever fails, races, crashes or commits without saying so, a key moves *)
(* money at most once ...                                                   *)
THEOREM KeysMoveOnce == TransferServiceSpec => []OneMovementPerKey
<1>1. TypeInv /\ KeyInv => OneMovementPerKey
  BY DEF KeyInv, MoversOwnRows, OneMovementPerKey
<1>2. QED
  BY <1>1, KeysAreSafe, PTL

(* ... and leaves the row of the request that moved it, for retries to find. *)
THEOREM MovementsAreVisible == TransferServiceSpec => []MovementsHaveRows
<1>1. TypeInv /\ KeyInv => MovementsHaveRows
  BY DEF KeyInv, MoversOwnRows, MovementsHaveRows
<1>2. QED
  BY <1>1, KeysAreSafe, PTL

(* Provided that a COMMIT that returns an error has not taken effect, the *)
(* invariants make rows, answers and the audit log honest.                *)
LEMMA InvIsHonest ==
  ASSUME TypeInv, KeyInv, ~AmbiguousCommit
  PROVE  RowsMatchMovements /\ AnswersAreTrue /\ AuditMatchesMovements
<1>1. RowsMatchMovements
  BY DEF KeyInv, RowsAreHonest, RowsMatchMovements
<1>2. AnswersAreTrue
  BY DEF KeyInv, AnswersHaveRows, MoversOwnRows, AfterCommit, AnswersAreTrue
<1>3. AuditMatchesMovements
  <2> SUFFICES ASSUME NEW k \in Keys
               PROVE  /\ <<k, "transfer.completed">> \in audit => MovedFor(k) # {}
                      /\ <<k, "transfer.failed">> \in audit => MovedFor(k) = {}
    BY DEF AuditMatchesMovements
  <2>1. ASSUME <<k, "transfer.completed">> \in audit PROVE MovedFor(k) # {}
    <3>1. transfers[k].status = "completed"
      BY <2>1 DEF KeyInv, AuditHasRows
    <3>2. transfers[k] # NoTransfer
      BY <3>1 DEF NoTransfer
    <3>3. transfers[k].id \in TransferRequests \cap posted /\ tJob[transfers[k].id].key = k
      BY <3>1, <3>2
         DEF TypeInv, TransferTypeOK, TransferRow, KeyInv, RowsAreHonest, RowsHaveCallers
    <3>4. QED
      BY <3>3 DEF MovedFor
  <2>2. ASSUME <<k, "transfer.failed">> \in audit PROVE MovedFor(k) = {}
    <3>1. tPc[transfers[k].id] = "failed"
      BY <2>2 DEF KeyInv, AuditHasRows
    <3>2. \A q \in TransferRequests \cap posted : tJob[q].key = k =>
            transfers[k].id = q /\ tPc[q] # "failed"
      BY DEF KeyInv, MoversOwnRows, AfterCommit
    <3>3. QED
      BY <3>1, <3>2 DEF MovedFor
  <2>3. QED
    BY <2>1, <2>2
<1>4. QED
  BY <1>1, <1>2, <1>3

(* Completed rows have moved their money and failed ones have not, provided *)
(* that a COMMIT that returns an error has not taken effect.                *)
THEOREM RowsTellTheTruth ==
  ASSUME ~AmbiguousCommit
  PROVE  TransferServiceSpec => []RowsMatchMovements
BY InvIsHonest, KeysAreSafe, PTL

(* Under the same proviso, clients are told the truth. *)
THEOREM ClientsAreToldTheTruth ==
  ASSUME ~AmbiguousCommit
  PROVE  TransferServiceSpec => []AnswersAreTrue
BY InvIsHonest, KeysAreSafe, PTL

(* Under the same proviso, so is the reader of the audit log. *)
THEOREM AuditTellsTheTruth ==
  ASSUME ~AmbiguousCommit
  PROVE  TransferServiceSpec => []AuditMatchesMovements
BY InvIsHonest, KeysAreSafe, PTL

(* A row keeps its request, and its outcome once it has one. *)
RowsKept == \A k \in Keys : transfers[k] # NoTransfer =>
  /\ transfers'[k].id = transfers[k].id
  /\ transfers[k].status # "pending" => transfers'[k] = transfers[k]

LEMMA RowsAreKept == TypeInv /\ KeyInv /\ [Next]_tVars => RowsKept
<1> SUFFICES ASSUME TypeInv, KeyInv, [Next]_tVars, NEW k \in Keys, transfers[k] # NoTransfer
             PROVE  /\ transfers'[k].id = transfers[k].id
                    /\ transfers[k].status # "pending" => transfers'[k] = transfers[k]
  BY DEF RowsKept
<1>1. CASE UNCHANGED transfers
  BY <1>1
<1>2. ASSUME NEW r \in TransferRequests, CreateTransfer(r), ~UNCHANGED transfers
      PROVE  transfers'[k] = transfers[k]
  <2>1. transfers[tJob[r].key] = NoTransfer
    BY <1>2 DEF CreateTransfer, InsertTransfer
  <2>2. QED
    BY <2>1, <1>2 DEF CreateTransfer, InsertTransfer, TypeInv, TransferTypeOK
<1>3. ASSUME NEW r \in TransferRequests, MarkCompleted(r) \/ MarkFailed(r),
             ~UNCHANGED transfers
      PROVE  /\ transfers'[k].id = transfers[k].id
             /\ transfers[k].status # "pending" => transfers'[k] = transfers[k]
  <2>1. PICK status : SetStatus(tJob[r].key, status)
    BY <1>3 DEF MarkCompleted, MarkFailed
  <2>2. transfers[tJob[r].key].status = "pending"
    BY <1>3 DEF MarkCompleted, MarkFailed, TGoto, KeyInv, OpenRowsPend
  <2>3. QED
    BY <2>1, <2>2 DEF SetStatus, TypeInv, TransferTypeOK, TransferRow, NoTransfer
<1>4. ASSUME TransferCrash PROVE UNCHANGED transfers
  BY <1>4 DEF TransferCrash
<1>5. ASSUME NEW r \in TransferRequests,
             CallTransfer(r) \/ TransferStep(r) \/ TransferDBError(r) \/ TransactionError(r)
      PROVE  UNCHANGED transfers \/ CreateTransfer(r) \/ MarkCompleted(r) \/ MarkFailed(r)
  BY <1>5, Zenon
     DEF CallTransfer, TransferStep, TransferDBError, TransactionError, CheckExisting,
         ReadSource, ReadDestination, SelectSource, DebitSource, SelectDestination,
         CreditDestination, CommitTransfer, AuditOutcome, Audit, DeadlockVictim, Rollback
<1>6. QED
  BY <1>1, <1>2, <1>3, <1>4, <1>5 DEF Next, TransferNext, tVars, transferVars

(* No step changes a row that is completed or failed, or gives a row to *)
(* another request.                                                     *)
THEOREM OutcomesStayFinal == TransferServiceSpec => OutcomesAreFinal
BY RowsAreKept, KeysAreSafe, PTL DEF TransferServiceSpec, OutcomesAreFinal, Next, RowsKept
-----------------------------------------------------------------------------
(* The transactions table. *)

EntriesOf(r) == {e \in ledger : e.request = r}
Legs(rows) == {<<e.account, e.type, e.amount>> : e \in rows}

(* Of one transfer there is nothing in the table, or exactly its two legs. *)
LedgerInv == \A r \in TransferRequests :
  IF r \in posted
    THEN Legs(EntriesOf(r)) = {<<tJob[r].from, "debit", tJob[r].amount>>,
                            <<tJob[r].to, "credit", tJob[r].amount>>}
    ELSE EntriesOf(r) = {}

(* A step that changes neither the table nor posted may call idle requests. *)
LEMMA LedgerKept ==
  ASSUME KeyInv, LedgerInv, UNCHANGED <<ledger, posted>>,
         \A r \in TransferRequests : tPc[r] # "idle" => tJob'[r] = tJob[r]
  PROVE  LedgerInv'
<1>1. \A r \in TransferRequests \cap posted : tJob'[r] = tJob[r]
  BY DEF KeyInv, MoversOwnRows, AfterCommit
<1>2. \A r : EntriesOf(r)' = EntriesOf(r)
  BY DEF EntriesOf
<1>3. QED
  BY <1>1, <1>2 DEF LedgerInv

LEMMA LedgerNext == TypeInv /\ KeyInv /\ LedgerInv /\ [Next]_tVars => LedgerInv'
<1> SUFFICES ASSUME TypeInv, KeyInv, LedgerInv, [Next]_tVars PROVE LedgerInv'
  OBVIOUS
<1>1. ASSUME NEW r \in TransferRequests, CommitTransfer(r) PROVE LedgerInv'
  <2> DEFINE j == tJob[r]
             d == DebitEntry(r)
             c == CreditEntry(r)
  <2>1. ledger' = ledger \cup {d, c} /\ posted' = posted \cup {r} /\ tJob' = tJob
    BY <1>1 DEF CommitTransfer
  <2>2. r \notin posted
    BY <1>1 DEF CommitTransfer, TGoto, KeyInv, MoversOwnRows, AfterCommit
  <2>3. /\ d.request = r /\ d.account = j.from /\ d.type = "debit" /\ d.amount = j.amount
        /\ c.request = r /\ c.account = j.to /\ c.type = "credit" /\ c.amount = j.amount
    BY DEF DebitEntry, CreditEntry, Entry
  <2>4. EntriesOf(r)' = {d, c}
    BY <2>1, <2>2, <2>3 DEF LedgerInv, EntriesOf
  <2>5. Legs({d, c}) = {<<j.from, "debit", j.amount>>, <<j.to, "credit", j.amount>>}
    BY <2>3 DEF Legs
  <2>6. ASSUME NEW q \in TransferRequests, q # r PROVE EntriesOf(q)' = EntriesOf(q)
    BY <2>1, <2>3, <2>6 DEF EntriesOf
  <2>7. QED
    BY <2>1, <2>4, <2>5, <2>6 DEF LedgerInv
<1>2. ASSUME NEW r \in TransferRequests, CallTransfer(r) PROVE LedgerInv'
  BY <1>2, LedgerKept DEF CallTransfer, storeVars, TypeInv, TransferTypeOK
<1>3. ASSUME NEW r \in TransferRequests,
             TransferStep(r) \/ TransferDBError(r) \/ TransactionError(r)
      PROVE  CommitTransfer(r) \/ UNCHANGED <<ledger, posted, tJob>>
  BY <1>3, Zenon
     DEF TransferStep, TransferDBError, TransactionError, CheckExisting, ReadSource,
         ReadDestination, CreateTransfer, SelectSource, DebitSource, SelectDestination,
         CreditDestination, MarkCompleted, MarkFailed, AuditOutcome, Audit, DeadlockVictim,
         Rollback, storeVars
<1>4. CASE UNCHANGED <<ledger, posted, tJob>>
  BY <1>4, LedgerKept
<1>5. CASE TransferCrash
  BY <1>4, <1>5 DEF TransferCrash
<1>6. CASE UNCHANGED tVars
  BY <1>4, <1>6 DEF tVars, storeVars, transferVars
<1>7. QED
  BY <1>1, <1>2, <1>3, <1>4, <1>5, <1>6 DEF Next, TransferNext

(* The transactions table holds both legs of every transfer that moved its  *)
(* money and nothing of one that did not, whatever rolls back, crashes or   *)
(* commits without saying so.                                               *)
THEOREM TransfersAreRecorded == TransferServiceSpec => []BothLegsRecorded
<1>1. TransferServiceInit => LedgerInv
  BY DEF TransferServiceInit, StoreInit, LedgerInv, EntriesOf
<1>2. LedgerInv => BothLegsRecorded
  BY DEF LedgerInv, BothLegsRecorded, EntriesOf, Legs
<1>3. TransferServiceSpec => TransferServiceInit /\ [][Next]_tVars
  BY PTL DEF TransferServiceSpec, Next
<1>4. QED
  BY <1>1, <1>2, <1>3, LedgerNext, KeysAreSafe, PTL

-----------------------------------------------------------------------------
(* Operations on one account. *)

AccountServiceNext == AccountNext \/ AccountCrash \/ (AccountsQuiet /\ UNCHANGED aVars)

-----------------------------------------------------------------------------
(* The inductive invariant. *)

CallsTypeOK ==
  /\ aPc \in [AccountRequests -> {"idle"} \cup AOpen \cup AEnded]
  /\ aJob \in [AccountRequests -> AccountJob \cup {NoRequest}]
  /\ \A r \in AccountRequests : aPc[r] # "idle" => aJob[r] \in AccountJob
  /\ aSeen \in [AccountRequests -> AccountRow]
  /\ aRow \in [AccountRequests -> AccountRow]

(* A request saves only a row that passed its check, though the committed *)
(* row may be another one by then.                                        *)
SavesAreChecked == \A r \in AccountRequests :
  LET j == aJob[r] IN
  /\ aPc[r] = "updateSave" => BalanceAllowed(aRow[r], j.op, j.amount)
  /\ aPc[r] = "saveStatus" => StatusAllowed(aSeen[r], j.op)

(* Status changes and movements of money run different statements. *)
StepsFitJobs == \A r \in AccountRequests :
  /\ aPc[r] \in {"updateRead", "updateSave", "record", "unrecorded"} => MovesMoney(aJob[r])
  /\ aPc[r] = "saveStatus" => ~MovesMoney(aJob[r])

CallsInv == CallsTypeOK /\ SavesAreChecked /\ StepsFitJobs

(* Where a request that moved its money can be, and what must have moved it. *)
PostedCalls == \A r \in AccountRequests :
  /\ r \in posted => /\ aPc[r] \in {"record", "done", "unrecorded", "crashed"}
                     /\ MovesMoney(aJob[r])
  /\ aPc[r] \in {"record", "unrecorded"} => r \in posted
  /\ aPc[r] = "done" /\ MovesMoney(aJob[r]) => r \in posted

Recorded(r) == \E e \in ledger : e.request = r /\ e.account = aJob[r].account

RecordsInv ==
  /\ \A e \in ledger : e.request \in posted
  /\ \A r \in AccountRequests : aPc[r] = "done" /\ MovesMoney(aJob[r]) => Recorded(r)

-----------------------------------------------------------------------------
(* What saving a checked row does. *)

LEMMA JobFields ==
  ASSUME NEW j \in AccountJob
  PROVE  /\ j.op \in AccountOps /\ j.account \in Accounts /\ j.user \in Users
         /\ j.amount \in Nat
         /\ ~MovesMoney(j) => j.op \in AccountStatuses
<1>1. j \in [op : AccountOps, account : Accounts, amount : Amounts \cup {0}, user : Users]
  BY DEF AccountJob
<1>2. Amounts \cup {0} \subseteq Nat /\ AccountOps \subseteq {"credit", "debit"} \cup AccountStatuses
  BY StoreAssumption, AccountServiceAssumption
<1>3. /\ j.op \in AccountOps /\ j.account \in Accounts /\ j.user \in Users
      /\ j.amount \in Amounts \cup {0}
  BY <1>1, SMTT(30)
<1>4. ~MovesMoney(j) => j.op \in AccountStatuses
  BY <1>3, <1>2 DEF MovesMoney
<1>5. j.amount \in Nat
  BY <1>2, <1>3, Zenon
<1>6. QED
  BY <1>3, <1>4, <1>5

(* A deposit or withdrawal that was allowed leaves a natural balance, and *)
(* its account active.                                                    *)
LEMMA AllowedSavesRow ==
  ASSUME NEW j \in AccountJob, MovesMoney(j),
         NEW row \in AccountRow, BalanceAllowed(row, j.op, j.amount)
  PROVE  LET saved == [row EXCEPT !.balance = @ + Delta(j.op, j.amount)]
         IN saved \in AccountRow /\ saved.status = "active"
<1>1. j.amount \in Nat /\ row.balance \in Nat /\ row.status = "active"
  BY JobFields DEF BalanceAllowed, IsActive, AccountRow
<1>2. row.balance + Delta(j.op, j.amount) \in Nat
  BY <1>1 DEF BalanceAllowed, Delta, MovesMoney
<1>3. QED
  BY <1>1, <1>2 DEF AccountRow

LEMMA AccountInitOK == AccountServiceInit => StoreTypeOK /\ CallsInv /\ PostedCalls /\ RecordsInv
BY StoreAssumption
   DEF AccountServiceInit, StoreInit, AccountInit, StoreTypeOK, CallsInv, CallsTypeOK,
       SavesAreChecked, StepsFitJobs, PostedCalls, RecordsInv, NoRow, AccountRow,
       AccountStatuses, AOpen, AEnded

-----------------------------------------------------------------------------
(* Each step keeps the types of the tables ... *)

LEMMA StoreKept ==
  ASSUME StoreTypeOK, CallsInv, AccountNext
  PROVE  StoreTypeOK'
<1> USE StoreAssumption, AccountServiceAssumption DEF StoreTypeOK, CallsInv, CallsTypeOK
<1>1. ASSUME NEW r \in AccountRequests, UpdateRead(r) PROVE StoreTypeOK'
  BY <1>1, JobFields DEF UpdateRead, UpdateBalanceRead, SelectForUpdate, Lock, AGoto, AOpen
<1>2. ASSUME NEW r \in AccountRequests, UpdateSave(r) PROVE StoreTypeOK'
  <2> DEFINE j == aJob[r]
  <2>1. aPc[r] = "updateSave"
    BY <1>2 DEF UpdateSave, AGoto
  <2>2. /\ j \in AccountJob /\ MovesMoney(j) /\ aRow[r] \in AccountRow
        /\ BalanceAllowed(aRow[r], j.op, j.amount)
    BY <2>1 DEF SavesAreChecked, StepsFitJobs
  <2>3. [aRow[r] EXCEPT !.balance = @ + Delta(j.op, j.amount)] \in AccountRow
    BY <2>2, AllowedSavesRow
  <2>4. QED
    BY <1>2, <2>2, <2>3, JobFields DEF UpdateSave, UpdateBalanceSave, Unlock
<1>3. ASSUME NEW r \in AccountRequests, RecordTransaction(r) PROVE StoreTypeOK'
  <2> DEFINE j == aJob[r]  before == aSeen[r].balance
  <2>1. aPc[r] = "record"
    BY <1>3 DEF RecordTransaction, AGoto
  <2>2. j \in AccountJob /\ MovesMoney(j) /\ before \in Nat
    BY <2>1 DEF StepsFitJobs, AccountRow
  <2>3. Entry(r, j.account, j.op, j.amount, before, before + Delta(j.op, j.amount)) \in LedgerRow
    BY <2>2, JobFields DEF Entry, LedgerRow, MovesMoney, Delta
  <2>4. QED
    BY <1>3, <2>3 DEF RecordTransaction
<1>4. ASSUME NEW r \in AccountRequests, SaveStatus(r) PROVE StoreTypeOK'
  <2> DEFINE j == aJob[r]
  <2>1. aPc[r] = "saveStatus"
    BY <1>4 DEF SaveStatus, AGoto
  <2>2. j \in AccountJob /\ j.op \in AccountStatuses /\ aSeen[r] \in AccountRow
    BY <2>1, JobFields DEF StepsFitJobs
  <2>3. [aSeen[r] EXCEPT !.status = j.op] \in AccountRow
    BY <2>2 DEF AccountRow
  <2>4. QED
    BY <1>4, <2>2, <2>3, JobFields DEF SaveStatus
<1>5. ASSUME NEW r \in AccountRequests, AccountDBError(r) PROVE StoreTypeOK'
  BY <1>5 DEF AccountDBError, Unlock
<1>6. ASSUME NEW r \in AccountRequests, CallAccount(r) \/ GetAccount(r) PROVE StoreTypeOK'
  BY <1>6 DEF CallAccount, GetAccount, storeVars
<1>7. QED
  BY <1>1, <1>2, <1>3, <1>4, <1>5, <1>6 DEF AccountNext, AccountStep

(* ... and what the requests hold. *)
LEMMA CallsKept ==
  ASSUME StoreTypeOK, CallsInv, AccountNext
  PROVE  CallsInv'
<1> USE DEF CallsInv, CallsTypeOK, SavesAreChecked, StepsFitJobs, AOpen, AEnded
<1>1. ASSUME NEW r \in AccountRequests, CallAccount(r) PROVE CallsInv'
  BY <1>1 DEF CallAccount
<1>2. ASSUME NEW r \in AccountRequests, GetAccount(r) PROVE CallsInv'
  <2> DEFINE j == aJob[r]  row == accounts[j.account]
  <2>1. aPc[r] = "getAccount" /\ j \in AccountJob /\ row \in AccountRow
    BY <1>2, JobFields DEF GetAccount, AGoto, StoreTypeOK
  <2>2. \/ aPc' = [aPc EXCEPT ![r] = "rejected"]
        \/ aPc' = [aPc EXCEPT ![r] = "updateRead"] /\ MovesMoney(j)
        \/ /\ aPc' = [aPc EXCEPT ![r] = "saveStatus"] /\ ~MovesMoney(j)
           /\ StatusAllowed(row, j.op)
    BY <1>2 DEF GetAccount, AGoto, JobAllowed
  <2>3. aSeen' = [aSeen EXCEPT ![r] = row] /\ UNCHANGED <<aJob, aRow>>
    BY <1>2 DEF GetAccount
  <2>4. CallsTypeOK'
    BY <2>1, <2>2, <2>3
  <2>5. SavesAreChecked' /\ StepsFitJobs'
    BY <2>1, <2>2, <2>3
  <2>6. QED
    BY <2>4, <2>5
<1>3. ASSUME NEW r \in AccountRequests, UpdateRead(r) PROVE CallsInv'
  <2> DEFINE j == aJob[r]  row == accounts[j.account]
  <2>1. aPc[r] = "updateRead" /\ j \in AccountJob /\ MovesMoney(j) /\ row \in AccountRow
    BY <1>3, JobFields DEF UpdateRead, AGoto, StoreTypeOK
  <2>2. \/ aPc' = [aPc EXCEPT ![r] = "rejected"]
        \/ aPc' = [aPc EXCEPT ![r] = "updateSave"] /\ BalanceAllowed(row, j.op, j.amount)
    BY <1>3 DEF UpdateRead, AGoto
  <2>3. aRow' = [aRow EXCEPT ![r] = row] /\ UNCHANGED <<aJob, aSeen>>
    BY <1>3 DEF UpdateRead
  <2>4. QED
    BY <2>1, <2>2, <2>3
<1>4. ASSUME NEW r \in AccountRequests, UpdateSave(r) PROVE CallsInv'
  BY <1>4 DEF UpdateSave, AGoto
<1>5. ASSUME NEW r \in AccountRequests, RecordTransaction(r) PROVE CallsInv'
  BY <1>5 DEF RecordTransaction, AGoto
<1>6. ASSUME NEW r \in AccountRequests, SaveStatus(r) PROVE CallsInv'
  BY <1>6 DEF SaveStatus, AGoto
<1>7. ASSUME NEW r \in AccountRequests, AccountDBError(r) PROVE CallsInv'
  BY <1>7 DEF AccountDBError, AGoto
<1>8. QED
  BY <1>1, <1>2, <1>3, <1>4, <1>5, <1>6, <1>7 DEF AccountNext, AccountStep

-----------------------------------------------------------------------------
(* Money moves in UpdateSave and nowhere else. *)
LEMMA PostedKept ==
  ASSUME CallsInv, PostedCalls, AccountNext
  PROVE  PostedCalls'
<1> USE DEF CallsInv, CallsTypeOK, StepsFitJobs, PostedCalls, AOpen, AEnded
<1>1. ASSUME NEW r \in AccountRequests, CallAccount(r) PROVE PostedCalls'
  <2>1. r \notin posted
    BY <1>1 DEF CallAccount
  <2>2. \E to \in {"getAccount", "rejected"} : aPc' = [aPc EXCEPT ![r] = to]
    BY <1>1 DEF CallAccount
  <2>3. \A q \in AccountRequests \ {r} : aJob'[q] = aJob[q]
    BY <1>1 DEF CallAccount
  <2>4. posted' = posted
    BY <1>1 DEF CallAccount, storeVars
  <2>5. QED
    BY <2>1, <2>2, <2>3, <2>4
<1>2. ASSUME NEW r \in AccountRequests, GetAccount(r) PROVE PostedCalls'
  BY <1>2 DEF GetAccount, AGoto, storeVars
<1>3. ASSUME NEW r \in AccountRequests, UpdateRead(r) PROVE PostedCalls'
  BY <1>3 DEF UpdateRead, AGoto
<1>4. ASSUME NEW r \in AccountRequests, UpdateSave(r) PROVE PostedCalls'
  <2>1. aPc[r] = "updateSave" /\ MovesMoney(aJob[r])
    BY <1>4 DEF UpdateSave, AGoto
  <2>2. \E to \in {"record", "unrecorded"} : aPc' = [aPc EXCEPT ![r] = to]
    BY <1>4 DEF UpdateSave, AGoto
  <2>3. posted' = posted \cup {r} /\ aJob' = aJob
    BY <1>4 DEF UpdateSave, UpdateBalanceSave
  <2>4. QED
    BY <2>1, <2>2, <2>3
<1>5. ASSUME NEW r \in AccountRequests, RecordTransaction(r) PROVE PostedCalls'
  BY <1>5 DEF RecordTransaction, AGoto
<1>6. ASSUME NEW r \in AccountRequests, SaveStatus(r) PROVE PostedCalls'
  BY <1>6 DEF SaveStatus, AGoto
<1>7. ASSUME NEW r \in AccountRequests, AccountDBError(r) PROVE PostedCalls'
  BY <1>7 DEF AccountDBError, AGoto
<1>8. QED
  BY <1>1, <1>2, <1>3, <1>4, <1>5, <1>6, <1>7 DEF AccountNext, AccountStep

(* Rows are only ever added, after the movement they record. *)
LEMMA RecordsKept ==
  ASSUME CallsInv, PostedCalls, RecordsInv, AccountNext
  PROVE  RecordsInv'
<1> USE DEF CallsInv, CallsTypeOK, StepsFitJobs, RecordsInv, AOpen, AEnded
<1>1. ASSUME NEW r \in AccountRequests, RecordTransaction(r) PROVE RecordsInv'
  <2> DEFINE j == aJob[r]
             e == Entry(r, j.account, j.op, j.amount, aSeen[r].balance,
                        aSeen[r].balance + Delta(j.op, j.amount))
  <2>1. e.request = r /\ e.account = j.account
    BY DEF Entry
  <2>2. r \in posted /\ UNCHANGED <<posted, aJob>>
    BY <1>1 DEF RecordTransaction, AGoto, PostedCalls
  <2>3. \/ ledger' = ledger \cup {e} /\ aPc' = [aPc EXCEPT ![r] = "done"]
        \/ ledger' = ledger /\ aPc' = [aPc EXCEPT ![r] = "unrecorded"]
    BY <1>1 DEF RecordTransaction, AGoto
  <2> HIDE DEF e
  <2>4. QED
    BY <2>1, <2>2, <2>3 DEF Recorded
<1>2. ASSUME NEW r \in AccountRequests, UpdateSave(r) PROVE RecordsInv'
  BY <1>2 DEF UpdateSave, UpdateBalanceSave, AGoto, Recorded
<1>3. ASSUME NEW r \in AccountRequests, CallAccount(r) PROVE RecordsInv'
  <2>1. UNCHANGED <<posted, ledger>>
    BY <1>3 DEF CallAccount, storeVars
  <2>2. \A q \in AccountRequests : aPc'[q] = "done" => aPc[q] = "done" /\ aJob'[q] = aJob[q]
    BY <1>3 DEF CallAccount
  <2>3. QED
    BY <2>1, <2>2 DEF Recorded
<1>4. ASSUME NEW r \in AccountRequests,
             GetAccount(r) \/ UpdateRead(r) \/ SaveStatus(r) \/ AccountDBError(r)
      PROVE  RecordsInv'
  <2>1. UNCHANGED <<posted, ledger, aJob>>
    BY <1>4 DEF GetAccount, UpdateRead, SaveStatus, AccountDBError, storeVars
  <2>2. \A q \in AccountRequests :
          aPc'[q] = "done" => aPc[q] = "done" \/ ~MovesMoney(aJob[q])
    BY <1>4 DEF GetAccount, UpdateRead, SaveStatus, AccountDBError, AGoto
  <2>3. QED
    BY <2>1, <2>2 DEF Recorded
<1>5. QED
  BY <1>1, <1>2, <1>3, <1>4 DEF AccountNext, AccountStep

-----------------------------------------------------------------------------
(* Both writers of account rows leave a closed one without money: one saves *)
(* rows that are active, and the other closes only rows that are empty.     *)
LEMMA ClosedKept ==
  ASSUME StoreTypeOK, CallsInv, ClosedIsEmpty, AccountNext
  PROVE  ClosedIsEmpty'
<1> USE DEF StoreTypeOK, CallsInv, CallsTypeOK, ClosedIsEmpty
<1>1. ASSUME NEW r \in AccountRequests, UpdateSave(r) PROVE ClosedIsEmpty'
  <2> DEFINE j == aJob[r]
             saved == [aRow[r] EXCEPT !.balance = @ + Delta(j.op, j.amount)]
  <2>1. aPc[r] = "updateSave"
    BY <1>1 DEF UpdateSave, AGoto
  <2>2. /\ j \in AccountJob /\ MovesMoney(j)
        /\ BalanceAllowed(aRow[r], j.op, j.amount)
    BY <2>1 DEF SavesAreChecked, StepsFitJobs
  <2>3. saved.status = "active"
    BY <2>2, AllowedSavesRow
  <2>4. accounts' = [accounts EXCEPT ![j.account] = saved]
    BY <1>1 DEF UpdateSave, UpdateBalanceSave
  <2> HIDE DEF saved
  <2>5. QED
    BY <2>3, <2>4
<1>2. ASSUME NEW r \in AccountRequests, SaveStatus(r) PROVE ClosedIsEmpty'
  <2> DEFINE j == aJob[r]
             saved == [aSeen[r] EXCEPT !.status = j.op]
  <2>1. aPc[r] = "saveStatus"
    BY <1>2 DEF SaveStatus, AGoto
  <2>2. StatusAllowed(aSeen[r], j.op) /\ aSeen[r] \in AccountRow
    BY <2>1 DEF SavesAreChecked
  <2>3. saved.status = "closed" => saved.balance = 0
    BY <2>2 DEF StatusAllowed, AccountRow
  <2>4. accounts' = [accounts EXCEPT ![j.account] = saved]
    BY <1>2 DEF SaveStatus
  <2> HIDE DEF saved
  <2>5. QED
    BY <2>3, <2>4
<1>3. ASSUME NEW r \in AccountRequests,
             CallAccount(r) \/ GetAccount(r) \/ UpdateRead(r) \/ RecordTransaction(r)
               \/ AccountDBError(r)
      PROVE  ClosedIsEmpty'
  <2>1. UNCHANGED accounts
    BY <1>3 DEF CallAccount, GetAccount, UpdateRead, RecordTransaction, AccountDBError, storeVars
  <2>2. QED
    BY <2>1
<1>4. QED
  BY <1>1, <1>2, <1>3 DEF AccountNext, AccountStep

-----------------------------------------------------------------------------
(* A crash ends the calls where they are. *)
LEMMA CallsDropped ==
  ASSUME CallsInv, PostedCalls, RecordsInv, DropAccountCalls,
         UNCHANGED <<ledger, posted, aJob, aSeen, aRow>>
  PROVE  CallsInv' /\ PostedCalls' /\ RecordsInv'
<1>1. \A r \in AccountRequests : aPc'[r] = (IF aPc[r] \in AOpen THEN "crashed" ELSE aPc[r])
  BY DEF DropAccountCalls
<1>2. CallsInv'
  BY <1>1 DEF DropAccountCalls, CallsInv, CallsTypeOK, SavesAreChecked, StepsFitJobs, AOpen, AEnded
<1>3. PostedCalls'
  BY <1>1 DEF PostedCalls, AOpen
<1>4. RecordsInv'
  BY <1>1 DEF RecordsInv, Recorded, AOpen
<1>5. QED
  BY <1>2, <1>3, <1>4

LEMMA StoreDropped ==
  ASSUME StoreTypeOK, DropConnections, UNCHANGED <<accounts, ledger, posted>>
  PROVE  StoreTypeOK'
BY DEF StoreTypeOK, DropConnections

AccountInv == StoreTypeOK /\ CallsInv /\ PostedCalls /\ RecordsInv /\ ClosedIsEmpty

LEMMA AccountInvHolds == AccountServiceSpec => []AccountInv
<1>1. AccountServiceInit => AccountInv
  BY AccountInitOK, AccountServiceAssumption
     DEF AccountServiceInit, StoreInit, AccountInv, ClosedIsEmpty
<1>2. AccountInv /\ [AccountServiceNext]_aVars => AccountInv'
  <2> SUFFICES ASSUME AccountInv, [AccountServiceNext]_aVars PROVE AccountInv'
    OBVIOUS
  <2> USE DEF AccountInv
  <2>1. CASE AccountNext
    BY <2>1, StoreKept, CallsKept, PostedKept, RecordsKept, ClosedKept
  <2>2. CASE AccountCrash
    BY <2>2, CallsDropped, StoreDropped DEF AccountCrash, ClosedIsEmpty
  <2>3. CASE UNCHANGED aVars
    BY <2>3 DEF aVars, storeVars, serviceVars, StoreTypeOK, CallsInv, CallsTypeOK,
                SavesAreChecked, StepsFitJobs, PostedCalls, RecordsInv, Recorded, ClosedIsEmpty
  <2>4. QED
    BY <2>1, <2>2, <2>3 DEF AccountServiceNext
<1>3. AccountServiceSpec => AccountServiceInit /\ [][AccountServiceNext]_aVars
  BY PTL DEF AccountServiceSpec, AccountServiceNext
<1>4. QED
  BY <1>1, <1>2, <1>3, PTL

(* Whatever deposits, withdrawals and closures overlap, and however stale    *)
(* the rows they save, no closed account is left with money in it.           *)
THEOREM ClosedStaysEmpty == AccountServiceSpec => []ClosedIsEmpty
<1>1. AccountInv => ClosedIsEmpty
  BY DEF AccountInv
<1>2. QED
  BY <1>1, AccountInvHolds, PTL

(* A refused request has moved nothing, and one that was answered with a    *)
(* transaction has moved its money and recorded it.                         *)
THEOREM AccountAnswersHold == AccountServiceSpec => []AccountAnswersAreTrue
<1>1. AccountInv => AccountAnswersAreTrue
  BY DEF AccountInv, PostedCalls, RecordsInv, Recorded, AccountAnswersAreTrue
<1>2. QED
  BY <1>1, AccountInvHolds, PTL

(* The transactions table never runs ahead of the balances, and lacks a row *)
(* only while its request is at work, or after an error or a crash.         *)
THEOREM RecordsDoFollow == AccountServiceSpec => []RecordsFollowMovements
<1>1. AccountInv => RecordsFollowMovements
  BY DEF AccountInv, PostedCalls, RecordsInv, Recorded, RecordsFollowMovements
<1>2. QED
  BY <1>1, AccountInvHolds, PTL

(* Balances stay natural numbers and every table keeps its type. *)
THEOREM AccountTypesAreCorrect == AccountServiceSpec => []StoreTypeOK
<1>1. AccountInv => StoreTypeOK
  BY DEF AccountInv
<1>2. QED
  BY <1>1, AccountInvHolds, PTL
=============================================================================
