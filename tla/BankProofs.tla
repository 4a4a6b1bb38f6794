------------------------------ MODULE BankProofs ------------------------------
(***************************************************************************)
(* Theorems about Bank: what ServiceProofs shows of each service alone     *)
(* still holds when both work on the same accounts; and, were the row      *)
(* locks taken, their statements would add up to the atomic movements of   *)
(* AtomicLedger.                                                           *)
(***************************************************************************)
EXTENDS Bank, ServiceProofs

BankStep == BankNext \/ BankQuiet

-----------------------------------------------------------------------------
(* The invariants of each service are kept by the steps of the other. *)

ServicesInv == TypeInv /\ KeyInv /\ CallsInv /\ PostedCalls /\ RecordsInv

LEMMA TransfersKept ==
  ASSUME TypeInv, KeyInv, StoreTypeOK', UNCHANGED transferVars,
         TransferRequests \cap posted' = TransferRequests \cap posted
  PROVE  TypeInv' /\ KeyInv'
<1> USE DEF transferVars
<1>1. TypeInv'
  BY DEF TypeInv, TransferTypeOK, SourceCanPay, OwnsRow
<1>2. \A r \in TransferRequests : r \in posted' <=> r \in posted
  OBVIOUS
<1>3. MoversOwnRows' /\ SuccessesMoved'
  BY <1>2 DEF KeyInv, MoversOwnRows, SuccessesMoved
<1>4. RowsAreHonest'
  <2>1. \A k \in Keys : transfers[k].status \in {"completed", "failed"} =>
          transfers[k].id \in TransferRequests
    BY DEF TypeInv, TransferTypeOK, TransferRow, NoTransfer
  <2>2. QED
    BY <1>2, <2>1 DEF KeyInv, RowsAreHonest
<1>5. QED
  BY <1>1, <1>3, <1>4 DEF KeyInv, RowsHaveCallers, OpenRowsPend, AnswersHaveRows, AuditHasRows

LEMMA AccountCallsKept ==
  ASSUME CallsInv, PostedCalls, RecordsInv, UNCHANGED serviceVars,
         AccountRequests \cap posted' = AccountRequests \cap posted,
         posted \subseteq posted', ledger \subseteq ledger',
         \A e \in ledger' \ ledger : e.request \in posted'
  PROVE  CallsInv' /\ PostedCalls' /\ RecordsInv'
<1> USE DEF serviceVars
<1>1. CallsInv'
  BY DEF CallsInv, CallsTypeOK, SavesAreChecked, StepsFitJobs
<1>2. PostedCalls'
  BY DEF PostedCalls
<1>3. RecordsInv'
  BY DEF RecordsInv, Recorded
<1>4. QED
  BY <1>1, <1>2, <1>3

(* Only COMMIT changes the tables in a transfer. *)
LEMMA TransferWrites ==
  ASSUME NEW r \in TransferRequests,
         CallTransfer(r) \/ TransferStep(r) \/ TransferDBError(r) \/ TransactionError(r)
  PROVE  CommitTransfer(r) \/ UNCHANGED <<accounts, ledger, posted>>
BY Zenon
   DEF CallTransfer, TransferStep, TransferDBError, TransactionError, CheckExisting,
       ReadSource, ReadDestination, CreateTransfer, SelectSource, DebitSource,
       SelectDestination, CreditDestination, MarkCompleted, MarkFailed, AuditOutcome, Audit,
       DeadlockVictim, Rollback, storeVars

(* In the other operations, UpdateSave changes balances and SaveStatus rows. *)
LEMMA AccountWrites ==
  ASSUME NEW r \in AccountRequests,
         CallAccount(r) \/ AccountStep(r) \/ AccountDBError(r)
  PROVE  UpdateSave(r) \/ SaveStatus(r) \/ UNCHANGED <<accounts, posted>>
BY Zenon
   DEF CallAccount, AccountStep, AccountDBError, GetAccount, UpdateRead, RecordTransaction,
       storeVars

LEMMA ServicesInit == BankInit => ServicesInv
BY TypeInit, KeyInit, AccountInitOK
   DEF BankInit, TransferServiceInit, AccountServiceInit, ServicesInv

LEMMA ServicesNext == ServicesInv /\ [BankStep]_bankVars => ServicesInv'
<1> SUFFICES ASSUME ServicesInv, [BankStep]_bankVars PROVE ServicesInv'
  OBVIOUS
<1> USE DEF ServicesInv
<1>1. ASSUME TransferNext, UNCHANGED serviceVars PROVE ServicesInv'
  <2>1. TypeInv' /\ KeyInv'
    BY <1>1, TypeNext, KeyNext DEF Next
  <2>2. PICK r \in TransferRequests :
          CallTransfer(r) \/ TransferStep(r) \/ TransferDBError(r) \/ TransactionError(r)
    BY <1>1 DEF TransferNext
  <2>3. CASE CommitTransfer(r)
    <3>1. /\ posted' = posted \cup {r}
          /\ ledger' = ledger \cup {DebitEntry(r), CreditEntry(r)}
      BY <2>3 DEF CommitTransfer
    <3>2. DebitEntry(r).request = r /\ CreditEntry(r).request = r
      BY DEF DebitEntry, CreditEntry, Entry
    <3>3. r \notin AccountRequests
      BY BankAssumption
    <3>4. QED
      BY <1>1, <2>1, <3>1, <3>2, <3>3, AccountCallsKept
  <2>4. CASE UNCHANGED <<accounts, ledger, posted>>
    BY <1>1, <2>1, <2>4, AccountCallsKept
  <2>5. QED
    BY <2>2, <2>3, <2>4, TransferWrites
<1>2. ASSUME AccountNext, UNCHANGED transferVars PROVE ServicesInv'
  <2>1. StoreTypeOK'
    BY <1>2, StoreKept DEF TypeInv
  <2>2. CallsInv' /\ PostedCalls' /\ RecordsInv'
    BY <1>2, CallsKept, PostedKept, RecordsKept DEF TypeInv
  <2>3. PICK r \in AccountRequests : CallAccount(r) \/ AccountStep(r) \/ AccountDBError(r)
    BY <1>2 DEF AccountNext
  <2>4. posted' = posted \/ posted' = posted \cup {r}
    BY <2>3, AccountWrites DEF UpdateSave, UpdateBalanceSave, SaveStatus
  <2>5. r \notin TransferRequests
    BY BankAssumption
  <2>6. QED
    BY <1>2, <2>1, <2>2, <2>4, <2>5, TransfersKept
<1>3. ASSUME BankCrash PROVE ServicesInv'
  <2>1. TypeInv' /\ KeyInv'
    BY <1>3, TypeDropped, KeyDropped DEF BankCrash, TransfersDropped
  <2>2. QED
    BY <1>3, <2>1, CallsDropped DEF BankCrash
<1>4. ASSUME UNCHANGED bankVars PROVE ServicesInv'
  <2>1. TypeInv' /\ KeyInv'
    BY <1>4, TypeNext, KeyNext DEF bankVars, tVars
  <2>2. QED
    BY <1>4, <2>1, AccountCallsKept DEF bankVars, storeVars
<1>5. QED
  BY <1>1, <1>2, <1>3, <1>4 DEF BankStep, BankNext, BankQuiet

LEMMA ServicesHold == BankSpec => []ServicesInv
<1>1. BankSpec => BankInit /\ [][BankStep]_bankVars
  BY PTL DEF BankSpec, BankStep
<1>2. QED
  BY <1>1, ServicesInit, ServicesNext, PTL

(* Deposits, withdrawals and status changes on the same accounts, and the    *)
(* crash of the whole process, do not make a key move money twice.           *)
THEOREM BankKeysMoveOnce == BankSpec => []OneMovementPerKey
<1>1. ServicesInv => OneMovementPerKey
  BY DEF ServicesInv, KeyInv, MoversOwnRows, OneMovementPerKey
<1>2. QED
  BY <1>1, ServicesHold, PTL

(* In the whole service too, provided that a COMMIT that returns an error    *)
(* has not taken effect, the transfers rows, the answers and the audit log   *)
(* agree with the balances.                                                  *)
THEOREM BankTellsTheTruth ==
  ASSUME ~AmbiguousCommit
  PROVE  BankSpec => [](RowsMatchMovements /\ AnswersAreTrue /\ AuditMatchesMovements)
<1>1. ServicesInv => RowsMatchMovements /\ AnswersAreTrue /\ AuditMatchesMovements
  BY InvIsHonest DEF ServicesInv
<1>2. QED
  BY <1>1, ServicesHold, PTL

(* Without errors, and if Update did not store the new balance in the struct *)
(* its record is made from, a transfer is refused by its transaction only    *)
(* for a cause the client can see: the insert hooks never refuse.  The       *)
(* hypotheses name the rest: with UpdateWritesBack every transfer fails.     *)
THEOREM TransfersFailForCause ==
  ASSUME ~Faults, ~AmbiguousCommit, ~UpdateWritesBack
  PROVE  BankSpec => FailsOnlyForCause
<1> DEFINE HasCause(r) ==
      \/ ~BalanceAllowed(accounts[tJob[r].from], "debit", tJob[r].amount)
      \/ ~IsActive(accounts[tJob[r].to])
      \/ Deadlocked(r)
<1> DEFINE Refused(r) == tPc[r] \in TInTx /\ tPc'[r] = "markFailed"
<1>1. ASSUME ServicesInv, NEW r \in TransferRequests, tPc[r] \in TInTx
      PROVE  BalanceIsCorrect(DebitEntry(r)) /\ BalanceIsCorrect(CreditEntry(r))
  <2>1. tFrom[r] \in Nat /\ tTo[r] \in Nat /\ tJob[r] \in TransferJob
    BY <1>1 DEF ServicesInv, TypeInv, TransferTypeOK, TInTx
  <2>2. tJob[r].amount \in Nat
    <3>1. tJob[r].amount \in Amounts \cup {0}
      BY <2>1, SMTT(30) DEF TransferJob
    <3>2. Amounts \cup {0} \subseteq Nat
      BY StoreAssumption
    <3>3. QED
      BY <3>1, <3>2, Zenon
  <2>3. QED
    BY <2>1, <2>2 DEF BalanceIsCorrect, DebitEntry, CreditEntry, Entry, Delta
<1>2. ASSUME ServicesInv, NEW q \in TransferRequests, NEW r \in TransferRequests,
             CallTransfer(q) \/ TransferStep(q), Refused(r)
      PROVE  HasCause(r)
  <2>1. tPc = [p \in TransferRequests |-> tPc[p]] /\ tPc'[r] # tPc[r]
    BY <1>2 DEF ServicesInv, TypeInv, TransferTypeOK, TInTx
  <2>2. ASSUME NEW from, NEW to, TGoto(q, from, to)
        PROVE  q = r /\ tPc[r] = from /\ to = "markFailed"
    BY <1>2, <2>1, <2>2 DEF TGoto
  <2>3. CASE SelectSource(q)
    BY <1>2, <2>2, <2>3 DEF SelectSource, Rollback
  <2>4. CASE SelectDestination(q)
    BY <1>2, <2>2, <2>4 DEF SelectDestination, Rollback
  <2>5. CASE DebitSource(q) \/ CreditDestination(q)
    BY <1>1, <1>2, <2>2, <2>5 DEF DebitSource, CreditDestination, Rollback
  <2>6. CASE DeadlockVictim(q)
    BY <2>2, <2>6 DEF DeadlockVictim, Rollback
  <2>7. CASE CallTransfer(q)
    BY <1>2, <2>1, <2>7 DEF CallTransfer, TInTx
  <2>8. ~(CheckExisting(q) \/ ReadSource(q) \/ ReadDestination(q) \/ CreateTransfer(q))
    BY <1>2, <2>2 DEF CheckExisting, ReadSource, ReadDestination, CreateTransfer, TInTx
  <2>9. ~(CommitTransfer(q) \/ MarkCompleted(q) \/ MarkFailed(q) \/ AuditOutcome(q))
    BY <1>2, <2>2 DEF CommitTransfer, MarkCompleted, MarkFailed, AuditOutcome, TInTx
  <2>10. QED
    BY <1>2, <2>3, <2>4, <2>5, <2>6, <2>7, <2>8, <2>9 DEF TransferStep
<1>3. ServicesInv /\ [BankNext \/ BankQuiet]_bankVars =>
        [\A r \in TransferRequests : Refused(r) => HasCause(r)]_tVars
  <2> SUFFICES ASSUME ServicesInv, BankNext \/ BankQuiet \/ UNCHANGED bankVars,
                      NEW r \in TransferRequests, Refused(r)
               PROVE  HasCause(r)
    OBVIOUS
  <2>1. CASE UNCHANGED tPc
    BY <2>1 DEF TInTx
  <2>2. ~BankCrash
    BY DEF BankCrash
  <2>3. ASSUME NEW q \in TransferRequests,
               CallTransfer(q) \/ TransferStep(q) \/ TransferDBError(q) \/ TransactionError(q)
        PROVE  HasCause(r)
    BY <1>2, <2>3 DEF TransferDBError, TransactionError
  <2>4. QED
    BY <2>1, <2>2, <2>3 DEF BankNext, BankQuiet, TransferNext, bankVars, transferVars
<1>4. QED
  BY <1>3, ServicesHold, PTL DEF BankSpec, FailsOnlyForCause

-----------------------------------------------------------------------------
(* The refinement: what the row locks would give, and no request may save   *)
(* the balance it read before another moved it.                             *)

(* From the SELECT of a row to the end of its transaction, the row is locked *)
(* and still is what the SELECT read.                                        *)
TransferHolds(r) ==
  LET j == tJob[r] IN
  /\ tPc[r] \in TOpen => ValidTransfer(j)
  /\ tPc[r] \in TInTx \ {"debitSelect"} =>
       rowLock[j.from] = r /\ tFrom[r] = accounts[j.from].balance
  /\ tPc[r] \in {"credit", "commit"} =>
       rowLock[j.to] = r /\ tTo[r] = accounts[j.to].balance

AccountHolds(r) ==
  LET j == aJob[r] IN
  /\ aPc[r] # "saveStatus"
  /\ aPc[r] \in AOpen => ValidJob(j)
  /\ aPc[r] = "updateSave" => rowLock[j.account] = r /\ aRow[r] = accounts[j.account]

LocksInv ==
  /\ \A r \in TransferRequests : TransferHolds(r)
  /\ \A r \in AccountRequests : AccountHolds(r)

(* A step of request s touches no row that another request has locked. *)
LeavesOthers(s) == \A a \in Accounts :
  rowLock[a] \notin {s, NoRequest} => rowLock'[a] = rowLock[a] /\ accounts'[a] = accounts[a]

LEMMA OtherTransfersHold ==
  ASSUME TypeInv, LocksInv, NEW s, LeavesOthers(s),
         NEW r \in TransferRequests, r # s,
         tPc'[r] = tPc[r], tJob'[r] = tJob[r], tFrom'[r] = tFrom[r], tTo'[r] = tTo[r]
  PROVE  TransferHolds(r)'
<1> DEFINE j == tJob[r]
<1>1. TransferHolds(r) /\ r # NoRequest
  BY StoreAssumption, TransferServiceAssumption DEF LocksInv
<1>2. tPc[r] \in TInTx => j.from \in Accounts /\ j.to \in Accounts
  BY DEF TypeInv, TransferTypeOK, TransferJob, TInTx
<1>3. tPc[r] \in TInTx \ {"debitSelect"} =>
        rowLock'[j.from] = rowLock[j.from] /\ accounts'[j.from] = accounts[j.from]
  BY <1>1, <1>2 DEF TransferHolds, LeavesOthers
<1>4. tPc[r] \in {"credit", "commit"} =>
        rowLock'[j.to] = rowLock[j.to] /\ accounts'[j.to] = accounts[j.to]
  BY <1>1, <1>2 DEF TransferHolds, LeavesOthers, TInTx
<1>5. QED
  BY <1>1, <1>3, <1>4 DEF TransferHolds

LEMMA OtherAccountCallsHold ==
  ASSUME CallsInv, LocksInv, NEW s, LeavesOthers(s),
         NEW r \in AccountRequests, r # s,
         aPc'[r] = aPc[r], aJob'[r] = aJob[r], aRow'[r] = aRow[r]
  PROVE  AccountHolds(r)'
<1> DEFINE j == aJob[r]
<1>1. AccountHolds(r) /\ r # NoRequest
  BY StoreAssumption, AccountServiceAssumption DEF LocksInv
<1>2. aPc[r] = "updateSave" => j.account \in Accounts
  BY JobFields DEF CallsInv, CallsTypeOK
<1>3. aPc[r] = "updateSave" =>
        rowLock'[j.account] = rowLock[j.account] /\ accounts'[j.account] = accounts[j.account]
  BY <1>1, <1>2 DEF AccountHolds, LeavesOthers
<1>4. QED
  BY <1>1, <1>3 DEF AccountHolds

-----------------------------------------------------------------------------
(* A transfer's step keeps LocksInv. *)
LEMMA TransfersHold ==
  ASSUME RowLocks, ServicesInv, LocksInv, UNCHANGED serviceVars,
         NEW r \in TransferRequests,
         CallTransfer(r) \/ TransferStep(r) \/ TransferDBError(r) \/ TransactionError(r)
  PROVE  LocksInv'
<1> DEFINE j == tJob[r]
<1> USE DEF ServicesInv, TypeInv, StoreTypeOK, TransferTypeOK
<1>1. r \notin AccountRequests /\ r # NoRequest
  BY BankAssumption, StoreAssumption, TransferServiceAssumption
<1>2. TransferHolds(r)
  BY DEF LocksInv
<1> DEFINE Goal ==
             /\ LeavesOthers(r)
             /\ TransferHolds(r)'
             /\ \A q \in TransferRequests \ {r} :
                  /\ tPc'[q] = tPc[q] /\ tJob'[q] = tJob[q]
                  /\ tFrom'[q] = tFrom[q] /\ tTo'[q] = tTo[q]
<1>3. SUFFICES Goal
  BY <1>1, OtherTransfersHold, OtherAccountCallsHold DEF LocksInv, serviceVars
<1>4. CASE CallTransfer(r)
  BY <1>4 DEF CallTransfer, LeavesOthers, TransferHolds, storeVars, TInTx, TOpen, TBefore
<1>5. tPc[r] # "idle" => j.from \in Accounts /\ j.to \in Accounts /\ j.amount \in Nat
  <2>1. Amounts \cup {0} \subseteq Nat
    BY StoreAssumption
  <2>2. j \in TransferJob => j.from \in Accounts /\ j.to \in Accounts /\ j.amount \in Nat
    BY <2>1, SMTT(30) DEF TransferJob
  <2>3. QED
    BY <2>2
<1>6. ASSUME NEW from \in TOpen, NEW to, to \notin TInTx \ {"debitSelect"}, TGoto(r, from, to),
             accounts' = accounts, rowLock' = rowLock \/ Unlock(r),
             UNCHANGED <<tJob, tFrom, tTo>>
      PROVE  Goal
  BY <1>1, <1>2, <1>6 DEF TGoto, LeavesOthers, TransferHolds, Unlock, TInTx
<1>7. CASE CheckExisting(r) \/ ReadSource(r) \/ ReadDestination(r) \/ CreateTransfer(r)
             \/ MarkCompleted(r) \/ MarkFailed(r) \/ AuditOutcome(r) \/ TransferDBError(r)
  <2>1. UNCHANGED <<accounts, rowLock, tJob, tFrom, tTo>>
    BY <1>7, Zenon DEF CheckExisting, ReadSource, ReadDestination, CreateTransfer, MarkCompleted,
                MarkFailed, AuditOutcome, Audit, TransferDBError, storeVars
  <2>2. \E from \in TOpen, to \in TOpen \cup TEnded :
          TGoto(r, from, to) /\ to \notin TInTx \ {"debitSelect"}
    BY <1>7 DEF CheckExisting, ReadSource, ReadDestination, CreateTransfer, MarkCompleted,
                MarkFailed, AuditOutcome, TransferDBError, TOpen, TBefore, TInTx, TEnded
  <2>3. QED
    BY <1>6, <2>1, <2>2
<1>8. ASSUME NEW pc \in TInTx, Rollback(r, pc) PROVE Goal
  BY <1>6, <1>8 DEF Rollback, TOpen, TInTx
<1>9. CASE TransactionError(r) \/ DeadlockVictim(r)
  BY <1>8, <1>9 DEF TransactionError, DeadlockVictim
<1>10. ASSUME SelectSource(r) PROVE Goal
  <2>1. CASE Rollback(r, "debitSelect")
    BY <1>8, <2>1 DEF TInTx
  <2>2. CASE ~Rollback(r, "debitSelect")
    <3>1. /\ TGoto(r, "debitSelect", "debit")
          /\ Lock(r, j.from)
          /\ tFrom' = [tFrom EXCEPT ![r] = accounts[j.from].balance]
          /\ UNCHANGED <<accounts, tJob, tTo>>
      BY <1>10, <2>2 DEF SelectSource, SelectForUpdate
    <3>2. QED
      BY <1>2, <1>5, <3>1
         DEF TGoto, LeavesOthers, TransferHolds, Lock, CanLock, TInTx, TOpen
  <2>3. QED
    BY <2>1, <2>2
<1>11. ASSUME DebitSource(r) PROVE Goal
  <2>1. CASE Rollback(r, "debit")
    BY <1>8, <2>1 DEF TInTx
  <2>2. CASE ~Rollback(r, "debit")
    <3>1. /\ TGoto(r, "debit", "creditSelect")
          /\ Lock(r, j.from)
          /\ UNCHANGED <<accounts, tJob, tFrom, tTo>>
      BY <1>11, <2>2 DEF DebitSource
    <3>2. QED
      BY <1>2, <1>5, <3>1
         DEF TGoto, LeavesOthers, TransferHolds, Lock, CanLock, TInTx, TOpen
  <2>3. QED
    BY <2>1, <2>2
<1>12. ASSUME SelectDestination(r) PROVE Goal
  <2>1. CASE Rollback(r, "creditSelect")
    BY <1>8, <2>1 DEF TInTx
  <2>2. CASE ~Rollback(r, "creditSelect")
    <3>1. /\ TGoto(r, "creditSelect", "credit")
          /\ Lock(r, j.to)
          /\ tTo' = [tTo EXCEPT ![r] = accounts[j.to].balance]
          /\ UNCHANGED <<accounts, tJob, tFrom>>
      BY <1>12, <2>2 DEF SelectDestination, SelectForUpdate
    <3>2. QED
      BY <1>2, <1>5, <3>1
         DEF TGoto, LeavesOthers, TransferHolds, Lock, CanLock, TInTx, TOpen
  <2>3. QED
    BY <2>1, <2>2
<1>13. ASSUME CreditDestination(r) PROVE Goal
  <2>1. CASE Rollback(r, "credit")
    BY <1>8, <2>1 DEF TInTx
  <2>2. CASE ~Rollback(r, "credit")
    <3>1. /\ TGoto(r, "credit", "commit")
          /\ Lock(r, j.to)
          /\ UNCHANGED <<accounts, tJob, tFrom, tTo>>
      BY <1>13, <2>2 DEF CreditDestination
    <3>2. QED
      BY <1>2, <1>5, <3>1
         DEF TGoto, LeavesOthers, TransferHolds, Lock, CanLock, TInTx, TOpen
  <2>3. QED
    BY <2>1, <2>2
<1>14. ASSUME CommitTransfer(r) PROVE Goal
  <2>1. /\ \E to \in {"markCompleted", "markFailed"} : TGoto(r, "commit", to)
        /\ Unlock(r)
        /\ UNCHANGED <<tJob, tFrom, tTo>>
    BY <1>14 DEF CommitTransfer
  <2>2. rowLock[j.from] = r /\ rowLock[j.to] = r
    BY <1>2, <2>1 DEF TransferHolds, TGoto, TInTx
  <2>3. \A a \in Accounts : rowLock[a] # r => accounts'[a] = accounts[a]
    BY <2>2, <1>14 DEF CommitTransfer
  <2>4. QED
    BY <1>2, <2>1, <2>3 DEF TGoto, LeavesOthers, TransferHolds, Unlock, TInTx, TOpen
<1>15. QED
  BY <1>4, <1>7, <1>9, <1>10, <1>11, <1>12, <1>13, <1>14 DEF TransferStep

(* So does a step of another request: UpdateSave writes the row it locked. *)
LEMMA AccountCallsHold ==
  ASSUME RowLocks, AccountOps \subseteq {"credit", "debit"},
         ServicesInv, LocksInv, UNCHANGED transferVars,
         NEW r \in AccountRequests,
         CallAccount(r) \/ AccountStep(r) \/ AccountDBError(r)
  PROVE  LocksInv'
<1> DEFINE j == aJob[r]
           Goal ==
             /\ LeavesOthers(r)
             /\ AccountHolds(r)'
             /\ \A q \in AccountRequests \ {r} :
                  aPc'[q] = aPc[q] /\ aJob'[q] = aJob[q] /\ aRow'[q] = aRow[q]
<1> USE DEF ServicesInv, TypeInv, StoreTypeOK, CallsInv, CallsTypeOK
<1>1. r \notin TransferRequests /\ r # NoRequest
  BY BankAssumption, StoreAssumption, AccountServiceAssumption
<1>2. AccountHolds(r)
  BY DEF LocksInv
<1>3. SUFFICES Goal
  BY <1>1, OtherTransfersHold, OtherAccountCallsHold DEF LocksInv, transferVars
<1>4. \A k \in AccountJob : MovesMoney(k)
  BY JobFields DEF MovesMoney
<1>5. CASE CallAccount(r)
  BY <1>5 DEF CallAccount, LeavesOthers, AccountHolds, storeVars, AOpen
<1>6. CASE GetAccount(r)
  BY <1>2, <1>4, <1>6 DEF GetAccount, AGoto, LeavesOthers, AccountHolds, storeVars, AOpen
<1>7. CASE UpdateRead(r)
  <2>1. aPc[r] = "updateRead" /\ j.account \in Accounts
    BY <1>7, JobFields DEF UpdateRead, AGoto
  <2>2. CASE aPc'[r] = "updateSave"
    <3>1. /\ aPc' = [aPc EXCEPT ![r] = "updateSave"]
          /\ Lock(r, j.account)
          /\ aRow' = [aRow EXCEPT ![r] = accounts[j.account]]
          /\ UNCHANGED <<accounts, aJob>>
      BY <1>7, <2>2 DEF UpdateRead, AGoto, UpdateBalanceRead, SelectForUpdate
    <3>2. QED
      BY <1>2, <2>1, <3>1 DEF LeavesOthers, AccountHolds, Lock, CanLock, AOpen
  <2>3. CASE aPc'[r] # "updateSave"
    <3>1. /\ aPc' = [aPc EXCEPT ![r] = "rejected"]
          /\ \E row : aRow' = [aRow EXCEPT ![r] = row]
          /\ UNCHANGED <<accounts, rowLock, aJob>>
      BY <1>7, <2>3 DEF UpdateRead, AGoto, UpdateBalanceRead
    <3>2. QED
      BY <1>2, <2>1, <3>1 DEF LeavesOthers, AccountHolds, AOpen
  <2>4. QED
    BY <2>2, <2>3
<1>8. CASE UpdateSave(r)
  <2>1. /\ \E to \in {"record", "unrecorded"} : AGoto(r, "updateSave", to)
        /\ Unlock(r)
        /\ \E row : accounts' = [accounts EXCEPT ![j.account] = row]
        /\ UNCHANGED <<aJob, aRow>>
    BY <1>8 DEF UpdateSave, UpdateBalanceSave
  <2>2. rowLock[j.account] = r
    BY <1>2, <2>1 DEF AccountHolds, AGoto
  <2>3. \A a \in Accounts : rowLock[a] # r => accounts'[a] = accounts[a]
    BY <2>1, <2>2
  <2>4. QED
    BY <1>2, <2>1, <2>3 DEF AGoto, LeavesOthers, AccountHolds, Unlock, AOpen
<1>9. CASE RecordTransaction(r)
  BY <1>2, <1>9 DEF RecordTransaction, AGoto, LeavesOthers, AccountHolds, AOpen
<1>10. CASE SaveStatus(r)
  BY <1>2, <1>10 DEF SaveStatus, AGoto, AccountHolds
<1>11. CASE AccountDBError(r)
  BY <1>2, <1>11 DEF AccountDBError, AGoto, LeavesOthers, AccountHolds, Unlock, AOpen
<1>12. QED
  BY <1>5, <1>6, <1>7, <1>8, <1>9, <1>10, <1>11 DEF AccountStep

LEMMA LocksInit == BankInit => LocksInv
BY DEF BankInit, TransferInit, AccountInit, LocksInv, TransferHolds, AccountHolds, TOpen,
       TBefore, TInTx, AOpen

LEMMA LocksNext ==
  ASSUME RowLocks, AccountOps \subseteq {"credit", "debit"},
         ServicesInv, LocksInv, [BankStep]_bankVars
  PROVE  LocksInv'
<1>1. CASE TransferNext /\ UNCHANGED serviceVars
  BY <1>1, TransfersHold DEF TransferNext
<1>2. CASE AccountNext /\ UNCHANGED transferVars
  BY <1>2, AccountCallsHold DEF AccountNext
<1>3. CASE BankCrash
  <2>1. \A r \in TransferRequests : tPc'[r] \notin TOpen
    BY <1>3 DEF BankCrash, DropTransfers, TOpen, TBefore, TInTx
  <2>2. \A r \in AccountRequests : aPc'[r] \notin AOpen
    BY <1>3 DEF BankCrash, DropAccountCalls, AOpen
  <2>3. QED
    BY <2>1, <2>2 DEF LocksInv, TransferHolds, AccountHolds, TOpen, TInTx, AOpen
<1>4. CASE UNCHANGED bankVars
  BY <1>4 DEF bankVars, storeVars, transferVars, serviceVars, LocksInv, TransferHolds,
              AccountHolds
<1>5. QED
  BY <1>1, <1>2, <1>3, <1>4 DEF BankStep, BankNext, BankQuiet

-----------------------------------------------------------------------------
(* Every step posts one request's whole effect, or changes no balance. *)

(* What AtomicLedger calls balance and effect. *)
JobEffect == [r \in Requests |-> EffectOf(r)]
Balance == [a \in Accounts |-> accounts[a].balance]
Effect == [r \in Requests |->
             IF r \in posted THEN EffectOf(r) ELSE [a \in Accounts |-> 0]]

LEMMA EffectChange ==
  ASSUME posted \subseteq Requests,
         \A q \in posted : JobEffect'[q] = JobEffect[q],
         NEW r \in Requests, posted' \in {posted, posted \cup {r}}
  PROVE  Effect' = IF posted' = posted THEN Effect
                   ELSE [Effect EXCEPT ![r] = JobEffect'[r]]
<1>1. Effect = [q \in Requests |->
                  IF q \in posted THEN JobEffect[q] ELSE [a \in Accounts |-> 0]]
  BY DEF Effect, JobEffect
<1>2. Effect' = [q \in Requests |->
                  IF q \in posted' THEN JobEffect'[q] ELSE [a \in Accounts |-> 0]]
  BY DEF Effect, JobEffect, EffectOf
<1>3. QED
  BY <1>1, <1>2

LEMMA Posts ==
  ASSUME NEW r \in Requests, NEW e \in L!Effects, r \notin posted,
         Effect' = [Effect EXCEPT ![r] = e],
         \A a \in Accounts : /\ accounts'[a].balance = accounts[a].balance + e[a]
                             /\ accounts'[a].balance >= 0
  PROVE  L!Next
<1>1. Effect[r] = L!NoEffect
  BY DEF Effect, L!NoEffect
<1>2. Balance' = [a \in Accounts |-> Balance[a] + e[a]] /\ \A a \in Accounts : Balance'[a] >= 0
  BY DEF Balance
<1>3. L!Post(r, e)
  BY <1>1, <1>2 DEF L!Post, Effect, Balance, EffectOf
<1>4. QED
  BY <1>3 DEF L!Next

LEMMA Stutters ==
  ASSUME Effect' = Effect, \A a \in Accounts : accounts'[a].balance = accounts[a].balance
  PROVE  UNCHANGED L!vars
<1>1. Balance' = Balance
  BY DEF Balance
<1>2. QED
  BY <1>1 DEF L!vars, Balance, Effect, EffectOf

(* A request that has posted keeps its job. *)
LEMMA EffectsStay ==
  ASSUME ServicesInv, [BankStep]_bankVars, NEW q \in posted
  PROVE  JobEffect'[q] = JobEffect[q]
<1>1. q \in TransferRequests => tJob'[q] = tJob[q]
  <2>1. q \in TransferRequests => tPc[q] # "idle"
    BY DEF ServicesInv, KeyInv, MoversOwnRows, AfterCommit
  <2>2. ASSUME NEW r \in TransferRequests, CallTransfer(r), q \in TransferRequests
        PROVE  tJob'[q] = tJob[q]
    BY <2>1, <2>2 DEF CallTransfer, ServicesInv, TypeInv, TransferTypeOK
  <2>3. ASSUME NEW r \in TransferRequests,
               TransferStep(r) \/ TransferDBError(r) \/ TransactionError(r)
        PROVE  tJob' = tJob
    BY <2>3, Zenon
       DEF TransferStep, TransferDBError, TransactionError, CheckExisting, ReadSource,
           ReadDestination, CreateTransfer, SelectSource, DebitSource, SelectDestination,
           CreditDestination, CommitTransfer, MarkCompleted, MarkFailed, AuditOutcome, Audit,
           DeadlockVictim, Rollback
  <2>4. QED
    BY <2>2, <2>3 DEF BankStep, BankNext, BankQuiet, BankCrash, TransferNext, bankVars,
                      transferVars
<1>2. q \in AccountRequests => aJob'[q] = aJob[q]
  <2>1. q \in AccountRequests => aPc[q] # "idle"
    BY DEF ServicesInv, PostedCalls
  <2>2. ASSUME NEW r \in AccountRequests, CallAccount(r), q \in AccountRequests
        PROVE  aJob'[q] = aJob[q]
    BY <2>1, <2>2 DEF CallAccount, ServicesInv, CallsInv, CallsTypeOK
  <2>3. ASSUME NEW r \in AccountRequests, AccountStep(r) \/ AccountDBError(r)
        PROVE  aJob' = aJob
    BY <2>3, Zenon
       DEF AccountStep, AccountDBError, GetAccount, UpdateRead, UpdateSave, RecordTransaction,
           SaveStatus
  <2>4. QED
    BY <2>2, <2>3 DEF BankStep, BankNext, BankQuiet, BankCrash, AccountNext, bankVars,
                      serviceVars
<1>3. q \in TransferRequests \cup AccountRequests /\ q \in Requests
  BY BankAssumption DEF ServicesInv, TypeInv, StoreTypeOK
<1>4. QED
  BY <1>1, <1>2, <1>3 DEF JobEffect, EffectOf

LEMMA CommitPosts ==
  ASSUME ServicesInv, LocksInv, StoreTypeOK',
         \A q \in posted : JobEffect'[q] = JobEffect[q],
         NEW r \in TransferRequests, CommitTransfer(r)
  PROVE  L!Next
<1> DEFINE j == tJob[r]
<1> USE DEF ServicesInv, TypeInv, StoreTypeOK, TransferTypeOK
<1>1. /\ tPc[r] = "commit" /\ posted' = posted \cup {r} /\ tJob' = tJob
      /\ accounts' = [accounts EXCEPT ![j.from].balance = DebitEntry(r).after,
                                      ![j.to].balance = CreditEntry(r).after]
  BY DEF CommitTransfer, TGoto
<1>2. r \in Requests /\ r \notin posted
  BY <1>1, TransferServiceAssumption DEF KeyInv, MoversOwnRows, AfterCommit
<1>3. /\ ValidTransfer(j)
      /\ tFrom[r] = accounts[j.from].balance /\ tTo[r] = accounts[j.to].balance
  BY <1>1 DEF LocksInv, TransferHolds, TInTx, TOpen
<1>4. /\ j.from \in Accounts /\ j.to \in Accounts /\ j.from # j.to
      /\ j.amount \in Amounts /\ j.amount \in Nat
  <2>1. j \in TransferJob
    BY <1>1
  <2>2. j.from \in Accounts /\ j.to \in Accounts /\ j.amount \in Amounts \cup {0}
    BY <2>1, SMTT(30) DEF TransferJob
  <2>3. Amounts \cup {0} \subseteq Nat
    BY StoreAssumption
  <2>4. j.amount \in Nat
    BY <2>2, <2>3, Zenon
  <2>5. QED
    BY <1>3, <2>2, <2>4 DEF ValidTransfer
<1> DEFINE e == JobEffect'[r]
<1>5. e = [a \in Accounts |-> IF a = j.from THEN -j.amount
                              ELSE IF a = j.to THEN j.amount ELSE 0]
  BY <1>1, <1>2 DEF JobEffect, EffectOf
<1>6. e \in L!Effects
  <2>1. e = L!Move(j.from, j.to, j.amount)
    BY <1>4, <1>5 DEF L!Move, L!NoEffect
  <2>2. <<j.from, j.to>> \in {q \in Accounts \X Accounts : q[1] # q[2]}
    BY <1>4
  <2>3. QED
    BY <1>4, <2>1, <2>2 DEF L!Effects
<1>7. \A a \in Accounts : accounts'[a].balance = accounts[a].balance + e[a]
  <2>1. DebitEntry(r).after = tFrom[r] - j.amount /\ CreditEntry(r).after = tTo[r] + j.amount
    BY DEF DebitEntry, CreditEntry, Entry
  <2>2. \A a \in Accounts : accounts[a] \in AccountRow
    OBVIOUS
  <2>3. accounts'[j.from].balance = tFrom[r] - j.amount
    BY <1>1, <1>4, <2>1, <2>2 DEF AccountRow
  <2>4. accounts'[j.to].balance = tTo[r] + j.amount
    BY <1>1, <1>4, <2>1, <2>2 DEF AccountRow
  <2>5. \A a \in Accounts \ {j.from, j.to} : accounts'[a] = accounts[a]
    BY <1>1, <1>4
  <2>6. QED
    BY <1>3, <1>4, <1>5, <2>2, <2>3, <2>4, <2>5 DEF AccountRow
<1>8. \A a \in Accounts : accounts'[a].balance >= 0
  BY DEF AccountRow
<1>9. Effect' = [Effect EXCEPT ![r] = e]
  BY <1>1, <1>2, EffectChange
<1> HIDE DEF e
<1>10. QED
  BY <1>2, <1>6, <1>7, <1>8, <1>9, Posts

LEMMA SavePosts ==
  ASSUME AccountOps \subseteq {"credit", "debit"}, ServicesInv, LocksInv, StoreTypeOK',
         \A q \in posted : JobEffect'[q] = JobEffect[q],
         NEW r \in AccountRequests, UpdateSave(r)
  PROVE  L!Next
<1> DEFINE j == aJob[r]
<1> USE DEF ServicesInv, TypeInv, StoreTypeOK, CallsInv, CallsTypeOK
<1>1. /\ aPc[r] = "updateSave" /\ posted' = posted \cup {r} /\ aJob' = aJob
      /\ accounts' = [accounts EXCEPT
           ![j.account] = [aRow[r] EXCEPT !.balance = @ + Delta(j.op, j.amount)]]
  BY DEF UpdateSave, UpdateBalanceSave, AGoto
<1>2. r \in Requests /\ r \notin posted /\ r \notin TransferRequests
  BY <1>1, AccountServiceAssumption, BankAssumption DEF PostedCalls
<1>3. ValidJob(j) /\ aRow[r] = accounts[j.account]
  BY <1>1 DEF LocksInv, AccountHolds, AOpen
<1>4. /\ j.account \in Accounts /\ j.op \in {"credit", "debit"}
      /\ j.amount \in Amounts /\ j.amount \in Nat
  <2>1. j \in AccountJob
    BY <1>1
  <2>2. /\ j.account \in Accounts /\ j.op \in {"credit", "debit"} /\ j.amount \in Nat
    BY <2>1, JobFields
  <2>3. j.amount \in Amounts \cup {0}
    BY <2>1, SMTT(30) DEF AccountJob
  <2>4. QED
    BY <1>3, <2>2, <2>3 DEF ValidJob, MovesMoney
<1> DEFINE e == JobEffect'[r]
           d == Delta(j.op, j.amount)
<1>5. e = [a \in Accounts |-> IF a = j.account THEN d ELSE 0]
  BY <1>1, <1>2 DEF JobEffect, EffectOf
<1>6. d \in Int /\ d \in Amounts \cup {-x : x \in Amounts}
  BY <1>4 DEF Delta
<1>7. e \in L!Effects
  <2>1. e = L!Change(j.account, d)
    BY <1>4, <1>5 DEF L!Change, L!NoEffect
  <2>2. QED
    BY <1>4, <1>6, <2>1 DEF L!Effects
<1>8. \A a \in Accounts : accounts'[a].balance = accounts[a].balance + e[a]
  <2>1. \A a \in Accounts : accounts[a] \in AccountRow
    OBVIOUS
  <2>2. accounts'[j.account].balance = accounts[j.account].balance + d
    BY <1>1, <1>3, <1>4, <2>1 DEF AccountRow
  <2>3. \A a \in Accounts \ {j.account} : accounts'[a] = accounts[a]
    BY <1>1, <1>4
  <2>4. QED
    BY <1>5, <1>6, <2>1, <2>2, <2>3 DEF AccountRow
<1>9. \A a \in Accounts : accounts'[a].balance >= 0
  BY DEF AccountRow
<1>10. Effect' = [Effect EXCEPT ![r] = e]
  BY <1>1, <1>2, EffectChange
<1> HIDE DEF e
<1>11. QED
  BY <1>2, <1>7, <1>8, <1>9, <1>10, Posts

LEMMA RefinementInit == BankInit => L!Init
BY DEF BankInit, StoreInit, L!Init, L!NoEffect

LEMMA RefinementNext ==
  ASSUME AccountOps \subseteq {"credit", "debit"},
         ServicesInv, LocksInv, ServicesInv', [BankStep]_bankVars
  PROVE  [L!Next]_(L!vars)
<1>1. \A q \in posted : JobEffect'[q] = JobEffect[q]
  BY EffectsStay
<1>2. CASE UNCHANGED <<accounts, posted>>
  <2>1. Effect' = Effect
    BY <1>1, <1>2, EffectChange DEF ServicesInv, TypeInv, StoreTypeOK, Effect
  <2>2. QED
    BY <1>2, <2>1, Stutters
<1>3. ASSUME NEW r \in TransferRequests,
             CallTransfer(r) \/ TransferStep(r) \/ TransferDBError(r) \/ TransactionError(r)
      PROVE  [L!Next]_(L!vars)
  BY <1>1, <1>2, <1>3, TransferWrites, CommitPosts DEF ServicesInv, TypeInv
<1>4. ASSUME NEW r \in AccountRequests, CallAccount(r) \/ AccountStep(r) \/ AccountDBError(r)
      PROVE  [L!Next]_(L!vars)
  <2>1. ~SaveStatus(r)
    BY DEF SaveStatus, AGoto, LocksInv, AccountHolds
  <2>2. QED
    BY <1>1, <1>2, <1>4, <2>1, AccountWrites, SavePosts DEF ServicesInv, TypeInv
<1>5. QED
  BY <1>2, <1>3, <1>4
     DEF BankStep, BankNext, BankQuiet, BankCrash, TransferNext, AccountNext, bankVars, storeVars

(* Were the row locks taken, concurrent transfers, deposits and withdrawals  *)
(* would add up to atomic movements: no update would be lost or seen half    *)
(* done, and no account overdrawn, for any number of requests and accounts.  *)
THEOREM LocksMakeItAtomic ==
  ASSUME RowLocks, AccountOps \subseteq {"credit", "debit"}
  PROVE  BankSpec => ImplementsAtomicLedger
<1>1. ServicesInv /\ LocksInv /\ [BankStep]_bankVars => LocksInv'
  BY LocksNext
<1>2. ServicesInv /\ LocksInv /\ ServicesInv' /\ [BankStep]_bankVars => [L!Next]_(L!vars)
  BY RefinementNext
<1>3. BankSpec => BankInit /\ [][BankStep]_bankVars
  BY PTL DEF BankSpec, BankStep
<1>4. QED
  BY <1>1, <1>2, <1>3, ServicesHold, LocksInit, RefinementInit, PTL
     DEF ImplementsAtomicLedger, L!Spec
=============================================================================
