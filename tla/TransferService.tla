--------------------------- MODULE TransferService ---------------------------
(***************************************************************************)
(* TransferBetweenAccounts: a transfer between two accounts under a        *)
(* client-supplied idempotency key.  The request looks the key up, checks  *)
(* the accounts, inserts a pending transfers row, moves the money in one   *)
(* database transaction (ExecuteAtomicTransfer), and then saves the row as *)
(* completed or failed.  Every statement is an action of its own; several  *)
(* requests, with equal or different keys, interleave.                     *)
(***************************************************************************)
EXTENDS AccountStore

CONSTANTS
  TransferRequests,  \* the requests that transfer money
  Keys               \* idempotency keys

ASSUME TransferServiceAssumption == TransferRequests \subseteq Requests

VARIABLES
  transfers,  \* transfers[k]: the row with idempotency key k, or NoTransfer
  tPc,        \* tPc[r]: the statement request r runs next
  tJob,       \* tJob[r]: what it was asked to do
  tFrom,      \* tFrom[r]: the source balance the transaction read
  tTo,        \* tTo[r]: the destination balance the transaction read
  audit       \* the transfer events of the audit_logs table

transferVars == <<transfers, tPc, tJob, tFrom, tTo, audit>>
tVars == <<storeVars, transferVars>>

TransferJob == [key : Keys, from : Accounts, to : Accounts,
                amount : Amounts \cup {0}, user : Users]

(* Statuses of an internal transfer; "processing" is for external ones. *)
TransferRow == [id : TransferRequests, status : {"pending", "completed", "failed"}]
NoTransfer == [id |-> NoRequest, status |-> "none"]

Events == {"transfer.completed", "transfer.failed"}

TBefore == {"lookup", "readSource", "readDestination", "create"}
TInTx == {"debitSelect", "debit", "creditSelect", "credit", "commit"}
TOpen == TBefore \cup TInTx
           \cup {"markCompleted", "auditCompleted", "markFailed", "auditFailed"}
TEnded == {"done", "replayed", "rejected", "failed", "error", "crashed"}

TransferTypeOK ==
  /\ transfers \in [Keys -> TransferRow \cup {NoTransfer}]
  /\ tPc \in [TransferRequests -> {"idle"} \cup TOpen \cup TEnded]
  /\ tJob \in [TransferRequests -> TransferJob \cup {NoRequest}]
  /\ \A r \in TransferRequests : tPc[r] # "idle" => tJob[r] \in TransferJob
  /\ tFrom \in [TransferRequests -> Nat]
  /\ tTo \in [TransferRequests -> Nat]
  /\ audit \subseteq Keys \X Events

TransferInit ==
  /\ transfers = [k \in Keys |-> NoTransfer]
  /\ tPc = [r \in TransferRequests |-> "idle"]
  /\ tJob = [r \in TransferRequests |-> NoRequest]
  /\ tFrom = [r \in TransferRequests |-> 0]
  /\ tTo = [r \in TransferRequests |-> 0]
  /\ audit = {}

TGoto(r, from, to) == tPc[r] = from /\ tPc' = [tPc EXCEPT ![r] = to]

-----------------------------------------------------------------------------
(* validateTransferRequest: there is money to move, between two accounts. *)
ValidTransfer(j) == j.amount > 0 /\ j.from # j.to

(* A call arrives and is validated. *)
CallTransfer(r) ==
  /\ tPc[r] = "idle"
  /\ \E j \in TransferJob :
       /\ tJob' = [tJob EXCEPT ![r] = j]
       /\ tPc' = [tPc EXCEPT ![r] =
                    IF ValidTransfer(j) THEN "lookup" ELSE "rejected"]
  /\ UNCHANGED <<storeVars, transfers, tFrom, tTo, audit>>

(* Mutant: any transfer found is returned as if it were completed. *)
CheckExistingAny(r) ==
  /\ TGoto(r, "lookup",
           IF transfers[tJob[r].key] = NoTransfer THEN "readSource" ELSE "replayed")
  /\ UNCHANGED <<storeVars, transfers, tJob, tFrom, tTo, audit>>

(* checkExistingTransfer: a completed transfer is returned again; a pending *)
(* or failed one is an error.                                               *)
CheckExisting(r) ==
  LET found == transfers[tJob[r].key] IN
  /\ tPc[r] = "lookup"
  /\ \/ found = NoTransfer /\ TGoto(r, "lookup", "readSource")
     \/ found.status = "completed" /\ TGoto(r, "lookup", "replayed")
     \/ found.status \in {"pending", "failed"} /\ TGoto(r, "lookup", "rejected")
  /\ UNCHANGED <<storeVars, transfers, tJob, tFrom, tTo, audit>>

(* The user must own the source account; the destination's owner is not *)
(* looked at.                                                           *)
ReadSource(r) ==
  LET j == tJob[r] IN
  /\ TGoto(r, "readSource",
           IF Owner[j.from] = j.user /\ IsActive(accounts[j.from])
             THEN "readDestination" ELSE "rejected")
  /\ UNCHANGED <<storeVars, transfers, tJob, tFrom, tTo, audit>>

ReadDestination(r) ==
  /\ TGoto(r, "readDestination",
           IF IsActive(accounts[tJob[r].to]) THEN "create" ELSE "rejected")
  /\ UNCHANGED <<storeVars, transfers, tJob, tFrom, tTo, audit>>

InsertTransfer(r, status) ==
  transfers' = [transfers EXCEPT ![tJob[r].key] = [id |-> r, status |-> status]]

(* Mutant: no unique index. *)
CreateUnindexed(r) ==
  /\ TGoto(r, "create", "debitSelect")
  /\ InsertTransfer(r, "pending")
  /\ UNCHANGED <<storeVars, tJob, tFrom, tTo, audit>>

(* Mutant: the row starts in a status of external transfers. *)
CreateProcessing(r) ==
  /\ TGoto(r, "create", "debitSelect")
  /\ transfers[tJob[r].key] = NoTransfer
  /\ InsertTransfer(r, "processing")
  /\ UNCHANGED <<storeVars, tJob, tFrom, tTo, audit>>

(* INSERT of the pending row: the unique index on idempotency_key decides *)
(* between requests that all found the key free.                          *)
CreateTransfer(r) ==
  /\ tPc[r] = "create"
  /\ IF transfers[tJob[r].key] = NoTransfer
       THEN /\ \/ TGoto(r, "create", "debitSelect")
               \/ AmbiguousCommit /\ TGoto(r, "create", "rejected")
            /\ InsertTransfer(r, "pending")
       ELSE /\ TGoto(r, "create", "rejected")
            /\ UNCHANGED transfers
  /\ UNCHANGED <<storeVars, tJob, tFrom, tTo, audit>>

-----------------------------------------------------------------------------
(* ExecuteAtomicTransfer: one database transaction. *)

(* Mutant: the caller overlooks the error. *)
RollbackOverlooked(r, from) ==
  /\ TGoto(r, from, "markCompleted")
  /\ Unlock(r)
  /\ UNCHANGED <<accounts, ledger, posted, transfers, tJob, tFrom, tTo, audit>>

(* Mutant: the transaction is left open. *)
RollbackForgotten(r, from) ==
  /\ TGoto(r, from, "markFailed")
  /\ UNCHANGED <<storeVars, transfers, tJob, tFrom, tTo, audit>>

(* Its rollback; the caller goes on to record the failure. *)
Rollback(r, from) ==
  /\ TGoto(r, from, "markFailed")
  /\ Unlock(r)
  /\ UNCHANGED <<accounts, ledger, posted, transfers, tJob, tFrom, tTo, audit>>

SelectSource(r) ==
  LET j == tJob[r]  row == accounts[j.from] IN
  \/ /\ TGoto(r, "debitSelect", "debit")
     /\ BalanceAllowed(row, "debit", j.amount)
     /\ SelectForUpdate(r, j.from)
     /\ tFrom' = [tFrom EXCEPT ![r] = row.balance]
     /\ UNCHANGED <<accounts, ledger, posted, transfers, tJob, tTo, audit>>
  \/ /\ Rollback(r, "debitSelect")
     /\ ~BalanceAllowed(row, "debit", j.amount)
     /\ RowLocks => CanLock(r, j.from)

(* The transactions rows the transfer inserts.  BalanceBefore is taken from *)
(* the account struct after its balance was updated.                        *)
DebitEntry(r) ==
  LET j == tJob[r]  after == tFrom[r] - j.amount IN
  Entry(r, j.from, "debit", j.amount, IF UpdateWritesBack THEN after ELSE tFrom[r], after)

CreditEntry(r) ==
  LET j == tJob[r]  after == tTo[r] + j.amount IN
  Entry(r, j.to, "credit", j.amount, IF UpdateWritesBack THEN after ELSE tTo[r], after)

(* Mutant: the row is inserted outside the transaction. *)
DebitOutsideTx(r) ==
  /\ TGoto(r, "debit", "creditSelect")
  /\ CanLock(r, tJob[r].from)
  /\ Lock(r, tJob[r].from)
  /\ ledger' = ledger \cup {DebitEntry(r)}
  /\ UNCHANGED <<accounts, posted, transfers, tJob, tFrom, tTo, audit>>

(* UPDATE of the source balance and INSERT of its transactions row, whose *)
(* hook may refuse it.                                                    *)
DebitSource(r) ==
  /\ tPc[r] = "debit" /\ CanLock(r, tJob[r].from)
  /\ \/ /\ BalanceIsCorrect(DebitEntry(r))
        /\ TGoto(r, "debit", "creditSelect")
        /\ Lock(r, tJob[r].from)
        /\ UNCHANGED <<accounts, ledger, posted, transfers, tJob, tFrom, tTo, audit>>
     \/ /\ ~BalanceIsCorrect(DebitEntry(r))
        /\ Rollback(r, "debit")

SelectDestination(r) ==
  LET a == tJob[r].to IN
  /\ tPc[r] = "creditSelect"
  /\ \/ /\ TGoto(r, "creditSelect", "credit")
        /\ IsActive(accounts[a])
        /\ SelectForUpdate(r, a)
        /\ tTo' = [tTo EXCEPT ![r] = accounts[a].balance]
        /\ UNCHANGED <<accounts, ledger, posted, transfers, tJob, tFrom, audit>>
     \/ /\ Rollback(r, "creditSelect")
        /\ ~IsActive(accounts[a])
        /\ RowLocks => CanLock(r, a)

CreditDestination(r) ==
  /\ tPc[r] = "credit" /\ CanLock(r, tJob[r].to)
  /\ \/ /\ BalanceIsCorrect(CreditEntry(r))
        /\ TGoto(r, "credit", "commit")
        /\ Lock(r, tJob[r].to)
        /\ UNCHANGED <<accounts, ledger, posted, transfers, tJob, tFrom, tTo, audit>>
     \/ /\ ~BalanceIsCorrect(CreditEntry(r))
        /\ Rollback(r, "credit")

(* COMMIT: both balance columns and both transactions rows take effect. *)
CommitTransfer(r) ==
  LET j == tJob[r] IN
  /\ \/ TGoto(r, "commit", "markCompleted")
     \/ AmbiguousCommit /\ TGoto(r, "commit", "markFailed")
  /\ accounts' = [accounts EXCEPT ![j.from].balance = DebitEntry(r).after,
                                  ![j.to].balance = CreditEntry(r).after]
  /\ ledger' = ledger \cup {DebitEntry(r), CreditEntry(r)}
  /\ posted' = posted \cup {r}
  /\ Unlock(r)
  /\ UNCHANGED <<transfers, tJob, tFrom, tTo, audit>>

-----------------------------------------------------------------------------
(* The request saves the outcome in the transfers row and then the audit   *)
(* log.  A failed save of a success is an error to the client; of a        *)
(* failure, it is only logged.  A failed audit insert is only logged.      *)

SetStatus(k, status) == transfers' = [transfers EXCEPT ![k].status = status]

MarkCompleted(r) ==
  LET k == tJob[r].key IN
  /\ \/ /\ TGoto(r, "markCompleted", "auditCompleted")
        /\ SetStatus(k, "completed")
     \/ /\ TGoto(r, "markCompleted", "error")
        /\ \/ Faults /\ UNCHANGED transfers
           \/ AmbiguousCommit /\ SetStatus(k, "completed")
  /\ UNCHANGED <<storeVars, tJob, tFrom, tTo, audit>>

(* Mutant: the failed status is never saved. *)
MarkFailedUnsaved(r) ==
  /\ TGoto(r, "markFailed", "auditFailed")
  /\ UNCHANGED <<storeVars, transfers, tJob, tFrom, tTo, audit>>

MarkFailed(r) ==
  /\ TGoto(r, "markFailed", "auditFailed")
  /\ SetStatus(tJob[r].key, "failed") \/ (Faults /\ UNCHANGED transfers)
  /\ UNCHANGED <<storeVars, tJob, tFrom, tTo, audit>>

Audit(r, event) ==
  /\ audit' = audit \cup {<<tJob[r].key, event>>} \/ (Faults /\ UNCHANGED audit)
  /\ UNCHANGED <<storeVars, transfers, tJob, tFrom, tTo>>

AuditOutcome(r) ==
  \/ TGoto(r, "auditCompleted", "done") /\ Audit(r, "transfer.completed")
  \/ TGoto(r, "auditFailed", "failed") /\ Audit(r, "transfer.failed")

-----------------------------------------------------------------------------
(* Errors. *)

(* Any statement before the transaction may return a database error ... *)
TransferDBError(r) ==
  /\ Faults
  /\ \E pc \in TBefore : TGoto(r, pc, "rejected")
  /\ UNCHANGED <<storeVars, transfers, tJob, tFrom, tTo, audit>>

(* ... and any statement of the transaction, which rolls it back. *)
TransactionError(r) == Faults /\ \E pc \in TInTx : Rollback(r, pc)

(* The request whose row lock r's next statement waits for, if any. *)
WaitsFor(r) ==
  LET a == IF tPc[r] \in {"debitSelect", "debit"} THEN tJob[r].from ELSE tJob[r].to
      locks == \/ tPc[r] \in {"debit", "credit"}
               \/ RowLocks /\ tPc[r] \in {"debitSelect", "creditSelect"}
  IN IF locks /\ ~CanLock(r, a) THEN rowLock[a] ELSE NoRequest

(* PostgreSQL aborts a transaction on a cycle of lock waits.  Only transfers *)
(* hold one row while they wait for another.                                 *)
Deadlocked(r) ==
  \E D \in SUBSET TransferRequests :
    /\ r \in D
    /\ \A q \in D : WaitsFor(q) \in D /\ \E p \in D : WaitsFor(p) = q

DeadlockVictim(r) == Deadlocked(r) /\ \E pc \in TInTx : Rollback(r, pc)

DropTransfers ==
  tPc' = [r \in TransferRequests |-> IF tPc[r] \in TOpen THEN "crashed" ELSE tPc[r]]

TransferCrash ==
  /\ Faults
  /\ \E r \in TransferRequests : tPc[r] \in TOpen
  /\ DropConnections
  /\ DropTransfers
  /\ UNCHANGED <<accounts, ledger, posted, transfers, tJob, tFrom, tTo, audit>>

-----------------------------------------------------------------------------
TransferStep(r) ==
  \/ CheckExisting(r) \/ ReadSource(r) \/ ReadDestination(r) \/ CreateTransfer(r)
  \/ SelectSource(r) \/ DebitSource(r) \/ SelectDestination(r) \/ CreditDestination(r)
  \/ CommitTransfer(r) \/ MarkCompleted(r) \/ MarkFailed(r) \/ AuditOutcome(r)
  \/ DeadlockVictim(r)

TransferNext ==
  \E r \in TransferRequests :
    CallTransfer(r) \/ TransferStep(r) \/ TransferDBError(r) \/ TransactionError(r)

(* Every call has been answered. *)
TransfersQuiet == \A r \in TransferRequests : tPc[r] \in TEnded

TransferServiceInit == StoreInit /\ TransferInit

TransferServiceSpec ==
  /\ TransferServiceInit
  /\ [][TransferNext \/ TransferCrash \/ (TransfersQuiet /\ UNCHANGED tVars)]_tVars
  /\ \A r \in TransferRequests : WF_tVars(TransferStep(r))

-----------------------------------------------------------------------------
(* Properties. *)

MovedFor(k) == {r \in TransferRequests \cap posted : tJob[r].key = k}

(* An idempotency key moves money at most once, however many requests carry *)
(* it and whatever fails or crashes between the statements: a retry that    *)
(* raced, or came after a lost answer, does not move it again.              *)
OneMovementPerKey == \A r, q \in TransferRequests \cap posted :
  tJob[r].key = tJob[q].key => r = q

(* A transfers row tells the truth about the balances: a completed one has  *)
(* moved its money, and a failed one has not.                               *)
RowsMatchMovements == \A k \in Keys :
  /\ transfers[k].status = "completed" => transfers[k].id \in posted
  /\ transfers[k].status = "failed" => transfers[k].id \notin posted

(* A movement is never invisible: its key has a row, inserted by the very   *)
(* request that moved the money, which every later retry will find.         *)
MovementsHaveRows == \A r \in TransferRequests \cap posted :
  transfers[tJob[r].key].id = r

(* What clients are told agrees with the database: success, by the request  *)
(* itself or by a replay, means a completed row; a rejected or failed       *)
(* request has moved nothing.                                               *)
AnswersAreTrue == \A r \in TransferRequests :
  /\ tPc[r] \in {"done", "replayed"} => transfers[tJob[r].key].status = "completed"
  /\ tPc[r] \in {"rejected", "replayed", "failed"} => r \notin posted

(* The transactions table holds both legs of every movement and nothing of  *)
(* a transfer that rolled back.                                             *)
BothLegsRecorded == \A r \in TransferRequests :
  LET rows == {e \in ledger : e.request = r}  j == tJob[r] IN
  IF r \in posted
    THEN {<<e.account, e.type, e.amount>> : e \in rows} =
           {<<j.from, "debit", j.amount>>, <<j.to, "credit", j.amount>>}
    ELSE rows = {}

(* The audit log never claims an outcome the balances contradict. *)
AuditMatchesMovements == \A k \in Keys :
  /\ <<k, "transfer.completed">> \in audit => MovedFor(k) # {}
  /\ <<k, "transfer.failed">> \in audit => MovedFor(k) = {}

(* A completed or failed transfer keeps its status, and a row, once         *)
(* inserted, keeps its id: the transition table CanTransitionTo, which no   *)
(* code consults, is respected all the same.                                *)
OutcomesAreFinal == [][\A k \in Keys :
  transfers[k] # NoTransfer =>
    /\ transfers'[k].id = transfers[k].id
    /\ transfers[k].status # "pending" => transfers'[k] = transfers[k]]_tVars

(* Every request is answered, though transfers in opposite directions lock  *)
(* their rows in opposite orders and the database must abort one.           *)
RequestsAreAnswered == \A r \in TransferRequests :
  tPc[r] \in TOpen ~> tPc[r] \in TEnded

(* While nothing fails, no transfer stays pending: the key of a request     *)
(* that raced another one becomes usable as completed or failed.            *)
PendingIsSettled == \A k \in Keys :
  transfers[k].status = "pending" ~> transfers[k].status \in {"completed", "failed"}

(* A transfer is refused by its database transaction only for a cause the   *)
(* client can see: too little money, an account that is not active, or a    *)
(* deadlock the database broke.  For instances without Faults.              *)
FailsOnlyForCause == [][\A r \in TransferRequests :
  tPc[r] \in TInTx /\ tPc'[r] = "markFailed" =>
    \/ ~BalanceAllowed(accounts[tJob[r].from], "debit", tJob[r].amount)
    \/ ~IsActive(accounts[tJob[r].to])
    \/ Deadlocked(r)]_tVars
=============================================================================
