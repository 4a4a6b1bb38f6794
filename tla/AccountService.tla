---------------------------- MODULE AccountService ----------------------------
(***************************************************************************)
(* The single-account operations of the account service: deposits and      *)
(* withdrawals (PerformTransaction), and status changes and closure        *)
(* (UpdateAccountStatus, CloseAccount).  Each request works on the row it  *)
(* read at its start; the statements of different requests interleave.     *)
(***************************************************************************)
EXTENDS AccountStore

CONSTANTS
  AccountRequests,  \* the requests that run these operations
  AccountOps,       \* the operations they may ask for
  Admins            \* the users with the admin role

ASSUME AccountServiceAssumption ==
  /\ AccountRequests \subseteq Requests
  /\ AccountOps \subseteq {"credit", "debit"} \cup AccountStatuses
  /\ Admins \subseteq Users
  /\ \A a \in Accounts : Opening[a].status = "closed" => Opening[a].balance = 0

VARIABLES
  aPc,    \* aPc[r]: the statement request r runs next
  aJob,   \* aJob[r]: what it was asked to do
  aSeen,  \* aSeen[r]: the row GetAccountByID returned
  aRow    \* aRow[r]: the row UpdateBalance read in its own transaction

serviceVars == <<aPc, aJob, aSeen, aRow>>
aVars == <<storeVars, serviceVars>>

MovesMoney(j) == j.op \in {"credit", "debit"}

(* Status changes carry no amount; a transaction may carry an invalid one. *)
AccountJob ==
  {j \in [op : AccountOps, account : Accounts, amount : Amounts \cup {0}, user : Users] :
     MovesMoney(j) \/ j.amount = 0}

(* What a request that was not called yet holds; never read. *)
NoRow == [balance |-> 0, status |-> "active"]

AOpen == {"getAccount", "updateRead", "updateSave", "record", "saveStatus"}
AEnded == {"done", "rejected", "unrecorded", "crashed"}

AccountInit ==
  /\ aPc = [r \in AccountRequests |-> "idle"]
  /\ aJob = [r \in AccountRequests |-> NoRequest]
  /\ aSeen = [r \in AccountRequests |-> NoRow]
  /\ aRow = [r \in AccountRequests |-> NoRow]

AGoto(r, from, to) == aPc[r] = from /\ aPc' = [aPc EXCEPT ![r] = to]

-----------------------------------------------------------------------------
(* A transaction of no amount is refused at once. *)
ValidJob(j) == MovesMoney(j) => j.amount > 0

CallAccount(r) ==
  /\ aPc[r] = "idle"
  /\ \E j \in AccountJob :
       /\ aJob' = [aJob EXCEPT ![r] = j]
       /\ aPc' = [aPc EXCEPT ![r] =
                    IF ValidJob(j) THEN "getAccount" ELSE "rejected"]
  /\ UNCHANGED <<storeVars, aSeen, aRow>>

(* Non-administrators may only use their own accounts. *)
MayAccess(j) == j.user = Owner[j.account] \/ j.user \in Admins

(* Mutant: Close forgets the balance. *)
StatusAnyBalance(row, status) == row.status # "closed"

(* Activate, Deactivate and Close on the row that was read. *)
StatusAllowed(row, status) ==
  /\ row.status # "closed"
  /\ status = "closed" => row.balance = 0

JobAllowed(j, row) ==
  /\ MayAccess(j)
  /\ IF MovesMoney(j) THEN IsActive(row) ELSE StatusAllowed(row, j.op)

(* GetAccountByID and the checks made on its result. *)
GetAccount(r) ==
  LET j == aJob[r]  row == accounts[j.account] IN
  /\ AGoto(r, "getAccount",
           IF ~JobAllowed(j, row) THEN "rejected"
           ELSE IF MovesMoney(j) THEN "updateRead" ELSE "saveStatus")
  /\ aSeen' = [aSeen EXCEPT ![r] = row]
  /\ UNCHANGED <<storeVars, aJob, aRow>>

-----------------------------------------------------------------------------
(* PerformTransaction: UpdateBalance, then the transactions row. *)

(* Mutant: the error of UpdateBalance is not looked at. *)
UpdateReadIgnored(r) ==
  LET j == aJob[r]  row == accounts[j.account] IN
  /\ AGoto(r, "updateRead",
           IF BalanceAllowed(row, j.op, j.amount) THEN "updateSave" ELSE "record")
  /\ UpdateBalanceRead(r, j.account, j.op, j.amount)
  /\ aRow' = [aRow EXCEPT ![r] = row]
  /\ UNCHANGED <<accounts, ledger, posted, aJob, aSeen>>

UpdateRead(r) ==
  LET j == aJob[r]  row == accounts[j.account] IN
  /\ AGoto(r, "updateRead",
           IF BalanceAllowed(row, j.op, j.amount) THEN "updateSave" ELSE "rejected")
  /\ UpdateBalanceRead(r, j.account, j.op, j.amount)
  /\ aRow' = [aRow EXCEPT ![r] = row]
  /\ UNCHANGED <<accounts, ledger, posted, aJob, aSeen>>

UpdateSave(r) ==
  LET j == aJob[r] IN
  /\ \/ AGoto(r, "updateSave", "record")
     \/ AmbiguousCommit /\ AGoto(r, "updateSave", "unrecorded")
  /\ UpdateBalanceSave(r, j.account, aRow[r], j.op, j.amount)
  /\ UNCHANGED <<ledger, aJob, aSeen, aRow>>

(* Mutant: a failed insert refuses a transaction that has moved its money. *)
RecordRefusing(r) ==
  /\ Faults
  /\ AGoto(r, "record", "rejected")
  /\ UNCHANGED <<storeVars, aJob, aSeen, aRow>>

(* The row records the balance of the first read, not of UpdateBalance's. *)
RecordTransaction(r) ==
  LET j == aJob[r]  before == aSeen[r].balance IN
  /\ \/ /\ AGoto(r, "record", "done")
        /\ ledger' = ledger \cup {Entry(r, j.account, j.op, j.amount,
                                        before, before + Delta(j.op, j.amount))}
     \/ /\ Faults
        /\ AGoto(r, "record", "unrecorded")
        /\ UNCHANGED ledger
  /\ UNCHANGED <<accounts, rowLock, posted, aJob, aSeen, aRow>>

-----------------------------------------------------------------------------
(* UpdateAccountStatus and CloseAccount save the whole row they read. *)
SaveStatus(r) ==
  LET j == aJob[r] IN
  /\ \/ AGoto(r, "saveStatus", "done")
     \/ AmbiguousCommit /\ AGoto(r, "saveStatus", "rejected")
  /\ CanLock(r, j.account)
  /\ accounts' = [accounts EXCEPT ![j.account] = [aSeen[r] EXCEPT !.status = j.op]]
  /\ UNCHANGED <<rowLock, ledger, posted, aJob, aSeen, aRow>>

(* A statement before the money moved returns a database error. *)
AccountDBError(r) ==
  /\ Faults
  /\ \E pc \in AOpen \ {"record"} : AGoto(r, pc, "rejected")
  /\ Unlock(r)
  /\ UNCHANGED <<accounts, ledger, posted, aJob, aSeen, aRow>>

DropAccountCalls ==
  aPc' = [r \in AccountRequests |-> IF aPc[r] \in AOpen THEN "crashed" ELSE aPc[r]]

AccountCrash ==
  /\ Faults
  /\ \E r \in AccountRequests : aPc[r] \in AOpen
  /\ DropConnections
  /\ DropAccountCalls
  /\ UNCHANGED <<accounts, ledger, posted, aJob, aSeen, aRow>>

AccountStep(r) ==
  GetAccount(r) \/ UpdateRead(r) \/ UpdateSave(r) \/ RecordTransaction(r) \/ SaveStatus(r)

AccountNext ==
  \E r \in AccountRequests : CallAccount(r) \/ AccountStep(r) \/ AccountDBError(r)

(* Every call has been answered. *)
AccountsQuiet == \A r \in AccountRequests : aPc[r] \in AEnded

AccountServiceInit == StoreInit /\ AccountInit

AccountServiceSpec ==
  /\ AccountServiceInit
  /\ [][AccountNext \/ AccountCrash \/ (AccountsQuiet /\ UNCHANGED aVars)]_aVars
  /\ \A r \in AccountRequests : WF_aVars(AccountStep(r))
-----------------------------------------------------------------------------
(* Properties. *)

(* A closed account holds no money.  Every writer saves the row it read, so *)
(* a closure and a deposit that race may undo one another, but they never   *)
(* leave a closed row with a balance.                                       *)
ClosedIsEmpty == \A a \in Accounts :
  accounts[a].status = "closed" => accounts[a].balance = 0

(* A deposit or withdrawal that was refused has moved nothing; one that was *)
(* answered with a transaction has moved its money and left a row of it.    *)
AccountAnswersAreTrue == \A r \in AccountRequests :
  /\ aPc[r] = "rejected" => r \notin posted
  /\ aPc[r] = "done" /\ MovesMoney(aJob[r]) =>
       /\ r \in posted
       /\ \E e \in ledger : e.request = r /\ e.account = aJob[r].account

(* The transactions table never runs ahead of the balances, and a movement  *)
(* without a row belongs to a request that is still to write it, that told  *)
(* its client of an error, or that died.                                    *)
RecordsFollowMovements ==
  /\ \A e \in ledger : e.request \in posted
  /\ \A r \in AccountRequests \cap posted :
       \/ \E e \in ledger : e.request = r
       \/ aPc[r] \in {"record", "unrecorded", "crashed"}

(* Every request is answered, or dies in a crash. *)
AccountRequestsAreAnswered == \A r \in AccountRequests :
  aPc[r] \in AOpen ~> aPc[r] \in AEnded
=============================================================================
