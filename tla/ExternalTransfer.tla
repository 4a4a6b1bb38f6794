--------------------------- MODULE ExternalTransfer ---------------------------
(***************************************************************************)
(* Transfers to the partner bank NorthWind.  An initiation reserves the    *)
(* amount on the source account, inserts the transfers row, and instructs  *)
(* NorthWind; if that fails it refunds the account.  Later, each poll of a *)
(* client reads the row, asks NorthWind for the status, completes or       *)
(* refunds, and saves the whole row it read.  Nothing else settles a row.  *)
(*                                                                         *)
(* A movement of money is one UpdateBalance of AccountStore.  A request    *)
(* makes at most a reservation and a refund, so Requests holds the pairs   *)
(* <<request, movement>>.  UpdateStatus of a transactions row never takes  *)
(* effect (its hook validates an empty struct, and the caller only logs    *)
(* the error), so the status column of those rows is left out.             *)
(***************************************************************************)
EXTENDS AccountStore

CONSTANTS
  Initiations,  \* the requests that start an external transfer
  Polls,        \* the requests that check the status of one
  Keys,         \* idempotency keys
  LostAnswers   \* NorthWind may accept an instruction and the answer be lost

Movements == {"reserve", "refund"}
XRequests == Initiations \cup Polls

ASSUME ExternalAssumption ==
  /\ Requests = XRequests \X Movements
  /\ Initiations \cap Polls = {}
  /\ NoRequest \notin Initiations
  /\ LostAnswers \in BOOLEAN

VARIABLES
  xRows,      \* xRows[k]: the transfers row with idempotency key k, or NoRow
  northwind,  \* northwind[r]: what NorthWind made of r's instruction
  xPc,        \* xPc[r]: the statement request r runs next
  xJob,       \* xJob[r]: what initiation r was asked to do
  xSeen,      \* xSeen[r]: the account row UpdateBalance has read
  xRead,      \* xRead[r]: the balance r read before it wrote any transactions row
  pRow,       \* pRow[p]: the transfers row poll p works on
  notices     \* the regulator notifications started: <<poll, key, outcome>>

xStateVars == <<xRows, northwind, xPc, xJob, xSeen, xRead, pRow, notices>>
xVars == <<storeVars, xStateVars>>

(* accepted: the row carries the id NorthWind has given the transfer. *)
ExternalRow == [id : Initiations, key : Keys, accepted : BOOLEAN,
                status : {"pending", "processing", "completed", "failed"}]
NoRow == [id |-> NoRequest, status |-> "none"]

(* usable: the external account is registered, verified and the user's own. *)
ExternalJob == [key : Keys, account : Accounts, amount : Amounts \cup {0},
                user : Users, usable : BOOLEAN, scheduled : BOOLEAN]

(* The account row of a request that has not read one; never used. *)
Unread == [balance |-> 0, status |-> "active"]

IOpen == {"readAccount", "lookup", "schedule", "debitRow", "reserveRead", "reserveSave",
          "create", "undoRead", "undoSave", "instruct", "saveProcessing", "saveFailed",
          "refundRow", "refundRead", "refundSave"}
POpen == {"ask", "payRow", "payRead", "paySave", "fail", "save"}
XEnded == {"scheduled", "accepted", "rejected", "refused", "polled", "crashed"}

ExternalInit ==
  /\ StoreInit
  /\ xRows = [k \in Keys |-> NoRow]
  /\ northwind = [r \in Initiations |-> "none"]
  /\ xPc = [r \in XRequests |-> "idle"]
  /\ xJob = [r \in Initiations |-> NoRequest]
  /\ xSeen = [r \in XRequests |-> Unread]
  /\ xRead = [r \in XRequests |-> 0]
  /\ pRow = [p \in Polls |-> NoRow]
  /\ notices = {}

XGoto(r, from, to) == xPc[r] = from /\ xPc' = [xPc EXCEPT ![r] = to]

-----------------------------------------------------------------------------
(* UpdateBalance, called by request r for a movement. *)

(* A refused or failed movement leads to the statement "otherwise". *)
MoveRead(r, m, a, type, amount, from, to, otherwise) ==
  /\ XGoto(r, from, IF BalanceAllowed(accounts[a], type, amount) THEN to ELSE otherwise)
  /\ UpdateBalanceRead(<<r, m>>, a, type, amount)
  /\ xSeen' = [xSeen EXCEPT ![r] = accounts[a]]
  /\ UNCHANGED <<accounts, ledger, posted, xRows, northwind, xJob, xRead, pRow, notices>>

MoveSave(r, m, a, type, amount, from, to, otherwise) ==
  /\ XGoto(r, from, to) \/ (AmbiguousCommit /\ XGoto(r, from, otherwise))
  /\ UpdateBalanceSave(<<r, m>>, a, xSeen[r], type, amount)
  /\ UNCHANGED <<ledger, xRows, northwind, xJob, xSeen, xRead, pRow, notices>>

MoveFails(r, m, from, otherwise) ==
  /\ Faults
  /\ XGoto(r, from, otherwise)
  /\ Unlock(<<r, m>>)
  /\ UNCHANGED <<accounts, ledger, posted, xRows, northwind, xJob, xSeen, xRead, pRow, notices>>

(* The transactions row of a movement; "before" is the balance it claims. *)
MovementRow(r, m, a, type, amount, before) ==
  ledger' = ledger \cup
    {Entry(<<r, m>>, a, type, amount, before, before + Delta(type, amount))}

-----------------------------------------------------------------------------
(* InitiateExternalTransfer. *)

CallInitiate(r) ==
  /\ xPc[r] = "idle"
  /\ \E j \in ExternalJob :
       /\ xJob' = [xJob EXCEPT ![r] = j]
       /\ xPc' = [xPc EXCEPT ![r] = IF j.amount > 0 THEN "readAccount" ELSE "rejected"]
  /\ UNCHANGED <<storeVars, xRows, northwind, xSeen, xRead, pRow, notices>>

ReadAccount(r) ==
  LET j == xJob[r]  row == accounts[j.account] IN
  /\ XGoto(r, "readAccount",
           IF /\ Owner[j.account] = j.user
              /\ IsActive(row)
              /\ row.balance >= j.amount
              /\ j.usable
             THEN "lookup" ELSE "rejected")
  /\ xRead' = [xRead EXCEPT ![r] = row.balance]
  /\ UNCHANGED <<storeVars, xRows, northwind, xJob, xSeen, pRow, notices>>

(* A completed transfer of the same key, or a lookup that failed, does not *)
(* stop the request.                                                       *)
LookUp(r) ==
  LET j == xJob[r]
      go == IF j.scheduled THEN "schedule" ELSE "debitRow" IN
  /\ \/ XGoto(r, "lookup",
              IF xRows[j.key].status \in {"pending", "processing", "failed"}
                THEN "rejected" ELSE go)
     \/ Faults /\ XGoto(r, "lookup", go)
  /\ UNCHANGED <<storeVars, xRows, northwind, xJob, xSeen, xRead, pRow, notices>>

InsertRow(r) ==
  LET k == xJob[r].key IN
  xRows' = [xRows EXCEPT
              ![k] = [id |-> r, key |-> k, accepted |-> FALSE, status |-> "pending"]]

(* A scheduled transfer is only recorded. *)
Schedule(r) ==
  /\ xPc[r] = "schedule"
  /\ IF xRows[xJob[r].key] = NoRow
       THEN /\ \/ XGoto(r, "schedule", "scheduled")
               \/ AmbiguousCommit /\ XGoto(r, "schedule", "rejected")
            /\ InsertRow(r)
       ELSE XGoto(r, "schedule", "rejected") /\ UNCHANGED xRows
  /\ UNCHANGED <<storeVars, northwind, xJob, xSeen, xRead, pRow, notices>>

DebitRow(r) ==
  LET j == xJob[r] IN
  /\ \/ XGoto(r, "debitRow", "reserveRead")
     \/ AmbiguousCommit /\ XGoto(r, "debitRow", "rejected")
  /\ MovementRow(r, "reserve", j.account, "debit", j.amount, xRead[r])
  /\ UNCHANGED <<accounts, rowLock, posted, xRows, northwind, xJob, xSeen, xRead, pRow, notices>>

(* The amount is negated and then debited. *)
Reserve(r) ==
  LET j == xJob[r]  a == j.account IN
  \/ MoveRead(r, "reserve", a, "debit", -j.amount, "reserveRead", "reserveSave", "rejected")
  \/ MoveSave(r, "reserve", a, "debit", -j.amount, "reserveSave", "create", "rejected")

(* Mutant: no unique index. *)
CreateUnindexed(r) ==
  /\ XGoto(r, "create", "instruct")
  /\ InsertRow(r)
  /\ UNCHANGED <<storeVars, northwind, xJob, xSeen, xRead, pRow, notices>>

(* Mutant: the error of the insert is not looked at. *)
CreateIgnored(r) ==
  /\ XGoto(r, "create", "instruct")
  /\ IF xRows[xJob[r].key] = NoRow THEN InsertRow(r) ELSE UNCHANGED xRows
  /\ UNCHANGED <<storeVars, northwind, xJob, xSeen, xRead, pRow, notices>>

(* The unique index rejects a second transfer under the key. *)
CreateRow(r) ==
  /\ \/ /\ XGoto(r, "create", "instruct")
        /\ xRows[xJob[r].key] = NoRow
        /\ InsertRow(r)
     \/ /\ XGoto(r, "create", "undoRead")
        /\ \/ /\ xRows[xJob[r].key] # NoRow \/ Faults
              /\ UNCHANGED xRows
           \/ /\ AmbiguousCommit /\ xRows[xJob[r].key] = NoRow
              /\ InsertRow(r)
  /\ UNCHANGED <<storeVars, northwind, xJob, xSeen, xRead, pRow, notices>>

(* The reservation is credited back, without a transactions row. *)
Undo(r) ==
  LET j == xJob[r]  a == j.account IN
  \/ MoveRead(r, "refund", a, "credit", j.amount, "undoRead", "undoSave", "rejected")
  \/ MoveSave(r, "refund", a, "credit", j.amount, "undoSave", "rejected", "rejected")

-----------------------------------------------------------------------------
(* The instruction.  The client's POST reaches NorthWind or does not; after *)
(* an error the service does not know which.                                *)

Instruct(r) ==
  /\ \/ /\ XGoto(r, "instruct", "saveProcessing")
        /\ northwind' = [northwind EXCEPT ![r] = "pending"]
     \/ /\ XGoto(r, "instruct", "saveFailed")
        /\ \/ UNCHANGED northwind
           \/ LostAnswers /\ northwind' = [northwind EXCEPT ![r] = "pending"]
  /\ UNCHANGED <<storeVars, xRows, xJob, xSeen, xRead, pRow, notices>>

SaveRow(k, row) == xRows' = [xRows EXCEPT ![k] = row] \/ (Faults /\ UNCHANGED xRows)

(* A failed save is only logged, here and below. *)
SaveProcessing(r) ==
  LET k == xJob[r].key IN
  /\ XGoto(r, "saveProcessing", "accepted")
  /\ SaveRow(k, [xRows[k] EXCEPT !.status = "processing", !.accepted = TRUE])
  /\ UNCHANGED <<storeVars, northwind, xJob, xSeen, xRead, pRow, notices>>

SaveFailed(r) ==
  LET k == xJob[r].key IN
  /\ XGoto(r, "saveFailed", "refundRow")
  /\ SaveRow(k, [xRows[k] EXCEPT !.status = "failed"])
  /\ UNCHANGED <<storeVars, northwind, xJob, xSeen, xRead, pRow, notices>>

RefundRow(r) ==
  LET j == xJob[r] IN
  /\ XGoto(r, "refundRow", "refundRead")
  /\ \/ MovementRow(r, "refund", j.account, "credit", j.amount, xRead[r] - j.amount)
     \/ Faults /\ UNCHANGED ledger
  /\ UNCHANGED <<accounts, rowLock, posted, xRows, northwind, xJob, xSeen, xRead, pRow, notices>>

Refund(r) ==
  LET j == xJob[r]  a == j.account IN
  \/ MoveRead(r, "refund", a, "credit", j.amount, "refundRead", "refundSave", "refused")
  \/ MoveSave(r, "refund", a, "credit", j.amount, "refundSave", "refused", "refused")

-----------------------------------------------------------------------------
(* CheckTransferStatus.  A row without NorthWind's id cannot be checked. *)

CallPoll(p) ==
  /\ xPc[p] = "idle"
  /\ \E k \in Keys :
       IF xRows[k] # NoRow /\ xRows[k].accepted
         THEN /\ xPc' = [xPc EXCEPT ![p] = "ask"]
              /\ pRow' = [pRow EXCEPT ![p] = xRows[k]]
         ELSE /\ xPc' = [xPc EXCEPT ![p] = "rejected"]
              /\ UNCHANGED pRow
  /\ UNCHANGED <<storeVars, xRows, northwind, xJob, xSeen, xRead, notices>>

Notify(p, outcome) == notices' = notices \cup {<<p, pRow[p].key, outcome>>}

SetPolled(p, status) == pRow' = [pRow EXCEPT ![p].status = status]

(* Mutant: anything but a failure counts as completed. *)
AskHasty(p) ==
  /\ XGoto(p, "ask", "save")
  /\ northwind[pRow[p].id] # "failed"
  /\ SetPolled(p, "completed")
  /\ Notify(p, "completed")
  /\ UNCHANGED <<storeVars, xRows, northwind, xJob, xSeen, xRead>>

(* The answer is applied to the row that was read. *)
Ask(p) ==
  LET answer == northwind[pRow[p].id]
      status == pRow[p].status IN
  /\ xPc[p] = "ask"
  /\ \/ /\ answer = "completed" /\ status # "completed"
        /\ XGoto(p, "ask", "save")
        /\ SetPolled(p, "completed")
        /\ Notify(p, "completed")
     \/ /\ answer = "failed" /\ status # "failed"
        /\ XGoto(p, "ask", "payRow")
        /\ UNCHANGED <<pRow, notices>>
     \/ /\ answer = status
        /\ XGoto(p, "ask", "save")
        /\ UNCHANGED <<pRow, notices>>
     \/ /\ answer = "pending"
        /\ XGoto(p, "ask", "save")
        /\ SetPolled(p, "processing")
        /\ UNCHANGED notices
  /\ UNCHANGED <<storeVars, xRows, northwind, xJob, xSeen, xRead>>

PolledJob(p) == xJob[pRow[p].id]

(* Mutant: the refund does not depend on its record. *)
PayUnrecorded(p) ==
  /\ Faults
  /\ XGoto(p, "payRow", "payRead")
  /\ UNCHANGED <<storeVars, xRows, northwind, xJob, xSeen, xRead, pRow, notices>>

(* failTransfer reads the account and records the refund; without the *)
(* record, the refund is skipped.                                     *)
PayRow(p) ==
  LET a == PolledJob(p).account IN
  /\ xPc[p] = "payRow"
  /\ \/ /\ XGoto(p, "payRow", "payRead")
        /\ MovementRow(p, "refund", a, "credit", PolledJob(p).amount, accounts[a].balance)
     \/ /\ Faults
        /\ XGoto(p, "payRow", "fail")
        /\ UNCHANGED ledger
  /\ UNCHANGED <<accounts, rowLock, posted, xRows, northwind, xJob, xSeen, xRead, pRow, notices>>

(* A refund that is refused, because the account is not active, is only logged. *)
Pay(p) ==
  LET j == PolledJob(p)  a == j.account IN
  \/ MoveRead(p, "refund", a, "credit", j.amount, "payRead", "paySave", "fail")
  \/ MoveSave(p, "refund", a, "credit", j.amount, "paySave", "fail", "fail")

FailTransfer(p) ==
  /\ XGoto(p, "fail", "save")
  /\ SetPolled(p, "failed")
  /\ Notify(p, "failed")
  /\ UNCHANGED <<storeVars, xRows, northwind, xJob, xSeen, xRead>>

(* The whole row that was read is saved, with the new status. *)
SavePolled(p) ==
  /\ \/ /\ XGoto(p, "save", "polled")
        /\ xRows' = [xRows EXCEPT ![pRow[p].key] = pRow[p]]
     \/ /\ XGoto(p, "save", "rejected")
        /\ \/ Faults /\ UNCHANGED xRows
           \/ AmbiguousCommit /\ xRows' = [xRows EXCEPT ![pRow[p].key] = pRow[p]]
  /\ UNCHANGED <<storeVars, northwind, xJob, xSeen, xRead, pRow, notices>>

-----------------------------------------------------------------------------
(* Errors, crashes, and what other components do meanwhile. *)

(* Statements whose error ends the request. *)
InitiationError(r) ==
  /\ Faults
  /\ \E pc \in {"readAccount", "schedule", "debitRow"} : XGoto(r, pc, "rejected")
  /\ UNCHANGED <<storeVars, xRows, northwind, xJob, xSeen, xRead, pRow, notices>>

MovementError(r) ==
  \/ \E pc \in {"reserveRead", "reserveSave"} : MoveFails(r, "reserve", pc, "rejected")
  \/ \E pc \in {"undoRead", "undoSave"} : MoveFails(r, "refund", pc, "rejected")
  \/ \E pc \in {"refundRead", "refundSave"} : MoveFails(r, "refund", pc, "refused")
  \/ \E pc \in {"payRead", "paySave"} : MoveFails(r, "refund", pc, "fail")

(* NorthWind does not answer a status request; or the account cannot be    *)
(* read, in which case the unchanged row is saved.                         *)
PollError(p) ==
  /\ \/ XGoto(p, "ask", "rejected")
     \/ Faults /\ XGoto(p, "payRow", "save")
  /\ UNCHANGED <<storeVars, xRows, northwind, xJob, xSeen, xRead, pRow, notices>>

(* NorthWind completes or fails a transfer, once. *)
NorthWindStep(r) ==
  /\ northwind[r] = "pending"
  /\ \E outcome \in {"completed", "failed"} : northwind' = [northwind EXCEPT ![r] = outcome]
  /\ UNCHANGED <<storeVars, xRows, xPc, xJob, xSeen, xRead, pRow, notices>>

(* A status change, in one step; AccountService has its statements. *)
Deactivate(a) ==
  /\ accounts[a].status = "active"
  /\ rowLock[a] = NoRequest
  /\ accounts' = [accounts EXCEPT ![a].status = "inactive"]
  /\ UNCHANGED <<rowLock, ledger, posted, xStateVars>>

ExternalCrash ==
  /\ Faults
  /\ \E r \in XRequests : xPc[r] \in IOpen \cup POpen
  /\ DropConnections
  /\ xPc' = [r \in XRequests |->
               IF xPc[r] \in IOpen \cup POpen THEN "crashed" ELSE xPc[r]]
  /\ UNCHANGED <<accounts, ledger, posted, xRows, northwind, xJob, xSeen, xRead, pRow, notices>>

InitiationNext(r) ==
  \/ CallInitiate(r) \/ ReadAccount(r) \/ LookUp(r) \/ Schedule(r) \/ DebitRow(r)
  \/ Reserve(r) \/ CreateRow(r) \/ Undo(r) \/ Instruct(r) \/ SaveProcessing(r)
  \/ SaveFailed(r) \/ RefundRow(r) \/ Refund(r) \/ InitiationError(r) \/ NorthWindStep(r)

PollNext(p) ==
  \/ CallPoll(p) \/ Ask(p) \/ PayRow(p) \/ Pay(p) \/ FailTransfer(p) \/ SavePolled(p)
  \/ PollError(p)

ExternalQuiet ==
  /\ \A r \in XRequests : xPc[r] \in XEnded
  /\ UNCHANGED xVars

ExternalNext ==
  \/ \E r \in Initiations : InitiationNext(r)
  \/ \E p \in Polls : PollNext(p)
  \/ \E r \in XRequests : MovementError(r)
  \/ \E a \in Accounts : Deactivate(a)
  \/ ExternalCrash
  \/ ExternalQuiet

ExternalSpec == ExternalInit /\ [][ExternalNext]_xVars

-----------------------------------------------------------------------------
(* Properties. *)

(* NorthWind is instructed at most once under an idempotency key, and never  *)
(* without a transfers row of the very request that did it: however many    *)
(* requests carry the key and wherever one of them dies, no money leaves    *)
(* that a row does not account for.                                         *)
InstructedOncePerKey == \A r \in Initiations :
  northwind[r] # "none" => xRows[xJob[r].key].id = r

(* A row never claims what NorthWind contradicts: a completed one was        *)
(* completed there; a failed one failed there, or, if it never got          *)
(* NorthWind's id, is unknown there unless an answer was lost.              *)
RowsFollowNorthWind == \A k \in Keys :
  LET row == xRows[k] IN
  /\ row.status = "completed" => northwind[row.id] = "completed"
  /\ row.status = "processing" => row.accepted /\ northwind[row.id] # "none"
  /\ row.status = "failed" =>
       IF row.accepted THEN northwind[row.id] = "failed"
                       ELSE LostAnswers \/ northwind[row.id] = "none"

RefundedBy(r) == <<r, "refund">> \in posted

(* Money comes back only for a cause, and on the record.  A refund returns   *)
(* a reservation that was made; an initiation refunds only what it did not  *)
(* hand to NorthWind (unless an answer was lost), a poll only what failed   *)
(* there and its initiation has not refunded.  Reservations and the polls'  *)
(* refunds have transactions rows.                                          *)
MovementsAreAccountedFor ==
  /\ \A r \in Initiations :
       RefundedBy(r) => /\ <<r, "reserve">> \in posted
                        /\ LostAnswers \/ northwind[r] = "none"
  /\ \A p \in Polls :
       RefundedBy(p) => /\ <<pRow[p].id, "reserve">> \in posted
                        /\ northwind[pRow[p].id] = "failed"
                        /\ ~RefundedBy(pRow[p].id)
  /\ \A m \in posted :
       m \in Initiations \X {"refund"} \/ \E e \in ledger : e.request = m

(* What clients are told is so: an accepted transfer was handed to           *)
(* NorthWind, its money reserved and its row inserted; of a rejected one    *)
(* NorthWind knows nothing, and of a refused one only if an answer was lost. *)
ExternalAnswersAreTrue == \A r \in Initiations :
  /\ xPc[r] = "accepted" => /\ northwind[r] # "none"
                            /\ <<r, "reserve">> \in posted
                            /\ xRows[xJob[r].key].id = r
  /\ xPc[r] \in {"rejected", "scheduled"} => northwind[r] = "none"
  /\ xPc[r] = "refused" => LostAnswers \/ northwind[r] = "none"

(* The regulator is told nothing but NorthWind's outcome of the transfer, so *)
(* never two contradictory ones, though polls may tell it several times.    *)
NoticesAgree == \A n \in notices :
  xRows[n[2]] # NoRow /\ northwind[xRows[n[2]].id] = n[3]

(* A completed or failed transfer keeps its status, as the transition table  *)
(* CanTransitionTo says.  The code does not guarantee it: a poll saves the  *)
(* row it read before another poll settled it.                              *)
ExternalOutcomesAreFinal == [][\A k \in Keys :
  xRows[k].status \in {"completed", "failed"} => xRows'[k].status = xRows[k].status]_xVars

(* An external transfer takes money from the account or gives it back, so a  *)
(* balance never exceeds what the account started with.  The code does not  *)
(* guarantee it: the reservation adds the amount.                           *)
ReservationsTakeMoney == \A a \in Accounts :
  accounts[a].balance <= Opening[a].balance
=============================================================================
