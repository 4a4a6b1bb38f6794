----------------------------- MODULE AccountStore -----------------------------
(***************************************************************************)
(* The accounts and transactions tables, the row locks PostgreSQL keeps on *)
(* accounts, and the repository's UpdateBalance, which every service that  *)
(* moves money calls.  A request is one HTTP call served by a goroutine;   *)
(* the services that run requests are modelled in modules of their own.    *)
(*                                                                         *)
(* Writes of an open database transaction are visible to nobody else       *)
(* (READ COMMITTED), so the variables hold committed rows only.  A written *)
(* row stays locked until its transaction ends.                            *)
(*                                                                         *)
(* Two facts about the object mapper are not in the repository and are     *)
(* constants here:                                                         *)
(*   RowLocks          whether tx.Set("gorm:query_option", "FOR UPDATE")   *)
(*                     makes the SELECT lock the row.  The ORM version of  *)
(*                     go.mod (v2) ignores the option: FALSE.              *)
(*   UpdateWritesBack  whether tx.Model(x).Update("balance", v) also       *)
(*                     stores v in x.  It does in v2: TRUE.                *)
(***************************************************************************)
EXTENDS Integers

CONSTANTS
  Accounts,          \* account ids
  Users,             \* user ids
  Owner,             \* Owner[a]: the user_id of account a
  Opening,           \* Opening[a]: the row account a starts with
  Amounts,           \* the positive amounts requests carry
  Requests,          \* every request of every service
  NoRequest,         \* no request: an unlocked row
  RowLocks,          \* see above
  UpdateWritesBack,  \* see above
  Faults,            \* database errors and process crashes may happen
  AmbiguousCommit    \* a COMMIT may take effect and still return an error

AccountStatuses == {"active", "inactive", "closed"}
AccountRow == [balance : Nat, status : AccountStatuses]

ASSUME StoreAssumption ==
  /\ Owner \in [Accounts -> Users]
  /\ Opening \in [Accounts -> AccountRow]
  /\ Amounts \subseteq Nat \ {0}
  /\ NoRequest \notin Requests
  /\ {RowLocks, UpdateWritesBack, Faults, AmbiguousCommit} \subseteq BOOLEAN

VARIABLES
  accounts,  \* accounts[a]: the committed row
  rowLock,   \* rowLock[a]: the request whose open transaction locks row a
  ledger,    \* the committed rows of the transactions table
  posted     \* history: the requests whose balance change has committed

storeVars == <<accounts, rowLock, ledger, posted>>

LedgerRow == [request : Requests, account : Accounts, type : {"credit", "debit"},
              amount : Nat, before : Int, after : Int]

StoreTypeOK ==
  /\ accounts \in [Accounts -> AccountRow]
  /\ rowLock \in [Accounts -> Requests \cup {NoRequest}]
  /\ ledger \subseteq LedgerRow
  /\ posted \subseteq Requests

StoreInit ==
  /\ accounts = Opening
  /\ rowLock = [a \in Accounts |-> NoRequest]
  /\ ledger = {}
  /\ posted = {}

-----------------------------------------------------------------------------
(* Row locks. *)

CanLock(r, a) == rowLock[a] \in {NoRequest, r}

Lock(r, a) == CanLock(r, a) /\ rowLock' = [rowLock EXCEPT ![a] = r]

(* Mutant: the option never locks. *)
SelectUnlocked(r, a) == UNCHANGED rowLock

(* SELECT through the "FOR UPDATE" query option. *)
SelectForUpdate(r, a) == IF RowLocks THEN Lock(r, a) ELSE UNCHANGED rowLock

(* COMMIT or ROLLBACK of r's transaction. *)
Unlock(r) ==
  rowLock' = [a \in Accounts |-> IF rowLock[a] = r THEN NoRequest ELSE rowLock[a]]

(* The process dies: PostgreSQL rolls every open transaction back. *)
DropConnections == rowLock' = [a \in Accounts |-> NoRequest]

-----------------------------------------------------------------------------
(* Balance arithmetic. *)

IsActive(row) == row.status = "active"

Delta(type, amount) == IF type = "credit" THEN amount ELSE -amount

(* The checks UpdateBalance makes on the row it has read. *)
BalanceAllowed(row, type, amount) ==
  /\ IsActive(row)
  /\ type = "debit" => row.balance >= amount

(* Mutant: the sign of a debit is forgotten. *)
BalanceUnsigned(row) == row.before + row.amount = row.after

(* The insert hook of a completed transactions row recomputes its balance. *)
BalanceIsCorrect(row) == row.before + Delta(row.type, row.amount) = row.after

Entry(r, a, type, amount, before, after) ==
  [request |-> r, account |-> a, type |-> type,
   amount |-> amount, before |-> before, after |-> after]

-----------------------------------------------------------------------------
(* UpdateBalance: one database transaction that reads a row, checks it and *)
(* saves ALL its columns, the status it read included.                     *)

(* Mutant: a failed check keeps the row locked. *)
UpdateReadLeaking(r, a, type, amount) == SelectForUpdate(r, a)

(* The SELECT and the checks; the caller keeps row = accounts[a].  A failed *)
(* check rolls back.                                                        *)
UpdateBalanceRead(r, a, type, amount) ==
  IF BalanceAllowed(accounts[a], type, amount)
    THEN SelectForUpdate(r, a)
    ELSE /\ RowLocks => CanLock(r, a)
         /\ UNCHANGED rowLock

(* The full-row UPDATE and the COMMIT. *)
UpdateBalanceSave(r, a, row, type, amount) ==
  /\ CanLock(r, a)
  /\ accounts' = [accounts EXCEPT
                    ![a] = [row EXCEPT !.balance = @ + Delta(type, amount)]]
  /\ posted' = posted \cup {r}
  /\ Unlock(r)
=============================================================================
