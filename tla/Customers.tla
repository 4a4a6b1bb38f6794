----------------------------- MODULE Customers -----------------------------
(***************************************************************************)
(* Customers' accounts: how they are opened, changed, moved to another     *)
(* customer, and deleted with their owner.  Of an account's money only the *)
(* balance is kept, and of the requests that move it only the deposit;     *)
(* AccountService and TransferService have the rest.                       *)
(***************************************************************************)
EXTENDS Sessions

CONSTANTS
  Accounts,      \* accounts there are or can be
  FirstAccount,  \* FirstAccount[a]: the row of account a at the start, or NoAccount
  MaxBalance     \* what an account holds at most at the start

VARIABLE accounts  \* accounts[a]: the row of account a, or NoAccount

Types == {"checking", "savings", "money_market"}
Statuses == {"active", "inactive", "closed"}
AccountRow == [owner : Clients, type : Types, status : Statuses,
               balance : 0..MaxBalance, deleted : BOOLEAN]
NoAccount == [owner |-> "none"]

(* The accounts request r inserts, all of them new. *)
Opened(r) ==
  IF Op(r) = "register" THEN {JobOf[r].accounts["checking"], JobOf[r].accounts["savings"]}
  ELSE IF Op(r) \in {"open", "open for"} THEN {JobOf[r].account} ELSE {}

ASSUME CustomerAssumption ==
  /\ FirstAccount \in [Accounts -> AccountRow \cup {NoAccount}]
  /\ \A a \in Accounts : FirstAccount[a] # NoAccount =>
       LET owner == FirstRow[FirstAccount[a].owner]
       IN owner # NoUser /\ (FirstAccount[a].deleted => owner.deleted)
  /\ MaxBalance \in Nat
  /\ \A r \in Requests :
       /\ JobOf[r].account \in Accounts /\ JobOf[r].to \in Clients
       /\ JobOf[r].type \in Types /\ JobOf[r].amount \in Nat
       /\ Op(r) \in {"set status", "close"} => JobOf[r].status \in Statuses
       /\ Opened(r) \subseteq {a \in Accounts : FirstAccount[a] = NoAccount}
       /\ Op(r) = "register" => JobOf[r].accounts["checking"] # JobOf[r].accounts["savings"]
       /\ \A q \in Requests \ {r} : Opened(q) \cap Opened(r) = {}

NewAccount(u, type, balance) ==
  [owner |-> u, type |-> type, status |-> "active", balance |-> balance, deleted |-> FALSE]

-----------------------------------------------------------------------------
(* Queries. *)

GetAccountByID(a) == accounts[a] # NoAccount /\ ~accounts[a].deleted

GetByUserID(u) == {a \in Accounts : GetAccountByID(a) /\ accounts[a].owner = u}

IsActive(a) == accounts[a].status = "active"

(* Mutant: only the first account found is counted. *)
TotalOfOneIsZero(u) ==
  LET found == {a \in GetByUserID(u) : IsActive(a)}
  IN found # {} => accounts[CHOOSE a \in found : TRUE].balance = 0

(* No balance is negative, so a total of nothing is a sum of nothings. *)
TotalBalanceIsZero(u) == \A a \in GetByUserID(u) : IsActive(a) => accounts[a].balance = 0

(* Mutant: only accounts that are active are looked for. *)
ExistsForUserActive(u, type) == \E a \in GetByUserID(u) : accounts[a].type = type /\ IsActive(a)

ExistsForUser(u, type) ==
  \E a \in GetByUserID(u) : accounts[a].type = type /\ accounts[a].status # "closed"

-----------------------------------------------------------------------------
(* Statements. *)

InsertAccount(a, row) == accounts' = [accounts EXCEPT ![a] = row]

(* Saving a row that was deleted since it was read finds no row to update, *)
(* and inserts it instead: the row is there again, as it was read.         *)
SaveAccount(a, row) == accounts' = [accounts EXCEPT ![a] = row]

(* The mapper runs the validating hook on the empty struct of this update, *)
(* and refuses it, when the load says so.                                  *)
UpdateOwnership(a, u) == accounts' = [accounts EXCEPT ![a].owner = u]

(* Mutant: the accounts stay. *)
SoftDeleteNone(u) == UNCHANGED accounts

SoftDelete(u) ==
  accounts' = [a \in Accounts |->
    IF a \in GetByUserID(u) THEN [accounts[a] EXCEPT !.deleted = TRUE] ELSE accounts[a]]

(* The second statement of the deletion, whose error is dropped. *)
MarkInactive(u) ==
  accounts' = [a \in Accounts |->
    IF accounts[a] # NoAccount /\ accounts[a].owner = u /\ accounts[a].deleted
      THEN [accounts[a] EXCEPT !.status = "inactive"] ELSE accounts[a]]

-----------------------------------------------------------------------------
(* Opening accounts. *)

Decide(r, op, step, ok, next) ==
  Runs(r, {op}, step) /\ Goto(r, IF ok THEN next ELSE "refused") /\ UNCHANGED accounts

CreateAccount(r) ==
  \/ Decide(r, "open", "start", GetByID(Who(r)), "exists")
  \/ Decide(r, "open", "exists", ~ExistsForUser(Who(r), JobOf[r].type), "insert")
  \/ /\ Runs(r, {"open"}, "insert") /\ Goto(r, "done")
     /\ InsertAccount(JobOf[r].account, NewAccount(Who(r), JobOf[r].type, JobOf[r].amount))

(* An administrator opens as many of a type as wanted. *)
CreateAccountForCustomer(r) ==
  \/ Decide(r, "open for", "start", GetByID(Who(r)), "insert")
  \/ /\ Runs(r, {"open for"}, "insert") /\ Goto(r, "done")
     /\ InsertAccount(JobOf[r].account, NewAccount(Who(r), JobOf[r].type, 0))

(* Registering goes on with two accounts.  An error that stops them is     *)
(* only noted, and the sample movements leave some money in each.          *)
CreateAccountsForNewUser(r) ==
  \E type \in {"checking", "savings"} :
    /\ At(r, {"register"}, type)
    /\ \/ /\ InsertAccount(JobOf[r].accounts[type], NewAccount(Who(r), type, 1))
          /\ Goto(r, IF type = "checking" THEN "savings" ELSE "done") /\ UNCHANGED errors
       \/ Error /\ Goto(r, "done") /\ UNCHANGED accounts

-----------------------------------------------------------------------------
(* Changing and moving them. *)

Access(r) == GetAccountByID(JobOf[r].account) /\ accounts[JobOf[r].account].owner = Who(r)

(* Balance and status are read, changed in the copy and saved with it. *)
Deposited(row, amount) == [row EXCEPT !.balance = @ + amount]

StatusAllowed(row, status) ==
  row.status # "closed" /\ (status = "closed" => row.balance = 0)

Deposit(r) ==
  LET a == JobOf[r].account IN
  \/ Decide(r, "deposit", "start", Access(r), "read")
  \/ /\ Runs(r, {"deposit"}, "read") /\ UNCHANGED accounts
     /\ IF GetAccountByID(a) /\ IsActive(a)
          THEN Read(r, "save", [id |-> a, row |-> Deposited(accounts[a], 1)])
          ELSE Goto(r, "refused")
  \/ Runs(r, {"deposit"}, "save") /\ SaveAccount(a, held[r].row) /\ Goto(r, "done")

SetStatus(r) ==
  LET a == JobOf[r].account IN
  \/ /\ Runs(r, {"set status", "close"}, "start") /\ UNCHANGED accounts
     /\ IF Access(r) /\ StatusAllowed(accounts[a], JobOf[r].status)
          THEN Read(r, "save", [id |-> a, row |-> [accounts[a] EXCEPT !.status = JobOf[r].status]])
          ELSE Goto(r, "refused")
  \/ Runs(r, {"set status", "close"}, "save") /\ SaveAccount(a, held[r].row) /\ Goto(r, "done")

TransferAccountOwnership(r) ==
  LET a == JobOf[r].account IN
  \/ Decide(r, "move", "start", Access(r), "from")
  \/ Decide(r, "move", "from", GetByID(Who(r)), "to")
  \/ Decide(r, "move", "to", GetByID(JobOf[r].to), "own")
  \/ /\ Runs(r, {"move"}, "own")
     /\ \/ load.rejects /\ Goto(r, "failed") /\ UNCHANGED accounts
        \/ ~load.rejects /\ ~GetAccountByID(a) /\ Goto(r, "refused") /\ UNCHANGED accounts
        \/ ~load.rejects /\ GetAccountByID(a) /\ Goto(r, "done") /\ UpdateOwnership(a, JobOf[r].to)

-----------------------------------------------------------------------------
(* The customer's deletion.  Nothing holds the four statements together. *)

FindCustomer(r) == Decide(r, "delete customer", "start", GetByID(Who(r)), "balance")

CheckBalance(r) ==
  Decide(r, "delete customer", "balance", TotalBalanceIsZero(Who(r)), "delete")

DeleteOwner(r) ==
  /\ Runs(r, {"delete customer"}, "delete")
  /\ DeleteUserRow(Who(r)) /\ Goto(r, IF GetByID(Who(r)) THEN "sweep" ELSE "refused")

SweepAccounts(r) ==
  /\ Runs(r, {"delete customer"}, "sweep")
  /\ SoftDelete(Who(r)) /\ Goto(r, IF GetByUserID(Who(r)) = {} THEN "done" ELSE "mark")

MarkSwept(r) ==
  /\ At(r, {"delete customer"}, "mark") /\ Goto(r, "done")
  /\ \/ ~load.rejects /\ Logged(MarkInactive(Who(r)), accounts)
     \/ load.rejects /\ UNCHANGED <<errors, accounts>>

DeleteCustomer(r) == FindCustomer(r) \/ CheckBalance(r) \/ SweepAccounts(r) \/ MarkSwept(r)

(* What a view lists is left out. *)
GetCustomerAccounts(r, op) ==
  \/ Decide(r, op, "start", GetByID(Who(r)), "list")
  \/ Decide(r, op, "list", TRUE, "done")

LoggedCustomerSteps == {"checking", "savings", "mark"}
=============================================================================
