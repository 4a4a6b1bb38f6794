----------------------------- MODULE BackOffice -----------------------------
(***************************************************************************)
(* The back office as the server runs it: the handlers that put users,     *)
(* sessions, customers' accounts and external accounts together.  A        *)
(* customer's handler takes the user from the session, an administrator's  *)
(* takes it from the path.  Any statement may fail, and the process may be *)
(* killed.                                                                 *)
(***************************************************************************)
EXTENDS ExternalAccounts

tables == <<users, tokens, blacklist, accounts, externals>>
backOfficeVars == <<callVars, tables>>

BackOfficeInit ==
  /\ CallsInit /\ SessionsInit
  /\ users = [u \in Clients |-> IF FirstRow[u] = NoUser THEN NoUser
                                ELSE [FirstRow[u] EXCEPT !.attempts = FirstAttempts(u)]]
  /\ accounts = FirstAccount /\ externals = FirstExternal

-----------------------------------------------------------------------------
(* Handlers. *)

ByAdmin(r) == Op(r) \in AdminOps /\ JobOf[r].token = Staff

Register(r) == Op(r) = "register" /\ (CheckEmail(r) \/ InsertNewUser(r))
AddCustomer(r) == ByAdmin(r) /\ CreateCustomer(r)
GetMyProfile(r) == Op(r) = "profile" /\ Own(r) /\ GetCustomerProfile(r)
GetProfileOf(r) == Op(r) = "profile of" /\ ByAdmin(r) /\ GetCustomerProfile(r)
UpdateMyEmail(r) == Own(r) /\ UpdateCustomerEmail(r)
UpdateMyPassword(r) == Own(r) /\ CustomerUpdatePassword(r)
ResetCustomerPassword(r) == ByAdmin(r) /\ AdminResetPassword(r)
OpenMyAccount(r) == Own(r) /\ CreateAccount(r)
OpenForCustomer(r) == ByAdmin(r) /\ CreateAccountForCustomer(r)
GetMyAccounts(r) == Own(r) /\ GetCustomerAccounts(r, "accounts")
GetAccountsOf(r) == ByAdmin(r) /\ GetCustomerAccounts(r, "accounts of")
PerformTransaction(r) == Own(r) /\ Deposit(r)
UpdateAccountStatus(r) == Op(r) = "set status" /\ Own(r) /\ SetStatus(r)
CloseAccount(r) == Op(r) = "close" /\ Own(r) /\ SetStatus(r)
MoveAccount(r) == ByAdmin(r) /\ TransferAccountOwnership(r)
AddExternal(r) == Own(r) /\ RegisterExternalAccount(r)
ShowExternal(r) == Own(r) /\ GetExternalAccount(r)
RemoveExternal(r) == Own(r) /\ DeleteExternalAccount(r)

OnUsers(r) ==
  /\ \/ Register(r) \/ AddCustomer(r) \/ GetMyProfile(r) \/ GetProfileOf(r)
     \/ UpdateMyEmail(r) \/ UpdateMyPassword(r) \/ ResetCustomerPassword(r) \/ DeleteOwner(r)
     \/ ByAdmin(r) /\ (UnlockUser(r) \/ DeleteUser(r))
  /\ UNCHANGED <<tokens, blacklist, accounts, externals>>

OnSessions(r) == SessionStep(r) /\ UNCHANGED <<accounts, externals>>

OnAccounts(r) ==
  /\ \/ CreateAccountsForNewUser(r) \/ OpenMyAccount(r) \/ OpenForCustomer(r)
     \/ GetMyAccounts(r) \/ GetAccountsOf(r) \/ PerformTransaction(r)
     \/ UpdateAccountStatus(r) \/ CloseAccount(r) \/ MoveAccount(r) \/ DeleteCustomer(r)
  /\ UNCHANGED <<users, tokens, blacklist, externals>>

OnExternals(r) ==
  /\ \/ AddExternal(r) \/ ShowExternal(r) \/ RemoveExternal(r)
     \/ VerifyAccountWithNorthWind(r)
  /\ UNCHANGED <<users, tokens, blacklist, accounts>>

LoggedSteps == LoggedSessionSteps \cup LoggedCustomerSteps

BackOfficeNext ==
  \/ \E r \in load.work : OnUsers(r) \/ OnSessions(r) \/ OnAccounts(r) \/ OnExternals(r)
  \/ \E r \in load.work : Breaks(r, LoggedSteps) /\ UNCHANGED tables
  \/ Killed /\ UNCHANGED tables

BackOfficeSpec == BackOfficeInit /\ [][BackOfficeNext]_backOfficeVars

-----------------------------------------------------------------------------
(* Properties. *)

(* The user a request is about: a login or a refresh has found it. *)
About(q) == IF Op(q) \in {"login", "refresh"} THEN held[q].id ELSE Who(q)

Changers == Jobs({"open", "open for", "register", "deposit", "set status", "close", "move"})

(* No request that changes accounts overlaps r. *)
Alone(r) == \A q \in Changers \ {r} : ~Overlap(q, r)

(* A deleted customer is gone, accounts and all: unless an account was     *)
(* being changed meanwhile, every account of the customer is deleted, and  *)
(* no active one has money in it; no later request logs the customer in,   *)
(* exchanges a token or opens an account.  The balance, the user's row and *)
(* the accounts are read and written by four statements with nothing to    *)
(* hold them together (customer_profile_service.go:191-211).               *)
DeletedOwnNothing == \A d \in Jobs({"delete customer"}) : pc[d] = "done" =>
  /\ users[Who(d)].deleted
  /\ Alone(d) => \A a \in Accounts :
       accounts[a] # NoAccount /\ accounts[a].owner = Who(d) =>
         accounts[a].deleted /\ (IsActive(a) => accounts[a].balance = 0)
  /\ \A q \in Jobs({"login", "refresh", "open", "open for", "profile", "accounts"}) :
       d \in before[q] /\ About(q) = Who(d) => pc[q] # "done"

Open(a) == GetAccountByID(a) /\ accounts[a].status # "closed"

(* A customer's own request opens no second account of a type, whatever    *)
(* requests ran before it, unless another one that changes accounts        *)
(* overlaps it: if two of a type are there, one of them was opened or moved *)
(* afterwards (account_service.go:69).                                     *)
OneAccountPerType == \A r \in Jobs({"open"}) : pc[r] = "done" /\ Alone(r) =>
  \A a \in Accounts \ {JobOf[r].account} :
    /\ Open(a) /\ Open(JobOf[r].account)
    /\ accounts[a].owner = accounts[JobOf[r].account].owner
    /\ accounts[a].type = accounts[JobOf[r].account].type
    => \E q \in Changers : /\ r \in before[q] /\ Called(q)
                           /\ Op(q) \in {"open", "open for", "move"}
                           /\ JobOf[q].account \in {a, JobOf[r].account}

(* A removed external account stays removed, unless its verification was   *)
(* under way: the verifier saves the row it read before it asked NorthWind *)
(* (external_account_service.go:162), and that inserts a deleted row anew. *)
ExternalStaysDeleted == \A d \in Jobs({"delete external"}) :
  pc[d] = "done" /\ (\A v \in Jobs({"verify"}) : JobOf[v].external = JobOf[d].external => ~Overlap(v, d))
    => externals[JobOf[d].external].deleted
=============================================================================
